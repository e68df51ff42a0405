---------------------------- MODULE ChoicesProofs ----------------------------
(* Theorems about components of ChoicesMC, for any values of the bounds.      *)
EXTENDS ChoicesMC, TLAPS

---------------------------------------------------------------------------
(* MenuCatalog: what becomes of a record of the loads.                      *)

\* A credential is reported after another: a later one, or the same.
Follows(a, b) ==
    Older(a, b) \/ (a.router = b.router /\ a.revision = b.revision /\ a.saved = b.saved)

\* What was listed with a credential may be on screen while the app shows status s.
Recent(of, s) == of # NoAuth /\ s.saved => ~Older(of, s)

Loads(c) ==
    /\ c.catalog \in Catalogs /\ c.generation \in Nat /\ c.again \in {0, c.generation}
    /\ c.fetches \in [1..MaxLoads -> Answers]
LoadsRecent(c, s) ==
    /\ Recent(c.catalog.of, s) /\ Recent(c.catalog.kept, s)
    /\ \A g \in 1..MaxLoads : Recent(c.fetches[g].auth, s)

\* A catalog that is loading has a request, or a page at `at` that will make one.
LoadUnderway(c, at) ==
    c.catalog.state = "loading" /\ c.generation <= MaxLoads =>
        /\ c.generation > 0
        /\ c.fetches[c.generation].is # "none" \/ at \in {"reload", "status"}

Good(c, s, at) == Loads(c) /\ LoadsRecent(c, s) /\ LoadUnderway(c, at)

\* After an invalidation nothing is on screen and nobody is asked.
LEMMA InvalidatedGood ==
    ASSUME NEW c, Loads(c), NEW s, NEW at
    PROVE  Good(invalidateModelCatalog(c), s, at) /\ invalidateModelCatalog(c).catalog.state = "idle"
<1> DEFINE d == invalidateModelCatalog(c)
<1>1. /\ d.catalog = [state |-> "idle", of |-> NoAuth, kept |-> NoAuth]
      /\ d.generation = c.generation + 1 /\ d.again = 0 /\ d.fetches = [g \in 1..MaxLoads |-> Nothing]
  BY DEF invalidateModelCatalog, Cancelled, Loads
<1>2. Nothing \in Answers /\ Nothing.auth = NoAuth
  BY DEF Nothing, Answers
<1> HIDE DEF d
<1>3. Loads(d)
  <2>1. d.catalog \in Catalogs
    BY <1>1 DEF Catalogs, States, MaybeAuth
  <2>2. d.generation \in Nat /\ d.again \in {0, d.generation}
    BY <1>1 DEF Loads
  <2>3. d.fetches \in [1..MaxLoads -> Answers]
    BY <1>1, <1>2
  <2> QED
    BY <2>1, <2>2, <2>3 DEF Loads
<1>4. LoadsRecent(d, s) /\ LoadUnderway(d, at)
  BY <1>1, <1>2 DEF LoadsRecent, Recent, LoadUnderway
<1> QED
  BY <1>1, <1>3, <1>4 DEF Good, d

\* A new load keeps what was on screen and asks nobody yet.
LEMMA BegunGood ==
    ASSUME NEW c, Loads(c), NEW s, LoadsRecent(c, s)
    PROVE  LET d == beginModelCatalogLoading(c)
           IN  /\ Loads(d) /\ LoadsRecent(d, s) /\ d.generation = c.generation + 1
               /\ \A at \in {"reload", "status"} : Good(d, s, at)
<1> DEFINE d == beginModelCatalogLoading(c)
           left == CASE c.catalog.state = "ready"   -> c.catalog.of
                   [] c.catalog.state = "loading" -> c.catalog.kept
                   [] OTHER                       -> NoAuth
<1>1. /\ d.catalog = [state |-> "loading", of |-> NoAuth, kept |-> left]
      /\ d.generation = c.generation + 1 /\ d.again = 0 /\ d.fetches = [g \in 1..MaxLoads |-> Nothing]
  BY DEF beginModelCatalogLoading, Cancelled, Loads
<1>2. Nothing \in Answers /\ Nothing.auth = NoAuth
  BY DEF Nothing, Answers
<1>3. left \in {c.catalog.of, c.catalog.kept, NoAuth}
  OBVIOUS
<1>4. left \in MaybeAuth
  BY <1>3 DEF Loads, Catalogs, MaybeAuth
<1> HIDE DEF d, left
<1>5. Loads(d)
  <2>1. d.catalog \in Catalogs
    BY <1>1, <1>4 DEF Catalogs, States, MaybeAuth
  <2>2. d.generation \in Nat /\ d.again \in {0, d.generation}
    BY <1>1 DEF Loads
  <2>3. d.fetches \in [1..MaxLoads -> Answers]
    BY <1>1, <1>2
  <2> QED
    BY <2>1, <2>2, <2>3 DEF Loads
<1>6. LoadsRecent(d, s)
  BY <1>1, <1>2, <1>3 DEF LoadsRecent, Recent
<1>7. ASSUME NEW at \in {"reload", "status"} PROVE LoadUnderway(d, at)
  BY <1>1 DEF LoadUnderway, Loads
<1> QED
  BY <1>1, <1>5, <1>6, <1>7 DEF Good, d

\* A requested load is under way.
LEMMA RequestedGood ==
    ASSUME NEW c, Loads(c), NEW s, LoadsRecent(c, s), NEW at
    PROVE  Good(requestModelCatalogRefresh(c), s, at)
<1> DEFINE b == beginModelCatalogLoading(c)
           d == requestModelCatalogRefresh(c)
<1>1. Loads(b) /\ LoadsRecent(b, s) /\ b.generation = c.generation + 1
  BY BegunGood
<1>2. /\ d.catalog = b.catalog /\ d.generation = b.generation /\ d.again = b.again
      /\ d.fetches = [g \in 1..MaxLoads |-> IF g = b.generation THEN Opened ELSE b.fetches[g]]
  BY DEF requestModelCatalogRefresh, beginModelCatalogLoading
<1> HIDE DEF b, d
<1>3. Opened \in Answers /\ Opened.auth = NoAuth /\ Opened.is = "open"
  BY DEF Opened, Answers
<1>4. Loads(d)
  <2>1. d.catalog \in Catalogs /\ d.generation \in Nat /\ d.again \in {0, d.generation}
    BY <1>1, <1>2 DEF Loads
  <2>2. \A g \in 1..MaxLoads : b.fetches[g] \in Answers
    BY <1>1 DEF Loads
  <2>3. d.fetches \in [1..MaxLoads -> Answers]
    BY <1>2, <1>3, <2>2
  <2> QED
    BY <2>1, <2>3 DEF Loads
<1>5. LoadsRecent(d, s)
  BY <1>1, <1>2, <1>3 DEF LoadsRecent, Recent
<1>6. LoadUnderway(d, at)
  BY <1>1, <1>2, <1>3, CatalogBounds DEF LoadUnderway, Loads, CatalogBounds
<1> QED
  BY <1>4, <1>5, <1>6 DEF Good, d

\* A load that is only ensured.
LEMMA EnsuredGood ==
    ASSUME NEW c, NEW s, NEW at, Good(c, s, at)
    PROVE  Good(ensureModelCatalogLoaded(c), s, at)
BY RequestedGood DEF ensureModelCatalogLoaded, Good

---------------------------------------------------------------------------
(* MenuCatalog: the invariant.                                              *)

\* Status answers are applied in the order in which the router gave them.
InOrder ==
    /\ Follows(shown, auth)
    /\ \A i \in DOMAIN statuses : Follows(shown, statuses[i].auth) /\ Follows(statuses[i].auth, auth)
    /\ \A i, j \in DOMAIN statuses : i < j => Follows(statuses[i].auth, statuses[j].auth)

MenuCatalogInv == MenuCatalogTypeOK /\ InOrder /\ Good(Now, shown, page.at)

\* The app starts with the router's status and no catalog.
LEMMA MenuCatalogInvInit == MenuCatalogInit => MenuCatalogInv
<1> USE CatalogBounds DEF CatalogBounds
<1> SUFFICES ASSUME MenuCatalogInit PROVE MenuCatalogInv
  OBVIOUS
<1>1. Nothing \in Answers /\ Nothing.auth = NoAuth
  BY DEF Nothing, Answers
<1>2. AuthType /\ TaskType
  BY DEF MenuCatalogInit, AuthType, TaskType, Pages
<1>3. LoadType /\ Loads(Now)
  BY <1>1 DEF MenuCatalogInit, LoadType, Loads, Now, Catalogs, States, MaybeAuth
<1>4. LoadsRecent(Now, shown) /\ LoadUnderway(Now, page.at)
  BY <1>1 DEF MenuCatalogInit, LoadsRecent, Recent, LoadUnderway, Now
<1>5. InOrder
  BY DEF MenuCatalogInit, InOrder, Follows
<1> QED
  BY <1>2, <1>3, <1>4, <1>5 DEF MenuCatalogInv, MenuCatalogTypeOK, Good

\* The catalog becomes a record that is good for what is shown by then.
LEMMA BecomesGood ==
    ASSUME NEW c, NEW s, NEW at, Good(c, s, at), Becomes(c), shown' = s, page'.at = at
    PROVE  LoadType' /\ Good(Now, shown, page.at)'
<1> USE CatalogBounds DEF CatalogBounds
<1>1. /\ catalog' = c.catalog /\ generation' = c.generation /\ again' = c.again /\ fetches' = c.fetches
      /\ c.generation <= MaxLoads
  BY DEF Becomes
<1>2. LoadType'
  BY <1>1 DEF LoadType, Good, Loads
<1>3. Good(Now, shown, page.at)'
  BY <1>1 DEF Good, Loads, LoadsRecent, LoadUnderway, Now
<1> QED
  BY <1>2, <1>3

\* While the catalog is loading, the last generation has a request or will have one.
LEMMA UnderwayNow ==
    ASSUME LoadType, Good(Now, shown, page.at), catalog.state = "loading"
    PROVE  /\ generation > 0 /\ generation \in 1..MaxLoads
           /\ fetches[generation].is # "none" \/ page.at \in {"reload", "status"}
<1>1. generation \in 0..MaxLoads
  BY DEF LoadType
<1>2. generation \in Nat /\ generation <= MaxLoads
  BY <1>1, CatalogBounds DEF CatalogBounds
<1>3. /\ Now.catalog = catalog /\ Now.generation = generation /\ Now.fetches = fetches
      /\ LoadUnderway(Now, page.at)
  BY DEF Good, Now
<1>4. /\ generation > 0
      /\ fetches[generation].is # "none" \/ page.at \in {"reload", "status"}
  BY <1>2, <1>3 DEF LoadUnderway
<1> QED
  BY <1>1, <1>4, CatalogBounds DEF CatalogBounds

\* The loads rest.
LEMMA LoadsRest ==
    ASSUME MenuCatalogInv, UNCHANGED <<catalog, generation, again, fetches, shown>>,
           page'.at = page.at \/ (page.at = "reload" /\ page'.at = "status")
    PROVE  LoadType' /\ Good(Now, shown, page.at)'
<1>1. LoadType'
  BY DEF MenuCatalogInv, MenuCatalogTypeOK, LoadType
<1>2. Good(Now, shown, page.at)'
  BY DEF MenuCatalogInv, Good, Loads, LoadsRecent, LoadUnderway, Now
<1> QED
  BY <1>1, <1>2

\* What is on screen is recent for a status that follows the one shown, unless the saved key moved.
LEMMA StillRecent ==
    ASSUME NEW of, NEW old \in Auths, NEW new \in Auths, Recent(of, old), Follows(old, new),
           ~SavedKeyMoved(old, new)
    PROVE  Recent(of, new)
<1>1. old # NoAuth
  BY DEF Auths, NoAuth
<1>2. CASE ~new.saved
  BY <1>2 DEF Recent
<1>3. CASE new.saved
  <2>1. old.router = new.router /\ old.revision = new.revision
    BY <1>1, <1>3 DEF SavedKeyMoved
  <2>a. old.router \in Nat /\ old.revision \in Nat /\ old.saved \in BOOLEAN /\ new.saved \in BOOLEAN
    BY CatalogBounds DEF Auths, CatalogBounds
  <2>b. ~Older(old, new)
    BY <2>1, <2>a DEF Older
  <2>2. old.saved
    BY <2>a, <2>b, <1>3 DEF Follows
  <2> QED
    BY <2>1, <2>2 DEF Recent, Older
<1> QED
  BY <1>2, <1>3

\* What an earlier credential was followed by follows it still.
LEMMA FollowsOn ==
    ASSUME NEW a \in Auths, NEW b \in Auths, NEW c \in Auths, Follows(a, b), Follows(b, c)
    PROVE  Follows(a, c)
<1>1. /\ a.router \in Nat /\ b.router \in Nat /\ c.router \in Nat
      /\ a.revision \in Nat /\ b.revision \in Nat /\ c.revision \in Nat
  BY CatalogBounds DEF Auths, CatalogBounds
<1> QED
  BY <1>1 DEF Follows, Older

\* Nothing that follows is older.
LEMMA FollowsRecent ==
    ASSUME NEW a \in Auths, NEW b \in Auths, Follows(a, b)
    PROVE  Recent(b, a)
<1>1. /\ a.router \in Nat /\ b.router \in Nat /\ a.revision \in Nat /\ b.revision \in Nat
  BY CatalogBounds DEF Auths, CatalogBounds
<1> QED
  <2>1. ~Older(b, a)
    BY <1>1 DEF Follows, Older
  <2> QED
    BY <2>1 DEF Recent

\* What the next status leaves of the catalog is good for it.
LEMMA AfterStatusGood ==
    ASSUME MenuCatalogInv, NEW new \in Auths, Follows(shown, new)
    PROVE  Good(AfterStatus(shown, new), new, page.at)
<1>1. Loads(Now) /\ LoadsRecent(Now, shown) /\ LoadUnderway(Now, page.at) /\ shown \in Auths
  BY DEF MenuCatalogInv, Good, MenuCatalogTypeOK, AuthType
<1>2. CASE SavedKeyMoved(shown, new)
  <2>1. Good(invalidateModelCatalog(Now), new, page.at)
    BY <1>1, InvalidatedGood
  <2> QED
    BY <1>2, <2>1, EnsuredGood DEF AfterStatus
<1>3. CASE ~SavedKeyMoved(shown, new)
  <2>1. LoadsRecent(Now, new)
    BY <1>1, <1>3, StillRecent DEF LoadsRecent
  <2>2. Good(Now, new, page.at)
    BY <1>1, <2>1 DEF Good
  <2>3. Good(requestModelCatalogRefresh(Now), new, page.at)
    BY <1>1, <2>1, RequestedGood
  <2>4. Good([Now EXCEPT !.again = generation], new, page.at)
    BY <2>2 DEF Good, Loads, LoadsRecent, LoadUnderway, Now
  <2> QED
    BY <1>3, <2>2, <2>3, <2>4 DEF AfterStatus
<1> QED
  BY <1>2, <1>3

\* The order of what was reported, when the router's credential moves on.
LEMMA AuthMoves ==
    ASSUME MenuCatalogInv, auth' \in Auths, Follows(auth, auth'), UNCHANGED <<shown, statuses>>
    PROVE  AuthType' /\ InOrder'
<1>1. AuthType /\ InOrder
  BY DEF MenuCatalogInv, MenuCatalogTypeOK
<1>2. AuthType'
  BY <1>1 DEF AuthType
<1>3. \A i \in DOMAIN statuses : statuses[i].auth \in Auths
  <2> DEFINE S == [by : {"loop", "page", "key"}, auth : Auths]
  <2>1. statuses \in Seq(S) /\ \A e \in S : e.auth \in Auths
    BY <1>1 DEF AuthType
  <2> HIDE DEF S
  <2>2. \A i \in DOMAIN statuses : statuses[i] \in S
    BY <2>1
  <2> QED
    BY <2>1, <2>2
<1>4. \A i \in DOMAIN statuses : Follows(statuses[i].auth, auth')
  BY <1>1, <1>3, FollowsOn DEF InOrder, AuthType
<1>5. Follows(shown, auth')
  BY <1>1, FollowsOn DEF InOrder, AuthType
<1> QED
  BY <1>1, <1>2, <1>4, <1>5 DEF InOrder

\* Every step of the router preserves the invariant.
LEMMA RouterKeeps ==
    ASSUME MenuCatalogInv,
           \/ AuthChanges \/ KeyAnswered \/ \E by \in {"loop", "page", "key"} : StatusAnswered(by)
           \/ \E g \in 1..MaxLoads : CatalogAnswered(g)
    PROVE  MenuCatalogInv'
<1> USE CatalogBounds DEF CatalogBounds
<1>a. AuthType /\ LoadType /\ TaskType /\ InOrder /\ Good(Now, shown, page.at)
  BY DEF MenuCatalogInv, MenuCatalogTypeOK
<1>b. auth \in Auths /\ auth.router \in Nat /\ auth.revision \in Nat
  BY <1>a DEF AuthType, Auths
<1>1. CASE AuthChanges
  <2>1. auth' \in Auths /\ Follows(auth, auth') /\ UNCHANGED <<shown, statuses>>
    <3>1. PICK a \in Auths :
            /\ \/ /\ a.router = auth.router /\ a.revision = auth.revision + 1
                  /\ a.saved \/ auth.saved
               \/ /\ a.router = auth.router /\ a.revision = auth.revision
                  /\ ~a.saved /\ ~auth.saved /\ a.healthy # auth.healthy
               \/ /\ a.router = auth.router + 1 /\ a.revision = 0
            /\ auth' = a
            /\ UNCHANGED <<shown, statuses, catalog, generation, again, fetches, page, keyChange>>
      BY <1>1 DEF AuthChanges
    <3>2. a.saved \in BOOLEAN /\ auth.saved \in BOOLEAN
      BY <1>b DEF Auths
    <3>3. ~a.saved /\ ~auth.saved => a.saved = auth.saved
      BY <3>2
    <3>4. Follows(auth, a)
      BY <1>b, <3>1, <3>3 DEF Follows, Older
    <3> QED
      BY <3>1, <3>4
  <2>2. AuthType' /\ InOrder'
    BY <2>1, AuthMoves
  <2>3. LoadType' /\ Good(Now, shown, page.at)' /\ TaskType'
    BY <1>1, <1>a, LoadsRest DEF AuthChanges, TaskType
  <2> QED
    BY <2>2, <2>3 DEF MenuCatalogInv, MenuCatalogTypeOK
<1>2. CASE KeyAnswered
  <2>1. auth' \in Auths /\ Follows(auth, auth') /\ UNCHANGED <<shown, statuses>>
    <3>1. CASE UNCHANGED auth
      BY <1>2, <1>b, <3>1 DEF KeyAnswered, Follows
    <3>2. ASSUME NEW healthy \in BOOLEAN, NEW saved \in BOOLEAN, auth.revision < MaxAuths,
                 auth' = [auth EXCEPT !.revision = @ + 1, !.saved = saved, !.healthy = healthy]
          PROVE  auth' \in Auths /\ Follows(auth, auth')
      <4>1. auth'.router = auth.router /\ auth'.revision = auth.revision + 1
        BY <1>b, <3>2 DEF Auths
      <4>a. auth.revision + 1 \in 0..MaxAuths
        BY <1>b, <3>2
      <4>2. auth' \in Auths
        BY <1>b, <3>2, <4>a DEF Auths
      <4> QED
        BY <1>b, <4>1, <4>2 DEF Follows, Older
    <3> QED
      BY <1>2, <3>1, <3>2 DEF KeyAnswered
  <2>2. AuthType' /\ InOrder'
    BY <2>1, AuthMoves
  <2>3. LoadType' /\ Good(Now, shown, page.at)' /\ TaskType'
    BY <1>2, <1>a, LoadsRest DEF KeyAnswered, TaskType
  <2> QED
    BY <2>2, <2>3 DEF MenuCatalogInv, MenuCatalogTypeOK
<1>3. ASSUME NEW by \in {"loop", "page", "key"}, StatusAnswered(by) PROVE MenuCatalogInv'
  <2> DEFINE entry == [by |-> by, auth |-> auth]
             n == Len(statuses)
  <2>1. statuses' = Append(statuses, entry) /\ UNCHANGED <<auth, shown>>
    BY <1>3 DEF StatusAnswered
  <2>2. entry \in [by : {"loop", "page", "key"}, auth : Auths] /\ entry.auth = auth
    BY <1>b
  <2>3. statuses' \in Seq([by : {"loop", "page", "key"}, auth : Auths])
    BY <1>a, <2>1, <2>2 DEF AuthType
  <2>4. AuthType'
    BY <1>a, <2>1, <2>3 DEF AuthType
  <2>5. n \in Nat /\ DOMAIN statuses = 1..n /\ DOMAIN statuses' = 1..(n + 1)
        /\ statuses'[n + 1] = entry /\ \A i \in 1..n : statuses'[i] = statuses[i]
    BY <1>a, <2>1, <2>2 DEF AuthType
  <2> HIDE DEF n, entry
  <2>6. \A i \in 1..(n + 1) : i \in 1..n \/ i = n + 1
    BY <2>5
  <2>7. Follows(auth, auth)
    BY DEF Follows
  <2>8. \A i \in DOMAIN statuses' : Follows(shown, statuses'[i].auth) /\ Follows(statuses'[i].auth, auth)
    BY <1>a, <2>2, <2>5, <2>6, <2>7 DEF InOrder
  <2>9. ASSUME NEW i \in DOMAIN statuses', NEW j \in DOMAIN statuses', i < j
        PROVE  Follows(statuses'[i].auth, statuses'[j].auth)
    <3>1. i \in 1..n
      BY <2>5, <2>9
    <3> QED
      BY <1>a, <2>2, <2>5, <2>6, <2>9, <3>1 DEF InOrder
  <2>10. InOrder'
    BY <1>a, <2>1, <2>8, <2>9 DEF InOrder
  <2>11. LoadType' /\ Good(Now, shown, page.at)' /\ TaskType'
    BY <1>3, <1>a, LoadsRest DEF StatusAnswered, TaskType
  <2> QED
    BY <2>4, <2>10, <2>11 DEF MenuCatalogInv, MenuCatalogTypeOK
<1>4. ASSUME NEW g \in 1..MaxLoads, CatalogAnswered(g) PROVE MenuCatalogInv'
  <2>1. PICK kind \in {"ready", "signed out", "error"} :
            fetches' = [fetches EXCEPT ![g] = [is |-> kind, auth |-> auth]]
    BY <1>4 DEF CatalogAnswered
  <2>2. PICK f : f = [is |-> kind, auth |-> auth]
    OBVIOUS
  <2>3. f \in Answers /\ f.auth = auth /\ f.is # "none"
    BY <1>b, <2>2 DEF Answers
  <2>4. /\ fetches' \in [1..MaxLoads -> Answers] /\ fetches'[g] = f
        /\ \A h \in 1..MaxLoads \ {g} : fetches'[h] = fetches[h]
    BY <1>a, <2>1, <2>2, <2>3 DEF LoadType
  <2>5. UNCHANGED <<auth, shown, statuses, catalog, generation, again, page, keyChange>>
    BY <1>4 DEF CatalogAnswered
  <2>6. AuthType' /\ TaskType' /\ InOrder' /\ LoadType'
    BY <1>a, <2>4, <2>5 DEF AuthType, TaskType, InOrder, LoadType
  <2>7. Recent(auth, shown)
    BY <1>a, FollowsRecent DEF InOrder, AuthType
  <2>8. Loads(Now)'
    BY <1>a, <2>4, <2>5 DEF Good, Loads, Now
  <2>9. LoadsRecent(Now, shown)'
    BY <1>a, <2>3, <2>4, <2>5, <2>7 DEF Good, LoadsRecent, Now
  <2>10. LoadUnderway(Now, page.at)'
    <3> SUFFICES ASSUME catalog.state = "loading"
                 PROVE  /\ generation > 0
                        /\ fetches'[generation].is # "none" \/ page.at \in {"reload", "status"}
      BY <2>5 DEF LoadUnderway, Now
    <3>1. /\ generation > 0 /\ generation \in 1..MaxLoads
          /\ fetches[generation].is # "none" \/ page.at \in {"reload", "status"}
      BY <1>a, UnderwayNow
    <3>2. generation = g \/ generation \in 1..MaxLoads \ {g}
      BY <3>1
    <3> QED
      BY <2>3, <2>4, <3>1, <3>2
  <2> QED
    BY <2>6, <2>8, <2>9, <2>10 DEF MenuCatalogInv, MenuCatalogTypeOK, Good
<1> QED
  BY <1>1, <1>2, <1>3, <1>4

\* What has arrived is shown, and the rest follows it still.
LEMMA NextShown ==
    ASSUME AuthType, InOrder, statuses # <<>>, statuses' = Tail(statuses), shown' = Head(statuses).auth,
           UNCHANGED auth
    PROVE  AuthType' /\ InOrder' /\ Head(statuses).auth \in Auths /\ Follows(shown, Head(statuses).auth)
<1> DEFINE S == [by : {"loop", "page", "key"}, auth : Auths]
           n == Len(statuses)
<1>1. statuses \in Seq(S) /\ \A e \in S : e.auth \in Auths
  BY DEF AuthType
<1> HIDE DEF S
<1>2. /\ n \in Nat /\ n > 0 /\ DOMAIN statuses = 1..n /\ Head(statuses) = statuses[1] /\ statuses[1] \in S
      /\ Tail(statuses) \in Seq(S) /\ DOMAIN Tail(statuses) = 1..(n - 1)
      /\ \A i \in 1..(n - 1) : Tail(statuses)[i] = statuses[i + 1]
  BY <1>1
<1> HIDE DEF n
<1>3. 1 \in 1..n /\ \A i \in 1..(n - 1) : i + 1 \in 1..n /\ 1 < i + 1
  BY <1>2
<1>4. AuthType'
  BY <1>1, <1>2 DEF AuthType, S
<1>5. Follows(shown, statuses[1].auth) /\ Follows(statuses[1].auth, auth)
  BY <1>2, <1>3 DEF InOrder
<1>6. \A i \in 1..(n - 1) : /\ Follows(statuses[1].auth, statuses[i + 1].auth)
                            /\ Follows(statuses[i + 1].auth, auth)
  BY <1>2, <1>3 DEF InOrder
<1>7. \A i, j \in 1..(n - 1) : i < j => Follows(statuses[i + 1].auth, statuses[j + 1].auth)
  <2> SUFFICES ASSUME NEW i \in 1..(n - 1), NEW j \in 1..(n - 1), i < j
      PROVE  Follows(statuses[i + 1].auth, statuses[j + 1].auth)
    OBVIOUS
  <2>1. i + 1 \in 1..n /\ j + 1 \in 1..n /\ i + 1 < j + 1
    BY <1>2, <1>3
  <2> QED
    BY <1>2, <2>1 DEF InOrder
<1>8. InOrder'
  BY <1>2, <1>5, <1>6, <1>7 DEF InOrder
<1> QED
  BY <1>1, <1>2, <1>4, <1>5, <1>8

\* The credentials rest, in the router, on screen and on their way.
LEMMA AuthRests ==
    ASSUME MenuCatalogInv, UNCHANGED <<auth, shown, statuses>>
    PROVE  AuthType' /\ InOrder' /\ Good(Now, shown, page.at) /\ Loads(Now) /\ LoadsRecent(Now, shown)
BY DEF MenuCatalogInv, MenuCatalogTypeOK, AuthType, InOrder, Good

\* A status that is applied preserves the invariant.
LEMMA StatusKeeps == MenuCatalogInv /\ StatusApplied => MenuCatalogInv'
<1> SUFFICES ASSUME MenuCatalogInv, StatusApplied PROVE MenuCatalogInv'
  OBVIOUS
<1> DEFINE s == Head(statuses)
           c == AfterStatus(shown, s.auth)
<1>1. /\ statuses # <<>> /\ statuses' = Tail(statuses) /\ shown' = s.auth /\ UNCHANGED auth
      /\ \/ /\ s.by = "page" /\ page.at = "status" /\ page' = [page EXCEPT !.at = "catalog"]
            /\ Becomes(requestModelCatalogRefresh(c)) /\ UNCHANGED keyChange
         \/ keyChange' = "done" /\ Becomes(ensureModelCatalogLoaded(c)) /\ UNCHANGED page
         \/ Becomes(c) /\ UNCHANGED <<page, keyChange>>
  BY DEF StatusApplied
<1>2. AuthType' /\ InOrder' /\ s.auth \in Auths /\ Follows(shown, s.auth)
  BY <1>1, NextShown DEF MenuCatalogInv, MenuCatalogTypeOK
<1>3. Good(c, s.auth, page.at)
  BY <1>2, AfterStatusGood
<1>4. TaskType /\ page \in Pages
  BY DEF MenuCatalogInv, MenuCatalogTypeOK, TaskType
<1>5. TaskType'
  BY <1>1, <1>4 DEF TaskType, Pages
<1> HIDE DEF s, c
<1>6. LoadType' /\ Good(Now, shown, page.at)'
  <2>1. CASE page' = [page EXCEPT !.at = "catalog"] /\ Becomes(requestModelCatalogRefresh(c))
    <3>1. page'.at = "catalog"
      BY <2>1, <1>4 DEF Pages
    <3>2. Good(requestModelCatalogRefresh(c), s.auth, "catalog")
      BY <1>3, RequestedGood DEF Good
    <3> QED
      BY <1>1, <2>1, <3>1, <3>2, BecomesGood
  <2>2. CASE Becomes(ensureModelCatalogLoaded(c)) /\ UNCHANGED page
    <3>1. Good(ensureModelCatalogLoaded(c), s.auth, page.at)
      BY <1>3, EnsuredGood
    <3> QED
      BY <1>1, <2>2, <3>1, BecomesGood
  <2>3. CASE Becomes(c) /\ UNCHANGED page
    BY <1>1, <1>3, <2>3, BecomesGood
  <2> QED
    BY <1>1, <2>1, <2>2, <2>3
<1> QED
  BY <1>2, <1>5, <1>6 DEF MenuCatalogInv, MenuCatalogTypeOK

\* So does a load that returns.
LEMMA ReturnKeeps ==
    ASSUME MenuCatalogInv, NEW g \in 1..MaxLoads, LoadReturns(g)
    PROVE  MenuCatalogInv'
<1> USE CatalogBounds DEF CatalogBounds
<1>1. AuthType' /\ InOrder' /\ Good(Now, shown, page.at) /\ Loads(Now) /\ LoadsRecent(Now, shown)
  BY AuthRests DEF LoadReturns
<1>2. LoadType /\ TaskType /\ TaskType'
  BY DEF MenuCatalogInv, MenuCatalogTypeOK, TaskType, LoadReturns
<1>3. fetches[g] \in Answers /\ Recent(fetches[g].auth, shown)
  BY <1>1, <1>2 DEF LoadType, LoadsRecent, Now
<1>4. Nothing \in Answers /\ Nothing.auth = NoAuth
  BY DEF Nothing, Answers
<1>5. PICK fs : fs = [fetches EXCEPT ![g] = Nothing]
  OBVIOUS
<1>6. /\ fs \in [1..MaxLoads -> Answers] /\ fs[g] = Nothing
      /\ \A h \in 1..MaxLoads \ {g} : fs[h] = fetches[h]
  BY <1>2, <1>4, <1>5 DEF LoadType
<1>7. \A h \in 1..MaxLoads : Recent(fs[h].auth, shown)
  BY <1>1, <1>4, <1>6 DEF LoadsRecent, Recent, Now
<1>8. CASE g # generation
  <2>1. fetches' = fs /\ UNCHANGED <<catalog, generation, again, shown, page>>
    BY <1>5, <1>8 DEF LoadReturns
  <2>2. LoadType' /\ Loads(Now)' /\ LoadsRecent(Now, shown)'
    BY <1>1, <1>2, <1>6, <1>7, <2>1 DEF LoadType, Loads, LoadsRecent, Now
  <2>3. LoadUnderway(Now, page.at)'
    <3> SUFFICES ASSUME catalog.state = "loading"
                 PROVE  /\ generation > 0
                        /\ fs[generation].is # "none" \/ page.at \in {"reload", "status"}
      BY <2>1 DEF LoadUnderway, Now
    <3>1. /\ generation > 0 /\ generation \in 1..MaxLoads
          /\ fetches[generation].is # "none" \/ page.at \in {"reload", "status"}
      BY <1>1, <1>2, UnderwayNow
    <3> QED
      BY <1>6, <1>8, <3>1
  <2> QED
    BY <1>1, <1>2, <2>2, <2>3 DEF MenuCatalogInv, MenuCatalogTypeOK, Good
<1>9. CASE g = generation
  <2>1. PICK cat : cat = [state |-> fetches[g].is, of |-> fetches[g].auth, kept |-> NoAuth]
    OBVIOUS
  <2>2. PICK more : more = IF again = g THEN 0 ELSE again
    OBVIOUS
  <2>3. PICK settled : settled = [Now EXCEPT !.catalog = cat, !.again = more, !.fetches = fs]
    OBVIOUS
  <2>4. settled.catalog = cat /\ settled.generation = generation /\ settled.again = more /\ settled.fetches = fs
    BY <2>3 DEF Now
  <2>5. /\ fetches[g].is \in {"ready", "signed out", "error"}
        /\ Becomes(IF again = g /\ fetches[g].is # "ready" THEN requestModelCatalogRefresh(settled) ELSE settled)
        /\ UNCHANGED <<shown, page>>
    BY <1>5, <1>9, <2>1, <2>2, <2>3 DEF LoadReturns
  <2>6. cat \in Catalogs /\ cat.state # "loading" /\ cat.of = fetches[g].auth /\ cat.kept = NoAuth
    BY <1>3, <2>1, <2>5 DEF Catalogs, States, MaybeAuth, Answers
  <2>7. Loads(settled)
    BY <1>2, <1>6, <2>2, <2>4, <2>6 DEF Loads, LoadType
  <2>8. LoadsRecent(settled, shown)
    BY <1>3, <1>7, <2>4, <2>6 DEF LoadsRecent, Recent
  <2>9. Good(settled, shown, page.at)
    BY <2>4, <2>6, <2>7, <2>8 DEF Good, LoadUnderway
  <2>10. Good(requestModelCatalogRefresh(settled), shown, page.at)
    BY <2>7, <2>8, RequestedGood
  <2>11. LoadType' /\ Good(Now, shown, page.at)'
    BY <2>5, <2>9, <2>10, BecomesGood
  <2> QED
    BY <1>1, <1>2, <2>11 DEF MenuCatalogInv, MenuCatalogTypeOK
<1> QED
  BY <1>8, <1>9

\* So does every other step of the window, the toolbar and the key's dialog.
LEMMA ControlsKeep ==
    ASSUME MenuCatalogInv,
           \/ ViewAppears \/ requestClientPageRefresh \/ PageReloadsAuth \/ PageWithoutStatus \/ PageEnds
           \/ updateSavedAPIKey \/ KeyWithoutStatus
    PROVE  MenuCatalogInv'
<1>1. UNCHANGED <<auth, shown, statuses>>
  BY DEF ViewAppears, requestClientPageRefresh, PageReloadsAuth, PageWithoutStatus, PageEnds,
         updateSavedAPIKey, KeyWithoutStatus
<1>2. AuthType' /\ InOrder' /\ Good(Now, shown, page.at) /\ Loads(Now) /\ LoadsRecent(Now, shown)
  BY <1>1, AuthRests
<1>3. LoadType /\ TaskType /\ page \in Pages
  BY DEF MenuCatalogInv, MenuCatalogTypeOK, TaskType
<1>4. ASSUME BeginPage(Now) PROVE page' \in Pages /\ LoadType' /\ Good(Now, shown, page.at)'
  <2>1. Good(beginModelCatalogLoading(Now), shown, "reload")
    BY <1>2, BegunGood
  <2>2. page'.at = "reload" /\ page' \in Pages /\ Becomes(beginModelCatalogLoading(Now))
    BY <1>4 DEF BeginPage, Pages
  <2> QED
    BY <1>1, <2>1, <2>2, BecomesGood
<1>5. CASE ViewAppears
  <2>1. Good(ensureModelCatalogLoaded(Now), shown, page.at)
    BY <1>2, EnsuredGood
  <2>2. Becomes(ensureModelCatalogLoaded(Now)) /\ UNCHANGED <<page, keyChange>>
    BY <1>5 DEF ViewAppears
  <2>3. LoadType' /\ Good(Now, shown, page.at)'
    BY <1>1, <2>1, <2>2, BecomesGood
  <2> QED
    BY <1>2, <1>3, <2>2, <2>3 DEF MenuCatalogInv, MenuCatalogTypeOK, TaskType
<1>6. CASE requestClientPageRefresh
  <2>1. CASE BeginPage(Now)
    BY <1>2, <1>3, <1>4, <1>6, <2>1 DEF requestClientPageRefresh, MenuCatalogInv, MenuCatalogTypeOK, TaskType
  <2>2. CASE page' = [page EXCEPT !.pending = TRUE] /\ UNCHANGED <<catalog, generation, again, fetches>>
    <3>1. page' \in Pages /\ page'.at = page.at
      BY <1>3, <2>2 DEF Pages
    <3>2. LoadType' /\ Good(Now, shown, page.at)'
      BY <1>1, <2>2, <3>1, LoadsRest
    <3> QED
      BY <1>2, <1>3, <1>6, <3>1, <3>2 DEF requestClientPageRefresh, MenuCatalogInv, MenuCatalogTypeOK, TaskType
  <2> QED
    BY <1>6, <2>1, <2>2 DEF requestClientPageRefresh
<1>7. CASE PageReloadsAuth
  <2>1. page.at = "reload" /\ page' \in Pages /\ page'.at = "status"
    BY <1>3, <1>7 DEF PageReloadsAuth, Pages
  <2>2. LoadType' /\ Good(Now, shown, page.at)'
    BY <1>1, <1>7, <2>1, LoadsRest DEF PageReloadsAuth
  <2> QED
    BY <1>2, <1>3, <1>7, <2>1, <2>2 DEF PageReloadsAuth, MenuCatalogInv, MenuCatalogTypeOK, TaskType
<1>8. CASE PageWithoutStatus
  <2>1. page' \in Pages /\ page'.at = "catalog" /\ Becomes(requestModelCatalogRefresh(Now))
    BY <1>3, <1>8 DEF PageWithoutStatus, Pages
  <2>2. Good(requestModelCatalogRefresh(Now), shown, "catalog")
    BY <1>2, RequestedGood
  <2>3. LoadType' /\ Good(Now, shown, page.at)'
    BY <1>1, <2>1, <2>2, BecomesGood
  <2> QED
    BY <1>2, <1>3, <1>8, <2>1, <2>3 DEF PageWithoutStatus, MenuCatalogInv, MenuCatalogTypeOK, TaskType
<1>9. CASE PageEnds
  <2>1. CASE BeginPage(Now)
    BY <1>2, <1>3, <1>4, <1>9, <2>1 DEF PageEnds, MenuCatalogInv, MenuCatalogTypeOK, TaskType
  <2>2. CASE /\ page' = [at |-> "none", pending |-> FALSE]
             /\ UNCHANGED <<catalog, generation, again, fetches>>
    <3>1. page' \in Pages
      BY <2>2 DEF Pages
    <3>2. page.at = "catalog" /\ fetches[generation].is = "none" /\ UNCHANGED <<shown, keyChange>>
      BY <1>9 DEF PageEnds
    <3>3. catalog.state # "loading"
      BY <1>2, <1>3, <3>2, UnderwayNow
    <3>4. LoadType' /\ Good(Now, shown, page.at)'
      BY <1>2, <1>3, <2>2, <3>2, <3>3 DEF LoadType, Good, Loads, LoadsRecent, LoadUnderway, Now
    <3> QED
      BY <1>2, <1>3, <3>1, <3>2, <3>4 DEF MenuCatalogInv, MenuCatalogTypeOK, TaskType
  <2> QED
    BY <1>9, <2>1, <2>2 DEF PageEnds
<1>10. CASE updateSavedAPIKey
  <2>1. Good(invalidateModelCatalog(Now), shown, page.at)
    BY <1>2, InvalidatedGood
  <2>2. Becomes(invalidateModelCatalog(Now)) /\ UNCHANGED page /\ keyChange' = "sent"
    BY <1>10 DEF updateSavedAPIKey
  <2>3. LoadType' /\ Good(Now, shown, page.at)'
    BY <1>1, <2>1, <2>2, BecomesGood
  <2> QED
    BY <1>2, <1>3, <2>2, <2>3 DEF MenuCatalogInv, MenuCatalogTypeOK, TaskType
<1>11. CASE KeyWithoutStatus
  <2>1. Good(ensureModelCatalogLoaded(Now), shown, page.at)
    BY <1>2, EnsuredGood
  <2>2. Becomes(ensureModelCatalogLoaded(Now)) /\ UNCHANGED page /\ keyChange' = "done"
    BY <1>11 DEF KeyWithoutStatus
  <2>3. LoadType' /\ Good(Now, shown, page.at)'
    BY <1>1, <2>1, <2>2, BecomesGood
  <2> QED
    BY <1>2, <1>3, <2>2, <2>3 DEF MenuCatalogInv, MenuCatalogTypeOK, TaskType
<1> QED
  BY <1>5, <1>6, <1>7, <1>8, <1>9, <1>10, <1>11

\* A window that closes leaves the statuses in their order.
LEMMA CloseKeeps == MenuCatalogInv /\ routerWindowDidClose => MenuCatalogInv'
<1> SUFFICES ASSUME MenuCatalogInv, routerWindowDidClose PROVE MenuCatalogInv'
  OBVIOUS
<1> DEFINE S == [by : {"loop", "page", "key"}, auth : Auths]
<1>1. /\ page' = [at |-> "none", pending |-> FALSE] /\ Becomes(invalidateModelCatalog(Now))
      /\ statuses' = [i \in DOMAIN statuses |->
                         [statuses[i] EXCEPT !.by = IF @ = "page" THEN "loop" ELSE @]]
      /\ UNCHANGED <<auth, shown, keyChange>>
  BY DEF routerWindowDidClose
<1>2. AuthType /\ InOrder /\ TaskType /\ Good(Now, shown, page.at) /\ Loads(Now)
  BY DEF MenuCatalogInv, MenuCatalogTypeOK, Good
<1>3. \A e \in S : /\ [e EXCEPT !.by = IF @ = "page" THEN "loop" ELSE @] \in S
                   /\ [e EXCEPT !.by = IF @ = "page" THEN "loop" ELSE @].auth = e.auth
  OBVIOUS
<1>4. statuses \in Seq(S)
  BY <1>2 DEF AuthType
<1> HIDE DEF S
<1>5. Len(statuses) \in Nat /\ DOMAIN statuses = 1..Len(statuses) /\ \A i \in DOMAIN statuses : statuses[i] \in S
  BY <1>4
<1>a. PICK n \in Nat : n = Len(statuses)
  BY <1>5
<1>b. /\ statuses' = [i \in 1..n |-> [statuses[i] EXCEPT !.by = IF @ = "page" THEN "loop" ELSE @]]
      /\ \A i \in 1..n : statuses[i] \in S
  BY <1>1, <1>5, <1>a
<1>c. \A i \in 1..n : statuses'[i] \in S /\ statuses'[i].auth = statuses[i].auth
  BY <1>3, <1>b
<1>d. statuses' \in [1..n -> S]
  BY <1>3, <1>b
<1>6. /\ DOMAIN statuses' = DOMAIN statuses /\ statuses' \in Seq(S)
      /\ \A i \in DOMAIN statuses : statuses'[i].auth = statuses[i].auth
  BY <1>5, <1>a, <1>b, <1>c, <1>d
<1>7. AuthType'
  BY <1>1, <1>2, <1>6 DEF AuthType, S
<1>8. InOrder'
  BY <1>1, <1>2, <1>6, Zenon DEF InOrder
<1>9. Good(invalidateModelCatalog(Now), shown, "none") /\ page' \in Pages /\ page'.at = "none"
  BY <1>1, <1>2, InvalidatedGood DEF Pages
<1>10. LoadType' /\ Good(Now, shown, page.at)'
  BY <1>1, <1>9, BecomesGood
<1> QED
  BY <1>1, <1>2, <1>7, <1>8, <1>9, <1>10 DEF MenuCatalogInv, MenuCatalogTypeOK, TaskType

\* Every step preserves the invariant.
LEMMA MenuCatalogInvStep == MenuCatalogInv /\ [MenuCatalogNext]_catalogVars => MenuCatalogInv'
<1> SUFFICES ASSUME MenuCatalogInv, [MenuCatalogNext]_catalogVars PROVE MenuCatalogInv'
  OBVIOUS
<1>1. CASE UNCHANGED catalogVars
  BY <1>1 DEF catalogVars, MenuCatalogInv, MenuCatalogTypeOK, AuthType, LoadType, TaskType, InOrder,
              Good, Loads, LoadsRecent, LoadUnderway, Now
<1>2. CASE MenuCatalogNext
  BY <1>2, RouterKeeps, StatusKeeps, ReturnKeeps, ControlsKeep, CloseKeeps DEF MenuCatalogNext
<1> QED
  BY <1>1, <1>2

\* In every state the variables of the catalog in the menu bar app (BasetenSwitchState.swift
\* 690-992, 2286-2311) have their types, the statuses follow each other as the router gave them,
\* nothing on screen or under way is older than a saved key that is shown, and a catalog that is
\* loading has a request or a page that will make it.
THEOREM MenuCatalogInductive == MenuCatalogSpec => []MenuCatalogInv
BY MenuCatalogInvInit, MenuCatalogInvStep, PTL DEF MenuCatalogSpec

\* What that invariant says of a state.
LEMMA MenuCatalogInvSound == MenuCatalogInv => MenuCatalogSound
<1> SUFFICES ASSUME MenuCatalogInv PROVE MenuCatalogSound
  OBVIOUS
<1>1. LoadType /\ Good(Now, shown, page.at)
  BY DEF MenuCatalogInv, MenuCatalogTypeOK
<1>2. Recent(catalog.of, shown) /\ Recent(catalog.kept, shown)
  BY <1>1 DEF Good, LoadsRecent, Now
<1>3. CatalogOfSavedKey
  BY <1>2 DEF CatalogOfSavedKey, Recent
<1>4. LoadingEnds
  BY <1>1, UnderwayNow DEF LoadingEnds
<1> QED
  BY <1>3, <1>4 DEF MenuCatalogSound

\* Once the app shows a saved key, it offers no models listed before it had that key, whatever
\* statuses, loads, toolbar refreshes and changes of the key cross; and it never says that it is
\* loading a catalog that nothing will load.
THEOREM MenuCatalogSoundThm == MenuCatalogSpec => []MenuCatalogSound
<1> QED
  BY MenuCatalogInvSound, MenuCatalogInductive, PTL

---------------------------------------------------------------------------
(* MenuApp: the invariant.                                                  *)

OnLane == {lane[i] : i \in DOMAIN lane}
Waiting == {lane[i] : i \in 2..Len(lane)}
Before(l, a, b) == \A i, j \in DOMAIN l : l[i] = a /\ l[j] = b => i < j

\* The lane holds a task once: a change with its command, or a recovery with its own.
OnceOnLane == \A i, j \in DOMAIN lane : lane[i] = lane[j] => i = j
ChangesOnLane ==
    \A o \in AppOps : /\ o \in OnLane => ops[o].at \in {"primary", "reconcile"}
                      /\ ops[o].at = "primary" => o \in OnLane
RecoveriesOnLane ==
    /\ \A t \in RecoveryTasks \cap OnLane : recovering[t].at \in {"status", "recover"}
    /\ \A t \in RecoveryTasks \cap Waiting : Current(t)
    /\ \A i \in DOMAIN Recoveries : i > begun => recovering[Recoveries[i]].at = "none"

\* A change that went out while no recovery was under way is ahead of the next one.
ChangesGoFirst ==
    \A o \in AppOps, t \in RecoveryTasks :
        ops[o].at = "primary" /\ ~ops[o].late /\ Current(t) =>
            /\ recovering[t].at \in {"none", "created", "status", "recover", "over"}
            /\ Before(lane, o, t)

\* An open gate over an unfinished change is one that somebody is about to close.
SomeLate == \E o \in AppOps : ops[o].late
LateWentOut == \A o \in AppOps : ops[o].at \in {"idle", "barrier", "preflight"} => ~ops[o].late
OpenOverUnfinished ==
    router.unfinished /\ GateOpen /\ ~gate.legacy => SomeLate \/ \E o \in AppOps : ops[o].at = "reconcile"
ReadyRecovery ==
    \A t \in RecoveryTasks :
        Current(t) /\ recovering[t].at = "finish" /\ recovering[t].final = "ready" /\ router.unfinished => SomeLate
LegacyKnown ==
    /\ gate.state = "legacy" => gate.legacy
    /\ \A t \in RecoveryTasks : recovering[t].at = "finish" /\ recovering[t].final = "legacy" => gate.legacy

\* What a change made is no later than what the router runs, and a read whose answer it will
\* be confirmed by is not answered with anything older.
NotAfter(a, b) == a.boot < b.boot \/ (a.boot = b.boot /\ a.gen <= b.gen)
AnsweredBy(answer) == answer.is = "snapshot" => answer.token = Active
Behind(o) ==
    /\ reader[o].at = "reading"  => AnsweredBy(reads[reader[o].read])
    /\ reader[o].at = "draining" => /\ inFlight = 0 \/ inFlight >= reader[o].read
                                    /\ \A r \in DOMAIN reads : r > reader[o].read => AnsweredBy(reads[r])
    /\ reader[o].at = "event"    => AnsweredBy(reader[o].event)
ReadBehindChange ==
    \A o \in AppOps : /\ NotAfter(ops[o].made, Active)
                      /\ ops[o].at = "confirm" /\ ops[o].made = Active => Behind(o)

InFlightLast == inFlight \in {0, Len(reads)}
LaneInv == OnceOnLane /\ ChangesOnLane /\ RecoveriesOnLane /\ ChangesGoFirst
GateInv == LateWentOut /\ OpenOverUnfinished /\ ReadyRecovery /\ LegacyKnown
MenuInv == MenuTypeOK /\ InFlightLast /\ LaneInv /\ GateInv /\ ReadBehindChange

\* The current recovery is the one begun last.
LEMMA CurrentIsTask ==
    ASSUME NEW t, begun \in 0..Len(Recoveries)
    PROVE  /\ Current(t) => t \in RecoveryTasks /\ begun \in DOMAIN Recoveries /\ t = Recoveries[begun]
           /\ \A i \in DOMAIN Recoveries : Recoveries[i] \in RecoveryTasks
<1>1. Recoveries \in Seq(STRING)
  BY MenuBounds DEF MenuBounds
<1>2. RecoveryTasks = {Recoveries[i] : i \in DOMAIN Recoveries}
  BY DEF RecoveryTasks, ToSet
<1>3. begun > 0 => begun \in DOMAIN Recoveries
  BY <1>1
<1> QED
  BY <1>2, <1>3 DEF Current

---------------------------------------------------------------------------
(* MenuApp: what a step does to the lane.                                   *)

\* The tasks in gone leave, the one in new joins at the end, and the others keep their order.
Moves(gone, new) ==
    /\ lane' \in Seq(AppOps \cup RecoveryTasks)
    /\ OnceOnLane'
    /\ OnLane' = (OnLane \ gone) \cup new
    /\ Waiting' \subseteq (Waiting \ gone) \cup new
    /\ \A a, b \in AppOps \cup RecoveryTasks : a \notin new /\ (b \in new \/ Before(lane, a, b)) => Before(lane', a, b)

\* s is what remains of the lane without the tasks in gone.
Thins(s, gone) ==
    /\ s \in Seq(AppOps \cup RecoveryTasks)
    /\ \E h \in [1..Len(s) -> 1..Len(lane)] : /\ \A i \in 1..Len(s) : s[i] = lane[h[i]]
                                              /\ \A i, j \in 1..Len(s) : i < j => h[i] < h[j]
    /\ \A i \in 1..Len(s) : s[i] \notin gone
    /\ \A k \in 1..Len(lane) : lane[k] \in gone \/ \E i \in 1..Len(s) : s[i] = lane[k]

\* What remains has moved by nothing but the tasks that left.
LEMMA ThinsMoves ==
    ASSUME NEW s, NEW gone, lane \in Seq(AppOps \cup RecoveryTasks), OnceOnLane, Thins(s, gone), lane' = s
    PROVE  Moves(gone, {})
<1> DEFINE T == AppOps \cup RecoveryTasks
           n == Len(s)
           m == Len(lane)
<1>1. n \in Nat /\ m \in Nat /\ DOMAIN s = 1..n /\ DOMAIN lane = 1..m /\ s \in Seq(T)
  BY DEF Thins
<1>2. PICK h \in [1..n -> 1..m] : /\ \A i \in 1..n : s[i] = lane[h[i]]
                                  /\ \A i, j \in 1..n : i < j => h[i] < h[j]
  BY DEF Thins
<1>3. \A i \in 1..n : s[i] \notin gone
  BY DEF Thins
<1>4. \A k \in 1..m : lane[k] \in gone \/ \E i \in 1..n : s[i] = lane[k]
  BY DEF Thins
<1> HIDE DEF n, m, T
<1>5. \A i \in 1..n : h[i] \in 1..m
  BY <1>2
<1>6. OnceOnLane'
  <2> SUFFICES ASSUME NEW i \in 1..n, NEW j \in 1..n, s[i] = s[j], i < j PROVE FALSE
    BY <1>1 DEF OnceOnLane
  <2>1. h[i] \in 1..m /\ h[j] \in 1..m /\ h[i] < h[j] /\ lane[h[i]] = lane[h[j]]
    BY <1>2, <1>5
  <2>2. h[i] = h[j]
    BY <1>1, <2>1 DEF OnceOnLane
  <2> QED
    BY <1>1, <2>1, <2>2
<1>7. OnLane' = OnLane \ gone
  <2>1. OnLane' = {s[i] : i \in 1..n} /\ OnLane = {lane[k] : k \in 1..m}
    BY <1>1 DEF OnLane
  <2>2. ASSUME NEW x \in {s[i] : i \in 1..n} PROVE x \in {lane[k] : k \in 1..m} /\ x \notin gone
    BY <1>2, <1>3, <1>5
  <2>3. ASSUME NEW x \in {lane[k] : k \in 1..m}, x \notin gone PROVE x \in {s[i] : i \in 1..n}
    BY <1>4, <2>3
  <2> QED
    BY <2>1, <2>2, <2>3
<1>8. Waiting' \subseteq Waiting \ gone
  <2> SUFFICES ASSUME NEW i \in 2..n PROVE s[i] \in {lane[k] : k \in 2..m} /\ s[i] \notin gone
    BY <1>1 DEF Waiting, n, m
  <2>1. i \in 1..n /\ 1 \in 1..n /\ 1 < i
    BY <1>1
  <2>2. h[1] \in 1..m /\ h[i] \in 1..m /\ h[1] < h[i] /\ s[i] = lane[h[i]]
    BY <1>2, <1>5, <2>1
  <2>3. h[i] \in 2..m
    BY <1>1, <2>2
  <2> QED
    BY <1>3, <2>1, <2>2, <2>3
<1>9. ASSUME NEW a \in T, NEW b \in T, Before(lane, a, b) PROVE Before(s, a, b)
  <2> SUFFICES ASSUME NEW i \in 1..n, NEW j \in 1..n, s[i] = a, s[j] = b PROVE i < j
    BY <1>1 DEF Before
  <2>1. h[i] \in 1..m /\ h[j] \in 1..m /\ lane[h[i]] = a /\ lane[h[j]] = b
    BY <1>2, <1>5
  <2>2. h[i] < h[j]
    BY <1>1, <1>9, <2>1 DEF Before
  <2>3. CASE i = j
    BY <1>1, <2>1, <2>2, <2>3
  <2>4. CASE j < i
    <3>1. h[j] < h[i]
      BY <1>2, <2>4
    <3> QED
      BY <1>1, <2>1, <2>2, <3>1
  <2> QED
    BY <1>1, <2>3, <2>4
<1> QED
  BY <1>1, <1>6, <1>7, <1>8, <1>9 DEF Moves, T

\* The same with a task that joins.
LEMMA ThinsJoins ==
    ASSUME NEW s, NEW gone, NEW x \in AppOps \cup RecoveryTasks, lane \in Seq(AppOps \cup RecoveryTasks), OnceOnLane,
           Thins(s, gone), lane' = Append(s, x), x \in gone \/ x \notin OnLane
    PROVE  Moves(gone, {x})
<1> DEFINE T == AppOps \cup RecoveryTasks
           n == Len(s)
           m == Len(lane)
<1>1. n \in Nat /\ m \in Nat /\ DOMAIN s = 1..n /\ DOMAIN lane = 1..m /\ s \in Seq(T)
  BY DEF Thins
<1>2. PICK h \in [1..n -> 1..m] : /\ \A i \in 1..n : s[i] = lane[h[i]]
                                  /\ \A i, j \in 1..n : i < j => h[i] < h[j]
  BY DEF Thins
<1>3. \A i \in 1..n : s[i] \notin gone
  BY DEF Thins
<1>4. \A k \in 1..m : lane[k] \in gone \/ \E i \in 1..n : s[i] = lane[k]
  BY DEF Thins
<1>a. lane' \in Seq(T) /\ Len(lane') = n + 1 /\ lane'[n + 1] = x /\ \A i \in 1..n : lane'[i] = s[i]
  BY <1>1
<1>b. DOMAIN lane' = 1..(n + 1)
  BY <1>1, <1>a
<1> HIDE DEF n, m, T
<1>5. \A i \in 1..n : h[i] \in 1..m
  BY <1>2
<1>c. \A i \in 1..n : s[i] # x
  BY <1>1, <1>2, <1>3, <1>5 DEF OnLane
<1>d. \A i \in 1..(n + 1) : i \in 1..n \/ i = n + 1
  BY <1>1
<1>6. OnceOnLane'
  <2> SUFFICES ASSUME NEW i \in 1..(n + 1), NEW j \in 1..(n + 1), lane'[i] = lane'[j], i < j PROVE FALSE
    BY <1>1, <1>b DEF OnceOnLane
  <2>0. i \in 1..n
    BY <1>1
  <2>a. j \in 1..n
    BY <2>0, <1>a, <1>c, <1>d
  <2>1. h[i] \in 1..m /\ h[j] \in 1..m /\ h[i] < h[j] /\ lane[h[i]] = lane[h[j]]
    BY <1>2, <1>5, <1>a, <2>0, <2>a
  <2>2. h[i] = h[j]
    BY <1>1, <2>1 DEF OnceOnLane
  <2> QED
    BY <1>1, <2>1, <2>2
<1>7. OnLane' = (OnLane \ gone) \cup {x}
  <2>1. OnLane' = {lane'[i] : i \in 1..(n + 1)} /\ OnLane = {lane[k] : k \in 1..m}
    BY <1>1, <1>b DEF OnLane
  <2>a. \A i \in 1..n : i \in 1..(n + 1)
    BY <1>1
  <2>b. n + 1 \in 1..(n + 1)
    BY <1>1
  <2>2. ASSUME NEW i \in 1..(n + 1) PROVE lane'[i] \in ({lane[k] : k \in 1..m} \ gone) \cup {x}
    BY <1>2, <1>3, <1>5, <1>a, <1>d
  <2>3. ASSUME NEW y \in {lane[k] : k \in 1..m}, y \notin gone PROVE \E i \in 1..(n + 1) : lane'[i] = y
    BY <1>4, <1>a, <2>3, <2>a
  <2>4. \E i \in 1..(n + 1) : lane'[i] = x
    BY <1>a, <2>b
  <2>5. OnLane' \subseteq (OnLane \ gone) \cup {x}
    BY <2>1, <2>2
  <2>6. (OnLane \ gone) \cup {x} \subseteq OnLane'
    <3> SUFFICES ASSUME NEW y \in OnLane, y \notin gone PROVE y \in OnLane'
      BY <2>1, <2>4
    <3>1. PICK i \in 1..(n + 1) : lane'[i] = y
      BY <2>1, <2>3
    <3> QED
      BY <2>1, <3>1
  <2> QED
    BY <2>5, <2>6
<1>8. Waiting' \subseteq (Waiting \ gone) \cup {x}
  <2> SUFFICES ASSUME NEW i \in 2..(n + 1), i # n + 1 PROVE s[i] \in {lane[k] : k \in 2..m} /\ s[i] \notin gone
    <3>1. \A i \in 2..(n + 1) : i \in 1..n \/ i = n + 1
      BY <1>1
    <3> QED
      BY <1>1, <1>a, <3>1 DEF Waiting, n, m
  <2>1. i \in 1..n /\ 1 \in 1..n /\ 1 < i
    BY <1>1
  <2>2. h[1] \in 1..m /\ h[i] \in 1..m /\ h[1] < h[i] /\ s[i] = lane[h[i]]
    BY <1>2, <1>5, <2>1
  <2>3. h[i] \in 2..m
    BY <1>1, <2>2
  <2> QED
    BY <1>3, <2>1, <2>2, <2>3
<1>9. ASSUME NEW a \in T, NEW b \in T, a # x, b = x \/ Before(lane, a, b) PROVE Before(lane', a, b)
  <2> SUFFICES ASSUME NEW i \in 1..(n + 1), NEW j \in 1..(n + 1), lane'[i] = a, lane'[j] = b PROVE i < j
    BY <1>b DEF Before
  <2>0. i \in 1..n /\ lane'[i] = s[i]
    BY <1>9, <1>a, <1>d
  <2>x. CASE b = x
    <3>1. j = n + 1
      BY <1>a, <1>c, <1>d, <2>x
    <3> QED
      BY <1>1, <2>0, <3>1
  <2>y. CASE b # x
    <3>0. j \in 1..n /\ lane'[j] = s[j]
      BY <1>a, <1>d, <2>y
    <3>1. h[i] \in 1..m /\ h[j] \in 1..m /\ lane[h[i]] = a /\ lane[h[j]] = b
      BY <1>2, <1>5, <2>0, <3>0
    <3>2. h[i] < h[j]
      BY <1>1, <1>9, <2>y, <3>1 DEF Before
    <3>3. CASE i = j
      BY <1>1, <3>1, <3>2, <3>3
    <3>4. CASE j < i
      <4>1. h[j] < h[i]
        BY <1>2, <2>0, <3>0, <3>4
      <4> QED
        BY <1>1, <3>1, <3>2, <4>1
    <3> QED
      BY <1>1, <2>0, <3>0, <3>3, <3>4
  <2> QED
    BY <2>x, <2>y
<1> QED
  BY <1>1, <1>a, <1>6, <1>7, <1>8, <1>9 DEF Moves, T

\* Nothing, or the head, leaves.
LEMMA LaneThins ==
    ASSUME lane \in Seq(AppOps \cup RecoveryTasks), OnceOnLane
    PROVE  /\ Thins(lane, {})
           /\ lane # <<>> => Thins(Tail(lane), {Head(lane)}) /\ Head(lane) \in OnLane /\ Head(lane) \notin Waiting
<1> DEFINE T == AppOps \cup RecoveryTasks
           m == Len(lane)
<1>1. m \in Nat /\ DOMAIN lane = 1..m /\ lane \in Seq(T)
  OBVIOUS
<1>2. Thins(lane, {})
  <2> DEFINE h == [i \in 1..m |-> i]
  <2>1. h \in [1..m -> 1..m] /\ (\A i \in 1..m : lane[i] = lane[h[i]]) /\ \A i, j \in 1..m : i < j => h[i] < h[j]
    OBVIOUS
  <2> QED
    BY <1>1, <2>1 DEF Thins
<1>3. ASSUME lane # <<>> PROVE Thins(Tail(lane), {Head(lane)}) /\ Head(lane) \in OnLane /\ Head(lane) \notin Waiting
  <2>1. /\ m > 0 /\ Head(lane) = lane[1] /\ Tail(lane) \in Seq(T) /\ Len(Tail(lane)) = m - 1
        /\ \A i \in 1..(m - 1) : Tail(lane)[i] = lane[i + 1]
    BY <1>1, <1>3
  <2> DEFINE s == Tail(lane)
             h == [i \in 1..(m - 1) |-> i + 1]
  <2> HIDE DEF m, s, T
  <2>2. \A i \in 1..(m - 1) : i + 1 \in 1..m /\ i + 1 # 1
    BY <1>1, <2>1
  <2>3. h \in [1..(m - 1) -> 1..m] /\ \A i \in 1..(m - 1) : h[i] = i + 1
    BY <2>2
  <2>4. (\A i \in 1..(m - 1) : s[i] = lane[h[i]]) /\ \A i, j \in 1..(m - 1) : i < j => h[i] < h[j]
    BY <1>1, <2>1, <2>3 DEF s
  <2>5. 1 \in 1..m /\ \A k \in 1..m : k = 1 \/ (k - 1 \in 1..(m - 1) /\ (k - 1) + 1 = k)
    BY <1>1, <2>1
  <2>6. \A i \in 1..(m - 1) : s[i] # lane[1]
    BY <1>1, <2>1, <2>2, <2>5 DEF OnceOnLane, s
  <2>7. \A k \in 1..m : lane[k] = lane[1] \/ \E i \in 1..(m - 1) : s[i] = lane[k]
    BY <2>1, <2>5 DEF s
  <2>8. Thins(s, {Head(lane)})
    BY <2>1, <2>3, <2>4, <2>6, <2>7 DEF Thins, s, m, T
  <2>9. Head(lane) \in OnLane
    BY <1>1, <2>1, <2>5 DEF OnLane
  <2>10. Head(lane) \notin Waiting
    <3>1. \A k \in 2..m : k \in 1..m /\ k # 1
      BY <1>1
    <3> QED
      BY <1>1, <2>1, <2>5, <3>1 DEF OnceOnLane, Waiting, m
  <2> QED
    BY <2>8, <2>9, <2>10 DEF s
<1> QED
  BY <1>2, <1>3

\* The current recovery leaves unless it is at the head.
LEMMA WithoutThins ==
    ASSUME lane \in Seq(AppOps \cup RecoveryTasks), OnceOnLane, RecoveriesOnLane, begun \in 0..Len(Recoveries)
    PROVE  \E gone : /\ Thins(WithoutCurrent(lane), gone) /\ \A x \in gone : x \in RecoveryTasks /\ Current(x)
                     /\ RecoveryTasks \cap (Waiting \ gone) = {}
<1> DEFINE T == AppOps \cup RecoveryTasks
           m == Len(lane)
           s == WithoutCurrent(lane)
<1>1. m \in Nat /\ DOMAIN lane = 1..m /\ lane \in Seq(T) /\ \A k \in 1..m : lane[k] \in T
  OBVIOUS
<1>0. Waiting = {lane[k] : k \in 2..m} /\ \A k \in 2..m : k \in 1..m /\ k > 1
  BY <1>1 DEF Waiting
<1>2. CASE ~\E i \in DOMAIN lane : CurrentWaits(lane, i)
  <2>1. s = lane
    BY <1>2 DEF WithoutCurrent
  <2>2. ASSUME NEW k \in 2..m, lane[k] \in RecoveryTasks PROVE FALSE
    <3>1. Current(lane[k]) /\ recovering[lane[k]].at \in {"status", "recover"}
      BY <1>0, <1>1, <2>2 DEF RecoveriesOnLane, OnLane
    <3> QED
      BY <1>0, <1>1, <1>2, <3>1 DEF CurrentWaits
  <2>3. Thins(s, {}) /\ RecoveryTasks \cap (Waiting \ {}) = {}
    BY <1>0, <2>1, <2>2, LaneThins
  <2> QED
    BY <2>3
<1>3. CASE \E i \in DOMAIN lane : CurrentWaits(lane, i)
  <2>1. PICK k \in 1..m : CurrentWaits(lane, k) /\ s = RemoveAt(lane, k)
    BY <1>1, <1>3 DEF WithoutCurrent
  <2>2. k > 1 /\ Current(lane[k]) /\ recovering[lane[k]].at \in {"status", "recover"}
    BY <2>1 DEF CurrentWaits
  <2>a. s = SubSeq(lane, 1, k - 1) \o SubSeq(lane, k + 1, Len(lane))
    BY <2>1 DEF RemoveAt
  <2> DEFINE u == SubSeq(lane, 1, k - 1)
             v == SubSeq(lane, k + 1, m)
  <2>b. k \in Int /\ 1 <= k /\ k <= m
    BY <1>1
  <2>c. u \in Seq(T) /\ Len(u) = k - 1 /\ \A i \in 1..(k - 1) : u[i] = lane[i]
    BY <1>1, <2>b
  <2>d. v \in Seq(T) /\ Len(v) = m - k /\ \A i \in 1..(m - k) : v[i] = lane[k + i]
    <3>1. v \in Seq(T) /\ Len(v) = m - k /\ \A i \in 1..(m - k) : v[i] = lane[(k + 1) + i - 1]
      BY <1>1, <2>b
    <3>2. \A i \in 1..(m - k) : (k + 1) + i - 1 = k + i
      BY <1>1, <2>b
    <3> QED
      BY <3>1, <3>2
  <2> HIDE DEF u, v, m, T
  <2>e. s = u \o v
    BY <2>a DEF u, v, m
  <2> HIDE DEF s
  <2>f. s \in Seq(T) /\ Len(s) = m - 1
    BY <1>1, <2>b, <2>c, <2>d, <2>e
  <2>g. \A i \in 1..(m - 1) : s[i] = IF i < k THEN lane[i] ELSE lane[i + 1]
    <3> SUFFICES ASSUME NEW i \in 1..(m - 1) PROVE s[i] = IF i < k THEN lane[i] ELSE lane[i + 1]
      OBVIOUS
    <3>1. CASE i < k
      <4>1. i \in 1..(k - 1) /\ i \in 1..Len(u)
        BY <1>1, <2>b, <2>c, <3>1
      <4>2. s[i] = u[i]
        BY <2>c, <2>d, <2>e, <4>1
      <4> QED
        BY <2>c, <3>1, <4>1, <4>2
    <3>2. CASE ~(i < k)
      <4>1. i - (k - 1) \in 1..(m - k) /\ k + (i - (k - 1)) = i + 1
        BY <1>1, <2>b, <3>2
      <4>2. s[i] = v[i - (k - 1)]
        BY <1>1, <2>b, <2>c, <2>d, <2>e, <3>2
      <4> QED
        BY <2>d, <3>2, <4>1, <4>2
    <3> QED
      BY <3>1, <3>2
  <2>3. /\ s \in Seq(T) /\ Len(s) = m - 1
        /\ \A i \in 1..(m - 1) : s[i] = IF i < k THEN lane[i] ELSE lane[i + 1]
    BY <2>f, <2>g
  <2> DEFINE h == [i \in 1..(m - 1) |-> IF i < k THEN i ELSE i + 1]
  <2> HIDE DEF m, s, T
  <2>4. \A i \in 1..(m - 1) : (IF i < k THEN i ELSE i + 1) \in 1..m /\ (IF i < k THEN i ELSE i + 1) # k
    BY <1>1
  <2>5. h \in [1..(m - 1) -> 1..m] /\ \A i \in 1..(m - 1) : h[i] = IF i < k THEN i ELSE i + 1
    BY <2>4
  <2> HIDE DEF h
  <2>6. \A i \in 1..(m - 1) : s[i] = lane[h[i]] /\ h[i] # k
    BY <1>1, <2>3, <2>4, <2>5
  <2>7. \A i, j \in 1..(m - 1) : i < j => h[i] < h[j]
    BY <1>1, <2>5
  <2>8. \A i \in 1..(m - 1) : s[i] # lane[k]
    BY <1>1, <2>5, <2>6 DEF OnceOnLane
  <2>9. ASSUME NEW j \in 1..m, j # k PROVE \E i \in 1..(m - 1) : s[i] = lane[j]
    <3>1. CASE j < k
      <4>1. j \in 1..(m - 1) /\ h[j] = j
        BY <1>1, <2>5, <3>1
      <4> QED
        BY <2>6, <4>1
    <3>2. CASE j > k
      <4>1. j - 1 \in 1..(m - 1) /\ h[j - 1] = j
        BY <1>1, <2>5, <3>2
      <4> QED
        BY <2>6, <4>1
    <3> QED
      BY <1>1, <2>9, <3>1, <3>2
  <2>10. Thins(s, {lane[k]})
    <3>1. \A j \in 1..m : lane[j] \in {lane[k]} \/ \E i \in 1..(m - 1) : s[i] = lane[j]
      BY <2>9
    <3> QED
      BY <2>3, <2>5, <2>6, <2>7, <2>8, <3>1 DEF Thins, m, T
  <2>11. \A x : Current(x) => x = lane[k]
    BY <2>2 DEF Current
  <2>12. lane[k] \in RecoveryTasks
    BY <2>2, CurrentIsTask
  <2>13. RecoveryTasks \cap (Waiting \ {lane[k]}) = {}
    BY <2>11 DEF RecoveriesOnLane
  <2> QED
    BY <2>2, <2>10, <2>12, <2>13 DEF s
<1> QED
  BY <1>2, <1>3

\* The moves the steps make: none,
LEMMA NoMove ==
    ASSUME TasksType, OnceOnLane, UNCHANGED lane
    PROVE  Moves({}, {})
BY LaneThins, ThinsMoves DEF TasksType

\* a task that joins,
LEMMA JoinMoves ==
    ASSUME TasksType, OnceOnLane, NEW x \in AppOps \cup RecoveryTasks, x \notin OnLane, lane' = Append(lane, x)
    PROVE  Moves({}, {x})
<1>1. lane \in Seq(AppOps \cup RecoveryTasks) /\ Thins(lane, {})
  BY LaneThins DEF TasksType
<1> QED
  BY <1>1, ThinsJoins

\* a head that leaves, or goes to the end,
LEMMA HeadMoves ==
    ASSUME TasksType, OnceOnLane, lane # <<>>
    PROVE  /\ Head(lane) \in OnLane /\ Head(lane) \notin Waiting
           /\ Head(lane) \in AppOps \cup RecoveryTasks
           /\ lane' = Tail(lane) => Moves({Head(lane)}, {})
           /\ lane' = Append(Tail(lane), Head(lane)) => Moves({Head(lane)}, {Head(lane)})
<1>1. lane \in Seq(AppOps \cup RecoveryTasks)
  BY DEF TasksType
<1>2. PICK s, x : s = Tail(lane) /\ x = Head(lane)
  OBVIOUS
<1>3. Thins(s, {x}) /\ x \in OnLane /\ x \notin Waiting
  BY <1>1, <1>2, LaneThins
<1>4. x \in AppOps \cup RecoveryTasks
  BY <1>1, <1>2
<1>5. lane' = s => Moves({x}, {})
  BY <1>1, <1>3, ThinsMoves
<1>6. lane' = Append(s, x) => Moves({x}, {x})
  BY <1>1, <1>3, <1>4, ThinsJoins
<1> QED
  BY <1>2, <1>3, <1>4, <1>5, <1>6

\* and the current recovery that leaves, alone or for a task that joins.
LEMMA WithoutMoves ==
    ASSUME TasksType, OnceOnLane, RecoveriesOnLane
    PROVE  \E gone : /\ \A x \in gone : x \in RecoveryTasks /\ Current(x)
                     /\ RecoveryTasks \cap (Waiting \ gone) = {}
                     /\ lane' = WithoutCurrent(lane) => Moves(gone, {})
                     /\ \A x \in AppOps \cup RecoveryTasks :
                            x \notin OnLane /\ lane' = Append(WithoutCurrent(lane), x) => Moves(gone, {x})
<1>1. lane \in Seq(AppOps \cup RecoveryTasks) /\ begun \in 0..Len(Recoveries)
  BY DEF TasksType
<1>2. PICK gone : /\ Thins(WithoutCurrent(lane), gone) /\ \A x \in gone : x \in RecoveryTasks /\ Current(x)
                  /\ RecoveryTasks \cap (Waiting \ gone) = {}
  BY <1>1, WithoutThins
<1>3. PICK s : s = WithoutCurrent(lane)
  OBVIOUS
<1>4. lane' = s => Moves(gone, {})
  BY <1>1, <1>2, <1>3, ThinsMoves
<1>5. ASSUME NEW x \in AppOps \cup RecoveryTasks, x \notin OnLane, lane' = Append(s, x) PROVE Moves(gone, {x})
  BY <1>1, <1>2, <1>3, <1>5, ThinsJoins
<1> QED
  BY <1>2, <1>3, <1>4, <1>5

---------------------------------------------------------------------------
(* MenuApp: types.                                                          *)

\* The tokens in what a status request yields.
LEMMA TokenOf ==
    ASSUME NEW e \in Events \cup {Open}
    PROVE  /\ e.token \in MaybeToken
           /\ e # Open => e \in Events
           /\ e.token # NoToken => e.is = "snapshot"
           /\ e.is = "snapshot" => e.token \in Tokens /\ e \in Events
<1>1. \A w : Word(w).is = w /\ Word(w).token = NoToken
  BY DEF Word
<1>2. \A token : Snapshot(token).is = "snapshot" /\ Snapshot(token).token = token
  BY DEF Snapshot
<1>3. CASE e \in {Snapshot(token) : token \in Tokens}
  BY <1>2, <1>3 DEF Events, MaybeToken
<1>4. CASE e \in {Word("down"), Word("stale"), Open}
  BY <1>1, <1>4 DEF Events, Open, MaybeToken
<1> QED
  BY <1>3, <1>4 DEF Events

\* What a status request yields, and the tokens in it.
LEMMA EventFacts ==
    /\ NoToken \notin Tokens /\ NoToken \in MaybeToken /\ Tokens \subseteq MaybeToken
    /\ \A token \in Tokens : Snapshot(token) \in Events /\ Snapshot(token) # Open
    /\ Word("down") \in Events /\ Word("stale") \in Events /\ Word("stale") # Open /\ Word("down") # Open
    /\ Out \in Readers /\ Out.at = "out"
    /\ \A w : Word(w).is = w /\ Word(w).token = NoToken
<1>1. NoToken \notin Tokens
  BY MenuBounds DEF NoToken, Tokens, MenuBounds
<1>2. NoToken \in MaybeToken /\ Tokens \subseteq MaybeToken
  BY DEF MaybeToken
<1>3. \A token \in Tokens : Snapshot(token) \in Events /\ Snapshot(token) # Open
  BY DEF Snapshot, Events, Open, Word
<1>4. \A w : Word(w).is = w /\ Word(w).token = NoToken
  BY DEF Word
<1>5. Word("down") \in Events /\ Word("stale") \in Events
  BY DEF Events
<1>6. Word("stale") # Open /\ Word("down") # Open
  BY <1>4 DEF Open
<1>9. Out \in Readers /\ Out.at = "out"
  BY <1>5, MenuBounds DEF Out, Readers, MenuBounds
<1> QED
  BY <1>1, <1>2, <1>3, <1>4, <1>5, <1>6, <1>9

\* A reader joins the request in flight, or makes one.
LEMMA FetchTypes ==
    ASSUME ReadsType, InFlightLast, NEW t \in PollTasks, NEW flight \in {0, inFlight}, Fetch(t, flight),
           UNCHANGED acceptance
    PROVE  /\ ReadsType' /\ InFlightLast'
           /\ reader'[t].at = "reading" /\ \A u \in PollTasks \ {t} : reader'[u] = reader[u]
           /\ \/ flight # 0 /\ reader'[t].read = flight /\ inFlight' = inFlight /\ reads' = reads
              \/ /\ reads' = Append(reads, Open) /\ reader'[t].read = Len(reads) + 1
                 /\ inFlight' = Len(reads) + 1
<1> DEFINE n == Len(reads)
           S == Events \cup {Open}
<1>1. /\ reads \in Seq(S) /\ n \in Nat /\ n <= MaxReads /\ DOMAIN reads = 1..n /\ inFlight \in 0..n
      /\ inFlight = 0 \/ inFlight = n
      /\ reader \in [PollTasks -> Readers] /\ MaxReads \in Nat
      /\ \A u \in PollTasks : reader[u].at \in {"draining", "reading"} => reader[u].read \in 1..n
  BY MenuBounds DEF ReadsType, MenuBounds, InFlightLast
<1>2. Out \in Readers /\ Open \in S
  BY EventFacts, Zenon
<1> HIDE DEF n, S
<1>3. CASE flight # 0
  <2>1. PICK new : new = [Out EXCEPT !.at = "reading", !.read = flight]
    OBVIOUS
  <2>2. reader' = [reader EXCEPT ![t] = new] /\ inFlight' = flight /\ reads' = reads
    BY <1>3, <2>1 DEF Fetch
  <2>3. flight \in 1..n /\ flight \in 0..MaxReads
    BY <1>1, <1>3
  <2>4. new \in Readers /\ new.at = "reading" /\ new.read = flight
    BY <1>2, <2>1, <2>3 DEF Readers
  <2>5. /\ reader' \in [PollTasks -> Readers] /\ reader'[t] = new
        /\ \A u \in PollTasks \ {t} : reader'[u] = reader[u]
    BY <1>1, <2>2, <2>4
  <2>a. \A u \in PollTasks : reader'[u].at \in {"draining", "reading"} => reader'[u].read \in 1..n
    BY <1>1, <2>3, <2>4, <2>5
  <2>b. inFlight' \in 0..n
    BY <1>1, <1>3, <2>2, Zenon
  <2>6. ReadsType'
    BY <1>1, <2>2, <2>5, <2>a, <2>b DEF ReadsType, n, S
  <2> QED
    BY <1>1, <1>3, <2>2, <2>3, <2>4, <2>5, <2>6, Zenon DEF InFlightLast, n
<1>4. CASE flight = 0
  <2>1. PICK new : new = [Out EXCEPT !.at = "reading", !.read = n + 1, !.owns = TRUE]
    OBVIOUS
  <2>2. /\ reader' = [reader EXCEPT ![t] = new] /\ inFlight' = n + 1 /\ reads' = Append(reads, Open)
        /\ n < MaxReads
    BY <1>4, <2>1 DEF Fetch, n
  <2>3. n + 1 \in 0..MaxReads /\ n + 1 \in 1..(n + 1) /\ n + 1 \in 0..(n + 1) /\ n + 1 <= MaxReads
    BY <1>1, <2>2
  <2>4. new \in Readers /\ new.at = "reading" /\ new.read = n + 1
    BY <1>2, <2>1, <2>3 DEF Readers
  <2>5. /\ reader' \in [PollTasks -> Readers] /\ reader'[t] = new
        /\ \A u \in PollTasks \ {t} : reader'[u] = reader[u]
    BY <1>1, <2>2, <2>4
  <2>6. reads' \in Seq(S) /\ Len(reads') = n + 1 /\ DOMAIN reads' = 1..(n + 1)
    <3>1. reads' = Append(reads, Open) /\ reads \in Seq(S) /\ Open \in S
      BY <1>1, <1>2, <2>2
    <3> QED
      BY <3>1 DEF n
  <2>7. \A u \in PollTasks : reader'[u].at \in {"draining", "reading"} => reader'[u].read \in 1..(n + 1)
    <3>1. \A i \in 1..n : i \in 1..(n + 1)
      BY <1>1
    <3> QED
      BY <1>1, <2>3, <2>4, <2>5, <3>1
  <2>8. ReadsType'
    BY <1>1, <2>2, <2>3, <2>5, <2>6, <2>7 DEF ReadsType, S
  <2> QED
    BY <2>2, <2>4, <2>5, <2>6, <2>8 DEF InFlightLast, n
<1> QED
  BY <1>3, <1>4

\* A fresh read waits out the request in flight.
LEMMA StartFreshTypes ==
    ASSUME ReadsType, InFlightLast, NEW t \in PollTasks, StartFresh(t), UNCHANGED acceptance
    PROVE  /\ ReadsType' /\ InFlightLast'
           /\ \A u \in PollTasks \ {t} : reader'[u] = reader[u]
           /\ \/ /\ reader'[t].at = "draining" /\ reader'[t].read = Len(reads) /\ Len(reads) > 0
                 /\ UNCHANGED <<reads, inFlight>>
              \/ /\ reader'[t].at = "reading" /\ reader'[t].read = Len(reads) + 1 /\ inFlight = 0
                 /\ inFlight' = Len(reads) + 1 /\ reads' = Append(reads, Open)
<1>1. CASE inFlight # 0
  <2>1. PICK new : new = [Out EXCEPT !.at = "draining", !.read = inFlight]
    OBVIOUS
  <2>2. reader' = [reader EXCEPT ![t] = new] /\ UNCHANGED <<reads, inFlight>>
    BY <1>1, <2>1 DEF StartFresh
  <2>3. Len(reads) \in Nat /\ inFlight = Len(reads) /\ inFlight \in DOMAIN reads /\ inFlight \in 0..MaxReads
    BY <1>1, MenuBounds DEF ReadsType, InFlightLast, MenuBounds
  <2>4. new \in Readers /\ new.at = "draining" /\ new.read = inFlight
    BY <2>1, <2>3, EventFacts DEF Readers
  <2>5. /\ reader' \in [PollTasks -> Readers] /\ reader'[t] = new
        /\ \A u \in PollTasks \ {t} : reader'[u] = reader[u]
    BY <2>2, <2>4 DEF ReadsType
  <2>6. ReadsType'
    BY <2>2, <2>3, <2>4, <2>5 DEF ReadsType
  <2> QED
    BY <1>1, <2>2, <2>3, <2>4, <2>5, <2>6 DEF InFlightLast
<1>2. CASE inFlight = 0
  <2>1. Fetch(t, 0)
    BY <1>2 DEF StartFresh
  <2> QED
    BY <1>2, <2>1, FetchTypes
<1> QED
  BY <1>1, <1>2

\* What a step does to the reads.
ReadStep ==
    \/ UNCHANGED <<reads, inFlight, acceptance, reader>>
    \/ \E t \in PollTasks : reader' = [reader EXCEPT ![t] = Out] /\ UNCHANGED <<reads, inFlight, acceptance>>
    \/ \E t \in PollTasks : StartFresh(t) /\ UNCHANGED acceptance
    \/ \E t \in PollTasks : \E flight \in {0, inFlight} :
          /\ Fetch(t, flight) /\ UNCHANGED acceptance
          /\ t = "loop" \/ (reader[t].at = "draining" /\ flight # reader[t].read)
    \/ (\E r \in 1..MaxReads : Answer(r)) \/ (\E t \in PollTasks : Receive(t))

\* Every step is one of these.
LEMMA ReadSteps == ASSUME ReadsType, MenuNext PROVE ReadStep
<1>1. AppOps \subseteq PollTasks /\ RecoveryTasks \subseteq PollTasks /\ "loop" \in PollTasks
  BY DEF PollTasks
<1>2. CASE (\E r \in 1..MaxReads : Answer(r)) \/ (\E t \in PollTasks : Receive(t))
  BY <1>2 DEF ReadStep
<1>3. CASE Restart \/ ChangedElsewhere \/ RetryCleanup
  BY <1>3 DEF ReadStep, Restart, ChangedElsewhere, RetryCleanup
<1>4. CASE LoopPolls
  BY <1>1, <1>4 DEF ReadStep, LoopPolls
<1>5. CASE LoopApplies
  BY <1>1, <1>5 DEF ReadStep, LoopApplies
<1>6. ASSUME NEW t \in PollTasks, Drained(t) PROVE ReadStep
  <2>1. PICK flight : flight = IF inFlight = reader[t].read THEN 0 ELSE inFlight
    OBVIOUS
  <2>2. reader[t].at = "draining" /\ Fetch(t, flight) /\ UNCHANGED acceptance
    BY <1>6, <2>1 DEF Drained
  <2>3. reader[t].read # 0
    <3>1. reader[t].read \in DOMAIN reads /\ DOMAIN reads = 1..Len(reads) /\ Len(reads) \in Nat
      BY <2>2 DEF ReadsType
    <3> QED
      BY <3>1
  <2> QED
    BY <2>1, <2>2, <2>3 DEF ReadStep
<1>7. ASSUME NEW o \in AppOps,
             BeginDirect(o) \/ BeginPreflight(o) \/ Preflighted(o) \/ BeginBarrier(o) \/ BarrierPassed(o) \/ Confirm(o)
      PROVE  ReadStep
  BY <1>1, <1>7 DEF ReadStep, BeginDirect, BeginPreflight, Preflighted, BeginBarrier, BarrierPassed, Confirm
<1>8. ASSUME NEW o \in AppOps, RunPrimary(o) \/ RunReconcile(o) PROVE ReadStep
  <2>1. (UNCHANGED <<reads, inFlight, reader>> \/ StartFresh(o)) /\ UNCHANGED acceptance
    BY <1>8 DEF RunPrimary, RunReconcile
  <2> QED
    BY <1>1, <2>1, Zenon DEF ReadStep
<1>9. ASSUME NEW t \in RecoveryTasks, RecoveryStarts(t) \/ PerformCanceled(t) \/ RetryDue(t) \/ FinishRecovery(t)
      PROVE  ReadStep
  BY <1>1, <1>9 DEF ReadStep, RecoveryStarts, PerformCanceled, RetryDue, FinishRecovery
<1>10. ASSUME NEW t \in RecoveryTasks, RunStatus(t) \/ RunRecover(t) PROVE ReadStep
  <2>1. (UNCHANGED <<reads, inFlight, reader>> \/ StartFresh(t)) /\ UNCHANGED acceptance
    BY <1>10 DEF RunStatus, RunRecover, Finishing, Idle
  <2> QED
    BY <1>1, <2>1 DEF ReadStep
<1> QED
  BY <1>2, <1>3, <1>4, <1>5, <1>6, <1>7, <1>8, <1>9, <1>10 DEF MenuNext

\* One answer is replaced.
LEMMA AnswerInPlace ==
    ASSUME reads \in Seq(Events \cup {Open}), NEW i, NEW x \in Events \cup {Open}, reads' = [reads EXCEPT ![i] = x]
    PROVE  /\ reads' \in Seq(Events \cup {Open}) /\ Len(reads') = Len(reads) /\ DOMAIN reads' = DOMAIN reads
           /\ \A j \in DOMAIN reads : reads'[j] = reads[j] \/ (j = i /\ reads'[j] = x)
<1> DEFINE S == Events \cup {Open}
<1> HIDE DEF S
<1>1. PICK n \in Nat : n = Len(reads) /\ DOMAIN reads = 1..n /\ \A j \in 1..n : reads[j] \in S
  BY DEF S
<1>2. reads \in [1..n -> S]
  BY <1>1 DEF S
<1>3. reads' \in [1..n -> S]
  BY <1>2 DEF S
<1>4. reads' \in Seq(S) /\ Len(reads') = n /\ DOMAIN reads' = 1..n
  BY <1>1, <1>3
<1> QED
  BY <1>1, <1>4 DEF S

\* What a task receives.
LEMMA ReceiveTypes ==
    ASSUME ReadsType, InFlightLast, NEW t \in PollTasks, Receive(t)
    PROVE  /\ ReadsType' /\ InFlightLast'
           /\ reader[t].at = "reading" /\ reader[t].read \in DOMAIN reads
           /\ reader'[t].at = "event"
           /\ reader'[t].event = reads[reader[t].read] \/ reader'[t].event.is # "snapshot"
           /\ \A u \in PollTasks \ {t} : reader'[u] = reader[u]
           /\ inFlight' \in {0, inFlight} /\ DOMAIN reads' = DOMAIN reads
           /\ \A r \in DOMAIN reads : reads'[r] = reads[r] \/ reads'[r] = Word("stale")
<1> DEFINE n == Len(reads)
           S == Events \cup {Open}
           r == reader[t].read
           answer == reads[r].token
           moved == [acceptance EXCEPT !.latest = r]
<1>1. /\ reads \in Seq(S) /\ n \in Nat /\ n <= MaxReads /\ DOMAIN reads = 1..n /\ inFlight \in 0..n
      /\ inFlight = 0 \/ inFlight = n
      /\ reader \in [PollTasks -> Readers] /\ MaxReads \in Nat
      /\ \A u \in PollTasks : reader[u].at \in {"draining", "reading"} => reader[u].read \in 1..n
      /\ acceptance \in [latest : 0..MaxReads, current : MaybeToken, retired : SUBSET (1..MaxStarts)]
  BY MenuBounds DEF ReadsType, MenuBounds, InFlightLast
<1>2. reader[t].at = "reading" /\ reads[r] # Open /\ r \in 1..n
  BY <1>1 DEF Receive
<1>3. reads[r] \in S /\ reads[r] \in Events /\ answer \in MaybeToken
  <2> HIDE DEF S, n
  <2>1. reads[r] \in S
    BY <1>1, <1>2
  <2>2. PICK x \in Events \cup {Open} : x = reads[r]
    BY <2>1 DEF S
  <2>3. x.token \in MaybeToken /\ (x # Open => x \in Events)
    BY TokenOf, Zenon
  <2> QED
    BY <1>2, <2>1, <2>2, <2>3
<1>4. /\ inFlight' = IF reader[t].owns /\ inFlight = r THEN 0 ELSE inFlight
      /\ \E e \in Events :
            /\ reader' = [reader EXCEPT ![t].at = "event", ![t].event = e, ![t].read = 0, ![t].owns = FALSE]
            /\ e = reads[r] \/ e.is # "snapshot"
      /\ \/ acceptance' \in {acceptance, moved}
         \/ /\ answer # NoToken
            /\ acceptance' = [moved EXCEPT !.current = answer,
                                           !.retired = @ \cup ({acceptance.current.boot} \ {0, answer.boot})]
      /\ reads' \in {reads, [reads EXCEPT ![r] = Word("stale")]}
  <2>1. Word("down") \in Events /\ Word("stale") \in Events /\ Word("down").is = "down" /\ Word("stale").is = "stale"
    BY EventFacts, Zenon
  <2> HIDE DEF answer, moved, r, n, S
  <2> QED
    BY <1>3, <2>1 DEF Receive, r, answer, moved
<1> HIDE DEF n, S
<1>5. PICK e \in Events :
            /\ reader' = [reader EXCEPT ![t].at = "event", ![t].event = e, ![t].read = 0, ![t].owns = FALSE]
            /\ e = reads[r] \/ e.is # "snapshot"
  BY <1>4
<1>6. PICK new : new = [reader[t] EXCEPT !.at = "event", !.event = e, !.read = 0, !.owns = FALSE]
  OBVIOUS
<1>7. new \in Readers /\ new.at = "event" /\ new.event = e
  <2>1. reader[t] \in Readers /\ 0 \in 0..MaxReads
    BY <1>1
  <2> QED
    BY <1>6, <2>1 DEF Readers
<1>8. reader' = [reader EXCEPT ![t] = new]
  BY <1>1, <1>5, <1>6
<1>9. /\ reader' \in [PollTasks -> Readers] /\ reader'[t] = new
      /\ \A u \in PollTasks \ {t} : reader'[u] = reader[u]
  BY <1>1, <1>7, <1>8
<1>10. /\ reads' \in Seq(S) /\ Len(reads') = n /\ DOMAIN reads' = 1..n
       /\ \A i \in 1..n : reads'[i] = reads[i] \/ reads'[i] = Word("stale")
  <2>1. Word("stale") \in S
    BY EventFacts, Zenon DEF S
  <2>2. CASE reads' = reads
    BY <1>1, <2>2, Zenon DEF n
  <2>3. CASE reads' = [reads EXCEPT ![r] = Word("stale")]
    BY <1>1, <2>1, <2>3, AnswerInPlace DEF n, S
  <2> QED
    BY <1>4, <2>2, <2>3
<1>11. acceptance' \in [latest : 0..MaxReads, current : MaybeToken, retired : SUBSET (1..MaxStarts)]
  <2>1. r \in 0..MaxReads
    BY <1>1, <1>2
  <2>2. moved \in [latest : 0..MaxReads, current : MaybeToken, retired : SUBSET (1..MaxStarts)]
    BY <1>1, <2>1
  <2>3. acceptance.current.boot \in 1..MaxStarts \/ acceptance.current.boot = 0
    BY <1>1 DEF MaybeToken, Tokens, NoToken
  <2>4. moved.retired \cup ({acceptance.current.boot} \ {0, answer.boot}) \in SUBSET (1..MaxStarts)
    BY <2>2, <2>3
  <2> HIDE DEF moved, answer
  <2>5. [moved EXCEPT !.current = answer, !.retired = @ \cup ({acceptance.current.boot} \ {0, answer.boot})]
          \in [latest : 0..MaxReads, current : MaybeToken, retired : SUBSET (1..MaxStarts)]
    BY <1>3, <2>2, <2>4
  <2> QED
    BY <1>1, <1>4, <2>2, <2>5
<1>12. inFlight' \in {0, inFlight} /\ inFlight' \in 0..n
  BY <1>1, <1>4
<1>13. \A u \in PollTasks : reader'[u].at \in {"draining", "reading"} => reader'[u].read \in 1..n
  BY <1>1, <1>7, <1>9
<1>14. ReadsType'
  BY <1>1, <1>9, <1>10, <1>11, <1>12, <1>13 DEF ReadsType, S
<1>15. InFlightLast'
  BY <1>1, <1>10, <1>12 DEF InFlightLast
<1> QED
  BY <1>1, <1>2, <1>5, <1>7, <1>9, <1>10, <1>12, <1>14, <1>15

\* Every step keeps the types of the reads.
LEMMA ReadTypes == ASSUME RouterType, ReadsType, InFlightLast, ReadStep PROVE ReadsType' /\ InFlightLast'
<1>1. CASE UNCHANGED <<reads, inFlight, acceptance, reader>>
  BY <1>1 DEF ReadsType, InFlightLast
<1>2. ASSUME NEW t \in PollTasks, reader' = [reader EXCEPT ![t] = Out], UNCHANGED <<reads, inFlight, acceptance>>
      PROVE  ReadsType' /\ InFlightLast'
  <2>1. /\ reader' \in [PollTasks -> Readers] /\ reader'[t].at = "out"
        /\ \A u \in PollTasks \ {t} : reader'[u] = reader[u]
    BY <1>2, EventFacts DEF ReadsType
  <2>2. \A u \in PollTasks : reader'[u].at \in {"draining", "reading"} => reader'[u].read \in DOMAIN reads
    BY <2>1, Zenon DEF ReadsType
  <2> QED
    BY <1>2, <2>1, <2>2 DEF ReadsType, InFlightLast
<1>3. ASSUME NEW r \in 1..MaxReads, Answer(r) PROVE ReadsType' /\ InFlightLast'
  <2> DEFINE S == Events \cup {Open}
  <2>1. Active \in Tokens
    BY DEF Active, RouterType, Tokens
  <2>2. PICK a \in S : reads' = [reads EXCEPT ![r] = a]
    BY <1>3, <2>1, EventFacts DEF Answer
  <2>3. reads \in Seq(S)
    BY DEF ReadsType
  <2> HIDE DEF S
  <2>4. reads' \in Seq(S) /\ Len(reads') = Len(reads) /\ DOMAIN reads' = DOMAIN reads
    BY <2>2, <2>3, AnswerInPlace DEF S
  <2>5. UNCHANGED <<inFlight, acceptance, reader>>
    BY <1>3 DEF Answer
  <2> QED
    BY <2>4, <2>5, Zenon DEF ReadsType, InFlightLast, S
<1> QED
  BY <1>1, <1>2, <1>3, StartFreshTypes, FetchTypes, ReceiveTypes DEF ReadStep

---------------------------------------------------------------------------
(* MenuApp: the tasks, the lane and the gate.                               *)

\* The lane's invariant, from what moves and what the tasks on it do next.
LEMMA LaneKept ==
    ASSUME LaneInv, NEW gone, NEW new, Moves(gone, new),
           \A o \in AppOps : /\ o \in new \/ (o \in OnLane /\ o \notin gone) => ops'[o].at \in {"primary", "reconcile"}
                             /\ ops'[o].at = "primary" => o \in new \/ (o \in OnLane /\ o \notin gone),
           \A t \in RecoveryTasks :
              /\ t \in new \/ (t \in OnLane /\ t \notin gone) => recovering'[t].at \in {"status", "recover"}
              /\ t \in new \/ (t \in Waiting /\ t \notin gone) => Current(t)',
           \A i \in DOMAIN Recoveries : i > begun' => recovering'[Recoveries[i]].at = "none",
           \A o \in AppOps, t \in RecoveryTasks : ops'[o].at = "primary" /\ ~ops'[o].late /\ Current(t)' =>
              /\ recovering'[t].at \in {"none", "created", "status", "recover", "over"}
              /\ \/ o \notin new /\ (t \in new \/ Before(lane, o, t))
                 \/ t \notin new /\ (t \in gone \/ t \notin OnLane)
    PROVE  LaneInv'
<1>1. /\ OnceOnLane' /\ OnLane' = (OnLane \ gone) \cup new /\ Waiting' \subseteq (Waiting \ gone) \cup new
      /\ \A a, b \in AppOps \cup RecoveryTasks :
            a \notin new /\ (b \in new \/ Before(lane, a, b)) => Before(lane', a, b)
  BY DEF Moves
<1>2. ChangesOnLane'
  BY <1>1 DEF ChangesOnLane
<1>3. RecoveriesOnLane'
  BY <1>1 DEF RecoveriesOnLane
<1>4. \A o, t : t \notin OnLane' => Before(lane', o, t)
  BY DEF OnLane, Before
<1>5. ChangesGoFirst'
  <2> SUFFICES ASSUME NEW o \in AppOps, NEW t \in RecoveryTasks,
                      ops'[o].at = "primary" /\ ~ops'[o].late /\ Current(t)'
               PROVE  /\ recovering'[t].at \in {"none", "created", "status", "recover", "over"}
                      /\ Before(lane', o, t)
    BY DEF ChangesGoFirst
  <2> QED
    BY <1>1, <1>4
<1> QED
  BY <1>1, <1>2, <1>3, <1>5 DEF LaneInv

\* Steps of the router, and of tasks that only read.
LEMMA ReadersKeep ==
    ASSUME RouterType, MenuType, TasksType, LaneInv, GateInv,
           \/ (\E r \in 1..MaxReads : Answer(r)) \/ Restart \/ ChangedElsewhere \/ LoopPolls
           \/ \E t \in PollTasks : Drained(t) \/ Receive(t)
    PROVE  RouterType' /\ MenuType' /\ TasksType' /\ LaneInv' /\ GateInv'
<1>1. UNCHANGED <<menu, ops, recovering, begun, gate, lane>>
  BY Zenon DEF Answer, Restart, ChangedElsewhere, LoopPolls, Drained, Receive
<1>2. RouterType' /\ router'.unfinished = router.unfinished
  <2>1. /\ router.boot \in 1..MaxStarts /\ router.gen \in 1..MaxGeneration /\ router.unfinished \in BOOLEAN
        /\ MaxStarts \in Nat /\ MaxGeneration \in Nat \ {0}
    BY MenuBounds DEF RouterType, MenuBounds
  <2>2. CASE UNCHANGED router
    BY <2>2 DEF RouterType
  <2>3. CASE Restart
    <3>1. router.boot + 1 \in 1..MaxStarts /\ 1 \in 1..MaxGeneration
      BY <2>1, <2>3 DEF Restart
    <3> QED
      BY <2>1, <2>3, <3>1 DEF Restart, RouterType
  <2>4. CASE ChangedElsewhere
    <3>1. router.gen + 1 \in 1..MaxGeneration
      BY <2>1, <2>4 DEF ChangedElsewhere
    <3> QED
      BY <2>1, <2>4, <3>1 DEF ChangedElsewhere, RouterType
  <2> QED
    BY <2>2, <2>3, <2>4, Zenon DEF Answer, LoopPolls, Drained, Receive
<1>3. LaneInv'
  BY <1>1 DEF LaneInv, OnceOnLane, ChangesOnLane, RecoveriesOnLane, ChangesGoFirst, OnLane, Waiting, Before, Current
<1>4. GateInv'
  BY <1>1, <1>2 DEF GateInv, LateWentOut, OpenOverUnfinished, ReadyRecovery, LegacyKnown, SomeLate, GateOpen, Current
<1> QED
  BY <1>1, <1>2, <1>3, <1>4, Zenon DEF MenuType, TasksType

\* A change is replaced by a record.
LEMMA OpReplaced ==
    ASSUME TasksType, NEW o \in AppOps, NEW new \in Changes, ops' = [ops EXCEPT ![o] = new]
    PROVE  ops' \in [AppOps -> Changes] /\ ops'[o] = new /\ \A p \in AppOps \ {o} : ops'[p] = ops[p]
BY DEF TasksType

\* So is a recovery.
LEMMA RecoveryReplaced ==
    ASSUME TasksType, NEW t \in RecoveryTasks, NEW new \in RecoveryRecords, recovering' = [recovering EXCEPT ![t] = new]
    PROVE  /\ recovering' \in [RecoveryTasks -> RecoveryRecords] /\ recovering'[t] = new
           /\ \A u \in RecoveryTasks \ {t} : recovering'[u] = recovering[u]
BY DEF TasksType

\* A change that goes out.
LEMMA DispatchFacts ==
    ASSUME TasksType, NEW o \in AppOps, NEW token \in MaybeToken, NEW late \in BOOLEAN, ops' = Dispatch(o, token, late)
    PROVE  /\ ops' \in [AppOps -> Changes] /\ ops'[o].at = "primary" /\ ops'[o].late = late
           /\ ops'[o].made = ops[o].made
           /\ \A p \in AppOps \ {o} : ops'[p] = ops[p]
<1>1. ops[o] \in Changes
  BY DEF TasksType
<1>2. PICK new : new = [ops[o] EXCEPT !.at = "primary", !.token = token, !.late = late]
  OBVIOUS
<1>3. new \in Changes /\ new.at = "primary" /\ new.late = late /\ new.made = ops[o].made
  BY <1>1, <1>2 DEF Changes, OpPhases
<1>4. ops' = [ops EXCEPT ![o] = new]
  BY <1>2 DEF Dispatch, TasksType
<1> QED
  BY <1>3, <1>4, OpReplaced

\* A change that is put off, or given up before it went out.
LEMMA PhaseFacts ==
    ASSUME TasksType, NEW o \in AppOps, NEW at \in OpPhases, ops' = [ops EXCEPT ![o].at = at]
    PROVE  /\ ops' \in [AppOps -> Changes] /\ ops'[o].at = at /\ ops'[o].late = ops[o].late
           /\ ops'[o].made = ops[o].made
           /\ \A p \in AppOps \ {o} : ops'[p] = ops[p]
<1>1. ops[o] \in Changes
  BY DEF TasksType
<1>2. PICK new : new = [ops[o] EXCEPT !.at = at]
  OBVIOUS
<1>3. new \in Changes /\ new.at = at /\ new.late = ops[o].late /\ new.made = ops[o].made
  BY <1>1, <1>2 DEF Changes
<1>4. ops' = [ops EXCEPT ![o] = new]
  BY <1>2 DEF TasksType
<1> QED
  BY <1>3, <1>4, OpReplaced

\* Changes and recoveries are different tasks.
LEMMA TasksApart == \A o \in AppOps, t \in RecoveryTasks : o # t /\ o \in PollTasks /\ t \in PollTasks /\ o # "loop"
BY MenuBounds DEF MenuBounds, PollTasks

\* The gate's invariant, while a change begins, goes out or is given up.
LEMMA GateStays ==
    ASSUME GateInv, UNCHANGED <<router, recovering, gate>>, \A t : Current(t)' = Current(t), NEW o \in AppOps,
           ops[o].at \in {"idle", "preflight", "barrier"}, \A p \in AppOps \ {o} : ops'[p] = ops[p],
           \/ ops'[o].at \in {"primary", "failed"}
           \/ ops'[o].at \in {"barrier", "preflight"} /\ ops'[o].late = ops[o].late
    PROVE  GateInv'
<1>1. ~ops[o].late /\ ops[o].at # "reconcile"
  BY DEF GateInv, LateWentOut
<1>2. SomeLate => SomeLate'
  BY <1>1 DEF SomeLate
<1>3. (\E p \in AppOps : ops[p].at = "reconcile") => \E p \in AppOps : ops'[p].at = "reconcile"
  BY <1>1
<1>4. LateWentOut'
  BY <1>1 DEF GateInv, LateWentOut
<1>5. OpenOverUnfinished' /\ ReadyRecovery' /\ LegacyKnown'
  BY <1>2, <1>3 DEF GateInv, OpenOverUnfinished, ReadyRecovery, LegacyKnown, GateOpen
<1> QED
  BY <1>4, <1>5 DEF GateInv

\* A change begins, or is checked.
LEMMA BeginsKeep ==
    ASSUME RouterType, MenuType, TasksType, LaneInv, GateInv, NEW o \in AppOps,
           BeginDirect(o) \/ BeginBarrier(o) \/ BeginPreflight(o) \/ Preflighted(o)
    PROVE  RouterType' /\ MenuType' /\ TasksType' /\ LaneInv' /\ GateInv'
<1>1. /\ UNCHANGED <<router, menu, recovering, begun, gate>>
      /\ ops[o].at \in {"idle", "preflight"}
      /\ \/ ops' = Dispatch(o, menu.snapshot, RecoveryRuns) /\ lane' = Append(lane, o)
         \/ \E at \in {"barrier", "preflight", "failed"} : ops' = [ops EXCEPT ![o].at = at] /\ UNCHANGED lane
  BY DEF BeginDirect, BeginBarrier, BeginPreflight, Preflighted
<1>2. o \notin OnLane /\ OnceOnLane /\ o \in AppOps \cup RecoveryTasks
  BY <1>1 DEF LaneInv, ChangesOnLane
<1>3. RecoveryRuns \in BOOLEAN /\ menu.snapshot \in MaybeToken
  BY DEF RecoveryRuns, MenuType
<1>4. \A t : Current(t)' = Current(t)
  BY <1>1 DEF Current
<1>5. CASE ops' = Dispatch(o, menu.snapshot, RecoveryRuns) /\ lane' = Append(lane, o)
  <2>0. PICK late \in BOOLEAN : late = RecoveryRuns
    BY <1>3
  <2>1. /\ ops' \in [AppOps -> Changes] /\ ops'[o].at = "primary" /\ ops'[o].late = late
        /\ \A p \in AppOps \ {o} : ops'[p] = ops[p]
    BY <1>3, <1>5, <2>0, DispatchFacts
  <2>2. Moves({}, {o})
    BY <1>2, <1>5, JoinMoves
  <2>3. ~late => \A t \in RecoveryTasks : Current(t) =>
                    recovering[t].at \in {"none", "created", "over"} /\ t \notin OnLane
    <3>1. \A t \in RecoveryTasks : recovering[t].at \in RecoveryPhases
      BY DEF TasksType, RecoveryRecords
    <3> QED
      BY <2>0, <3>1 DEF RecoveryRuns, RecoveryPhases, LaneInv, RecoveriesOnLane
  <2>4. LaneInv'
    <3>1. \A p \in AppOps :
             /\ p \in {o} \/ (p \in OnLane /\ p \notin {}) => ops'[p].at \in {"primary", "reconcile"}
             /\ ops'[p].at = "primary" => p \in {o} \/ (p \in OnLane /\ p \notin {})
      BY <2>1 DEF LaneInv, ChangesOnLane
    <3>2. \A t \in RecoveryTasks :
             /\ t \in {o} \/ (t \in OnLane /\ t \notin {}) => recovering'[t].at \in {"status", "recover"}
             /\ t \in {o} \/ (t \in Waiting /\ t \notin {}) => Current(t)'
      BY <1>1, <1>4, TasksApart DEF LaneInv, RecoveriesOnLane
    <3>3. \A i \in DOMAIN Recoveries : i > begun' => recovering'[Recoveries[i]].at = "none"
      BY <1>1 DEF LaneInv, RecoveriesOnLane
    <3>4. ASSUME NEW p \in AppOps, NEW t \in RecoveryTasks, ops'[p].at = "primary", ~ops'[p].late, Current(t)'
          PROVE  /\ recovering'[t].at \in {"none", "created", "status", "recover", "over"}
                 /\ \/ p \notin {o} /\ (t \in {o} \/ Before(lane, p, t))
                    \/ t \notin {o} /\ (t \in {} \/ t \notin OnLane)
      <4>1. CASE p = o
        BY <1>1, <1>4, <2>1, <2>3, <3>4, <4>1, TasksApart
      <4>2. CASE p # o
        BY <1>1, <1>4, <2>1, <3>4, <4>2 DEF LaneInv, ChangesGoFirst
      <4> QED
        BY <4>1, <4>2
    <3> QED
      BY <2>2, <3>1, <3>2, <3>3, <3>4, LaneKept
  <2>5. TasksType'
    BY <1>1, <2>1, <2>2 DEF TasksType, Moves
  <2>6. GateInv'
    BY <1>1, <1>4, <2>1, GateStays
  <2> QED
    BY <1>1, <2>4, <2>5, <2>6 DEF RouterType, MenuType
<1>6. ASSUME NEW at \in {"barrier", "preflight", "failed"}, ops' = [ops EXCEPT ![o].at = at], UNCHANGED lane
      PROVE  TasksType' /\ LaneInv' /\ GateInv'
  <2>1. /\ ops' \in [AppOps -> Changes] /\ ops'[o].at = at /\ ops'[o].late = ops[o].late
        /\ \A p \in AppOps \ {o} : ops'[p] = ops[p]
    BY <1>6, PhaseFacts DEF OpPhases
  <2>2. OnLane' = OnLane /\ Waiting' = Waiting /\ \A a, b : Before(lane', a, b) = Before(lane, a, b)
    BY <1>6 DEF OnLane, Waiting, Before
  <2>3. ChangesOnLane'
    BY <1>2, <1>6, <2>1, <2>2 DEF LaneInv, ChangesOnLane
  <2>4. RecoveriesOnLane'
    BY <1>1, <1>4, <2>2 DEF LaneInv, RecoveriesOnLane
  <2>5. ChangesGoFirst'
    BY <1>1, <1>4, <1>6, <2>1, <2>2 DEF LaneInv, ChangesGoFirst
  <2>6. GateInv'
    BY <1>1, <1>4, <1>6, <2>1, GateStays
  <2>7. TasksType' /\ OnceOnLane'
    BY <1>1, <1>6, <2>1 DEF TasksType, LaneInv, OnceOnLane
  <2> QED
    BY <2>3, <2>4, <2>5, <2>6, <2>7 DEF LaneInv
<1> QED
  BY <1>1, <1>5, <1>6 DEF RouterType, MenuType

GateRecords == [state : Gates, key : 0..MaxStarts, legacy : BOOLEAN]

\* What apply() leaves of the gate and the lane.
LEMMA AppliedFacts ==
    ASSUME ReadsType, MenuType, TasksType, NEW t \in PollTasks, NEW e, e = reader[t].event, Applied(t, e)
    PROVE  /\ e \in Events /\ MenuType'
           /\ gateAfter(e) \in GateRecords /\ gateAfter(e).legacy = gate.legacy
           /\ gateAfter(e) = gate \/ gateAfter(e).state = "checking" \/ gate.legacy
           /\ gateAfter(e).state = "legacy" => gate.legacy \/ gate.state = "legacy"
           /\ \/ begun' = begun /\ (laneAfter(e) = lane \/ laneAfter(e) = WithoutCurrent(lane))
              \/ /\ begun' = begun + 1 /\ begun < Len(Recoveries) /\ Begins(e) /\ ~gate.legacy
                 /\ laneAfter(e) = WithoutCurrent(lane)
           /\ ~Begins(e) => begun' = begun /\ laneAfter(e) = lane
           /\ begun' \in 0..Len(Recoveries)
<1>1. e \in Events
  BY DEF ReadsType, Readers
<1>2. e.token \in MaybeToken /\ (e.is = "snapshot" => e.token \in Tokens)
  BY <1>1, TokenOf
<1>3. MenuType'
  BY <1>1, <1>2 DEF Applied, Seen, MenuType, Events, Word
<1>4. gate \in GateRecords /\ gate.legacy \in BOOLEAN
  BY DEF TasksType, GateRecords
<1>5. Begins(e) => e.token.boot \in 0..MaxStarts
  BY <1>2, MenuBounds DEF Begins, Tokens, MenuBounds
<1>6. /\ gateAfter(e) \in GateRecords /\ gateAfter(e).legacy = gate.legacy
      /\ gateAfter(e) = gate \/ gateAfter(e).state = "checking" \/ gate.legacy
      /\ gateAfter(e).state = "legacy" => gate.legacy \/ gate.state = "legacy"
  <2>1. CASE ~Begins(e)
    BY <1>4, <2>1 DEF gateAfter
  <2>2. CASE Begins(e) /\ gate.legacy
    BY <1>4, <1>5, <2>2 DEF gateAfter, GateRecords, Gates
  <2>3. CASE Begins(e) /\ ~gate.legacy
    BY <1>4, <1>5, <2>3 DEF gateAfter, GateRecords, Gates
  <2> QED
    BY <1>4, <2>1, <2>2, <2>3
<1>7. /\ \/ begun' = begun /\ (laneAfter(e) = lane \/ laneAfter(e) = WithoutCurrent(lane))
         \/ /\ begun' = begun + 1 /\ begun < Len(Recoveries) /\ Begins(e) /\ ~gate.legacy
            /\ laneAfter(e) = WithoutCurrent(lane)
      /\ ~Begins(e) => begun' = begun /\ laneAfter(e) = lane
  BY DEF Applied, laneAfter
<1>8. begun' \in 0..Len(Recoveries)
  BY <1>7, MenuBounds DEF TasksType, MenuBounds
<1> QED
  BY <1>1, <1>3, <1>6, <1>7, <1>8

\* A status that is applied, with what becomes of the recoveries but for the one it begins.
AppliedWith(t, e, base) ==
    /\ Applied(t, e) /\ e = reader[t].event /\ UNCHANGED router
    /\ base \in [RecoveryTasks -> RecoveryRecords]
    /\ \A u \in RecoveryTasks : base[u] = recovering[u] \/ (recovering[u].at = "finish" /\ base[u].at = "over")
    /\ recovering' = IF begun' # begun THEN Created(base) ELSE base

\* The recovery that a status begins was not begun before.
LEMMA CreatedFacts ==
    ASSUME ReadsType, MenuType, TasksType, LaneInv, NEW t \in PollTasks, NEW e, NEW base, AppliedWith(t, e, base)
    PROVE  /\ recovering' \in [RecoveryTasks -> RecoveryRecords]
           /\ \/ /\ begun' = begun /\ recovering' = base /\ \A u : Current(u)' = Current(u)
              \/ /\ begun' = begun + 1 /\ begun + 1 \in DOMAIN Recoveries
                 /\ recovering[Recoveries[begun + 1]].at = "none"
                 /\ recovering'[Recoveries[begun + 1]].at = "created"
                 /\ \A u \in RecoveryTasks : u # Recoveries[begun + 1] => recovering'[u] = base[u]
                 /\ \A u : Current(u)' = (u = Recoveries[begun + 1])
<1>1. CASE begun' = begun
  BY <1>1 DEF AppliedWith, Current
<1>2. CASE begun' = begun + 1 /\ begun < Len(Recoveries)
  <2>1. begun \in Nat /\ Len(Recoveries) \in Nat /\ DOMAIN Recoveries = 1..Len(Recoveries)
    BY MenuBounds DEF TasksType, MenuBounds
  <2>2. begun + 1 \in DOMAIN Recoveries /\ begun + 1 > begun /\ begun' # begun
    BY <1>2, <2>1
  <2>3. PICK u : u = Recoveries[begun + 1]
    OBVIOUS
  <2>4. u \in RecoveryTasks /\ recovering[u].at = "none"
    BY <2>2, <2>3, CurrentIsTask DEF TasksType, LaneInv, RecoveriesOnLane
  <2>5. PICK new : new = [base[u] EXCEPT !.at = "created"]
    OBVIOUS
  <2>6. new \in RecoveryRecords /\ new.at = "created"
    BY <2>4, <2>5 DEF AppliedWith, RecoveryRecords, RecoveryPhases
  <2>7. base \in [RecoveryTasks -> RecoveryRecords] /\ recovering' = Created(base)
    BY <2>2 DEF AppliedWith
  <2>8. recovering' = [base EXCEPT ![u] = new]
    BY <2>3, <2>5, <2>7 DEF Created
  <2>9. /\ recovering' \in [RecoveryTasks -> RecoveryRecords] /\ recovering'[u] = new
        /\ \A v \in RecoveryTasks : v # u => recovering'[v] = base[v]
    BY <2>4, <2>6, <2>7, <2>8
  <2>10. \A v : Current(v)' = (v = u)
    BY <1>2, <2>1, <2>3 DEF Current
  <2> QED
    BY <1>2, <2>2, <2>3, <2>4, <2>6, <2>9, <2>10
<1> QED
  BY <1>1, <1>2, AppliedFacts DEF AppliedWith

\* The lane's invariant, when a status is applied.
LEMMA AppliedLane ==
    ASSUME ReadsType, MenuType, TasksType, LaneInv, NEW t \in PollTasks, NEW e, NEW base, AppliedWith(t, e, base),
           NEW new \in SUBSET AppOps,
           \/ new = {} /\ lane' = laneAfter(e)
           \/ \E o \in AppOps : new = {o} /\ o \notin OnLane /\ lane' = Append(laneAfter(e), o),
           \A o \in AppOps : /\ o \in new => ops'[o].at = "primary" /\ (~ops'[o].late => begun' # begun \/ ~RecoveryRuns)
                             /\ o \notin new /\ (o \in OnLane \/ ops'[o].at = "primary") => ops'[o] = ops[o]
    PROVE  LaneInv' /\ lane' \in Seq(AppOps \cup RecoveryTasks)
<1>1. \/ begun' = begun /\ (laneAfter(e) = lane \/ laneAfter(e) = WithoutCurrent(lane))
      \/ begun' = begun + 1 /\ laneAfter(e) = WithoutCurrent(lane)
  BY AppliedFacts DEF AppliedWith
<1>2. OnceOnLane /\ RecoveriesOnLane /\ ChangesOnLane /\ ChangesGoFirst
  BY DEF LaneInv
<1>3. PICK gone : /\ Moves(gone, new) /\ \A x \in gone : x \in RecoveryTasks /\ Current(x)
                  /\ begun' # begun => RecoveryTasks \cap (Waiting \ gone) = {}
  <2>1. CASE laneAfter(e) = WithoutCurrent(lane)
    <3>1. PICK gone : /\ \A x \in gone : x \in RecoveryTasks /\ Current(x)
                      /\ RecoveryTasks \cap (Waiting \ gone) = {}
                      /\ lane' = WithoutCurrent(lane) => Moves(gone, {})
                      /\ \A x \in AppOps \cup RecoveryTasks :
                             x \notin OnLane /\ lane' = Append(WithoutCurrent(lane), x) => Moves(gone, {x})
      BY <1>2, WithoutMoves
    <3>2. Moves(gone, new)
      BY <2>1, <3>1
    <3> QED
      BY <3>1, <3>2
  <2>2. CASE laneAfter(e) = lane /\ begun' = begun
    <3>1. Moves({}, new)
      BY <1>2, <2>2, NoMove, JoinMoves
    <3> QED
      BY <2>2, <3>1
  <2> QED
    BY <1>1, <2>1, <2>2
<1>4. /\ \/ /\ begun' = begun /\ recovering' = base /\ \A u : Current(u)' = Current(u)
         \/ /\ begun' = begun + 1 /\ begun + 1 \in DOMAIN Recoveries
            /\ recovering[Recoveries[begun + 1]].at = "none"
            /\ recovering'[Recoveries[begun + 1]].at = "created"
            /\ \A u \in RecoveryTasks : u # Recoveries[begun + 1] => recovering'[u] = base[u]
            /\ \A u : Current(u)' = (u = Recoveries[begun + 1])
  BY CreatedFacts
<1>5. \A u \in RecoveryTasks : base[u] = recovering[u] \/ (recovering[u].at = "finish" /\ base[u].at = "over")
  BY DEF AppliedWith
<1>6. \A o \in AppOps : /\ o \in new \/ (o \in OnLane /\ o \notin gone) => ops'[o].at \in {"primary", "reconcile"}
                        /\ ops'[o].at = "primary" => o \in new \/ (o \in OnLane /\ o \notin gone)
  BY <1>2, <1>3, TasksApart DEF ChangesOnLane
<1>7. \A u \in RecoveryTasks :
         /\ u \in new \/ (u \in OnLane /\ u \notin gone) => recovering'[u].at \in {"status", "recover"}
         /\ u \in new \/ (u \in Waiting /\ u \notin gone) => Current(u)'
  <2> SUFFICES ASSUME NEW u \in RecoveryTasks
      PROVE  /\ u \in OnLane => recovering'[u].at \in {"status", "recover"}
             /\ u \in Waiting /\ u \notin gone => Current(u)'
    BY TasksApart
  <2>1. u \in OnLane => recovering[u].at \in {"status", "recover"} /\ base[u] = recovering[u]
    BY <1>2, <1>5 DEF RecoveriesOnLane
  <2>2. u \in OnLane => recovering'[u].at \in {"status", "recover"}
    BY <1>4, <2>1
  <2>3. u \in Waiting /\ u \notin gone => begun' = begun /\ Current(u)
    BY <1>2, <1>3 DEF RecoveriesOnLane
  <2>5. u \in Waiting /\ u \notin gone => Current(u)'
    <3>1. begun \in Int
      BY DEF TasksType
    <3> QED
      BY <1>4, <2>3, <3>1
  <2> QED
    BY <2>2, <2>5
<1>8. \A i \in DOMAIN Recoveries : i > begun' => recovering'[Recoveries[i]].at = "none"
  <2> SUFFICES ASSUME NEW i \in DOMAIN Recoveries, i > begun' PROVE recovering'[Recoveries[i]].at = "none"
    OBVIOUS
  <2>1. i \in Int /\ begun \in Int /\ Recoveries[i] \in RecoveryTasks
    BY CurrentIsTask, MenuBounds DEF TasksType, MenuBounds
  <2>2. i > begun
    BY <1>1, <2>1
  <2>3. recovering[Recoveries[i]].at = "none" /\ base[Recoveries[i]] = recovering[Recoveries[i]]
    BY <1>2, <1>5, <2>1, <2>2 DEF RecoveriesOnLane
  <2>4. begun' = begun + 1 /\ begun + 1 \in DOMAIN Recoveries => Recoveries[i] # Recoveries[begun + 1]
    BY <2>1, MenuBounds DEF MenuBounds
  <2> QED
    BY <1>4, <2>1, <2>3, <2>4
<1>9. ASSUME NEW o \in AppOps, NEW u \in RecoveryTasks, ops'[o].at = "primary", ~ops'[o].late, Current(u)'
      PROVE  /\ recovering'[u].at \in {"none", "created", "status", "recover", "over"}
             /\ \/ o \notin new /\ (u \in new \/ Before(lane, o, u))
                \/ u \notin new /\ (u \in gone \/ u \notin OnLane)
  <2>0. u \notin new
    BY TasksApart
  <2>1. CASE /\ begun' = begun /\ recovering' = base /\ Current(u)
    <3>1. CASE o \notin new
      <4>1. ops'[o] = ops[o]
        BY <1>9, <3>1
      <4>2. recovering[u].at \in {"none", "created", "status", "recover", "over"} /\ Before(lane, o, u)
        BY <1>2, <1>9, <2>1, <4>1 DEF ChangesGoFirst
      <4> QED
        BY <1>5, <2>1, <3>1, <4>2
    <3>2. CASE o \in new
      <4>1. ~RecoveryRuns /\ recovering[u].at \in RecoveryPhases
        BY <1>9, <2>1, <3>2 DEF TasksType, RecoveryRecords
      <4>2. recovering[u].at \in {"none", "created", "over"}
        BY <2>1, <4>1 DEF RecoveryRuns, RecoveryPhases
      <4>3. u \notin OnLane
        BY <1>2, <4>2 DEF RecoveriesOnLane
      <4> QED
        BY <1>5, <2>0, <2>1, <4>2, <4>3
    <3> QED
      BY <3>1, <3>2
  <2>2. CASE /\ begun' = begun + 1 /\ u = Recoveries[begun + 1]
             /\ recovering[u].at = "none" /\ recovering'[u].at = "created"
    <3>1. u \notin OnLane
      BY <1>2, <2>2 DEF RecoveriesOnLane
    <3> QED
      BY <2>0, <2>2, <3>1
  <2> QED
    BY <1>4, <1>9, <2>1, <2>2
<1>10. LaneInv'
  BY <1>3, <1>6, <1>7, <1>8, <1>9, LaneKept
<1> QED
  BY <1>3, <1>10 DEF Moves

\* The same when no task joins.
LEMMA AppliedAlone ==
    ASSUME ReadsType, MenuType, TasksType, LaneInv, NEW t \in PollTasks, NEW e, NEW base, AppliedWith(t, e, base),
           lane' = laneAfter(e), \A o \in AppOps : o \in OnLane \/ ops'[o].at = "primary" => ops'[o] = ops[o]
    PROVE  LaneInv' /\ lane' \in Seq(AppOps \cup RecoveryTasks)
<1>1. PICK new \in SUBSET AppOps : new = {}
  OBVIOUS
<1>2. \A o \in AppOps : /\ o \in new => ops'[o].at = "primary" /\ (~ops'[o].late => begun' # begun \/ ~RecoveryRuns)
                        /\ o \notin new /\ (o \in OnLane \/ ops'[o].at = "primary") => ops'[o] = ops[o]
  BY <1>1
<1>3. \/ new = {} /\ lane' = laneAfter(e)
      \/ \E o \in AppOps : new = {o} /\ o \notin OnLane /\ lane' = Append(laneAfter(e), o)
  BY <1>1
<1> QED
  BY <1>2, <1>3, AppliedLane

\* The gate's invariant, when a status is applied.
LEMMA AppliedGate ==
    ASSUME ReadsType, MenuType, TasksType, LaneInv, GateInv, NEW t \in PollTasks, NEW e, NEW base, AppliedWith(t, e, base),
           gate' = gateAfter(e),
           \A o \in AppOps : /\ ops'[o] = ops[o] \/ ops'[o].at \in {"primary", "failed", "confirmed"}
                             /\ ops[o].late => ops'[o].late
                             /\ ops[o].at = "reconcile" => ops'[o] = ops[o]
    PROVE  GateInv' /\ gate' \in GateRecords
<1>1. /\ gate' \in GateRecords /\ gate'.legacy = gate.legacy
      /\ gate' = gate \/ gate'.state = "checking" \/ gate.legacy
      /\ gate'.state = "legacy" => gate.legacy \/ gate.state = "legacy"
  BY AppliedFacts DEF AppliedWith
<1>2. LateWentOut' /\ (SomeLate => SomeLate')
  BY DEF GateInv, LateWentOut, SomeLate
<1>3. (\E o \in AppOps : ops[o].at = "reconcile") => \E o \in AppOps : ops'[o].at = "reconcile"
  OBVIOUS
<1>4. OpenOverUnfinished'
  BY <1>1, <1>2, <1>3 DEF GateInv, OpenOverUnfinished, GateOpen, AppliedWith
<1>5. /\ \/ recovering' = base /\ \A u : Current(u)' = Current(u)
         \/ /\ recovering'[Recoveries[begun + 1]].at = "created"
            /\ \A u \in RecoveryTasks : u # Recoveries[begun + 1] => recovering'[u] = base[u]
            /\ \A u : Current(u)' = (u = Recoveries[begun + 1])
      /\ \A u \in RecoveryTasks : base[u] = recovering[u] \/ (recovering[u].at = "finish" /\ base[u].at = "over")
  BY CreatedFacts DEF AppliedWith
<1>6. ReadyRecovery'
  <2> SUFFICES ASSUME NEW u \in RecoveryTasks, Current(u)', recovering'[u].at = "finish",
                      recovering'[u].final = "ready", router'.unfinished
               PROVE  SomeLate'
    BY DEF ReadyRecovery
  <2>1. recovering'[u] = recovering[u] /\ Current(u) /\ router.unfinished
    BY <1>5 DEF AppliedWith
  <2> QED
    BY <1>2, <2>1 DEF GateInv, ReadyRecovery
<1>7. LegacyKnown'
  <2>1. gate'.state = "legacy" => gate'.legacy
    BY <1>1 DEF GateInv, LegacyKnown
  <2>2. ASSUME NEW u \in RecoveryTasks, recovering'[u].at = "finish", recovering'[u].final = "legacy"
        PROVE  gate'.legacy
    <3>1. recovering'[u] = recovering[u]
      BY <1>5, <2>2
    <3> QED
      BY <1>1, <2>2, <3>1 DEF GateInv, LegacyKnown
  <2> QED
    BY <2>1, <2>2 DEF LegacyKnown
<1> QED
  BY <1>1, <1>2, <1>4, <1>6, <1>7 DEF GateInv

TasksInv == RouterType /\ ReadsType /\ MenuType /\ TasksType /\ LaneInv /\ GateInv
TasksNext == RouterType' /\ MenuType' /\ TasksType' /\ LaneInv' /\ GateInv'

\* The poll loop applies a status.
LEMMA LoopKeeps == ASSUME TasksInv, LoopApplies PROVE TasksNext
<1>1. PICK e : e = reader["loop"].event
  OBVIOUS
<1>2. /\ Applied("loop", e) /\ gate' = gateAfter(e) /\ lane' = laneAfter(e) /\ UNCHANGED <<router, ops>>
      /\ recovering' = IF begun' # begun THEN Created(recovering) ELSE recovering
  BY <1>1 DEF LoopApplies
<1>3. AppliedWith("loop", e, recovering) /\ "loop" \in PollTasks
  BY <1>1, <1>2 DEF AppliedWith, TasksInv, TasksType, PollTasks
<1>4. LaneInv' /\ lane' \in Seq(AppOps \cup RecoveryTasks)
  BY <1>2, <1>3, AppliedAlone DEF TasksInv
<1>5. GateInv' /\ gate' \in GateRecords
  BY <1>2, <1>3, AppliedGate DEF TasksInv
<1>6. recovering' \in [RecoveryTasks -> RecoveryRecords]
  BY <1>3, CreatedFacts DEF TasksInv
<1>7. MenuType' /\ begun' \in 0..Len(Recoveries)
  BY <1>1, <1>2, <1>3, AppliedFacts DEF TasksInv
<1> QED
  BY <1>2, <1>4, <1>5, <1>6, <1>7 DEF TasksNext, TasksInv, RouterType, TasksType, GateRecords

\* The barrier of a fallback change is passed.
LEMMA BarrierKeeps == ASSUME TasksInv, NEW o \in AppOps, BarrierPassed(o) PROVE TasksNext
<1>1. PICK e : e = reader[o].event
  OBVIOUS
<1>2. /\ ops[o].at = "barrier" /\ Applied(o, e) /\ gate' = gateAfter(e) /\ UNCHANGED router
      /\ recovering' = IF begun' # begun THEN Created(recovering) ELSE recovering
      /\ \/ ops' = [ops EXCEPT ![o].at = "failed"] /\ lane' = laneAfter(e)
         \/ /\ ops' = Dispatch(o, menu'.snapshot, begun' = begun /\ RecoveryRuns)
            /\ lane' = Append(laneAfter(e), o)
  BY <1>1 DEF BarrierPassed
<1>3. AppliedWith(o, e, recovering) /\ o \in PollTasks
  BY <1>1, <1>2 DEF AppliedWith, TasksInv, TasksType, PollTasks
<1>4. recovering' \in [RecoveryTasks -> RecoveryRecords]
  BY <1>3, CreatedFacts DEF TasksInv
<1>5. MenuType' /\ menu'.snapshot \in MaybeToken /\ begun' \in 0..Len(Recoveries)
  BY <1>1, <1>2, <1>3, AppliedFacts DEF TasksInv, MenuType
<1>6. o \notin OnLane /\ ~ops[o].late
  BY <1>2 DEF TasksInv, LaneInv, ChangesOnLane, GateInv, LateWentOut
<1>7. CASE ops' = [ops EXCEPT ![o].at = "failed"] /\ lane' = laneAfter(e)
  <2>1. /\ ops' \in [AppOps -> Changes] /\ ops'[o].at = "failed" /\ ops'[o].late = ops[o].late
        /\ \A p \in AppOps \ {o} : ops'[p] = ops[p]
    BY <1>7, PhaseFacts DEF OpPhases, TasksInv
  <2>2. LaneInv' /\ lane' \in Seq(AppOps \cup RecoveryTasks)
    BY <1>3, <1>6, <1>7, <2>1, AppliedAlone DEF TasksInv
  <2>3. GateInv' /\ gate' \in GateRecords
    BY <1>2, <1>3, <1>6, <2>1, AppliedGate DEF TasksInv
  <2> QED
    BY <1>2, <1>4, <1>5, <2>1, <2>2, <2>3 DEF TasksNext, TasksInv, RouterType, TasksType, GateRecords
<1>8. CASE ops' = Dispatch(o, menu'.snapshot, begun' = begun /\ RecoveryRuns) /\ lane' = Append(laneAfter(e), o)
  <2>0. PICK late \in BOOLEAN : late = (begun' = begun /\ RecoveryRuns)
    OBVIOUS
  <2>a. PICK token \in MaybeToken : token = menu'.snapshot
    BY <1>5
  <2>1. /\ ops' \in [AppOps -> Changes] /\ ops'[o].at = "primary" /\ ops'[o].late = late
        /\ \A p \in AppOps \ {o} : ops'[p] = ops[p]
    BY <1>8, <2>0, <2>a, DispatchFacts DEF TasksInv
  <2>2. LaneInv' /\ lane' \in Seq(AppOps \cup RecoveryTasks)
    <3>1. \A p \in AppOps :
             /\ p \in {o} => ops'[p].at = "primary" /\ (~ops'[p].late => begun' # begun \/ ~RecoveryRuns)
             /\ p \notin {o} /\ (p \in OnLane \/ ops'[p].at = "primary") => ops'[p] = ops[p]
      BY <2>0, <2>1
    <3> QED
      BY <1>3, <1>6, <1>8, <3>1, AppliedLane DEF TasksInv
  <2>3. GateInv' /\ gate' \in GateRecords
    BY <1>2, <1>3, <1>6, <2>1, AppliedGate DEF TasksInv
  <2> QED
    BY <1>2, <1>4, <1>5, <2>1, <2>2, <2>3 DEF TasksNext, TasksInv, RouterType, TasksType, GateRecords
<1> QED
  BY <1>2, <1>7, <1>8

\* A change is confirmed, or fails.
LEMMA ConfirmKeeps == ASSUME TasksInv, NEW o \in AppOps, Confirm(o) PROVE TasksNext
<1>1. PICK e : e = reader[o].event
  OBVIOUS
<1>2. PICK at : /\ at \in {"confirmed", "failed"}
                /\ ops' = [ops EXCEPT ![o] = [IdleOp EXCEPT !.late = ops[o].late, !.at = at]]
  BY DEF Confirm
<1>3. /\ ops[o].at = "confirm" /\ Applied(o, e) /\ gate' = gateAfter(e) /\ lane' = laneAfter(e) /\ UNCHANGED router
      /\ recovering' = IF begun' # begun THEN Created(recovering) ELSE recovering
  BY <1>1 DEF Confirm
<1>4. AppliedWith(o, e, recovering) /\ o \in PollTasks
  BY <1>1, <1>3 DEF AppliedWith, TasksInv, TasksType, PollTasks
<1>5. recovering' \in [RecoveryTasks -> RecoveryRecords]
  BY <1>4, CreatedFacts DEF TasksInv
<1>6. MenuType' /\ begun' \in 0..Len(Recoveries)
  BY <1>1, <1>3, <1>4, AppliedFacts DEF TasksInv
<1>7. o \notin OnLane
  BY <1>3 DEF TasksInv, LaneInv, ChangesOnLane
<1>8. /\ ops' \in [AppOps -> Changes] /\ ops'[o].at = at /\ ops'[o].late = ops[o].late
      /\ \A p \in AppOps \ {o} : ops'[p] = ops[p]
  <2>1. PICK new : new = [IdleOp EXCEPT !.late = ops[o].late, !.at = at]
    OBVIOUS
  <2>2. ops[o].late \in BOOLEAN
    BY DEF TasksInv, TasksType, Changes
  <2>3. new \in Changes /\ new.at = at /\ new.late = ops[o].late
    BY <1>2, <2>1, <2>2, EventFacts DEF IdleOp, Changes, OpPhases, Receipts
  <2> QED
    BY <1>2, <2>1, <2>3, OpReplaced DEF TasksInv
<1>9. LaneInv' /\ lane' \in Seq(AppOps \cup RecoveryTasks)
  BY <1>2, <1>3, <1>4, <1>7, <1>8, AppliedAlone DEF TasksInv
<1>10. GateInv' /\ gate' \in GateRecords
  BY <1>2, <1>3, <1>4, <1>8, AppliedGate DEF TasksInv
<1> QED
  BY <1>3, <1>5, <1>6, <1>8, <1>9, <1>10 DEF TasksNext, TasksInv, RouterType, TasksType, GateRecords

\* A recovery ends and sets the gate, if it is the current one.
LEMMA FinishKeeps == ASSUME TasksInv, NEW t \in RecoveryTasks, FinishRecovery(t) PROVE TasksNext
<1>1. PICK e : e = reader[t].event
  OBVIOUS
<1>2. PICK over : over = [NoRecovery EXCEPT !.at = "over"]
  OBVIOUS
<1>3. PICK base : base = [recovering EXCEPT ![t] = over]
  OBVIOUS
<1>4. /\ recovering[t].at = "finish" /\ Applied(t, e) /\ lane' = laneAfter(e) /\ UNCHANGED <<router, ops>>
      /\ gate' = IF Current(t) /\ ~Begins(e) THEN [gate EXCEPT !.state = recovering[t].final] ELSE gateAfter(e)
      /\ recovering' = IF begun' # begun THEN Created(base) ELSE base
  BY <1>1, <1>2, <1>3 DEF FinishRecovery
<1>5. over \in RecoveryRecords /\ over.at = "over"
  BY <1>2, MenuBounds DEF NoRecovery, RecoveryRecords, RecoveryPhases, MenuBounds
<1>6. /\ base \in [RecoveryTasks -> RecoveryRecords] /\ base[t] = over
      /\ \A u \in RecoveryTasks \ {t} : base[u] = recovering[u]
  BY <1>3, <1>5 DEF TasksInv, TasksType
<1>7. AppliedWith(t, e, base) /\ t \in PollTasks
  BY <1>1, <1>4, <1>5, <1>6 DEF AppliedWith, PollTasks
<1>8. recovering' \in [RecoveryTasks -> RecoveryRecords]
  BY <1>7, CreatedFacts DEF TasksInv
<1>9. MenuType' /\ begun' \in 0..Len(Recoveries) /\ (~Begins(e) => begun' = begun)
  BY <1>1, <1>4, <1>7, AppliedFacts DEF TasksInv
<1>10. LaneInv' /\ lane' \in Seq(AppOps \cup RecoveryTasks)
  BY <1>4, <1>7, AppliedAlone DEF TasksInv
<1>11. GateInv' /\ gate' \in GateRecords
  <2>1. CASE gate' = gateAfter(e)
    BY <1>4, <1>7, <2>1, AppliedGate DEF TasksInv
  <2>2. CASE Current(t) /\ ~Begins(e) /\ gate' = [gate EXCEPT !.state = recovering[t].final]
    <3>1. begun' = begun /\ recovering' = base /\ \A u : Current(u)' = Current(u)
      BY <1>4, <1>9, <2>2 DEF Current
    <3>2. recovering[t].final \in {"ready", "legacy", "blocked"} /\ gate \in GateRecords
      BY DEF TasksInv, TasksType, RecoveryRecords, GateRecords
    <3>3. gate' \in GateRecords /\ gate'.state = recovering[t].final /\ gate'.legacy = gate.legacy
      BY <2>2, <3>2 DEF GateRecords, Gates
    <3>4. LateWentOut' /\ (SomeLate => SomeLate')
      BY <1>4 DEF TasksInv, GateInv, LateWentOut, SomeLate
    <3>5. recovering[t].final = "legacy" => gate.legacy
      BY <1>4 DEF TasksInv, GateInv, LegacyKnown
    <3>6. recovering[t].final = "ready" /\ router.unfinished => SomeLate
      BY <1>4, <2>2 DEF TasksInv, GateInv, ReadyRecovery
    <3>7. OpenOverUnfinished'
      BY <1>4, <3>2, <3>3, <3>4, <3>5, <3>6 DEF OpenOverUnfinished, GateOpen
    <3>8. \A u \in RecoveryTasks : recovering'[u].at = "finish" => recovering'[u] = recovering[u]
      BY <1>5, <1>6, <3>1
    <3>9. ReadyRecovery'
      BY <1>4, <3>1, <3>4, <3>8 DEF TasksInv, GateInv, ReadyRecovery
    <3>10. LegacyKnown'
      BY <3>3, <3>5, <3>8 DEF TasksInv, GateInv, LegacyKnown
    <3> QED
      BY <3>3, <3>4, <3>7, <3>9, <3>10 DEF GateInv
  <2> QED
    BY <1>4, <2>1, <2>2
<1> QED
  BY <1>4, <1>8, <1>9, <1>10, <1>11 DEF TasksNext, TasksInv, RouterType, TasksType, GateRecords

\* The lane's invariant, when a command at its head has ended.
LEMMA ChangeAtHead ==
    ASSUME TasksType, LaneInv, NEW o \in AppOps, lane # <<>>, Head(lane) = o, UNCHANGED <<recovering, begun>>,
           \A p \in AppOps \ {o} : ops'[p] = ops[p],
           \/ lane' = Tail(lane) /\ ops'[o].at = "confirm"
           \/ lane' = Append(Tail(lane), o) /\ ops'[o].at = "reconcile"
    PROVE  LaneInv' /\ lane' \in Seq(AppOps \cup RecoveryTasks)
<1>1. OnceOnLane /\ RecoveriesOnLane /\ ChangesOnLane /\ ChangesGoFirst /\ \A t : Current(t)' = Current(t)
  BY DEF LaneInv, Current
<1>2. PICK new \in SUBSET {o} : Moves({o}, new) /\ (o \in new => ops'[o].at = "reconcile") /\ ops'[o].at # "primary"
  BY <1>1, HeadMoves
<1>3. \A p \in AppOps :
         /\ p \in new \/ (p \in OnLane /\ p \notin {o}) => ops'[p].at \in {"primary", "reconcile"}
         /\ ops'[p].at = "primary" => p \in new \/ (p \in OnLane /\ p \notin {o})
  BY <1>1, <1>2 DEF ChangesOnLane
<1>4. \A t \in RecoveryTasks :
         /\ t \in new \/ (t \in OnLane /\ t \notin {o}) => recovering'[t].at \in {"status", "recover"}
         /\ t \in new \/ (t \in Waiting /\ t \notin {o}) => Current(t)'
  BY <1>1, TasksApart DEF RecoveriesOnLane
<1>5. \A i \in DOMAIN Recoveries : i > begun' => recovering'[Recoveries[i]].at = "none"
  BY <1>1 DEF RecoveriesOnLane
<1>6. \A p \in AppOps, t \in RecoveryTasks : ops'[p].at = "primary" /\ ~ops'[p].late /\ Current(t)' =>
         /\ recovering'[t].at \in {"none", "created", "status", "recover", "over"}
         /\ \/ p \notin new /\ (t \in new \/ Before(lane, p, t))
            \/ t \notin new /\ (t \in {o} \/ t \notin OnLane)
  BY <1>1, <1>2 DEF ChangesGoFirst
<1>7. LaneInv'
  BY <1>2, <1>3, <1>4, <1>5, <1>6, LaneKept
<1> QED
  BY <1>2, <1>7 DEF Moves

\* No change that went out earlier is left when a recovery's command is at the head.
LEMMA NobodyBefore ==
    ASSUME TasksType, LaneInv, lane # <<>>, NEW t \in RecoveryTasks, Head(lane) = t, Current(t), NEW o \in AppOps,
           ops[o].at = "primary"
    PROVE  ops[o].late
<1> SUFFICES ASSUME ~ops[o].late PROVE FALSE
  BY DEF TasksType, Changes
<1>1. Before(lane, o, t) /\ o \in OnLane
  BY DEF LaneInv, ChangesGoFirst, ChangesOnLane
<1>2. lane \in Seq(AppOps \cup RecoveryTasks) /\ Len(lane) > 0 /\ DOMAIN lane = 1..Len(lane) /\ lane[1] = t
  BY DEF TasksType
<1>3. PICK i \in 1..Len(lane) : lane[i] = o
  BY <1>1, <1>2 DEF OnLane
<1>4. 1 \in 1..Len(lane) /\ ~(i < 1)
  BY <1>2
<1> QED
  BY <1>1, <1>2, <1>3, <1>4 DEF Before

\* The same for a recovery.
LEMMA RecoveryAtHead ==
    ASSUME TasksType, LaneInv, NEW t \in RecoveryTasks, lane # <<>>, Head(lane) = t, UNCHANGED <<ops, begun>>,
           recovering[t].at # "none", \A u \in RecoveryTasks \ {t} : recovering'[u] = recovering[u],
           \/ lane' = Tail(lane)
           \/ lane' = Append(Tail(lane), t) /\ recovering'[t].at = "recover" /\ Current(t)
    PROVE  LaneInv' /\ lane' \in Seq(AppOps \cup RecoveryTasks)
<1>1. OnceOnLane /\ RecoveriesOnLane /\ ChangesOnLane /\ ChangesGoFirst /\ \A u : Current(u)' = Current(u)
  BY DEF LaneInv, Current
<1>2. PICK new \in SUBSET {t} : Moves({t}, new) /\ (t \in new => recovering'[t].at = "recover" /\ Current(t))
  <2>1. CASE lane' = Tail(lane)
    <3>1. Moves({t}, {}) /\ {} \in SUBSET {t}
      BY <1>1, <2>1, HeadMoves
    <3> QED
      BY <3>1
  <2>2. CASE lane' = Append(Tail(lane), t) /\ recovering'[t].at = "recover" /\ Current(t)
    <3>1. Moves({t}, {t}) /\ {t} \in SUBSET {t}
      BY <1>1, <2>2, HeadMoves
    <3> QED
      BY <2>2, <3>1
  <2> QED
    BY <2>1, <2>2
<1>3. \A p \in AppOps :
         /\ p \in new \/ (p \in OnLane /\ p \notin {t}) => ops'[p].at \in {"primary", "reconcile"}
         /\ ops'[p].at = "primary" => p \in new \/ (p \in OnLane /\ p \notin {t})
  BY <1>1, TasksApart DEF ChangesOnLane
<1>4. \A u \in RecoveryTasks :
         /\ u \in new \/ (u \in OnLane /\ u \notin {t}) => recovering'[u].at \in {"status", "recover"}
         /\ u \in new \/ (u \in Waiting /\ u \notin {t}) => Current(u)'
  BY <1>1, <1>2 DEF RecoveriesOnLane
<1>5. \A i \in DOMAIN Recoveries : i > begun' => recovering'[Recoveries[i]].at = "none"
  <2>1. \A i \in DOMAIN Recoveries : i > begun => Recoveries[i] # t
    BY <1>1 DEF RecoveriesOnLane
  <2>2. \A i \in DOMAIN Recoveries : Recoveries[i] \in RecoveryTasks
    BY CurrentIsTask DEF TasksType
  <2> QED
    BY <1>1, <2>1, <2>2 DEF RecoveriesOnLane
<1>6. ASSUME NEW p \in AppOps, NEW u \in RecoveryTasks, ops'[p].at = "primary", ~ops'[p].late, Current(u)'
      PROVE  /\ recovering'[u].at \in {"none", "created", "status", "recover", "over"}
             /\ \/ p \notin new /\ (u \in new \/ Before(lane, p, u))
                \/ u \notin new /\ (u \in {t} \/ u \notin OnLane)
  <2>1. u # t
    BY <1>1, <1>6, NobodyBefore
  <2>2. p \notin new
    BY TasksApart
  <2> QED
    BY <1>1, <1>6, <2>1, <2>2 DEF ChangesGoFirst
<1>7. LaneInv'
  BY <1>2, <1>3, <1>4, <1>5, <1>6, LaneKept
<1> QED
  BY <1>2, <1>7 DEF Moves

\* The same when a recovery that has no command on the lane puts one there or ends.
LEMMA RecoveryOffLane ==
    ASSUME TasksType, LaneInv, NEW t \in RecoveryTasks, t \notin OnLane, UNCHANGED <<ops, begun>>,
           recovering[t].at # "none", \A u \in RecoveryTasks \ {t} : recovering'[u] = recovering[u],
           \/ UNCHANGED lane /\ recovering'[t].at = "over"
           \/ lane' = Append(lane, t) /\ recovering'[t].at \in {"status", "recover"} /\ Current(t)
    PROVE  LaneInv' /\ lane' \in Seq(AppOps \cup RecoveryTasks)
<1>1. OnceOnLane /\ RecoveriesOnLane /\ ChangesOnLane /\ ChangesGoFirst /\ \A u : Current(u)' = Current(u)
  BY DEF LaneInv, Current
<1>2. PICK new \in SUBSET {t} : /\ Moves({}, new)
                                /\ t \in new => recovering'[t].at \in {"status", "recover"} /\ Current(t)
                                /\ recovering'[t].at \in {"status", "recover", "over"}
  BY <1>1, NoMove, JoinMoves
<1>3. \A p \in AppOps :
         /\ p \in new \/ (p \in OnLane /\ p \notin {}) => ops'[p].at \in {"primary", "reconcile"}
         /\ ops'[p].at = "primary" => p \in new \/ (p \in OnLane /\ p \notin {})
  BY <1>1, TasksApart DEF ChangesOnLane
<1>4. \A u \in RecoveryTasks :
         /\ u \in new \/ (u \in OnLane /\ u \notin {}) => recovering'[u].at \in {"status", "recover"}
         /\ u \in new \/ (u \in Waiting /\ u \notin {}) => Current(u)'
  <2>1. Waiting \subseteq OnLane
    BY DEF Waiting, OnLane, TasksType
  <2> QED
    BY <1>1, <1>2, <2>1 DEF RecoveriesOnLane
<1>5. \A i \in DOMAIN Recoveries : i > begun' => recovering'[Recoveries[i]].at = "none"
  <2>1. \A i \in DOMAIN Recoveries : i > begun => Recoveries[i] # t
    BY <1>1 DEF RecoveriesOnLane
  <2>2. \A i \in DOMAIN Recoveries : Recoveries[i] \in RecoveryTasks
    BY CurrentIsTask DEF TasksType
  <2> QED
    BY <1>1, <2>1, <2>2 DEF RecoveriesOnLane
<1>6. ASSUME NEW p \in AppOps, NEW u \in RecoveryTasks, ops'[p].at = "primary", ~ops'[p].late, Current(u)'
      PROVE  /\ recovering'[u].at \in {"none", "created", "status", "recover", "over"}
             /\ \/ p \notin new /\ (u \in new \/ Before(lane, p, u))
                \/ u \notin new /\ (u \in {} \/ u \notin OnLane)
  <2>1. p \notin new
    BY TasksApart
  <2> QED
    BY <1>1, <1>2, <1>6, <2>1 DEF ChangesGoFirst
<1>7. LaneInv'
  BY <1>2, <1>3, <1>4, <1>5, <1>6, LaneKept
<1> QED
  BY <1>2, <1>7 DEF Moves

\* The gate's invariant, when a recovery goes on.
LEMMA GateOfRecovery ==
    ASSUME GateInv, UNCHANGED ops, router'.unfinished => router.unfinished,
           gate'.state \in {gate.state, "checking", "waiting"}, gate'.legacy = gate.legacy \/ gate'.legacy = TRUE,
           \A u \in RecoveryTasks : recovering'[u].at = "finish" =>
              \/ recovering'[u] = recovering[u] /\ (Current(u)' => Current(u))
              \/ recovering'[u].final = "blocked"
              \/ recovering'[u].final = "legacy" /\ gate'.legacy
              \/ recovering'[u].final = "ready" /\ ~router'.unfinished
    PROVE  GateInv'
<1>1. LateWentOut' /\ SomeLate' = SomeLate
  BY DEF GateInv, LateWentOut, SomeLate
<1>2. OpenOverUnfinished'
  BY <1>1 DEF GateInv, OpenOverUnfinished, GateOpen
<1>3. ReadyRecovery'
  BY <1>1 DEF GateInv, ReadyRecovery
<1>4. LegacyKnown'
  BY DEF GateInv, LegacyKnown
<1> QED
  BY <1>1, <1>2, <1>3, <1>4 DEF GateInv

\* The records a recovery moves on to.
LEMMA RecoveryRecord ==
    ASSUME TasksType, NEW t \in RecoveryTasks, NEW at \in RecoveryPhases, NEW new,
           new \in {[NoRecovery EXCEPT !.at = at], [recovering[t] EXCEPT !.at = at]}
    PROVE  new \in RecoveryRecords /\ new.at = at
<1>1. recovering[t] \in RecoveryRecords
  BY DEF TasksType
<1>2. PICK old \in RecoveryRecords : new = [old EXCEPT !.at = at]
  BY <1>1, MenuBounds DEF NoRecovery, RecoveryRecords, RecoveryPhases, MenuBounds
<1> QED
  BY <1>2 DEF RecoveryRecords

\* The recovery of a start begins, or was cancelled first.
LEMMA StartsKeep == ASSUME TasksInv, NEW t \in RecoveryTasks, RecoveryStarts(t) PROVE TasksNext
<1>1. /\ recovering[t].at = "created" /\ UNCHANGED <<router, menu, ops, begun, gate>>
      /\ \/ Drop(t) /\ UNCHANGED lane
         \/ Current(t) /\ recovering' = [recovering EXCEPT ![t].at = "status"] /\ lane' = Append(lane, t)
  BY DEF RecoveryStarts
<1>2. t \notin OnLane
  BY <1>1 DEF TasksInv, LaneInv, RecoveriesOnLane
<1>3. PICK new : /\ new \in {[NoRecovery EXCEPT !.at = "over"], [recovering[t] EXCEPT !.at = "status"]}
                 /\ recovering' = [recovering EXCEPT ![t] = new]
                 /\ \/ UNCHANGED lane /\ new = [NoRecovery EXCEPT !.at = "over"]
                    \/ Current(t) /\ new = [recovering[t] EXCEPT !.at = "status"] /\ lane' = Append(lane, t)
  BY <1>1 DEF Drop
<1>4. /\ new \in RecoveryRecords /\ new.at \in {"over", "status"}
      /\ \/ UNCHANGED lane /\ new.at = "over"
         \/ Current(t) /\ new.at = "status" /\ lane' = Append(lane, t)
  BY <1>3, RecoveryRecord DEF RecoveryPhases, TasksInv
<1>5. /\ recovering' \in [RecoveryTasks -> RecoveryRecords] /\ recovering'[t] = new
      /\ \A u \in RecoveryTasks \ {t} : recovering'[u] = recovering[u]
  BY <1>3, <1>4, RecoveryReplaced DEF TasksInv
<1>6. \/ UNCHANGED lane /\ recovering'[t].at = "over"
      \/ lane' = Append(lane, t) /\ recovering'[t].at \in {"status", "recover"} /\ Current(t)
  BY <1>4, <1>5
<1>7. LaneInv' /\ lane' \in Seq(AppOps \cup RecoveryTasks)
  BY <1>1, <1>2, <1>5, <1>6, RecoveryOffLane DEF TasksInv
<1>8. \A u \in RecoveryTasks : recovering'[u].at = "finish" =>
         recovering'[u] = recovering[u] /\ (Current(u)' => Current(u))
  BY <1>1, <1>4, <1>5 DEF Current
<1>9. GateInv'
  BY <1>1, <1>8, GateOfRecovery DEF TasksInv
<1> QED
  BY <1>1, <1>5, <1>7, <1>9 DEF TasksNext, TasksInv, RouterType, MenuType, TasksType

\* A recovery that was cancelled ends without a command.
LEMMA CanceledKeep == ASSUME TasksInv, NEW t \in RecoveryTasks, PerformCanceled(t) PROVE TasksNext
<1>1. /\ recovering[t].at \in {"status", "recover"} /\ t \notin ToSet(lane) /\ Drop(t)
      /\ UNCHANGED <<router, menu, ops, begun, gate, lane>>
  BY DEF PerformCanceled
<1>2. t \notin OnLane
  BY <1>1 DEF ToSet, OnLane
<1>3. PICK new : new = [NoRecovery EXCEPT !.at = "over"]
  OBVIOUS
<1>4. new \in RecoveryRecords /\ new.at = "over"
  BY <1>3, MenuBounds DEF NoRecovery, RecoveryRecords, RecoveryPhases, MenuBounds
<1>5. /\ recovering' \in [RecoveryTasks -> RecoveryRecords] /\ recovering'[t] = new
      /\ \A u \in RecoveryTasks \ {t} : recovering'[u] = recovering[u]
  BY <1>1, <1>3, <1>4, RecoveryReplaced DEF TasksInv, Drop
<1>6. LaneInv' /\ lane' \in Seq(AppOps \cup RecoveryTasks)
  BY <1>1, <1>2, <1>4, <1>5, RecoveryOffLane DEF TasksInv
<1>7. \A u \in RecoveryTasks : recovering'[u].at = "finish" =>
         recovering'[u] = recovering[u] /\ (Current(u)' => Current(u))
  BY <1>1, <1>4, <1>5 DEF Current
<1>8. GateInv'
  BY <1>1, <1>7, GateOfRecovery DEF TasksInv
<1> QED
  BY <1>1, <1>5, <1>6, <1>8 DEF TasksNext, TasksInv, RouterType, MenuType, TasksType

\* A retry of the cleanup is due.
LEMMA DueKeeps == ASSUME TasksInv, NEW t \in RecoveryTasks, RetryDue(t) PROVE TasksNext
<1>1. /\ recovering[t].at = "waiting" /\ UNCHANGED <<router, menu, ops, begun>>
      /\ \/ Drop(t) /\ UNCHANGED <<gate, lane>>
         \/ /\ Current(t) /\ recovering' = [recovering EXCEPT ![t].at = "recover"] /\ lane' = Append(lane, t)
            /\ gate' = [gate EXCEPT !.state = "checking"]
  BY DEF RetryDue
<1>2. t \notin OnLane
  BY <1>1 DEF TasksInv, LaneInv, RecoveriesOnLane
<1>3. PICK new : /\ recovering' = [recovering EXCEPT ![t] = new]
                 /\ \/ UNCHANGED <<gate, lane>> /\ new = [NoRecovery EXCEPT !.at = "over"]
                    \/ /\ Current(t) /\ new = [recovering[t] EXCEPT !.at = "recover"] /\ lane' = Append(lane, t)
                       /\ gate' = [gate EXCEPT !.state = "checking"]
  BY <1>1 DEF Drop
<1>4. /\ new \in RecoveryRecords /\ new.at \in {"over", "recover"}
      /\ \/ UNCHANGED lane /\ new.at = "over"
         \/ Current(t) /\ new.at = "recover" /\ lane' = Append(lane, t)
  BY <1>3, RecoveryRecord DEF RecoveryPhases, TasksInv
<1>5. /\ recovering' \in [RecoveryTasks -> RecoveryRecords] /\ recovering'[t] = new
      /\ \A u \in RecoveryTasks \ {t} : recovering'[u] = recovering[u]
  BY <1>3, <1>4, RecoveryReplaced DEF TasksInv
<1>6. \/ UNCHANGED lane /\ recovering'[t].at = "over"
      \/ lane' = Append(lane, t) /\ recovering'[t].at \in {"status", "recover"} /\ Current(t)
  BY <1>4, <1>5
<1>7. LaneInv' /\ lane' \in Seq(AppOps \cup RecoveryTasks)
  BY <1>1, <1>2, <1>5, <1>6, RecoveryOffLane DEF TasksInv
<1>8. \A u \in RecoveryTasks : recovering'[u].at = "finish" =>
         recovering'[u] = recovering[u] /\ (Current(u)' => Current(u))
  BY <1>1, <1>4, <1>5 DEF Current
<1>9. gate \in GateRecords
  BY DEF TasksInv, TasksType, GateRecords
<1>10. gate' \in GateRecords /\ gate'.state \in {gate.state, "checking"} /\ gate'.legacy = gate.legacy
  BY <1>3, <1>9 DEF GateRecords, Gates
<1>11. GateInv'
  BY <1>1, <1>8, <1>10, GateOfRecovery DEF TasksInv
<1> QED
  BY <1>1, <1>5, <1>7, <1>10, <1>11 DEF TasksNext, TasksInv, RouterType, MenuType, TasksType, GateRecords

\* A recovery that comes to its end, with the word it will set the gate to.
LEMMA FinishingFacts ==
    ASSUME TasksType, NEW t \in RecoveryTasks, NEW final \in {"ready", "legacy", "blocked"}, Finishing(t, final)
    PROVE  /\ recovering' \in [RecoveryTasks -> RecoveryRecords]
           /\ recovering'[t].at = "finish" /\ recovering'[t].final = final
           /\ \A u \in RecoveryTasks \ {t} : recovering'[u] = recovering[u]
<1>1. recovering[t] \in RecoveryRecords
  BY DEF TasksType
<1>2. PICK new : new = [recovering[t] EXCEPT !.at = "finish", !.final = final]
  OBVIOUS
<1>3. new \in RecoveryRecords /\ new.at = "finish" /\ new.final = final
  BY <1>1, <1>2 DEF RecoveryRecords, RecoveryPhases
<1>4. recovering' = [recovering EXCEPT ![t] = new]
  BY <1>2 DEF Finishing, TasksType
<1> QED
  BY <1>3, <1>4, RecoveryReplaced

\* mutation status has run.
LEMMA StatusKeep == ASSUME TasksInv, NEW t \in RecoveryTasks, RunStatus(t) PROVE TasksNext
<1>1. /\ lane # <<>> /\ Head(lane) = t /\ recovering[t].at = "status" /\ UNCHANGED <<router, menu, ops, begun>>
      /\ \/ Drop(t) /\ lane' = Tail(lane) /\ UNCHANGED gate
         \/ Finishing(t, "legacy") /\ lane' = Tail(lane) /\ gate' = [gate EXCEPT !.legacy = TRUE]
         \/ Finishing(t, "blocked") /\ lane' = Tail(lane) /\ UNCHANGED gate
         \/ /\ Current(t) /\ recovering' = [recovering EXCEPT ![t].at = "recover"]
            /\ lane' = Append(Tail(lane), t) /\ UNCHANGED gate
  BY DEF RunStatus, Runs
<1>2. gate \in GateRecords
  BY DEF TasksInv, TasksType, GateRecords
<1>3. /\ gate' \in GateRecords /\ gate'.state = gate.state /\ (gate'.legacy = gate.legacy \/ gate'.legacy = TRUE)
      /\ Finishing(t, "legacy") /\ gate' = [gate EXCEPT !.legacy = TRUE] => gate'.legacy
  BY <1>1, <1>2 DEF GateRecords
<1>5. /\ recovering' \in [RecoveryTasks -> RecoveryRecords]
      /\ \A u \in RecoveryTasks \ {t} : recovering'[u] = recovering[u]
      /\ recovering'[t].at = "finish" => \/ recovering'[t].final = "blocked"
                                         \/ recovering'[t].final = "legacy" /\ gate'.legacy
  <2>1. CASE Finishing(t, "legacy") /\ gate' = [gate EXCEPT !.legacy = TRUE]
    BY <1>3, <2>1, FinishingFacts DEF TasksInv
  <2>2. CASE Finishing(t, "blocked")
    BY <2>2, FinishingFacts DEF TasksInv
  <2>3. CASE (Drop(t) \/ recovering' = [recovering EXCEPT ![t].at = "recover"]) /\ UNCHANGED gate
    <3>1. PICK new : /\ new \in {[NoRecovery EXCEPT !.at = "over"], [recovering[t] EXCEPT !.at = "recover"]}
                     /\ recovering' = [recovering EXCEPT ![t] = new]
      BY <2>3 DEF Drop
    <3>2. new \in RecoveryRecords /\ new.at \in {"over", "recover"}
      BY <3>1, RecoveryRecord DEF RecoveryPhases, TasksInv
    <3> QED
      BY <3>1, <3>2, RecoveryReplaced DEF TasksInv
  <2> QED
    BY <1>1, <2>1, <2>2, <2>3
<1>6. lane' = Tail(lane) \/ (lane' = Append(Tail(lane), t) /\ recovering'[t].at = "recover" /\ Current(t))
  <2>1. recovering[t] \in RecoveryRecords
    BY DEF TasksInv, TasksType
  <2>2. recovering' = [recovering EXCEPT ![t].at = "recover"] => recovering'[t].at = "recover"
    BY <2>1 DEF TasksInv, TasksType, RecoveryRecords
  <2> QED
    BY <1>1, <2>2
<1>7. LaneInv' /\ lane' \in Seq(AppOps \cup RecoveryTasks)
  BY <1>1, <1>5, <1>6, RecoveryAtHead DEF TasksInv
<1>8. \A u \in RecoveryTasks : recovering'[u].at = "finish" =>
         \/ recovering'[u] = recovering[u] /\ (Current(u)' => Current(u))
         \/ recovering'[u].final = "blocked"
         \/ recovering'[u].final = "legacy" /\ gate'.legacy
  BY <1>1, <1>5 DEF Current
<1>9. GateInv'
  BY <1>1, <1>3, <1>8, GateOfRecovery DEF TasksInv
<1> QED
  BY <1>1, <1>3, <1>5, <1>7, <1>9 DEF TasksNext, TasksInv, RouterType, MenuType, TasksType, GateRecords

\* mutation recover has run.
LEMMA RecoverKeeps == ASSUME TasksInv, NEW t \in RecoveryTasks, RunRecover(t) PROVE TasksNext
<1>1. PICK clean \in BOOLEAN :
         /\ router' = IF clean THEN [router EXCEPT !.unfinished = FALSE] ELSE router
         /\ \/ Drop(t) /\ UNCHANGED gate
            \/ clean /\ Finishing(t, "ready") /\ UNCHANGED gate
            \/ /\ recovering[t].attempt < MaxAttempts
               /\ recovering' = [recovering EXCEPT ![t].at = "waiting", ![t].attempt = @ + 1]
               /\ gate' = [gate EXCEPT !.state = "waiting"]
            \/ Finishing(t, "blocked") /\ UNCHANGED gate
  BY DEF RunRecover
<1>2. /\ lane # <<>> /\ Head(lane) = t /\ recovering[t].at = "recover" /\ UNCHANGED <<menu, ops, begun>>
      /\ lane' = Tail(lane)
  BY DEF RunRecover, Runs
<1>3. RouterType' /\ (router'.unfinished => router.unfinished) /\ (clean => ~router'.unfinished)
  BY <1>1 DEF TasksInv, RouterType
<1>4. gate \in GateRecords
  BY DEF TasksInv, TasksType, GateRecords
<1>5. gate' \in GateRecords /\ gate'.state \in {gate.state, "waiting"} /\ gate'.legacy = gate.legacy
  BY <1>1, <1>4 DEF GateRecords, Gates
<1>6. /\ recovering' \in [RecoveryTasks -> RecoveryRecords]
      /\ \A u \in RecoveryTasks \ {t} : recovering'[u] = recovering[u]
      /\ recovering'[t].at = "finish" => \/ recovering'[t].final = "blocked"
                                         \/ recovering'[t].final = "ready" /\ ~router'.unfinished
  <2>1. CASE clean /\ Finishing(t, "ready")
    BY <1>3, <2>1, FinishingFacts DEF TasksInv
  <2>2. CASE Finishing(t, "blocked")
    BY <2>2, FinishingFacts DEF TasksInv
  <2>3. CASE Drop(t)
    <3>1. PICK new : new = [NoRecovery EXCEPT !.at = "over"] /\ recovering' = [recovering EXCEPT ![t] = new]
      BY <2>3 DEF Drop
    <3>2. new \in RecoveryRecords /\ new.at = "over"
      BY <3>1, RecoveryRecord DEF RecoveryPhases, TasksInv
    <3> QED
      BY <3>1, <3>2, RecoveryReplaced DEF TasksInv
  <2>4. CASE /\ recovering[t].attempt < MaxAttempts
             /\ recovering' = [recovering EXCEPT ![t].at = "waiting", ![t].attempt = @ + 1]
    <3>1. PICK new : new = [recovering[t] EXCEPT !.at = "waiting", !.attempt = @ + 1]
      OBVIOUS
    <3>2. recovering[t] \in RecoveryRecords
      BY DEF TasksInv, TasksType
    <3>3. recovering[t].attempt + 1 \in 0..MaxAttempts
      BY <2>4, <3>2, MenuBounds DEF RecoveryRecords, MenuBounds
    <3>4. new \in RecoveryRecords /\ new.at = "waiting"
      BY <3>1, <3>2, <3>3 DEF RecoveryRecords, RecoveryPhases
    <3>5. recovering' = [recovering EXCEPT ![t] = new]
      BY <2>4, <3>1 DEF TasksInv, TasksType
    <3> QED
      BY <3>4, <3>5, RecoveryReplaced DEF TasksInv
  <2> QED
    BY <1>1, <2>1, <2>2, <2>3, <2>4
<1>7. LaneInv' /\ lane' \in Seq(AppOps \cup RecoveryTasks)
  BY <1>2, <1>6, RecoveryAtHead DEF TasksInv
<1>8. \A u \in RecoveryTasks : recovering'[u].at = "finish" =>
         \/ recovering'[u] = recovering[u] /\ (Current(u)' => Current(u))
         \/ recovering'[u].final = "blocked"
         \/ recovering'[u].final = "ready" /\ ~router'.unfinished
  BY <1>2, <1>6 DEF Current
<1>9. GateInv'
  BY <1>2, <1>3, <1>5, <1>8, GateOfRecovery DEF TasksInv
<1> QED
  BY <1>2, <1>3, <1>5, <1>6, <1>7, <1>9 DEF TasksNext, TasksInv, MenuType, TasksType, GateRecords

\* The user retries the cleanup.
LEMMA CleanupKeeps == ASSUME TasksInv, RetryCleanup PROVE TasksNext
<1>1. PICK t : t = Recoveries[begun + 1]
  OBVIOUS
<1>2. /\ begun < Len(Recoveries) /\ begun' = begun + 1 /\ UNCHANGED <<router, menu, ops>>
      /\ recovering' = [recovering EXCEPT ![t].at = "recover"] /\ lane' = Append(WithoutCurrent(lane), t)
      /\ gate' = [gate EXCEPT !.state = "checking"]
  BY <1>1 DEF RetryCleanup
<1>3. OnceOnLane /\ RecoveriesOnLane /\ ChangesOnLane /\ ChangesGoFirst /\ TasksType
  BY DEF TasksInv, LaneInv
<1>4. begun \in Nat /\ Len(Recoveries) \in Nat /\ DOMAIN Recoveries = 1..Len(Recoveries)
  BY <1>3, MenuBounds DEF TasksType, MenuBounds
<1>5. begun + 1 \in DOMAIN Recoveries /\ begun' \in 0..Len(Recoveries) /\ begun + 1 > begun
  BY <1>2, <1>4
<1>6. t \in RecoveryTasks /\ recovering[t].at = "none" /\ t \notin OnLane
  BY <1>1, <1>3, <1>5, CurrentIsTask DEF TasksType, RecoveriesOnLane
<1>7. PICK new : new = [recovering[t] EXCEPT !.at = "recover"]
  OBVIOUS
<1>8. new \in RecoveryRecords /\ new.at = "recover"
  BY <1>3, <1>6, <1>7, RecoveryRecord DEF RecoveryPhases
<1>9. /\ recovering' \in [RecoveryTasks -> RecoveryRecords] /\ recovering'[t] = new
      /\ \A u \in RecoveryTasks \ {t} : recovering'[u] = recovering[u]
  BY <1>2, <1>3, <1>6, <1>7, <1>8, RecoveryReplaced
<1>10. \A u : Current(u)' = (u = t)
  BY <1>1, <1>2, <1>4 DEF Current
<1>11. PICK gone : /\ Moves(gone, {t}) /\ RecoveryTasks \cap (Waiting \ gone) = {}
                   /\ \A x \in gone : x \in RecoveryTasks
  BY <1>2, <1>3, <1>6, WithoutMoves
<1>12. \A p \in AppOps :
         /\ p \in {t} \/ (p \in OnLane /\ p \notin gone) => ops'[p].at \in {"primary", "reconcile"}
         /\ ops'[p].at = "primary" => p \in {t} \/ (p \in OnLane /\ p \notin gone)
  BY <1>2, <1>3, <1>6, <1>11, TasksApart DEF ChangesOnLane
<1>13. \A u \in RecoveryTasks :
         /\ u \in {t} \/ (u \in OnLane /\ u \notin gone) => recovering'[u].at \in {"status", "recover"}
         /\ u \in {t} \/ (u \in Waiting /\ u \notin gone) => Current(u)'
  BY <1>3, <1>8, <1>9, <1>10, <1>11 DEF RecoveriesOnLane
<1>14. \A i \in DOMAIN Recoveries : i > begun' => recovering'[Recoveries[i]].at = "none"
  <2> SUFFICES ASSUME NEW i \in DOMAIN Recoveries, i > begun' PROVE recovering'[Recoveries[i]].at = "none"
    OBVIOUS
  <2>1. i > begun /\ i # begun + 1 /\ Recoveries[i] \in RecoveryTasks
    BY <1>2, <1>3, <1>4, CurrentIsTask DEF TasksType
  <2>2. Recoveries[i] # t
    BY <1>1, <1>5, <2>1, MenuBounds DEF MenuBounds
  <2> QED
    BY <1>3, <1>9, <2>1, <2>2 DEF RecoveriesOnLane
<1>15. \A p \in AppOps, u \in RecoveryTasks : ops'[p].at = "primary" /\ ~ops'[p].late /\ Current(u)' =>
         /\ recovering'[u].at \in {"none", "created", "status", "recover", "over"}
         /\ \/ p \notin {t} /\ (u \in {t} \/ Before(lane, p, u))
            \/ u \notin {t} /\ (u \in gone \/ u \notin OnLane)
  BY <1>6, <1>8, <1>9, <1>10, TasksApart
<1>16. LaneInv'
  BY <1>11, <1>12, <1>13, <1>14, <1>15, LaneKept DEF TasksInv
<1>17. lane' \in Seq(AppOps \cup RecoveryTasks)
  BY <1>11 DEF Moves
<1>18. gate \in GateRecords
  BY <1>3 DEF TasksType, GateRecords
<1>19. gate' \in GateRecords /\ gate'.state = "checking" /\ gate'.legacy = gate.legacy
  BY <1>2, <1>18 DEF GateRecords, Gates
<1>20. \A u \in RecoveryTasks : recovering'[u].at = "finish" =>
         recovering'[u] = recovering[u] /\ (Current(u)' => Current(u))
  BY <1>8, <1>9, <1>10
<1>21. GateInv'
  BY <1>2, <1>19, <1>20, GateOfRecovery DEF TasksInv
<1> QED
  BY <1>2, <1>3, <1>5, <1>9, <1>16, <1>17, <1>19, <1>21
     DEF TasksNext, TasksInv, RouterType, MenuType, TasksType, GateRecords

\* A change's command has run: what it made of the router, the change and the gate.
LEMMA PrimaryFacts ==
    ASSUME TasksInv, NEW o \in AppOps, RunPrimary(o)
    PROVE  /\ ops[o].at = "primary" /\ lane # <<>> /\ Head(lane) = o /\ UNCHANGED <<acceptance, menu, recovering, begun>>
           /\ RouterType' /\ router'.boot = router.boot /\ router'.gen \in {router.gen, router.gen + 1}
           /\ ops' \in [AppOps -> Changes] /\ ops'[o].late = ops[o].late
           /\ \A p \in AppOps \ {o} : ops'[p] = ops[p]
           /\ ops'[o].made \in {NoToken, Active'}
           /\ \/ ops'[o].at = "confirm" /\ StartFresh(o) /\ lane' = Tail(lane)
              \/ ops'[o].at = "reconcile" /\ lane' = Append(Tail(lane), o)
           /\ gate' \in GateRecords /\ gate'.legacy = gate.legacy
           /\ gate'.state \in {gate.state, "blocked", "checking"}
           /\ \/ ops'[o].at = "reconcile" \/ gate'.state = "blocked" \/ ~router'.unfinished
              \/ router' = router /\ gate' = gate
<1> DEFINE made(gen) == IF gen # router.gen THEN [boot |-> router.boot, gen |-> gen] ELSE NoToken
<1>1. /\ router.boot \in 1..MaxStarts /\ router.gen \in 1..MaxGeneration /\ router.unfinished \in BOOLEAN
      /\ MaxStarts \in Nat /\ MaxGeneration \in Nat \ {0}
      /\ router \in [boot : 1..MaxStarts, gen : 1..MaxGeneration, unfinished : BOOLEAN]
  BY MenuBounds DEF TasksInv, RouterType, MenuBounds
<1>2. gate \in GateRecords /\ ops[o] \in Changes /\ TasksType
  BY Zenon DEF TasksInv, TasksType, GateRecords
<1>3. ops[o].at = "primary" /\ lane # <<>> /\ Head(lane) = o /\ UNCHANGED <<acceptance, menu, recovering, begun>>
  BY Zenon DEF RunPrimary, Runs
<1>4. PICK gen \in {router.gen, router.gen + 1}, unfinished \in BOOLEAN :
         /\ gen # router.gen => router.gen < MaxGeneration
         /\ \/ router' = router /\ gen = router.gen
            \/ router' = [router EXCEPT !.gen = gen, !.unfinished = unfinished]
         /\ \/ /\ \E receipt \in Receipts :
                     ops' = [ops EXCEPT ![o].at = "confirm", ![o].token = NoToken,
                                        ![o].receipt = receipt, ![o].made = made(gen)]
               /\ StartFresh(o) /\ lane' = Tail(lane)
               /\ \/ router' = router /\ gate' = gate
                  \/ ~unfinished /\ router' = [router EXCEPT !.gen = gen, !.unfinished = unfinished] /\ gate' = gate
                  \/ gate' = [gate EXCEPT !.state = "blocked"]
            \/ /\ \E needs \in BOOLEAN :
                     /\ ops' = [ops EXCEPT ![o].at = "reconcile", ![o].token = NoToken,
                                           ![o].made = made(gen), ![o].needs = needs]
                     /\ gate' = IF needs THEN [gate EXCEPT !.state = "checking"] ELSE gate
               /\ lane' = Append(Tail(lane), o)
  <2> DEFINE confirm(receipt, gen) ==
                 /\ ops' = [ops EXCEPT ![o].at = "confirm", ![o].token = NoToken,
                                       ![o].receipt = receipt, ![o].made = made(gen)]
                 /\ StartFresh(o) /\ lane' = Tail(lane)
             reconcile(needs, gen) ==
                 /\ ops' = [ops EXCEPT ![o].at = "reconcile", ![o].token = NoToken,
                                       ![o].made = made(gen), ![o].needs = needs]
                 /\ gate' = IF needs THEN [gate EXCEPT !.state = "checking"] ELSE gate
                 /\ lane' = Append(Tail(lane), o) /\ UNCHANGED <<reads, inFlight, reader>>
             did(gen, unfinished) == router' = [router EXCEPT !.gen = gen, !.unfinished = unfinished]
  <2>1. \/ \E receipt \in {"unfinished", "refused"} : confirm(receipt, router.gen) /\ UNCHANGED <<router, gate>>
        \/ router.gen < MaxGeneration /\ did(router.gen + 1, FALSE) /\ confirm("applied", router.gen + 1) /\ UNCHANGED gate
        \/ /\ router.gen < MaxGeneration /\ did(router.gen + 1, TRUE) /\ confirm("applied", router.gen + 1)
           /\ gate' = [gate EXCEPT !.state = "blocked"]
        \/ /\ router.gen < MaxGeneration
           /\ \E gen \in {router.gen, router.gen + 1}, unfinished, needs \in BOOLEAN :
                 did(gen, unfinished) /\ reconcile(needs, gen)
    BY Zenon DEF RunPrimary
  <2>2. CASE \E receipt \in {"unfinished", "refused"} : confirm(receipt, router.gen) /\ UNCHANGED <<router, gate>>
    BY <2>2, Zenon DEF Receipts
  <2>3. CASE router.gen < MaxGeneration /\ did(router.gen + 1, FALSE) /\ confirm("applied", router.gen + 1) /\ UNCHANGED gate
    <3>1. confirm("applied", router.gen + 1) /\ "applied" \in Receipts
      BY <2>3, Zenon DEF Receipts
    <3> HIDE DEF made
    <3> QED
      BY <2>3, <3>1
  <2>4. CASE /\ router.gen < MaxGeneration /\ did(router.gen + 1, TRUE) /\ confirm("applied", router.gen + 1)
             /\ gate' = [gate EXCEPT !.state = "blocked"]
    <3>1. confirm("applied", router.gen + 1) /\ "applied" \in Receipts
      BY <2>4, Zenon DEF Receipts
    <3> HIDE DEF made
    <3> QED
      BY <2>4, <3>1
  <2>5. CASE /\ router.gen < MaxGeneration
             /\ \E gen \in {router.gen, router.gen + 1}, unfinished, needs \in BOOLEAN :
                   did(gen, unfinished) /\ reconcile(needs, gen)
    <3> HIDE DEF made
    <3> QED
      BY <2>5, Zenon
  <2> QED
    BY <2>1, <2>2, <2>3, <2>4, <2>5, Zenon
<1>5. PICK token : token = made(gen)
  OBVIOUS
<1>6. gen \in 1..MaxGeneration
  <2>1. gen = router.gen \/ (gen = router.gen + 1 /\ router.gen < MaxGeneration)
    BY <1>4
  <2>2. router.gen \in Nat /\ router.gen >= 1 /\ router.gen <= MaxGeneration /\ MaxGeneration \in Nat
    BY <1>1
  <2> QED
    BY <2>1, <2>2
<1>7. token \in MaybeToken
  BY <1>1, <1>5, <1>6, EventFacts DEF Tokens, MaybeToken
<1>8. RouterType' /\ router'.boot = router.boot /\ router'.gen = gen
  BY <1>1, <1>4, <1>6, Zenon DEF RouterType
<1>9. token \in {NoToken, Active'}
  BY <1>5, <1>8 DEF Active
<1> HIDE DEF made
<1>10. PICK new : /\ ops' = [ops EXCEPT ![o] = new] /\ new \in Changes /\ new.late = ops[o].late /\ new.made = token
                  /\ \/ new.at = "confirm" /\ StartFresh(o) /\ lane' = Tail(lane)
                     \/ new.at = "reconcile" /\ lane' = Append(Tail(lane), o)
  <2>1. CASE /\ \E receipt \in Receipts :
                   ops' = [ops EXCEPT ![o].at = "confirm", ![o].token = NoToken,
                                      ![o].receipt = receipt, ![o].made = made(gen)]
             /\ StartFresh(o) /\ lane' = Tail(lane)
    <3>1. PICK receipt \in Receipts :
                 ops' = [ops EXCEPT ![o].at = "confirm", ![o].token = NoToken,
                                    ![o].receipt = receipt, ![o].made = token]
      BY <1>5, <2>1
    <3>2. PICK new : new = [ops[o] EXCEPT !.at = "confirm", !.token = NoToken, !.receipt = receipt, !.made = token]
      OBVIOUS
    <3>3. new \in Changes /\ new.at = "confirm" /\ new.late = ops[o].late /\ new.made = token
      BY <1>2, <1>7, <3>2, EventFacts DEF Changes, OpPhases
    <3>4. ops' = [ops EXCEPT ![o] = new]
      BY <1>2, <3>1, <3>2 DEF TasksType
    <3> QED
      BY <2>1, <3>3, <3>4
  <2>2. CASE /\ \E needs \in BOOLEAN :
                   ops' = [ops EXCEPT ![o].at = "reconcile", ![o].token = NoToken,
                                      ![o].made = made(gen), ![o].needs = needs]
             /\ lane' = Append(Tail(lane), o)
    <3>1. PICK needs \in BOOLEAN :
                 ops' = [ops EXCEPT ![o].at = "reconcile", ![o].token = NoToken,
                                    ![o].made = token, ![o].needs = needs]
      BY <1>5, <2>2
    <3>2. PICK new : new = [ops[o] EXCEPT !.at = "reconcile", !.token = NoToken, !.made = token, !.needs = needs]
      OBVIOUS
    <3>3. new \in Changes /\ new.at = "reconcile" /\ new.late = ops[o].late /\ new.made = token
      BY <1>2, <1>7, <3>2, EventFacts DEF Changes, OpPhases
    <3>4. ops' = [ops EXCEPT ![o] = new]
      BY <1>2, <3>1, <3>2 DEF TasksType
    <3> QED
      BY <2>2, <3>3, <3>4
  <2> QED
    BY <1>4, <2>1, <2>2
<1>11. /\ ops' \in [AppOps -> Changes] /\ ops'[o] = new
       /\ \A p \in AppOps \ {o} : ops'[p] = ops[p]
  BY <1>2, <1>10, OpReplaced
<1>12. gate' \in {gate, [gate EXCEPT !.state = "blocked"], [gate EXCEPT !.state = "checking"]}
  BY <1>4
<1>13. /\ gate' \in GateRecords /\ gate'.legacy = gate.legacy
       /\ gate'.state \in {gate.state, "blocked", "checking"}
       /\ gate' = [gate EXCEPT !.state = "blocked"] => gate'.state = "blocked"
  BY <1>2, <1>12 DEF GateRecords, Gates
<1>14. router' = [router EXCEPT !.gen = gen, !.unfinished = unfinished] => router'.unfinished = unfinished
  BY <1>1
<1>15. \/ ops'[o].at = "reconcile" \/ gate'.state = "blocked" \/ ~router'.unfinished
       \/ router' = router /\ gate' = gate
  <2>1. CASE \/ router' = router /\ gate' = gate
             \/ ~unfinished /\ router' = [router EXCEPT !.gen = gen, !.unfinished = unfinished] /\ gate' = gate
             \/ gate' = [gate EXCEPT !.state = "blocked"]
    BY <1>13, <1>14, <2>1
  <2>2. CASE \E needs \in BOOLEAN :
                   ops' = [ops EXCEPT ![o].at = "reconcile", ![o].token = NoToken,
                                      ![o].made = made(gen), ![o].needs = needs]
    <3>1. ops'[o].at = "reconcile"
      BY <1>2, <2>2 DEF TasksType, Changes
    <3> QED
      BY <3>1
  <2> QED
    BY <1>4, <2>1, <2>2
<1> QED
  BY <1>3, <1>4, <1>8, <1>9, <1>10, <1>11, <1>13, <1>15

\* A change's command has run.
LEMMA PrimaryKeeps == ASSUME TasksInv, NEW o \in AppOps, RunPrimary(o) PROVE TasksNext
<1>1. /\ ops[o].at = "primary" /\ lane # <<>> /\ Head(lane) = o /\ UNCHANGED <<menu, recovering, begun>>
      /\ RouterType' /\ ops' \in [AppOps -> Changes] /\ ops'[o].late = ops[o].late
      /\ \A p \in AppOps \ {o} : ops'[p] = ops[p]
      /\ \/ ops'[o].at = "confirm" /\ lane' = Tail(lane)
         \/ ops'[o].at = "reconcile" /\ lane' = Append(Tail(lane), o)
      /\ gate' \in GateRecords /\ gate'.legacy = gate.legacy
      /\ gate'.state \in {gate.state, "blocked", "checking"}
      /\ \/ ops'[o].at = "reconcile" \/ gate'.state = "blocked" \/ ~router'.unfinished
         \/ router' = router /\ gate' = gate
  BY PrimaryFacts
<1>2. LaneInv' /\ lane' \in Seq(AppOps \cup RecoveryTasks)
  BY <1>1, ChangeAtHead DEF TasksInv
<1>3. LateWentOut' /\ SomeLate' = SomeLate
  BY <1>1 DEF TasksInv, GateInv, LateWentOut, SomeLate
<1>4. OpenOverUnfinished'
  <2>1. CASE router' = router /\ gate' = gate
    <3>1. \A p \in AppOps : ops[p].at = "reconcile" => ops'[p].at = "reconcile"
      BY <1>1
    <3> QED
      BY <1>3, <2>1, <3>1 DEF TasksInv, GateInv, OpenOverUnfinished, GateOpen
  <2> QED
    BY <1>1, <2>1 DEF OpenOverUnfinished, GateOpen
<1>5. ReadyRecovery'
  <2> SUFFICES ASSUME NEW u \in RecoveryTasks, Current(u)', recovering'[u].at = "finish" PROVE SomeLate'
    BY DEF ReadyRecovery
  <2>1. Current(u) /\ recovering[u].at = "finish"
    BY <1>1 DEF Current
  <2>2. ops[o].late
    BY <1>1, <2>1 DEF TasksInv, LaneInv, ChangesGoFirst, TasksType, Changes
  <2> QED
    BY <1>3, <2>2 DEF SomeLate
<1>6. LegacyKnown'
  BY <1>1 DEF TasksInv, GateInv, LegacyKnown
<1> QED
  BY <1>1, <1>2, <1>3, <1>4, <1>5, <1>6 DEF TasksNext, TasksInv, GateInv, MenuType, TasksType, GateRecords

\* mutation reconcile has run: the same.
LEMMA ReconcileFacts ==
    ASSUME TasksInv, NEW o \in AppOps, RunReconcile(o)
    PROVE  /\ ops[o].at = "reconcile" /\ lane # <<>> /\ Head(lane) = o /\ UNCHANGED <<acceptance, menu, recovering, begun>>
           /\ RouterType' /\ router'.boot = router.boot /\ router'.gen = router.gen
           /\ ops' \in [AppOps -> Changes] /\ ops'[o].late = ops[o].late
           /\ \A p \in AppOps \ {o} : ops'[p] = ops[p]
           /\ ops'[o].made = ops[o].made /\ ops'[o].at = "confirm" /\ StartFresh(o) /\ lane' = Tail(lane)
           /\ gate' \in GateRecords /\ gate'.legacy = gate.legacy
           /\ gate'.state \in {gate.state, "ready", "blocked"}
           /\ ~router'.unfinished \/ (router' = router /\ gate'.state = "blocked")
<1>1. router \in [boot : 1..MaxStarts, gen : 1..MaxGeneration, unfinished : BOOLEAN]
  BY DEF TasksInv, RouterType
<1>2. gate \in GateRecords /\ ops[o] \in Changes /\ TasksType
  BY DEF TasksInv, TasksType, GateRecords
<1>3. /\ ops[o].at = "reconcile" /\ lane # <<>> /\ Head(lane) = o /\ UNCHANGED <<acceptance, menu, recovering, begun>>
      /\ StartFresh(o) /\ lane' = Tail(lane)
  BY DEF RunReconcile, Runs
<1>4. /\ router' \in {router, [router EXCEPT !.unfinished = FALSE]}
      /\ gate' \in {gate, [gate EXCEPT !.state = "ready"], [gate EXCEPT !.state = "blocked"]}
      /\ \/ router' = [router EXCEPT !.unfinished = FALSE]
         \/ router' = router /\ gate' = [gate EXCEPT !.state = "blocked"]
  BY DEF RunReconcile
<1>5. /\ RouterType' /\ router'.boot = router.boot /\ router'.gen = router.gen
      /\ router' = [router EXCEPT !.unfinished = FALSE] => ~router'.unfinished
  BY <1>1, <1>4 DEF RouterType
<1>6. /\ gate' \in GateRecords /\ gate'.legacy = gate.legacy /\ gate'.state \in {gate.state, "ready", "blocked"}
      /\ gate' = [gate EXCEPT !.state = "blocked"] => gate'.state = "blocked"
  BY <1>2, <1>4 DEF GateRecords, Gates
<1>7. PICK new : /\ ops' = [ops EXCEPT ![o] = new] /\ new \in Changes /\ new.late = ops[o].late
                 /\ new.made = ops[o].made /\ new.at = "confirm"
  <2>1. PICK receipt \in Receipts : \/ ops' = [ops EXCEPT ![o].at = "confirm", ![o].receipt = receipt]
                                    \/ ops' = [ops EXCEPT ![o].at = "confirm"]
    BY DEF RunReconcile, Receipts
  <2>2. PICK new : /\ new \in {[ops[o] EXCEPT !.at = "confirm", !.receipt = receipt], [ops[o] EXCEPT !.at = "confirm"]}
                   /\ ops' = [ops EXCEPT ![o] = new]
    BY <1>2, <2>1 DEF TasksType
  <2>3. /\ new \in Changes /\ new.late = ops[o].late
        /\ new.made = ops[o].made /\ new.at = "confirm"
    BY <1>2, <2>2 DEF Changes, OpPhases
  <2> QED
    BY <2>2, <2>3
<1>8. /\ ops' \in [AppOps -> Changes] /\ ops'[o] = new
      /\ \A p \in AppOps \ {o} : ops'[p] = ops[p]
  BY <1>2, <1>7, OpReplaced
<1> QED
  BY <1>3, <1>4, <1>5, <1>6, <1>7, <1>8

\* mutation reconcile has run.
LEMMA ReconcileKeeps == ASSUME TasksInv, NEW o \in AppOps, RunReconcile(o) PROVE TasksNext
<1>1. /\ ops[o].at = "reconcile" /\ lane # <<>> /\ Head(lane) = o /\ UNCHANGED <<menu, recovering, begun>>
      /\ RouterType' /\ ops' \in [AppOps -> Changes] /\ ops'[o].late = ops[o].late
      /\ \A p \in AppOps \ {o} : ops'[p] = ops[p]
      /\ ops'[o].at = "confirm" /\ lane' = Tail(lane)
      /\ gate' \in GateRecords /\ gate'.legacy = gate.legacy
      /\ gate'.state \in {gate.state, "ready", "blocked"}
      /\ ~router'.unfinished \/ (router' = router /\ gate'.state = "blocked")
  BY ReconcileFacts
<1>2. LaneInv' /\ lane' \in Seq(AppOps \cup RecoveryTasks)
  BY <1>1, ChangeAtHead DEF TasksInv
<1>3. LateWentOut' /\ SomeLate' = SomeLate
  BY <1>1 DEF TasksInv, GateInv, LateWentOut, SomeLate
<1>4. OpenOverUnfinished'
  BY <1>1 DEF OpenOverUnfinished, GateOpen
<1>5. ReadyRecovery'
  BY <1>1, <1>3 DEF TasksInv, GateInv, ReadyRecovery, Current
<1>6. LegacyKnown'
  BY <1>1 DEF TasksInv, GateInv, LegacyKnown
<1> QED
  BY <1>1, <1>2, <1>3, <1>4, <1>5, <1>6 DEF TasksNext, TasksInv, GateInv, MenuType, TasksType, GateRecords

\* The router never goes back, and a change that comes to be confirmed reads afresh.
LEMMA WhatChanges ==
    ASSUME TasksInv, MenuNext
    PROVE  /\ router'.boot > router.boot \/ (router'.boot = router.boot /\ router'.gen >= router.gen)
           /\ \A o \in AppOps : \/ ops'[o] = ops[o]
                                \/ /\ ops'[o].made \in {ops[o].made, NoToken, Active'}
                                   /\ ops'[o].at = "confirm" => StartFresh(o) /\ UNCHANGED acceptance
                                   /\ ops[o].at = "confirm" => Confirm(o)
<1> DEFINE Forward == router'.boot > router.boot \/ (router'.boot = router.boot /\ router'.gen >= router.gen)
           Moved(o) == \/ ops'[o] = ops[o]
                       \/ /\ ops'[o].made \in {ops[o].made, NoToken, Active'}
                          /\ ops'[o].at = "confirm" => StartFresh(o) /\ UNCHANGED acceptance
                          /\ ops[o].at = "confirm" => Confirm(o)
<1>1. /\ router \in [boot : 1..MaxStarts, gen : 1..MaxGeneration, unfinished : BOOLEAN] /\ TasksType
      /\ router.boot \in Int /\ router.gen \in Int
  BY DEF TasksInv, RouterType
<1>2. router' = router => Forward
  BY <1>1
<1>3. ops' = ops => \A o \in AppOps : Moved(o)
  OBVIOUS
<1>4. ASSUME NEW o \in AppOps, \A p \in AppOps \ {o} : ops'[p] = ops[p], Moved(o) PROVE \A p \in AppOps : Moved(p)
  BY <1>4
<1>5. ASSUME Restart \/ ChangedElsewhere
      PROVE  Forward /\ \A p \in AppOps : Moved(p)
  <2>1. Forward
    <3>1. router' \in {[router EXCEPT !.boot = @ + 1, !.gen = 1], [router EXCEPT !.gen = @ + 1]}
      BY <1>5 DEF Restart, ChangedElsewhere
    <3>2. router' = [router EXCEPT !.boot = @ + 1, !.gen = 1] => router'.boot = router.boot + 1
      BY <1>1
    <3>3. router' = [router EXCEPT !.gen = @ + 1] => router'.boot = router.boot /\ router'.gen = router.gen + 1
      BY <1>1
    <3> QED
      BY <1>1, <3>1, <3>2, <3>3
  <2> QED
    BY <1>3, <1>5, <2>1 DEF Restart, ChangedElsewhere
<1>6. ASSUME (\E r \in 1..MaxReads : Answer(r)) \/ LoopPolls \/ LoopApplies \/ RetryCleanup
      PROVE  Forward /\ \A p \in AppOps : Moved(p)
  BY <1>2, <1>3, <1>6, Zenon DEF Answer, LoopPolls, LoopApplies, RetryCleanup
<1>7. ASSUME \E t \in PollTasks : Drained(t) \/ Receive(t)
      PROVE  Forward /\ \A p \in AppOps : Moved(p)
  BY <1>2, <1>3, <1>7 DEF Drained, Receive
<1>8. ASSUME NEW o \in AppOps, BeginDirect(o) \/ BeginPreflight(o) \/ Preflighted(o) \/ BeginBarrier(o)
      PROVE  Forward /\ \A p \in AppOps : Moved(p)
  <2>1. /\ router' = router /\ menu.snapshot \in MaybeToken /\ RecoveryRuns \in BOOLEAN
        /\ ops[o].at \in {"idle", "preflight"}
        /\ \/ ops' = Dispatch(o, menu.snapshot, RecoveryRuns)
           \/ \E at \in {"barrier", "preflight", "failed"} : ops' = [ops EXCEPT ![o].at = at]
    BY <1>8 DEF BeginDirect, BeginPreflight, Preflighted, BeginBarrier, TasksInv, MenuType, RecoveryRuns
  <2>2. CASE ops' = Dispatch(o, menu.snapshot, RecoveryRuns)
    <3>1. PICK late \in BOOLEAN : late = RecoveryRuns
      BY <2>1
    <3>2. ops'[o].at = "primary" /\ ops'[o].made = ops[o].made /\ \A p \in AppOps \ {o} : ops'[p] = ops[p]
      BY <1>1, <2>1, <2>2, <3>1, DispatchFacts
    <3> QED
      BY <1>2, <1>4, <2>1, <3>2
  <2>3. ASSUME NEW at \in {"barrier", "preflight", "failed"}, ops' = [ops EXCEPT ![o].at = at]
        PROVE  Forward /\ \A p \in AppOps : Moved(p)
    <3>1. ops'[o].at = at /\ ops'[o].made = ops[o].made /\ \A p \in AppOps \ {o} : ops'[p] = ops[p]
      BY <1>1, <2>3, PhaseFacts DEF OpPhases
    <3> QED
      BY <1>2, <1>4, <2>1, <3>1
  <2> QED
    BY <2>1, <2>2, <2>3
<1>9. ASSUME NEW o \in AppOps, BarrierPassed(o) PROVE Forward /\ \A p \in AppOps : Moved(p)
  <2>0. PICK token : token = menu'.snapshot
    OBVIOUS
  <2>1. PICK late \in BOOLEAN : late = (begun' = begun /\ RecoveryRuns)
    OBVIOUS
  <2>2. router' = router /\ ops[o].at = "barrier" /\ (ops' = Dispatch(o, token, late) \/ ops' = [ops EXCEPT ![o].at = "failed"])
    BY <1>9, <2>0, <2>1 DEF BarrierPassed
  <2>3. ops'[o].at # "confirm" /\ ops'[o].made = ops[o].made /\ \A p \in AppOps \ {o} : ops'[p] = ops[p]
    <3>1. PICK new : /\ new \in {[ops[o] EXCEPT !.at = "primary", !.token = token, !.late = late], [ops[o] EXCEPT !.at = "failed"]}
                     /\ ops' = [ops EXCEPT ![o] = new]
      BY <1>1, <2>2 DEF Dispatch, TasksType
    <3>2. ops[o] \in Changes
      BY <1>1 DEF TasksType
    <3>3. new.at # "confirm" /\ new.made = ops[o].made
      BY <3>1, <3>2 DEF Changes
    <3> QED
      BY <1>1, <3>1, <3>3 DEF TasksType
  <2> QED
    BY <1>2, <1>4, <2>2, <2>3
<1>10. ASSUME NEW o \in AppOps, RunPrimary(o) PROVE Forward /\ \A p \in AppOps : Moved(p)
  BY <1>1, <1>4, <1>10, PrimaryFacts
<1>11. ASSUME NEW o \in AppOps, RunReconcile(o) PROVE Forward /\ \A p \in AppOps : Moved(p)
  BY <1>1, <1>4, <1>11, ReconcileFacts
<1>12. ASSUME NEW o \in AppOps, Confirm(o) PROVE Forward /\ \A p \in AppOps : Moved(p)
  <2>1. PICK at, new : /\ at \in {"confirmed", "failed"} /\ new = [IdleOp EXCEPT !.late = ops[o].late, !.at = at]
                       /\ ops' = [ops EXCEPT ![o] = new] /\ router' = router
    BY <1>12 DEF Confirm
  <2>2. new.at = at /\ new.made = NoToken
    BY <2>1 DEF IdleOp
  <2>3. ops'[o] = new /\ \A p \in AppOps \ {o} : ops'[p] = ops[p]
    BY <1>1, <2>1 DEF TasksType
  <2> QED
    BY <1>2, <1>4, <1>12, <2>1, <2>2, <2>3
<1>13. ASSUME NEW t \in RecoveryTasks,
              RecoveryStarts(t) \/ RunStatus(t) \/ PerformCanceled(t) \/ RetryDue(t) \/ FinishRecovery(t)
       PROVE  Forward /\ \A p \in AppOps : Moved(p)
  <2>1. router' = router /\ ops' = ops
    BY <1>13 DEF RecoveryStarts, RunStatus, PerformCanceled, RetryDue, FinishRecovery
  <2> QED
    BY <1>2, <1>3, <2>1
<1>14. ASSUME NEW t \in RecoveryTasks, RunRecover(t) PROVE Forward /\ \A p \in AppOps : Moved(p)
  <2>1. router' \in {router, [router EXCEPT !.unfinished = FALSE]} /\ ops' = ops
    BY <1>14 DEF RunRecover
  <2> QED
    BY <1>1, <1>3, <2>1
<1> HIDE DEF Forward, Moved
<1>15. Forward /\ \A p \in AppOps : Moved(p)
  <2> DEFINE Change == \E o \in AppOps : \/ BeginDirect(o) \/ BeginBarrier(o) \/ BarrierPassed(o) \/ BeginPreflight(o)
                                         \/ Preflighted(o) \/ RunPrimary(o) \/ RunReconcile(o) \/ Confirm(o)
             Recovery == \E t \in RecoveryTasks : \/ RecoveryStarts(t) \/ RunStatus(t) \/ RunRecover(t)
                                                  \/ PerformCanceled(t) \/ RetryDue(t) \/ FinishRecovery(t)
             Router == Restart \/ ChangedElsewhere
             Loop == (\E r \in 1..MaxReads : Answer(r)) \/ LoopPolls \/ LoopApplies \/ RetryCleanup
             Reader == \E t \in PollTasks : Drained(t) \/ Receive(t)
  <2>0. Change \/ Recovery \/ Router \/ Loop \/ Reader
    BY DEF MenuNext
  <2>1. CASE Change
    BY <1>8, <1>9, <1>10, <1>11, <1>12, <2>1
  <2>2. CASE Recovery
    BY <1>13, <1>14, <2>2
  <2>3. CASE Router
    BY <1>5, <2>3
  <2>4. CASE Loop
    BY <1>6, <2>4
  <2>5. CASE Reader
    BY <1>7, <2>5
  <2> QED
    BY <2>0, <2>1, <2>2, <2>3, <2>4, <2>5
<1> QED
  BY <1>15 DEF Forward, Moved

\* A read stays behind a change while the router stays where it is.
LEMMA StaysBehind ==
    ASSUME RouterType, ReadsType, InFlightLast, ReadStep, NEW o \in AppOps, Behind(o), Active' = Active
    PROVE  Behind(o)'
<1>0. PICK n \in Nat : n = Len(reads)
  BY DEF ReadsType
<1>1. /\ DOMAIN reads = 1..n /\ n \in Nat /\ inFlight \in 0..n /\ (inFlight = 0 \/ inFlight = n)
      /\ reader \in [PollTasks -> Readers] /\ o \in PollTasks /\ o # "loop"
      /\ reader[o].at \in {"draining", "reading"} => reader[o].read \in 1..n
      /\ reads \in Seq(Events \cup {Open})
  <2>1. o \in PollTasks /\ o # "loop"
    BY MenuBounds DEF PollTasks, MenuBounds
  <2>2. reads \in Seq(Events \cup {Open}) /\ DOMAIN reads = 1..n
    BY <1>0 DEF ReadsType
  <2>3. /\ inFlight \in 0..n /\ (inFlight = 0 \/ inFlight = n) /\ reader \in [PollTasks -> Readers]
        /\ \A t \in PollTasks : reader[t].at \in {"draining", "reading"} => reader[t].read \in DOMAIN reads
    BY <1>0 DEF ReadsType, InFlightLast
  <2> QED
    BY <1>0, <2>1, <2>2, <2>3
<1>2. \A w : w \in {Open, Word("stale"), Word("down"), Snapshot(Active)} => AnsweredBy(w)
  BY EventFacts DEF AnsweredBy, Open, Snapshot
<1>3. \A w : AnsweredBy(w)' = AnsweredBy(w)
  BY DEF AnsweredBy
<1>4. /\ reader[o].at = "reading"  => AnsweredBy(reads[reader[o].read])
      /\ reader[o].at = "draining" => /\ inFlight = 0 \/ inFlight >= reader[o].read
                                      /\ \A r \in 1..n : r > reader[o].read => AnsweredBy(reads[r])
      /\ reader[o].at = "event"    => AnsweredBy(reader[o].event)
  BY <1>1 DEF Behind
<1>5. CASE UNCHANGED <<reads, inFlight, acceptance, reader>>
  BY <1>5 DEF Behind, AnsweredBy
<1>6. ASSUME NEW t \in PollTasks, reader' = [reader EXCEPT ![t] = Out], UNCHANGED <<reads, inFlight, acceptance>>
      PROVE  Behind(o)'
  <2>1. reader'[o] = reader[o] \/ reader'[o].at = "out"
    BY <1>1, <1>6, EventFacts
  <2> QED
    BY <1>3, <1>6, <2>1 DEF Behind, AnsweredBy
\* a request is made, by o or by another task
<1>7. ASSUME reads' = Append(reads, Open), inFlight' = n + 1,
             \/ reader'[o] = reader[o]
             \/ reader'[o].at = "reading" /\ reader'[o].read = n + 1
      PROVE  Behind(o)'
  <2>1. DOMAIN reads' = 1..(n + 1) /\ reads'[n + 1] = Open /\ \A r \in 1..n : reads'[r] = reads[r]
    <3>1. Open \in Events \cup {Open}
      OBVIOUS
    <3> QED
      BY <1>0, <1>1, <1>7, <3>1
  <2>2. \A r \in 1..(n + 1) : r \in 1..n \/ r = n + 1
    BY <1>1
  <2>3. AnsweredBy(reads'[n + 1])
    BY <1>2, <2>1
  <2>4. CASE reader'[o].at = "reading" /\ reader'[o].read = n + 1
    BY <1>3, <2>3, <2>4 DEF Behind, AnsweredBy
  <2>5. CASE reader'[o] = reader[o]
    <3>1. reader'[o].at = "reading" => AnsweredBy(reads'[reader'[o].read])
      BY <1>1, <1>4, <2>1, <2>5
    <3>2. reader'[o].at = "draining" => /\ inFlight' >= reader'[o].read
                                        /\ \A r \in DOMAIN reads' : r > reader'[o].read => AnsweredBy(reads'[r])
      BY <1>1, <1>4, <1>7, <2>1, <2>2, <2>3, <2>5
    <3>3. reader'[o].at = "event" => AnsweredBy(reader'[o].event)
      BY <1>4, <2>5
    <3> QED
      BY <3>1, <3>2, <3>3 DEF Behind, AnsweredBy
  <2> QED
    BY <1>7, <2>4, <2>5
<1>8. ASSUME NEW t \in PollTasks, StartFresh(t), UNCHANGED acceptance PROVE Behind(o)'
  <2>1. /\ \A u \in PollTasks \ {t} : reader'[u] = reader[u]
        /\ \/ /\ reader'[t].at = "draining" /\ reader'[t].read = n /\ n > 0
              /\ UNCHANGED <<reads, inFlight>>
           \/ /\ reader'[t].at = "reading" /\ reader'[t].read = n + 1 /\ inFlight = 0
              /\ inFlight' = n + 1 /\ reads' = Append(reads, Open)
    BY <1>0, <1>8, StartFreshTypes
  <2>2. CASE reads' = Append(reads, Open) /\ inFlight' = n + 1 /\ reader'[t].at = "reading" /\ reader'[t].read = n + 1
    BY <1>1, <1>7, <2>1, <2>2
  <2>3. CASE reader'[t].at = "draining" /\ reader'[t].read = n /\ UNCHANGED <<reads, inFlight>>
    <3>1. CASE t = o
      BY <1>1, <2>3, <3>1 DEF Behind
    <3>2. CASE t # o
      BY <1>1, <2>1, <2>3, <3>2 DEF Behind, AnsweredBy
    <3> QED
      BY <3>1, <3>2
  <2> QED
    BY <2>1, <2>2, <2>3
<1>9. ASSUME NEW t \in PollTasks, NEW flight \in {0, inFlight}, Fetch(t, flight), UNCHANGED acceptance,
             t = "loop" \/ (reader[t].at = "draining" /\ flight # reader[t].read)
      PROVE  Behind(o)'
  <2>1. /\ reader'[t].at = "reading" /\ \A u \in PollTasks \ {t} : reader'[u] = reader[u]
        /\ \/ flight # 0 /\ reader'[t].read = flight /\ inFlight' = inFlight /\ reads' = reads
           \/ /\ reads' = Append(reads, Open) /\ reader'[t].read = n + 1
              /\ inFlight' = n + 1
    BY <1>0, <1>9, FetchTypes
  <2>2. CASE reads' = Append(reads, Open) /\ reader'[t].read = n + 1 /\ inFlight' = n + 1
    BY <1>1, <1>7, <2>1, <2>2
  <2>3. CASE flight # 0 /\ reader'[t].read = flight /\ inFlight' = inFlight /\ reads' = reads
    <3>1. CASE t = o
      <4>1. flight = inFlight /\ flight > reader[o].read /\ flight \in 1..n
        BY <1>1, <1>4, <1>9, <2>3, <3>1
      <4>2. AnsweredBy(reads[flight])
        BY <1>1, <1>4, <1>9, <3>1, <4>1
      <4> QED
        BY <2>1, <2>3, <3>1, <4>2 DEF Behind, AnsweredBy
    <3>2. CASE t # o
      BY <1>1, <2>1, <2>3, <3>2 DEF Behind, AnsweredBy
    <3> QED
      BY <3>1, <3>2
  <2> QED
    BY <2>1, <2>2, <2>3
<1>10. ASSUME NEW r \in 1..MaxReads, Answer(r) PROVE Behind(o)'
  <2>1. PICK a : a \in {Snapshot(Active), Word("down")} /\ reads' = [reads EXCEPT ![r] = a]
    BY <1>10 DEF Answer
  <2>2. a \in Events \cup {Open}
    <3>1. Active \in Tokens
      BY DEF Active, RouterType, Tokens
    <3> QED
      BY <2>1, <3>1, EventFacts
  <2>3. DOMAIN reads' = DOMAIN reads /\ \A j \in 1..n : reads'[j] = reads[j] \/ AnsweredBy(reads'[j])
    BY <1>1, <1>2, <2>1, <2>2, AnswerInPlace
  <2>4. UNCHANGED <<inFlight, reader>>
    BY <1>10 DEF Answer
  <2> QED
    BY <1>1, <1>4, <2>3, <2>4 DEF Behind, AnsweredBy
<1>11. ASSUME NEW t \in PollTasks, Receive(t) PROVE Behind(o)'
  <2>1. /\ reader[t].at = "reading" /\ reader'[t].at = "event"
        /\ reader'[t].event = reads[reader[t].read] \/ reader'[t].event.is # "snapshot"
        /\ \A u \in PollTasks \ {t} : reader'[u] = reader[u]
        /\ inFlight' \in {0, inFlight} /\ DOMAIN reads' = DOMAIN reads
        /\ \A r \in 1..n : reads'[r] = reads[r] \/ reads'[r] = Word("stale")
    BY <1>1, <1>11, ReceiveTypes
  <2>2. CASE t = o
    <3>1. AnsweredBy(reader'[o].event)
      BY <1>4, <2>1, <2>2 DEF AnsweredBy
    <3> QED
      BY <2>1, <2>2, <3>1 DEF Behind, AnsweredBy
  <2>3. CASE t # o
    <3>1. reader'[o] = reader[o] /\ \A r \in 1..n : AnsweredBy(reads[r]) => AnsweredBy(reads'[r])
      BY <1>1, <1>2, <2>1, <2>3
    <3> QED
      BY <1>1, <1>4, <2>1, <3>1 DEF Behind, AnsweredBy
  <2> QED
    BY <2>2, <2>3
<1> QED
  BY <1>5, <1>6, <1>8, <1>9, <1>10, <1>11 DEF ReadStep

\* What a change made stays no later than what the router runs, and its read behind it.
LEMMA ReadBehindStep ==
    ASSUME TasksInv, InFlightLast, ReadBehindChange, MenuNext, RouterType'
    PROVE  ReadBehindChange'
<1>1. /\ router.boot \in Nat /\ router.gen \in Nat /\ router'.boot \in Nat /\ router'.gen \in Nat
      /\ router.boot > 0 /\ router'.boot > 0
      /\ router'.boot > router.boot \/ (router'.boot = router.boot /\ router'.gen >= router.gen)
  <2>1. /\ router \in [boot : 1..MaxStarts, gen : 1..MaxGeneration, unfinished : BOOLEAN]
        /\ router' \in [boot : 1..MaxStarts, gen : 1..MaxGeneration, unfinished : BOOLEAN]
    BY DEF TasksInv, RouterType
  <2> QED
    BY <2>1, WhatChanges
<1>2. ReadStep
  BY ReadSteps DEF TasksInv
<1> SUFFICES ASSUME NEW o \in AppOps
             PROVE  /\ NotAfter(ops'[o].made, Active')
                    /\ ops'[o].at = "confirm" /\ ops'[o].made = Active' => Behind(o)'
  BY DEF ReadBehindChange, NotAfter, Active, Behind, AnsweredBy
<1>3. /\ NotAfter(ops[o].made, Active)
      /\ ops[o].at = "confirm" /\ ops[o].made = Active => Behind(o)
  BY DEF ReadBehindChange
<1>4. PICK made \in MaybeToken : made = ops[o].made
  BY DEF TasksInv, TasksType, Changes
<1>5. made.boot \in Nat /\ made.gen \in Nat
  BY <1>4, MenuBounds DEF MaybeToken, Tokens, NoToken, MenuBounds
<1>6. \/ ops'[o] = ops[o]
      \/ /\ ops'[o].made \in {ops[o].made, NoToken, Active'}
         /\ ops'[o].at = "confirm" => StartFresh(o) /\ UNCHANGED acceptance
  BY WhatChanges
<1>7. NotAfter(made, Active') /\ (made = Active' => Active = Active')
  BY <1>1, <1>3, <1>4, <1>5 DEF NotAfter, Active
<1>8. NotAfter(NoToken, Active') /\ NotAfter(Active', Active')
  BY <1>1 DEF NotAfter, NoToken, Active
<1>9. NotAfter(ops'[o].made, Active')
  BY <1>4, <1>6, <1>7, <1>8
<1>10. ASSUME ops'[o].at = "confirm", ops'[o].made = Active' PROVE Behind(o)'
  <2>1. CASE ops'[o] = ops[o]
    <3>1. Active = Active' /\ Behind(o)
      BY <1>3, <1>4, <1>7, <1>10, <2>1
    <3> QED
      BY <1>2, <3>1, StaysBehind DEF TasksInv
  <2>2. CASE StartFresh(o) /\ UNCHANGED acceptance
    <3>1. o \in PollTasks /\ ReadsType
      BY DEF PollTasks, TasksInv
    <3>2. reads \in Seq(Events \cup {Open}) /\ Open \in Events \cup {Open}
      BY <3>1 DEF ReadsType
    <3>3. PICK n \in Nat : n = Len(reads) /\ DOMAIN reads = 1..n
      BY <3>2
    <3>4. \/ /\ reader'[o].at = "draining" /\ reader'[o].read = n /\ inFlight \in {0, n}
             /\ UNCHANGED <<reads, inFlight>>
          \/ /\ reader'[o].at = "reading" /\ reader'[o].read = n + 1
             /\ reads' = Append(reads, Open)
      BY <2>2, <3>1, <3>3, StartFreshTypes DEF InFlightLast
    <3>5. CASE reader'[o].at = "draining" /\ reader'[o].read = n /\ inFlight \in {0, n} /\ UNCHANGED <<reads, inFlight>>
      <4>1. inFlight' = 0 \/ inFlight' >= n
        BY <3>5
      <4>2. \A r \in DOMAIN reads' : ~(r > n)
        BY <3>3, <3>5
      <4> QED
        BY <3>5, <4>1, <4>2 DEF Behind
    <3>6. CASE reader'[o].at = "reading" /\ reader'[o].read = n + 1 /\ reads' = Append(reads, Open)
      <4>1. reads'[n + 1] = Open
        BY <3>2, <3>3, <3>6
      <4>2. Open.is # "snapshot"
        BY DEF Open, Word
      <4> QED
        BY <3>6, <4>1, <4>2 DEF Behind, AnsweredBy
    <3> QED
      BY <3>4, <3>5, <3>6
  <2> QED
    BY <1>6, <1>10, <2>1, <2>2
<1> QED
  BY <1>9, <1>10

\* Every step keeps the tasks, the lane and the gate.
LEMMA TasksStep == ASSUME TasksInv, MenuNext PROVE TasksNext
<1>1. RouterType /\ MenuType /\ TasksType /\ LaneInv /\ GateInv
  BY DEF TasksInv
<1>2. ASSUME \/ (\E r \in 1..MaxReads : Answer(r)) \/ Restart \/ ChangedElsewhere \/ LoopPolls
             \/ \E t \in PollTasks : Drained(t) \/ Receive(t)
      PROVE  TasksNext
  BY <1>1, <1>2, ReadersKeep DEF TasksNext
<1>3. ASSUME NEW o \in AppOps, BeginDirect(o) \/ BeginBarrier(o) \/ BeginPreflight(o) \/ Preflighted(o)
      PROVE  TasksNext
  BY <1>1, <1>3, BeginsKeep DEF TasksNext
<1>4. ASSUME NEW o \in AppOps, BarrierPassed(o) \/ RunPrimary(o) \/ RunReconcile(o) \/ Confirm(o) PROVE TasksNext
  BY <1>4, BarrierKeeps, PrimaryKeeps, ReconcileKeeps, ConfirmKeeps
<1>5. ASSUME NEW t \in RecoveryTasks, RecoveryStarts(t) \/ RunStatus(t) \/ RunRecover(t) PROVE TasksNext
  BY <1>5, StartsKeep, StatusKeep, RecoverKeeps
<1>6. ASSUME NEW t \in RecoveryTasks, PerformCanceled(t) \/ RetryDue(t) \/ FinishRecovery(t) PROVE TasksNext
  BY <1>6, CanceledKeep, DueKeeps, FinishKeeps
<1> QED
  BY <1>2, <1>3, <1>4, <1>5, <1>6, LoopKeeps, CleanupKeeps DEF MenuNext

\* The invariant holds at the start,
LEMMA MenuStarts == MenuInit => MenuInv
<1> SUFFICES ASSUME MenuInit PROVE MenuInv
  OBVIOUS
<1>1. /\ MaxReads \in Nat /\ MaxStarts \in Nat \ {0} /\ MaxGeneration \in Nat \ {0} /\ MaxAttempts \in Nat
      /\ Recoveries \in Seq(STRING) /\ Len(Recoveries) \in Nat
  BY MenuBounds DEF MenuBounds
<1>2. 1 \in 1..MaxStarts /\ 1 \in 1..MaxGeneration /\ 1 \in 0..MaxStarts /\ 0 \in 0..MaxReads /\ 0 \in 0..MaxAttempts
      /\ 0 \in 0..Len(Recoveries)
  BY <1>1
<1>3. [boot |-> 1, gen |-> 1] \in MaybeToken
  BY <1>2 DEF MaybeToken, Tokens
<1>4. RouterType /\ MenuType
  BY <1>2, <1>3 DEF MenuInit, RouterType, MenuType
<1>5. reads = <<>> /\ inFlight = 0 /\ Len(reads) = 0
  BY DEF MenuInit
<1>6. acceptance \in [latest : 0..MaxReads, current : MaybeToken, retired : SUBSET (1..MaxStarts)]
  BY <1>2, <1>3 DEF MenuInit
<1>7. reader \in [PollTasks -> Readers] /\ \A t \in PollTasks : reader[t].at = "out"
  BY EventFacts DEF MenuInit
<1>8. ReadsType /\ InFlightLast
  BY <1>1, <1>5, <1>6, <1>7 DEF ReadsType, InFlightLast
<1>9. IdleOp \in Changes
  BY EventFacts DEF IdleOp, Changes, OpPhases, Receipts
<1>10. NoRecovery \in RecoveryRecords
  BY <1>2 DEF NoRecovery, RecoveryRecords, RecoveryPhases
<1>11. gate \in [state : Gates, key : 0..MaxStarts, legacy : BOOLEAN] /\ gate.state = "ready"
  BY <1>2 DEF MenuInit, Gates
<1>12. lane = <<>> /\ begun = 0 /\ lane \in Seq(AppOps \cup RecoveryTasks) /\ DOMAIN lane = {}
  BY DEF MenuInit
<1>13. ops = [o \in AppOps |-> IdleOp] /\ recovering = [t \in RecoveryTasks |-> NoRecovery]
  BY DEF MenuInit
<1>14. TasksType
  BY <1>2, <1>9, <1>10, <1>11, <1>12, <1>13 DEF TasksType
<1>15. /\ \A o \in AppOps : ops[o].at = "idle" /\ ops[o].made = NoToken /\ ~ops[o].late
       /\ \A t \in RecoveryTasks : recovering[t].at = "none"
  BY <1>13 DEF IdleOp, NoRecovery
<1>16. OnLane = {} /\ Waiting = {}
  BY <1>12 DEF OnLane, Waiting
<1>17. RecoveriesOnLane
  BY <1>12, <1>14, <1>15, <1>16, CurrentIsTask DEF RecoveriesOnLane, TasksType
<1>18. LaneInv
  BY <1>12, <1>15, <1>16, <1>17 DEF LaneInv, OnceOnLane, ChangesOnLane, ChangesGoFirst
<1>19. GateInv
  BY <1>11, <1>15 DEF GateInv, LateWentOut, OpenOverUnfinished, ReadyRecovery, LegacyKnown, MenuInit
<1>20. ReadBehindChange
  <2>1. NotAfter(NoToken, Active)
    BY DEF NotAfter, NoToken, Active, MenuInit
  <2> QED
    BY <1>15, <2>1 DEF ReadBehindChange
<1> QED
  BY <1>4, <1>8, <1>14, <1>18, <1>19, <1>20 DEF MenuInv, MenuTypeOK

\* and every step keeps it.
LEMMA MenuStep == MenuInv /\ [MenuNext]_menuVars => MenuInv'
<1> SUFFICES ASSUME MenuInv, [MenuNext]_menuVars PROVE MenuInv'
  OBVIOUS
<1>1. TasksInv /\ ReadsType /\ InFlightLast /\ ReadBehindChange
  BY DEF MenuInv, MenuTypeOK, TasksInv
<1>2. CASE MenuNext
  <2>1. TasksNext
    BY <1>1, <1>2, TasksStep
  <2>2. ReadsType' /\ InFlightLast'
    BY <1>1, <1>2, ReadSteps, ReadTypes DEF TasksInv
  <2>3. ReadBehindChange'
    BY <1>1, <1>2, <2>1, ReadBehindStep DEF TasksNext
  <2> QED
    BY <2>1, <2>2, <2>3 DEF TasksNext, MenuInv, MenuTypeOK
<1>3. CASE UNCHANGED menuVars
  <2>1. MenuTypeOK' /\ InFlightLast'
    BY <1>3 DEF menuVars, MenuInv, MenuTypeOK, RouterType, ReadsType, MenuType, TasksType, InFlightLast
  <2>2. LaneInv'
    BY <1>3 DEF menuVars, MenuInv, LaneInv, OnceOnLane, ChangesOnLane, RecoveriesOnLane, ChangesGoFirst,
                OnLane, Waiting, Before, Current
  <2>3. GateInv'
    BY <1>3 DEF menuVars, MenuInv, GateInv, LateWentOut, OpenOverUnfinished, ReadyRecovery, LegacyKnown,
                SomeLate, GateOpen, Current
  <2>4. ReadBehindChange'
    BY <1>3 DEF menuVars, MenuInv, ReadBehindChange, NotAfter, Active, Behind, AnsweredBy
  <2> QED
    BY <2>1, <2>2, <2>3, <2>4 DEF MenuInv
<1> QED
  BY <1>2, <1>3

\* So the invariant holds in every state: the tasks, the lane and the gate of
\* RuntimeCoordination.swift as they are at every step.
THEOREM MenuInductive == MenuSpec => []MenuInv
<1> QED
  BY MenuStarts, MenuStep, PTL DEF MenuSpec

\* What the invariant says of a state: the controls stay closed over an unfinished change,
\* and a cancelled recovery has no command on the lane.
LEMMA MenuInvSound == MenuInv => MenuSound
<1> SUFFICES ASSUME MenuInv PROVE MenuSound
  OBVIOUS
<1>1. UnfinishedKeepsGate
  <2> SUFFICES ASSUME router.unfinished, \A o \in AppOps : ~Busy(o) /\ ~ops[o].late, GateOpen, ~gate.legacy PROVE FALSE
    BY DEF UnfinishedKeepsGate
  <2>1. SomeLate \/ \E o \in AppOps : ops[o].at = "reconcile"
    BY DEF MenuInv, GateInv, OpenOverUnfinished
  <2> QED
    BY <2>1 DEF SomeLate, Busy
<1>2. CancelledStaysOut
  BY DEF MenuInv, LaneInv, RecoveriesOnLane, Waiting, CancelledStaysOut
<1> QED
  BY <1>1, <1>2 DEF MenuSound

\* A step that calls a change failed that the router still runs.
FalseAlarm(o) ==
    /\ ops[o].at = "confirm" /\ ops'[o].at = "failed" /\ reader[o].event.is = "snapshot"
    /\ ops[o].receipt = "applied" /\ ops[o].made = Active

\* No step does.
LEMMA NoStepAlarms == ASSUME MenuInv, MenuNext, NEW o \in AppOps PROVE ~FalseAlarm(o)
<1> SUFFICES ASSUME FalseAlarm(o) PROVE FALSE
  OBVIOUS
<1>1. TasksInv /\ TasksType /\ ops[o] \in Changes
  BY DEF MenuInv, MenuTypeOK, TasksInv, TasksType
<1>2. Confirm(o)
  BY <1>1, WhatChanges DEF FalseAlarm
<1>3. PICK e : e = reader[o].event
  OBVIOUS
<1>4. reader[o].at = "event" /\ menu' = Seen(e)
  BY <1>2, <1>3 DEF Confirm, Applied
<1>5. e.token = Active
  BY <1>3, <1>4 DEF FalseAlarm, MenuInv, ReadBehindChange, Behind, AnsweredBy
<1>6. menu'.snapshot = e.token /\ ~menu'.stale
  BY <1>3, <1>4 DEF Seen, FalseAlarm
<1>7. ops' = [ops EXCEPT ![o] = [IdleOp EXCEPT !.late = ops[o].late, !.at = "confirmed"]]
  BY <1>2, <1>5, <1>6 DEF Confirm, FalseAlarm, hashesConfirm
<1>8. ops'[o].at = "confirmed"
  BY <1>1, <1>7 DEF TasksType, IdleOp
<1> QED
  BY <1>8 DEF FalseAlarm


---------------------------------------------------------------------------
(* RouteResolution.                                                         *)

ProviderRoutes == {"baseten", "anthropic", "openai"}

\* What holds of every attempt of a request, ...
NativeModel(e, model) ==
    /\ model \notin usesAliases(e) \cup Slugs \cup Namespace \cup {"desktop"}
    /\ Shape(e) = "openai" => model # "sentinel"
AttemptFits(e, r, a) ==
    /\ a.route \in ProviderRoutes
    /\ a.route # "baseten" => ~NativeDisabled(e) /\ (r.from # "check" => NativeModel(e, a.model))
    /\ Shape(e) = "anthropic" /\ r.from = "main" /\ r.id.name \in Namespace \cup {"desktop"} /\ a.route = "baseten"
           => a.model = IF r.id.name = "desktop" THEN r.id.slug
                        ELSE IF r.id.name \in AliasNames THEN e.aliases[r.id.name] ELSE ""
    /\ globalRoutingOff(e) => a.route # "baseten"

\* ... of one that stands in for the primary or comes behind it, ...
FallbackFits(e, r, f) ==
    /\ f.route # "baseten"
    /\ f.model = IF Explicit(e, r.id) THEN e.nativeFallback ELSE r.id.name

\* ... and of the first.
IsChoice(e, r) == r.from = "main" /\ ~NativeDisabled(e) /\ Explicit(e, r.id)
FirstFits(e, r, a) ==
    /\ a.trigger # "" => FallbackFits(e, r, a)
    /\ IsChoice(e, r) => \/ a.route = "baseten" /\ a.model = ExplicitTarget(e, r.id)
                         \/ a.trigger = "cooldown" /\ r.weather = "cooldown status"
    /\ r.from = "main" /\ r.weather = "fine" /\ r.id.name = "sonnet" /\ e.client = "claude-code"
           => /\ a.route = FamilyStatus(e).route
              /\ a.route = "baseten" => a.model = FamilyStatus(e).model

OutcomeFits(e, r, out) ==
    \/ \E why : out = Refused(why) /\ why # "" /\ (globalRoutingOff(e) => why # "login")
    \/ \E a : out = Served(<<a>>) /\ AttemptFits(e, r, a) /\ FirstFits(e, r, a)
    \/ \E a, f : /\ out = Served(<<a, f>>) /\ AttemptFits(e, r, a) /\ FirstFits(e, r, a)
                 /\ AttemptFits(e, r, f) /\ FallbackFits(e, r, f) /\ a.route # f.route
                 /\ IsChoice(e, r) => f.only = "status"

AttemptFields == {"route", "model", "decorated", "translated", "stripped", "only", "trigger"}

\* What an attempt is built to, unless native routing is refused.
IsBuilt(e, r, id, route, forced, b) ==
    /\ b.failed = "native" <=> NativeDisabled(e) /\ route # "baseten"
    /\ b.failed # "native" =>
           /\ b.attempt.route = route /\ b.attempt.trigger = "" /\ b.attempt.only = "any"
           /\ b.attempt.model = IF route # "baseten" THEN id.name ELSE IF forced # "" THEN forced ELSE e.default
           /\ DOMAIN b.attempt = AttemptFields
    /\ b.failed \in {"reasoning", "login"} => route = "baseten"
    /\ r.weather = "fine" => b.failed \in {"", "native"}

\* What Build returns, attempt by attempt, is what IsBuilt says of it.
LEMMA BuildFacts ==
    ASSUME NEW e, NEW r, NEW id, NEW route, NEW forced, NEW keep
    PROVE  IsBuilt(e, r, id, route, forced, Build(e, r, id, route, forced, keep))
<1>0. PICK b : b = Build(e, r, id, route, forced, keep)
  OBVIOUS
<1> SUFFICES IsBuilt(e, r, id, route, forced, b)
  BY <1>0
<1> DEFINE plain == [Attempt(route, id, IF route # "baseten" THEN id.name
                                        ELSE IF forced # "" THEN forced ELSE e.default)
                        EXCEPT !.decorated = id.decorated /\ route # "baseten" /\ (keep \/ Shape(e) = "openai"),
                               !.translated = (Shape(e) = "anthropic" /\ upstreamShapeFor(e, route) = "openai"),
                               !.stripped = (route = "baseten" /\ e.strip)]
           translates == Shape(e) = "anthropic" /\ upstreamShapeFor(e, route) = "openai"
<1>1. /\ plain.route = route /\ plain.trigger = "" /\ plain.only = "any"
      /\ plain.model = IF route # "baseten" THEN id.name ELSE IF forced # "" THEN forced ELSE e.default
      /\ DOMAIN plain = AttemptFields
  BY DEF Attempt, AttemptFields
<1>2. CASE NativeDisabled(e) /\ route # "baseten"
  <2>1. b = Failed(NoAttempt, "native")
    BY <1>0, <1>2 DEF Build
  <2> QED
    BY <1>2, <2>1 DEF Failed, IsBuilt
<1>3. CASE ~(NativeDisabled(e) /\ route # "baseten")
  <2>1. /\ b.attempt = plain /\ b.failed \in {"", "reasoning", "image", "other", "login"}
        /\ b.failed \in {"reasoning", "login"} => route = "baseten"
        /\ r.weather = "fine" => b.failed = ""
    <3>1. \/ route = "baseten" /\ r.weather \in {"reasoning", "login"} /\ b = Failed(plain, r.weather)
          \/ r.weather \in {"image", "other"} /\ b = Failed(plain, r.weather)
          \/ b = Built(plain)
      BY <1>0, <1>3 DEF Build
    <3> HIDE DEF plain
    <3>2. /\ \A why : Failed(plain, why).attempt = plain /\ Failed(plain, why).failed = why
          /\ Built(plain).attempt = plain /\ Built(plain).failed = ""
      BY DEF Failed, Built
    <3> QED
      BY <3>1, <3>2
  <2> HIDE DEF plain
  <2> QED
    BY <1>1, <1>3, <2>1 DEF IsBuilt
<1> QED
  BY <1>2, <1>3

\* What the fallback of a request is built to.
FallbackIs(e, r, plan, f) ==
    /\ AttemptFits(e, r, f.attempt) /\ FallbackFits(e, r, f.attempt)
    /\ f.attempt.only = plan.only /\ f.attempt.route = plan.route /\ plan.route = NativeRoute(e)
    /\ DOMAIN f.attempt = AttemptFields
    /\ Explicit(e, r.id) => plan.only = "status"

\* A fallback that is built serves the slug that the plan resolves for the requested model.
LEMMA FallbackFacts ==
    ASSUME NEW e \in Entries, EntryValid(e), NEW r, configured(resolveFallbackPlan(e, r.id)),
           buildFallbackAttempt(e, r, resolveFallbackPlan(e, r.id)).failed = ""
    PROVE  FallbackIs(e, r, resolveFallbackPlan(e, r.id), buildFallbackAttempt(e, r, resolveFallbackPlan(e, r.id)))
<1>a. PICK plan : plan = resolveFallbackPlan(e, r.id)
  OBVIOUS
<1>b. PICK f : f = buildFallbackAttempt(e, r, plan)
  OBVIOUS
<1>c. configured(plan) /\ f.failed = ""
  BY <1>a, <1>b
<1> DEFINE b == Build(e, r, plan.id, plan.route, "", plan.keep)
<1>1. /\ ~globalRoutingOff(e) /\ ~NativeDisabled(e) /\ plan.route = NativeRoute(e)
      /\ IF Explicit(e, r.id) THEN /\ plan.id.name = e.nativeFallback /\ plan.only = "status" /\ e.nativeFallback # ""
                                   /\ Shape(e) = "anthropic"
         ELSE plan.id = r.id /\ IsProtocolNativeModel(e, r.id)
  BY <1>a, <1>c DEF resolveFallbackPlan, configured, NoPlan, Explicit, Id
<1>2. f.failed = b.failed /\ f.attempt.route = b.attempt.route /\ f.attempt.model = b.attempt.model
      /\ f.attempt.only = plan.only /\ DOMAIN f.attempt = AttemptFields
  BY <1>b DEF buildFallbackAttempt, Build, Failed, Built, Attempt, NoAttempt, AttemptFields
<1>3. /\ f.attempt.route = NativeRoute(e) /\ NativeRoute(e) \in ProviderRoutes \ {"baseten"}
      /\ f.attempt.model = plan.id.name
  <2>1. NativeRoute(e) \in ProviderRoutes \ {"baseten"}
    BY DEF NativeRoute, Shape, ProviderRoutes
  <2>2. b.failed = ""
    BY <1>2, <1>c
  <2> HIDE DEF b
  <2>3. b.attempt.route = plan.route /\ b.attempt.model = IF plan.route # "baseten" THEN plan.id.name ELSE e.default
    <3>1. b = Build(e, r, plan.id, plan.route, "", plan.keep)
      BY DEF b
    <3>2. IsBuilt(e, r, plan.id, plan.route, "", b)
      BY <3>1, BuildFacts
    <3> QED
      BY <2>2, <3>2 DEF IsBuilt
  <2> QED
    BY <1>1, <1>2, <2>1, <2>3
<1>4. FallbackFits(e, r, f.attempt)
  BY <1>1, <1>3 DEF FallbackFits
<1>5. NativeModel(e, plan.id.name)
  <2>1. CASE Explicit(e, r.id)
    <3>1. e.nativeFallback \in {"sonnet", "stale"} /\ e.nativeFallback \notin usesAliases(e) \cup Namespace
      BY <1>1, <2>1 DEF Entries, EntryValid, NativeFallbackValid
    <3> QED
      BY <1>1, <2>1, <3>1 DEF NativeModel, Slugs, Namespace
  <2>2. CASE ~Explicit(e, r.id) /\ Shape(e) = "anthropic"
    BY <1>1, <2>2 DEF IsProtocolNativeModel, EntryValid, AliasesValid, NativeModel, Native, Slugs, Namespace
  <2>3. CASE ~Explicit(e, r.id) /\ Shape(e) # "anthropic"
    BY <1>1, <2>3 DEF IsProtocolNativeModel, EntryValid, AliasesValid, NativeModel
  <2> QED
    BY <2>1, <2>2, <2>3
<1>6. AttemptFits(e, r, f.attempt)
  BY <1>1, <1>3, <1>5 DEF AttemptFits
<1> QED
  BY <1>a, <1>b, <1>1, <1>2, <1>3, <1>4, <1>6 DEF FallbackIs

\* A fallback that stands in for the primary says why.
LEMMA StandsIn ==
    ASSUME NEW a, DOMAIN a = AttemptFields, NEW why
    PROVE  /\ [a EXCEPT !.trigger = why].route = a.route /\ [a EXCEPT !.trigger = why].model = a.model
           /\ [a EXCEPT !.trigger = why].only = a.only /\ [a EXCEPT !.trigger = why].trigger = why
BY DEF AttemptFields

\* What a valid entry is like.
LEMMA EntryFacts ==
    ASSUME NEW e \in Entries, EntryValid(e)
    PROVE  /\ Shape(e) \in {"anthropic", "openai"} /\ NativeRoute(e) = Shape(e)
           /\ NativeDisabled(e) => Shape(e) = "anthropic" /\ ~globalRoutingOff(e)
           /\ usesAliases(e) \subseteq AliasNames /\ usesAliases(e) \cap Native = {}
           /\ Shape(e) = "openai" => usesAliases(e) = {}
           /\ \A a \in AliasNames : a \in usesAliases(e) <=> e.aliases[a] # ""
           /\ e.picker \subseteq AliasNames
           /\ e.pin \notin {"", "native"} => PinTarget(e) # ""
<1>1. /\ Shape(e) \in {"anthropic", "openai"} /\ NativeRoute(e) = Shape(e)
      /\ NativeDisabled(e) => Shape(e) = "anthropic" /\ ~globalRoutingOff(e)
  BY DEF Shape, NativeRoute, NativeDisabled, globalRoutingOff
<1>2. /\ usesAliases(e) \subseteq AliasNames /\ usesAliases(e) \cap Native = {}
      /\ Shape(e) = "openai" => usesAliases(e) = {}
      /\ \A a \in AliasNames : a \in usesAliases(e) <=> e.aliases[a] # ""
  BY DEF EntryValid, AliasesValid, usesAliases
<1>3. e.picker \subseteq AliasNames
  BY DEF Entries
<1>4. e.pin \notin {"", "native"} => PinTarget(e) # ""
  <2>1. e.pin \in {"", "native", "alias", "stale", "s1"} /\ (e.pin \in Namespace => e.pin \in usesAliases(e))
    BY DEF Entries, EntryValid, PinsValid
  <2> QED
    BY <1>2, <2>1 DEF PinTarget, Namespace, AliasNames
<1> QED
  BY <1>1, <1>2, <1>3, <1>4

\* The ways a request may come out.
LEMMA RefusedFits ==
    ASSUME NEW e, NEW r, NEW why, why # "", globalRoutingOff(e) => why # "login"
    PROVE  OutcomeFits(e, r, Refused(why))
BY DEF OutcomeFits

\* A single attempt that fits its request is an outcome that does.
LEMMA ServedFits ==
    ASSUME NEW e, NEW r, NEW a, AttemptFits(e, r, a), FirstFits(e, r, a)
    PROVE  OutcomeFits(e, r, Served(<<a>>))
BY DEF OutcomeFits

\* What a picker selects is served with the slug it is of, ...
LEMMA SelectedFits ==
    ASSUME NEW e \in Entries, EntryValid(e), NativeDisabled(e), NEW r
    PROVE  OutcomeFits(e, r, ServeSelected(e, r))
<1>1. CASE Selected(e, r.id) = {}
  <2>1. ServeSelected(e, r) = Refused("not selected")
    BY <1>1 DEF ServeSelected
  <2> QED
    BY <2>1, RefusedFits
<1>2. CASE Selected(e, r.id) # {}
  <2>1. PICK a \in Selected(e, r.id) :
            LET b == Build(e, r, r.id, "baseten", e.aliases[a], FALSE)
            IN ServeSelected(e, r) = IF b.failed # "" THEN Refused(b.failed) ELSE Served(<<b.attempt>>)
    <3>1. (CHOOSE x \in Selected(e, r.id) : TRUE) \in Selected(e, r.id)
      BY <1>2
    <3> QED
      BY <1>2, <3>1 DEF ServeSelected
  <2>2. PICK b : b = Build(e, r, r.id, "baseten", e.aliases[a], FALSE)
    OBVIOUS
  <2>3. IsBuilt(e, r, r.id, "baseten", e.aliases[a], b)
    BY <2>2, BuildFacts
  <2>4. /\ a \in AliasNames /\ e.aliases[a] # "" /\ ~globalRoutingOff(e)
        /\ \/ r.id.name = a
           \/ r.id.name = "desktop" /\ r.id.slug = e.aliases[a]
    <3>1. a \in e.picker /\ e.aliases[a] # "" /\ (r.id = Id(a) \/ r.id = desktopModelID(a, e.aliases[a]))
      BY DEF Selected
    <3>2. Id(a).name = a /\ desktopModelID(a, e.aliases[a]).name = "desktop" /\ desktopModelID(a, e.aliases[a]).slug = e.aliases[a]
      BY DEF Id, desktopModelID
    <3> QED
      BY <3>1, <3>2, EntryFacts
  <2>5. b.failed # "native" /\ b.attempt.route = "baseten" /\ b.attempt.trigger = "" /\ b.attempt.model = e.aliases[a]
    BY <2>3, <2>4 DEF IsBuilt
  <2>6. AttemptFits(e, r, b.attempt)
    BY <2>4, <2>5 DEF AttemptFits, ProviderRoutes, AliasNames
  <2>7. FirstFits(e, r, b.attempt)
    BY <2>5 DEF FirstFits, IsChoice, NativeDisabled
  <2> QED
    BY <2>1, <2>2, <2>4, <2>6, <2>7, RefusedFits, ServedFits
<1> QED
  BY <1>1, <1>2

\* ... while routing is off a native model by the native route, ...
LEMMA NativeFits ==
    ASSUME NEW e \in Entries, EntryValid(e), globalRoutingOff(e), NEW r, r.from # "check"
    PROVE  OutcomeFits(e, r, ServeNative(e, r, r.id))
<1>1. CASE \/ r.id.name \in usesAliases(e) \cup Namespace \cup Slugs \cup {"desktop"}
           \/ (Shape(e) = "openai" /\ r.id.name = "sentinel")
  <2>1. ServeNative(e, r, r.id) = Refused("routing disabled")
    BY <1>1 DEF ServeNative
  <2> QED
    BY <2>1, RefusedFits
<1>2. CASE ~ \/ r.id.name \in usesAliases(e) \cup Namespace \cup Slugs \cup {"desktop"}
             \/ (Shape(e) = "openai" /\ r.id.name = "sentinel")
  <2>1. PICK b : b = Build(e, r, r.id, NativeRoute(e), "", FALSE)
    OBVIOUS
  <2>2. NativeRoute(e) = Shape(e) /\ Shape(e) \in {"anthropic", "openai"} /\ ~NativeDisabled(e)
    BY EntryFacts
  <2>3. IsBuilt(e, r, r.id, NativeRoute(e), "", b)
    BY <2>1, <2>2, BuildFacts
  <2>4. /\ b.failed \notin {"native", "login"} /\ b.attempt.route = NativeRoute(e)
        /\ b.attempt.trigger = "" /\ b.attempt.model = r.id.name
    BY <2>2, <2>3 DEF IsBuilt
  <2>5. AttemptFits(e, r, b.attempt)
    BY <1>2, <2>2, <2>4 DEF AttemptFits, NativeModel, ProviderRoutes
  <2>6. FirstFits(e, r, b.attempt)
    BY <1>2, <2>2, <2>4 DEF FirstFits, IsChoice, Explicit, FamilyStatus
  <2>7. ServeNative(e, r, r.id) = IF b.failed # "" THEN Refused(b.failed) ELSE Served(<<b.attempt>>)
    BY <1>2, <2>1 DEF ServeNative
  <2> QED
    BY <2>4, <2>5, <2>6, <2>7, RefusedFits, ServedFits
<1> QED
  BY <1>1, <1>2

\* ... an alias or a slug as the user chose it, ...
LEMMA ExplicitFits ==
    ASSUME NEW e \in Entries, EntryValid(e), ~globalRoutingOff(e), ~NativeDisabled(e), NEW r, r.from # "check",
           NEW id, r.from = "subagent" \/ id = r.id, Explicit(e, id)
    PROVE  OutcomeFits(e, r, ServeExplicit(e, r, id, resolveFallbackPlan(e, r.id)))
<1>1. PICK plan : plan = resolveFallbackPlan(e, r.id)
  OBVIOUS
<1>2. PICK f : f = buildFallbackAttempt(e, r, plan)
  OBVIOUS
<1>3. PICK b : b = Build(e, r, id, "baseten", ExplicitTarget(e, id), FALSE)
  OBVIOUS
<1>4. IsBuilt(e, r, id, "baseten", ExplicitTarget(e, id), b)
  BY <1>3, BuildFacts
<1>5. /\ ExplicitTarget(e, id) # "" /\ (r.from = "main" => id = r.id) /\ "sonnet" \notin usesAliases(e) \cup Slugs
      /\ id.name \in Slugs \/ (id.name \in AliasNames /\ id.name \in usesAliases(e) /\ ExplicitTarget(e, id) = e.aliases[id.name])
  <2>1. "sonnet" \notin usesAliases(e) \cup Slugs /\ Slugs \cap AliasNames = {} /\ "" \notin Slugs
    BY EntryFacts DEF Native, Slugs, AliasNames
  <2> QED
    BY <2>1, EntryFacts DEF Explicit, ExplicitTarget
<1>6. /\ b.failed # "native" /\ b.attempt.route = "baseten" /\ b.attempt.trigger = ""
      /\ b.attempt.model = ExplicitTarget(e, id)
  BY <1>4, <1>5 DEF IsBuilt
<1>7. AttemptFits(e, r, b.attempt)
  BY <1>5, <1>6 DEF AttemptFits, ProviderRoutes, Namespace, Slugs, AliasNames
<1>8. FirstFits(e, r, b.attempt)
  BY <1>5, <1>6 DEF FirstFits, IsChoice, Explicit
<1>9. CASE b.failed # ""
  <2>1. ServeExplicit(e, r, id, plan) = Refused(b.failed)
    BY <1>3, <1>9 DEF ServeExplicit
  <2> QED
    BY <1>1, <1>9, <2>1, RefusedFits
<1>10. CASE b.failed = "" /\ (~configured(plan) \/ f.failed # "")
  <2>1. ServeExplicit(e, r, id, plan) = Served(<<b.attempt>>)
    BY <1>2, <1>3, <1>10 DEF ServeExplicit
  <2> QED
    BY <1>1, <1>7, <1>8, <2>1, ServedFits
<1>11. CASE b.failed = "" /\ configured(plan) /\ f.failed = ""
  <2>1. /\ AttemptFits(e, r, f.attempt) /\ FallbackFits(e, r, f.attempt) /\ f.attempt.only = plan.only
        /\ Explicit(e, r.id) => plan.only = "status"
        /\ DOMAIN f.attempt = AttemptFields
    BY <1>1, <1>2, <1>11, FallbackFacts DEF FallbackIs
  <2>2. CASE Cooled(r, f.attempt)
    <3>1. PICK a : a = [f.attempt EXCEPT !.trigger = "cooldown"]
      OBVIOUS
    <3>2. a.route = f.attempt.route /\ a.model = f.attempt.model /\ a.trigger = "cooldown"
      BY <2>1, <3>1, StandsIn
    <3>3. AttemptFits(e, r, a) /\ FallbackFits(e, r, a)
      BY <2>1, <3>2 DEF AttemptFits, FallbackFits
    <3>4. FirstFits(e, r, a)
      BY <2>1, <2>2, <3>2, <3>3 DEF FirstFits, IsChoice, Cooled
    <3>5. ServeExplicit(e, r, id, plan) = Served(<<a>>)
      BY <1>2, <1>3, <1>11, <2>2, <3>1 DEF ServeExplicit
    <3> QED
      BY <1>1, <3>3, <3>4, <3>5, ServedFits
  <2>3. CASE ~Cooled(r, f.attempt)
    <3>1. ServeExplicit(e, r, id, plan) = Served(<<b.attempt, f.attempt>>)
      BY <1>2, <1>3, <1>11, <2>3 DEF ServeExplicit
    <3>2. b.attempt.route # f.attempt.route /\ (IsChoice(e, r) => f.attempt.only = "status")
      BY <1>6, <2>1 DEF FallbackFits, IsChoice
    <3> QED
      BY <1>1, <1>7, <1>8, <2>1, <3>1, <3>2 DEF OutcomeFits
  <2> QED
    BY <2>2, <2>3
<1> QED
  BY <1>9, <1>10, <1>11

\* ... anything else as the policy says, ...
LEMMA PolicyFits ==
    ASSUME NEW e \in Entries, EntryValid(e), ~globalRoutingOff(e), ~NativeDisabled(e), NEW r, r.from # "check",
           NEW id, r.from = "subagent" \/ id = r.id, ~Explicit(e, id), NEW known,
           ~(Shape(e) = "anthropic" /\ id.name \in (Namespace \cup {"desktop"}) \ usesAliases(e))
    PROVE  OutcomeFits(e, r, ServePolicy(e, r, id, resolveFallbackPlan(e, r.id), known))
<1>1. PICK plan : plan = resolveFallbackPlan(e, r.id)
  OBVIOUS
<1>2. PICK f : f = buildFallbackAttempt(e, r, plan)
  OBVIOUS
<1>3. PICK d : d = NativePolicy(e, id, known)
  OBVIOUS
<1>4. PICK b : b = Build(e, r, id, d.route, d.forced, FALSE)
  OBVIOUS
<1>5. /\ d.route \in {"baseten", NativeRoute(e)}
      /\ d.route # "baseten" => Shape(e) = "anthropic" /\ id.name \in Native
      /\ d.route = "baseten" => d.forced # "" \/ d.forced = e.default
  BY <1>3, EntryFacts DEF NativePolicy, familyOf, Families, Native
<1>6. IsBuilt(e, r, id, d.route, d.forced, b)
  BY <1>4, BuildFacts
<1>7. /\ b.failed # "native" /\ b.attempt.route = d.route /\ b.attempt.trigger = ""
      /\ b.attempt.model = IF d.route # "baseten" THEN id.name ELSE d.forced
      /\ r.weather = "fine" => b.failed = ""
  BY <1>5, <1>6 DEF IsBuilt
<1>8. AttemptFits(e, r, b.attempt)
  <2>1. d.route \in ProviderRoutes
    BY <1>5, EntryFacts DEF ProviderRoutes
  <2>2. d.route # "baseten" => NativeModel(e, id.name)
    BY <1>5, EntryFacts DEF NativeModel, Native, Slugs, Namespace
  <2>3. Shape(e) = "anthropic" /\ r.from = "main" => r.id.name \notin Namespace \cup {"desktop"}
    BY DEF Explicit
  <2> QED
    BY <1>7, <2>1, <2>2, <2>3 DEF AttemptFits
<1>9. FirstFits(e, r, b.attempt)
  <2>1. ~IsChoice(e, r)
    BY DEF IsChoice
  <2>2. r.from = "main" /\ r.id.name = "sonnet" => FamilyStatus(e).route = d.route /\ FamilyStatus(e).model = d.forced
    BY <1>3 DEF FamilyStatus, NativePolicy, familyOf, Id
  <2> QED
    BY <1>7, <2>1, <2>2 DEF FirstFits
<1>10. ASSUME configured(plan), f.failed = ""
       PROVE  /\ AttemptFits(e, r, f.attempt) /\ FallbackFits(e, r, f.attempt) /\ f.attempt.route = plan.route
              /\ DOMAIN f.attempt = AttemptFields
  BY <1>1, <1>2, <1>10, FallbackFacts DEF FallbackIs
<1>11. ASSUME NEW why, why # "", r.weather # "fine", configured(plan), f.failed = "", NEW a, a = [f.attempt EXCEPT !.trigger = why]
       PROVE  OutcomeFits(e, r, Served(<<a>>))
  <2>1. a.route = f.attempt.route /\ a.model = f.attempt.model /\ a.trigger = why
    BY <1>10, <1>11, StandsIn
  <2>2. AttemptFits(e, r, a) /\ FallbackFits(e, r, a)
    BY <1>10, <1>11, <2>1 DEF AttemptFits, FallbackFits
  <2>3. FirstFits(e, r, a)
    BY <1>11, <2>2 DEF FirstFits, IsChoice
  <2> QED
    BY <2>2, <2>3, ServedFits
<1>12. DEFINE alone == IF b.failed = "" THEN Served(<<b.attempt>>) ELSE Refused(b.failed)
<1>13. OutcomeFits(e, r, alone)
  BY <1>8, <1>9, RefusedFits, ServedFits
<1> HIDE DEF alone
<1>14. \/ ServePolicy(e, r, id, plan, known) = alone
       \/ b.failed # "" /\ ServePolicy(e, r, id, plan, known) = Refused(b.failed)
       \/ /\ configured(plan) /\ f.failed = "" /\ b.failed = "" /\ Cooled(r, f.attempt)
          /\ ServePolicy(e, r, id, plan, known) = Served(<<[f.attempt EXCEPT !.trigger = "cooldown"]>>)
       \/ /\ configured(plan) /\ f.failed = "" /\ b.failed = "" /\ plan.route # b.attempt.route
          /\ ServePolicy(e, r, id, plan, known) = Served(<<b.attempt, f.attempt>>)
       \/ /\ configured(plan) /\ f.failed = "" /\ b.failed # ""
          /\ ServePolicy(e, r, id, plan, known) = Served(<<[f.attempt EXCEPT !.trigger = b.failed]>>)
  BY <1>2, <1>3, <1>4 DEF ServePolicy, Primary, alone
<1>15. CASE ServePolicy(e, r, id, plan, known) = alone
  BY <1>1, <1>13, <1>15
<1>16. CASE b.failed # "" /\ ServePolicy(e, r, id, plan, known) = Refused(b.failed)
  BY <1>1, <1>16, RefusedFits
<1>17. CASE /\ configured(plan) /\ f.failed = "" /\ b.failed = "" /\ Cooled(r, f.attempt)
            /\ ServePolicy(e, r, id, plan, known) = Served(<<[f.attempt EXCEPT !.trigger = "cooldown"]>>)
  <2>1. r.weather # "fine"
    BY <1>17 DEF Cooled
  <2> QED
    BY <1>1, <1>11, <1>17, <2>1
<1>18. CASE /\ configured(plan) /\ f.failed = "" /\ b.failed = "" /\ plan.route # b.attempt.route
            /\ ServePolicy(e, r, id, plan, known) = Served(<<b.attempt, f.attempt>>)
  <2>1. ~IsChoice(e, r) /\ b.attempt.route # f.attempt.route
    BY <1>10, <1>18 DEF IsChoice
  <2> QED
    BY <1>1, <1>8, <1>9, <1>10, <1>18, <2>1 DEF OutcomeFits
<1>19. CASE /\ configured(plan) /\ f.failed = "" /\ b.failed # ""
            /\ ServePolicy(e, r, id, plan, known) = Served(<<[f.attempt EXCEPT !.trigger = b.failed]>>)
  <2>1. r.weather # "fine"
    BY <1>7, <1>19
  <2> QED
    BY <1>1, <1>11, <1>19, <2>1
<1> QED
  BY <1>14, <1>15, <1>16, <1>17, <1>18, <1>19

\* ... and so every request of an entry that is valid.
LEMMA AttemptsFit ==
    ASSUME NEW e \in Entries, EntryValid(e), NEW r, NEW known
    PROVE  OutcomeFits(e, r, Attempts(e, r, known))
<1>1. CASE NativeDisabled(e)
  <2>1. Attempts(e, r, known) = ServeSelected(e, r)
    BY <1>1 DEF Attempts, Ladder
  <2> QED
    BY <1>1, <2>1, SelectedFits
<1>2. CASE ~NativeDisabled(e) /\ r.from = "check"
  <2>1. PICK b : b = Build(e, r, r.id, "anthropic", "", FALSE)
    OBVIOUS
  <2>2. IsBuilt(e, r, r.id, "anthropic", "", b)
    BY <2>1, BuildFacts
  <2>3. Attempts(e, r, known) = IF b.failed # "" THEN Refused(b.failed) ELSE Served(<<b.attempt>>)
    BY <1>2, <2>1 DEF Attempts
  <2>4. AttemptFits(e, r, b.attempt) /\ FirstFits(e, r, b.attempt) /\ b.failed # "login"
    BY <1>2, <2>2 DEF IsBuilt, AttemptFits, FirstFits, IsChoice, ProviderRoutes
  <2> QED
    BY <2>3, <2>4, RefusedFits, ServedFits
<1>3. CASE ~NativeDisabled(e) /\ r.from # "check"
  <2>1. PICK id : /\ (r.from = "subagent" /\ ~globalRoutingOff(e)) \/ id = r.id
                  /\ Attempts(e, r, known) = Ladder(e, r, id, resolveFallbackPlan(e, r.id), known)
    BY <1>3 DEF Attempts, PlanOf
  <2>2. CASE globalRoutingOff(e)
    <3>1. Attempts(e, r, known) = ServeNative(e, r, r.id)
      BY <1>3, <2>1, <2>2 DEF Ladder
    <3> QED
      BY <1>3, <2>2, <3>1, NativeFits
  <2>3. CASE ~globalRoutingOff(e) /\ Explicit(e, id)
    <3>1. Explicit(e, id) => ~(Shape(e) = "anthropic" /\ id.name \in (Namespace \cup {"desktop"}) \ usesAliases(e))
      BY DEF Explicit, Namespace, Slugs
    <3>2. Attempts(e, r, known) = ServeExplicit(e, r, id, resolveFallbackPlan(e, r.id))
      BY <1>3, <2>1, <2>3, <3>1 DEF Ladder
    <3> QED
      BY <1>3, <2>1, <2>3, <3>2, ExplicitFits
  <2>4. CASE /\ ~globalRoutingOff(e) /\ ~Explicit(e, id)
             /\ Shape(e) = "anthropic" /\ id.name \in (Namespace \cup {"desktop"}) \ usesAliases(e)
    <3>1. Attempts(e, r, known) = Refused("unknown alias")
      BY <1>3, <2>1, <2>4 DEF Ladder
    <3> QED
      BY <3>1, RefusedFits
  <2>5. CASE /\ ~globalRoutingOff(e) /\ ~Explicit(e, id)
             /\ ~(Shape(e) = "anthropic" /\ id.name \in (Namespace \cup {"desktop"}) \ usesAliases(e))
    <3>1. Attempts(e, r, known) = ServePolicy(e, r, id, resolveFallbackPlan(e, r.id), known)
      BY <1>3, <2>1, <2>5 DEF Ladder
    <3> QED
      BY <1>3, <2>1, <2>5, <3>1, PolicyFits
  <2> QED
    BY <2>2, <2>3, <2>4, <2>5
<1> QED
  BY <1>1, <1>2, <1>3

---------------------------------------------------------------------------

RouteTypes ==
    /\ file \in Entries /\ live \in Entries /\ listing \in Entries
    /\ families \in BOOLEAN /\ lists \in 0..MaxDiscoveries /\ routeEdits \in 0..MaxRouteEdits
    /\ discovery.of \in {"nothing", "a list"}
CallFits == call = NoCall \/ OutcomeFits(live, call.of, call.became)
RouteInv == RouteTypes /\ EntryValid(live) /\ DiscoveryCurrent /\ CallFits

\* The entries it starts from, and none, ...
LEMMA EntryKinds ==
    /\ ClaudeEntry \in Entries /\ DesktopEntry \in Entries /\ CodexEntry \in Entries /\ NoEntry \in Entries
    /\ EntryValid(ClaudeEntry) /\ EntryValid(DesktopEntry) /\ EntryValid(CodexEntry)
<1> USE DEF ClaudeEntry, DesktopEntry, CodexEntry, NoEntry, NoAliases
<1>1. /\ NoAliases \in [AliasNames -> Slugs \cup {""}]
      /\ [NoAliases EXCEPT !["alias"] = "s1"] \in [AliasNames -> Slugs \cup {""}]
  BY DEF AliasNames, Slugs
<1>2. ClaudeEntry \in Entries
  BY <1>1 DEF Entries, Slugs
<1>3. DesktopEntry \in Entries
  BY <1>1 DEF Entries, Slugs, AliasNames
<1>4. CodexEntry \in Entries
  BY <1>1 DEF Entries, Slugs
<1>5. NoEntry \in Entries
  BY <1>1 DEF Entries, Slugs
<1>6. EntryValid(ClaudeEntry)
  BY DEF EntryValid, SubagentValid, PinsValid, AliasesValid, NativePolicyValid, NativeFallbackValid, PickerValid,
         Shape, usesAliases, NativeDisabled, Namespace, Native, AliasNames
<1>7. EntryValid(DesktopEntry)
  BY DEF EntryValid, SubagentValid, PinsValid, AliasesValid, NativePolicyValid, NativeFallbackValid, PickerValid,
         Shape, usesAliases, NativeDisabled, Namespace, Native, AliasNames
<1>8. EntryValid(CodexEntry)
  BY DEF EntryValid, SubagentValid, PinsValid, AliasesValid, NativePolicyValid, NativeFallbackValid, PickerValid,
         Shape, usesAliases, NativeDisabled, Namespace, Native, AliasNames
<1> QED
  BY <1>2, <1>3, <1>4, <1>5, <1>6, <1>7, <1>8

\* ... an edit of one, ...
LEMMA EditedKinds ==
    ASSUME file \in Entries
    PROVE  Edited \subseteq Entries
<1> SUFFICES ASSUME NEW x \in Edited PROVE x \in Entries
  OBVIOUS
<1>1. CASE x = [file EXCEPT !.gate = ~@]
  BY <1>1 DEF Entries
<1>10. CASE x = [file EXCEPT !.fallback = ~@]
  BY <1>10 DEF Entries
<1>11. CASE x = [file EXCEPT !.strip = ~@]
  BY <1>11 DEF Entries
<1>2. ASSUME NEW n \in {"", "sonnet", "stale"}, x = [file EXCEPT !.nativeFallback = n] PROVE x \in Entries
  BY <1>2 DEF Entries
<1>3. ASSUME NEW a \in AliasNames, NEW s \in {"", "s1", "s2"}, x = WithAlias(a, s) PROVE x \in Entries
  <2>1. [file.aliases EXCEPT ![a] = s] \in [AliasNames -> Slugs \cup {""}]
    BY DEF Entries, Slugs
  <2> QED
    BY <1>3, <2>1 DEF Entries, WithAlias
<1>4. ASSUME NEW q \in SUBSET {"alias", "nick"}, x = [file EXCEPT !.picker = q] PROVE x \in Entries
  <2>1. q \in SUBSET AliasNames
    BY DEF AliasNames
  <2> QED
    BY <1>4, <2>1 DEF Entries
<1>5. ASSUME NEW q \in {"", "native", "alias", "stale", "s1"}, x = [file EXCEPT !.pin = q] PROVE x \in Entries
  BY <1>5 DEF Entries
<1>6. ASSUME NEW q \in {"", "alias", "nick", "stale", "sonnet", "s2"}, x = [file EXCEPT !.subagent = q] PROVE x \in Entries
  BY <1>6 DEF Entries
<1>7. ASSUME NEW q \in {"", "on", "off"}, x = [file EXCEPT !.subagents = q] PROVE x \in Entries
  BY <1>7 DEF Entries
<1>8. CASE x = [file EXCEPT !.default = ""]
  BY <1>8 DEF Entries
<1>9. ASSUME NEW q \in {"", "openai"}, x = [file EXCEPT !.upstream = q] PROVE x \in Entries
  BY <1>9 DEF Entries
<1>12. CASE x \in AliasEdits
  BY <1>3, <1>12 DEF AliasEdits
<1>13. CASE x \in SwitchEdits
  BY <1>1, <1>8, <1>10, <1>11, <1>13, Zenon DEF SwitchEdits
<1>14. CASE x \in ChoiceEdits
  BY <1>2, <1>4, <1>5, <1>6, <1>7, <1>9, <1>14 DEF ChoiceEdits
<1> QED
  BY <1>12, <1>13, <1>14 DEF Edited

\* ... and what a reload makes of one.
LEMMA ResolvedKinds ==
    ASSUME NEW e \in Entries, EntryValid(e)
    PROVE  Resolved(e) \in Entries /\ EntryValid(Resolved(e))
<1>1. PICK x : x = [e EXCEPT !.upstream = ""]
  OBVIOUS
<1>2. x \in Entries
  BY <1>1 DEF Entries
<1>3. /\ x.client = e.client /\ x.gate = e.gate /\ x.fallback = e.fallback /\ x.nativeFallback = e.nativeFallback
      /\ x.aliases = e.aliases /\ x.picker = e.picker /\ x.pin = e.pin /\ x.subagent = e.subagent
      /\ x.subagents = e.subagents /\ x.default = e.default /\ x.strip = e.strip
  BY <1>1 DEF Entries
<1>4. EntryValid(x)
  BY <1>3 DEF EntryValid, SubagentValid, PinsValid, AliasesValid, NativePolicyValid, NativeFallbackValid, PickerValid,
         Shape, usesAliases, NativeDisabled
<1> QED
  BY <1>1, <1>2, <1>4 DEF Resolved

\* The invariant holds before the first request.
LEMMA RouteStarts == RouteInit => RouteInv
BY EntryKinds, RouteBounds DEF RouteInit, RouteInv, RouteTypes, CallFits, DiscoveryCurrent, NoDiscovery

\* Every step keeps it.
LEMMA RouteMoves ==
    ASSUME RouteInv, [RouteNext]_routeVars
    PROVE  RouteInv'
<1>0. RouteTypes /\ EntryValid(live) /\ DiscoveryCurrent /\ CallFits
  BY DEF RouteInv
<1>1. CASE EditEntry
  <2>1. file' \in Entries
    BY <1>0, <1>1, EditedKinds DEF EditEntry, RouteTypes
  <2>2. routeEdits' \in 0..MaxRouteEdits
    <3>1. routeEdits \in 0..MaxRouteEdits /\ routeEdits < MaxRouteEdits /\ routeEdits' = routeEdits + 1
      BY <1>0, <1>1 DEF EditEntry, RouteTypes
    <3> QED
      BY <3>1, RouteBounds
  <2> QED
    BY <1>0, <1>1, <2>1, <2>2 DEF EditEntry, RouteInv, RouteTypes, DiscoveryCurrent, CallFits
<1>2. CASE ReloadEntry
  <2>1. live' \in Entries /\ EntryValid(live')
    BY <1>0, <1>2, ResolvedKinds DEF ReloadEntry, RouteTypes
  <2> QED
    BY <1>0, <1>2, <2>1 DEF ReloadEntry, RouteInv, RouteTypes, DiscoveryCurrent, CallFits, NoDiscovery, NoCallOpen
<1>3. CASE ListModels
  <2>1. lists' \in 0..MaxDiscoveries
    <3>1. lists \in 0..MaxDiscoveries /\ lists < MaxDiscoveries /\ lists' = lists + 1
      BY <1>0, <1>3 DEF ListModels, RouteTypes
    <3> QED
      BY <3>1, RouteBounds
  <2> QED
    BY <1>0, <1>3, <2>1 DEF ListModels, RouteInv, RouteTypes, DiscoveryCurrent, CallFits
<1>4. CASE ListServed
  <2>1. discovery'.of \in {"nothing", "a list"} /\ (discovery'.of = "a list" => discovery'.revision = Revision(live))
    BY <1>0, <1>4 DEF ListServed, RouteTypes, DiscoveryCurrent, Recorded
  <2> QED
    BY <1>0, <1>4, <2>1, EntryKinds DEF ListServed, RouteInv, RouteTypes, DiscoveryCurrent, CallFits
<1>5. CASE Request
  <2>1. PICK r : call' = [of |-> r, known |-> families, became |-> Attempts(live, r, families)]
    BY <1>5 DEF Request
  <2>2. call'.of = r /\ call'.became = Attempts(live, r, families)
    BY <2>1
  <2>3. OutcomeFits(live, call'.of, call'.became)
    BY <1>0, <2>2, AttemptsFit DEF RouteTypes
  <2> QED
    BY <1>0, <1>5, <2>3 DEF Request, RouteInv, RouteTypes, DiscoveryCurrent, CallFits
<1>6. CASE Answered
  BY <1>0, <1>6 DEF Answered, RouteInv, RouteTypes, DiscoveryCurrent, CallFits
<1>7. CASE UNCHANGED routeVars
  BY <1>0, <1>7 DEF routeVars, RouteInv, RouteTypes, DiscoveryCurrent, CallFits
<1> QED
  BY <1>1, <1>2, <1>3, <1>4, <1>5, <1>6, <1>7 DEF RouteNext

\* What became of a request is as the properties say.
LEMMA RouteInvSound == RouteInv => RouteTypeOK /\ RouteSound
<1> SUFFICES ASSUME RouteInv PROVE RouteTypeOK /\ RouteSound
  OBVIOUS
<1>d. /\ DOMAIN <<>> = {} /\ Len(<<>>) = 0 /\ Len(<<>>) <= 2 /\ Len(<<>>) # 2
      /\ \A a : /\ DOMAIN <<a>> = {1} /\ <<a>>[1] = a /\ Len(<<a>>) <= 2 /\ Len(<<a>>) # 0 /\ Len(<<a>>) # 2
               /\ <<a>> # <<>>
  <2>1. 1..1 = {1}
    OBVIOUS
  <2> QED
    BY <2>1
<1>a. /\ \A why : Refused(why).attempts = <<>> /\ Refused(why).error = why
      /\ \A q : Served(q).attempts = q /\ Served(q).error = ""
  BY DEF Refused, Served
<1>b. NoCall.became = Refused("")
  BY DEF NoCall
<1>c. RouteTypes /\ DiscoveryCurrent /\ CallFits
  BY DEF RouteInv
<1>1. ASSUME NEW why, call.became = Refused(why), why # "" \/ call = NoCall, globalRoutingOff(live) => why # "login"
      PROVE  RouteTypeOK /\ RouteSound
  <2>1. Tries = <<>> /\ call.became.attempts = <<>> /\ call.became.error = why
    BY <1>1, <1>a DEF Tries
  <2>2. /\ DOMAIN Tries = {} /\ Len(Tries) # 2 /\ DOMAIN call.became.attempts = {}
        /\ Len(call.became.attempts) = 0 /\ Len(call.became.attempts) <= 2
    BY <1>d, <2>1, Zenon
  <2>3. RouteTypeOK
    <3>1. Len(call.became.attempts) <= 2 /\ (Len(call.became.attempts) = 0 <=> call.became.error # "" \/ call = NoCall)
      BY <1>1, <2>1, <2>2, Zenon
    <3> QED
      BY <1>c, <2>2, <3>1 DEF RouteTypes, RouteTypeOK
  <2>4. NativeSeesNative /\ OldPickKept /\ OffMeansOff
    BY <1>1, <2>1, <2>2 DEF NativeSeesNative, OldPickKept, OffMeansOff
  <2>5. ChoiceKept /\ TwoProviders /\ StatusTrue
    BY <2>1, <2>2 DEF ChoiceKept, TwoProviders, StatusTrue
  <2> QED
    BY <1>c, <2>3, <2>4, <2>5 DEF RouteSound
<1>2. ASSUME NEW a, call.became = Served(<<a>>), AttemptFits(live, call.of, a), FirstFits(live, call.of, a)
      PROVE  RouteTypeOK /\ RouteSound
  <2>1. Tries = <<a>> /\ call.became.attempts = <<a>> /\ call.became.error = ""
    BY <1>2, <1>a DEF Tries
  <2>2. /\ DOMAIN Tries = {1} /\ Len(Tries) # 2 /\ Tries[1] = a /\ call.became.attempts # <<>>
        /\ Len(call.became.attempts) # 0 /\ Len(call.became.attempts) <= 2
    BY <1>d, <2>1, Zenon
  <2>3. call # NoCall
    BY <1>a, <1>b, <2>2
  <2>4. RouteTypeOK
    <3>1. Len(call.became.attempts) <= 2 /\ (Len(call.became.attempts) = 0 <=> call.became.error # "" \/ call = NoCall)
      BY <2>1, <2>2, <2>3, Zenon
    <3>2. \A i \in DOMAIN call.became.attempts : call.became.attempts[i].route \in ProviderRoutes
      BY <1>2, <2>2 DEF Tries, AttemptFits
    <3> QED
      BY <1>c, <3>1, <3>2 DEF RouteTypes, RouteTypeOK, ProviderRoutes
  <2>5. NativeSeesNative /\ OldPickKept /\ OffMeansOff
    BY <1>2, <2>1, <2>2 DEF Asked, NativeSeesNative, OldPickKept, OffMeansOff, AttemptFits, FirstFits, FallbackFits, NativeModel
  <2>6. ChoiceKept /\ TwoProviders /\ StatusTrue
    BY <1>2, <2>1, <2>2 DEF Asked, ChoiceKept, TwoProviders, StatusTrue, FirstFits, IsChoice
  <2> QED
    BY <1>c, <2>4, <2>5, <2>6 DEF RouteSound
<1>3. ASSUME NEW a, NEW f, call.became = Served(<<a, f>>),
             AttemptFits(live, call.of, a), FirstFits(live, call.of, a),
             AttemptFits(live, call.of, f), FallbackFits(live, call.of, f), a.route # f.route,
             IsChoice(live, call.of) => f.only = "status"
      PROVE  RouteTypeOK /\ RouteSound
  <2>1. Tries = <<a, f>> /\ call.became.attempts = <<a, f>> /\ call.became.error = ""
    BY <1>3, <1>a DEF Tries
  <2>2. /\ DOMAIN Tries = {1, 2} /\ Tries[1] = a /\ Tries[2] = f /\ call.became.attempts # <<>>
        /\ Len(call.became.attempts) # 0 /\ Len(call.became.attempts) <= 2
    <3>1. /\ DOMAIN <<a, f>> = {1, 2} /\ <<a, f>>[1] = a /\ <<a, f>>[2] = f
          /\ Len(<<a, f>>) <= 2 /\ Len(<<a, f>>) # 0 /\ <<a, f>> # <<>>
      <4>1. 1..2 = {1, 2}
        OBVIOUS
      <4> QED
        BY <4>1
    <3> QED
      BY <2>1, <3>1, Zenon
  <2>3. call # NoCall
    BY <1>a, <1>b, <2>2
  <2>4. RouteTypeOK
    <3>1. Len(call.became.attempts) <= 2 /\ (Len(call.became.attempts) = 0 <=> call.became.error # "" \/ call = NoCall)
      BY <2>1, <2>2, <2>3, Zenon
    <3>2. \A i \in DOMAIN call.became.attempts : call.became.attempts[i].route \in ProviderRoutes
      BY <1>3, <2>2 DEF Tries, AttemptFits
    <3> QED
      BY <1>c, <3>1, <3>2 DEF RouteTypes, RouteTypeOK, ProviderRoutes
  <2>5. NativeSeesNative /\ OldPickKept /\ OffMeansOff
    BY <1>3, <2>1, <2>2 DEF Asked, NativeSeesNative, OldPickKept, OffMeansOff, AttemptFits, FirstFits, FallbackFits, NativeModel
  <2>6. ChoiceKept /\ TwoProviders /\ StatusTrue
    BY <1>3, <2>1, <2>2 DEF Asked, ChoiceKept, TwoProviders, StatusTrue, FirstFits, IsChoice
  <2> QED
    BY <1>c, <2>4, <2>5, <2>6 DEF RouteSound
<1>4. CASE call = NoCall
  <2>1. call.became = Refused("")
    BY <1>4, <1>b
  <2> QED
    BY <1>1, <1>4, <2>1
<1>5. CASE OutcomeFits(live, call.of, call.became)
  <2>1. CASE \E why : call.became = Refused(why) /\ why # "" /\ (globalRoutingOff(live) => why # "login")
    BY <1>1, <2>1
  <2>2. CASE \E a : call.became = Served(<<a>>) /\ AttemptFits(live, call.of, a) /\ FirstFits(live, call.of, a)
    BY <1>2, <2>2
  <2>3. CASE \E a, f : /\ call.became = Served(<<a, f>>) /\ AttemptFits(live, call.of, a) /\ FirstFits(live, call.of, a)
                       /\ AttemptFits(live, call.of, f) /\ FallbackFits(live, call.of, f) /\ a.route # f.route
                       /\ IsChoice(live, call.of) => f.only = "status"
    BY <1>3, <2>3
  <2> QED
    BY <1>5, <2>1, <2>2, <2>3 DEF OutcomeFits
<1> QED
  BY <1>c, <1>4, <1>5 DEF CallFits

\* Whatever the entry is edited to, a request is resolved as the user chose and the status says.
THEOREM RouteSoundThm == RouteSpec => [](RouteTypeOK /\ RouteSound)
BY RouteStarts, RouteMoves, RouteInvSound, PTL DEF RouteSpec


---------------------------------------------------------------------------
(* CodexOverlay.                                                            *)

CodexSteps == {"idle", "load", "stage", "write", "refresh", "client", "remove", "restore", "drop"}
CodexCommands == [op : {"none", "on"} \cup Offs, at : CodexSteps, raw : Overlays, save : CodexBackups,
                  staged : BOOLEAN, retain : CodexBackups, alone : BOOLEAN]
CodexPastType(past) ==
    /\ DOMAIN past = {"mine", "first", "quiet", "ended", "runs", "edits", "faults"}
    /\ past.edits \in 0..MaxCodexEdits /\ past.mine \in Overlays /\ past.quiet \in BOOLEAN
    /\ past.first \in [known : BOOLEAN, was : Overlays]
CodexTypes ==
    /\ overlay \in Overlays /\ overlayBackup \in CodexBackups /\ doorPort \in 1..2 /\ told \subseteq Overlays
    /\ client \in [enabled : BOOLEAN, token : BOOLEAN]
    /\ codex \in [CodexCallers -> CodexCommands] /\ CodexPastType(overlayPast)

LeadsTo(o, port) == o.by = "switch" /\ o.port = port

\* A command that has the files to itself sees them as they are.
AloneSees(x, o, port) ==
    /\ x.at \in {"load", "stage", "write", "remove", "restore"} => x.raw = o
    /\ x.op \in Offs /\ x.at = "restore" => ~LeadsTo(x.save.content, port)
    /\ x.op \in Offs /\ x.at = "drop" => ~LeadsTo(o, port)
AloneHolds ==
    \A c \in CodexCallers : codex[c].op # "none" /\ codex[c].alone =>
        AloneSees(codex[c], overlay, doorPort) /\ \A d \in CodexCallers : d # c => codex[d].op = "none"
EndedAlone ==
    overlayPast.ended.op \in Offs /\ overlayPast.ended.rc = 0 /\ overlayPast.ended.alone
        => Still /\ ~LeadsTo(overlay, doorPort)
CodexInv == CodexTypes /\ AloneHolds /\ EndedAlone

\* What follows holds for one caller.  What the first on found is back, or told.
GivenBack(o) == o = overlayPast.first.was \/ (o = NoOverlay /\ overlayPast.first.was \in told)

\* A backup has a hash of what it keeps or of what on writes.
HashOf(b) ==
    /\ b.state # "kept" => b.content = NoOverlay
    /\ b.state = "kept" => b.hash = b.content \/ (b.hash.by = "switch" /\ b.hash.port # 0)

\* Before the first on nothing leads here and nothing is kept.
BeforeOn == ~overlayPast.first.known => overlay.port = 0 /\ overlayBackup.state = "none" /\ ~overlayPast.quiet

WhileQuiet ==
    overlayPast.quiet =>
        /\ overlayPast.first.was.port = 0
        /\ overlay = desiredOverlay => overlayBackup.state # "none"
        /\ overlay = desiredOverlay \/ GivenBack(overlay)
        /\ overlayBackup.state = "kept" =>
               GivenBack(overlayBackup.content) /\ overlayBackup.hash \in {overlayBackup.content, desiredOverlay}

OnKnows(x) ==
    /\ x.at \in {"load", "stage", "write", "refresh", "client"} /\ overlayPast.first.known
    /\ x.at \in {"stage", "write"} => x.raw.by # "user"
    /\ x.at = "stage" => overlayBackup.state = "none" /\ x.save = BackupOf(x.raw, x.raw)
    /\ x.at \in {"write", "refresh"} => overlayBackup = x.save
    /\ x.at \in {"stage", "write"} /\ x.staged => x.save.state = "kept" /\ x.save.content = x.raw
    /\ x.at = "stage" => x.staged
    /\ x.at = "write" =>
           /\ UserMade(x.raw) => x.raw \in told \/ (x.save.state = "kept" /\ x.save.content = x.raw)
           /\ overlayPast.quiet => x.save.state = "kept"
    /\ x.at = "refresh" => x.save.state = "kept"

OffKnows(x) ==
    /\ x.at \in {"load", "remove", "restore", "drop"}
    /\ x.at # "load" => overlayPast.first.known
    /\ x.at # "load" /\ x.staged => overlayBackup = x.save /\ x.save.state = "kept"
    /\ x.at \in {"restore", "drop"} => x.staged
    /\ x.at = "remove" =>
           /\ x.raw # NoOverlay /\ ~UserMade(x.raw)
           /\ ~x.staged => overlayBackup.state = "none" /\ ~overlayPast.quiet
           /\ x.staged /\ x.raw = x.save.hash => x.save.content = NoOverlay
    /\ x.at = "restore" => x.raw = x.save.hash /\ x.save.content # NoOverlay
    /\ x.at = "drop" =>
           /\ UserMade(x.save.content) => overlay = x.save.content \/ x.save.content \in told
           /\ overlayPast.quiet => GivenBack(overlay)

OneHolds ==
    /\ HashOf(overlayBackup) /\ BeforeOn /\ OverlayKept /\ OffRestores /\ WhileQuiet
    /\ \A c \in CodexCallers : codex[c].op # "none" =>
           /\ codex[c].alone /\ overlayPast.ended.op = "none"
           /\ codex[c].op = "on" => OnKnows(codex[c])
           /\ codex[c].op \in Offs => OffKnows(codex[c])

OneInv == CodexInv /\ OneHolds

\* What on writes, and what it reads as.
LEMMA OverlayKinds ==
    /\ \A o : overlayManaged(o) <=> LeadsTo(o, doorPort)
    /\ NoOverlay \in Overlays /\ NoOverlay.by = "none" /\ NoOverlay.port = 0
    /\ doorPort \in 1..2 => /\ desiredOverlay \in Overlays /\ LeadsTo(desiredOverlay, doorPort)
                            /\ ~UserMade(desiredOverlay) /\ desiredOverlay # NoOverlay
    /\ NoCodexBackup \in CodexBackups /\ TornBackup \in CodexBackups
    /\ NoCodexBackup.state = "none" /\ NoCodexBackup.content = NoOverlay
    /\ TornBackup.state = "torn" /\ TornBackup.content = NoOverlay
    /\ \A o, h \in Overlays : BackupOf(o, h) \in CodexBackups
    /\ \A o, h : BackupOf(o, h).state = "kept" /\ BackupOf(o, h).content = o /\ BackupOf(o, h).hash = h
<1>1. 0 \in 0..MaxCodexEdits
  BY CodexBounds
<1>2. NoOverlay \in Overlays /\ NoOverlay.by = "none" /\ NoOverlay.port = 0
  BY <1>1 DEF NoOverlay, Overlays
<1>3. /\ NoCodexBackup \in CodexBackups /\ NoCodexBackup.state = "none" /\ NoCodexBackup.content = NoOverlay
  BY <1>2 DEF NoCodexBackup, CodexBackups
<1>4. /\ TornBackup \in CodexBackups /\ TornBackup.state = "torn" /\ TornBackup.content = NoOverlay
  BY <1>3 DEF TornBackup, CodexBackups
<1>5. doorPort \in 1..2 => /\ desiredOverlay \in Overlays /\ LeadsTo(desiredOverlay, doorPort)
                           /\ ~UserMade(desiredOverlay) /\ desiredOverlay # NoOverlay
  BY <1>1 DEF desiredOverlay, Overlays, LeadsTo, UserMade, NoOverlay
<1>6. /\ \A o, h \in Overlays : BackupOf(o, h) \in CodexBackups
      /\ \A o, h : BackupOf(o, h).state = "kept" /\ BackupOf(o, h).content = o /\ BackupOf(o, h).hash = h
  BY DEF BackupOf, CodexBackups
<1> QED
  BY <1>2, <1>3, <1>4, <1>5, <1>6 DEF overlayManaged, codexOursShaped, LeadsTo

\* An idle command.
LEMMA IdleIs == CodexIdle \in CodexCommands /\ CodexIdle.op = "none" /\ CodexIdle.alone = FALSE
BY OverlayKinds DEF CodexIdle, CodexCommands, CodexSteps

\* What it is to go on with a command, ...
LEMMA StepFacts ==
    ASSUME CodexTypes, NEW c \in CodexCallers, NEW at \in CodexSteps, CodexStep(c, at)
    PROVE  /\ codex' \in [CodexCallers -> CodexCommands] /\ \A d \in CodexCallers : d # c => codex'[d] = codex[d]
           /\ codex'[c].op = codex[c].op /\ codex'[c].at = at /\ codex'[c].raw = codex[c].raw
           /\ codex'[c].save = codex[c].save /\ codex'[c].staged = codex[c].staged
           /\ codex'[c].retain = codex[c].retain /\ codex'[c].alone = codex[c].alone
<1>1. codex[c] \in CodexCommands /\ codex'[c] = [codex[c] EXCEPT !.at = at]
      /\ codex' = [codex EXCEPT ![c] = codex'[c]]
  BY DEF CodexTypes, CodexStep
<1>2. codex'[c] \in CodexCommands
  BY <1>1 DEF CodexCommands
<1> QED
  BY <1>1, <1>2 DEF CodexTypes, CodexCommands

\* ... to go on with what it has decided, ...
CodexDecides(c, at, save, staged) ==
    codex' = [codex EXCEPT ![c].at = at, ![c].save = save, ![c].staged = staged]
\* A decision moves one command on and leaves what it was called with.
LEMMA DecideFacts ==
    ASSUME CodexTypes, NEW c \in CodexCallers, NEW at \in CodexSteps, NEW save \in CodexBackups, NEW staged \in BOOLEAN,
           CodexDecides(c, at, save, staged)
    PROVE  /\ codex' \in [CodexCallers -> CodexCommands] /\ \A d \in CodexCallers : d # c => codex'[d] = codex[d]
           /\ codex'[c].op = codex[c].op /\ codex'[c].at = at /\ codex'[c].raw = codex[c].raw
           /\ codex'[c].save = save /\ codex'[c].staged = staged
           /\ codex'[c].retain = codex[c].retain /\ codex'[c].alone = codex[c].alone
<1>1. codex[c] \in CodexCommands /\ codex'[c] = [codex[c] EXCEPT !.at = at, !.save = save, !.staged = staged]
      /\ codex' = [codex EXCEPT ![c] = codex'[c]]
  BY DEF CodexTypes, CodexDecides
<1>2. codex'[c] \in CodexCommands
  <2> DEFINE first  == [codex[c] EXCEPT !.at = at]
             second == [first EXCEPT !.save = save]
             third  == [second EXCEPT !.staged = staged]
  <2>1. first \in CodexCommands
    BY <1>1 DEF CodexCommands
  <2> HIDE DEF first
  <2>2. second \in CodexCommands
    BY <2>1 DEF CodexCommands
  <2> HIDE DEF second
  <2>3. third \in CodexCommands
    BY <2>2 DEF CodexCommands
  <2> QED
    BY <1>1, <2>3 DEF first, second
<1> QED
  BY <1>1, <1>2 DEF CodexTypes, CodexCommands

\* ... to be through with it, ...
LEMMA GoneFacts ==
    ASSUME CodexTypes, NEW c \in CodexCallers, codex' = [codex EXCEPT ![c] = CodexIdle]
    PROVE  /\ codex' \in [CodexCallers -> CodexCommands] /\ \A d \in CodexCallers : d # c => codex'[d] = codex[d]
           /\ codex'[c] = CodexIdle
BY IdleIs DEF CodexTypes

\* ... to end it, ...
LEMMA EndFacts ==
    ASSUME CodexTypes, NEW c \in CodexCallers, NEW rc, CodexEnd(c, rc)
    PROVE  /\ codex' \in [CodexCallers -> CodexCommands] /\ \A d \in CodexCallers : d # c => codex'[d] = codex[d]
           /\ codex'[c] = CodexIdle /\ CodexPastType(overlayPast')
           /\ overlayPast'.ended.op = codex[c].op /\ overlayPast'.ended.rc = rc /\ overlayPast'.ended.alone = codex[c].alone
           /\ overlayPast'.mine = overlayPast.mine /\ overlayPast'.first = overlayPast.first
           /\ overlayPast'.quiet = overlayPast.quiet
BY GoneFacts DEF CodexEnd, CodexTypes, CodexPastType

\* ... and to fail in it.
LEMMA FaultFacts ==
    ASSUME CodexTypes, CodexFault
    PROVE  /\ CodexPastType(overlayPast') /\ overlayPast'.ended = overlayPast.ended /\ overlayPast'.mine = overlayPast.mine
           /\ overlayPast'.first = overlayPast.first /\ overlayPast'.quiet = FALSE
BY DEF CodexFault, CodexTypes, CodexPastType

\* A caller in a command has it to itself, or knows nothing; what it does then concerns nobody else.
LEMMA CallerMoves ==
    ASSUME CodexInv, CodexTypes', NEW c \in CodexCallers, codex[c].op # "none",
           \A d \in CodexCallers : d # c => codex'[d] = codex[d],
           codex'[c].op # "none" /\ codex'[c].alone => codex[c].alone /\ AloneSees(codex'[c], overlay', doorPort'),
           \/ overlayPast'.ended = overlayPast.ended
           \/ /\ codex'[c].op = "none" /\ overlayPast'.ended.alone = codex[c].alone
              /\ overlayPast'.ended.op \in Offs /\ overlayPast'.ended.rc = 0 /\ overlayPast'.ended.alone
                     => ~LeadsTo(overlay', doorPort')
    PROVE  CodexInv'
<1>1. AloneHolds'
  BY DEF CodexInv, AloneHolds
<1>2. EndedAlone'
  <2>1. CASE overlayPast'.ended = overlayPast.ended
    BY <2>1 DEF CodexInv, EndedAlone, Still
  <2>2. CASE overlayPast'.ended # overlayPast.ended
    BY <2>2 DEF CodexInv, AloneHolds, EndedAlone, Still
  <2> QED
    BY <2>1, <2>2
<1> QED
  BY <1>1, <1>2 DEF CodexInv

\* It begins so, ...
LEMMA CodexStarts == CodexInit => OneInv
<1> SUFFICES ASSUME CodexInit PROVE OneInv
  OBVIOUS
<1>1. overlay \in Overlays /\ overlay.port = 0 /\ overlayBackup = NoCodexBackup
  <2>1. 0 \in 0..MaxCodexEdits
    BY CodexBounds
  <2> QED
    BY <2>1 DEF CodexInit, Overlays, NoOverlay
<1>2. /\ overlayPast.ended.op = "none" /\ overlayPast.first.known = FALSE /\ overlayPast.mine = overlay
      /\ overlayPast.quiet = FALSE /\ CodexPastType(overlayPast)
  BY <1>1, OverlayKinds, CodexBounds DEF CodexInit, CodexPastType, NothingEnded
<1>3. \A c \in CodexCallers : codex[c] = CodexIdle
  BY DEF CodexInit
<1>4. CodexInv
  <2>1. CodexTypes
    BY <1>1, <1>2, IdleIs, OverlayKinds DEF CodexInit, CodexTypes
  <2> QED
    BY <1>2, <1>3, <2>1, IdleIs DEF CodexInv, AloneHolds, EndedAlone, Offs
<1>5. OneHolds
  BY <1>1, <1>2, <1>3, IdleIs, OverlayKinds DEF OneHolds, HashOf, BeforeOn, OverlayKept, Held, OffRestores, WhileQuiet, Offs
<1> QED
  BY <1>4, <1>5 DEF OneInv

---------------------------------------------------------------------------

\* One process runs the commands.
OneCaller == \A c, d \in CodexCallers : c = d

\* What has to be shown of a step of a caller, beside what it leaves alone.
LEMMA OneMoves ==
    ASSUME OneCaller, CodexInv', NEW c \in CodexCallers,
           HashOf(overlayBackup'), BeforeOn', OverlayKept', OffRestores', WhileQuiet',
           codex'[c].op # "none" => /\ codex'[c].alone /\ overlayPast'.ended.op = "none"
                                    /\ codex'[c].op = "on" => OnKnows(codex[c])'
                                    /\ codex'[c].op \in Offs => OffKnows(codex[c])'
    PROVE  OneInv'
BY DEF OneCaller, OneInv, OneHolds

\* A command begins, whoever begins it: ...
LEMMA ReadKeeps ==
    ASSUME CodexInv, NEW c \in CodexCallers, NEW op \in {"on"} \cup Offs, ReadOverlay(c, op)
    PROVE  CodexInv'
<1> DEFINE x == [CodexIdle EXCEPT !.op = op, !.at = "load", !.raw = overlay, !.alone = Still,
                                  !.retain = IF op = "uninstall" THEN overlayBackup ELSE NoCodexBackup]
<1>1. /\ codex' = [d \in CodexCallers |-> IF d = c THEN x ELSE [codex[d] EXCEPT !.alone = FALSE]]
      /\ UNCHANGED <<overlay, overlayBackup, doorPort, client, told>> /\ CodexTypes
  BY DEF ReadOverlay, CodexInv
<1>2. x \in CodexCommands /\ x.op = op /\ x.at = "load" /\ x.raw = overlay /\ x.alone = Still
  <2>1. Still \in BOOLEAN /\ (IF op = "uninstall" THEN overlayBackup ELSE NoCodexBackup) \in CodexBackups
    BY <1>1, OverlayKinds DEF Still, CodexTypes
  <2>2. overlay \in Overlays
    BY <1>1 DEF CodexTypes
  <2> QED
    BY <2>1, <2>2, IdleIs DEF CodexCommands, CodexSteps
<1> HIDE DEF x
<1>3. \A d \in CodexCallers : d # c => codex'[d] \in CodexCommands /\ codex'[d].alone = FALSE /\ codex'[d].op = codex[d].op
  BY <1>1 DEF CodexTypes, CodexCommands
<1>4. codex'[c] = x
  BY <1>1
<1>5. CodexPastType(overlayPast') /\ overlayPast'.ended.op = "none"
  BY <1>1 DEF ReadOverlay, CodexTypes, CodexPastType, NothingEnded
<1>6. CodexTypes'
  BY <1>1, <1>2, <1>3, <1>4, <1>5 DEF CodexTypes
<1>7. AloneHolds'
  BY <1>1, <1>2, <1>3, <1>4 DEF AloneHolds, AloneSees, Still
<1> QED
  BY <1>5, <1>6, <1>7 DEF CodexInv, EndedAlone, Offs

\* ... to read what was there.
LEMMA ReadKnows ==
    ASSUME OneCaller, OneInv, NEW c \in CodexCallers, NEW op \in {"on"} \cup Offs, ReadOverlay(c, op)
    PROVE  OneInv'
<1>1. CodexInv' /\ CodexTypes /\ OneHolds /\ codex[c].op = "none"
  BY ReadKeeps DEF OneInv, CodexInv, ReadOverlay
<1>2. UNCHANGED <<overlay, overlayBackup, doorPort, client, told>>
  BY DEF ReadOverlay
<1>3. codex'[c].op = op /\ codex'[c].at = "load" /\ codex'[c].alone /\ codex'[c].raw = overlay
  BY <1>1, IdleIs DEF ReadOverlay, Still, OneCaller, CodexCommands
<1>4. /\ overlayPast'.mine = overlayPast.mine /\ overlayPast'.ended.op = "none"
      /\ op = "on" => overlayPast'.first.known
      /\ op # "on" => overlayPast'.first = overlayPast.first /\ overlayPast'.quiet = overlayPast.quiet
      /\ overlayPast.first.known => overlayPast'.first = overlayPast.first /\ overlayPast'.quiet = overlayPast.quiet
      /\ op = "on" /\ ~overlayPast.first.known => overlayPast'.first.was = overlay
  BY <1>1 DEF ReadOverlay, CodexTypes, CodexPastType, NothingEnded
<1>5. BeforeOn' /\ OverlayKept' /\ OffRestores' /\ HashOf(overlayBackup')
  BY <1>1, <1>2, <1>4 DEF OneHolds, BeforeOn, OverlayKept, OffRestores, Held, Offs
<1>6. WhileQuiet'
  <2>1. CASE overlayPast.first.known \/ op # "on"
    BY <1>1, <1>2, <1>4, <2>1 DEF OneHolds, WhileQuiet, GivenBack, desiredOverlay
  <2>2. CASE ~overlayPast.first.known /\ op = "on"
    <3>1. overlay.port = 0 /\ overlayBackup'.state = "none" /\ overlayPast'.first.was = overlay
      BY <1>1, <1>2, <1>4, <2>2 DEF OneHolds, BeforeOn
    <3>2. overlay' # desiredOverlay' /\ overlay' = overlay
      BY <1>1, <1>2, <3>1 DEF desiredOverlay, CodexTypes
    <3> QED
      BY <3>1, <3>2 DEF WhileQuiet, GivenBack
  <2> QED
    BY <2>1, <2>2
<1> QED
  BY <1>1, <1>3, <1>4, <1>5, <1>6, OneMoves DEF OnKnows, OffKnows, Offs

\* What a command that has the files to itself knows.
LEMMA OneKnows ==
    ASSUME CodexInv, OneHolds, NEW c \in CodexCallers, codex[c].op # "none"
    PROVE  /\ codex[c].alone /\ overlayPast.ended.op = "none" /\ AloneSees(codex[c], overlay, doorPort)
           /\ codex[c].op = "on" => OnKnows(codex[c])
           /\ codex[c].op \in Offs => OffKnows(codex[c])
BY DEF CodexInv, OneHolds, AloneHolds

\* on decides: to refuse, ...
LEMMA OnRefuses ==
    ASSUME CodexInv, NEW c \in CodexCallers, CodexAt(c, {"on"}, "load"), CodexEnd(c, 1),
           UNCHANGED <<overlay, overlayBackup, doorPort, client, told>>
    PROVE  CodexInv' /\ (OneCaller /\ OneHolds => OneInv')
<1>1. CodexTypes /\ codex[c].op = "on"
  BY DEF CodexInv, CodexAt
<1>2. /\ codex' \in [CodexCallers -> CodexCommands] /\ \A d \in CodexCallers : d # c => codex'[d] = codex[d]
      /\ codex'[c] = CodexIdle /\ CodexPastType(overlayPast')
      /\ overlayPast'.ended.op = "on" /\ overlayPast'.ended.rc = 1 /\ overlayPast'.ended.alone = codex[c].alone
      /\ overlayPast'.mine = overlayPast.mine /\ overlayPast'.first = overlayPast.first
      /\ overlayPast'.quiet = overlayPast.quiet
  BY <1>1, EndFacts
<1>3. CodexTypes'
  BY <1>1, <1>2 DEF CodexTypes
<1>4. CodexInv'
  BY <1>1, <1>2, <1>3, IdleIs, CallerMoves
<1>5. ASSUME OneCaller, OneHolds PROVE OneInv'
  <2>1. HashOf(overlayBackup') /\ BeforeOn' /\ OverlayKept' /\ OffRestores' /\ WhileQuiet'
    BY <1>2, <1>5 DEF OneHolds, HashOf, BeforeOn, OverlayKept, Held, OffRestores, WhileQuiet, GivenBack, desiredOverlay, Offs
  <2> QED
    BY <1>2, <1>4, <1>5, <2>1, OneMoves, IdleIs
<1> QED
  BY <1>4, <1>5

\* ... or what to do next.
LEMMA OnDecides ==
    ASSUME CodexInv, NEW c \in CodexCallers, on(c), ~(CodexEnd(c, 1) /\ told' = told)
    PROVE  CodexInv' /\ (OneCaller /\ OneHolds => OneInv')
<1> DEFINE raw   == codex[c].raw
           stage == overlayBackup.state = "none" /\ ~overlayManaged(raw)
           save  == IF stage THEN BackupOf(raw, raw) ELSE overlayBackup
           at    == IF stage THEN "stage" ELSE IF raw = desiredOverlay THEN "client" ELSE "write"
<1>1. /\ CodexTypes /\ codex[c].op = "on" /\ codex[c].at = "load" /\ raw \in Overlays
      /\ UNCHANGED <<overlay, overlayBackup, doorPort, client, overlayPast>>
      /\ raw.by # "user" /\ overlayBackup.state # "torn"
      /\ told' = IF codexOursShaped(raw) /\ ~overlayManaged(raw) /\ ~stage THEN told \cup {raw} ELSE told
  BY DEF CodexInv, CodexAt, on, refuseForeign, CodexTypes, CodexCommands
<1>2. CodexDecides(c, at, save, stage)
  BY DEF on, CodexDecides
<1>3. save \in CodexBackups /\ at \in CodexSteps /\ stage \in BOOLEAN
  BY <1>1, OverlayKinds DEF CodexTypes, CodexSteps
<1> HIDE DEF raw, stage, save, at
<1>4. /\ codex' \in [CodexCallers -> CodexCommands] /\ \A d \in CodexCallers : d # c => codex'[d] = codex[d]
      /\ codex'[c].op = "on" /\ codex'[c].at = at /\ codex'[c].raw = raw
      /\ codex'[c].save = save /\ codex'[c].staged = stage /\ codex'[c].alone = codex[c].alone
  <2>1. CodexTypes
    BY <1>1
  <2>2. /\ codex' \in [CodexCallers -> CodexCommands] /\ \A d \in CodexCallers : d # c => codex'[d] = codex[d]
        /\ codex'[c].op = codex[c].op /\ codex'[c].at = at /\ codex'[c].raw = codex[c].raw
        /\ codex'[c].save = save /\ codex'[c].staged = stage
        /\ codex'[c].retain = codex[c].retain /\ codex'[c].alone = codex[c].alone
    BY <2>1, <1>2, <1>3, DecideFacts
  <2> QED
    BY <1>1, <2>2 DEF raw
<1>5. CodexTypes'
  BY <1>1, <1>4 DEF CodexTypes
<1>6. CodexInv'
  <2>1. codex[c].alone => AloneSees(codex'[c], overlay', doorPort')
    BY <1>1, <1>4 DEF CodexInv, AloneHolds, AloneSees, raw, Offs
  <2> QED
    BY <1>1, <1>4, <1>5, <2>1, CallerMoves
<1>7. ASSUME OneCaller, OneHolds PROVE OneInv'
  <2>1. /\ codex[c].alone /\ overlayPast.ended.op = "none" /\ raw = overlay /\ overlayPast.first.known
    BY <1>1, <1>7, OneKnows DEF AloneSees, OnKnows, raw
  <2>2. BeforeOn' /\ OverlayKept' /\ OffRestores' /\ WhileQuiet' /\ HashOf(overlayBackup')
    BY <1>1, <1>7, <2>1 DEF OneHolds, BeforeOn, OverlayKept, Held, OffRestores, WhileQuiet, GivenBack, desiredOverlay, Offs
  <2>3. CASE stage
    <3>1. at = "stage" /\ save = BackupOf(raw, raw) /\ overlayBackup.state = "none"
      BY <2>3 DEF at, save, stage
    <3>2. OnKnows(codex[c])'
      BY <1>1, <1>4, <2>1, <2>3, <3>1, OverlayKinds DEF OnKnows
    <3> QED
      BY <1>4, <1>6, <1>7, <2>1, <2>2, <3>2, <1>1, OneMoves DEF Offs
  <2>4. CASE ~stage
    <3>1. at \in {"client", "write"} /\ save = overlayBackup /\ (at = "write" => raw # desiredOverlay)
      BY <2>4 DEF at, save
    <3>2. UserMade(raw) => raw \in told'
      BY <1>1, <2>4, OverlayKinds DEF UserMade, codexOursShaped, LeadsTo, CodexTypes
    <3>3. overlayPast.quiet /\ at = "write" => overlayBackup.state = "kept"
      <4> SUFFICES ASSUME overlayPast.quiet, at = "write", overlayBackup.state # "kept" PROVE FALSE
        OBVIOUS
      <4>1. overlayBackup.state = "none" /\ overlayManaged(raw)
        BY <1>1, <2>4 DEF CodexTypes, CodexBackups, stage
      <4>2. GivenBack(overlay) /\ overlayPast.first.was.port = 0
        BY <1>7, <2>1, <3>1 DEF OneHolds, WhileQuiet
      <4> QED
        BY <1>1, <2>1, <4>1, <4>2, OverlayKinds DEF GivenBack, LeadsTo, CodexTypes
    <3>4. OnKnows(codex[c])'
      BY <1>1, <1>4, <2>1, <2>4, <3>1, <3>2, <3>3 DEF OnKnows
    <3> QED
      BY <1>4, <1>6, <1>7, <2>1, <2>2, <3>4, <1>1, OneMoves DEF Offs
  <2> QED
    BY <2>3, <2>4
<1> QED
  BY <1>6, <1>7

\* The command that turns the overlay on keeps the invariant, whatever it decides.
LEMMA OnKeeps ==
    ASSUME CodexInv, NEW c \in CodexCallers, on(c)
    PROVE  CodexInv' /\ (OneCaller /\ OneHolds => OneInv')
<1>1. CASE CodexEnd(c, 1) /\ told' = told
  BY <1>1, OnRefuses DEF on
<1>2. CASE ~(CodexEnd(c, 1) /\ told' = told)
  BY <1>2, OnDecides
<1> QED
  BY <1>1, <1>2

\* The backup is written, ...
LEMMA StageKeeps ==
    ASSUME CodexInv, NEW c \in CodexCallers, saveCodexBackup(c)
    PROVE  CodexInv' /\ (OneCaller /\ OneHolds => OneInv')
<1>1. /\ CodexTypes /\ codex[c].op = "on" /\ codex[c].at = "stage" /\ "write" \in CodexSteps
      /\ UNCHANGED <<overlay, doorPort, client, told, overlayPast>> /\ overlayBackup' = codex[c].save
  BY DEF CodexInv, CodexAt, saveCodexBackup, CodexSteps
<1>2. /\ codex' \in [CodexCallers -> CodexCommands] /\ \A d \in CodexCallers : d # c => codex'[d] = codex[d]
      /\ codex'[c].op = "on" /\ codex'[c].at = "write" /\ codex'[c].raw = codex[c].raw
      /\ codex'[c].save = codex[c].save /\ codex'[c].staged = codex[c].staged /\ codex'[c].alone = codex[c].alone
  BY <1>1, StepFacts DEF saveCodexBackup
<1>3. CodexTypes'
  BY <1>1, <1>2 DEF CodexTypes, CodexCommands
<1>4. CodexInv'
  <2>1. codex[c].alone => AloneSees(codex'[c], overlay', doorPort')
    BY <1>1, <1>2 DEF CodexInv, AloneHolds, AloneSees, Offs
  <2> QED
    BY <1>1, <1>2, <1>3, <2>1, CallerMoves
<1>5. ASSUME OneCaller, OneHolds PROVE OneInv'
  <2>1. /\ codex[c].alone /\ overlayPast.ended.op = "none" /\ OnKnows(codex[c]) /\ codex[c].raw = overlay
    BY <1>1, <1>5, OneKnows DEF AloneSees
  <2>2. /\ overlayBackup.state = "none" /\ overlayBackup' = BackupOf(overlay, overlay)
        /\ overlayPast.first.known /\ codex[c].staged /\ overlay.by # "user"
        /\ overlayBackup'.state = "kept" /\ overlayBackup'.content = overlay /\ overlayBackup'.hash = overlay
    BY <1>1, <2>1, OverlayKinds DEF OnKnows
  <2>3. HashOf(overlayBackup') /\ BeforeOn' /\ OverlayKept' /\ OffRestores' /\ WhileQuiet'
    BY <1>1, <1>5, <2>1, <2>2
       DEF OneHolds, HashOf, BeforeOn, OverlayKept, Held, OffRestores, WhileQuiet, GivenBack, desiredOverlay, Offs
  <2>4. OnKnows(codex[c])'
    BY <1>1, <1>2, <2>1, <2>2 DEF OnKnows
  <2> QED
    BY <1>1, <1>2, <1>4, <1>5, <2>1, <2>3, <2>4, OneMoves DEF Offs
<1> QED
  BY <1>4, <1>5

\* ... or not; ...
LEMMA StageFailsKeeps ==
    ASSUME CodexInv, NEW c \in CodexCallers, StageFails(c)
    PROVE  CodexInv' /\ (OneCaller /\ OneHolds => OneInv')
<1>1. /\ CodexTypes /\ codex[c].op = "on" /\ CodexFault /\ codex' = [codex EXCEPT ![c] = CodexIdle]
      /\ UNCHANGED <<overlay, doorPort, client, told>> /\ overlayBackup' \in {overlayBackup, TornBackup}
  BY DEF CodexInv, CodexAt, StageFails
<1>2. /\ codex' \in [CodexCallers -> CodexCommands] /\ \A d \in CodexCallers : d # c => codex'[d] = codex[d]
      /\ codex'[c] = CodexIdle /\ CodexPastType(overlayPast')
      /\ overlayPast'.ended = overlayPast.ended /\ overlayPast'.mine = overlayPast.mine
      /\ overlayPast'.first = overlayPast.first /\ overlayPast'.quiet = FALSE
  BY <1>1, GoneFacts, FaultFacts
<1>3. CodexTypes'
  BY <1>1, <1>2, OverlayKinds DEF CodexTypes
<1>4. CodexInv'
  BY <1>1, <1>2, <1>3, IdleIs, CallerMoves
<1>5. ASSUME OneCaller, OneHolds PROVE OneInv'
  <2>1. overlayPast.ended.op = "none" /\ overlayPast.first.known
    BY <1>1, <1>5, OneKnows DEF OnKnows
  <2>2. HashOf(overlayBackup') /\ BeforeOn' /\ OverlayKept' /\ OffRestores' /\ WhileQuiet'
    BY <1>1, <1>2, <1>5, <2>1, OverlayKinds
       DEF OneHolds, HashOf, BeforeOn, OverlayKept, Held, OffRestores, WhileQuiet, Offs
  <2> QED
    BY <1>2, <1>4, <1>5, <2>2, IdleIs, OneMoves
<1> QED
  BY <1>4, <1>5

\* ... the overlay is written, ...
LEMMA WriteKeeps ==
    ASSUME CodexInv, NEW c \in CodexCallers, writeCodexOverlay(c)
    PROVE  CodexInv' /\ (OneCaller /\ OneHolds => OneInv')
<1> DEFINE at == IF codex[c].save.state = "kept" THEN "refresh" ELSE "client"
<1>1. /\ CodexTypes /\ codex[c].op = "on" /\ codex[c].at = "write" /\ at \in CodexSteps /\ at \in {"refresh", "client"}
      /\ UNCHANGED <<overlayBackup, doorPort, client, told, overlayPast>> /\ overlay' = desiredOverlay
  BY DEF CodexInv, CodexAt, writeCodexOverlay, CodexSteps
<1>2. /\ codex' \in [CodexCallers -> CodexCommands] /\ \A d \in CodexCallers : d # c => codex'[d] = codex[d]
      /\ codex'[c].op = "on" /\ codex'[c].at = at /\ codex'[c].raw = codex[c].raw
      /\ codex'[c].save = codex[c].save /\ codex'[c].staged = codex[c].staged /\ codex'[c].alone = codex[c].alone
  BY <1>1, StepFacts DEF writeCodexOverlay
<1>3. CodexTypes'
  BY <1>1, <1>2, OverlayKinds DEF CodexTypes
<1>4. CodexInv'
  <2>1. codex[c].alone => AloneSees(codex'[c], overlay', doorPort')
    BY <1>1, <1>2 DEF AloneSees, Offs
  <2> QED
    BY <1>1, <1>2, <1>3, <2>1, CallerMoves
<1>5. ASSUME OneCaller, OneHolds PROVE OneInv'
  <2>1. /\ codex[c].alone /\ overlayPast.ended.op = "none" /\ OnKnows(codex[c]) /\ codex[c].raw = overlay
    BY <1>1, <1>5, OneKnows DEF AloneSees
  <2>2. /\ overlayBackup = codex[c].save /\ overlayPast.first.known
        /\ UserMade(overlay) => overlay \in told \/ (overlayBackup.state = "kept" /\ overlayBackup.content = overlay)
        /\ overlayPast.quiet => overlayBackup.state = "kept"
    BY <1>1, <2>1 DEF OnKnows
  <2>3. OverlayKept'
    BY <1>1, <1>5, <2>2 DEF OneHolds, OverlayKept, Held, UserMade
  <2>4. WhileQuiet'
    BY <1>1, <1>5, <2>2 DEF OneHolds, WhileQuiet, GivenBack, desiredOverlay
  <2>5. HashOf(overlayBackup') /\ BeforeOn' /\ OffRestores'
    BY <1>1, <1>5, <2>1, <2>2 DEF OneHolds, HashOf, BeforeOn, OffRestores, Offs
  <2>6. OnKnows(codex[c])'
    BY <1>1, <1>2, <2>1, <2>2 DEF OnKnows
  <2> QED
    BY <1>1, <1>2, <1>4, <1>5, <2>1, <2>3, <2>4, <2>5, <2>6, OneMoves DEF Offs
<1> QED
  BY <1>4, <1>5

\* ... or not; ...
LEMMA WriteFailsKeeps ==
    ASSUME CodexInv, NEW c \in CodexCallers, WriteFails(c)
    PROVE  CodexInv' /\ (OneCaller /\ OneHolds => OneInv')
<1>1. /\ CodexTypes /\ codex[c].op = "on" /\ codex[c].at = "write"
      /\ CodexFault /\ codex' = [codex EXCEPT ![c] = CodexIdle]
      /\ UNCHANGED <<overlay, doorPort, client, told>>
      /\ overlayBackup' = IF codex[c].staged THEN NoCodexBackup ELSE overlayBackup
  BY DEF CodexInv, CodexAt, WriteFails
<1>2. /\ codex' \in [CodexCallers -> CodexCommands] /\ \A d \in CodexCallers : d # c => codex'[d] = codex[d]
      /\ codex'[c] = CodexIdle /\ CodexPastType(overlayPast')
      /\ overlayPast'.ended = overlayPast.ended /\ overlayPast'.mine = overlayPast.mine
      /\ overlayPast'.first = overlayPast.first /\ overlayPast'.quiet = FALSE
  BY <1>1, GoneFacts, FaultFacts
<1>3. CodexTypes'
  BY <1>1, <1>2, OverlayKinds DEF CodexTypes
<1>4. CodexInv'
  BY <1>1, <1>2, <1>3, IdleIs, CallerMoves
<1>5. ASSUME OneCaller, OneHolds PROVE OneInv'
  <2>1. /\ overlayPast.ended.op = "none" /\ overlayPast.first.known /\ codex[c].raw = overlay
        /\ overlayBackup = codex[c].save /\ (codex[c].staged => overlayBackup.content = overlay)
    BY <1>1, <1>5, OneKnows DEF OnKnows, AloneSees
  <2>2. OverlayKept'
    <3>1. CASE codex[c].staged
      BY <1>1, <1>2, <1>5, <2>1, <3>1, OneKnows DEF OneHolds, OverlayKept, Held, OnKnows
    <3>2. CASE ~codex[c].staged
      BY <1>1, <1>2, <1>5, <2>1, <3>2 DEF OneHolds, OverlayKept, Held
    <3> QED
      BY <3>1, <3>2
  <2>3. HashOf(overlayBackup') /\ BeforeOn' /\ OffRestores' /\ WhileQuiet'
    BY <1>1, <1>2, <1>5, <2>1, OverlayKinds
       DEF OneHolds, HashOf, BeforeOn, OffRestores, WhileQuiet, Offs
  <2> QED
    BY <1>2, <1>4, <1>5, <2>2, <2>3, IdleIs, OneMoves
<1> QED
  BY <1>4, <1>5

\* ... the hash is refreshed, ...
LEMMA RefreshKeeps ==
    ASSUME CodexInv, NEW c \in CodexCallers, refreshHash(c)
    PROVE  CodexInv' /\ (OneCaller /\ OneHolds => OneInv')
<1>1. /\ CodexTypes /\ codex[c].op = "on" /\ codex[c].at = "refresh" /\ "client" \in CodexSteps
      /\ codex[c].save.content \in Overlays
      /\ UNCHANGED <<overlay, doorPort, client, told, overlayPast>>
      /\ overlayBackup' = BackupOf(codex[c].save.content, desiredOverlay)
  BY DEF CodexInv, CodexAt, refreshHash, CodexSteps, CodexTypes, CodexCommands, CodexBackups
<1>2. /\ codex' \in [CodexCallers -> CodexCommands] /\ \A d \in CodexCallers : d # c => codex'[d] = codex[d]
      /\ codex'[c].op = "on" /\ codex'[c].at = "client" /\ codex'[c].alone = codex[c].alone
  BY <1>1, StepFacts DEF refreshHash
<1>3. CodexTypes'
  BY <1>1, <1>2, OverlayKinds DEF CodexTypes
<1>4. CodexInv'
  <2>1. codex[c].alone => AloneSees(codex'[c], overlay', doorPort')
    BY <1>1, <1>2 DEF AloneSees, Offs
  <2> QED
    BY <1>1, <1>2, <1>3, <2>1, CallerMoves
<1>5. ASSUME OneCaller, OneHolds PROVE OneInv'
  <2>1. /\ codex[c].alone /\ overlayPast.ended.op = "none" /\ overlayPast.first.known
        /\ overlayBackup = codex[c].save /\ overlayBackup.state = "kept"
    BY <1>1, <1>5, OneKnows DEF OnKnows
  <2>2. /\ overlayBackup'.state = "kept" /\ overlayBackup'.content = overlayBackup.content
        /\ overlayBackup'.hash = desiredOverlay
    BY <1>1, <2>1, OverlayKinds
  <2>3. HashOf(overlayBackup')
    BY <1>1, <2>2, OverlayKinds DEF HashOf, LeadsTo, CodexTypes
  <2>4. BeforeOn' /\ OverlayKept' /\ OffRestores'
    BY <1>1, <1>5, <2>1, <2>2 DEF OneHolds, BeforeOn, OverlayKept, Held, OffRestores, Offs
  <2>5. WhileQuiet'
    BY <1>1, <1>5, <2>1, <2>2 DEF OneHolds, WhileQuiet, GivenBack, desiredOverlay
  <2>6. OnKnows(codex[c])'
    BY <1>1, <1>2, <2>1, <2>2 DEF OnKnows
  <2> QED
    BY <1>1, <1>2, <1>4, <1>5, <2>1, <2>3, <2>4, <2>5, <2>6, OneMoves DEF Offs
<1> QED
  BY <1>4, <1>5

\* ... or not, ...
LEMMA RefreshFailsKeeps ==
    ASSUME CodexInv, NEW c \in CodexCallers, RefreshFails(c)
    PROVE  CodexInv' /\ (OneCaller /\ OneHolds => OneInv')
<1>1. /\ CodexTypes /\ codex[c].op = "on" /\ CodexFault /\ CodexStep(c, "client") /\ "client" \in CodexSteps
      /\ UNCHANGED <<overlay, doorPort, client, told>> /\ overlayBackup' \in {overlayBackup, TornBackup}
  BY DEF CodexInv, CodexAt, RefreshFails, CodexSteps
<1>2. /\ codex' \in [CodexCallers -> CodexCommands] /\ \A d \in CodexCallers : d # c => codex'[d] = codex[d]
      /\ codex'[c].op = "on" /\ codex'[c].at = "client" /\ codex'[c].alone = codex[c].alone
      /\ CodexPastType(overlayPast')
      /\ overlayPast'.ended = overlayPast.ended /\ overlayPast'.mine = overlayPast.mine
      /\ overlayPast'.first = overlayPast.first /\ overlayPast'.quiet = FALSE
  BY <1>1, StepFacts, FaultFacts
<1>3. CodexTypes'
  BY <1>1, <1>2, OverlayKinds DEF CodexTypes
<1>4. CodexInv'
  <2>1. codex[c].alone => AloneSees(codex'[c], overlay', doorPort')
    BY <1>1, <1>2 DEF AloneSees, Offs
  <2> QED
    BY <1>1, <1>2, <1>3, <2>1, CallerMoves
<1>5. ASSUME OneCaller, OneHolds PROVE OneInv'
  <2>1. codex[c].alone /\ overlayPast.ended.op = "none" /\ overlayPast.first.known
    BY <1>1, <1>5, OneKnows DEF OnKnows
  <2>2. HashOf(overlayBackup') /\ BeforeOn' /\ OverlayKept' /\ OffRestores' /\ WhileQuiet'
    BY <1>1, <1>2, <1>5, <2>1, OverlayKinds
       DEF OneHolds, HashOf, BeforeOn, OverlayKept, Held, OffRestores, WhileQuiet, Offs
  <2>3. OnKnows(codex[c])'
    BY <1>2, <2>1 DEF OnKnows
  <2> QED
    BY <1>2, <1>4, <1>5, <2>1, <2>2, <2>3, OneMoves DEF Offs
<1> QED
  BY <1>4, <1>5

\* ... and the client is enabled, or not.
LEMMA UnparkKeeps ==
    ASSUME CodexInv, NEW c \in CodexCallers, unpark(c)
    PROVE  CodexInv' /\ (OneCaller /\ OneHolds => OneInv')
<1>1. /\ CodexTypes /\ codex[c].op = "on" /\ client' \in [enabled : BOOLEAN, token : BOOLEAN]
      /\ UNCHANGED <<overlay, overlayBackup, doorPort, told>>
  <2>1. CodexTypes /\ client \in [enabled : BOOLEAN, token : BOOLEAN] /\ client.enabled \in BOOLEAN /\ client.token \in BOOLEAN
    BY DEF CodexInv, CodexTypes
  <2>2. CASE client' = client
    BY <2>1, <2>2 DEF unpark, CodexAt
  <2>3. CASE client' # client
    <3>1. PICK consent \in BOOLEAN, token \in {client.token, TRUE} :
              client' = [enabled |-> client.enabled \/ consent, token |-> token]
      BY <2>3 DEF unpark
    <3>2. (client.enabled \/ consent) \in BOOLEAN /\ token \in BOOLEAN
      BY <2>1
    <3>3. client' \in [enabled : BOOLEAN, token : BOOLEAN]
      BY <3>1, <3>2, Zenon
    <3> QED
      BY <2>1, <3>3 DEF unpark, CodexAt
  <2> QED
    BY <2>2, <2>3
<1>2. PICK rc \in 0..1 : CodexEnd(c, rc)
  BY DEF unpark
<1>3. /\ codex' \in [CodexCallers -> CodexCommands] /\ \A d \in CodexCallers : d # c => codex'[d] = codex[d]
      /\ codex'[c] = CodexIdle /\ CodexPastType(overlayPast')
      /\ overlayPast'.ended.op = "on" /\ overlayPast'.ended.alone = codex[c].alone
      /\ overlayPast'.mine = overlayPast.mine /\ overlayPast'.first = overlayPast.first
      /\ overlayPast'.quiet = overlayPast.quiet
  BY <1>1, <1>2, EndFacts
<1>4. CodexTypes'
  BY <1>1, <1>3 DEF CodexTypes
<1>5. CodexInv'
  BY <1>1, <1>3, <1>4, IdleIs, CallerMoves DEF Offs
<1>6. ASSUME OneCaller, OneHolds PROVE OneInv'
  <2>1. HashOf(overlayBackup') /\ BeforeOn' /\ OverlayKept' /\ OffRestores' /\ WhileQuiet'
    BY <1>1, <1>3, <1>6 DEF OneHolds, HashOf, BeforeOn, OverlayKept, Held, OffRestores, WhileQuiet, GivenBack, desiredOverlay, Offs
  <2> QED
    BY <1>3, <1>5, <1>6, <2>1, OneMoves, IdleIs
<1> QED
  BY <1>5, <1>6

\* off decides: ...
LEMMA OffEnds ==
    ASSUME CodexInv, NEW c \in CodexCallers, NEW rc, CodexAt(c, Offs, "load"), CodexEnd(c, rc),
           UNCHANGED <<overlay, doorPort, client, told>>,
           overlayBackup' = overlayBackup \/ overlayBackup' = NoCodexBackup,
           rc # 0 \/ ~LeadsTo(codex[c].raw, doorPort),
           overlayBackup' # overlayBackup /\ overlayBackup.state # "none" => poisonedBackup(overlayBackup)
    PROVE  CodexInv' /\ (OneCaller /\ OneHolds => OneInv')
<1>1. CodexTypes /\ codex[c].op \in Offs /\ codex[c].op # "none" /\ codex[c].at = "load"
  BY DEF CodexInv, CodexAt, Offs
<1>2. /\ codex' \in [CodexCallers -> CodexCommands] /\ \A d \in CodexCallers : d # c => codex'[d] = codex[d]
      /\ codex'[c] = CodexIdle /\ CodexPastType(overlayPast')
      /\ overlayPast'.ended.op = codex[c].op /\ overlayPast'.ended.rc = rc /\ overlayPast'.ended.alone = codex[c].alone
      /\ overlayPast'.mine = overlayPast.mine /\ overlayPast'.first = overlayPast.first
      /\ overlayPast'.quiet = overlayPast.quiet
  BY <1>1, EndFacts
<1>3. CodexTypes'
  BY <1>1, <1>2, OverlayKinds DEF CodexTypes
<1>4. CodexInv'
  <2>1. codex[c].alone => codex[c].raw = overlay
    BY <1>1 DEF CodexInv, AloneHolds, AloneSees
  <2> QED
    BY <1>1, <1>2, <1>3, <2>1, IdleIs, CallerMoves
<1>5. ASSUME OneCaller, OneHolds PROVE OneInv'
  <2>1. codex[c].raw = overlay
    BY <1>1, <1>5, OneKnows DEF AloneSees
  <2>2. /\ overlayBackup'.state = "kept" => overlayBackup' = overlayBackup
        /\ overlayBackup'.state = "torn" <=> overlayBackup.state = "torn"
        /\ overlayBackup' # overlayBackup /\ overlayBackup.state = "kept" => LeadsTo(overlayBackup.content, doorPort)
    BY <1>5, OverlayKinds DEF OneHolds, HashOf, poisonedBackup, LeadsTo
  <2>3. HashOf(overlayBackup') /\ BeforeOn'
    BY <1>1, <1>2, <1>5, <2>2, OverlayKinds DEF OneHolds, HashOf, BeforeOn
  <2>4. OverlayKept'
    BY <1>1, <1>2, <1>5, <2>2 DEF OneHolds, OverlayKept, Held, UserMade, LeadsTo, CodexTypes
  <2>5. overlayPast.quiet =>
            (overlay = desiredOverlay => overlayBackup'.state # "none") /\ (rc = 0 => GivenBack(overlay))
    <3> SUFFICES ASSUME overlayPast.quiet
                 PROVE  (overlay = desiredOverlay => overlayBackup'.state # "none") /\ (rc = 0 => GivenBack(overlay))
      OBVIOUS
    <3>1. overlayBackup.state = "kept" => overlayBackup' = overlayBackup
      BY <1>1, <1>5, <2>2, OverlayKinds DEF OneHolds, WhileQuiet, GivenBack, LeadsTo, CodexTypes
    <3>2. overlay = desiredOverlay => overlayBackup'.state # "none"
      BY <1>1, <1>5, <2>2, <3>1 DEF OneHolds, WhileQuiet, CodexTypes, CodexBackups
    <3>3. rc = 0 => overlay # desiredOverlay
      BY <1>1, <2>1, OverlayKinds DEF CodexTypes
    <3> QED
      BY <1>5, <3>2, <3>3 DEF OneHolds, WhileQuiet
  <2>6. OffRestores' /\ WhileQuiet'
    BY <1>2, <1>5, <2>2, <2>5 DEF OneHolds, OffRestores, WhileQuiet, GivenBack, desiredOverlay
  <2> QED
    BY <1>2, <1>4, <1>5, <2>3, <2>4, <2>6, IdleIs, OneMoves
<1> QED
  BY <1>4, <1>5

\* ... what to do next, with a backup of its own to consume or without, ...
LEMMA OffGoesOn ==
    ASSUME CodexInv, NEW c \in CodexCallers, NEW at \in {"remove", "restore", "drop"}, NEW b \in CodexBackups,
           CodexAt(c, Offs, "load"), CodexDecides(c, at, b, b.state = "kept"),
           UNCHANGED <<overlay, doorPort, client, overlayPast>>,
           told' = told \/ told' = told \cup {b.content},
           b.state # "torn", b.state = "kept" => overlayBackup' = overlayBackup /\ b = overlayBackup,
           b.state = "none" => /\ overlayBackup' = NoCodexBackup /\ at = "remove"
                               /\ overlayBackup.state = "none" \/ poisonedBackup(overlayBackup),
           at = "remove" => /\ codex[c].raw # NoOverlay
                            /\ \/ LeadsTo(codex[c].raw, doorPort) /\ codex[c].raw # b.hash
                               \/ LeadsTo(codex[c].raw, doorPort) /\ b.state = "none"
                               \/ b.state = "kept" /\ codex[c].raw = b.hash /\ b.content = NoOverlay,
           at = "restore" => codex[c].raw = b.hash /\ b.content # NoOverlay /\ ~LeadsTo(b.content, doorPort),
           at = "drop" => ~LeadsTo(codex[c].raw, doorPort) /\ b.content \in told'
    PROVE  CodexInv' /\ (OneCaller /\ OneHolds => OneInv')
<1>1. /\ CodexTypes /\ codex[c].op \in Offs /\ codex[c].op # "none" /\ codex[c].op # "on" /\ codex[c].at = "load"
      /\ at \in CodexSteps /\ (b.state = "kept") \in BOOLEAN
      /\ codex[c].raw \in Overlays /\ b.content \in Overlays
  BY DEF CodexInv, CodexAt, Offs, CodexSteps, CodexTypes, CodexCommands, CodexBackups
<1>2. /\ codex' \in [CodexCallers -> CodexCommands] /\ \A d \in CodexCallers : d # c => codex'[d] = codex[d]
      /\ codex'[c].op = codex[c].op /\ codex'[c].at = at /\ codex'[c].raw = codex[c].raw
      /\ codex'[c].save = b /\ codex'[c].staged = (b.state = "kept") /\ codex'[c].alone = codex[c].alone
  BY <1>1, DecideFacts
<1>3. CodexTypes'
  BY <1>1, <1>2, OverlayKinds DEF CodexTypes, CodexBackups
<1>4. CodexInv'
  <2>1. codex[c].alone => codex[c].raw = overlay
    BY <1>1 DEF CodexInv, AloneHolds, AloneSees
  <2>2. codex[c].alone => AloneSees(codex'[c], overlay', doorPort')
    BY <1>1, <1>2, <2>1 DEF AloneSees
  <2> QED
    BY <1>1, <1>2, <1>3, <2>2, CallerMoves
<1>5. ASSUME OneCaller, OneHolds PROVE OneInv'
  <2>1. codex[c].raw = overlay /\ codex[c].alone /\ overlayPast.ended.op = "none"
    BY <1>1, <1>5, OneKnows DEF AloneSees
  <2>2. /\ b.state = "kept" \/ b.state = "none"
        /\ overlayBackup.state # "torn" /\ overlayBackup'.state # "torn"
        /\ overlayBackup'.state = b.state
        /\ b.state = "none" /\ overlayBackup.state # "none" => LeadsTo(overlayBackup.content, doorPort)
    <3>1. b.state = "kept" \/ b.state = "none"
      BY DEF CodexBackups
    <3>2. overlayBackup.state = "torn" => overlayBackup.content = NoOverlay
      BY <1>5 DEF OneHolds, HashOf
    <3> QED
      BY <3>1, <3>2, OverlayKinds DEF poisonedBackup, LeadsTo
  <2>3. b.state = "none" => ~overlayPast.quiet \/ (overlayBackup.state = "none" /\ ~LeadsTo(overlay, doorPort))
    <3> SUFFICES ASSUME b.state = "none", overlayPast.quiet
                 PROVE  overlayBackup.state = "none" /\ ~LeadsTo(overlay, doorPort)
      OBVIOUS
    <3>1. overlayBackup.state = "none"
      BY <1>1, <1>5, <2>2, OverlayKinds DEF OneHolds, WhileQuiet, GivenBack, LeadsTo, CodexTypes, CodexBackups
    <3>2. GivenBack(overlay) /\ overlayPast.first.was.port = 0
      BY <1>5, <3>1 DEF OneHolds, WhileQuiet
    <3> QED
      BY <1>1, <3>1, <3>2, OverlayKinds DEF GivenBack, LeadsTo, CodexTypes
  <2>4. overlayPast.first.known
    <3>1. overlayBackup.state = "kept" => overlayPast.first.known
      BY <1>5 DEF OneHolds, BeforeOn
    <3>2. b.state = "none" => LeadsTo(overlay, doorPort)
      BY <2>1
    <3> QED
      BY <1>1, <1>5, <2>2, <3>1, <3>2 DEF OneHolds, BeforeOn, LeadsTo, CodexTypes
  <2>5. HashOf(overlayBackup') /\ BeforeOn' /\ OffRestores'
    BY <1>1, <1>5, <2>1, <2>2, <2>4, OverlayKinds DEF OneHolds, HashOf, BeforeOn, OffRestores, Offs
  <2>6. OverlayKept'
    BY <1>1, <1>5, <2>2 DEF OneHolds, OverlayKept, Held, UserMade, LeadsTo, CodexTypes
  <2>7. WhileQuiet'
    BY <1>1, <1>5, <2>1, <2>2, <2>3 DEF OneHolds, WhileQuiet, GivenBack, desiredOverlay
  <2>8. OffKnows(codex[c])'
    <3>1. at = "remove" => ~UserMade(codex[c].raw)
      BY <1>1, <1>5, <2>2, OverlayKinds DEF OneHolds, HashOf, UserMade, LeadsTo, CodexTypes
    <3>2. b.state = "none" => LeadsTo(codex[c].raw, doorPort)
      OBVIOUS
    <3>3. at = "drop" /\ overlayPast.quiet => GivenBack(overlay)'
      BY <1>1, <1>5, <2>1, OverlayKinds DEF OneHolds, WhileQuiet, GivenBack, CodexTypes
    <3> QED
      BY <1>1, <1>2, <2>1, <2>2, <2>3, <2>4, <3>1, <3>2, <3>3 DEF OffKnows
  <2> QED
    BY <1>1, <1>2, <1>4, <1>5, <2>1, <2>5, <2>6, <2>7, <2>8, OneMoves
<1> QED
  BY <1>4, <1>5

\* The command that turns it off does too.
LEMMA OffKeeps ==
    ASSUME CodexInv, NEW c \in CodexCallers, off(c)
    PROVE  CodexInv' /\ (OneCaller /\ OneHolds => OneInv')
<1> DEFINE raw  == codex[c].raw
           b    == IF poisonedBackup(overlayBackup) THEN NoCodexBackup ELSE overlayBackup
           step(at) == CodexDecides(c, at, b, b.state = "kept") /\ UNCHANGED overlayPast
<1>1. /\ CodexAt(c, Offs, "load") /\ UNCHANGED <<overlay, doorPort, client>> /\ CodexTypes /\ raw \in Overlays
  BY DEF off, CodexInv, CodexAt, Offs, CodexTypes, CodexCommands
<1>2. /\ b \in CodexBackups /\ (b.state # "none" => b = overlayBackup)
      /\ b.state = "kept" => ~LeadsTo(b.content, doorPort)
      /\ b.state = "none" => overlayBackup.state = "none" \/ poisonedBackup(overlayBackup)
  BY <1>1, OverlayKinds DEF CodexTypes, poisonedBackup
<1>3. \/ /\ b.state = "torn" /\ CodexEnd(c, 1) /\ UNCHANGED <<overlayBackup, told>>
      \/ /\ b.state = "none" /\ overlayBackup' = NoCodexBackup /\ UNCHANGED told
         /\ IF overlayManaged(raw) THEN step("remove") ELSE CodexEnd(c, 0)
      \/ /\ b.state = "kept" /\ raw = NoOverlay /\ step("drop") /\ told' = told \cup {b.content}
         /\ UNCHANGED overlayBackup
      \/ /\ b.state = "kept" /\ raw # NoOverlay /\ raw # b.hash /\ UNCHANGED overlayBackup
         /\ step(IF overlayManaged(raw) THEN "remove" ELSE "drop")
         /\ told' = IF overlayManaged(raw) THEN told ELSE told \cup {b.content}
      \/ /\ b.state = "kept" /\ raw # NoOverlay /\ raw = b.hash /\ UNCHANGED <<overlayBackup, told>>
         /\ step(IF b.content = NoOverlay THEN "remove" ELSE "restore")
  BY DEF off, CodexDecides
<1> HIDE DEF b
<1>4. CASE b.state = "torn"
  BY <1>1, <1>2, <1>3, <1>4, OffEnds
<1>5. CASE b.state = "none"
  <2>1. overlayBackup' = NoCodexBackup /\ told' = told
    BY <1>3, <1>5
  <2>2. CASE overlayManaged(raw)
    <3>1. CodexDecides(c, "remove", b, b.state = "kept") /\ UNCHANGED overlayPast
      BY <1>3, <1>5, <2>2
    <3>2. raw # NoOverlay /\ LeadsTo(raw, doorPort)
      BY <1>1, <2>2, OverlayKinds DEF LeadsTo
    <3> QED
      BY <1>1, <1>2, <1>5, <2>1, <3>1, <3>2, OffGoesOn
  <2>3. CASE ~overlayManaged(raw)
    <3>1. CodexEnd(c, 0) /\ ~LeadsTo(raw, doorPort)
      BY <1>3, <1>5, <2>3, OverlayKinds
    <3> QED
      BY <1>1, <1>2, <1>5, <2>1, <3>1, OffEnds
  <2> QED
    BY <2>2, <2>3
<1>6. CASE b.state = "kept"
  <2>1. overlayBackup' = overlayBackup /\ b = overlayBackup
    BY <1>2, <1>3, <1>6
  <2>2. CASE raw = NoOverlay
    <3>1. step("drop") /\ told' = told \cup {b.content} /\ ~LeadsTo(raw, doorPort)
      BY <1>3, <1>6, <2>2, OverlayKinds DEF LeadsTo
    <3> QED
      BY <1>1, <1>2, <1>6, <2>1, <3>1, OffGoesOn
  <2>3. CASE raw # NoOverlay /\ raw # b.hash
    <3>1. CASE overlayManaged(raw)
      <4>1. step("remove") /\ told' = told /\ LeadsTo(raw, doorPort)
        BY <1>3, <1>6, <2>3, <3>1, OverlayKinds
      <4> QED
        BY <1>1, <1>2, <1>6, <2>1, <2>3, <4>1, OffGoesOn
    <3>2. CASE ~overlayManaged(raw)
      <4>1. step("drop") /\ told' = told \cup {b.content} /\ ~LeadsTo(raw, doorPort)
        BY <1>3, <1>6, <2>3, <3>2, OverlayKinds
      <4> QED
        BY <1>1, <1>2, <1>6, <2>1, <4>1, OffGoesOn
    <3> QED
      BY <3>1, <3>2
  <2>4. CASE raw # NoOverlay /\ raw = b.hash
    <3>1. step(IF b.content = NoOverlay THEN "remove" ELSE "restore") /\ told' = told
      BY <1>3, <1>6, <2>4
    <3> QED
      BY <1>1, <1>2, <1>6, <2>1, <2>4, <3>1, OffGoesOn
  <2> QED
    BY <2>2, <2>3, <2>4
<1> QED
  BY <1>2, <1>4, <1>5, <1>6 DEF CodexBackups

\* ... to remove the overlay, ...
LEMMA RemoveKeeps ==
    ASSUME CodexInv, NEW c \in CodexCallers, removeOverlay(c)
    PROVE  CodexInv' /\ (OneCaller /\ OneHolds => OneInv')
<1> DEFINE clean == codex[c].staged /\ codex[c].raw = codex[c].save.hash
<1>1. /\ CodexTypes /\ codex[c].op \in Offs /\ codex[c].op # "none" /\ codex[c].op # "on" /\ codex[c].at = "remove"
      /\ UNCHANGED <<overlayBackup, doorPort, client>> /\ "drop" \in CodexSteps
      /\ codex[c].save.content \in Overlays /\ ~LeadsTo(NoOverlay, doorPort)
  BY OverlayKinds DEF CodexInv, CodexAt, removeOverlay, Offs, CodexSteps, CodexTypes, CodexCommands, CodexBackups, LeadsTo
<1>2. \/ overlay = NoOverlay /\ ~clean /\ CodexEnd(c, 1) /\ UNCHANGED <<overlay, told>>
      \/ /\ overlay' = NoOverlay
         /\ told' = IF codex[c].staged /\ ~clean THEN told \cup {codex[c].save.content} ELSE told
         /\ IF codex[c].staged THEN CodexStep(c, "drop") /\ UNCHANGED overlayPast ELSE CodexEnd(c, 0)
  BY DEF removeOverlay
<1>3. overlay' = NoOverlay
  BY <1>2
<1>4. ASSUME OneHolds
      PROVE  /\ codex[c].raw = overlay /\ codex[c].alone /\ overlayPast.ended.op = "none" /\ overlayPast.first.known
             /\ ~UserMade(overlay)
             /\ codex[c].staged => overlayBackup = codex[c].save /\ codex[c].save.state = "kept"
             /\ ~codex[c].staged => overlayBackup.state = "none" /\ ~overlayPast.quiet
             /\ clean => codex[c].save.content = NoOverlay
  BY <1>1, <1>4, OneKnows DEF AloneSees, OffKnows
<1> HIDE DEF clean
<1>5. ASSUME OneHolds, overlayPast'.mine = overlayPast.mine, overlayPast'.first = overlayPast.first,
             overlayPast'.quiet = overlayPast.quiet, overlayPast'.ended.op # "none" => ~overlayPast.quiet \/ overlayPast'.ended.rc # 0
      PROVE  /\ HashOf(overlayBackup') /\ BeforeOn' /\ OverlayKept' /\ OffRestores' /\ WhileQuiet'
             /\ overlayPast.quiet => GivenBack(overlay)'
             /\ codex[c].staged /\ UserMade(codex[c].save.content) /\ CodexStep(c, "drop") => codex[c].save.content \in told'
  <2>1. told \subseteq told' /\ (codex[c].staged /\ CodexStep(c, "drop") /\ ~clean => codex[c].save.content \in told')
    <3>1. CodexStep(c, "drop") => ~CodexEnd(c, 1)
      BY <1>1, IdleIs DEF CodexStep, CodexEnd, CodexTypes, CodexCommands
    <3> QED
      BY <1>2, <3>1
  <2>2. codex[c].staged /\ UserMade(codex[c].save.content) /\ CodexStep(c, "drop") => codex[c].save.content \in told'
    BY <1>4, <1>5, <2>1, OverlayKinds DEF UserMade
  <2>3. OverlayKept'
    BY <1>1, <1>4, <1>5, <2>1 DEF OneHolds, OverlayKept, Held
  <2>4. overlayPast.quiet => GivenBack(overlay)'
    <3> SUFFICES ASSUME overlayPast.quiet PROVE GivenBack(overlay)'
      OBVIOUS
    <3>1. codex[c].staged /\ GivenBack(codex[c].save.content)
      BY <1>4, <1>5 DEF OneHolds, WhileQuiet
    <3>2. clean \/ codex[c].save.content \in told' \/ overlay' = overlay
      BY <1>2, <3>1
    <3>3. CASE overlay' = overlay
      BY <1>1, <1>4, <1>5, <2>1, <3>3, <1>3, OverlayKinds DEF OneHolds, WhileQuiet, GivenBack, CodexTypes
    <3> QED
      BY <1>3, <1>4, <1>5, <2>1, <3>1, <3>2, <3>3 DEF GivenBack
  <2>5. WhileQuiet'
    BY <1>1, <1>3, <1>5, <2>1, <2>4, OverlayKinds DEF OneHolds, WhileQuiet, GivenBack, desiredOverlay, CodexTypes
  <2>6. HashOf(overlayBackup') /\ BeforeOn' /\ OffRestores'
    BY <1>1, <1>4, <1>5, <2>4 DEF OneHolds, HashOf, BeforeOn, OffRestores, Offs
  <2> QED
    BY <2>2, <2>3, <2>4, <2>5, <2>6
<1>6. CASE CodexStep(c, "drop") /\ UNCHANGED overlayPast /\ codex[c].staged
  <2>1. /\ codex' \in [CodexCallers -> CodexCommands] /\ \A d \in CodexCallers : d # c => codex'[d] = codex[d]
        /\ codex'[c].op = codex[c].op /\ codex'[c].at = "drop" /\ codex'[c].raw = codex[c].raw
        /\ codex'[c].save = codex[c].save /\ codex'[c].staged = codex[c].staged /\ codex'[c].alone = codex[c].alone
    BY <1>1, <1>6, StepFacts
  <2>2. CodexTypes'
    BY <1>1, <1>2, <1>6, <2>1, OverlayKinds DEF CodexTypes
  <2>3. CodexInv'
    <3>1. AloneSees(codex'[c], overlay', doorPort')
      BY <1>1, <1>3, <2>1 DEF AloneSees
    <3> QED
      BY <1>1, <1>6, <2>1, <2>2, <3>1, CallerMoves
  <2>4. ASSUME OneCaller, OneHolds PROVE OneInv'
    <3>1. OffKnows(codex[c])'
      BY <1>1, <1>4, <1>5, <1>6, <2>1, <2>4 DEF OffKnows
    <3> QED
      BY <1>1, <1>4, <1>5, <1>6, <2>1, <2>3, <2>4, <3>1, OneMoves
  <2> QED
    BY <2>3, <2>4
<1>7. CASE ~(CodexStep(c, "drop") /\ UNCHANGED overlayPast /\ codex[c].staged)
  <2>1. PICK rc \in 0..1 : CodexEnd(c, rc) /\ (rc = 0 => ~codex[c].staged)
    BY <1>2, <1>7
  <2>2. /\ codex' \in [CodexCallers -> CodexCommands] /\ \A d \in CodexCallers : d # c => codex'[d] = codex[d]
        /\ codex'[c] = CodexIdle /\ CodexPastType(overlayPast')
        /\ overlayPast'.ended.op = codex[c].op /\ overlayPast'.ended.rc = rc /\ overlayPast'.ended.alone = codex[c].alone
        /\ overlayPast'.mine = overlayPast.mine /\ overlayPast'.first = overlayPast.first
        /\ overlayPast'.quiet = overlayPast.quiet
    BY <1>1, <2>1, EndFacts
  <2>3. CodexTypes'
    BY <1>1, <1>2, <2>2, OverlayKinds DEF CodexTypes
  <2>4. CodexInv'
    BY <1>1, <1>3, <2>2, <2>3, IdleIs, CallerMoves
  <2>5. ASSUME OneCaller, OneHolds PROVE OneInv'
    BY <1>4, <1>5, <2>1, <2>2, <2>4, <2>5, IdleIs, OneMoves
  <2> QED
    BY <2>4, <2>5
<1> QED
  BY <1>6, <1>7

\* ... to put back what was there, ...
LEMMA RestoreKeeps ==
    ASSUME CodexInv, NEW c \in CodexCallers, restoreOverlay(c)
    PROVE  CodexInv' /\ (OneCaller /\ OneHolds => OneInv')
<1>1. /\ CodexTypes /\ codex[c].op \in Offs /\ codex[c].op # "none" /\ codex[c].op # "on" /\ codex[c].at = "restore"
      /\ UNCHANGED <<overlayBackup, doorPort, client, told, overlayPast>> /\ "drop" \in CodexSteps
      /\ overlay' = codex[c].save.content /\ codex[c].save.content \in Overlays
  BY DEF CodexInv, CodexAt, restoreOverlay, Offs, CodexSteps, CodexTypes, CodexCommands, CodexBackups
<1>2. /\ codex' \in [CodexCallers -> CodexCommands] /\ \A d \in CodexCallers : d # c => codex'[d] = codex[d]
      /\ codex'[c].op = codex[c].op /\ codex'[c].at = "drop" /\ codex'[c].raw = codex[c].raw
      /\ codex'[c].save = codex[c].save /\ codex'[c].staged = codex[c].staged /\ codex'[c].alone = codex[c].alone
  BY <1>1, StepFacts DEF restoreOverlay
<1>3. CodexTypes'
  BY <1>1, <1>2 DEF CodexTypes
<1>4. CodexInv'
  <2>1. codex[c].alone => AloneSees(codex'[c], overlay', doorPort')
    BY <1>1, <1>2 DEF CodexInv, AloneHolds, AloneSees
  <2> QED
    BY <1>1, <1>2, <1>3, <2>1, CallerMoves
<1>5. ASSUME OneCaller, OneHolds PROVE OneInv'
  <2>1. /\ codex[c].raw = overlay /\ codex[c].alone /\ overlayPast.ended.op = "none" /\ overlayPast.first.known
        /\ overlayBackup = codex[c].save /\ codex[c].save.state = "kept" /\ codex[c].staged /\ overlay = overlayBackup.hash
    BY <1>1, <1>5, OneKnows DEF AloneSees, OffKnows
  <2>2. OverlayKept'
    BY <1>1, <1>5, <2>1 DEF OneHolds, HashOf, OverlayKept, Held, UserMade
  <2>3. WhileQuiet' /\ (overlayPast.quiet => GivenBack(overlay)')
    BY <1>1, <1>5, <2>1 DEF OneHolds, WhileQuiet, GivenBack, desiredOverlay
  <2>4. HashOf(overlayBackup') /\ BeforeOn' /\ OffRestores'
    BY <1>1, <1>5, <2>1 DEF OneHolds, HashOf, BeforeOn, OffRestores, Offs
  <2>5. OffKnows(codex[c])'
    BY <1>1, <1>2, <2>1, <2>3 DEF OffKnows
  <2> QED
    BY <1>1, <1>2, <1>4, <1>5, <2>1, <2>2, <2>3, <2>4, <2>5, OneMoves
<1> QED
  BY <1>4, <1>5

\* ... and to drop the backup.
LEMMA DropKeeps ==
    ASSUME CodexInv, NEW c \in CodexCallers, dropBackup(c)
    PROVE  CodexInv' /\ (OneCaller /\ OneHolds => OneInv')
<1>1. /\ CodexTypes /\ codex[c].op \in Offs /\ codex[c].op # "none" /\ codex[c].op # "on" /\ codex[c].at = "drop"
      /\ UNCHANGED <<overlay, doorPort, client>> /\ overlayBackup' = NoCodexBackup
      /\ told \subseteq told' /\ told' \subseteq Overlays
  BY DEF CodexInv, CodexAt, dropBackup, Offs, CodexTypes, CodexCommands, CodexBackups
<1>2. PICK rc \in 0..1 : CodexEnd(c, rc)
  BY DEF dropBackup
<1>3. /\ codex' \in [CodexCallers -> CodexCommands] /\ \A d \in CodexCallers : d # c => codex'[d] = codex[d]
      /\ codex'[c] = CodexIdle /\ CodexPastType(overlayPast')
      /\ overlayPast'.ended.op = codex[c].op /\ overlayPast'.ended.rc = rc /\ overlayPast'.ended.alone = codex[c].alone
      /\ overlayPast'.mine = overlayPast.mine /\ overlayPast'.first = overlayPast.first
      /\ overlayPast'.quiet = overlayPast.quiet
  BY <1>1, <1>2, EndFacts
<1>4. CodexTypes'
  BY <1>1, <1>3, OverlayKinds DEF CodexTypes
<1>5. CodexInv'
  <2>1. codex[c].alone => ~LeadsTo(overlay, doorPort)
    BY <1>1 DEF CodexInv, AloneHolds, AloneSees
  <2> QED
    BY <1>1, <1>3, <1>4, <2>1, IdleIs, CallerMoves
<1>6. ASSUME OneCaller, OneHolds PROVE OneInv'
  <2>1. /\ overlayBackup = codex[c].save /\ codex[c].save.state = "kept" /\ overlayPast.first.known
        /\ UserMade(overlayBackup.content) => overlay = overlayBackup.content \/ overlayBackup.content \in told
        /\ overlayPast.quiet => GivenBack(overlay)
    BY <1>1, <1>6, OneKnows DEF OffKnows
  <2>2. OverlayKept'
    BY <1>1, <1>3, <1>6, <2>1 DEF OneHolds, OverlayKept, Held
  <2>3. overlayPast.quiet => overlay # desiredOverlay /\ GivenBack(overlay)'
    BY <1>1, <1>3, <1>6, <2>1, OverlayKinds DEF OneHolds, WhileQuiet, GivenBack, LeadsTo, CodexTypes
  <2>4. WhileQuiet'
    BY <1>1, <1>3, <1>6, <2>3, OverlayKinds DEF OneHolds, WhileQuiet, desiredOverlay
  <2>5. HashOf(overlayBackup') /\ BeforeOn' /\ OffRestores'
    BY <1>1, <1>3, <2>1, <2>3, OverlayKinds DEF HashOf, BeforeOn, OffRestores, GivenBack
  <2> QED
    BY <1>3, <1>5, <1>6, <2>2, <2>4, <2>5, IdleIs, OneMoves
<1> QED
  BY <1>5, <1>6

\* A failing off leaves the files as they are, ...
LEMMA OffFailsKeeps ==
    ASSUME CodexInv, NEW c \in CodexCallers, OffFails(c)
    PROVE  CodexInv' /\ (OneCaller /\ OneHolds => OneInv')
<1>1. /\ CodexTypes /\ codex[c].op \in Offs /\ codex[c].op # "none" /\ CodexFault /\ codex' = [codex EXCEPT ![c] = CodexIdle]
      /\ UNCHANGED <<overlay, overlayBackup, doorPort, client, told>>
  BY DEF CodexInv, OffFails, Offs
<1>2. /\ codex' \in [CodexCallers -> CodexCommands] /\ \A d \in CodexCallers : d # c => codex'[d] = codex[d]
      /\ codex'[c] = CodexIdle /\ CodexPastType(overlayPast')
      /\ overlayPast'.ended = overlayPast.ended /\ overlayPast'.mine = overlayPast.mine
      /\ overlayPast'.first = overlayPast.first /\ overlayPast'.quiet = FALSE
  BY <1>1, GoneFacts, FaultFacts
<1>3. CodexTypes'
  BY <1>1, <1>2 DEF CodexTypes
<1>4. CodexInv'
  BY <1>1, <1>2, <1>3, IdleIs, CallerMoves
<1>5. ASSUME OneCaller, OneHolds PROVE OneInv'
  <2>1. HashOf(overlayBackup') /\ BeforeOn' /\ OverlayKept' /\ OffRestores' /\ WhileQuiet'
    BY <1>1, <1>2, <1>5
       DEF OneHolds, HashOf, BeforeOn, OverlayKept, Held, OffRestores, WhileQuiet
  <2> QED
    BY <1>2, <1>4, <1>5, <2>1, IdleIs, OneMoves
<1> QED
  BY <1>4, <1>5

\* ... and a kill may cut off the backup that is being written.
LEMMA KillKeeps ==
    ASSUME CodexInv, NEW c \in CodexCallers, KillCodex(c)
    PROVE  CodexInv' /\ (OneCaller /\ OneHolds => OneInv')
<1>1. /\ CodexTypes /\ codex[c].op # "none" /\ codex' = [codex EXCEPT ![c] = CodexIdle]
      /\ UNCHANGED <<overlay, doorPort, client, told>>
      /\ overlayBackup' = overlayBackup \/ (overlayBackup' = TornBackup /\ codex[c].at \in {"stage", "refresh"})
  BY DEF CodexInv, KillCodex
<1>2. /\ codex' \in [CodexCallers -> CodexCommands] /\ \A d \in CodexCallers : d # c => codex'[d] = codex[d]
      /\ codex'[c] = CodexIdle
  BY <1>1, GoneFacts
<1>3. /\ CodexPastType(overlayPast')
      /\ overlayPast'.ended = overlayPast.ended /\ overlayPast'.mine = overlayPast.mine
      /\ overlayPast'.first = overlayPast.first /\ overlayPast'.quiet = overlayPast.quiet
  BY <1>1 DEF KillCodex, CodexTypes, CodexPastType
<1>4. CodexTypes'
  BY <1>1, <1>2, <1>3, OverlayKinds DEF CodexTypes
<1>5. CodexInv'
  BY <1>1, <1>2, <1>3, <1>4, IdleIs, CallerMoves
<1>6. ASSUME OneCaller, OneHolds PROVE OneInv'
  <2>1. codex[c].at \in {"stage", "refresh"} => overlayPast.first.known
    <3>1. codex[c].op = "on" \/ codex[c].op \in Offs
      BY <1>1 DEF CodexTypes, CodexCommands
    <3> QED
      BY <1>1, <1>6, <3>1, OneKnows DEF OnKnows, OffKnows
  <2>2. BeforeOn' /\ OverlayKept' /\ HashOf(overlayBackup')
    BY <1>1, <1>3, <1>6, <2>1, OverlayKinds DEF OneHolds, HashOf, BeforeOn, OverlayKept, Held
  <2>3. OffRestores' /\ WhileQuiet'
    BY <1>1, <1>3, <1>6, OverlayKinds DEF OneHolds, OffRestores, WhileQuiet, GivenBack, desiredOverlay
  <2> QED
    BY <1>2, <1>5, <1>6, <2>2, <2>3, IdleIs, OneMoves
<1> QED
  BY <1>5, <1>6

\* The user edits the overlay between commands, ...
LEMMA EditKeeps ==
    ASSUME CodexInv, EditOverlay
    PROVE  CodexInv' /\ (OneCaller /\ OneHolds => OneInv')
<1> DEFINE n == overlayPast.edits + 1
<1>1. /\ CodexTypes /\ Still /\ n \in 0..MaxCodexEdits
      /\ UNCHANGED <<overlayBackup, doorPort, client, codex, told>>
  BY CodexBounds DEF CodexInv, EditOverlay, CodexTypes, CodexPastType
<1>2. overlay' \in Overlays /\ (overlay.port = 0 => overlay'.port = 0)
  <2>1. CASE overlay' = NoOverlay
    BY <2>1, OverlayKinds
  <2>2. CASE overlay' = [by |-> "user", port |-> 0, mark |-> n]
    BY <1>1, <2>2 DEF Overlays
  <2>3. CASE overlay' = [overlay EXCEPT !.mark = n]
    BY <1>1, <2>3 DEF Overlays, CodexTypes
  <2>4. CASE overlay' = [overlay EXCEPT !.mark = n, !.port = 0]
    <3> DEFINE first == [overlay EXCEPT !.mark = n]
    <3>1. first \in Overlays
      BY <1>1 DEF Overlays, CodexTypes
    <3>2. overlay' = [first EXCEPT !.port = 0]
      BY <2>4
    <3> HIDE DEF first, n
    <3>3. overlay' \in Overlays /\ overlay'.port = 0
      BY <3>1, <3>2 DEF Overlays
    <3> QED
      BY <3>3
  <2> QED
    BY <2>1, <2>2, <2>3, <2>4 DEF EditOverlay
<1>3. /\ CodexPastType(overlayPast') /\ overlayPast'.ended.op = "none" /\ overlayPast'.mine = overlay'
      /\ overlayPast'.first = overlayPast.first /\ overlayPast'.quiet = FALSE
  <2>1. overlayPast' = [overlayPast EXCEPT !.edits = n, !.mine = overlay', !.quiet = FALSE, !.ended = NothingEnded]
    BY DEF EditOverlay
  <2> QED
    BY <1>1, <1>2, <2>1 DEF CodexTypes, CodexPastType, NothingEnded
<1>4. CodexTypes'
  BY <1>1, <1>2, <1>3 DEF CodexTypes
<1>5. CodexInv'
  BY <1>1, <1>3, <1>4 DEF CodexInv, AloneHolds, EndedAlone, Still, Offs
<1>6. ASSUME OneCaller, OneHolds PROVE OneInv'
  <2>1. HashOf(overlayBackup') /\ BeforeOn' /\ OverlayKept' /\ OffRestores' /\ WhileQuiet'
    BY <1>1, <1>2, <1>3, <1>6
       DEF OneHolds, HashOf, BeforeOn, OverlayKept, Held, OffRestores, WhileQuiet, Offs
  <2> QED
    BY <1>1, <1>5, <2>1 DEF OneInv, OneHolds, Still
<1> QED
  BY <1>5, <1>6

\* ... and moves the door.
LEMMA MoveKeeps ==
    ASSUME CodexInv, MoveDoor
    PROVE  CodexInv' /\ (OneCaller /\ OneHolds => OneInv')
<1>1. /\ CodexTypes /\ Still /\ doorPort' \in 1..2
      /\ UNCHANGED <<overlay, overlayBackup, client, codex, told>>
  BY DEF CodexInv, MoveDoor, CodexTypes
<1>2. /\ CodexPastType(overlayPast') /\ overlayPast'.ended.op = "none" /\ overlayPast'.mine = overlayPast.mine
      /\ overlayPast'.first = overlayPast.first /\ overlayPast'.quiet = FALSE
  BY <1>1, CodexBounds DEF MoveDoor, CodexTypes, CodexPastType, NothingEnded
<1>3. CodexTypes'
  BY <1>1, <1>2 DEF CodexTypes
<1>4. CodexInv'
  BY <1>1, <1>2, <1>3 DEF CodexInv, AloneHolds, EndedAlone, Still, Offs
<1>5. ASSUME OneCaller, OneHolds PROVE OneInv'
  <2>1. HashOf(overlayBackup') /\ BeforeOn' /\ OverlayKept' /\ OffRestores' /\ WhileQuiet'
    BY <1>1, <1>2, <1>5
       DEF OneHolds, HashOf, BeforeOn, OverlayKept, Held, OffRestores, WhileQuiet, Offs
  <2> QED
    BY <1>1, <1>4, <2>1 DEF OneInv, OneHolds, Still
<1> QED
  BY <1>4, <1>5

\* Every step of the commands, their failures and what happens around them.
LEMMA CodexMoves ==
    ASSUME CodexInv, [CodexNext]_codexVars
    PROVE  CodexInv' /\ (OneCaller /\ OneInv => OneInv')
<1>1. CASE EditOverlay
  BY <1>1, EditKeeps DEF OneInv
<1>2. CASE MoveDoor
  BY <1>2, MoveKeeps DEF OneInv
<1>3. ASSUME NEW c \in CodexCallers, NEW op \in {"on"} \cup Offs, ReadOverlay(c, op)
      PROVE  CodexInv' /\ (OneCaller /\ OneInv => OneInv')
  BY <1>3, ReadKeeps, ReadKnows
<1>4. ASSUME NEW c \in CodexCallers,
             \/ on(c) \/ saveCodexBackup(c) \/ StageFails(c) \/ writeCodexOverlay(c) \/ WriteFails(c)
             \/ refreshHash(c) \/ RefreshFails(c) \/ unpark(c)
      PROVE  CodexInv' /\ (OneCaller /\ OneInv => OneInv')
  BY <1>4, OnKeeps, StageKeeps, StageFailsKeeps, WriteKeeps, WriteFailsKeeps, RefreshKeeps, RefreshFailsKeeps,
     UnparkKeeps DEF OneInv
<1>5. ASSUME NEW c \in CodexCallers,
             \/ off(c) \/ removeOverlay(c) \/ restoreOverlay(c) \/ dropBackup(c) \/ OffFails(c) \/ KillCodex(c)
      PROVE  CodexInv' /\ (OneCaller /\ OneInv => OneInv')
  BY <1>5, OffKeeps, RemoveKeeps, RestoreKeeps, DropKeeps, OffFailsKeeps, KillKeeps DEF OneInv
<1>6. CASE UNCHANGED codexVars
  <2>1. CodexInv'
    BY <1>6 DEF codexVars, CodexInv, CodexTypes, AloneHolds, EndedAlone, Still
  <2>2. OneHolds => OneHolds'
    BY <1>6 DEF codexVars, OneHolds, HashOf, BeforeOn, OverlayKept, Held, OffRestores, WhileQuiet, GivenBack, desiredOverlay,
                OnKnows, OffKnows
  <2> QED
    BY <2>1, <2>2 DEF OneInv
<1> QED
  BY <1>1, <1>2, <1>3, <1>4, <1>5, <1>6 DEF CodexNext

\* The types hold, and an off that had the files to itself left nothing that leads to the gateway,
\* however many callers run.
LEMMA CodexInvSound == CodexInv => CodexTypeOK /\ OffUnwires
BY OverlayKinds DEF CodexInv, CodexTypes, CodexTypeOK, CodexCommands, EndedAlone, OffUnwires

\* With one caller the user's overlay is never lost and off brings back what the first on found.
LEMMA OneInvSound == OneInv => CodexTypeOK /\ OverlaySafe
BY CodexInvSound DEF OneInv, OneHolds, OverlaySafe

\* However many processes run them, and whatever the user edits meanwhile, an off of Codex that
\* had the files to itself leaves no overlay that leads to the gateway.
THEOREM OffUnwiresThm == CodexSpec => [](CodexTypeOK /\ OffUnwires)
<1>1. CodexInit => CodexInv
  BY CodexStarts DEF OneInv
<1>2. CodexInv /\ [CodexNext]_codexVars => CodexInv'
  BY CodexMoves
<1> QED
  BY <1>1, <1>2, CodexInvSound, PTL DEF CodexSpec

\* When one process at a time runs the commands for Codex, none of them loses what the user wrote
\* or puts back what is not theirs.
THEOREM OverlaySafeThm == ASSUME OneCaller PROVE CodexSpec => [](CodexTypeOK /\ OverlaySafe)
<1>1. OneInv /\ [CodexNext]_codexVars => OneInv'
  BY CodexMoves DEF OneInv
<1> QED
  BY <1>1, CodexStarts, OneInvSound, PTL DEF CodexSpec


---------------------------------------------------------------------------
(* PiProvider.                                                              *)

PiRecords == [kept : BOOLEAN, original : ModelFiles, files : SUBSET ModelFiles, providers : SUBSET PiCatalogs,
              pendingFile : ModelFiles, pendingProvider : PiCatalogs \cup {NoProvider}]
PastType(past) ==
    /\ DOMAIN past = {"mine", "foreign", "first", "quiet", "absorbed", "ended", "runs", "edits", "faults"}
    /\ past.first \in ModelFiles /\ past.quiet \in BOOLEAN /\ past.edits \in 0..MaxPiEdits
PiSteps == {"idle", "reconcile", "stage", "write", "finalize", "restore", "drop"}
PiCommands == [op : {"none", "install", "uninstall"}, at : PiSteps, read : ModelFiles, save : PiRecords,
               goal : ModelFiles]

\* The file as the first install found it, or with the provider in it.
Derived(f, first) == f = first \/ (f.provider \in PiCatalogs /\ f = WithProvider(first, f.provider))

\* A recovery state that could be on disk: what it was made of, and that entries which a restore
\* would drop are those that a later install took for its own.
RecordHolds(r, past) ==
    /\ r \in PiRecords /\ (r.kept \/ r = NoPiRecord)
    /\ r.original.provider = NoProvider
    /\ \A f \in r.files : f.provider \in r.providers
    /\ \A f \in r.files \cup {r.pendingFile} : f.others \ r.original.others \subseteq past.absorbed
    /\ past.quiet /\ r.kept =>
           /\ r.original = past.first
           /\ \A p \in r.providers : WithProvider(past.first, p) \in r.files
           /\ Pending(r) => r.pendingFile = WithProvider(past.first, r.pendingProvider)

FileHolds ==
    /\ models \in ModelFiles /\ (Found(models) => models.there)
    /\ PastType(piPast)
    /\ ForeignKept /\ OursOnRecord /\ OtherEntriesKept /\ ExactRestore
    /\ piPast.quiet => piPast.first.provider = NoProvider /\ Derived(models, piPast.first)

\* What an install knows before it has put anything on record, and after.
Installing ==
    /\ pi.at \in {"reconcile", "stage", "write", "finalize"}
    /\ pi.goal.provider \in PiCatalogs /\ pi.goal = WithProvider(pi.read, pi.goal.provider)
    /\ pi.at \in {"reconcile", "stage"} =>
           /\ ~Pending(pi.save) /\ models.provider \in {pi.read.provider, Foreign, NoProvider}
           /\ Found(pi.read) => pi.save.kept /\ pi.read.provider \in pi.save.providers
           /\ pi.save.kept => pi.read.others \ pi.save.original.others \subseteq piPast.absorbed
           /\ piPast.quiet /\ ~pi.save.kept => pi.read = piPast.first
    /\ pi.at # "reconcile" => recovery = pi.save
    /\ pi.at \in {"write", "finalize"} =>
           pi.save.kept /\ pi.save.pendingFile = pi.goal /\ pi.save.pendingProvider = pi.goal.provider
    /\ piPast.quiet /\ pi.at # "finalize" => models = pi.read

Uninstalling ==
    /\ pi.at \in {"restore", "drop"} /\ recovery = pi.save /\ pi.save.kept
    /\ pi.goal.provider = NoProvider
    /\ \/ pi.goal = pi.save.original /\ pi.read \in pi.save.files
       \/ pi.goal = WithoutProvider(pi.read)
    /\ piPast.quiet => pi.goal = piPast.first /\ (pi.at = "restore" => models = pi.read)
    /\ pi.at = "drop" => models.provider \notin PiCatalogs /\ (piPast.quiet => models = piPast.first)

CommandHolds ==
    /\ pi \in PiCommands
    /\ RecordHolds(pi.save, piPast)
    /\ pi.op = "none" => pi = PiIdle
    /\ pi.op # "none" => pi.read.provider # Foreign
    /\ pi.op = "install" => Installing
    /\ pi.op = "uninstall" => Uninstalling

PiInv == FileHolds /\ RecordHolds(recovery, piPast) /\ CommandHolds

\* Neither is given by a catalog.
LEMMA Unlisted == NoProvider \notin PiCatalogs /\ Foreign \notin PiCatalogs /\ NoProvider # Foreign
BY PiProviders DEF NoProvider, Foreign

\* A file with the provider in it.
LEMMA WithProviderIs ==
    ASSUME NEW f \in ModelFiles, NEW p \in PiCatalogs
    PROVE  /\ WithProvider(f, p) \in ModelFiles /\ WithProvider(f, p) = [there |-> TRUE, others |-> f.others, provider |-> p]
           /\ Found(WithProvider(f, p)) /\ \A q \in PiCatalogs : WithProvider(WithProvider(f, q), p) = WithProvider(f, p)
<1> DEFINE w == WithProvider(f, p)
<1>a. f \in [there : BOOLEAN, others : SUBSET (0..MaxPiEdits), provider : PiCatalogs \cup {NoProvider, Foreign}]
  BY DEF ModelFiles
<1>b. w = [f EXCEPT !.there = TRUE, !.provider = p]
  BY DEF WithProvider
<1>c. w.there = TRUE /\ w.others = f.others /\ w.provider = p
  BY <1>a, <1>b
<1>1. w = [there |-> TRUE, others |-> f.others, provider |-> p]
  BY <1>a, <1>b
<1>2. \A q \in PiCatalogs : WithProvider(WithProvider(f, q), p) = WithProvider(f, p)
  BY DEF WithProvider, ModelFiles
<1> QED
  BY <1>1, <1>2, Unlisted DEF Found, ModelFiles

\* A file without it.
LEMMA WithoutProviderIs ==
    ASSUME NEW f \in ModelFiles
    PROVE  /\ WithoutProvider(f) \in ModelFiles
           /\ WithoutProvider(f) = [there |-> f.there, others |-> f.others, provider |-> NoProvider]
           /\ ~Found(f) => WithoutProvider(f) = f
BY DEF WithoutProvider, ModelFiles, Found

\* A state without its pending install.
LEMMA ClearedHolds ==
    ASSUME NEW r, NEW past, RecordHolds(r, past)
    PROVE  /\ RecordHolds(ClearPending(r), past) /\ ~Pending(ClearPending(r))
           /\ ClearPending(r) = [r EXCEPT !.pendingFile = NoModels, !.pendingProvider = NoProvider]
<1> DEFINE c == ClearPending(r)
<1>1. r \in PiRecords /\ NoModels \in ModelFiles /\ NoModels.others = {}
  BY DEF RecordHolds, NoModels, ModelFiles
<1>2. c = [r EXCEPT !.pendingFile = NoModels, !.pendingProvider = NoProvider]
  BY DEF ClearPending
<1>3. c \in PiRecords
  BY <1>1, <1>2 DEF PiRecords
<1>4. /\ c.kept = r.kept /\ c.original = r.original /\ c.files = r.files /\ c.providers = r.providers
      /\ c.pendingFile = NoModels /\ c.pendingProvider = NoProvider
  BY <1>1, <1>2 DEF PiRecords
<1>5. ~r.kept => c = NoPiRecord
  <2> SUFFICES ASSUME ~r.kept PROVE c = NoPiRecord
    OBVIOUS
  <2>1. r = NoPiRecord
    BY DEF RecordHolds
  <2> QED
    BY <1>2, <2>1 DEF NoPiRecord
<1> HIDE DEF c
<1>6. RecordHolds(c, past)
  BY <1>1, <1>3, <1>4, <1>5 DEF RecordHolds, Pending
<1> QED
  BY <1>2, <1>4, <1>6 DEF c, Pending

\* What is pending is on record.
LEMMA PendingKept == ASSUME NEW r, NEW past, RecordHolds(r, past), Pending(r) PROVE r.kept
BY DEF RecordHolds, Pending, NoPiRecord

\* A state with its pending install taken to have happened.
LEMMA RecordedHolds ==
    ASSUME NEW r, NEW past, RecordHolds(r, past), Pending(r), r.pendingFile.provider = r.pendingProvider
    PROVE  /\ RecordHolds(PiRecorded(r), past) /\ ~Pending(PiRecorded(r))
           /\ PiRecorded(r).kept /\ PiRecorded(r).original = r.original
           /\ PiRecorded(r).providers = r.providers \cup {r.pendingProvider}
<1> DEFINE s == [r EXCEPT !.files = @ \cup {r.pendingFile}, !.providers = @ \cup {r.pendingProvider}]
<1>1. r \in PiRecords /\ r.pendingProvider \in PiCatalogs /\ r.kept
  BY DEF RecordHolds, Pending, PiRecords, NoPiRecord
<1>2. s \in PiRecords
  BY <1>1 DEF PiRecords
<1>3. s.original = r.original /\ s.files = r.files \cup {r.pendingFile} /\ s.pendingFile = r.pendingFile
      /\ s.providers = r.providers \cup {r.pendingProvider} /\ s.pendingProvider = r.pendingProvider /\ s.kept
  BY <1>1 DEF PiRecords
<1>4. RecordHolds(s, past)
  <2> HIDE DEF s
  <2> QED
    BY <1>1, <1>2, <1>3 DEF RecordHolds, Pending
<1>5. PiRecorded(r) = ClearPending(s)
  BY DEF PiRecorded
<1>6. ClearPending(s) = [s EXCEPT !.pendingFile = NoModels, !.pendingProvider = NoProvider]
  BY DEF ClearPending
<1> HIDE DEF s
<1>7. RecordHolds(ClearPending(s), past) /\ ~Pending(ClearPending(s))
  BY <1>4, ClearedHolds
<1>8. /\ ClearPending(s).kept /\ ClearPending(s).original = s.original
      /\ ClearPending(s).providers = s.providers
  BY <1>2, <1>3, <1>6 DEF PiRecords
<1> QED
  BY <1>3, <1>5, <1>7, <1>8

\* What an install makes of an interrupted one.
LEMMA ReconciledHolds ==
    ASSUME NEW r, NEW past, RecordHolds(r, past), Pending(r), NEW f
    PROVE  /\ RecordHolds(Reconciled(r, f), past) /\ ~Pending(Reconciled(r, f))
           /\ Reconciled(r, f).kept /\ Reconciled(r, f).original = r.original
<1>1. r \in PiRecords /\ r.kept
  BY DEF RecordHolds, Pending, NoPiRecord
<1>2. ClearPending(r).kept /\ ClearPending(r).original = r.original
  BY <1>1 DEF ClearPending, PiRecords
<1> QED
  BY <1>1, <1>2, RecordedHolds, ClearedHolds DEF Reconciled

\* What is sound of a state stays so while nothing of what was absorbed is forgotten, and
\* either it is still quiet or it no longer is.
LEMMA RecordStays ==
    ASSUME NEW r, NEW past, RecordHolds(r, past), NEW next, past.absorbed \subseteq next.absorbed,
           next.quiet => (r.kept => past.quiet /\ next.first = past.first)
    PROVE  RecordHolds(r, next)
BY DEF RecordHolds

\* It begins so, ...
LEMMA PiStarts == PiInit => PiInv
<1> SUFFICES ASSUME PiInit PROVE PiInv
  OBVIOUS
<1>1. NoModels \in ModelFiles /\ NoPiRecord \in PiRecords
  BY DEF NoModels, ModelFiles, NoPiRecord, PiRecords
<1>2. models \in ModelFiles
  <2>1. 0 \in 0..MaxPiEdits
    BY PiBounds
  <2>2. [there |-> TRUE, others |-> {0}, provider |-> NoProvider] \in ModelFiles
    BY <2>1 DEF ModelFiles
  <2>3. [there |-> TRUE, others |-> {}, provider |-> Foreign] \in ModelFiles
    BY DEF ModelFiles
  <2> QED
    BY <1>1, <2>2, <2>3 DEF PiInit
<1>3. /\ piPast.mine = models.others /\ (piPast.foreign <=> models.provider = Foreign) /\ piPast.first = NoModels
      /\ ~piPast.quiet /\ piPast.absorbed = {} /\ piPast.ended = [op |-> "none", rc |-> 0]
  BY DEF PiInit
<1>4. PastType(piPast)
  <2>1. 0 \in 0..MaxPiEdits
    BY PiBounds
  <2> QED
    BY <1>1, <2>1 DEF PiInit, PastType
<1>5. Found(models) => models.there /\ models.provider = Foreign
  BY DEF PiInit, NoModels, Found
<1>6. FileHolds
  BY <1>2, <1>3, <1>4, <1>5, Unlisted DEF FileHolds, ForeignKept, OursOnRecord, OtherEntriesKept, ExactRestore, Found
<1>7. RecordHolds(NoPiRecord, piPast)
  <2>1. NoPiRecord.original = NoModels /\ NoPiRecord.files = {} /\ NoPiRecord.pendingFile = NoModels
        /\ NoModels.others = {} /\ NoModels.provider = NoProvider /\ ~NoPiRecord.kept
    BY DEF NoPiRecord, NoModels
  <2> QED
    BY <1>1, <2>1 DEF RecordHolds
<1>8. CommandHolds
  <2>1. pi = PiIdle /\ pi.op = "none" /\ pi.save = NoPiRecord
    BY DEF PiInit, PiIdle
  <2>2. PiIdle \in PiCommands
    BY <1>1 DEF PiIdle, PiSteps, PiCommands
  <2> QED
    BY <1>7, <2>1, <2>2 DEF CommandHolds
<1> QED
  BY <1>6, <1>7, <1>8 DEF PiInv, PiInit

\* The types of it all.
LEMMA PiTypes ==
    PiInv => /\ models \in ModelFiles /\ recovery \in PiRecords /\ pi \in PiCommands /\ PastType(piPast)
             /\ pi.read \in ModelFiles /\ pi.goal \in ModelFiles /\ pi.save \in PiRecords
BY DEF PiInv, FileHolds, RecordHolds, CommandHolds, PiCommands

\* ... an install keeps it so when it looks at the file, ...
LEMMA InstallKeeps == ASSUME PiInv, NEW provider \in PiCatalogs, Install(provider) PROVE PiInv'
<1> DEFINE h == piPast'
           save == IF Pending(recovery) THEN Reconciled(recovery, models) ELSE recovery
           refused == RefusesInstall(recovery, models)
<1>1. models \in ModelFiles /\ recovery \in PiRecords /\ pi \in PiCommands /\ PastType(piPast)
  BY PiTypes
<1>2. UNCHANGED <<models, recovery>> /\ FileHolds /\ RecordHolds(recovery, piPast)
  BY DEF Install, PiInv
<1>3. /\ h.mine = piPast.mine /\ h.foreign = piPast.foreign /\ piPast.absorbed \subseteq h.absorbed
      /\ h.quiet = (piPast.quiet \/ (~recovery.kept /\ ~Found(models)))
      /\ h.first = IF ~recovery.kept THEN models ELSE piPast.first
      /\ h.ended.op = "install"
      /\ recovery.kept /\ ~refused => models.others \ recovery.original.others \subseteq h.absorbed
  BY <1>1 DEF Install, PastType
<1>4. PastType(h)
  BY <1>1, <1>3 DEF Install, PastType
<1>5. RecordHolds(recovery, h)
  BY <1>2, <1>3, RecordStays
<1> HIDE DEF h
<1>6. FileHolds'
  <2>1. h.quiet => h.first.provider = NoProvider /\ Derived(models, h.first)
    BY <1>1, <1>2, <1>3 DEF FileHolds, Derived, OursOnRecord, Found
  <2>2. ForeignKept' /\ OursOnRecord' /\ OtherEntriesKept' /\ ExactRestore'
    BY <1>2, <1>3 DEF FileHolds, ForeignKept, OursOnRecord, OtherEntriesKept, ExactRestore, h
  <2> QED
    BY <1>2, <1>4, <2>1, <2>2 DEF FileHolds, h
<1>7. RecordHolds(save, h) /\ ~Pending(save) /\ save.kept = recovery.kept /\ save.original = recovery.original
  <2>1. CASE Pending(recovery)
    <3>1. recovery.kept /\ save = Reconciled(recovery, models)
      BY <1>5, <2>1, PendingKept
    <3> QED
      BY <1>5, <2>1, <3>1, ReconciledHolds
  <2>2. CASE ~Pending(recovery)
    BY <1>5, <2>2
  <2> QED
    BY <2>1, <2>2
<1>8. CommandHolds'
  <2>1. CASE refused
    <3>1. pi' = PiIdle
      BY <2>1 DEF Install
    <3>2. PiIdle \in PiCommands /\ PiIdle.save = NoPiRecord /\ PiIdle.op = "none"
      BY DEF PiIdle, PiCommands, PiSteps, NoPiRecord, PiRecords, NoModels, ModelFiles
    <3>3. RecordHolds(NoPiRecord, h)
      BY DEF RecordHolds, NoPiRecord, NoModels, PiRecords, ModelFiles
    <3> QED
      BY <3>1, <3>2, <3>3 DEF CommandHolds, h
  <2>2. CASE ~refused
    <3> DEFINE goal == WithProvider(models, provider)
               at == IF Pending(recovery) THEN "reconcile" ELSE "stage"
    <3>1. pi' = [op |-> "install", at |-> at, read |-> models, save |-> save, goal |-> goal]
      BY <2>2 DEF Install
    <3>2. goal \in ModelFiles /\ goal.provider = provider
      BY <1>1, WithProviderIs
    <3>3. save \in PiRecords
      BY <1>7 DEF RecordHolds
    <3>4. Found(models) => save.kept /\ models.provider \in save.providers
      BY <1>7, <2>2 DEF RefusesInstall
    <3>5. models.provider # Foreign
      BY <3>3, <3>4, Unlisted DEF Found, PiRecords
    <3>6. h.quiet /\ ~save.kept => models = h.first
      BY <1>3, <1>7
    <3>7. save.kept => models.others \ save.original.others \subseteq h.absorbed
      BY <1>3, <1>7, <2>2
    <3>8. ~Pending(recovery) => save = recovery
      OBVIOUS
    <3> HIDE DEF save, goal
    <3>9. /\ pi'.op = "install" /\ pi'.at = at /\ pi'.read = models /\ pi'.save = save /\ pi'.goal = goal
          /\ pi' \in PiCommands
      BY <1>1, <3>1, <3>2, <3>3 DEF PiCommands, PiSteps
    <3>10. Installing'
      <4>1. /\ pi'.at \in {"reconcile", "stage"}
            /\ pi'.goal.provider \in PiCatalogs /\ pi'.goal = WithProvider(pi'.read, pi'.goal.provider)
        BY <3>2, <3>9 DEF goal
      <4> QED
        BY <1>2, <1>7, <3>4, <3>6, <3>7, <3>8, <3>9, <4>1 DEF Installing, h
    <3> QED
      BY <1>7, <3>5, <3>9, <3>10 DEF CommandHolds, h
  <2> QED
    BY <2>1, <2>2
<1> QED
  BY <1>2, <1>5, <1>6, <1>8 DEF PiInv, h

\* Nothing but the end of an uninstall is one.
LEMMA NotRestored == piPast'.ended.op # "uninstall" => ExactRestore'
BY DEF ExactRestore

\* ... and at every step after it; ...
LEMMA InstallingKeeps ==
    ASSUME PiInv, SaveReconciled \/ SavePending \/ WriteProvider \/ SaveFinal
    PROVE  PiInv'
<1>1. /\ models \in ModelFiles /\ recovery \in PiRecords /\ pi \in PiCommands /\ PastType(piPast)
      /\ pi.read \in ModelFiles /\ pi.goal \in ModelFiles /\ pi.save \in PiRecords
  BY PiTypes
<1>2. /\ FileHolds /\ RecordHolds(recovery, piPast) /\ RecordHolds(pi.save, piPast) /\ pi.read.provider # Foreign
      /\ Installing /\ pi.op = "install"
  BY DEF PiInv, CommandHolds, SaveReconciled, SavePending, WriteProvider, SaveFinal, PiAt
<1>3. \A rc : PiEnd(rc) => /\ pi' = PiIdle /\ piPast'.ended.op = "install" /\ PastType(piPast')
                           /\ piPast'.mine = piPast.mine /\ piPast'.foreign = piPast.foreign /\ piPast'.first = piPast.first
                           /\ piPast'.quiet = piPast.quiet /\ piPast'.absorbed = piPast.absorbed
  BY <1>1, <1>2 DEF PiEnd, PastType
<1>4. \A rc : PiEnd(rc) => CommandHolds' /\ \A r : RecordHolds(r, piPast) => RecordHolds(r, piPast')
  <2> SUFFICES ASSUME NEW rc, PiEnd(rc)
               PROVE  CommandHolds' /\ \A r : RecordHolds(r, piPast) => RecordHolds(r, piPast')
    OBVIOUS
  <2>1. PiIdle \in PiCommands /\ PiIdle.save = NoPiRecord /\ PiIdle.op = "none"
    BY DEF PiIdle, PiCommands, PiSteps, NoPiRecord, PiRecords, NoModels, ModelFiles
  <2>2. RecordHolds(NoPiRecord, piPast')
    BY DEF RecordHolds, NoPiRecord, NoModels, PiRecords, ModelFiles
  <2>3. \A r : RecordHolds(r, piPast) => RecordHolds(r, piPast')
    BY <1>3, RecordStays
  <2> QED
    BY <1>3, <2>1, <2>2, <2>3 DEF CommandHolds
<1>5. CASE SaveReconciled
  <2>1. recovery' = pi.save /\ pi' = [pi EXCEPT !.at = "stage"] /\ UNCHANGED <<models, piPast>> /\ pi.at = "reconcile"
    BY <1>5 DEF SaveReconciled, PiAt
  <2>2. /\ pi' \in PiCommands /\ pi'.op = pi.op /\ pi'.at = "stage" /\ pi'.read = pi.read /\ pi'.save = pi.save
        /\ pi'.goal = pi.goal
    BY <1>1, <2>1 DEF PiCommands, PiSteps
  <2>3. OursOnRecord'
    BY <1>2, <2>1, Unlisted DEF Installing, OursOnRecord, Found
  <2>4. FileHolds'
    BY <1>2, <2>1, <2>2, <2>3 DEF FileHolds, ForeignKept, OtherEntriesKept, ExactRestore
  <2>5. CommandHolds'
    BY <1>2, <2>1, <2>2 DEF CommandHolds, Installing
  <2> QED
    BY <1>2, <2>1, <2>4, <2>5 DEF PiInv
<1>6. CASE SavePending
  <2> DEFINE known == IF pi.save.kept THEN ClearPending(pi.save)
                      ELSE [NoPiRecord EXCEPT !.kept = TRUE, !.original = pi.read]
             s == [known EXCEPT !.pendingFile = WithProvider(pi.read, pi.goal.provider),
                                !.pendingProvider = pi.goal.provider]
  <2>1. /\ recovery' = s /\ pi' = [pi EXCEPT !.at = "write", !.save = recovery'] /\ UNCHANGED <<models, piPast>>
        /\ pi.at = "stage" /\ recovery = pi.save
    BY <1>2, <1>6 DEF SavePending, PiAt, Staged, Installing
  <2>2. /\ known \in PiRecords /\ known.kept /\ known.original.provider = NoProvider
        /\ \A f \in known.files : f.provider \in known.providers
        /\ \A f \in known.files \cup {pi.read} : f.others \ known.original.others \subseteq piPast.absorbed
        /\ piPast.quiet => known.original = piPast.first /\ \A p \in known.providers : WithProvider(piPast.first, p) \in known.files
        /\ models.provider \in PiCatalogs => models.provider \in known.providers
    <3>1. CASE pi.save.kept
      <4>1. RecordHolds(known, piPast) /\ known = [pi.save EXCEPT !.pendingFile = NoModels, !.pendingProvider = NoProvider]
        BY <1>2, <3>1, ClearedHolds
      <4>2. known.kept /\ known.original = pi.save.original /\ known.providers = pi.save.providers
        BY <1>1, <3>1, <4>1 DEF PiRecords
      <4> HIDE DEF known
      <4> QED
        BY <1>2, <2>1, <3>1, <4>1, <4>2, Unlisted DEF RecordHolds, Installing, Found
    <3>2. CASE ~pi.save.kept
      <4>1. known = [NoPiRecord EXCEPT !.kept = TRUE, !.original = pi.read]
        BY <3>2
      <4>2. /\ known \in PiRecords /\ known.kept /\ known.original = pi.read /\ known.files = {} /\ known.providers = {}
        <5>1. NoPiRecord \in PiRecords
          BY DEF NoPiRecord, PiRecords, NoModels, ModelFiles
        <5>2. known \in PiRecords /\ known.kept /\ known.original = pi.read /\ known.files = NoPiRecord.files
              /\ known.providers = NoPiRecord.providers
          BY <1>1, <4>1, <5>1 DEF PiRecords
        <5> QED
          BY <5>2 DEF NoPiRecord
      <4> HIDE DEF known
      <4> QED
        BY <1>2, <2>1, <3>2, <4>2, Unlisted DEF Installing, Found
    <3> QED
      BY <3>1, <3>2
  <2> HIDE DEF known
  <2>3. /\ WithProvider(pi.read, pi.goal.provider) = pi.goal /\ pi.goal.others = pi.read.others
        /\ pi.goal.provider \in PiCatalogs
    BY <1>1, <1>2, WithProviderIs DEF Installing
  <2>4. s \in PiRecords
    BY <1>1, <2>2, <2>3 DEF PiRecords
  <2>5. /\ s.kept /\ s.original = known.original /\ s.files = known.files /\ s.providers = known.providers
        /\ s.pendingFile = pi.goal /\ s.pendingProvider = pi.goal.provider
    BY <2>2, <2>3 DEF PiRecords
  <2>6. piPast.quiet => pi.goal = WithProvider(piPast.first, pi.goal.provider)
    BY <1>1, <1>2, <2>1, <2>3, WithProviderIs DEF FileHolds, Derived, Installing, PastType
  <2> HIDE DEF s
  <2>7. RecordHolds(s, piPast)
    BY <2>2, <2>3, <2>4, <2>5, <2>6 DEF RecordHolds
  <2>8. /\ pi' \in PiCommands /\ pi'.op = pi.op /\ pi'.at = "write" /\ pi'.read = pi.read /\ pi'.save = s
        /\ pi'.goal = pi.goal
    BY <1>1, <2>1, <2>4 DEF PiCommands, PiSteps
  <2>9. FileHolds'
    BY <1>2, <2>1, <2>2, <2>5, <2>8 DEF FileHolds, ForeignKept, OtherEntriesKept, ExactRestore, OursOnRecord
  <2>10. CommandHolds'
    BY <1>2, <2>1, <2>5, <2>7, <2>8 DEF CommandHolds, Installing
  <2> QED
    BY <2>1, <2>7, <2>9, <2>10 DEF PiInv
<1>7. CASE WriteProvider
  <2>1. UNCHANGED recovery /\ pi.at = "write" /\ recovery = pi.save /\ pi.save.kept /\ pi.save.pendingFile = pi.goal
        /\ pi.save.pendingProvider = pi.goal.provider /\ (piPast.quiet => models = pi.read)
    BY <1>2, <1>7 DEF WriteProvider, PiAt, Installing
  <2>2. CASE UNCHANGED models /\ PiEnd(1)
    <3>1. FileHolds'
      BY <1>2, <1>3, <2>1, <2>2, NotRestored DEF FileHolds, ForeignKept, OtherEntriesKept, OursOnRecord
    <3> QED
      BY <1>2, <1>4, <2>1, <2>2, <3>1 DEF PiInv
  <2>3. CASE pi' = [pi EXCEPT !.at = "finalize"] /\ UNCHANGED piPast
    <3>1. /\ pi' \in PiCommands /\ pi'.op = pi.op /\ pi'.at = "finalize" /\ pi'.read = pi.read /\ pi'.save = pi.save
          /\ pi'.goal = pi.goal
      BY <1>1, <2>3 DEF PiCommands, PiSteps
    <3>2. CommandHolds'
      BY <1>2, <2>1, <2>3, <3>1 DEF CommandHolds, Installing
    <3>3. FileHolds'
      <4>1. CASE UNCHANGED models
        BY <1>2, <2>1, <2>3, <3>1, <4>1 DEF FileHolds, ForeignKept, OtherEntriesKept, ExactRestore, OursOnRecord
      <4>2. CASE models = pi.read /\ models' = pi.goal
        <5>1. pi.goal = WithProvider(pi.read, pi.goal.provider) /\ pi.goal.provider \in PiCatalogs
          BY <1>2 DEF Installing
        <5>2. pi.goal.others = models.others /\ pi.goal.there
          BY <1>1, <4>2, <5>1, WithProviderIs
        <5>3. piPast.quiet => Derived(pi.goal, piPast.first)
          BY <1>1, <1>2, <4>2, <5>1, WithProviderIs DEF FileHolds, Derived, PastType
        <5> QED
          BY <1>1, <1>2, <2>1, <2>3, <3>1, <4>2, <5>1, <5>2, <5>3, Unlisted
             DEF FileHolds, ForeignKept, OtherEntriesKept, ExactRestore, OursOnRecord
      <4> QED
        BY <1>7, <2>3, <4>1, <4>2 DEF WriteProvider, Unchanged
    <3> QED
      BY <1>2, <2>1, <2>3, <3>2, <3>3 DEF PiInv
  <2> QED
    BY <1>7, <2>2, <2>3 DEF WriteProvider
<1>8. CASE SaveFinal
  <2>1. /\ recovery' = PiRecorded(pi.save) /\ PiEnd(0) /\ UNCHANGED models /\ recovery = pi.save /\ pi.save.kept
        /\ pi.save.pendingFile = pi.goal /\ pi.save.pendingProvider = pi.goal.provider /\ pi.goal.provider \in PiCatalogs
    BY <1>2, <1>8 DEF SaveFinal, PiAt, Installing
  <2>2. /\ RecordHolds(recovery', piPast) /\ recovery'.kept
        /\ recovery'.providers = pi.save.providers \cup {pi.save.pendingProvider}
    BY <1>2, <2>1, RecordedHolds, Unlisted DEF Pending
  <2>3. FileHolds'
    BY <1>2, <1>3, <2>1, <2>2, NotRestored DEF FileHolds, ForeignKept, OtherEntriesKept, OursOnRecord
  <2> QED
    BY <1>4, <2>1, <2>2, <2>3 DEF PiInv
<1> QED
  BY <1>5, <1>6, <1>7, <1>8

\* ... an uninstall keeps it so when it looks at the file, ...
LEMMA UninstallKeeps == ASSUME PiInv, Uninstall PROVE PiInv'
<1> DEFINE ends == RefusesUninstall(recovery, models) \/ ~recovery.kept
           goal == IF models \in recovery.files THEN recovery.original ELSE WithoutProvider(models)
           h == piPast'
<1>1. /\ models \in ModelFiles /\ recovery \in PiRecords /\ pi \in PiCommands /\ PastType(piPast)
  BY PiTypes
<1>2. UNCHANGED <<models, recovery>> /\ FileHolds /\ RecordHolds(recovery, piPast) /\ pi.op = "none" /\ pi = PiIdle
  BY DEF Uninstall, PiInv, CommandHolds
<1>3. /\ h.mine = piPast.mine /\ h.foreign = piPast.foreign /\ h.absorbed = piPast.absorbed
      /\ h.quiet = piPast.quiet /\ h.first = piPast.first /\ PastType(h)
      /\ h.ended = [op |-> "uninstall", rc |-> IF RefusesUninstall(recovery, models) THEN 1 ELSE 0]
  BY <1>1 DEF Uninstall, PastType
<1> HIDE DEF h
<1>4. RecordHolds(recovery, h)
  BY <1>2, <1>3, RecordStays
<1>5. piPast.quiet => /\ ~Found(models) => models = piPast.first
                      /\ Found(models) => /\ recovery.kept /\ models.provider \in PiCatalogs
                                          /\ models = WithProvider(piPast.first, models.provider)
  <2> SUFFICES ASSUME piPast.quiet
               PROVE  /\ ~Found(models) => models = piPast.first
                      /\ Found(models) => /\ recovery.kept /\ models.provider \in PiCatalogs
                                          /\ models = WithProvider(piPast.first, models.provider)
    OBVIOUS
  <2>1. piPast.first.provider = NoProvider /\ Derived(models, piPast.first) /\ OursOnRecord
    BY <1>2 DEF FileHolds
  <2>2. models = piPast.first \/ (models.provider \in PiCatalogs /\ models = WithProvider(piPast.first, models.provider))
    BY <2>1 DEF Derived
  <2> QED
    BY <2>1, <2>2, Unlisted DEF Found, OursOnRecord
<1>6. CASE ends
  <2>1. pi' = PiIdle
    BY <1>6 DEF Uninstall
  <2>2. h.ended = [op |-> "uninstall", rc |-> 0] => ~RefusesUninstall(recovery, models)
    BY <1>3
  <2>3. h.ended = [op |-> "uninstall", rc |-> 0] => ~Found(models)
    BY <1>6, <2>2 DEF RefusesUninstall
  <2>4. ExactRestore'
    BY <1>2, <1>3, <1>5, <2>3 DEF ExactRestore, h
  <2>5. FileHolds'
    BY <1>2, <1>3, <2>4 DEF FileHolds, ForeignKept, OtherEntriesKept, OursOnRecord, h
  <2>6. RecordHolds(pi.save, h)
    BY <1>2, <1>3, RecordStays DEF PiInv, CommandHolds
  <2>7. CommandHolds'
    BY <1>1, <1>2, <2>1, <2>6 DEF CommandHolds, PiIdle, h
  <2> QED
    BY <1>2, <1>4, <2>5, <2>7 DEF PiInv, h
<1>7. CASE ~ends
  <2>1. pi' = [op |-> "uninstall", at |-> IF goal = models THEN "drop" ELSE "restore", read |-> models,
               save |-> recovery, goal |-> goal]
    BY <1>7 DEF Uninstall
  <2>2. /\ recovery.kept /\ ~Pending(recovery)
        /\ models \in recovery.files \/ ~Found(models) \/ models.provider \in recovery.providers
    BY <1>7 DEF RefusesUninstall
  <2>3. goal \in ModelFiles /\ goal.provider = NoProvider
    BY <1>1, <1>2, WithoutProviderIs DEF RecordHolds, PiRecords
  <2>4. piPast.quiet => goal = piPast.first
    <3> SUFFICES ASSUME piPast.quiet PROVE goal = piPast.first
      OBVIOUS
    <3>1. CASE models \in recovery.files
      BY <1>2, <2>2, <3>1 DEF RecordHolds
    <3>2. CASE models \notin recovery.files
      <4>1. ~Found(models)
        BY <1>2, <1>5, <2>2, <3>2 DEF RecordHolds
      <4> QED
        BY <1>1, <1>5, <3>2, <4>1, WithoutProviderIs
    <3> QED
      BY <3>1, <3>2
  <2>5. models.provider # Foreign
    BY <1>1, <1>2, <2>2, Unlisted DEF RecordHolds, Found, PiRecords
  <2>6. \/ goal = recovery.original /\ models \in recovery.files
        \/ goal = WithoutProvider(models)
    OBVIOUS
  <2> HIDE DEF goal
  <2>7. /\ pi' \in PiCommands /\ pi'.op = "uninstall" /\ pi'.read = models /\ pi'.save = recovery /\ pi'.goal = goal
        /\ pi'.at = IF goal = models THEN "drop" ELSE "restore"
    BY <1>1, <2>1, <2>3 DEF PiCommands, PiSteps
  <2>8. Uninstalling'
    BY <1>2, <1>3, <1>5, <2>2, <2>3, <2>4, <2>6, <2>7, Unlisted DEF Uninstalling, h
  <2>9. CommandHolds'
    BY <1>4, <2>5, <2>7, <2>8, <1>2 DEF CommandHolds, h
  <2>10. FileHolds'
    BY <1>2, <1>3, <2>7 DEF FileHolds, ForeignKept, OtherEntriesKept, OursOnRecord, ExactRestore, h
  <2> QED
    BY <1>2, <1>4, <2>9, <2>10 DEF PiInv, h
<1> QED
  BY <1>6, <1>7

\* ... and at every step after it; ...
LEMMA UninstallingKeeps == ASSUME PiInv, RestoreModels \/ DropRecovery PROVE PiInv'
<1>1. /\ models \in ModelFiles /\ recovery \in PiRecords /\ pi \in PiCommands /\ PastType(piPast)
      /\ pi.read \in ModelFiles /\ pi.goal \in ModelFiles /\ pi.save \in PiRecords
  BY PiTypes
<1>2. /\ FileHolds /\ RecordHolds(recovery, piPast) /\ RecordHolds(pi.save, piPast) /\ pi.read.provider # Foreign
      /\ Uninstalling /\ pi.op = "uninstall" /\ recovery = pi.save
  BY DEF PiInv, CommandHolds, RestoreModels, DropRecovery, PiAt, Uninstalling
<1>3. \A rc : PiEnd(rc) => /\ pi' = PiIdle /\ piPast'.ended = [op |-> "uninstall", rc |-> rc] /\ PastType(piPast')
                           /\ piPast'.ended.rc = rc
                           /\ piPast'.mine = piPast.mine /\ piPast'.foreign = piPast.foreign /\ piPast'.first = piPast.first
                           /\ piPast'.quiet = piPast.quiet /\ piPast'.absorbed = piPast.absorbed
  BY <1>1, <1>2 DEF PiEnd, PastType
<1>4. RecordHolds(NoPiRecord, piPast') /\ PiIdle \in PiCommands /\ PiIdle.save = NoPiRecord /\ PiIdle.op = "none"
  BY DEF RecordHolds, NoPiRecord, NoModels, PiRecords, ModelFiles, PiIdle, PiCommands, PiSteps
<1>5. \A rc : PiEnd(rc) => CommandHolds' /\ RecordHolds(recovery, piPast')
  <2> SUFFICES ASSUME NEW rc, PiEnd(rc) PROVE CommandHolds' /\ RecordHolds(recovery, piPast')
    OBVIOUS
  <2>1. RecordHolds(recovery, piPast')
    <3>1. piPast.absorbed \subseteq piPast'.absorbed
          /\ (piPast'.quiet => (recovery.kept => piPast.quiet /\ piPast'.first = piPast.first))
      BY <1>3
    <3> QED
      BY <1>2, <3>1, RecordStays
  <2>2. CommandHolds'
    BY <1>3, <1>4 DEF CommandHolds
  <2> QED
    BY <2>1, <2>2
<1>6. CASE RestoreModels
  <2>1. UNCHANGED recovery /\ pi.at = "restore" /\ pi.goal.provider = NoProvider
        /\ (piPast.quiet => models = pi.read /\ pi.goal = piPast.first)
    BY <1>2, <1>6 DEF RestoreModels, PiAt, Uninstalling
  <2>2. CASE UNCHANGED models /\ PiEnd(1)
    <3>1. piPast'.ended.rc = 1
      BY <1>3, <2>2
    <3>5. ExactRestore'
      BY <3>1 DEF ExactRestore
    <3>2. FileHolds'
      BY <1>2, <1>3, <2>1, <2>2, <3>5 DEF FileHolds, ForeignKept, OtherEntriesKept, OursOnRecord
    <3> QED
      BY <1>2, <1>5, <2>1, <2>2, <3>2 DEF PiInv
  <2>3. CASE models = pi.read /\ models' = pi.goal /\ pi' = [pi EXCEPT !.at = "drop"] /\ UNCHANGED piPast
    <3>1. /\ pi' \in PiCommands /\ pi'.op = pi.op /\ pi'.at = "drop" /\ pi'.read = pi.read /\ pi'.save = pi.save
          /\ pi'.goal = pi.goal
      BY <1>1, <2>3 DEF PiCommands, PiSteps
    <3>2. piPast.mine \ piPast.absorbed \subseteq pi.goal.others
      <4>1. CASE pi.goal = pi.save.original /\ pi.read \in pi.save.files
        BY <1>2, <2>3, <4>1 DEF FileHolds, OtherEntriesKept, RecordHolds
      <4>2. CASE pi.goal = WithoutProvider(pi.read)
        BY <1>1, <1>2, <2>3, <4>2, WithoutProviderIs DEF FileHolds, OtherEntriesKept
      <4> QED
        BY <1>2, <4>1, <4>2 DEF Uninstalling
    <3>3. CommandHolds'
      BY <1>2, <2>1, <2>3, <3>1, Unlisted DEF CommandHolds, Uninstalling
    <3>4. FileHolds'
      BY <1>1, <1>2, <2>1, <2>3, <3>1, <3>2, Unlisted
         DEF FileHolds, ForeignKept, OtherEntriesKept, ExactRestore, OursOnRecord, Found, Derived
    <3> QED
      BY <1>2, <2>1, <2>3, <3>3, <3>4 DEF PiInv
  <2> QED
    BY <1>6, <2>2, <2>3 DEF RestoreModels, Unchanged
<1>7. CASE DropRecovery
  <2>1. recovery' = NoPiRecord /\ PiEnd(0) /\ UNCHANGED models /\ models.provider \notin PiCatalogs
        /\ (piPast.quiet => models = piPast.first)
    BY <1>2, <1>7 DEF DropRecovery, PiAt, Uninstalling
  <2>2. FileHolds'
    BY <1>2, <1>3, <2>1 DEF FileHolds, ForeignKept, OtherEntriesKept, ExactRestore, OursOnRecord
  <2> QED
    BY <1>4, <1>5, <2>1, <2>2 DEF PiInv
<1> QED
  BY <1>6, <1>7

\* ... a command that fails or is killed leaves it so, ...
LEMMA FailingKeeps == ASSUME PiInv, PiFails PROVE PiInv'
<1>1. PastType(piPast) /\ FileHolds /\ RecordHolds(recovery, piPast) /\ pi.op \in {"install", "uninstall"}
  BY PiTypes DEF PiInv, PiCommands, PiFails
<1>2. /\ UNCHANGED <<models, recovery>> /\ pi' = PiIdle /\ PastType(piPast')
      /\ piPast'.ended = [op |-> pi.op, rc |-> 1]
      /\ piPast'.mine = piPast.mine /\ piPast'.foreign = piPast.foreign /\ piPast'.first = piPast.first
      /\ piPast'.quiet = piPast.quiet /\ piPast'.absorbed = piPast.absorbed
  BY <1>1 DEF PiFails, PiFault, PastType
<1>3. RecordHolds(NoPiRecord, piPast') /\ PiIdle \in PiCommands /\ PiIdle.save = NoPiRecord /\ PiIdle.op = "none"
  BY DEF RecordHolds, NoPiRecord, NoModels, PiRecords, ModelFiles, PiIdle, PiCommands, PiSteps
<1>4. ExactRestore'
  BY <1>2 DEF ExactRestore
<1>5. FileHolds'
  BY <1>1, <1>2, <1>4 DEF FileHolds, ForeignKept, OtherEntriesKept, OursOnRecord
<1>6. CommandHolds' /\ RecordHolds(recovery, piPast')
  BY <1>1, <1>2, <1>3, RecordStays DEF CommandHolds
<1> QED
  BY <1>2, <1>5, <1>6 DEF PiInv

\* ... and so does the user.
LEMMA PiEditKeeps == ASSUME PiInv, EditModels PROVE PiInv'
<1>1. /\ models \in ModelFiles /\ recovery \in PiRecords /\ pi \in PiCommands /\ PastType(piPast)
      /\ FileHolds /\ RecordHolds(recovery, piPast) /\ CommandHolds
  BY PiTypes DEF PiInv
<1> DEFINE n == piPast.edits + 1
<1>2. n \in 0..MaxPiEdits
  BY <1>1, PiBounds DEF EditModels, PastType
<1>3. /\ models' \in ModelFiles /\ (Found(models') => models'.there)
      /\ models'.provider \in {models.provider, Foreign, NoProvider}
  <2>1. CASE \E o \in models.others : models' = [models EXCEPT !.others = @ \ {o}]
    BY <1>1, <2>1 DEF FileHolds, ModelFiles, Found
  <2>2. CASE models' = [models EXCEPT !.there = TRUE, !.others = @ \cup {n}]
    <3>1. models.others \cup {n} \in SUBSET (0..MaxPiEdits)
      BY <1>1, <1>2 DEF ModelFiles
    <3> QED
      BY <1>1, <2>2, <3>1 DEF FileHolds, ModelFiles, Found
  <2>3. CASE models' = [models EXCEPT !.there = TRUE, !.provider = Foreign]
    BY <1>1, <2>3 DEF ModelFiles
  <2>4. CASE models' = [models EXCEPT !.provider = NoProvider]
    BY <1>1, <2>4 DEF ModelFiles, Found
  <2>5. CASE models' = NoModels
    BY <2>5 DEF NoModels, ModelFiles, Found
  <2> QED
    BY <2>1, <2>2, <2>3, <2>4, <2>5 DEF EditModels
<1>4. /\ UNCHANGED <<recovery, pi>> /\ PastType(piPast') /\ piPast'.mine = models'.others
      /\ piPast'.quiet = FALSE /\ (piPast'.foreign <=> models'.provider = Foreign)
      /\ piPast'.absorbed = piPast.absorbed /\ piPast'.first = piPast.first
  BY <1>1, <1>2 DEF EditModels, PastType
<1>5. FileHolds'
  BY <1>1, <1>3, <1>4, Unlisted DEF FileHolds, ForeignKept, OtherEntriesKept, OursOnRecord, ExactRestore
<1>6. RecordHolds(recovery, piPast') /\ RecordHolds(pi.save, piPast')
  BY <1>1, <1>4, RecordStays DEF CommandHolds
<1>7. Installing /\ pi.op = "install" => Installing'
  BY <1>3, <1>4 DEF Installing
<1>8. Uninstalling /\ pi.op = "uninstall" => Uninstalling'
  BY <1>3, <1>4, Unlisted DEF Uninstalling
<1> QED
  BY <1>1, <1>4, <1>5, <1>6, <1>7, <1>8 DEF CommandHolds, PiInv

\* So every step keeps the invariant, ...
LEMMA PiStep == PiInv /\ [PiNext]_piVars => PiInv'
<1> SUFFICES ASSUME PiInv, [PiNext]_piVars PROVE PiInv'
  OBVIOUS
<1>1. CASE UNCHANGED piVars
  BY <1>1 DEF piVars, PiInv, FileHolds, CommandHolds, Installing, Uninstalling, ForeignKept, OursOnRecord,
              OtherEntriesKept, ExactRestore
<1> QED
  BY <1>1, InstallKeeps, InstallingKeeps, UninstallKeeps, UninstallingKeeps, FailingKeeps, PiEditKeeps DEF PiNext

\* ... and it holds in every state.
THEOREM PiInductive == PiSpec => []PiInv
BY PiStarts, PiStep, PTL DEF PiSpec

\* What is healthy can be removed.
LEMMA PiInvSound == PiInv => PiTypeOK /\ PiSound
<1> SUFFICES ASSUME PiInv PROVE PiTypeOK /\ PiSound
  OBVIOUS
<1>1. PiTypeOK
  BY PiTypes DEF PiTypeOK, PiRecords
<1>2. HealthyRemovable
  BY DEF HealthyRemovable, Healthy, Installed, RefusesUninstall, PiInv, FileHolds
<1> QED
  BY <1>1, <1>2 DEF PiInv, FileHolds, PiSound

\* In every behaviour of pi install and pi uninstall, wherever they are killed and whatever the
\* user edits, the user's own provider is never replaced or removed, an entry of theirs is on
\* record, a quiet uninstall is exact, and what is healthy can be removed.
THEOREM PiSoundThm == PiSpec => [](PiTypeOK /\ PiSound)
BY PiInductive, PiInvSound, PTL


---------------------------------------------------------------------------
(* ChoicesMC: the components together.                                      *)

\* The invariant of the component that moves.
ChoicesInv ==
    /\ part = "changes" => MenuInv
    /\ part = "catalog" => MenuCatalogInv
    /\ part = "routes"  => RouteInv
    /\ part = "codex"   => CodexInv
    /\ part = "pi"      => PiInv

\* It holds at the start, and every step keeps it.
LEMMA ChoicesStarts == ChoicesInit => ChoicesInv
BY MenuStarts, MenuCatalogInvInit, RouteStarts, CodexStarts, PiStarts DEF ChoicesInit, ChoicesInv, OneInv

\* A step of the component, or of one beside it.
LEMMA ChoicesStep == ChoicesInv /\ [ChoicesNext]_choicesVars => ChoicesInv'
<1> SUFFICES ASSUME ChoicesInv, [ChoicesNext]_choicesVars PROVE ChoicesInv'
  OBVIOUS
<1>1. UNCHANGED part
  BY DEF ChoicesNext, ChangesMove, CatalogMoves, RoutesMove, FilesMove, choicesVars
<1>2. part = "changes" => [MenuNext]_menuVars
  BY DEF ChoicesNext, ChangesMove, CatalogMoves, RoutesMove, FilesMove, choicesVars
<1>3. part = "catalog" => [MenuCatalogNext]_catalogVars
  BY DEF ChoicesNext, ChangesMove, CatalogMoves, RoutesMove, FilesMove, choicesVars
<1>4. part = "routes" => [RouteNext]_routeVars
  BY DEF ChoicesNext, ChangesMove, CatalogMoves, RoutesMove, FilesMove, choicesVars
<1>5. part = "codex" => [CodexNext]_codexVars
  BY DEF ChoicesNext, ChangesMove, CatalogMoves, RoutesMove, FilesMove, choicesVars, fileVars
<1>6. part = "pi" => [PiNext]_piVars
  BY DEF ChoicesNext, ChangesMove, CatalogMoves, RoutesMove, FilesMove, choicesVars, fileVars
<1> QED
  BY <1>1, <1>2, <1>3, <1>4, <1>5, <1>6, MenuStep, MenuCatalogInvStep, RouteMoves, CodexMoves, PiStep DEF ChoicesInv

\* In every behaviour of the run the invariant of the component that moves holds.
THEOREM ChoicesInductive == ChoicesSpec => []ChoicesInv
<1> QED
  BY ChoicesStarts, ChoicesStep, PTL DEF ChoicesSpec

\* The controls of the app stay closed over an unfinished change, a cancelled recovery runs no
\* command, and the catalog on screen is not that of an older key.
THEOREM AppSoundThm == ChoicesSpec => []AppSound
<1>1. ChoicesInv => AppSound
  BY MenuInvSound, MenuCatalogInvSound DEF ChoicesInv, AppSound
<1> QED
  BY <1>1, ChoicesInductive, PTL

\* A change that the router still runs when its status comes is never reported as failed: the
\* read behind its command is not one that began before it.
THEOREM NoFalseAlarmThm == ChoicesSpec => NoFalseAlarm
<1>1. ChoicesInv /\ [ChoicesNext]_choicesVars => [\A o \in AppOps : ~FalseAlarm(o)]_menuVars
  <2> SUFFICES ASSUME ChoicesInv, [ChoicesNext]_choicesVars, menuVars' # menuVars
               PROVE  \A o \in AppOps : ~FalseAlarm(o)
    OBVIOUS
  <2>1. part = "changes" /\ MenuNext
    BY DEF ChoicesNext, ChangesMove, CatalogMoves, RoutesMove, FilesMove, choicesVars
  <2> QED
    BY <2>1, NoStepAlarms DEF ChoicesInv
<1>2. [\A o \in AppOps : ~FalseAlarm(o)]_menuVars
      => [\A o \in AppOps :
             (ops[o].at = "confirm" /\ ops'[o].at = "failed")
             => ~(/\ reader[o].event.is = "snapshot" /\ ops[o].receipt = "applied"
                  /\ ops[o].made = Active)]_menuVars
  BY DEF FalseAlarm
<1> QED
  BY <1>1, <1>2, ChoicesInductive, PTL DEF ChoicesSpec, NoFalseAlarm

\* Every variable of the component that moves keeps its type.
THEOREM ChoicesTypesThm == ChoicesSpec => []TypesOK
<1>1. ChoicesInv => TypesOK
  <2>1. MenuInv => MenuTypeOK
    BY DEF MenuInv
  <2>2. MenuCatalogInv => MenuCatalogTypeOK
    BY DEF MenuCatalogInv
  <2> QED
    BY <2>1, <2>2, RouteInvSound, CodexInvSound, PiInvSound DEF ChoicesInv, TypesOK
<1> QED
  BY <1>1, ChoicesInductive, PTL

\* The invariant when one process at a time runs the commands for Codex.
OneChoicesInv == ChoicesInv /\ (part = "codex" => OneInv)

\* With one process that runs the commands for Codex, as in the run: requests go where the entry
\* says, and neither codex nor pi loses what the user wrote.
THEOREM ChoicesKeptThm == ASSUME OneCaller PROVE ChoicesSpec => []ChoicesKept
<1>1. ChoicesInit => OneChoicesInv
  BY ChoicesStarts, CodexStarts DEF ChoicesInit, OneChoicesInv
<1>2. OneChoicesInv /\ [ChoicesNext]_choicesVars => OneChoicesInv'
  <2> SUFFICES ASSUME OneChoicesInv, [ChoicesNext]_choicesVars PROVE OneChoicesInv'
    OBVIOUS
  <2>1. UNCHANGED part /\ (part = "codex" => [CodexNext]_codexVars)
    BY DEF ChoicesNext, ChangesMove, CatalogMoves, RoutesMove, FilesMove, choicesVars, fileVars
  <2> QED
    BY <2>1, ChoicesStep, CodexMoves DEF OneChoicesInv, OneInv
<1>3. OneChoicesInv => ChoicesKept
  BY RouteInvSound, OneInvSound, PiInvSound DEF OneChoicesInv, ChoicesInv, ChoicesKept
<1> QED
  BY <1>1, <1>2, <1>3, PTL DEF ChoicesSpec

\* However many processes run them, an off that had the files to itself leaves no overlay that
\* leads to the gateway.
THEOREM ChoicesOffUnwires == ChoicesSpec => [](part = "codex" => OffUnwires)
<1>1. ChoicesInv => (part = "codex" => OffUnwires)
  BY CodexInvSound DEF ChoicesInv
<1> QED
  BY <1>1, ChoicesInductive, PTL
=============================================================================
