---------------------------- MODULE MenuCatalog ----------------------------
(***************************************************************************)
(* The live model catalog in the menu bar app (BasetenSwitchState.swift    *)
(* 690-992 and 2286-2311).  Loads carry a generation; a change of the      *)
(* saved key, the window and the toolbar start, replace and invalidate     *)
(* them, and a status that shows a profile healthy again repeats a load    *)
(* that the signed out profile spoiled.                                    *)
(***************************************************************************)
EXTENDS Integers, Sequences

CONSTANTS
    MaxAuths,     \* bound on credential changes of one router process
    MaxRouters,   \* bound on router processes
    MaxLoads,     \* bound on catalog generations
    MaxStatuses   \* bound on status answers on their way

ASSUME CatalogBounds ==
    MaxAuths \in Nat /\ MaxRouters \in Nat /\ MaxLoads \in Nat /\ MaxStatuses \in Nat \ {0}

\* AuthStatus as the router reports it; revision starts again with a new process.
Auths == [router : 1..MaxRouters, revision : 0..MaxAuths, saved : BOOLEAN, healthy : BOOLEAN]
NoAuth == [router |-> 0, revision |-> 0, saved |-> FALSE, healthy |-> FALSE]

VARIABLES
    auth,       \* the credential of the router
    shown,      \* routingSnapshot.auth
    statuses,   \* status answers in the order they were accepted, with the task that waits
    catalog,    \* liveModelCatalogState and refreshingModelCatalog
    generation, \* modelCatalogGeneration
    again,      \* automaticCatalogRecoveryGeneration, 0 for nil
    fetches,    \* catalog requests: generation -> "none", "open" or what they were answered
    page,       \* clientPageRefreshTask and clientPageRefreshPending
    keyChange   \* updateSavedAPIKey

catalogVars == <<auth, shown, statuses, catalog, generation, again, fetches, page, keyChange>>

Answers == [is : {"none", "open", "ready", "signed out", "error"}, auth : Auths \cup {NoAuth}]
Nothing == [is |-> "none", auth |-> NoAuth]
Opened == [is |-> "open", auth |-> NoAuth]
States == {"idle", "loading", "ready", "signed out", "error"}

MaybeAuth == Auths \cup {NoAuth}
Catalogs == [state : States, of : MaybeAuth, kept : MaybeAuth]
Pages == [at : {"none", "reload", "status", "catalog"}, pending : BOOLEAN]

AuthType == auth \in Auths /\ shown \in Auths /\ statuses \in Seq([by : {"loop", "page", "key"}, auth : Auths])
LoadType ==
    /\ catalog \in Catalogs /\ generation \in 0..MaxLoads /\ again \in {0, generation}
    /\ fetches \in [1..MaxLoads -> Answers]
TaskType == page \in Pages /\ keyChange \in {"none", "sent", "read", "done"}

\* Every variable keeps the type the code gives it.
MenuCatalogTypeOK == AuthType /\ LoadType /\ TaskType

MenuCatalogInit ==
    /\ auth \in {a \in Auths : a.router = 1 /\ a.revision = 0}
    /\ shown = auth
    /\ statuses = <<>>
    /\ catalog = [state |-> "idle", of |-> NoAuth, kept |-> NoAuth]
    /\ generation = 0 /\ again = 0
    /\ fetches = [g \in 1..MaxLoads |-> Nothing]
    /\ page = [at |-> "none", pending |-> FALSE]
    /\ keyChange = "none"

-----------------------------------------------------------------------------
(* The three ways to touch the catalog, as records of what they leave:      *)
(* catalog, generation, again, fetches.                                     *)

Now == [catalog |-> catalog, generation |-> generation, again |-> again, fetches |-> fetches]

\* The task of the last generation is cancelled with every new one, and a task whose
\* generation has passed drops its answer.
Cancelled(c) == [g \in DOMAIN c.fetches |-> Nothing]

invalidateModelCatalog(c) ==
    [catalog |-> [state |-> "idle", of |-> NoAuth, kept |-> NoAuth],
     generation |-> c.generation + 1, again |-> 0, fetches |-> Cancelled(c)]

\* A mutant: a load that replaces another takes over its request for a repetition.
beginWithoutReset(c) ==
    [catalog |-> [state |-> "loading", of |-> NoAuth, kept |-> NoAuth],
     generation |-> c.generation + 1, again |-> c.again, fetches |-> Cancelled(c)]

beginModelCatalogLoading(c) ==
    [catalog |-> [state |-> "loading", of |-> NoAuth,
                  kept |-> CASE c.catalog.state = "ready"   -> c.catalog.of
                             [] c.catalog.state = "loading" -> c.catalog.kept
                             [] OTHER                       -> NoAuth],
     generation |-> c.generation + 1, again |-> 0, fetches |-> Cancelled(c)]

requestModelCatalogRefresh(c) ==
    LET b == beginModelCatalogLoading(c)
    IN [b EXCEPT !.fetches = [g \in 1..MaxLoads |-> IF g = b.generation THEN Opened ELSE b.fetches[g]]]

ensureModelCatalogLoaded(c) ==
    IF c.catalog.state = "idle" THEN requestModelCatalogRefresh(c) ELSE c

Becomes(c) ==
    /\ c.generation <= MaxLoads
    /\ catalog' = c.catalog /\ generation' = c.generation /\ again' = c.again /\ fetches' = c.fetches

-----------------------------------------------------------------------------
(* The router.                                                              *)

AuthChanges ==
    \E a \in Auths :
        /\ \/ /\ a.router = auth.router /\ a.revision = auth.revision + 1     \* a key is saved or removed
              /\ a.saved \/ auth.saved
           \/ /\ a.router = auth.router /\ a.revision = auth.revision         \* the profile signs in or out
              /\ ~a.saved /\ ~auth.saved /\ a.healthy # auth.healthy
           \/ /\ a.router = auth.router + 1 /\ a.revision = 0
        /\ auth' = a
        /\ UNCHANGED <<shown, statuses, catalog, generation, again, fetches, page, keyChange>>

\* A catalog request reads the credential when the router answers it.
CatalogAnswered(g) ==
    /\ fetches[g].is = "open"
    /\ \E kind \in {IF auth.healthy THEN "ready" ELSE "signed out", "error"} :
           fetches' = [fetches EXCEPT ![g] = [is |-> kind, auth |-> auth]]
    /\ UNCHANGED <<auth, shown, statuses, catalog, generation, again, page, keyChange>>

StatusAnswered(by) ==
    /\ Len(statuses) < MaxStatuses
    /\ \A i \in DOMAIN statuses : statuses[i].by # by
    /\ by = "page" => page.at = "status"
    /\ by = "key" => keyChange = "read"
    /\ statuses' = Append(statuses, [by |-> by, auth |-> auth])
    /\ UNCHANGED <<auth, shown, catalog, generation, again, fetches, page, keyChange>>

-----------------------------------------------------------------------------
(* apply() and the loads.                                                   *)

SavedKeyMoved(old, new) ==
    /\ old # NoAuth /\ (old.saved \/ new.saved)
    /\ old.router # new.router \/ old.revision # new.revision

\* requestAutomaticModelCatalogRecoveryIfNeeded
AfterStatus(old, new) ==
    IF SavedKeyMoved(old, new) THEN ensureModelCatalogLoaded(invalidateModelCatalog(Now))
    ELSE IF page.at # "none" \/ old = NoAuth \/ old.healthy \/ ~new.healthy THEN Now
    ELSE IF catalog.state = "loading" THEN [Now EXCEPT !.again = generation]
    ELSE requestModelCatalogRefresh(Now)

StatusApplied ==
    LET s == Head(statuses)
        c == AfterStatus(shown, s.auth)
    IN /\ statuses # <<>>
       /\ statuses' = Tail(statuses) /\ shown' = s.auth
       /\ \/ /\ s.by = "page" /\ page.at = "status"       \* and on to requestModelCatalogRefresh
             /\ page' = [page EXCEPT !.at = "catalog"]
             /\ Becomes(requestModelCatalogRefresh(c)) /\ UNCHANGED keyChange
          \/ /\ s.by = "key"                              \* the end of updateSavedAPIKey
             /\ keyChange' = "done" /\ Becomes(ensureModelCatalogLoaded(c)) /\ UNCHANGED page
          \/ /\ s.by # "key" /\ ~(s.by = "page" /\ page.at = "status")
             /\ Becomes(c) /\ UNCHANGED <<page, keyChange>>
       /\ UNCHANGED auth

\* The body of the load's task behind its await.  applyModelCatalog may load again.
LoadReturns(g) ==
    LET f == fetches[g]
        settled == [Now EXCEPT !.catalog = [state |-> f.is, of |-> f.auth, kept |-> NoAuth],
                               !.again = IF again = g THEN 0 ELSE again,
                               !.fetches = [fetches EXCEPT ![g] = Nothing]]
    IN /\ f.is \in {"ready", "signed out", "error"}
       /\ IF g # generation
          THEN fetches' = [fetches EXCEPT ![g] = Nothing] /\ UNCHANGED <<catalog, generation, again>>
          ELSE Becomes(IF again = g /\ f.is # "ready" THEN requestModelCatalogRefresh(settled) ELSE settled)
       /\ UNCHANGED <<auth, shown, statuses, page, keyChange>>

\* The window, another page of it, or a view asks for the catalog.
ViewAppears ==
    /\ catalog.state = "idle" /\ Becomes(ensureModelCatalogLoaded(Now))
    /\ UNCHANGED <<auth, shown, statuses, page, keyChange>>

-----------------------------------------------------------------------------
(* The toolbar of the client page.                                          *)

BeginPage(c) == page' = [at |-> "reload", pending |-> FALSE] /\ Becomes(beginModelCatalogLoading(c))

requestClientPageRefresh ==
    /\ IF page.at = "none" THEN BeginPage(Now)
       ELSE page' = [page EXCEPT !.pending = TRUE] /\ UNCHANGED <<catalog, generation, again, fetches>>
    /\ UNCHANGED <<auth, shown, statuses, keyChange>>

\* reloadAuth, whatever comes of it.
PageReloadsAuth ==
    /\ page.at = "reload" /\ page' = [page EXCEPT !.at = "status"]
    /\ UNCHANGED <<auth, shown, statuses, catalog, generation, again, fetches, keyChange>>

\* The status of the page may find the router gone.
PageWithoutStatus ==
    /\ page.at = "status" /\ \A i \in DOMAIN statuses : statuses[i].by # "page"
    /\ page' = [page EXCEPT !.at = "catalog"] /\ Becomes(requestModelCatalogRefresh(Now))
    /\ UNCHANGED <<auth, shown, statuses, keyChange>>

\* waitForModelCatalogRefresh ends when no load is under way.
PageEnds ==
    /\ page.at = "catalog" /\ fetches[generation].is = "none"
    /\ IF page.pending THEN BeginPage(Now)
       ELSE page' = [at |-> "none", pending |-> FALSE] /\ UNCHANGED <<catalog, generation, again, fetches>>
    /\ UNCHANGED <<auth, shown, statuses, keyChange>>

\* The status that a cancelled page waits for is still applied.
routerWindowDidClose ==
    /\ catalog.state # "idle" \/ page.at # "none"
    /\ page' = [at |-> "none", pending |-> FALSE]
    /\ Becomes(invalidateModelCatalog(Now))
    /\ statuses' = [i \in DOMAIN statuses |-> [statuses[i] EXCEPT !.by = IF @ = "page" THEN "loop" ELSE @]]
    /\ UNCHANGED <<auth, shown, keyChange>>

-----------------------------------------------------------------------------
(* updateSavedAPIKey.                                                       *)

updateSavedAPIKey ==
    /\ keyChange = "none" /\ keyChange' = "sent"
    /\ Becomes(invalidateModelCatalog(Now))
    /\ UNCHANGED <<auth, shown, statuses, page>>

\* The router takes the key, or refuses it, or its answer is lost.
KeyAnswered ==
    /\ keyChange = "sent" /\ keyChange' = "read"
    /\ \/ UNCHANGED auth
       \/ \E healthy, saved \in BOOLEAN :
              /\ saved \/ auth.saved
              /\ auth.revision < MaxAuths
              /\ auth' = [auth EXCEPT !.revision = @ + 1, !.saved = saved, !.healthy = healthy]
    /\ UNCHANGED <<shown, statuses, catalog, generation, again, fetches, page>>

KeyWithoutStatus ==
    /\ keyChange = "read" /\ \A i \in DOMAIN statuses : statuses[i].by # "key"
    /\ keyChange' = "done" /\ Becomes(ensureModelCatalogLoaded(Now))
    /\ UNCHANGED <<auth, shown, statuses, page>>

MenuCatalogNext ==
    \/ AuthChanges \/ StatusApplied \/ ViewAppears
    \/ \E by \in {"loop", "page", "key"} : StatusAnswered(by)
    \/ \E g \in 1..MaxLoads : CatalogAnswered(g) \/ LoadReturns(g)
    \/ requestClientPageRefresh \/ PageReloadsAuth \/ PageWithoutStatus \/ PageEnds \/ routerWindowDidClose
    \/ updateSavedAPIKey \/ KeyAnswered \/ KeyWithoutStatus

MenuCatalogSpec == MenuCatalogInit /\ [][MenuCatalogNext]_catalogVars
-----------------------------------------------------------------------------
(* What the app promises.                                                   *)

Older(a, b) == a.router < b.router \/ (a.router = b.router /\ a.revision < b.revision)

\* While the app shows a saved key, it offers no models that the router listed before it had
\* that key: neither as the catalog nor as what is kept on screen while a new one loads.
CatalogOfSavedKey ==
    \A of \in {catalog.of, catalog.kept} : of # NoAuth /\ shown.saved => ~Older(of, shown)

\* A catalog that says it is loading has a load under way, or a page that will start one.
LoadingEnds ==
    catalog.state = "loading" => fetches[generation].is # "none" \/ page.at \in {"reload", "status"}

MenuCatalogSound == CatalogOfSavedKey /\ LoadingEnds
=============================================================================
