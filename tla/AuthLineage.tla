---------------------------- MODULE AuthLineage ----------------------------
(***************************************************************************)
(* The Baseten credential of the router: the stores it is read from (the   *)
(* saved API key, the profile in auth.json, the OAuth entry in the         *)
(* keyring), the OAuth client built from them and its refreshes, the       *)
(* background tick that watches the stores, and the cached identity.       *)
(*                                                                         *)
(* Refresh tokens are numbered in the order the token endpoint issues      *)
(* them.  A refresh consumes a token and issues its successor.  A client   *)
(* keeps being used by the requests that picked it up before it was        *)
(* replaced.  Generations only enter comparisons for equality: a number is *)
(* used again once nothing refers to it, and a client that was replaced    *)
(* twice is forgotten unless its refresh is under way.                     *)
(***************************************************************************)
EXTENDS Integers, FiniteSets

CONSTANTS MaxTokens,    \* refresh tokens the endpoint issues
          MaxGens,      \* generations that may be referred to at once
          MaxInFlight,  \* refreshes under way at once
          MaxEvents     \* reloads and lookups asked for, changes of the stores,
                        \* lost responses, failed saves, revocations, restarts

ASSUME AuthAssumption ==
    /\ MaxTokens \in Nat \ {0} /\ MaxGens \in Nat /\ MaxInFlight \in Nat
    /\ MaxEvents \in Nat

Tokens   == 1..MaxTokens
NoToken  == 0
Gens     == 0..MaxGens
NoOne    == 0

VARIABLES
    keyring,     \* the refresh token in the profile's keyring entry
    profile,     \* what auth.json says of the profile: "none", "oauth", "api_key"
    file,        \* auth.json: "ok", "unreadable", "malformed"
    savedKey,    \* the saved API key: "none", "key", "error" (keychain locked)
    issued,      \* refresh tokens issued
    live,        \* those the endpoint would still accept
    owner,       \* owner[t]: the login that token t descends from
    authGen,
    client,      \* client[g]: the refresh token held by the client of g
    refresh,     \* refresh[g]: how far its refresh is
    source,      \* where the credential in use comes from
    authStoreFP, authDead, authDeadFP,
    email,       \* the login whose address is cached
    refreshing,      \* refreshAuthLocked, under reloadMu
    tick,        \* runAuthTick
    mail,        \* authEmailAndExpiry of one status request
    events

stores == <<keyring, profile, file, savedKey>>
server == <<issued, live, owner>>
health == <<authDead, authDeadFP>>
lineageVars   == <<stores, server, authGen, client, refresh, source, authStoreFP,
            health, email, refreshing, tick, mail, events>>

(***************************************************************************)
(* What a read of the stores finds.  A fingerprint names the credential    *)
(* it was taken of.                                                        *)
(***************************************************************************)
Found(kind, t) == [kind |-> kind, token |-> t]
NoFP == Found("none", NoToken)

\* auth.json that cannot be read still leaves the keyring entry of a profile.
LoadDetailed ==
    CASE file = "malformed"                          -> Found("malformed", NoToken)
      [] file = "unreadable" /\ keyring = NoToken    -> Found("unreadable", NoToken)
      [] file = "unreadable" /\ keyring # NoToken    -> Found("oauth", keyring)
      [] file = "ok" /\ profile = "api_key"          -> Found("api_key", NoToken)
      [] file = "ok" /\ profile = "oauth" /\ keyring # NoToken -> Found("oauth", keyring)
      [] OTHER                                       -> NoFP

StoreFailure(found) == found.kind \in {"malformed", "unreadable"}

\* The fingerprint published for a read: of the saved key if there is one.
StoreFP(saved, found) ==
    IF saved # "none" THEN Found(saved, NoToken)
    ELSE IF StoreFailure(found) THEN NoFP ELSE found

selectedCredentialStoreFingerprint == StoreFP(savedKey, LoadDetailed)

----------------------------------------------------------------------------
\* Every disturbance from outside counts.
Event == events < MaxEvents /\ events' = events + 1

NoStep == [at |-> "idle"]

Fresh ==
    /\ authGen = 0
    /\ client = [g \in Gens |-> NoToken]
    /\ refresh = [g \in Gens |-> "idle"]
    /\ source = "none" /\ authStoreFP = NoFP
    /\ authDead = FALSE /\ authDeadFP = NoToken
    /\ email = NoOne
    /\ refreshing = NoStep /\ tick = NoStep /\ mail = NoStep

LineageInit ==
    /\ \/ keyring = 1 /\ profile = "oauth"
       \/ keyring = NoToken /\ profile = "none"
    /\ file = "ok" /\ savedKey = "none"
    /\ issued = 1 /\ live = {1} /\ owner = [t \in Tokens |-> 1]
    /\ Fresh
    /\ events = 0

(***************************************************************************)
(* The router reloads its credential.                                      *)
(***************************************************************************)
\* The lock is taken and the stores are read, outside authMu.
ReadStores(saved) ==
    /\ refreshing = NoStep
    /\ refreshing' = [at |-> "read", saved |-> saved, found |-> LoadDetailed]

\* A reload by signal or by the admin endpoint.
AskReload ==
    /\ Event
    /\ ReadStores(savedKey)
    /\ UNCHANGED <<stores, server, authGen, client, refresh, source, authStoreFP,
                   health, email, tick, mail>>

\* A saved-key mutation of the admin API changes the store under the same
\* lock, and reloads even when it failed.
handleSavedAPIKey ==
    /\ Event
    /\ savedKey' \in {savedKey, "none", "key"}
    /\ ReadStores(savedKey')
    /\ UNCHANGED <<keyring, profile, file, server, authGen, client, refresh,
                   source, authStoreFP, health, email, tick, mail>>

SourceOf(saved, found) ==
    IF saved # "none" THEN "saved"
    ELSE IF StoreFailure(found) THEN "none" ELSE found.kind

\* Variant: the fingerprint comes from a second read of the stores.
PublishedFPRereads == selectedCredentialStoreFingerprint

PublishedFP == StoreFP(refreshing.saved, refreshing.found)

\* Numbers of generations to which nothing refers any more.
FreeGens ==
    {g \in Gens : /\ g # authGen /\ client[g] = NoToken /\ refresh[g] = "idle"
                  /\ "gen" \in DOMAIN tick => tick.gen # g
                  /\ "gen" \in DOMAIN mail => mail.gen # g}

NextGen == CHOOSE g \in FreeGens : TRUE

Publish ==
    LET src     == SourceOf(refreshing.saved, refreshing.found)
        cred    == IF src = "oauth" THEN refreshing.found.token ELSE NoToken
        changed == PublishedFP # authStoreFP
        revived == changed \/ cred # authDeadFP
    IN  /\ FreeGens # {}
        /\ authGen' = NextGen
        /\ client' = [g \in Gens |->
                        IF g = NextGen THEN cred
                        ELSE IF g = authGen \/ refresh[g] # "idle" THEN client[g]
                        ELSE NoToken]
        /\ source' = src
        /\ authStoreFP' = PublishedFP
        /\ authDead' = (authDead /\ ~revived)
        /\ authDeadFP' = IF authDead /\ ~revived THEN authDeadFP ELSE NoToken
        /\ email' = IF changed THEN NoOne ELSE email

\* The credential is published.  Stores that cannot be read keep the client
\* in use, unless that was a saved key.
refreshAuthLocked ==
    /\ refreshing.at = "read"
    /\ refreshing' = NoStep
    /\ IF refreshing.saved = "none" /\ StoreFailure(refreshing.found) /\ source # "saved"
         THEN UNCHANGED <<authGen, client, source, authStoreFP, health, email>>
         ELSE Publish
    /\ tick' = IF tick.at = "reloading" THEN NoStep ELSE tick
    /\ UNCHANGED <<stores, server, refresh, mail, events>>

(***************************************************************************)
(* One refresh of the client of generation g, on a request or a tick.  The *)
(* mutex of the token source allows one at a time.                         *)
(***************************************************************************)
Rotates(g) ==
    /\ client[g] \in live /\ issued < MaxTokens
    /\ issued' = issued + 1
    /\ live' = (live \ {client[g]}) \cup {issued'}
    /\ owner' = [owner EXCEPT ![issued'] = owner[client[g]]]

\* The token endpoint answers: a successor, a rejection, or an error that
\* says nothing of the token.  An answer may be lost after a rotation.
AskEndpoint(g) ==
    /\ client[g] # NoToken /\ refresh[g] = "idle"
    /\ Cardinality({h \in Gens : refresh[h] # "idle"}) < MaxInFlight
    /\ \/ /\ Rotates(g)
          /\ refresh' = [refresh EXCEPT ![g] = "rotated"]
          /\ client' = [client EXCEPT ![g] = issued']
          /\ UNCHANGED events
       \/ /\ Rotates(g) /\ Event
          /\ UNCHANGED <<refresh, client>>
       \/ /\ client[g] \notin live
          /\ refresh' = [refresh EXCEPT ![g] = "rejected"]
          /\ UNCHANGED <<server, client, events>>

RequestRefreshes(g) ==
    /\ AskEndpoint(g)
    /\ UNCHANGED <<stores, authGen, source, authStoreFP, health, email, refreshing,
                   tick, mail>>

\* Variant: outcomes of replaced clients count too.
NotesOfAll(g) == TRUE

\* Outcomes of clients that were replaced are dropped.
Notes(g) == g = authGen

\* Notify, before the successor is saved.
noteAuthRefresh(g) ==
    /\ \/ /\ refresh[g] = "rotated"
          /\ refresh' = [refresh EXCEPT ![g] = "announced"]
          /\ IF Notes(g) THEN authDead' = FALSE /\ authDeadFP' = NoToken
                         ELSE UNCHANGED health
       \/ /\ refresh[g] = "rejected"
          /\ refresh' = [refresh EXCEPT ![g] = "idle"]
          /\ IF Notes(g) THEN authDead' = TRUE /\ authDeadFP' = client[g]
                         ELSE UNCHANGED health
    /\ UNCHANGED <<stores, server, authGen, client, source, authStoreFP, email,
                   refreshing, tick, mail, events>>

\* The successor goes to the keyring entry whatever is there by now; an
\* error of the keyring is ignored.
Save(g) ==
    /\ refresh[g] = "announced"
    /\ refresh' = [refresh EXCEPT ![g] = "idle"]
    /\ \/ keyring' = client[g] /\ UNCHANGED events
       \/ Event /\ UNCHANGED keyring
    /\ UNCHANGED <<profile, file, savedKey, server, authGen, client, source,
                   authStoreFP, health, email, refreshing, tick, mail>>

(***************************************************************************)
(* The background tick.                                                    *)
(***************************************************************************)
TickSnapshots ==
    /\ tick = NoStep
    /\ tick' = [at |-> "snapshot", dead |-> authDead, fp |-> authStoreFP,
                gen |-> authGen, oauth |-> source = "oauth"]
    /\ UNCHANGED <<stores, server, authGen, client, refresh, source, authStoreFP,
                   health, email, refreshing, mail, events>>

\* Variant: a dead credential ends the tick before the stores are read.
TickChangedUnlessDead ==
    selectedCredentialStoreFingerprint # tick.fp /\ ~tick.dead

TickChanged == selectedCredentialStoreFingerprint # tick.fp

\* The stores are read outside authMu, and the tick reloads, rests or goes
\* on to the client of its snapshot.
TickObserves ==
    /\ tick.at = "snapshot"
    /\ tick' = CASE TickChanged -> [at |-> "reload"]
                 [] ~TickChanged /\ (tick.dead \/ ~tick.oauth) -> NoStep
                 [] OTHER -> [at |-> "token", gen |-> tick.gen]
    /\ UNCHANGED <<stores, server, authGen, client, refresh, source, authStoreFP,
                   health, email, refreshing, mail, events>>

TickReloads ==
    /\ tick.at = "reload"
    /\ ReadStores(savedKey)
    /\ tick' = [at |-> "reloading"]
    /\ UNCHANGED <<stores, server, authGen, client, refresh, source, authStoreFP,
                   health, email, mail, events>>

\* The access token is still good, or a refresh was waited for.
TickRests ==
    /\ tick.at \in {"token", "waiting"} /\ refresh[tick.gen] = "idle"
    /\ tick' = NoStep
    /\ UNCHANGED <<stores, server, authGen, client, refresh, source, authStoreFP,
                   health, email, refreshing, mail, events>>

TickRefreshes ==
    /\ tick.at = "token"
    /\ AskEndpoint(tick.gen)
    /\ tick' = [tick EXCEPT !.at = "waiting"]
    /\ UNCHANGED <<stores, authGen, source, authStoreFP, health, email, refreshing,
                   mail>>

(***************************************************************************)
(* A status request looks up whose credential it is.                       *)
(***************************************************************************)
MailAsks ==
    /\ Event
    /\ mail = NoStep /\ source = "oauth" /\ email = NoOne
    /\ mail' = [at |-> "asked", gen |-> authGen, who |-> owner[client[authGen]]]
    /\ UNCHANGED <<stores, server, authGen, client, refresh, source, authStoreFP,
                   health, email, refreshing, tick>>

\* Variant: the answer is cached without a look at the generation.
MailCurrentAlways == TRUE

MailCurrent == mail.gen = authGen

MailStores ==
    /\ mail.at = "asked"
    /\ mail' = NoStep
    /\ email' = IF MailCurrent THEN mail.who ELSE email
    /\ UNCHANGED <<stores, server, authGen, client, refresh, source, authStoreFP,
                   health, refreshing, tick, events>>

(***************************************************************************)
(* People, the Baseten CLI, the token endpoint, a crash.                   *)
(***************************************************************************)
Outside == UNCHANGED <<authGen, client, refresh, source, authStoreFP, health,
                       email, refreshing, tick, mail>>

Logins == {owner[t] : t \in 1..issued}

Login ==
    /\ Event /\ issued < MaxTokens
    /\ issued' = issued + 1 /\ live' = live \cup {issued'}
    /\ owner' = [owner EXCEPT ![issued'] = Cardinality(Logins) + 1]
    /\ keyring' = issued' /\ profile' = "oauth" /\ file' = "ok"
    /\ UNCHANGED savedKey /\ Outside

Logout ==
    /\ Event
    /\ keyring' = NoToken /\ profile' = "none"
    /\ UNCHANGED <<file, savedKey, server>> /\ Outside

UseProfileKey ==
    /\ Event
    /\ profile' = "api_key" /\ file' = "ok"
    /\ UNCHANGED <<keyring, savedKey, server>> /\ Outside

FileChanges ==
    /\ Event
    /\ file' \in {"ok", "unreadable", "malformed"} \ {file}
    /\ UNCHANGED <<keyring, profile, savedKey, server>> /\ Outside

SavedKeyChanges ==
    /\ Event
    /\ savedKey' \in {"none", "key", "error"} \ {savedKey}
    /\ UNCHANGED <<keyring, profile, file, server>> /\ Outside

Revoke(t) ==
    /\ Event
    /\ t \in live /\ live' = live \ {t}
    /\ UNCHANGED <<stores, issued, owner>> /\ Outside

Restart ==
    /\ Event
    /\ authGen' = 0 /\ client' = [g \in Gens |-> NoToken]
    /\ refresh' = [g \in Gens |-> "idle"]
    /\ source' = "none" /\ authStoreFP' = NoFP
    /\ authDead' = FALSE /\ authDeadFP' = NoToken /\ email' = NoOne
    /\ refreshing' = NoStep /\ tick' = NoStep /\ mail' = NoStep
    /\ UNCHANGED <<stores, server>>

LineageNext ==
    \/ AskReload \/ handleSavedAPIKey \/ refreshAuthLocked
    \/ \E g \in Gens : RequestRefreshes(g) \/ noteAuthRefresh(g) \/ Save(g)
    \/ TickSnapshots \/ TickObserves \/ TickReloads \/ TickRests \/ TickRefreshes
    \/ MailAsks \/ MailStores
    \/ Login \/ Logout \/ UseProfileKey \/ FileChanges \/ SavedKeyChanges
    \/ \E t \in Tokens : Revoke(t)
    \/ Restart

(***************************************************************************)
(* Goroutines run on, the endpoint and the stores answer, the timer of the *)
(* tick fires.  Nobody has to send requests, log in or reload.             *)
(***************************************************************************)
LineageFairness ==
    /\ WF_lineageVars(refreshAuthLocked)
    /\ WF_lineageVars(TickSnapshots) /\ WF_lineageVars(TickObserves)
    /\ SF_lineageVars(TickReloads) /\ SF_lineageVars(TickRests)
    /\ \A g \in Gens : /\ WF_lineageVars(noteAuthRefresh(g))
                        /\ WF_lineageVars(Save(g))

LineageSpec == LineageInit /\ [][LineageNext]_lineageVars /\ LineageFairness

----------------------------------------------------------------------------
Prints == [kind : {"none", "oauth", "api_key", "key", "error"}, token : 0..issued]
Reads  == [kind : {"none", "oauth", "api_key", "malformed", "unreadable"}, token : 0..issued]

StoreType ==
    /\ keyring \in 0..issued /\ profile \in {"none", "oauth", "api_key"}
    /\ file \in {"ok", "unreadable", "malformed"}
    /\ savedKey \in {"none", "key", "error"}
ServerType == issued \in Tokens /\ live \subseteq 1..issued /\ owner \in [Tokens -> Tokens]
ClientType ==
    /\ authGen \in Gens /\ client \in [Gens -> 0..issued]
    /\ refresh \in [Gens -> {"idle", "rotated", "rejected", "announced"}]
    /\ \A g \in Gens : refresh[g] # "idle" => client[g] # NoToken
SourceType ==
    /\ source \in {"none", "oauth", "api_key", "saved"} /\ authStoreFP \in Prints
    /\ authDead \in BOOLEAN /\ authDeadFP \in 0..issued
    /\ email \in {NoOne} \cup Tokens
RefreshingType ==
    \/ refreshing = NoStep
    \/ /\ refreshing \in [at : {"read"}, saved : {"none", "key", "error"}, found : Reads]
       /\ refreshing.found.kind = "oauth" => refreshing.found.token # NoToken
TickType ==
    \/ tick = NoStep
    \/ tick \in [at : {"snapshot"}, dead : BOOLEAN, fp : Prints, gen : Gens, oauth : BOOLEAN]
    \/ tick \in [at : {"reload", "reloading"}]
    \/ tick \in [at : {"token", "waiting"}, gen : Gens]
EventsType == events \in 0..MaxEvents
MailType ==
    \/ mail = NoStep
    \/ mail \in [at : {"asked"}, gen : Gens, who : Tokens]

LineageTypeOK ==
    /\ StoreType /\ ServerType /\ ClientType /\ SourceType
    /\ RefreshingType /\ TickType /\ MailType /\ EventsType

\* A credential is called dead only when the refresh token in use really was
\* rejected: the outcome of a client that was replaced, which may arrive
\* after a new login, must not mark the new credential (noteAuthRefresh).
DeadIsTrue ==
    authDead => source = "oauth" /\ client[authGen] \notin live

\* The cached address belongs to the credential in use: a lookup that was
\* sent under an earlier one must not fill the cache (authEmailAndExpiry).
EmailBelongs ==
    email # NoOne => source = "oauth" /\ email = owner[client[authGen]]

\* Once the stores hold a refresh token that the endpoint accepts, and stay
\* so, the router ends up with that token and without a dead credential,
\* whatever reloads, refreshes of replaced clients and earlier failures were
\* under way (authTickOnce, "self-heals after a re-login without SIGHUP").
Usable ==
    savedKey = "none" /\ file = "ok" /\ profile = "oauth" /\ keyring \in live

SelfHeals ==
    <>[]Usable => <>[](source = "oauth" /\ ~authDead /\ client[authGen] = keyring)

\* What the stores select in the end is what the router uses in the end,
\* also after the credential is gone or of another kind.
StoreChangesConverge ==
    <>[](file = "ok" /\ selectedCredentialStoreFingerprint.kind # "oauth")
        => <>[](/\ authStoreFP = selectedCredentialStoreFingerprint
                /\ source = SourceOf(savedKey, LoadDetailed))

\* What the router shows of its credential is true: the two invariants above
\* on outcomes and answers that arrive late.
CredentialTrue == DeadIsTrue /\ EmailBelongs

\* The router ends up with what the stores hold, usable or not: the two
\* properties above.
StoresConverge == SelfHeals /\ StoreChangesConverge

=============================================================================
