---------------------------- MODULE UpdateCheck -----------------------------
(***************************************************************************)
(* update check, update automatic and the hint under status, up and doctor *)
(* (internal/updates, cmd/baseten-switch/update.go).  The processes of the *)
(* app and of terminals share three files: the preference, the cache of    *)
(* the last check and a lock.  A release may be withdrawn, a request fail, *)
(* a save fail, and a process be killed between any two steps.             *)
(***************************************************************************)
EXTENDS Naturals, Sequences, FiniteSets

CONSTANTS UpdateCallers,     \* processes that run a command at a time
          CheckInterval,     \* ticks between two automatic checks
          FailureBackoff,    \* ticks after a failure
          RetryAfter,        \* ticks that a refusing server asks for
          MaxTicks,          \* bound on the clock
          MaxUpdateRuns,     \* bound: commands started
          MaxReleases,       \* bound: releases published or withdrawn
          MaxToggles,        \* bound: changes of the preference
          MaxUpdateFaults    \* bound: kills and failing saves

Unlocked == "nobody"

ASSUME UpdateBounds ==
    /\ Unlocked \notin UpdateCallers
    /\ CheckInterval \in Nat \ {0} /\ FailureBackoff \in Nat /\ RetryAfter \in Nat
    /\ MaxTicks \in Nat \ {0} /\ MaxUpdateRuns \in Nat /\ MaxReleases \in Nat /\ MaxToggles \in Nat /\ MaxUpdateFaults \in Nat

VARIABLES clock,        \* time, from 1; 0 is a time that is not known
          release,      \* the version that the formula and the releases agree on; 0 is the installed one
          preference,   \* preference.json: "none", "on", "off" or "broken"
          cache,        \* cache.json as readCache takes it
          checkLock,    \* the process that holds check.lock
          checker,      \* process -> its command
          updatePast    \* history: bounds, the automatic checks begun, the last one saved, the hints printed

updateVars == <<clock, release, preference, cache, checkLock, checker, updatePast>>

Versions == 0..2      \* the installed version is 0
NoCache == [version |-> 0, known |-> FALSE, checked |-> 0, next |-> 0, failed |-> FALSE, noticed |-> 0, noticedAt |-> 0]
NoCheck == [kind |-> "none", at |-> "idle", state |-> NoCache, allowed |-> FALSE, now |-> 0, ok |-> FALSE, target |-> 0]
Kinds == {"automatic", "refresh", "hint"}

automatic == preference \in {"none", "on"}
IsNewer(target) == target > 0
Due(state) == state.next <= clock
Wants(kind) == kind = "refresh" \/ automatic

UpdateEnds(p) == checker' = [checker EXCEPT ![p] = NoCheck]
UpdateFault == updatePast.faults < MaxUpdateFaults

-----------------------------------------------------------------------------
(* Check.                                                                  *)

\* A hint goes on to TakeNotice when the check's answer is an available release, a check that
\* failed included (maybePrintUpdateNotice ignores the error).
CheckAnswers(p, state, allowed) ==
    IF checker[p].kind = "hint" /\ allowed /\ IsNewer(state.version)
    THEN checker' = [checker EXCEPT ![p] = [NoCheck EXCEPT !.kind = "hint", !.at = "notice", !.target = state.version]]
    ELSE UpdateEnds(p)

BeginCheck(p, kind) ==
    /\ checker[p].kind = "none" /\ updatePast.runs < MaxUpdateRuns
    /\ checker' = [checker EXCEPT ![p] = [NoCheck EXCEPT !.kind = kind, !.at = "look"]]
    /\ updatePast' = [updatePast EXCEPT !.runs = @ + 1]
    /\ UNCHANGED <<clock, release, preference, cache, checkLock>>

\* Without the lock: an answer from the cache, or a wish for the lock.
LookAtCache(p) ==
    /\ checker[p].at = "look"
    /\ IF preference = "broken" THEN UpdateEnds(p)
       ELSE IF ~Wants(checker[p].kind) \/ (checker[p].kind # "refresh" /\ ~Due(cache)) THEN CheckAnswers(p, cache, automatic)
       ELSE checker' = [checker EXCEPT ![p].at = "lock", ![p].state = cache, ![p].allowed = automatic]
    /\ UNCHANGED <<clock, release, preference, cache, checkLock, updatePast>>

\* A mutant: the file is only looked at before the lock.
StillDueSeen(kind) == kind = "refresh" \/ automatic

\* With the lock both files are read again.
StillDue(kind) == kind = "refresh" \/ (automatic /\ Due(cache))

LockCheck(p) ==
    /\ checker[p].at = "lock" /\ checkLock = Unlocked
    /\ IF preference = "broken" THEN UpdateEnds(p) /\ UNCHANGED <<checkLock, updatePast>>
       ELSE IF ~StillDue(checker[p].kind) THEN CheckAnswers(p, cache, automatic) /\ UNCHANGED <<checkLock, updatePast>>
       ELSE /\ checkLock' = p
            /\ checker' = [checker EXCEPT ![p].at = "fetch", ![p].state = cache, ![p].allowed = automatic, ![p].now = clock]
            /\ updatePast' = IF checker[p].kind = "refresh" THEN updatePast
                             ELSE [updatePast EXCEPT !.begun = @ + 1]
    /\ UNCHANGED <<clock, release, preference, cache>>

\* The context of five seconds, or of one for a hint, ends; the answer is from before.
LockTimesOut(p) ==
    /\ checker[p].at = "lock" /\ checkLock # Unlocked
    /\ CheckAnswers(p, checker[p].state, checker[p].allowed)
    /\ UNCHANGED <<clock, release, preference, cache, checkLock, updatePast>>

After(ticks) == clock + ticks
Larger(a, b) == IF a > b THEN a ELSE b

Succeeded(state, now) ==
    [state EXCEPT !.version = release, !.known = TRUE, !.checked = now, !.failed = FALSE, !.next = now + CheckInterval]

\* A failure keeps the confirmed target and the time of its check.
Failed(state, now, retryAt) == [state EXCEPT !.failed = TRUE, !.next = Larger(now + FailureBackoff, retryAt)]

Fetch(p) ==
    /\ checker[p].at = "fetch"
    /\ \/ checker' = [checker EXCEPT ![p].at = "save", ![p].ok = TRUE,
                                     ![p].state = Succeeded(checker[p].state, checker[p].now)]
       \/ \E retryAt \in {0, After(RetryAfter)} :
            checker' = [checker EXCEPT ![p].at = "save", ![p].ok = FALSE,
                                       ![p].state = Failed(checker[p].state, checker[p].now, retryAt)]
    /\ UNCHANGED <<clock, release, preference, cache, checkLock, updatePast>>

\* Saved, and answered with the preference as it is by now.
SaveCheck(p) ==
    /\ checker[p].at = "save"
    /\ cache' = checker[p].state /\ checkLock' = Unlocked
    /\ CheckAnswers(p, checker[p].state, automatic)
    /\ updatePast' = [updatePast EXCEPT !.lastSaved = clock,
                        !.confirmed = IF checker[p].ok THEN [version |-> cache'.version, at |-> cache'.checked] ELSE @]
    /\ UNCHANGED <<clock, release, preference>>

SaveCheckFails(p) ==
    /\ checker[p].at = "save" /\ UpdateFault
    /\ checkLock' = Unlocked
    /\ CheckAnswers(p, checker[p].state, checker[p].allowed)
    /\ updatePast' = [updatePast EXCEPT !.faults = @ + 1]
    /\ UNCHANGED <<clock, release, preference, cache>>

-----------------------------------------------------------------------------
(* TakeNotice, under the lock from its first read to its save.             *)

NoticeDue(target) ==
    /\ automatic /\ cache.version = target /\ IsNewer(target)
    /\ ~(cache.noticed = target /\ cache.noticedAt # 0 /\ clock < cache.noticedAt + CheckInterval)

LockNotice(p) ==
    /\ checker[p].at = "notice" /\ checkLock = Unlocked
    /\ IF NoticeDue(checker[p].target)
       THEN /\ checkLock' = p
            /\ checker' = [checker EXCEPT ![p].at = "mark",
                             ![p].state = [cache EXCEPT !.noticed = checker[p].target, !.noticedAt = clock]]
       ELSE UpdateEnds(p) /\ UNCHANGED checkLock
    /\ UNCHANGED <<clock, release, preference, cache, updatePast>>

NoticeTimesOut(p) ==
    /\ checker[p].at = "notice" /\ checkLock # Unlocked
    /\ UpdateEnds(p)
    /\ UNCHANGED <<clock, release, preference, cache, checkLock, updatePast>>

\* The hint is printed once the mark is saved.
TakeNotice(p) ==
    /\ checker[p].at = "mark"
    /\ cache' = checker[p].state /\ checkLock' = Unlocked
    /\ UpdateEnds(p)
    /\ updatePast' = [updatePast EXCEPT !.hints = Append(@, [of |-> checker[p].target, at |-> cache'.noticedAt])]
    /\ UNCHANGED <<clock, release, preference>>

MarkFails(p) ==
    /\ checker[p].at = "mark" /\ UpdateFault
    /\ checkLock' = Unlocked
    /\ UpdateEnds(p)
    /\ updatePast' = [updatePast EXCEPT !.faults = @ + 1]
    /\ UNCHANGED <<clock, release, preference, cache>>

-----------------------------------------------------------------------------
(* Around the checks.                                                      *)

\* The preference is a file of its own, written whole and without the lock.
SetAutomatic ==
    /\ updatePast.toggles < MaxToggles
    /\ preference' \in {"on", "off"} \ {preference}
    /\ updatePast' = [updatePast EXCEPT !.toggles = @ + 1]
    /\ UNCHANGED <<clock, release, cache, checkLock, checker>>

Publish ==
    /\ updatePast.releases < MaxReleases
    /\ release' \in Versions \ {0, release}
    /\ updatePast' = [updatePast EXCEPT !.releases = @ + 1]
    /\ UNCHANGED <<clock, preference, cache, checkLock, checker>>

\* A check lasts seconds, a tick hours: no time passes while the lock is held.
UpdateTick ==
    /\ clock < MaxTicks /\ checkLock = Unlocked
    /\ clock' = clock + 1
    /\ UNCHANGED <<release, preference, cache, checkLock, checker, updatePast>>

\* The lock goes with the process.
KillChecker(p) ==
    /\ checker[p].kind # "none" /\ UpdateFault
    /\ UpdateEnds(p)
    /\ checkLock' = IF checkLock = p THEN Unlocked ELSE checkLock
    /\ updatePast' = [updatePast EXCEPT !.faults = @ + 1]
    /\ UNCHANGED <<clock, release, preference, cache>>

-----------------------------------------------------------------------------
Ticks == 0..MaxTicks    \* 0 is a time that is not known
Caches == [version : Versions, known : BOOLEAN, checked : Ticks, next : Nat, failed : BOOLEAN,
           noticed : Versions, noticedAt : Ticks]

Steps == {"look", "lock", "fetch", "save", "notice", "mark"}
CheckRecords == [kind : Kinds \cup {"none"}, at : Steps \cup {"idle"}, state : Caches, allowed : BOOLEAN,
                 now : Ticks, ok : BOOLEAN, target : Versions]
Checks == {c \in CheckRecords : c.kind = "none" <=> c.at = "idle"}
Hints == [of : Versions, at : 1..MaxTicks]

FilesType ==
    /\ clock \in 1..MaxTicks /\ release \in Versions
    /\ preference \in {"none", "on", "off", "broken"} /\ cache \in Caches
CheckerType ==
    /\ checkLock \in UpdateCallers \cup {Unlocked}
    /\ checker \in [UpdateCallers -> Checks]
PastType ==
    updatePast \in [runs : 0..MaxUpdateRuns, toggles : 0..MaxToggles, releases : 0..MaxReleases,
                    faults : 0..MaxUpdateFaults, lastSaved : Ticks,
                    confirmed : [version : Versions, at : Ticks], begun : Nat, hints : Seq(Hints)]

\* Every variable keeps the type the code gives it.
UpdateTypeOK == FilesType /\ CheckerType /\ PastType

\* A file that does not parse, or names a version without a time, counts as no cache.
UpdateInit ==
    /\ clock = 1 /\ release = 1 /\ preference \in {"none", "broken"}
    /\ cache = NoCache /\ checkLock = Unlocked
    /\ checker = [p \in UpdateCallers |-> NoCheck]
    /\ updatePast = [runs |-> 0, toggles |-> 0, releases |-> 0, faults |-> 0, lastSaved |-> 0,
                     confirmed |-> [version |-> 0, at |-> 0], begun |-> 0,
                     hints |-> <<>>]

UpdateNext ==
    \/ SetAutomatic \/ Publish \/ UpdateTick
    \/ \E p \in UpdateCallers :
        \/ \E kind \in Kinds : BeginCheck(p, kind)
        \/ LookAtCache(p) \/ LockCheck(p) \/ LockTimesOut(p) \/ Fetch(p) \/ SaveCheck(p) \/ SaveCheckFails(p)
        \/ LockNotice(p) \/ NoticeTimesOut(p) \/ TakeNotice(p) \/ MarkFails(p) \/ KillChecker(p)

UpdateSpec == UpdateInit /\ [][UpdateNext]_updateVars

-----------------------------------------------------------------------------
\* What the cache says of the last confirmed release is what the last check that succeeded and was
\* saved found, through failures, hints and kills (updates.go:231-232).
ConfirmedKept == cache.version = updatePast.confirmed.version /\ cache.checked = updatePast.confirmed.at

\* No automatic check asks the server again within a day of a check that succeeded, nor within the
\* backoff of one that failed, whichever process made it, and none once checks were switched off.
AutomaticSpaced ==
    [][updatePast'.begun # updatePast.begun =>
         /\ automatic
         /\ updatePast.lastSaved # 0 =>
              clock >= updatePast.lastSaved + (IF cache.failed THEN FailureBackoff ELSE CheckInterval)]_updateVars

\* One terminal prints a hint of a target, and no other does within a day, unless another target
\* came between.
HintsSpaced ==
    \A i \in 2..Len(updatePast.hints) :
        updatePast.hints[i].of = updatePast.hints[i - 1].of
        => updatePast.hints[i].at >= updatePast.hints[i - 1].at + CheckInterval

\* Refuted: "TakeNotice deduplicates human terminal hints by target and day" (updates.go:305); the
\* cache holds one target, so a release that is replaced and comes back is announced again.
HintOncePerTarget ==
    \A i, j \in DOMAIN updatePast.hints :
        i < j /\ updatePast.hints[i].of = updatePast.hints[j].of
        => updatePast.hints[j].at >= updatePast.hints[i].at + CheckInterval
=============================================================================
