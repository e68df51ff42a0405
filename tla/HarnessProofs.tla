---------------------------- MODULE HarnessProofs ----------------------------
(* Theorems about components of HarnessMC, for any processes and any values   *)
(* of the bounds.                                                             *)
EXTENDS HarnessMC, FiniteSetTheorems, SequenceTheorems, TLAPS

---------------------------------------------------------------------------
(* UpdateCheck.                                                             *)

UnderLock == {"fetch", "save", "mark"}
NotDueBefore(state, at) ==
    state.next >= at + (IF state.failed THEN FailureBackoff ELSE CheckInterval)
NoticedLately(target) ==
    cache.noticed = target /\ cache.noticedAt # 0 /\ clock < cache.noticedAt + CheckInterval

\* The process that holds the lock is between reading the cache under it and saving the cache.
LockHeld == \A p \in UpdateCallers : checker[p].at \in UnderLock <=> checkLock = p

\* What a process has read under the lock is still so, the time included.
FetchKnows ==
    \A p \in UpdateCallers :
        checker[p].at = "fetch" => checker[p].state = cache /\ checker[p].now = clock

\* What it is about to save keeps what it did not learn, and the distance to the next check.
SaveKnows ==
    \A p \in UpdateCallers : checker[p].at = "save" =>
        /\ checker[p].state.noticed = cache.noticed /\ checker[p].state.noticedAt = cache.noticedAt
        /\ ~checker[p].ok =>
              checker[p].state.version = cache.version /\ checker[p].state.checked = cache.checked
        /\ checker[p].ok => checker[p].state.checked = clock
        /\ NotDueBefore(checker[p].state, clock)

\* A mark changes nothing but the mark, and is of a target not marked within the interval.
MarkKnows ==
    \A p \in UpdateCallers : checker[p].at = "mark" =>
        /\ checker[p].state = [cache EXCEPT !.noticed = checker[p].target, !.noticedAt = clock]
        /\ ~NoticedLately(checker[p].target)

\* The mark in the cache is that of the last hint printed.
LastHintMarked ==
    updatePast.hints # <<>> =>
        /\ cache.noticed = updatePast.hints[Len(updatePast.hints)].of
        /\ cache.noticedAt = updatePast.hints[Len(updatePast.hints)].at

\* The cache keeps the distance to the last check that was saved.
SavedSpaces == updatePast.lastSaved # 0 => NotDueBefore(cache, updatePast.lastSaved)

UpdateInv ==
    /\ UpdateTypeOK /\ LockHeld /\ FetchKnows /\ SaveKnows /\ MarkKnows
    /\ LastHintMarked /\ SavedSpaces /\ ConfirmedKept /\ HintsSpaced

\* Nothing is known and nobody checks at first.
LEMMA UpdateInvInit == UpdateInit => UpdateInv
<1> USE UpdateBounds DEF UpdateBounds
<1> SUFFICES ASSUME UpdateInit PROVE UpdateInv
  OBVIOUS
<1>1. NoCache \in Caches
  BY DEF NoCache, Caches, Versions, Ticks
<1>2. NoCheck \in Checks
  BY <1>1 DEF NoCheck, Checks, CheckRecords, Steps, Kinds, Versions, Ticks
<1>3. FilesType /\ CheckerType
  BY <1>1, <1>2 DEF UpdateInit, FilesType, CheckerType, Versions
<1>4. PastType
  BY DEF UpdateInit, PastType, Versions, Ticks
<1>5. \A p \in UpdateCallers : checker[p].at = "idle"
  BY DEF UpdateInit, NoCheck
<1>6. LockHeld /\ FetchKnows /\ SaveKnows /\ MarkKnows
  BY <1>5 DEF UpdateInit, LockHeld, FetchKnows, SaveKnows, MarkKnows, UnderLock
<1>7. LastHintMarked /\ SavedSpaces /\ ConfirmedKept /\ HintsSpaced
  BY DEF UpdateInit, LastHintMarked, SavedSpaces, ConfirmedKept, HintsSpaced, NoCache
<1> QED
  BY <1>3, <1>4, <1>6, <1>7 DEF UpdateInv, UpdateTypeOK

\* An answer ends a check or leads to the notice.
LEMMA AnswerLeaves ==
    ASSUME CheckerType, NEW p \in UpdateCallers, NEW state \in Caches, NEW allowed \in BOOLEAN,
           CheckAnswers(p, state, allowed)
    PROVE  \E c \in Checks : c.at \notin UnderLock /\ checker' = [checker EXCEPT ![p] = c]
<1>1. NoCheck \in Checks
  BY UpdateBounds DEF UpdateBounds, NoCheck, NoCache, Checks, CheckRecords, Steps, Kinds, Caches, Versions, Ticks
<1>2. [NoCheck EXCEPT !.kind = "hint", !.at = "notice", !.target = state.version] \in Checks
  BY <1>1 DEF NoCheck, Checks, CheckRecords, Steps, Kinds, Caches
<1>3. NoCheck.at = "idle"
  BY DEF NoCheck
<1>4. [NoCheck EXCEPT !.kind = "hint", !.at = "notice", !.target = state.version].at = "notice"
  BY DEF NoCheck
<1> QED
  BY <1>1, <1>2, <1>3, <1>4 DEF CheckAnswers, UpdateEnds, UnderLock

\* The part of the invariant that is about the files and what is remembered of them.
FilesInv == FilesType /\ PastType /\ LastHintMarked /\ SavedSpaces /\ ConfirmedKept /\ HintsSpaced

\* A process that neither holds the lock nor takes it moves on.
LEMMA MovesOutside ==
    ASSUME UpdateInv, FilesInv', NEW p \in UpdateCallers, checker[p].at \notin UnderLock,
           NEW c \in Checks, c.at \notin UnderLock, checker' = [checker EXCEPT ![p] = c],
           UNCHANGED <<clock, cache, checkLock>>
    PROVE  UpdateInv'
<1> USE DEF UpdateInv, UpdateTypeOK
<1>1. CheckerType'
  BY DEF CheckerType
<1>2. checker'[p] = c /\ \A q \in UpdateCallers \ {p} : checker'[q] = checker[q]
  BY DEF CheckerType
<1>3. LockHeld'
  BY <1>2 DEF LockHeld
<1>4. FetchKnows'
  BY <1>2 DEF FetchKnows, UnderLock
<1>5. SaveKnows'
  BY <1>2 DEF SaveKnows, UnderLock, NotDueBefore
<1>6. MarkKnows'
  BY <1>2 DEF MarkKnows, UnderLock, NoticedLately
<1> QED
  BY <1>1, <1>3, <1>4, <1>5, <1>6 DEF FilesInv

\* The holder of the lock lets it go.
LEMMA LetsGo ==
    ASSUME UpdateInv, FilesInv', NEW p \in UpdateCallers, checkLock = p,
           NEW c \in Checks, c.at \notin UnderLock, checker' = [checker EXCEPT ![p] = c],
           checkLock' = Unlocked
    PROVE  UpdateInv'
<1> USE UpdateBounds DEF UpdateBounds, UpdateInv, UpdateTypeOK
<1>1. CheckerType'
  BY DEF CheckerType
<1>2. checker'[p] = c /\ \A q \in UpdateCallers \ {p} : checker'[q] = checker[q]
  BY DEF CheckerType
<1>3. \A q \in UpdateCallers : checker'[q].at \notin UnderLock
  BY <1>2 DEF LockHeld
<1>4. LockHeld'
  BY <1>3 DEF LockHeld
<1>5. FetchKnows' /\ SaveKnows' /\ MarkKnows'
  BY <1>3 DEF FetchKnows, SaveKnows, MarkKnows, UnderLock
<1> QED
  BY <1>1, <1>4, <1>5 DEF FilesInv

\* A process takes the lock.
LEMMA TakesLock ==
    ASSUME UpdateInv, FilesInv', NEW p \in UpdateCallers, checkLock = Unlocked, checkLock' = p,
           NEW c \in Checks, c.at \in {"fetch", "mark"}, checker' = [checker EXCEPT ![p] = c],
           c.at = "fetch" => c.state = cache /\ c.now = clock,
           c.at = "mark" => /\ c.state = [cache EXCEPT !.noticed = c.target, !.noticedAt = clock]
                            /\ ~NoticedLately(c.target),
           UNCHANGED <<clock, cache>>
    PROVE  UpdateInv'
<1> USE UpdateBounds DEF UpdateBounds, UpdateInv, UpdateTypeOK
<1>1. CheckerType'
  BY DEF CheckerType
<1>2. checker'[p] = c /\ \A q \in UpdateCallers \ {p} : checker'[q] = checker[q]
  BY DEF CheckerType
<1>3. \A q \in UpdateCallers \ {p} : checker'[q].at \notin UnderLock
  BY <1>2 DEF LockHeld
<1>4. LockHeld'
  BY <1>2, <1>3 DEF LockHeld, UnderLock
<1>5. FetchKnows' /\ SaveKnows' /\ MarkKnows'
  BY <1>2, <1>3 DEF FetchKnows, SaveKnows, MarkKnows, UnderLock, NoticedLately
<1> QED
  BY <1>1, <1>4, <1>5 DEF FilesInv

\* Nothing that the files' part of the invariant looks at has changed but bounds and time.
LEMMA FilesStay ==
    ASSUME UpdateInv, FilesType', PastType', UNCHANGED cache, UNCHANGED updatePast.lastSaved,
           UNCHANGED updatePast.confirmed, UNCHANGED updatePast.hints
    PROVE  FilesInv'
BY DEF UpdateInv, FilesInv, LastHintMarked, SavedSpaces, ConfirmedKept, HintsSpaced, NotDueBefore

\* A fault, or an automatic check, is counted.
LEMMA Counted ==
    ASSUME UpdateInv, UNCHANGED <<clock, release, preference, cache>>,
           \/ updatePast' = updatePast
           \/ updatePast' = [updatePast EXCEPT !.begun = @ + 1]
           \/ UpdateFault /\ updatePast' = [updatePast EXCEPT !.faults = @ + 1]
           \/ updatePast.runs < MaxUpdateRuns /\ updatePast' = [updatePast EXCEPT !.runs = @ + 1]
    PROVE  FilesInv'
<1> USE UpdateBounds DEF UpdateBounds
<1>1. FilesType'
  BY DEF UpdateInv, UpdateTypeOK, FilesType
<1>2. PastType /\ PastType'
  <2>1. PastType
    BY DEF UpdateInv, UpdateTypeOK
  <2> DEFINE S == Seq(Hints)
  <2>2. updatePast.hints \in S /\ updatePast.begun \in Nat /\ updatePast.faults \in Nat /\ updatePast.runs \in Nat
    BY <2>1 DEF PastType
  <2> HIDE DEF S
  <2>3. CASE updatePast' = updatePast
    BY <2>1, <2>3 DEF PastType
  <2>4. CASE updatePast' = [updatePast EXCEPT !.begun = @ + 1]
    <3>1. updatePast.begun + 1 \in Nat
      BY <2>2
    <3> QED
      BY <2>1, <2>4, <3>1 DEF PastType
  <2>5. CASE UpdateFault /\ updatePast' = [updatePast EXCEPT !.faults = @ + 1]
    <3>1. updatePast.faults + 1 \in 0..MaxUpdateFaults
      BY <2>2, <2>5 DEF UpdateFault
    <3> QED
      BY <2>1, <2>5, <3>1 DEF PastType
  <2>6. CASE updatePast.runs < MaxUpdateRuns /\ updatePast' = [updatePast EXCEPT !.runs = @ + 1]
    <3>1. updatePast.runs + 1 \in 0..MaxUpdateRuns
      BY <2>2, <2>6
    <3> QED
      BY <2>1, <2>6, <3>1 DEF PastType
  <2> QED
    BY <2>1, <2>3, <2>4, <2>5, <2>6
<1>3. UNCHANGED updatePast.lastSaved /\ UNCHANGED updatePast.confirmed /\ UNCHANGED updatePast.hints
  BY <1>2 DEF PastType
<1> QED
  BY <1>1, <1>2, <1>3, FilesStay

\* Every step preserves the invariant: what is only looked at or given up.
LEMMA LooksStep ==
    ASSUME UpdateInv, NEW p \in UpdateCallers,
           \/ \E kind \in Kinds : BeginCheck(p, kind)
           \/ LookAtCache(p) \/ LockTimesOut(p) \/ NoticeTimesOut(p)
    PROVE  UpdateInv'
<1> USE UpdateBounds DEF UpdateBounds
<1>a. CheckerType /\ checker[p] \in Checks /\ cache \in Caches /\ clock \in Ticks
  BY DEF UpdateInv, UpdateTypeOK, CheckerType, FilesType, Ticks
<1>b. NoCheck \in Checks /\ NoCheck.at = "idle" /\ automatic \in BOOLEAN
  BY DEF NoCheck, NoCache, Checks, CheckRecords, Steps, Kinds, Caches, Versions, Ticks, automatic
<1>1. ASSUME NEW kind \in Kinds, BeginCheck(p, kind) PROVE UpdateInv'
  <2>1. PICK c \in Checks : c.at = "look" /\ checker' = [checker EXCEPT ![p] = c]
    BY <1>1, <1>b DEF BeginCheck, Checks, CheckRecords, Steps, Kinds, NoCheck
  <2>2. FilesInv'
    BY <1>1, Counted DEF BeginCheck
  <2>3. checker[p].at \notin UnderLock
    BY <1>1, <1>a DEF BeginCheck, Checks, UnderLock
  <2> QED
    BY <1>1, <2>1, <2>2, <2>3, MovesOutside DEF BeginCheck, UnderLock
<1>2. CASE LookAtCache(p)
  <2>1. PICK c \in Checks : c.at \notin UnderLock /\ checker' = [checker EXCEPT ![p] = c]
    <3>1. CASE UpdateEnds(p)
      BY <3>1, <1>b DEF UpdateEnds, UnderLock
    <3>2. CASE CheckAnswers(p, cache, automatic)
      BY <3>2, <1>a, <1>b, AnswerLeaves
    <3>3. CASE checker' = [checker EXCEPT ![p].at = "lock", ![p].state = cache, ![p].allowed = automatic]
      <4>1. [checker[p] EXCEPT !.at = "lock", !.state = cache, !.allowed = automatic] \in Checks
        BY <1>a, <1>b, <1>2 DEF Checks, CheckRecords, Steps, LookAtCache
      <4>2. checker' = [checker EXCEPT ![p] = [checker[p] EXCEPT !.at = "lock", !.state = cache, !.allowed = automatic]]
        BY <3>3, <1>a DEF CheckerType
      <4>3. [checker[p] EXCEPT !.at = "lock", !.state = cache, !.allowed = automatic].at = "lock"
        BY <1>a DEF Checks, CheckRecords
      <4> QED
        BY <4>1, <4>2, <4>3 DEF UnderLock
    <3> QED
      BY <1>2, <3>1, <3>2, <3>3 DEF LookAtCache
  <2>2. FilesInv'
    BY <1>2, Counted DEF LookAtCache
  <2> QED
    BY <1>2, <2>1, <2>2, MovesOutside DEF LookAtCache, UnderLock
<1>3. CASE LockTimesOut(p)
  <2>1. PICK c \in Checks : c.at \notin UnderLock /\ checker' = [checker EXCEPT ![p] = c]
    <3>1. checker[p].state \in Caches /\ checker[p].allowed \in BOOLEAN
      BY <1>a DEF Checks, CheckRecords
    <3> QED
      BY <1>3, <3>1, <1>a, AnswerLeaves DEF LockTimesOut
  <2>2. FilesInv'
    BY <1>3, Counted DEF LockTimesOut
  <2> QED
    BY <1>3, <2>1, <2>2, MovesOutside DEF LockTimesOut, UnderLock
<1>4. CASE NoticeTimesOut(p)
  <2>1. FilesInv'
    BY <1>4, Counted DEF NoticeTimesOut
  <2> QED
    BY <1>4, <1>b, <2>1, MovesOutside DEF NoticeTimesOut, UpdateEnds, UnderLock
<1> QED
  BY <1>1, <1>2, <1>3, <1>4

\* What happens around the checks.
LEMMA AroundStep == UpdateInv /\ (SetAutomatic \/ Publish \/ UpdateTick) => UpdateInv'
<1> USE UpdateBounds DEF UpdateBounds
<1> SUFFICES ASSUME UpdateInv, SetAutomatic \/ Publish \/ UpdateTick PROVE UpdateInv'
  OBVIOUS
<1>1. FilesType'
  BY DEF UpdateInv, UpdateTypeOK, FilesType, SetAutomatic, Publish, UpdateTick
<1>2. PastType /\ PastType'
  <2>1. PastType
    BY DEF UpdateInv, UpdateTypeOK
  <2>2. updatePast.toggles \in Nat /\ updatePast.releases \in Nat
    BY <2>1 DEF PastType
  <2>3. CASE UpdateTick
    BY <2>1, <2>3 DEF PastType, UpdateTick
  <2>4. CASE SetAutomatic
    <3>1. updatePast.toggles + 1 \in 0..MaxToggles
      BY <2>2, <2>4 DEF SetAutomatic
    <3> QED
      BY <2>1, <2>4, <3>1 DEF PastType, SetAutomatic
  <2>5. CASE Publish
    <3>1. updatePast.releases + 1 \in 0..MaxReleases
      BY <2>2, <2>5 DEF Publish
    <3> QED
      BY <2>1, <2>5, <3>1 DEF PastType, Publish
  <2> QED
    BY <2>1, <2>3, <2>4, <2>5
<1>3. /\ UNCHANGED <<cache, checkLock, checker>> /\ UNCHANGED updatePast.lastSaved
      /\ UNCHANGED updatePast.confirmed /\ UNCHANGED updatePast.hints
  BY <1>2 DEF SetAutomatic, Publish, UpdateTick, PastType
<1>4. FilesInv'
  BY <1>1, <1>2, <1>3, FilesStay
<1>5. CheckerType' /\ LockHeld'
  BY <1>3 DEF UpdateInv, UpdateTypeOK, CheckerType, LockHeld
<1>6. clock' = clock \/ checkLock = Unlocked
  BY DEF SetAutomatic, Publish, UpdateTick
<1>7. checkLock = Unlocked => \A p \in UpdateCallers : checker[p].at \notin UnderLock
  BY DEF UpdateInv, LockHeld
<1>8. FetchKnows'
  BY <1>3, <1>6, <1>7 DEF UpdateInv, FetchKnows, UnderLock
<1>9. SaveKnows'
  BY <1>3, <1>6, <1>7 DEF UpdateInv, SaveKnows, UnderLock, NotDueBefore
<1>10. MarkKnows'
  BY <1>3, <1>6, <1>7 DEF UpdateInv, MarkKnows, UnderLock, NoticedLately
<1> QED
  BY <1>4, <1>5, <1>8, <1>9, <1>10 DEF UpdateInv, UpdateTypeOK, FilesInv

\* A command in progress goes to another step, with other findings.
LEMMA CheckMoves ==
    ASSUME NEW old \in CheckRecords, old.kind # "none", NEW c \in CheckRecords, c.kind = old.kind, c.at # "idle"
    PROVE  c \in Checks
BY DEF Checks

\* What takes the lock and what happens under it before a save.
LEMMA LockStep ==
    ASSUME UpdateInv, NEW p \in UpdateCallers, LockCheck(p) \/ Fetch(p) \/ LockNotice(p)
    PROVE  UpdateInv'
<1> USE UpdateBounds DEF UpdateBounds
<1>a. /\ CheckerType /\ checker[p] \in CheckRecords /\ cache \in Caches /\ clock \in Ticks /\ clock \in 1..MaxTicks
      /\ release \in Versions
      /\ checker[p].at # "idle" => checker[p].kind # "none"
  BY DEF UpdateInv, UpdateTypeOK, CheckerType, FilesType, Ticks, Checks
<1>b. NoCheck \in Checks /\ NoCheck.at = "idle" /\ automatic \in BOOLEAN
  BY DEF NoCheck, NoCache, Checks, CheckRecords, Steps, Kinds, Caches, Versions, Ticks, automatic
<1>1. CASE LockCheck(p)
  <2>1. FilesInv'
    BY <1>1, Counted DEF LockCheck
  <2>2. CASE checkLock' = checkLock /\ UpdateEnds(p)
    BY <1>1, <1>b, <2>1, <2>2, MovesOutside DEF LockCheck, UpdateEnds, UnderLock
  <2>3. CASE checkLock' = checkLock /\ CheckAnswers(p, cache, automatic)
    <3>1. PICK c \in Checks : c.at \notin UnderLock /\ checker' = [checker EXCEPT ![p] = c]
      BY <2>3, <1>a, <1>b, AnswerLeaves
    <3> QED
      BY <1>1, <2>1, <2>3, <3>1, MovesOutside DEF LockCheck, UnderLock
  <2>4. CASE /\ checkLock' = p
             /\ checker' = [checker EXCEPT ![p].at = "fetch", ![p].state = cache, ![p].allowed = automatic,
                                           ![p].now = clock]
    <3>1. PICK c : c = [checker[p] EXCEPT !.at = "fetch", !.state = cache, !.allowed = automatic, !.now = clock]
      OBVIOUS
    <3>2. c \in Checks /\ c.at = "fetch" /\ c.state = cache /\ c.now = clock
      <4>1. c \in CheckRecords
        BY <1>a, <1>b, <3>1 DEF CheckRecords, Steps
      <4>2. c.at = "fetch" /\ c.state = cache /\ c.now = clock /\ c.kind = checker[p].kind
        BY <1>a, <3>1 DEF CheckRecords
      <4> QED
        BY <1>a, <1>1, <4>1, <4>2, CheckMoves DEF LockCheck
    <3>3. checker' = [checker EXCEPT ![p] = c]
      BY <2>4, <3>1, <1>a DEF CheckerType
    <3> QED
      BY <1>1, <2>1, <2>4, <3>2, <3>3, TakesLock DEF LockCheck
  <2> QED
    BY <1>1, <2>2, <2>3, <2>4 DEF LockCheck
<1>2. CASE LockNotice(p)
  <2>1. FilesInv'
    BY <1>2, Counted DEF LockNotice
  <2>2. CASE checkLock' = checkLock /\ UpdateEnds(p)
    BY <1>2, <1>b, <2>1, <2>2, MovesOutside DEF LockNotice, UpdateEnds, UnderLock
  <2>3. CASE /\ NoticeDue(checker[p].target) /\ checkLock' = p
             /\ checker' = [checker EXCEPT ![p].at = "mark",
                             ![p].state = [cache EXCEPT !.noticed = checker[p].target, !.noticedAt = clock]]
    <3>1. PICK c : c = [checker[p] EXCEPT !.at = "mark",
                           !.state = [cache EXCEPT !.noticed = checker[p].target, !.noticedAt = clock]]
      OBVIOUS
    <3>2. [cache EXCEPT !.noticed = checker[p].target, !.noticedAt = clock] \in Caches
      BY <1>a DEF Caches, CheckRecords
    <3>3. /\ c \in Checks /\ c.at = "mark" /\ c.target = checker[p].target
          /\ c.state = [cache EXCEPT !.noticed = checker[p].target, !.noticedAt = clock]
      <4>0. PICK t : t = [cache EXCEPT !.noticed = checker[p].target, !.noticedAt = clock]
        OBVIOUS
      <4>1. c \in CheckRecords
        BY <1>a, <3>1, <3>2, <4>0 DEF CheckRecords, Steps
      <4>2. c.at = "mark" /\ c.state = t /\ c.target = checker[p].target /\ c.kind = checker[p].kind
        BY <1>a, <3>1, <4>0 DEF CheckRecords
      <4> QED
        BY <1>a, <1>2, <4>0, <4>1, <4>2, CheckMoves DEF LockNotice
    <3>4. checker' = [checker EXCEPT ![p] = c]
      BY <2>3, <3>1, <1>a DEF CheckerType
    <3>5. ~NoticedLately(c.target)
      BY <2>3, <3>3 DEF NoticeDue, NoticedLately
    <3> QED
      <4>1. checkLock = Unlocked /\ UNCHANGED <<clock, cache>> /\ checker[p].at \notin UnderLock
        BY <1>2 DEF LockNotice, UnderLock
      <4>2. c.at \in {"fetch", "mark"} /\ c.at # "fetch"
        BY <3>3
      <4> QED
        BY <2>1, <2>3, <3>3, <3>4, <3>5, <4>1, <4>2, TakesLock
  <2> QED
    BY <1>2, <2>2, <2>3 DEF LockNotice
<1>3. CASE Fetch(p)
  <2>1. FilesInv'
    BY <1>3, Counted DEF Fetch
  <2>2. checker[p].state = cache /\ checker[p].now = clock /\ checkLock = p
    BY <1>3 DEF UpdateInv, FetchKnows, LockHeld, Fetch, UnderLock
  <2>3. PICK c \in Checks :
            /\ c.at = "save" /\ checker' = [checker EXCEPT ![p] = c]
            /\ c.state.noticed = cache.noticed /\ c.state.noticedAt = cache.noticedAt
            /\ ~c.ok => c.state.version = cache.version /\ c.state.checked = cache.checked
            /\ c.ok => c.state.checked = clock
            /\ NotDueBefore(c.state, clock)
    <3>1. CASE checker' = [checker EXCEPT ![p].at = "save", ![p].ok = TRUE,
                                          ![p].state = Succeeded(checker[p].state, checker[p].now)]
      <4>1. PICK t : t = Succeeded(cache, clock)
        OBVIOUS
      <4>2. /\ t \in Caches /\ t.noticed = cache.noticed /\ t.noticedAt = cache.noticedAt
            /\ t.checked = clock /\ NotDueBefore(t, clock)
        <5>1. clock + CheckInterval \in Nat
          BY <1>a DEF Ticks
        <5>2. t \in Caches
          BY <4>1, <5>1, <1>a DEF Succeeded, Caches
        <5>3. /\ t.noticed = cache.noticed /\ t.noticedAt = cache.noticedAt
              /\ t.checked = clock /\ t.failed = FALSE /\ t.next = clock + CheckInterval
          BY <4>1, <1>a DEF Succeeded, Caches
        <5> QED
          BY <5>1, <5>2, <5>3 DEF NotDueBefore
      <4>3. PICK c : c = [checker[p] EXCEPT !.at = "save", !.ok = TRUE, !.state = t]
        OBVIOUS
      <4>4. c \in Checks /\ c.at = "save" /\ c.ok = TRUE /\ c.state = t
        <5>1. c \in CheckRecords
          BY <4>2, <4>3, <1>a DEF CheckRecords, Steps
        <5>2. c.at = "save" /\ c.ok = TRUE /\ c.state = t /\ c.kind = checker[p].kind
          BY <4>3, <1>a DEF CheckRecords
        <5> QED
          BY <1>a, <1>3, <5>1, <5>2, CheckMoves DEF Fetch
      <4>5. checker' = [checker EXCEPT ![p] = c]
        BY <3>1, <2>2, <4>1, <4>3, <1>a DEF CheckerType
      <4> QED
        BY <4>2, <4>4, <4>5
    <3>2. ASSUME NEW retryAt \in {0, After(RetryAfter)},
                 checker' = [checker EXCEPT ![p].at = "save", ![p].ok = FALSE,
                                       ![p].state = Failed(checker[p].state, checker[p].now, retryAt)]
          PROVE  \E c \in Checks :
            /\ c.at = "save" /\ checker' = [checker EXCEPT ![p] = c]
            /\ c.state.noticed = cache.noticed /\ c.state.noticedAt = cache.noticedAt
            /\ ~c.ok => c.state.version = cache.version /\ c.state.checked = cache.checked
            /\ c.ok => c.state.checked = clock
            /\ NotDueBefore(c.state, clock)
      <4>1. PICK t : t = Failed(cache, clock, retryAt)
        OBVIOUS
      <4>2. /\ t \in Caches /\ t.noticed = cache.noticed /\ t.noticedAt = cache.noticedAt
            /\ t.version = cache.version /\ t.checked = cache.checked /\ NotDueBefore(t, clock)
        <5>1. retryAt \in Nat
          BY <1>a DEF After, Ticks
        <5>2. Larger(clock + FailureBackoff, retryAt) \in Nat
              /\ Larger(clock + FailureBackoff, retryAt) >= clock + FailureBackoff
          BY <5>1, <1>a DEF Larger, Ticks
        <5> QED
          BY <4>1, <5>2, <1>a DEF Failed, Caches, NotDueBefore
      <4>3. PICK c : c = [checker[p] EXCEPT !.at = "save", !.ok = FALSE, !.state = t]
        OBVIOUS
      <4>4. c \in Checks /\ c.at = "save" /\ c.ok = FALSE /\ c.state = t
        <5>1. c \in CheckRecords
          BY <4>2, <4>3, <1>a DEF CheckRecords, Steps
        <5>2. c.at = "save" /\ c.ok = FALSE /\ c.state = t /\ c.kind = checker[p].kind
          BY <4>3, <1>a DEF CheckRecords
        <5> QED
          BY <1>a, <1>3, <5>1, <5>2, CheckMoves DEF Fetch
      <4>5. checker' = [checker EXCEPT ![p] = c]
        BY <3>2, <2>2, <4>1, <4>3, <1>a DEF CheckerType
      <4> QED
        BY <4>2, <4>4, <4>5
    <3> QED
      BY <1>3, <3>1, <3>2 DEF Fetch
  <2>4. checker'[p] = c /\ \A q \in UpdateCallers \ {p} : checker'[q] = checker[q] /\ checker[q].at \notin UnderLock
    BY <2>2, <2>3, <1>a DEF CheckerType, UpdateInv, LockHeld
  <2>5. CheckerType'
    BY <1>3, <2>3, <1>a DEF CheckerType, Fetch
  <2>6. LockHeld'
    BY <1>3, <2>2, <2>3, <2>4 DEF LockHeld, UpdateInv, Fetch, UnderLock
  <2>7. FetchKnows' /\ MarkKnows'
    BY <2>3, <2>4 DEF FetchKnows, MarkKnows, UnderLock
  <2>8. SaveKnows'
    BY <1>3, <2>3, <2>4 DEF SaveKnows, Fetch, UnderLock, NotDueBefore
  <2> QED
    BY <2>1, <2>5, <2>6, <2>7, <2>8 DEF FilesInv, UpdateInv, UpdateTypeOK
<1> QED
  BY <1>1, <1>2, <1>3

\* A save of what was read under the lock, with what a check or a hint adds to it.
LEMMA SavesStep ==
    ASSUME UpdateInv, NEW p \in UpdateCallers, SaveCheck(p) \/ TakeNotice(p)
    PROVE  UpdateInv'
<1> USE UpdateBounds DEF UpdateBounds
<1>a. /\ CheckerType /\ checker[p] \in CheckRecords /\ cache \in Caches /\ clock \in Ticks /\ clock \in 1..MaxTicks
      /\ FilesType /\ PastType
  BY DEF UpdateInv, UpdateTypeOK, CheckerType, FilesType, Ticks, Checks
<1>b. /\ NoCheck \in Checks /\ NoCheck.at = "idle" /\ automatic \in BOOLEAN
      /\ checker[p].state \in Caches /\ checker[p].target \in Versions /\ checker[p].ok \in BOOLEAN
  BY <1>a DEF NoCheck, NoCache, Checks, CheckRecords, Steps, Kinds, Caches, Versions, Ticks, automatic
<1>c. checkLock = p
  BY DEF UpdateInv, LockHeld, SaveCheck, TakeNotice, UnderLock
<1>d. PICK S : S = Seq(Hints)
  OBVIOUS
<1>e. /\ updatePast.hints \in S /\ updatePast.lastSaved \in Ticks
      /\ updatePast.confirmed \in [version : Versions, at : Ticks]
  BY <1>a, <1>d DEF PastType
<1>1. CASE SaveCheck(p)
  <2>1. PICK c \in Checks : c.at \notin UnderLock /\ checker' = [checker EXCEPT ![p] = c]
    BY <1>1, <1>a, <1>b, AnswerLeaves DEF SaveCheck
  <2>2. FilesType'
    BY <1>1, <1>a, <1>b DEF FilesType, SaveCheck
  <2>3. PICK found : found = IF checker[p].ok THEN [version |-> cache'.version, at |-> cache'.checked]
                             ELSE updatePast.confirmed
    OBVIOUS
  <2>4. found \in [version : Versions, at : Ticks]
    BY <2>2, <2>3, <1>e DEF FilesType, Caches
  <2>5. updatePast' = [updatePast EXCEPT !.lastSaved = clock, !.confirmed = found]
    BY <1>1, <2>3 DEF SaveCheck
  <2>6. PastType'
    BY <1>a, <1>e, <2>4, <2>5 DEF PastType
  <2>7. updatePast'.hints = updatePast.hints /\ updatePast'.lastSaved = clock /\ updatePast'.confirmed = found
    BY <1>a, <2>5 DEF PastType
  <2>8. /\ cache' = checker[p].state /\ NotDueBefore(checker[p].state, clock)
        /\ checker[p].state.noticed = cache.noticed /\ checker[p].state.noticedAt = cache.noticedAt
        /\ ~checker[p].ok =>
              checker[p].state.version = cache.version /\ checker[p].state.checked = cache.checked
    BY <1>1 DEF SaveCheck, UpdateInv, SaveKnows
  <2>9. LastHintMarked' /\ HintsSpaced'
    BY <2>7, <2>8 DEF UpdateInv, LastHintMarked, HintsSpaced
  <2>10. SavedSpaces'
    BY <1>1, <2>7, <2>8 DEF SavedSpaces, SaveCheck, NotDueBefore
  <2>11. ConfirmedKept'
    <3>1. CASE checker[p].ok
      BY <3>1, <2>3, <2>7 DEF ConfirmedKept
    <3>2. CASE ~checker[p].ok
      BY <3>2, <2>3, <2>7, <2>8 DEF ConfirmedKept, UpdateInv
    <3> QED
      BY <3>1, <3>2
  <2>12. FilesInv'
    BY <2>2, <2>6, <2>9, <2>10, <2>11 DEF FilesInv
  <2> QED
    BY <1>1, <1>c, <2>1, <2>12, LetsGo DEF SaveCheck
<1>2. CASE TakeNotice(p)
  <2>1. cache' = [cache EXCEPT !.noticed = checker[p].target, !.noticedAt = clock]
        /\ ~NoticedLately(checker[p].target)
    BY <1>2 DEF TakeNotice, UpdateInv, MarkKnows
  <2>2. FilesType'
    BY <1>2, <1>a, <1>b DEF FilesType, TakeNotice
  <2>3. /\ cache'.noticed = checker[p].target /\ cache'.noticedAt = clock
        /\ cache'.version = cache.version /\ cache'.checked = cache.checked
        /\ cache'.next = cache.next /\ cache'.failed = cache.failed
    BY <2>1, <1>a DEF Caches
  <2>4. PICK hint : hint = [of |-> checker[p].target, at |-> cache'.noticedAt]
    OBVIOUS
  <2>5. hint \in Hints /\ hint.of = checker[p].target /\ hint.at = clock
    BY <2>3, <2>4, <1>a, <1>b DEF Hints
  <2>6. PICK h : h = Append(updatePast.hints, hint)
    OBVIOUS
  <2>7. /\ h \in Seq(Hints) /\ Len(h) = Len(updatePast.hints) + 1 /\ h[Len(h)] = hint /\ Len(updatePast.hints) \in Nat
        /\ \A i \in 1..Len(updatePast.hints) : h[i] = updatePast.hints[i]
    BY <1>d, <1>e, <2>5, <2>6
  <2>8. updatePast' = [updatePast EXCEPT !.hints = h]
    BY <1>2, <2>4, <2>6 DEF TakeNotice
  <2>9. PastType'
    BY <1>a, <1>d, <2>7, <2>8 DEF PastType
  <2>10. /\ updatePast'.hints = h /\ updatePast'.lastSaved = updatePast.lastSaved
         /\ updatePast'.confirmed = updatePast.confirmed
    BY <1>a, <2>8 DEF PastType
  <2>11. LastHintMarked'
    BY <2>3, <2>5, <2>7, <2>10 DEF LastHintMarked
  <2>12. SavedSpaces' /\ ConfirmedKept'
    BY <2>3, <2>10 DEF UpdateInv, SavedSpaces, ConfirmedKept, NotDueBefore
  <2>13. HintsSpaced'
    <3> SUFFICES ASSUME NEW i \in 2..Len(h), h[i].of = h[i - 1].of PROVE h[i].at >= h[i - 1].at + CheckInterval
      BY <2>10 DEF HintsSpaced
    <3> DEFINE n == Len(updatePast.hints)
    <3>1. CASE i <= n
      BY <3>1, <2>7 DEF UpdateInv, HintsSpaced
    <3>2. CASE i = n + 1
      <4>1. n \in 1..n /\ h[i] = hint /\ h[i - 1] = updatePast.hints[n]
        BY <3>2, <2>7
      <4>2. updatePast.hints[n] \in Hints /\ updatePast.hints # <<>>
        BY <4>1, <1>d, <1>e
      <4>3. cache.noticed = updatePast.hints[n].of /\ cache.noticedAt = updatePast.hints[n].at
        BY <4>2 DEF UpdateInv, LastHintMarked
      <4>4. cache.noticed = checker[p].target /\ cache.noticedAt \in 1..MaxTicks
        BY <4>1, <4>2, <4>3, <2>5 DEF Hints
      <4>5. ~(clock < cache.noticedAt + CheckInterval)
        BY <4>4, <2>1 DEF NoticedLately
      <4> QED
        BY <4>1, <4>3, <4>4, <4>5, <2>5, <1>a
    <3> QED
      BY <3>1, <3>2, <2>7
  <2>14. FilesInv'
    BY <2>2, <2>9, <2>11, <2>12, <2>13 DEF FilesInv
  <2> QED
    BY <1>2, <1>b, <1>c, <2>14, LetsGo DEF TakeNotice, UpdateEnds, UnderLock
<1> QED
  BY <1>1, <1>2

\* A save that fails, and a process that is killed.
LEMMA GivesUpStep ==
    ASSUME UpdateInv, NEW p \in UpdateCallers, SaveCheckFails(p) \/ MarkFails(p) \/ KillChecker(p)
    PROVE  UpdateInv'
<1> USE UpdateBounds DEF UpdateBounds
<1>a. CheckerType /\ checker[p] \in CheckRecords /\ LockHeld
  BY DEF UpdateInv, UpdateTypeOK, CheckerType, Checks
<1>b. /\ NoCheck \in Checks /\ NoCheck.at = "idle"
      /\ checker[p].state \in Caches /\ checker[p].allowed \in BOOLEAN
  BY <1>a DEF NoCheck, NoCache, Checks, CheckRecords, Steps, Kinds, Caches, Versions, Ticks
<1>1. FilesInv'
  BY Counted DEF SaveCheckFails, MarkFails, KillChecker
<1>2. PICK c \in Checks : c.at \notin UnderLock /\ checker' = [checker EXCEPT ![p] = c]
  BY <1>a, <1>b, AnswerLeaves DEF SaveCheckFails, MarkFails, KillChecker, UpdateEnds, UnderLock
<1>3. CASE checkLock = p
  <2>1. checkLock' = Unlocked
    BY <1>3 DEF SaveCheckFails, MarkFails, KillChecker
  <2> QED
    BY <1>1, <1>2, <1>3, <2>1, LetsGo
<1>4. CASE checkLock # p
  <2>1. checker[p].at \notin UnderLock
    BY <1>a, <1>4 DEF LockHeld
  <2>2. KillChecker(p)
    BY <2>1 DEF SaveCheckFails, MarkFails, UnderLock
  <2> QED
    BY <1>1, <1>2, <1>4, <2>1, <2>2, MovesOutside DEF KillChecker
<1> QED
  BY <1>3, <1>4

\* Every step preserves the invariant.
LEMMA UpdateInvStep == UpdateInv /\ [UpdateNext]_updateVars => UpdateInv'
<1> SUFFICES ASSUME UpdateInv, [UpdateNext]_updateVars PROVE UpdateInv'
  OBVIOUS
<1>1. CASE UNCHANGED updateVars
  BY <1>1 DEF updateVars, UpdateInv, UpdateTypeOK, FilesType, CheckerType, PastType, LockHeld, FetchKnows,
     SaveKnows, MarkKnows, LastHintMarked, SavedSpaces, ConfirmedKept, HintsSpaced, NotDueBefore, NoticedLately
<1>2. CASE UpdateNext
  BY <1>2, LooksStep, AroundStep, LockStep, SavesStep, GivesUpStep DEF UpdateNext
<1> QED
  BY <1>1, <1>2

\* What holds of the lock, the cache and the hints in every state.
THEOREM UpdateInductive == UpdateSpec => []UpdateInv
BY UpdateInvInit, UpdateInvStep, PTL DEF UpdateSpec

\* What the cache says of the last confirmed release is what the last saved check found, and a hint of a
\* target keeps its distance to the one before, through failing saves and kills.
THEOREM ReleaseRecordsThm == UpdateSpec => [](ConfirmedKept /\ HintsSpaced)
BY UpdateInductive, PTL DEF UpdateInv

\* A step that begins an automatic check does so with checks switched on and at the cache's time.
LEMMA AutomaticStep ==
    UpdateInv /\ [UpdateNext]_updateVars =>
        [updatePast'.begun # updatePast.begun =>
         /\ automatic
         /\ updatePast.lastSaved # 0 =>
              clock >= updatePast.lastSaved + (IF cache.failed THEN FailureBackoff ELSE CheckInterval)]_updateVars
<1> USE UpdateBounds DEF UpdateBounds
<1> SUFFICES ASSUME UpdateInv, UpdateNext, updatePast'.begun # updatePast.begun
    PROVE  /\ automatic
           /\ updatePast.lastSaved # 0 =>
                clock >= updatePast.lastSaved + (IF cache.failed THEN FailureBackoff ELSE CheckInterval)
  OBVIOUS
<1>1. PastType
  BY DEF UpdateInv, UpdateTypeOK
<1>2. PICK p \in UpdateCallers : LockCheck(p)
  <2>1. ASSUME NEW past, \E n : \/ past = [updatePast EXCEPT !.faults = n] \/ past = [updatePast EXCEPT !.runs = n]
                               \/ past = [updatePast EXCEPT !.hints = n] \/ past = [updatePast EXCEPT !.toggles = n]
                               \/ past = [updatePast EXCEPT !.releases = n]
                               \/ \E m : past = [updatePast EXCEPT !.lastSaved = n, !.confirmed = m]
        PROVE  past.begun = updatePast.begun
    BY <1>1, <2>1 DEF PastType
  <2>2. ~SetAutomatic /\ ~Publish /\ ~UpdateTick
    BY <1>1 DEF PastType, SetAutomatic, Publish, UpdateTick
  <2>3. ASSUME NEW p \in UpdateCallers,
               \/ \E kind \in Kinds : BeginCheck(p, kind)
               \/ LookAtCache(p) \/ LockTimesOut(p) \/ Fetch(p) \/ SaveCheck(p) \/ SaveCheckFails(p)
               \/ LockNotice(p) \/ NoticeTimesOut(p) \/ TakeNotice(p) \/ MarkFails(p) \/ KillChecker(p)
        PROVE  FALSE
    <3>1. updatePast' # updatePast
      OBVIOUS
    <3>2. ~(\E kind \in Kinds : BeginCheck(p, kind)) /\ ~LookAtCache(p) /\ ~LockTimesOut(p) /\ ~Fetch(p)
      BY <2>1, <3>1 DEF BeginCheck, LookAtCache, LockTimesOut, Fetch
    <3>3. ~SaveCheckFails(p) /\ ~LockNotice(p) /\ ~NoticeTimesOut(p)
      BY <2>1, <3>1 DEF SaveCheckFails, LockNotice, NoticeTimesOut
    <3>a. ~SaveCheck(p)
      BY <1>1 DEF PastType, SaveCheck
    <3>4. ~TakeNotice(p) /\ ~MarkFails(p) /\ ~KillChecker(p)
      BY <2>1, <3>1 DEF TakeNotice, MarkFails, KillChecker
    <3> QED
      BY <2>3, <3>2, <3>3, <3>a, <3>4
  <2> QED
    BY <2>2, <2>3 DEF UpdateNext
<1>3. automatic /\ Due(cache)
  BY <1>2 DEF LockCheck, StillDue
<1>4. updatePast.lastSaved \in Nat /\ cache.next \in Nat /\ clock \in Nat
  BY <1>1 DEF PastType, UpdateInv, UpdateTypeOK, FilesType, Caches, Ticks
<1>5. updatePast.lastSaved # 0 =>
        cache.next >= updatePast.lastSaved + (IF cache.failed THEN FailureBackoff ELSE CheckInterval)
  BY DEF UpdateInv, SavedSpaces, NotDueBefore
<1> QED
  BY <1>3, <1>4, <1>5 DEF Due

\* An automatic check keeps its distance to the last one, whichever process made that one.
THEOREM AutomaticSpacedThm == UpdateSpec => AutomaticSpaced
<1>1. UpdateInv /\ [UpdateNext]_updateVars =>
        [updatePast'.begun # updatePast.begun =>
         /\ automatic
         /\ updatePast.lastSaved # 0 =>
              clock >= updatePast.lastSaved + (IF cache.failed THEN FailureBackoff ELSE CheckInterval)]_updateVars
  BY AutomaticStep
<1> QED
  BY <1>1, UpdateInductive, PTL DEF UpdateSpec, AutomaticSpaced

-----------------------------------------------------------------------------
(* ClaudeWiring.                                                            *)

Jobs == [at : {"idle", "stage", "staging", "verify", "rename", "check", "refresh", "refreshing", "undo", "undoing", "drop"},
         op : {"on", "off"}, read : Settings, goal : Settings, save : Backups, undo : Backups,
         staged : BOOLEAN, raced : BOOLEAN]

\* A file that is not there has no content.
Solid(s) == s.there \/ s = Absent

ClaudeTypes ==
    /\ settings \in Settings /\ backup \in Backups /\ job \in Jobs /\ before \in Settings
    /\ fresh \in BOOLEAN /\ quiet \in BOOLEAN /\ edited \in 0..MaxEdits /\ runs \in 0..MaxRuns
    /\ Solid(settings) /\ Solid(before) /\ Solid(job.read)

\* What `off` means to leave.
Unwired(goal, s) ==
    /\ goal.base # "gateway" /\ goal.model # "alias" /\ Solid(goal)
    /\ goal # Absent => goal.other = s.other
    /\ goal = Absent => s.other = 0
    /\ s.base = "user" => goal.base = "user"
    /\ s.knob = "user" => goal.knob = "user"

\* Until the write, the file is the one that was read, or an edit is on record.
ReadIsCurrent ==
    /\ job.at \in {"stage", "staging", "verify"} /\ fresh => settings = job.read
    /\ job.at = "rename" /\ ~job.raced => settings = job.read

JobMeans ==
    /\ job.at # "idle" /\ job.op = "off" => Unwired(job.goal, job.read) /\ job.at \in {"verify", "rename", "check", "drop"}
    /\ job.at # "idle" /\ job.op = "on" => /\ job.goal = job.read \/ job.goal = Wired(job.read)
                                           /\ job.at # "drop" /\ job.save.state = "kept"
    /\ job.at \in {"undo", "undoing"} => job.undo.state = "kept"
    /\ job.undo.state # "torn"
    /\ job.at = "drop" => settings.base # "gateway"

\* A backup holds the base URL that `on` found where that is the user's.
Holds(b) == b.state = "kept" /\ before.base = "user" => b.base = "user"
OriginalHeld ==
    /\ Holds(backup)
    /\ job.at # "idle" => Holds(job.save) /\ Holds(job.undo)
    /\ backup.state = "none" /\ before.base = "user" => settings.base # "gateway"
    /\ job.op = "on" /\ job.at \in {"verify", "rename", "check"} => backup.state = "kept"
    /\ job.op = "on" /\ job.at \in {"stage", "staging", "verify", "rename"} /\ job.undo.state = "none" /\ before.base = "user"
           => settings.base # "gateway"

\* While nobody else touched the file and no command was killed: the file that `on` found, as `off` leaves it, ...
AsFound == [before EXCEPT !.model = fixModelAlias(NoBackup, @)]
FirstBackup == NewBackup(before)
LastBackup == recordWrittenValues(FirstBackup, Changed(before), Wired(before))
QuietRun ==
    /\ before.base # "gateway"
    /\ CASE job.at = "idle" -> \/ backup.state = "none" /\ settings = AsFound
                               \/ backup = LastBackup /\ settings = Wired(before)
         [] job.at # "idle" /\ job.op = "on" ->
               /\ fresh /\ job.read = before /\ job.goal = Wired(before) /\ job.staged /\ ~job.raced
               /\ job.undo.state = "none"
               /\ job.at \in {"stage", "staging", "verify", "rename", "check", "refresh", "refreshing"}
               /\ settings = IF job.at \in {"check", "refresh", "refreshing"} THEN Wired(before) ELSE before
               /\ job.save = IF job.at \in {"refresh", "refreshing"} THEN LastBackup ELSE FirstBackup
               /\ job.at \in {"verify", "rename", "check"} => backup = FirstBackup
         [] job.at # "idle" /\ job.op = "off" ->
               /\ fresh /\ job.read = Wired(before) /\ job.goal = AsFound /\ job.undo = LastBackup /\ backup = LastBackup
               /\ settings = IF job.at \in {"check", "drop"} THEN AsFound ELSE Wired(before)

ClaudeInv == ClaudeTypes /\ ReadIsCurrent /\ JobMeans /\ OriginalHeld /\ (quiet => QuietRun)

\* The members of settings.json that matter have their values.
LEMMA SettingsFields ==
    ASSUME NEW s \in Settings
    PROVE  /\ s.there \in BOOLEAN /\ s.base \in {"none", "user", "gateway"} /\ s.knob \in {"none", "user", "on"}
           /\ s.model \in {"none", "native", "alias"} /\ s.other \in 0..MaxEdits
           /\ s["base"] = s.base /\ s["knob"] = s.knob
BY DEF Settings

\* A file that is not there, and the object that is written in its place, are settings without our keys.
LEMMA AbsentFacts == Absent \in Settings /\ Empty \in Settings /\ Empty.there /\ ~Absent.there /\ Absent # Empty
                     /\ Absent.base = "none" /\ Absent.model = "none" /\ Absent.other = 0 /\ Absent.knob = "none"
                     /\ Empty.base = "none" /\ Empty.knob = "none" /\ Empty.model = "none" /\ Empty.other = 0
<1>1. 0 \in 0..MaxEdits
  BY ClaudeBounds
<1>2. Absent \in Settings
  BY <1>1 DEF Absent, Settings
<1>3. Empty \in Settings /\ Empty.there /\ Empty.other = Absent.other /\ Empty.base = Absent.base /\ Empty.knob = Absent.knob
      /\ Empty.model = Absent.model
  BY <1>2 DEF Empty, Settings
<1>4. ~Absent.there /\ Absent.base = "none" /\ Absent.model = "none" /\ Absent.other = 0 /\ Absent.knob = "none"
  BY DEF Absent
<1> QED
  BY <1>2, <1>3, <1>4

\* Settings are what their members are.
LEMMA SettingsEqual ==
    ASSUME NEW s \in Settings, NEW t \in Settings, s.there = t.there, s.base = t.base, s.knob = t.knob,
           s.model = t.model, s.other = t.other
    PROVE  s = t
BY DEF Settings

\* An alias of the gateway is never left as the model.
LEMMA AliasFixed ==
    ASSUME NEW b, NEW m \in {"none", "native", "alias"}
    PROVE  fixModelAlias(b, m) \in {"none", "native"} /\ (m # "alias" => fixModelAlias(b, m) = m)
BY DEF fixModelAlias

\* Wiring sets the two keys to the gateway's, keeps the rest, and leaves nothing to change.
LEMMA WiredFacts ==
    ASSUME NEW s \in Settings
    PROVE  /\ Wired(s) \in Settings /\ Wired(s).there /\ Wired(s).base = "gateway" /\ Wired(s).knob = "on"
           /\ Wired(s).model = s.model /\ Wired(s).other = s.other /\ Changed(Wired(s)) = {}
<1>1. /\ Wired(s) \in Settings /\ Wired(s).there /\ Wired(s).base = "gateway" /\ Wired(s).knob = "on"
      /\ Wired(s).model = s.model /\ Wired(s).other = s.other
  BY DEF Wired, Settings
<1> QED
  BY <1>1, SettingsFields DEF Changed, Keys, desiredClaudeEnvValue

\* The keys that differ from what the gateway needs.
LEMMA ChangedFacts ==
    ASSUME NEW s \in Settings
    PROVE  /\ Changed(s) \in SUBSET {"base", "knob"}
           /\ "base" \in Changed(s) <=> s.base # "gateway"
           /\ "knob" \in Changed(s) <=> s.knob # "on"
           /\ Changed(s) = {} <=> s.base = "gateway" /\ s.knob = "on"
BY SettingsFields DEF Changed, Keys, desiredClaudeEnvValue

\* The members of a backup have their values.
LEMMA BackupFields ==
    ASSUME NEW b \in Backups
    PROVE  /\ b.state \in {"none", "torn", "kept"} /\ b.base \in {"uncovered", "none", "user"}
           /\ b.knob \in {"uncovered", "none", "user", "on"} /\ b.model \in {"none", "native", "alias"}
           /\ b.existed \in BOOLEAN /\ b.hash \in Settings /\ b.wrote \in SUBSET {"base", "knob"} /\ b.legacy \in BOOLEAN
           /\ b["base"] = b.base /\ b["knob"] = b.knob
BY DEF Backups

\* No backup covers nothing and owns nothing.
LEMMA NoBackupFacts ==
    /\ NoBackup \in Backups /\ Torn \in Backups /\ NoBackup.state = "none" /\ Torn.state = "torn"
    /\ NoBackup.base = "uncovered" /\ NoBackup.knob = "uncovered" /\ NoBackup.model = "none" /\ ~NoBackup.legacy /\ NoBackup.wrote = {}
BY AbsentFacts DEF NoBackup, Torn, Backups

\* Covering what a backup does not cover yet keeps what it has, and records the user's value of the rest.
LEMMA RecordedFacts ==
    ASSUME NEW b \in Backups, NEW s \in Settings
    PROVE  LET r == recordBackupKey(b, s)
           IN  /\ r \in Backups /\ r.state = b.state /\ r.hash = s /\ r.model = b.model /\ r.existed = b.existed
               /\ r.wrote = b.wrote /\ r.legacy = b.legacy
               /\ r.base = IF (b.state # "kept" \/ b.base = "uncovered") /\ s.base # "gateway" THEN s.base ELSE b.base
               /\ r.knob = IF b.state # "kept" \/ b.knob = "uncovered" THEN s.knob ELSE b.knob
<1> DEFINE ba == IF "base" \in Uncovered(b, s) THEN s.base ELSE b.base
           k  == IF "knob" \in Uncovered(b, s) THEN s.knob ELSE b.knob
<1>1. recordBackupKey(b, s) = [b EXCEPT !.base = ba, !.knob = k, !.hash = s]
  BY DEF recordBackupKey, Backups
<1>2. /\ ba = IF (b.state # "kept" \/ b.base = "uncovered") /\ s.base # "gateway" THEN s.base ELSE b.base
      /\ k = IF b.state # "kept" \/ b.knob = "uncovered" THEN s.knob ELSE b.knob
  BY BackupFields DEF Uncovered, backupCovers, ownedEnvValue, Keys
<1> HIDE DEF ba, k
<1>3. ba \in {"uncovered", "none", "user"} /\ k \in {"uncovered", "none", "user", "on"}
  BY <1>2, SettingsFields, BackupFields
<1>4. LET r == [b EXCEPT !.base = ba, !.knob = k, !.hash = s]
      IN  /\ r \in Backups /\ r.state = b.state /\ r.hash = s /\ r.model = b.model /\ r.existed = b.existed
          /\ r.wrote = b.wrote /\ r.legacy = b.legacy /\ r.base = ba /\ r.knob = k
  BY <1>3 DEF Backups
<1> QED
  BY <1>1, <1>2, <1>4

\* A new backup records the user's values of both keys, and the file it was taken from.
LEMMA NewFacts ==
    ASSUME NEW s \in Settings
    PROVE  LET r == NewBackup(s)
           IN  /\ r \in Backups /\ r.state = "kept" /\ r.hash = s /\ r.model = s.model /\ r.existed = s.there
               /\ r.wrote = {} /\ ~r.legacy
               /\ r.base = IF s.base # "gateway" THEN s.base ELSE "uncovered"
               /\ r.knob = s.knob
<1> DEFINE b == [NoBackup EXCEPT !.state = "kept", !.existed = s.there, !.model = s.model]
<1>1. /\ b \in Backups /\ b.state = "kept" /\ b.base = NoBackup.base /\ b.knob = NoBackup.knob /\ b.model = s.model
      /\ b.existed = s.there /\ b.wrote = NoBackup.wrote /\ b.legacy = NoBackup.legacy
  BY NoBackupFacts, SettingsFields DEF Backups
<1>2. NewBackup(s) = recordBackupKey(b, s)
  BY DEF NewBackup
<1> HIDE DEF b
<1> QED
  BY <1>1, <1>2, RecordedFacts, NoBackupFacts

IsWritten(b, keys, s, r) ==
    /\ r \in Backups /\ r.hash = s /\ r.wrote = b.wrote \cup keys /\ r.state = b.state /\ r.base = b.base
    /\ r.knob = b.knob /\ r.model = b.model /\ r.existed = b.existed /\ r.legacy = b.legacy
\* Recording what was written adds to the written values and takes the hash of the file.
LEMMA WrittenFacts ==
    ASSUME NEW b \in Backups, NEW keys, keys \subseteq {"base", "knob"}, NEW s \in Settings
    PROVE  IsWritten(b, keys, s, recordWrittenValues(b, keys, s))
BY DEF recordWrittenValues, Backups, IsWritten

\* Filling in the written values of an older backup keeps what it covers.
LEMMA InitializedFacts ==
    ASSUME NEW b \in Backups, NEW s \in Settings
    PROVE  LET r == initializeWrittenValues(b, s)
           IN  r \in Backups /\ r.state = b.state /\ r.base = b.base /\ r.knob = b.knob
<1>1. CASE ~b.legacy
  BY <1>1 DEF initializeWrittenValues
<1>2. CASE b.legacy
  <2> DEFINE w == {k \in Keys : /\ backupCovers(b, k)
                                /\ \/ backupWrittenValue(b, k) /\ s[k] = desiredClaudeEnvValue(k)
                                   \/ ownedEnvValue(k, s)}
  <2>1. initializeWrittenValues(b, s) = [b EXCEPT !.legacy = FALSE, !.wrote = w]
    BY <1>2 DEF initializeWrittenValues
  <2>2. w \in SUBSET {"base", "knob"}
    BY DEF Keys
  <2> HIDE DEF w
  <2> QED
    BY <2>1, <2>2 DEF Backups
<1> QED
  BY <1>1, <1>2

\* Stripping takes our values out and leaves everyone else's.
LEMMA StrippedFacts ==
    ASSUME NEW b \in Backups, NEW s \in Settings, s.there
    PROVE  Stripped(b, s) \in Settings /\ Stripped(b, s).there /\ Unwired(Stripped(b, s), s)
<1> DEFINE strip(key) == \/ ownedEnvValue(key, s)
                         \/ /\ backupWrittenValue(b, key)
                            /\ s[key] = desiredClaudeEnvValue(key) /\ b[key] # s[key]
           ba == IF strip("base") THEN "none" ELSE s.base
           k  == IF strip("knob") THEN "none" ELSE s.knob
           m  == fixModelAlias(b, s.model)
<1>1. Stripped(b, s) = [s EXCEPT !.base = ba, !.knob = k, !.model = m]
  BY DEF Stripped, Settings
<1>2. /\ ba \in {"none", "user"} /\ (s.base = "user" => ba = "user")
      /\ k \in {"none", "user", "on"} /\ (s.knob = "user" => k = "user")
  BY SettingsFields DEF ownedEnvValue, desiredClaudeEnvValue
<1>3. m \in {"none", "native"}
  BY SettingsFields, AliasFixed
<1> HIDE DEF ba, k, m
<1>4. LET r == [s EXCEPT !.base = ba, !.knob = k, !.model = m]
      IN  r \in Settings /\ r.there = s.there /\ r.base = ba /\ r.knob = k /\ r.model = m /\ r.other = s.other
  BY <1>2, <1>3, SettingsFields DEF Settings
<1> QED
  BY <1>1, <1>2, <1>3, <1>4, AbsentFacts DEF Unwired, Solid

\* Restoring leaves no value of ours, and every value that is not ours where it is.
LEMMA RestoredFacts ==
    ASSUME NEW b \in Backups, NEW s \in Settings, s.there, b.state = "kept"
    PROVE  Restored(b, s) \in Settings /\ Unwired(Restored(b, s), s)
<1> DEFINE put(key) == IF ~backupOwnsCurrentValue(b, s, key) THEN s[key]
                       ELSE IF b[key] = "uncovered" THEN "none" ELSE b[key]
           ba == put("base")
           k  == put("knob")
           m  == fixModelAlias(b, s.model)
           r  == [s EXCEPT !.base = ba, !.knob = k, !.model = m]
<1>1. Restored(b, s) = IF ~b.existed /\ r = Empty THEN Absent ELSE r
  BY DEF Restored, Settings
<1>2. /\ ba \in {"none", "user"} /\ (s.base = "user" => ba = "user")
      /\ k \in {"none", "user", "on"} /\ (s.knob = "user" => k = "user")
  BY SettingsFields, BackupFields DEF ownedEnvValue, desiredClaudeEnvValue, backupOwnsCurrentValue, backupWrittenValue
<1>3. m \in {"none", "native"}
  BY SettingsFields, AliasFixed
<1> HIDE DEF ba, k, m
<1>4. r \in Settings /\ r.there = s.there /\ r.base = ba /\ r.knob = k /\ r.model = m /\ r.other = s.other
  BY <1>2, <1>3, SettingsFields DEF Settings
<1> HIDE DEF r
<1>5. Unwired(r, s)
  BY <1>2, <1>3, <1>4, AbsentFacts DEF Unwired, Solid
<1>6. r = Empty => Unwired(Absent, s)
  BY <1>2, <1>4, <1>5, AbsentFacts DEF Unwired, Solid
<1> QED
  BY <1>1, <1>4, <1>5, <1>6, AbsentFacts

-----------------------------------------------------------------------------

\* The members of a running command have their values.
LEMMA JobFields ==
    ASSUME NEW j \in Jobs
    PROVE  /\ j.at \in {"idle", "stage", "staging", "verify", "rename", "check", "refresh", "refreshing", "undo", "undoing", "drop"}
           /\ j.op \in {"on", "off"} /\ j.read \in Settings /\ j.goal \in Settings /\ j.save \in Backups /\ j.undo \in Backups
           /\ j.staged \in BOOLEAN /\ j.raced \in BOOLEAN
BY DEF Jobs

\* The command goes on to its next step.
JobAt(at) == /\ job' \in Jobs /\ job'.at = at /\ job'.op = job.op /\ job'.read = job.read /\ job'.goal = job.goal
          /\ job'.save = job.save /\ job'.undo = job.undo /\ job'.staged = job.staged /\ job'.raced = job.raced
\* Going to the next step changes the step alone.
LEMMA GotoFacts ==
    ASSUME job \in Jobs, NEW at \in {"idle", "stage", "staging", "verify", "rename", "check", "refresh", "refreshing", "undo", "undoing", "drop"},
           Goto(at)
    PROVE  JobAt(at)
BY DEF Goto, JobAt, Jobs

\* No command runs: it read nothing and has nothing to undo.
LEMMA IdleFacts == Idle \in Jobs /\ Idle.at = "idle" /\ Solid(Idle.read) /\ Idle.undo.state = "none"
BY AbsentFacts, NoBackupFacts DEF Idle, Jobs, Solid

\* A file the user wrote, and no command yet.
LEMMA ClaudeStarts == ClaudeInit => ClaudeInv
<1> SUFFICES ASSUME ClaudeInit PROVE ClaudeInv
  OBVIOUS
<1>1. settings \in Settings /\ Solid(settings)
  BY AbsentFacts DEF ClaudeInit, Solid
<1>2. backup \in Backups /\ backup.state \in {"none", "kept"}
  <2>1. CASE backup = NoBackup
    BY <2>1, NoBackupFacts
  <2>2. CASE backup # NoBackup
    <3>1. PICK base \in {"none", "user"} :
             backup = [NoBackup EXCEPT !.state = "kept", !.base = base, !.legacy = TRUE, !.existed = TRUE, !.hash = settings]
      BY <2>2 DEF ClaudeInit
    <3> QED
      BY <1>1, <3>1, NoBackupFacts DEF Backups
  <2> QED
    BY <2>1, <2>2
<1>3. ClaudeTypes
  <2>1. 0 \in 0..MaxEdits /\ 0 \in 0..MaxRuns
    BY ClaudeBounds
  <2>2. job \in Jobs /\ Solid(job.read) /\ before \in Settings /\ Solid(before)
    BY IdleFacts, AbsentFacts DEF ClaudeInit, Solid
  <2> QED
    BY <1>1, <1>2, <2>1, <2>2 DEF ClaudeInit, ClaudeTypes
<1> QED
  BY <1>3, IdleFacts, AbsentFacts DEF ClaudeInit, ClaudeInv, ReadIsCurrent, JobMeans, OriginalHeld, Holds

\* A command that dies leaves what it had written.
LEMMA KilledKeeps == ClaudeInv /\ Killed => ClaudeInv'
BY IdleFacts DEF Killed, FinishRun, ClaudeInv, ClaudeTypes, ReadIsCurrent, JobMeans, OriginalHeld, Holds

\* The end of off, which removes the backup.
LEMMA DropKeeps == ClaudeInv /\ Drop => ClaudeInv'
<1> SUFFICES ASSUME ClaudeInv, Drop PROVE ClaudeInv'
  OBVIOUS
<1>1. ClaudeTypes' /\ ReadIsCurrent' /\ JobMeans' /\ OriginalHeld'
  BY IdleFacts, NoBackupFacts DEF Drop, FinishRun, ClaudeInv, ClaudeTypes, ReadIsCurrent, JobMeans, OriginalHeld, Holds
<1>2. ASSUME quiet' PROVE QuietRun'
  <2>1. job.op = "off" /\ job.at = "drop" /\ quiet /\ QuietRun
    BY <1>2, JobFields DEF Drop, ClaudeInv, JobMeans, ClaudeTypes
  <2>2. settings = AsFound /\ before.base # "gateway"
    BY <2>1 DEF QuietRun
  <2> QED
    BY <2>2, NoBackupFacts, IdleFacts DEF Drop, FinishRun, QuietRun, AsFound
<1> QED
  BY <1>1, <1>2 DEF ClaudeInv

\* The first half of writing the backup, which leaves a torn file.
LEMMA TruncateKeeps == ClaudeInv /\ Truncate => ClaudeInv'
<1> SUFFICES ASSUME ClaudeInv, Truncate PROVE ClaudeInv'
  OBVIOUS
<1>1. PICK at \in {"staging", "undoing", "refreshing"} :
         /\ Goto(at) /\ (at = "staging" <=> job.at = "stage") /\ (at = "undoing" <=> job.at = "undo")
         /\ (at = "refreshing" <=> job.at = "refresh")
  BY DEF Truncate
<1>2. JobAt(at)
  BY <1>1, GotoFacts DEF ClaudeInv, ClaudeTypes
<1>3. backup' = Torn /\ UNCHANGED <<settings, fresh, before, quiet, edited, runs>> /\ job.at \in {"stage", "refresh", "undo"}
  BY DEF Truncate
<1>4. ClaudeTypes' /\ ReadIsCurrent' /\ JobMeans' /\ OriginalHeld'
  BY <1>1, <1>2, <1>3, NoBackupFacts DEF JobAt, ClaudeInv, ClaudeTypes, ReadIsCurrent, JobMeans, OriginalHeld, Holds
<1>5. ASSUME quiet' PROVE QuietRun'
  <2>1. quiet /\ QuietRun /\ job.op = "on"
    BY <1>3, <1>5, JobFields DEF ClaudeInv, JobMeans, ClaudeTypes
  <2> QED
    BY <1>1, <1>2, <1>3, <2>1 DEF QuietRun, JobAt, AsFound, FirstBackup, LastBackup
<1> QED
  BY <1>4, <1>5 DEF ClaudeInv

\* The second half of writing the backup.
LEMMA FillKeeps == ClaudeInv /\ Fill => ClaudeInv'
<1> SUFFICES ASSUME ClaudeInv, Fill PROVE ClaudeInv'
  OBVIOUS
<1>0. /\ backup' = IF job.at = "undoing" THEN job.undo ELSE job.save
      /\ UNCHANGED <<settings, fresh, before, quiet, edited, runs>> /\ job.at \in {"staging", "refreshing", "undoing"}
      /\ job.op = "on"
  BY JobFields DEF Fill, ClaudeInv, JobMeans, ClaudeTypes
<1>1. CASE job.at = "staging"
  <2>1. JobAt("verify")
    BY <1>1, GotoFacts DEF ClaudeInv, ClaudeTypes, Fill
  <2>2. ClaudeTypes' /\ ReadIsCurrent' /\ JobMeans' /\ OriginalHeld'
    BY <1>0, <1>1, <2>1, JobFields DEF JobAt, ClaudeInv, ClaudeTypes, ReadIsCurrent, JobMeans, OriginalHeld, Holds
  <2>3. ASSUME quiet' PROVE QuietRun'
    <3>1. quiet /\ QuietRun
      BY <1>0, <2>3 DEF ClaudeInv
    <3> QED
      BY <1>0, <1>1, <2>1, <3>1 DEF QuietRun, JobAt, AsFound, FirstBackup, LastBackup
  <2> QED
    BY <2>2, <2>3 DEF ClaudeInv
<1>2. CASE job.at \in {"refreshing", "undoing"}
  <2>1. job' = Idle
    BY <1>2 DEF Fill, FinishRun
  <2>2. ClaudeTypes' /\ ReadIsCurrent' /\ JobMeans' /\ OriginalHeld'
    BY <1>0, <1>2, <2>1, JobFields, IdleFacts DEF ClaudeInv, ClaudeTypes, ReadIsCurrent, JobMeans, OriginalHeld, Holds
  <2>3. ASSUME quiet' PROVE QuietRun'
    <3>1. quiet /\ QuietRun
      BY <1>0, <2>3 DEF ClaudeInv
    <3>2. job.at = "refreshing" /\ settings = Wired(before) /\ job.save = LastBackup /\ before.base # "gateway"
      BY <1>0, <1>2, <3>1 DEF QuietRun
    <3> QED
      BY <1>0, <2>1, <3>2, IdleFacts DEF QuietRun, AsFound, FirstBackup, LastBackup
  <2> QED
    BY <2>2, <2>3 DEF ClaudeInv
<1> QED
  BY <1>0, <1>1, <1>2

\* After the write of `on` the backup is bound to what was written, and `off` drops its own.
AfterFacts ==
    /\ job' \in Jobs /\ job'.op = job.op /\ job'.read = job.read /\ job'.goal = job.goal /\ job'.undo = job.undo
    /\ job'.staged = job.staged /\ job'.raced = job.raced
    /\ job.op = "off" => job'.save = job.save /\ job'.at = IF job.undo.state = "kept" THEN "drop" ELSE "idle"
    /\ job.op = "on" => /\ job'.at = "refresh" /\ job'.save.state = job.save.state /\ job'.save.base = job.save.base
                        /\ job'.save = IF job.goal # job.read \/ job.staged THEN recordWrittenValues(job.save, Changed(job.read), job.goal)
                                       ELSE job.save
\* What follows a write that stands.
LEMMA AfterWriteFacts ==
    ASSUME job \in Jobs, AfterWrite
    PROVE  AfterFacts
<1>1. CASE job.op = "off"
  <2>1. PICK at \in {"drop", "idle"} : Goto(at) /\ at = IF job.undo.state = "kept" THEN "drop" ELSE "idle"
    BY <1>1 DEF AfterWrite
  <2>2. JobAt(at)
    BY <2>1, GotoFacts
  <2> QED
    BY <1>1, <2>1, <2>2 DEF JobAt, AfterFacts
<1>2. CASE job.op = "on"
  <2> DEFINE save == IF job.goal # job.read \/ job.staged THEN recordWrittenValues(job.save, Changed(job.read), job.goal) ELSE job.save
  <2>1. job' = [job EXCEPT !.at = "refresh", !.save = save]
    BY <1>2 DEF AfterWrite, Bound, Jobs
  <2>2. Changed(job.read) \in SUBSET {"base", "knob"}
    BY JobFields, ChangedFacts
  <2>3. save \in Backups /\ save.state = job.save.state /\ save.base = job.save.base
    <3>1. job.save \in Backups /\ job.goal \in Settings
      BY JobFields
    <3>2. IsWritten(job.save, Changed(job.read), job.goal, recordWrittenValues(job.save, Changed(job.read), job.goal))
      BY <2>2, <3>1, WrittenFacts
    <3> QED
      BY <3>1, <3>2 DEF IsWritten
  <2> HIDE DEF save
  <2>4. /\ job' \in Jobs /\ job'.op = job.op /\ job'.read = job.read /\ job'.goal = job.goal /\ job'.undo = job.undo
        /\ job'.staged = job.staged /\ job'.raced = job.raced /\ job'.at = "refresh" /\ job'.save = save
    BY <2>1, <2>3 DEF Jobs
  <2> QED
    BY <1>2, <2>3, <2>4 DEF AfterFacts, save
<1> QED
  BY <1>1, <1>2, JobFields

\* What off should leave after an undisturbed on: the file as it was found, but for the model alias.
LEMMA AsFoundFacts ==
    ASSUME before \in Settings
    PROVE  /\ AsFound \in Settings /\ AsFound.there = before.there /\ AsFound.base = before.base /\ AsFound.knob = before.knob
           /\ AsFound.other = before.other /\ AsFound.model = IF before.model = "alias" THEN "none" ELSE before.model
BY NoBackupFacts, SettingsFields DEF AsFound, fixModelAlias, Settings

\* What the backup says once `on` has run: all that it found.
LEMMA LastFacts ==
    ASSUME before \in Settings, before.base # "gateway"
    PROVE  /\ FirstBackup \in Backups /\ FirstBackup.state = "kept" /\ FirstBackup.base = before.base
           /\ LastBackup \in Backups /\ LastBackup.state = "kept" /\ LastBackup.base = before.base /\ LastBackup.knob = before.knob
           /\ LastBackup.model = before.model /\ LastBackup.existed = before.there /\ LastBackup.hash = Wired(before)
           /\ ~LastBackup.legacy /\ LastBackup.wrote = Changed(before) /\ "base" \in Changed(before)
<1>1. Changed(before) \in SUBSET {"base", "knob"} /\ "base" \in Changed(before)
  BY ChangedFacts
<1>2. /\ FirstBackup \in Backups /\ FirstBackup.state = "kept" /\ FirstBackup.base = before.base /\ FirstBackup.knob = before.knob
      /\ FirstBackup.model = before.model /\ FirstBackup.existed = before.there /\ ~FirstBackup.legacy /\ FirstBackup.wrote = {}
  BY NewFacts DEF FirstBackup
<1>3. Wired(before) \in Settings
  BY WiredFacts
<1>4. IsWritten(FirstBackup, Changed(before), Wired(before), LastBackup)
  BY <1>1, <1>2, <1>3, WrittenFacts DEF LastBackup
<1> QED
  BY <1>1, <1>2, <1>4 DEF IsWritten

\* The file and a write or no write: what `on` and `off` leave when they do not conflict.
LEMMA CheckKeeps == ClaudeInv /\ Check => ClaudeInv'
<1> SUFFICES ASSUME ClaudeInv, Check PROVE ClaudeInv'
  OBVIOUS
<1>0. job.at = "check" /\ UNCHANGED <<settings, backup, fresh, before, quiet, edited, runs>> /\ job \in Jobs
  BY DEF Check, ClaudeInv, ClaudeTypes
<1>1. CASE settings = job.goal
  <2>1. AfterFacts
    BY <1>0, <1>1, AfterWriteFacts DEF Check
  <2>2. ClaudeTypes' /\ ReadIsCurrent' /\ JobMeans' /\ OriginalHeld'
    BY <1>0, <1>1, <2>1, JobFields DEF AfterFacts, ClaudeInv, ClaudeTypes, ReadIsCurrent, JobMeans, OriginalHeld, Holds, Unwired
  <2>3. ASSUME quiet' PROVE QuietRun'
    <3>1. quiet /\ QuietRun
      BY <1>0, <2>3 DEF ClaudeInv
    <3>2. CASE job.op = "on"
      <4>1. Wired(before) # before
        BY <3>1, WiredFacts DEF QuietRun, ClaudeInv, ClaudeTypes
      <4> QED
        BY <1>0, <2>1, <3>1, <3>2, <4>1 DEF QuietRun, AfterFacts, AsFound, FirstBackup, LastBackup
    <3>3. CASE job.op = "off"
      <4>1. LastBackup.state = "kept"
        BY <3>1, LastFacts DEF QuietRun, ClaudeInv, ClaudeTypes
      <4> QED
        BY <1>0, <2>1, <3>1, <3>3, <4>1 DEF QuietRun, AfterFacts, AsFound, FirstBackup, LastBackup
    <3> QED
      BY <1>0, <3>2, <3>3, JobFields
  <2> QED
    BY <2>2, <2>3 DEF ClaudeInv
<1>2. CASE settings # job.goal
  <2>1. job' = Idle
    BY <1>2 DEF Check, FinishRun
  <2>2. ClaudeTypes' /\ ReadIsCurrent' /\ JobMeans' /\ OriginalHeld'
    BY <1>0, <2>1, IdleFacts DEF ClaudeInv, ClaudeTypes, ReadIsCurrent, JobMeans, OriginalHeld, Holds
  <2>3. ~quiet
    BY <1>0, <1>2, JobFields DEF ClaudeInv, QuietRun
  <2> QED
    BY <1>0, <2>2, <2>3 DEF ClaudeInv
<1> QED
  BY <1>1, <1>2

\* A command that finds the file changed before it writes.
LEMMA ConflictKeeps ==
    ASSUME ClaudeInv, job.at = "verify" \/ job.at = "rename", Conflict, ~quiet,
           UNCHANGED <<settings, fresh, before, quiet, edited, runs>>
    PROVE  ClaudeInv'
<1>0. job \in Jobs
  BY DEF ClaudeInv, ClaudeTypes
<1>1. CASE job' = Idle /\ backup' = backup
  BY <1>1, IdleFacts DEF ClaudeInv, ClaudeTypes, ReadIsCurrent, JobMeans, OriginalHeld, Holds
<1>2. CASE job.op = "on" /\ job.undo.state = "none" /\ job' = Idle /\ backup' = NoBackup
  BY <1>2, IdleFacts, NoBackupFacts DEF ClaudeInv, ClaudeTypes, ReadIsCurrent, JobMeans, OriginalHeld, Holds
<1>3. CASE job.op = "on" /\ job.undo.state # "none" /\ Goto("undo") /\ backup' = backup
  <2>1. JobAt("undo")
    BY <1>0, <1>3, GotoFacts
  <2>2. job.undo.state = "kept"
    BY <1>0, <1>3, JobFields, BackupFields DEF ClaudeInv, JobMeans
  <2> QED
    BY <1>3, <2>1, <2>2 DEF JobAt, ClaudeInv, ClaudeTypes, ReadIsCurrent, JobMeans, OriginalHeld, Holds
<1> QED
  BY <1>0, <1>1, <1>2, <1>3, JobFields DEF Conflict, FinishRun

\* The look at the file before the rename.
LEMMA VerifyKeeps == ClaudeInv /\ Verify => ClaudeInv'
<1> SUFFICES ASSUME ClaudeInv, Verify PROVE ClaudeInv'
  OBVIOUS
<1>0. job.at = "verify" /\ UNCHANGED <<settings, fresh, before, quiet, edited, runs>> /\ job \in Jobs
  BY DEF Verify, ClaudeInv, ClaudeTypes
<1>1. CASE ~fresh
  <2>1. ~quiet
    BY <1>0, <1>1, JobFields DEF ClaudeInv, QuietRun
  <2> QED
    BY <1>0, <1>1, <2>1, ConflictKeeps DEF Verify, verifyCurrent
<1>2. CASE fresh /\ job.goal # job.read
  <2>1. JobAt("rename") /\ backup' = backup
    BY <1>0, <1>2, GotoFacts DEF Verify, verifyCurrent
  <2>2. settings = job.read
    BY <1>0, <1>2 DEF ClaudeInv, ReadIsCurrent
  <2>3. ClaudeTypes' /\ ReadIsCurrent' /\ JobMeans' /\ OriginalHeld'
    BY <1>0, <2>1, <2>2 DEF JobAt, ClaudeInv, ClaudeTypes, ReadIsCurrent, JobMeans, OriginalHeld, Holds
  <2>4. ASSUME quiet' PROVE QuietRun'
    <3>1. quiet /\ QuietRun
      BY <1>0, <2>4 DEF ClaudeInv
    <3> QED
      BY <1>0, <2>1, <3>1 DEF QuietRun, JobAt, AsFound, FirstBackup, LastBackup
  <2> QED
    BY <2>3, <2>4 DEF ClaudeInv
<1>3. CASE fresh /\ job.goal = job.read
  <2>1. AfterFacts /\ backup' = backup
    BY <1>0, <1>3, AfterWriteFacts DEF Verify, verifyCurrent
  <2>2. settings = job.read
    BY <1>0, <1>3 DEF ClaudeInv, ReadIsCurrent
  <2>3. ClaudeTypes' /\ ReadIsCurrent' /\ JobMeans' /\ OriginalHeld'
    BY <1>0, <1>3, <2>1, <2>2, JobFields DEF AfterFacts, ClaudeInv, ClaudeTypes, ReadIsCurrent, JobMeans, OriginalHeld, Holds, Unwired
  <2>4. ~quiet
    <3> SUFFICES ASSUME quiet PROVE FALSE
      OBVIOUS
    <3>1. QuietRun /\ before.base # "gateway" /\ before \in Settings
      BY DEF ClaudeInv, QuietRun, ClaudeTypes
    <3>2. Wired(before).base = "gateway" /\ AsFound.base # "gateway"
      BY <3>1, WiredFacts, AsFoundFacts
    <3> QED
      BY <1>0, <1>3, <3>1, <3>2, JobFields DEF QuietRun
  <2> QED
    BY <1>0, <2>3, <2>4 DEF ClaudeInv
<1> QED
  BY <1>1, <1>2, <1>3

\* The rename, over whatever is there.
LEMMA RenameKeeps == ClaudeInv /\ Rename => ClaudeInv'
<1> SUFFICES ASSUME ClaudeInv, Rename PROVE ClaudeInv'
  OBVIOUS
<1>0. job.at = "rename" /\ UNCHANGED <<fresh, before, quiet, edited, runs>> /\ job \in Jobs /\ before \in Settings
  BY DEF Rename, ClaudeInv, ClaudeTypes
<1>1. CASE ~job.read.there /\ settings.there /\ Conflict /\ UNCHANGED settings
  <2>1. ~quiet
    <3> SUFFICES ASSUME quiet PROVE FALSE
      OBVIOUS
    <3>1. QuietRun
      BY DEF ClaudeInv
    <3> QED
      BY <1>0, <1>1, <3>1, JobFields DEF QuietRun
  <2> QED
    BY <1>0, <1>1, <2>1, ConflictKeeps
<1>2. CASE settings' = job.goal /\ Goto("check") /\ UNCHANGED backup
  <2>1. JobAt("check")
    BY <1>0, <1>2, GotoFacts
  <2>2. job.goal \in Settings /\ Solid(job.goal)
    <3>1. job.op = "off" => Solid(job.goal)
      BY <1>0 DEF ClaudeInv, JobMeans, Unwired
    <3>2. job.op = "on" => Solid(job.goal)
      BY <1>0, JobFields, WiredFacts DEF ClaudeInv, ClaudeTypes, JobMeans, Solid
    <3> QED
      BY <1>0, <3>1, <3>2, JobFields
  <2>3. ClaudeTypes' /\ ReadIsCurrent' /\ JobMeans' /\ OriginalHeld'
    BY <1>0, <1>2, <2>1, <2>2, JobFields DEF JobAt, ClaudeInv, ClaudeTypes, ReadIsCurrent, JobMeans, OriginalHeld, Holds, Unwired
  <2>4. ASSUME quiet' PROVE QuietRun'
    <3>1. quiet /\ QuietRun
      BY <1>0, <2>4 DEF ClaudeInv
    <3>2. CASE job.op = "on"
      <4>1. settings' = Wired(before)
        BY <1>0, <1>2, <3>1, <3>2 DEF QuietRun
      <4> QED
        BY <1>0, <1>2, <2>1, <3>1, <3>2, <4>1 DEF QuietRun, JobAt, AsFound, FirstBackup, LastBackup
    <3>3. CASE job.op = "off"
      <4>1. settings' = AsFound
        BY <1>0, <1>2, <3>1, <3>3 DEF QuietRun
      <4> QED
        BY <1>0, <1>2, <2>1, <3>1, <3>3, <4>1 DEF QuietRun, JobAt, AsFound, FirstBackup, LastBackup
    <3> QED
      BY <1>0, <3>2, <3>3, JobFields
  <2> QED
    BY <2>3, <2>4 DEF ClaudeInv
<1> QED
  BY <1>1, <1>2 DEF Rename

\* An edit by Claude Code or its user.
LEMMA OutsideKeeps == ClaudeInv /\ Outside => ClaudeInv'
<1> SUFFICES ASSUME ClaudeInv, Outside PROVE ClaudeInv'
  OBVIOUS
<1>0. /\ UNCHANGED <<backup, before, runs>> /\ ~fresh' /\ ~quiet' /\ fresh' \in BOOLEAN /\ quiet' \in BOOLEAN
      /\ job \in Jobs /\ edited' = edited + 1 /\ edited' \in 0..MaxEdits
  <2>1. edited \in 0..MaxEdits /\ edited < MaxEdits /\ edited' = edited + 1 /\ MaxEdits \in Nat
    BY ClaudeBounds DEF Outside, ClaudeInv, ClaudeTypes
  <2>2. edited' \in 0..MaxEdits
    BY <2>1
  <2> QED
    BY <2>1, <2>2 DEF Outside, ClaudeInv, ClaudeTypes
<1>1. /\ job' \in Jobs /\ job'.at = job.at /\ job'.op = job.op /\ job'.read = job.read /\ job'.goal = job.goal
      /\ job'.save = job.save /\ job'.undo = job.undo /\ job'.staged = job.staged /\ job'.raced = (job.at = "rename")
  BY <1>0 DEF Outside, Jobs
<1>2. settings' \in Settings /\ Solid(settings') /\ (settings'.base = "gateway" => settings.base = "gateway")
  <2>1. CASE settings' = Absent
    BY <2>1, AbsentFacts DEF Solid
  <2>2. CASE settings' # Absent
    <3>1. PICK base \in {settings.base, "none", "user"}, knob \in {settings.knob, "user"}, model \in {settings.model, "alias"} :
             settings' = [there |-> TRUE, base |-> base, knob |-> knob, model |-> model, other |-> edited + 1]
      BY <2>2 DEF Outside
    <3>2. settings \in Settings
      BY DEF ClaudeInv, ClaudeTypes
    <3>3. base \in {"none", "user", "gateway"} /\ knob \in {"none", "user", "on"} /\ model \in {"none", "native", "alias"}
      BY <3>2, SettingsFields
    <3> QED
      BY <1>0, <3>1, <3>3 DEF Settings, Solid
  <2> QED
    BY <2>1, <2>2
<1>3. ClaudeTypes' /\ ReadIsCurrent' /\ JobMeans' /\ OriginalHeld'
  BY <1>0, <1>1, <1>2 DEF ClaudeInv, ClaudeTypes, ReadIsCurrent, JobMeans, OriginalHeld, Holds
<1> QED
  BY <1>0, <1>3 DEF ClaudeInv

\* What a command starts from.
LEMMA StartFacts ==
    ASSUME ClaudeInv, NEW op, Start(op)
    PROVE  /\ job.at = "idle" /\ runs' \in 0..MaxRuns /\ fresh' /\ fresh' \in BOOLEAN /\ backup.state \in {"none", "kept"}
           /\ settings \in Settings /\ backup \in Backups /\ before \in Settings /\ Solid(settings)
<1>1. runs \in 0..MaxRuns /\ runs < MaxRuns /\ runs' = runs + 1 /\ MaxRuns \in Nat
  BY ClaudeBounds DEF Start, ClaudeInv, ClaudeTypes
<1>2. runs' \in 0..MaxRuns
  BY <1>1
<1> QED
  BY <1>2, BackupFields DEF Start, ClaudeInv, ClaudeTypes

\* `claude on`, up to its first write.
LEMMA OnKeepsClaude == ClaudeInv /\ on => ClaudeInv'
<1> SUFFICES ASSUME ClaudeInv, on PROVE ClaudeInv'
  OBVIOUS
<1> DEFINE new     == backup.state = "none"
           init    == initializeWrittenValues(backup, settings)
           staged  == IF new THEN Changed(settings) # {} ELSE Uncovered(backup, settings) # {}
           stage   == IF new THEN NewBackup(settings) ELSE recordBackupKey(init, settings)
           receipt == ~new /\ backup.legacy
           goal    == IF Changed(settings) = {} THEN settings ELSE Wired(settings)
           save    == IF staged THEN stage ELSE init
<1>0. /\ job.at = "idle" /\ runs' \in 0..MaxRuns /\ fresh' /\ fresh' \in BOOLEAN /\ backup.state \in {"none", "kept"}
      /\ settings \in Settings /\ backup \in Backups /\ before \in Settings /\ Solid(settings)
  BY StartFacts DEF on
<1>1. /\ staged \/ Changed(settings) # {} \/ receipt
      /\ job' = [at |-> FirstStep(staged), op |-> "on", read |-> settings, goal |-> goal, save |-> save,
                 undo |-> backup, staged |-> staged, raced |-> FALSE]
      /\ IF new /\ settings.base # "gateway" THEN before' = settings /\ quiet' = TRUE ELSE UNCHANGED <<before, quiet>>
      /\ UNCHANGED <<settings, backup, edited>>
  BY DEF on
<1>2. goal \in Settings /\ staged \in BOOLEAN /\ FirstStep(staged) = IF staged THEN "stage" ELSE "verify"
  BY <1>0, WiredFacts DEF FirstStep
<1>3. init \in Backups /\ init.state = backup.state /\ init.base = backup.base
  BY <1>0, InitializedFacts
<1>4. new => staged
  BY <1>1
<1>5. /\ save \in Backups /\ save.state = "kept"
      /\ new => save = NewBackup(settings) /\ save.base = IF settings.base # "gateway" THEN settings.base ELSE "uncovered"
      /\ ~new => save.base = backup.base \/ (backup.base = "uncovered" /\ save.base = settings.base)
  <2>1. CASE new
    BY <1>0, <1>4, <2>1, NewFacts
  <2>2. CASE ~new
    <3> HIDE DEF init
    <3>1. CASE staged
      BY <1>0, <1>3, <2>2, <3>1, RecordedFacts
    <3>2. CASE ~staged
      BY <1>0, <1>3, <2>2, <3>2
    <3> QED
      BY <3>1, <3>2
  <2> QED
    BY <2>1, <2>2
<1> HIDE DEF goal, save, staged, init, stage
<1>6. /\ job' \in Jobs /\ job'.op = "on" /\ job'.read = settings /\ job'.goal = goal /\ job'.save = save /\ job'.undo = backup
      /\ job'.staged = staged /\ ~job'.raced /\ job'.at = IF staged THEN "stage" ELSE "verify"
  BY <1>0, <1>1, <1>2, <1>5 DEF Jobs
<1>7. ClaudeTypes'
  BY <1>0, <1>1, <1>6 DEF ClaudeInv, ClaudeTypes
<1>8. ReadIsCurrent' /\ JobMeans'
  BY <1>0, <1>1, <1>5, <1>6 DEF ReadIsCurrent, JobMeans, goal
<1>9. OriginalHeld'
  <2>1. CASE new /\ settings.base # "gateway"
    BY <1>0, <1>1, <1>4, <1>5, <1>6, <2>1 DEF ClaudeInv, OriginalHeld, Holds
  <2>2. CASE new /\ settings.base = "gateway"
    BY <1>0, <1>1, <1>4, <1>5, <1>6, <2>2 DEF ClaudeInv, OriginalHeld, Holds
  <2>3. CASE ~new
    BY <1>0, <1>1, <1>5, <1>6, <2>3 DEF ClaudeInv, OriginalHeld, Holds
  <2> QED
    BY <2>1, <2>2, <2>3
<1>10. ASSUME quiet' PROVE QuietRun'
  <2>1. CASE new /\ settings.base # "gateway"
    <3>1. goal = Wired(settings)
      BY <1>0, <2>1, ChangedFacts DEF goal
    <3> QED
      BY <1>0, <1>1, <1>4, <1>5, <1>6, <2>1, <3>1 DEF QuietRun, FirstBackup
  <2>2. CASE ~(new /\ settings.base # "gateway")
    <3>1. quiet /\ QuietRun
      BY <1>1, <1>10, <2>2 DEF ClaudeInv
    <3>2. backup = LastBackup /\ settings = Wired(before) /\ before.base # "gateway"
      BY <1>0, <2>2, <3>1, AsFoundFacts DEF QuietRun
    <3>3. ~backup.legacy /\ backup.state = "kept" /\ backup.base # "uncovered" /\ backup.knob # "uncovered" /\ Changed(settings) = {}
      BY <1>0, <3>2, LastFacts, WiredFacts, SettingsFields
    <3>4. Uncovered(backup, settings) = {}
      BY <1>0, <3>3, BackupFields DEF Uncovered, backupCovers, Keys
    <3> QED
      BY <1>1, <3>3, <3>4 DEF staged
  <2> QED
    BY <2>1, <2>2
<1> QED
  BY <1>7, <1>8, <1>9, <1>10 DEF ClaudeInv

\* In a quiet run `off` means to leave the file that `on` found.
LEMMA QuietRestores ==
    ASSUME before \in Settings, Solid(before), before.base # "gateway"
    PROVE  Restored(LastBackup, Wired(before)) = AsFound
<1> DEFINE b == LastBackup
           s == Wired(before)
           put(key) == IF ~backupOwnsCurrentValue(b, s, key) THEN s[key]
                       ELSE IF b[key] = "uncovered" THEN "none" ELSE b[key]
           ba == put("base")
           k  == put("knob")
           m  == fixModelAlias(b, s.model)
           r  == [s EXCEPT !.base = ba, !.knob = k, !.model = m]
<1>1. Restored(b, s) = IF ~b.existed /\ r = Empty THEN Absent ELSE r
  BY WiredFacts DEF Restored, Settings
<1>2. /\ b \in Backups /\ b.state = "kept" /\ b.base = before.base /\ b.knob = before.knob /\ b.model = before.model
      /\ b.existed = before.there /\ ~b.legacy /\ b.wrote = Changed(before) /\ "base" \in Changed(before)
      /\ ("knob" \in Changed(before) <=> before.knob # "on")
  BY LastFacts, ChangedFacts
<1>3. s \in Settings /\ s.there /\ s.base = "gateway" /\ s.knob = "on" /\ s.model = before.model /\ s.other = before.other
  BY WiredFacts
<1> HIDE DEF b, s
<1>4. ba = before.base /\ k = before.knob
  BY <1>2, <1>3, SettingsFields, BackupFields
  DEF backupOwnsCurrentValue, backupWrittenValue, backupCovers, ownedEnvValue, desiredClaudeEnvValue
<1>5. m = AsFound.model
  BY <1>2, <1>3, AsFoundFacts, SettingsFields DEF fixModelAlias
<1> HIDE DEF ba, k, m
<1>6. r \in Settings /\ r.there /\ r.base = before.base /\ r.knob = before.knob /\ r.model = AsFound.model /\ r.other = before.other
  BY <1>3, <1>4, <1>5, AsFoundFacts, SettingsFields DEF Settings
<1> HIDE DEF r
<1>7. CASE before.there
  <2>1. r = AsFound
    BY <1>6, <1>7, AsFoundFacts, SettingsEqual
  <2> QED
    BY <1>1, <1>2, <1>7, <2>1 DEF b, s
<1>8. CASE ~before.there
  <2>1. before = Absent
    BY <1>8 DEF Solid
  <2>2. r = Empty
    <3>1. AsFound.model = Empty.model
      BY <2>1, AsFoundFacts, AbsentFacts
    <3> QED
      BY <1>6, <2>1, <3>1, AbsentFacts, SettingsEqual
  <2>3. AsFound = Absent
    <3>1. AsFound.model = Absent.model
      BY <2>1, AsFoundFacts, AbsentFacts
    <3> QED
      BY <2>1, <3>1, AbsentFacts, AsFoundFacts, SettingsEqual
  <2> QED
    BY <1>1, <1>2, <1>8, <2>2, <2>3 DEF b, s
<1> QED
  BY <1>7, <1>8

\* `claude off`, up to its first write.
LEMMA OffKeepsClaude == ClaudeInv /\ off => ClaudeInv'
<1> SUFFICES ASSUME ClaudeInv, off PROVE ClaudeInv'
  OBVIOUS
<1> DEFINE goal == IF backup.state = "kept" /\ settings.there /\ settings = backup.hash
                     THEN Restored(backup, settings)
                   ELSE IF settings.there THEN Stripped(backup, settings) ELSE settings
<1>0. /\ job.at = "idle" /\ runs' \in 0..MaxRuns /\ fresh' /\ fresh' \in BOOLEAN /\ backup.state \in {"none", "kept"}
      /\ settings \in Settings /\ backup \in Backups /\ before \in Settings /\ Solid(settings)
  BY StartFacts DEF off
<1>1. /\ goal # settings \/ backup.state = "kept"
      /\ job' = [at |-> "verify", op |-> "off", read |-> settings, goal |-> goal,
                 save |-> backup, undo |-> backup, staged |-> FALSE, raced |-> FALSE]
      /\ UNCHANGED <<settings, backup, before, quiet, edited>>
  BY DEF off
<1>2. goal \in Settings /\ Unwired(goal, settings)
  <2>1. CASE backup.state = "kept" /\ settings.there /\ settings = backup.hash
    BY <1>0, <2>1, RestoredFacts
  <2>2. CASE ~(backup.state = "kept" /\ settings.there /\ settings = backup.hash) /\ settings.there
    BY <1>0, <2>2, StrippedFacts
  <2>3. CASE ~settings.there
    BY <1>0, <2>3, AbsentFacts DEF Solid, Unwired
  <2> QED
    BY <2>1, <2>2, <2>3
<1> HIDE DEF goal
<1>3. /\ job' \in Jobs /\ job'.at = "verify" /\ job'.op = "off" /\ job'.read = settings /\ job'.goal = goal
      /\ job'.save = backup /\ job'.undo = backup /\ ~job'.staged /\ ~job'.raced
  BY <1>0, <1>1, <1>2 DEF Jobs
<1>4. ClaudeTypes'
  BY <1>0, <1>1, <1>3 DEF ClaudeInv, ClaudeTypes
<1>5. ReadIsCurrent' /\ JobMeans' /\ OriginalHeld'
  BY <1>0, <1>1, <1>2, <1>3 DEF ClaudeInv, ReadIsCurrent, JobMeans, OriginalHeld, Holds
<1>6. ASSUME quiet' PROVE QuietRun'
  <2>1. quiet /\ QuietRun /\ Solid(before)
    BY <1>1, <1>6 DEF ClaudeInv, ClaudeTypes
  <2>2. CASE backup.state = "none" /\ settings = AsFound
    <3>0. AsFound.base # "gateway" /\ AsFound.model # "alias" /\ AsFound \in Settings
      BY <1>0, <2>1, AsFoundFacts DEF QuietRun
    <3>1. Stripped(backup, settings) = settings
      <4>1. fixModelAlias(backup, settings.model) = settings.model
        BY <2>2, <3>0 DEF fixModelAlias
      <4>2. ~ownedEnvValue("base", settings) /\ ~ownedEnvValue("knob", settings)
            /\ ~backupWrittenValue(backup, "base") /\ ~backupWrittenValue(backup, "knob")
        BY <2>2, <3>0 DEF ownedEnvValue, backupWrittenValue, backupCovers
      <4>3. Stripped(backup, settings) = [settings EXCEPT !.base = settings.base, !.knob = settings.knob, !.model = settings.model]
        BY <1>0, <4>1, <4>2 DEF Stripped, Settings
      <4> QED
        BY <1>0, <4>3 DEF Settings
    <3> QED
      BY <1>1, <2>2, <3>1 DEF goal
  <2>3. CASE backup = LastBackup /\ settings = Wired(before)
    <3>1. LastBackup.hash = Wired(before) /\ LastBackup.state = "kept" /\ Wired(before).there
      BY <1>0, <2>1, LastFacts, WiredFacts DEF QuietRun
    <3>2. goal = AsFound
      BY <1>0, <2>1, <2>3, <3>1, QuietRestores DEF goal, QuietRun
    <3> QED
      BY <1>0, <1>1, <1>3, <2>1, <2>3, <3>2 DEF QuietRun, AsFound, FirstBackup, LastBackup
  <2> QED
    BY <1>0, <2>1, <2>2, <2>3 DEF QuietRun
<1> QED
  BY <1>4, <1>5, <1>6 DEF ClaudeInv

\* Every step keeps the invariant.
LEMMA ClaudeKeeps == ClaudeInv /\ [ClaudeNext]_claudeVars => ClaudeInv'
<1> SUFFICES ASSUME ClaudeInv, [ClaudeNext]_claudeVars PROVE ClaudeInv'
  OBVIOUS
<1>1. CASE UNCHANGED claudeVars
  <2>1. UNCHANGED <<settings, backup, job, fresh, before, quiet, edited, runs>>
    BY <1>1 DEF claudeVars
  <2>2. ClaudeTypes' /\ ReadIsCurrent' /\ JobMeans' /\ OriginalHeld'
    BY <2>1 DEF ClaudeInv, ClaudeTypes, ReadIsCurrent, JobMeans, OriginalHeld, Holds
  <2>3. quiet' => QuietRun'
    BY <2>1 DEF ClaudeInv, QuietRun, AsFound, FirstBackup, LastBackup
  <2> QED
    BY <2>2, <2>3 DEF ClaudeInv
<1> QED
  BY <1>1, OnKeepsClaude, OffKeepsClaude, TruncateKeeps, FillKeeps, VerifyKeeps, RenameKeeps, CheckKeeps, DropKeeps,
     KilledKeeps, OutsideKeeps DEF ClaudeNext, Step

\* The invariant has the types.
LEMMA ClaudeInvTypes == ClaudeInv => ClaudeTypeOK
BY JobFields DEF ClaudeInv, ClaudeTypes, ClaudeTypeOK

\* The invariant keeps the user's base URL.
LEMMA ClaudeInvKept == ClaudeInv => OriginalKept
BY BackupFields DEF ClaudeInv, ClaudeTypes, OriginalHeld, Holds, OriginalKept

\* A step that writes settings.json writes over what the command read, or an edit on record.
LEMMA OutsideStays ==
    ASSUME ClaudeInv, [ClaudeNext]_claudeVars, settings' # settings, edited' = edited, ~job.raced
    PROVE  /\ settings' # Absent => settings'.other = settings.other
           /\ settings' = Absent => settings.other = 0
           /\ job.op = "off" /\ settings.base = "user" => settings'.base = "user"
           /\ job.op = "off" /\ settings.knob = "user" => settings'.knob = "user"
<1>0. job \in Jobs /\ edited \in 0..MaxEdits /\ ClaudeTypes /\ MaxEdits \in Nat
  BY ClaudeBounds DEF ClaudeInv, ClaudeTypes
<1>1. job.at = "rename" /\ settings' = job.goal
  <2>1. ~Outside
    BY <1>0 DEF Outside
  <2>2. Rename
    BY <2>1 DEF ClaudeNext, Step, claudeVars, on, off, Truncate, Fill, Verify, Check, Drop, Killed
  <2> QED
    BY <2>2 DEF Rename
<1>2. settings = job.read /\ job.read \in Settings
  BY <1>0, <1>1, JobFields DEF ClaudeInv, ReadIsCurrent
<1>3. CASE job.op = "off"
  <2>1. Unwired(job.goal, settings)
    BY <1>1, <1>2, <1>3 DEF ClaudeInv, JobMeans
  <2> QED
    BY <1>1, <2>1 DEF Unwired
<1>4. CASE job.op = "on"
  <2>1. settings' = Wired(settings)
    BY <1>1, <1>2, <1>4 DEF ClaudeInv, JobMeans
  <2>2. settings'.other = settings.other /\ settings'.there
    BY <1>2, <2>1, WiredFacts
  <2> QED
    BY <1>4, <2>2, AbsentFacts
<1> QED
  BY <1>0, <1>3, <1>4, JobFields

\* What off wrote, when it still stands at the look after the rename.
LEMMA OffLeaves ==
    ASSUME ClaudeInv, job.op = "off", job.at = "check", settings = job.goal
    PROVE  /\ settings.base # "gateway" /\ settings.model # "alias"
           /\ quiet => settings = [before EXCEPT !.model = fixModelAlias(NoBackup, @)]
<1>1. Unwired(job.goal, job.read)
  BY DEF ClaudeInv, JobMeans
<1>2. quiet => settings = AsFound
  BY DEF ClaudeInv, QuietRun
<1> QED
  BY <1>1, <1>2 DEF Unwired, AsFound

\* The invariant that a run keeps: until it writes, a command holds the file it read; what off means to
\* leave is not wired to the gateway; the backup, and what a command will make of it, hold the user's
\* base URL; and in a run nobody else touched, everything that on found is in the backup.
THEOREM ClaudeInductive == ClaudeSpec => []ClaudeInv
<1>1. ClaudeInit => ClaudeInv
  BY ClaudeStarts
<1>2. ClaudeInv /\ [ClaudeNext]_claudeVars => ClaudeInv'
  BY ClaudeKeeps
<1> QED
  BY <1>1, <1>2, PTL DEF ClaudeSpec

\* `claude on` and `claude off` keep the user's base URL as long as the file is wired, change nothing
\* of what others wrote, and leave, run undisturbed, the very file that on found.
THEOREM WiringSafeThm == ClaudeSpec => WiringSafe
<1>1. ClaudeInv => OriginalKept
  BY ClaudeInvKept
<1>2. ClaudeInv /\ [ClaudeNext]_claudeVars =>
         [settings' # settings /\ edited' = edited =>
         \/ job.raced
         \/ /\ settings' # Absent => settings'.other = settings.other
            /\ settings' = Absent => settings.other = 0
            /\ job.op = "off" /\ settings.base = "user" => settings'.base = "user"
            /\ job.op = "off" /\ settings.knob = "user" => settings'.knob = "user"]_claudeVars
  BY OutsideStays
<1>3. ClaudeInv /\ [ClaudeNext]_claudeVars =>
         [job.op = "off" /\ job.at = "check" /\ job'.at \in {"drop", "idle"} /\ settings = job.goal =>
         /\ settings.base # "gateway" /\ settings.model # "alias"
         /\ quiet => settings = [before EXCEPT !.model = fixModelAlias(NoBackup, @)]]_claudeVars
  BY OffLeaves
<1> QED
  BY <1>1, <1>2, <1>3, ClaudeInductive, PTL DEF ClaudeSpec, WiringSafe, OutsideEditsStay, OffRestores

-----------------------------------------------------------------------------
(* ResponsesGuard.                                                          *)

Pieces == [e : StreamEvents, part : {"head", "tail"}]
CallStates == [args : Seq(Fragments), sawDelta : BOOLEAN, seen : SUBSET Dones]
Small(state) == state \in CallStates /\ Len(state.args) <= MaxArguments

\* The calls that the guard watches.
CallsFit(calls) ==
    /\ calls = [i \in DOMAIN calls |-> calls[i]]
    /\ DOMAIN calls \subseteq Items /\ IsFiniteSet(DOMAIN calls) /\ Cardinality(DOMAIN calls) <= MaxActiveCalls
    /\ \A i \in DOMAIN calls : Small(calls[i])

\* What the guard keeps has its type and its limits.
GuardFits(g) ==
    /\ DOMAIN g = {"pending", "calls", "held", "fired", "finished", "bypass", "errors"}
    /\ g = [k \in DOMAIN g |-> g[k]]
    /\ CallsFit(g.calls)
    /\ g.held \in Seq(StreamEvents) /\ Len(g.held) <= MaxHeld
    /\ g.finished \in Seq(Items) /\ Len(g.finished) <= MaxActiveCalls
    /\ g.pending \in Seq(Pieces) /\ Len(g.pending) <= 1
    /\ {g.fired, g.bypass, g.errors} \subseteq BOOLEAN

\* The limits are numbers.
LEMMA GuardNats == {MaxArguments, MaxActiveCalls, MaxHeld, MaxSent} \subseteq Nat /\ MaxActiveCalls >= 1 /\ MaxHeld >= 1
BY GuardBounds

\* Watching no call is within the limits.
LEMMA NoCallsFit == CallsFit(<<>>)
<1>1. DOMAIN <<>> = {} /\ <<>> = [i \in {} |-> <<>>[i]]
  OBVIOUS
<1>2. IsFiniteSet({}) /\ Cardinality({}) = 0
  BY FS_EmptySet
<1> QED
  BY <1>1, <1>2, GuardBounds DEF CallsFit

\* A call that may be watched is watched within the limits.
LEMMA WithCallFits ==
    ASSUME NEW g, CallsFit(g.calls), NEW i \in Items, CanCall(g, i), NEW state, Small(state),
           NEW calls, calls = [j \in DOMAIN g.calls \cup {i} |-> IF j = i THEN state ELSE g.calls[j]]
    PROVE  CallsFit(calls)
<1>1. DOMAIN calls = DOMAIN g.calls \cup {i}
  OBVIOUS
<1>2. IsFiniteSet(DOMAIN calls) /\ Cardinality(DOMAIN calls) <= MaxActiveCalls
  <2>1. IsFiniteSet(DOMAIN g.calls) /\ Cardinality(DOMAIN g.calls) <= MaxActiveCalls /\ MaxActiveCalls \in Nat
    BY GuardBounds DEF CallsFit
  <2>2. /\ IsFiniteSet(DOMAIN g.calls \cup {i})
        /\ Cardinality(DOMAIN g.calls \cup {i}) = IF i \in DOMAIN g.calls THEN Cardinality(DOMAIN g.calls) ELSE Cardinality(DOMAIN g.calls) + 1
    BY <2>1, FS_AddElement
  <2>3. Cardinality(DOMAIN g.calls) \in Nat
    BY <2>1, FS_CardinalityType
  <2> QED
    BY <1>1, <2>1, <2>2, <2>3 DEF CanCall
<1> QED
  BY <1>1, <1>2 DEF CallsFit

\* A call less is within the limits.
LEMMA WithoutCallFits ==
    ASSUME NEW calls, CallsFit(calls), NEW i
    PROVE  CallsFit(Restrict(calls, DOMAIN calls \ {i}))
<1> DEFINE rest == Restrict(calls, DOMAIN calls \ {i})
<1>1. rest = [j \in DOMAIN calls \ {i} |-> calls[j]] /\ DOMAIN rest = DOMAIN calls \ {i}
  BY DEF Restrict
<1>2. /\ IsFiniteSet(DOMAIN calls \ {i})
      /\ Cardinality(DOMAIN calls \ {i}) <= Cardinality(DOMAIN calls)
      /\ Cardinality(DOMAIN calls \ {i}) \in Nat /\ Cardinality(DOMAIN calls) \in Nat
  BY FS_Subset, FS_CardinalityType DEF CallsFit
<1>3. Cardinality(DOMAIN calls \ {i}) <= MaxActiveCalls /\ DOMAIN calls \ {i} \subseteq Items
  BY <1>2, GuardNats DEF CallsFit
<1>4. \A j \in DOMAIN calls \ {i} : Small(calls[j])
  BY DEF CallsFit
<1> HIDE DEF rest
<1>5. CallsFit(rest)
  BY <1>1, <1>2, <1>3, <1>4 DEF CallsFit
<1> QED
  BY <1>5 DEF rest

\* What an event has.
LEMMA EventFacts ==
    ASSUME NEW e \in StreamEvents
    PROVE  /\ e.type \in {"delta", "functionDone", "outputDone", "text", "junk", "huge", "completed", "failed"}
           /\ e.type = "delta" => e.item \in Items /\ \E f \in Fragments : e.args = <<f>>
           /\ e.type \in Dones => e.item \in Items
BY DEF StreamEvents, Dones, Plain

\* Failing open forgets the calls and the held events, and leaves the pending bytes.
LEMMA FailOpenFits ==
    ASSUME NEW g, GuardFits(g), NEW more
    PROVE  /\ GuardFits(failOpen(g, more).g) /\ failOpen(g, more).g.bypass
           /\ failOpen(g, more).g.pending = g.pending
<1>1. Len(<<>>) = 0 /\ <<>> \in Seq(StreamEvents) /\ <<>> \in Seq(Items)
  OBVIOUS
<1>2. Len(<<>>) <= MaxHeld /\ Len(<<>>) <= MaxActiveCalls
  BY <1>1, GuardNats
<1>3. GuardFits(reset(g)) /\ reset(g).pending = g.pending
  BY <1>1, <1>2, NoCallsFit DEF GuardFits, reset
<1>4. failOpen(g, more).g = [[reset(g) EXCEPT !.errors = TRUE] EXCEPT !.bypass = TRUE]
  BY DEF failOpen, To
<1> QED
  BY <1>3, <1>4 DEF GuardFits

\* What is known of a call is within its limit, seen or not.
LEMMA CallOfSmall == ASSUME NEW g, GuardFits(g), NEW i PROVE Small(callOf(g, i))
<1>1. <<>> \in Seq(Fragments) /\ Len(<<>>) = 0
  OBVIOUS
<1>2. Small(NewCall)
  BY <1>1, GuardNats DEF NewCall, Small, CallStates
<1> QED
  BY <1>2 DEF callOf, GuardFits, CallsFit

\* Watching a call changes the calls alone.
LEMMA WithCallGuard ==
    ASSUME NEW g, GuardFits(g), NEW i \in Items, CanCall(g, i), NEW state, Small(state)
    PROVE  /\ GuardFits(WithCall(g, i, state)) /\ WithCall(g, i, state).pending = g.pending
           /\ WithCall(g, i, state).bypass = g.bypass /\ WithCall(g, i, state).held = g.held
<1> DEFINE calls == [j \in DOMAIN g.calls \cup {i} |-> IF j = i THEN state ELSE g.calls[j]]
<1>1. WithCall(g, i, state) = [g EXCEPT !.calls = calls]
  BY DEF WithCall
<1>2. CallsFit(g.calls) /\ calls = [j \in DOMAIN g.calls \cup {i} |-> IF j = i THEN state ELSE g.calls[j]]
  BY DEF GuardFits
<1> HIDE DEF calls
<1>3. CallsFit(calls)
  BY <1>2, WithCallFits
<1> QED
  BY <1>1, <1>3 DEF GuardFits

\* A finished call is watched no more.
LEMMA FinishFits ==
    ASSUME NEW g, GuardFits(g), NEW i \in Items
    PROVE  GuardFits(finishCall(g, i)) /\ finishCall(g, i).pending = g.pending /\ finishCall(g, i).bypass = g.bypass
           /\ finishCall(g, i).held = g.held
<1>1. CallsFit(Restrict(g.calls, DOMAIN g.calls \ {i}))
  BY WithoutCallFits DEF GuardFits
<1> DEFINE now == IF Len(g.finished) < MaxActiveCalls THEN Append(g.finished, i) ELSE Append(Tail(g.finished), i)
<1>2. now \in Seq(Items) /\ Len(now) <= MaxActiveCalls
  <2>1. g.finished \in Seq(Items) /\ Len(g.finished) <= MaxActiveCalls /\ MaxActiveCalls \in Nat /\ MaxActiveCalls >= 1
    BY GuardNats DEF GuardFits
  <2>2. CASE Len(g.finished) < MaxActiveCalls
    BY <2>1, <2>2, AppendProperties
  <2>3. CASE ~(Len(g.finished) < MaxActiveCalls)
    <3>1. g.finished # <<>>
      BY <2>1, <2>3
    <3>2. Tail(g.finished) \in Seq(Items) /\ Len(Tail(g.finished)) = Len(g.finished) - 1
      BY <2>1, <3>1, HeadTailProperties
    <3> QED
      BY <2>1, <2>3, <3>2, AppendProperties
  <2> QED
    BY <2>2, <2>3
<1>3. finishCall(g, i) = [[g EXCEPT !.calls = Restrict(g.calls, DOMAIN g.calls \ {i})] EXCEPT !.finished = now]
  BY DEF finishCall, GuardFits
<1> HIDE DEF now
<1> QED
  BY <1>1, <1>2, <1>3 DEF GuardFits

\* A piece of the arguments.
LEMMA OnDeltaFits ==
    ASSUME NEW g, GuardFits(g), NEW e \in StreamEvents, e.type = "delta"
    PROVE  GuardFits(OnDelta(g, e).g) /\ OnDelta(g, e).g.pending = g.pending
<1> DEFINE state == callOf(g, e.item)
           args == state.args \o e.args
           next == [state EXCEPT !.args = args, !.sawDelta = TRUE]
<1>1. e.item \in Items /\ e.args \in Seq(Fragments)
  BY EventFacts
<1>2. Small(state)
  BY CallOfSmall
<1>3. args \in Seq(Fragments)
  BY <1>1, <1>2, ConcatProperties DEF Small, CallStates
<1>4. CASE ~CanCall(g, e.item) \/ Len(args) > MaxArguments
  <2>1. OnDelta(g, e) = failOpen(g, Whole(e))
    BY <1>4 DEF OnDelta
  <2> QED
    BY <2>1, FailOpenFits
<1>5. CASE CanCall(g, e.item) /\ ~(Len(args) > MaxArguments)
  <2>1. Len(args) <= MaxArguments
    <3> HIDE DEF args
    <3>1. Len(args) \in Nat /\ MaxArguments \in Nat
      BY <1>3, GuardNats
    <3> QED
      BY <3>1, <1>5
  <2>2. Small(next)
    BY <1>2, <1>3, <2>1 DEF Small, CallStates
  <2>3. OnDelta(g, e) = To(WithCall(g, e.item, next), Whole(e))
    BY <1>5 DEF OnDelta
  <2> HIDE DEF next
  <2> QED
    BY <1>1, <1>5, <2>2, <2>3, WithCallGuard DEF To
<1> QED
  BY <1>4, <1>5

\* Holding an event back.
LEMMA HoldFits ==
    ASSUME NEW g, GuardFits(g), NEW e \in StreamEvents
    PROVE  GuardFits(holdDone(g, e).g) /\ holdDone(g, e).g.pending = g.pending
<1>1. CASE Len(g.held) >= MaxHeld
  BY <1>1, FailOpenFits DEF holdDone
<1>2. CASE ~(Len(g.held) >= MaxHeld)
  <2>1. g.held \in Seq(StreamEvents) /\ Len(g.held) < MaxHeld
    BY <1>2, GuardNats DEF GuardFits
  <2>2. Append(g.held, e) \in Seq(StreamEvents) /\ Len(Append(g.held, e)) <= MaxHeld
    BY <2>1, AppendProperties, GuardNats
  <2> QED
    BY <1>2, <2>2 DEF holdDone, GuardFits, To
<1> QED
  BY <1>1, <1>2

\* The event that ends the arguments of a call.
LEMMA ProcessDoneFits ==
    ASSUME NEW g, GuardFits(g), NEW e \in StreamEvents, e.type \in Dones
    PROVE  GuardFits(processDone(g, e).g) /\ processDone(g, e).g.pending = g.pending
<1> DEFINE state == callOf(g, e.item)
           next == [state EXCEPT !.seen = @ \cup {e.type}]
           seen == WithCall(g, e.item, next)
           passed == IF e.type = "outputDone" THEN finishCall(seen, e.item) ELSE seen
           refused == e.item \in ToSet(g.finished) \/ ~CanCall(g, e.item) \/ e.type \in state.seen
<1>1. e.item \in Items
  BY EventFacts
<1>2. Small(next)
  BY CallOfSmall DEF Small, CallStates
<1>3. CASE refused
  <2>1. processDone(g, e) = failOpen(g, Whole(e))
    BY <1>3 DEF processDone
  <2> QED
    BY <2>1, FailOpenFits
<1>4. CASE ~refused
  <2>1. GuardFits(seen) /\ seen.pending = g.pending /\ seen.bypass = g.bypass
    <3> HIDE DEF next
    <3> QED
      BY <1>1, <1>2, <1>4, WithCallGuard
  <2> HIDE DEF seen
  <2>2. GuardFits(passed) /\ passed.pending = g.pending
    BY <1>1, <2>1, FinishFits
  <2>3. GuardFits(holdDone(seen, e).g) /\ holdDone(seen, e).g.pending = g.pending
    BY <2>1, HoldFits
  <2> HIDE DEF passed
  <2>4. \A flag \in BOOLEAN : GuardFits([passed EXCEPT !.errors = flag]) /\ [passed EXCEPT !.errors = flag].pending = g.pending
    BY <2>2 DEF GuardFits
  <2>5. \/ processDone(g, e) = holdDone(seen, e)
        \/ processDone(g, e) = To(passed, Whole(e))
        \/ processDone(g, e) = To([passed EXCEPT !.errors = @ \/ (state.sawDelta /\ state.args # <<>>)], Whole(e))
    BY <1>4 DEF processDone, passed, seen
  <2>6. (passed.errors \/ (state.sawDelta /\ state.args # <<>>)) \in BOOLEAN
    OBVIOUS
  <2>7. [passed EXCEPT !.errors = @ \/ (state.sawDelta /\ state.args # <<>>)]
        = [passed EXCEPT !.errors = (passed.errors \/ (state.sawDelta /\ state.args # <<>>))]
    BY <2>2 DEF GuardFits
  <2>8. \E flag \in BOOLEAN : \/ processDone(g, e) = holdDone(seen, e)
                              \/ processDone(g, e) = To(passed, Whole(e))
                              \/ processDone(g, e) = To([passed EXCEPT !.errors = flag], Whole(e))
    BY <2>5, <2>6, <2>7
  <2>9. PICK flag \in BOOLEAN : \/ processDone(g, e) = holdDone(seen, e)
                               \/ processDone(g, e) = To(passed, Whole(e))
                               \/ processDone(g, e) = To([passed EXCEPT !.errors = flag], Whole(e))
    BY <2>8
  <2>10. \A h, out : To(h, out).g = h
    BY DEF To
  <2>11. CASE processDone(g, e) = holdDone(seen, e)
    BY <2>3, <2>11
  <2>12. CASE processDone(g, e) = To(passed, Whole(e))
    <3>1. processDone(g, e).g = passed
      BY <2>10, <2>12
    <3> QED
      BY <2>2, <3>1
  <2>13. CASE processDone(g, e) = To([passed EXCEPT !.errors = flag], Whole(e))
    <3>1. processDone(g, e).g = [passed EXCEPT !.errors = flag]
      BY <2>10, <2>13
    <3> QED
      BY <2>4, <3>1
  <2> QED
    BY <2>9, <2>11, <2>12, <2>13
<1> QED
  BY <1>3, <1>4

\* What the end of the response releases leaves the calls and the pending bytes alone.
LEMMA ReleaseFits ==
    ASSUME NEW g, GuardFits(g)
    PROVE  /\ GuardFits(flushAtCompletion(g).g) /\ flushAtCompletion(g).g.pending = g.pending
           /\ GuardFits(flushAtFailure(g).g) /\ flushAtFailure(g).g.pending = g.pending
<1>1. \A flag \in BOOLEAN : GuardFits([g EXCEPT !.errors = flag]) /\ [g EXCEPT !.errors = flag].pending = g.pending
  BY DEF GuardFits
<1>2. \A h, out : To(h, out).g = h
  BY DEF To
<1>3. \A b : [g EXCEPT !.errors = @ \/ b] = [g EXCEPT !.errors = (g.errors \/ b)]
  BY DEF GuardFits
<1>4. flushAtFailure(g).g = [g EXCEPT !.errors = (g.errors \/ (g.held # <<>> \/ DOMAIN g.calls # {}))]
  <2>1. flushAtFailure(g).g = [g EXCEPT !.errors = @ \/ g.held # <<>> \/ DOMAIN g.calls # {}]
    BY <1>2 DEF flushAtFailure
  <2> QED
    BY <2>1 DEF GuardFits
<1>5. \/ flushAtCompletion(g).g = [g EXCEPT !.errors = (g.errors \/ DOMAIN g.calls # {})]
      \/ flushAtCompletion(g).g = g
      \/ flushAtCompletion(g).g = [g EXCEPT !.errors = TRUE]
  <2> DEFINE all == AllWhole([n \in DOMAIN g.held |-> rewriteArguments(g, g.held[n])])
             fits == \A n \in DOMAIN g.held : Valid(rewriteArguments(g, g.held[n]).args)
  <2>1. CASE g.held = <<>>
    <3>1. flushAtCompletion(g) = To([g EXCEPT !.errors = @ \/ DOMAIN g.calls # {}], <<>>)
      BY <2>1 DEF flushAtCompletion
    <3>2. flushAtCompletion(g).g = [g EXCEPT !.errors = @ \/ DOMAIN g.calls # {}]
      BY <1>2, <3>1
    <3> QED
      BY <3>2 DEF GuardFits
  <2>2. CASE g.held # <<>>
    <3>1. \E out : flushAtCompletion(g) = To(g, out) \/ flushAtCompletion(g) = To([g EXCEPT !.errors = TRUE], out)
      BY <2>2 DEF flushAtCompletion
    <3> QED
      BY <1>2, <3>1
  <2> QED
    BY <2>1, <2>2
<1>6. (g.errors \/ DOMAIN g.calls # {}) \in BOOLEAN /\ (g.errors \/ (g.held # <<>> \/ DOMAIN g.calls # {})) \in BOOLEAN
  OBVIOUS
<1>7. GuardFits(flushAtFailure(g).g) /\ flushAtFailure(g).g.pending = g.pending
  BY <1>1, <1>4, <1>6
<1>8. CASE flushAtCompletion(g).g = g
  BY <1>7, <1>8
<1>9. CASE flushAtCompletion(g).g # g
  BY <1>1, <1>5, <1>6, <1>7, <1>9
<1> QED
  BY <1>8, <1>9

\* The end of a response forgets it.
LEMMA ResetFits ==
    ASSUME NEW g, GuardFits(g)
    PROVE  /\ GuardFits(reset(g)) /\ reset(g).pending = g.pending
           /\ GuardFits([reset(g) EXCEPT !.bypass = TRUE]) /\ [reset(g) EXCEPT !.bypass = TRUE].pending = g.pending
           /\ [reset(g) EXCEPT !.bypass = TRUE].bypass
<1>1. Len(<<>>) = 0 /\ <<>> \in Seq(StreamEvents) /\ <<>> \in Seq(Items)
  OBVIOUS
<1>2. Len(<<>>) <= MaxHeld /\ Len(<<>>) <= MaxActiveCalls
  BY <1>1, GuardNats
<1>3. GuardFits(reset(g)) /\ reset(g).pending = g.pending
  BY <1>1, <1>2, NoCallsFit DEF GuardFits, reset
<1> QED
  BY <1>3 DEF GuardFits

\* Whatever the event, the guard that has processed it is one, with the pending bytes as they were.
LEMMA ProcessFits ==
    ASSUME NEW g, GuardFits(g), NEW e \in StreamEvents
    PROVE  GuardFits(processEvent(g, e).g) /\ processEvent(g, e).g.pending = g.pending
<1>0. \A h, out : To(h, out).g = h
  BY DEF To
<1>1. CASE e.type \in {"junk", "huge"}
  <2>1. processEvent(g, e) = failOpen(g, Whole(e))
    BY <1>1 DEF processEvent, Dones
  <2> QED
    BY <2>1, FailOpenFits
<1>2. CASE e.type = "text"
  <2>1. processEvent(g, e) = To(g, Whole(e))
    BY <1>2 DEF processEvent, Dones
  <2> QED
    BY <1>0, <2>1
<1>3. CASE e.type = "delta"
  <2>1. processEvent(g, e) = OnDelta(g, e)
    BY <1>3 DEF processEvent, Dones
  <2> QED
    BY <1>3, <2>1, OnDeltaFits
<1>4. CASE e.type \in Dones
  <2>1. processEvent(g, e) = processDone(g, e)
    BY <1>4 DEF processEvent, Dones
  <2> QED
    BY <1>4, <2>1, ProcessDoneFits
<1>5. CASE e.type = "completed"
  <2>1. processEvent(g, e).g = [reset(flushAtCompletion(g).g) EXCEPT !.bypass = TRUE]
    BY <1>0, <1>5 DEF processEvent, Dones, Ended
  <2>2. PICK h : h = flushAtCompletion(g).g
    OBVIOUS
  <2>3. GuardFits(h) /\ h.pending = g.pending
    BY <2>2, ReleaseFits
  <2> QED
    BY <2>1, <2>2, <2>3, ResetFits
<1>6. CASE e.type = "failed"
  <2>1. processEvent(g, e).g = [reset(flushAtFailure(g).g) EXCEPT !.bypass = TRUE]
    BY <1>0, <1>6 DEF processEvent, Dones, Ended
  <2>2. PICK h : h = flushAtFailure(g).g
    OBVIOUS
  <2>3. GuardFits(h) /\ h.pending = g.pending
    BY <2>2, ReleaseFits
  <2> QED
    BY <2>1, <2>2, <2>3, ResetFits
<1> QED
  BY <1>1, <1>2, <1>3, <1>4, <1>5, <1>6, EventFacts DEF Dones

\* The end of the stream.
LEMMA FlushFits ==
    ASSUME NEW g, GuardFits(g)
    PROVE  GuardFits(Flush(g).g)
<1>1. Len(<<>>) = 0 /\ <<>> \in Seq(Pieces) /\ Len(<<>>) <= 1
  OBVIOUS
<1>2. \A flag \in BOOLEAN : GuardFits([[reset(g) EXCEPT !.pending = <<>>] EXCEPT !.errors = flag])
  <2>1. PICK h : h = reset(g)
    OBVIOUS
  <2>2. GuardFits(h)
    BY <2>1, ResetFits
  <2>3. GuardFits([h EXCEPT !.pending = <<>>])
    BY <1>1, <2>2 DEF GuardFits
  <2> QED
    BY <2>1, <2>3 DEF GuardFits
<1>3. Flush(g).g = [[reset(g) EXCEPT !.pending = <<>>] EXCEPT
                       !.errors = (reset(g).errors \/ (g.held # <<>> \/ g.pending # <<>> \/ DOMAIN g.calls # {}))]
  <2>1. Flush(g).g = [reset(g) EXCEPT !.pending = <<>>,
                          !.errors = @ \/ g.held # <<>> \/ g.pending # <<>> \/ DOMAIN g.calls # {}]
    BY DEF Flush, To
  <2> QED
    BY <2>1, ResetFits DEF GuardFits
<1> QED
  BY <1>2, <1>3

\* Two sequences of one element.
LEMMA PairOf == ASSUME NEW S, NEW x \in S, NEW y \in S PROVE <<x>> \o <<y>> = <<x, y>>
<1>1. <<x>> \in Seq(S) /\ <<y>> \in Seq(S) /\ <<x, y>> \in Seq(S)
  OBVIOUS
<1>2. <<x>> \o <<y>> \in Seq(S) /\ Len(<<x>> \o <<y>>) = 2
  BY <1>1, ConcatProperties
<1>3. \A i \in 1..2 : (<<x>> \o <<y>>)[i] = <<x, y>>[i]
  BY <1>1, ConcatProperties
<1> QED
  BY <1>1, <1>2, <1>3, SeqEqual
\* A sequence of one element and one of two.
LEMMA TripleOf == ASSUME NEW S, NEW x \in S, NEW y \in S, NEW z \in S PROVE <<x>> \o <<y, z>> = <<x, y, z>>
<1>1. <<x>> \in Seq(S) /\ <<y, z>> \in Seq(S) /\ <<x, y, z>> \in Seq(S)
  OBVIOUS
<1>2. <<x>> \o <<y, z>> \in Seq(S) /\ Len(<<x>> \o <<y, z>>) = 3
  BY <1>1, ConcatProperties
<1>3. \A i \in 1..3 : (<<x>> \o <<y, z>>)[i] = <<x, y, z>>[i]
  BY <1>1, ConcatProperties
<1> QED
  BY <1>1, <1>2, <1>3, SeqEqual

\* The two pieces of an event.
LEMMA PieceFacts ==
    ASSUME NEW e \in StreamEvents
    PROVE  Head_(e) \in Pieces /\ Tail_(e) \in Pieces /\ Whole(e) = <<Head_(e), Tail_(e)>>
           /\ Head_(e).part = "head" /\ Tail_(e).part = "tail" /\ Head_(e).e = e /\ Tail_(e).e = e
BY DEF Head_, Tail_, Pieces, Whole

\* What waits for its other half.
Half(e) == IF e = NoEvent THEN <<>> ELSE <<Head_(e)>>
DueAfter(chunk) == IF Last(chunk).part = "head" THEN Last(chunk).e ELSE NoEvent

\* The bytes that the guard looks at are an event, whole or its head, with perhaps the head of the next.
ChunkFits(pending, chunk) ==
    \E e \in StreamEvents :
       /\ \/ pending \o chunk = <<Head_(e)>> /\ DueAfter(chunk) = e
          \/ pending \o chunk = <<Head_(e), Tail_(e)>> /\ DueAfter(chunk) = NoEvent
          \/ \E f \in StreamEvents : pending \o chunk = <<Head_(e), Tail_(e), Head_(f)>> /\ DueAfter(chunk) = f

\* What the upstream may send continues the event that it had begun.
LEMMA ChunksFit ==
    ASSUME tailDue \in StreamEvents \cup {NoEvent}, NEW starts \in UpstreamStarts, UpstreamRest \o starts # <<>>
    PROVE  /\ ChunkFits(Half(tailDue), UpstreamRest \o starts)
           /\ DueAfter(UpstreamRest \o starts) \in StreamEvents \cup {NoEvent}
           /\ starts = <<>> \/ arrived # MaxSent
<1> USE DEF Last
<1>0. starts = <<>> \/ arrived # MaxSent
  BY DEF UpstreamStarts
<1>1. CASE tailDue = NoEvent
  <2>1. UpstreamRest = <<>> /\ Half(tailDue) = <<>>
    BY <1>1 DEF UpstreamRest, Half
  <2>2. PICK e \in StreamEvents : starts = <<Head_(e)>> \/ starts = Whole(e)
    BY <1>1, <2>1 DEF UpstreamStarts
  <2>3. Half(tailDue) \o (UpstreamRest \o starts) = starts /\ UpstreamRest \o starts = starts
    BY <2>1, <2>2, PieceFacts
  <2>4. CASE starts = <<Head_(e)>>
    <3>1. DueAfter(starts) = e
      BY <2>4, PieceFacts DEF DueAfter
    <3> QED
      BY <1>0, <2>3, <2>4, <3>1 DEF ChunkFits
  <2>5. CASE starts = Whole(e)
    <3>1. starts = <<Head_(e), Tail_(e)>> /\ Tail_(e).part = "tail"
      BY <2>5, PieceFacts
    <3>2. Last(starts) = Tail_(e)
      BY <3>1
    <3>3. DueAfter(starts) = NoEvent
      BY <3>1, <3>2 DEF DueAfter
    <3> QED
      BY <1>0, <2>3, <3>1, <3>3 DEF ChunkFits
  <2> QED
    BY <2>2, <2>4, <2>5
<1>2. CASE tailDue # NoEvent
  <2> DEFINE d == tailDue
  <2>1. d \in StreamEvents /\ UpstreamRest = <<Tail_(d)>> /\ Half(d) = <<Head_(d)>>
    BY <1>2 DEF UpstreamRest, Half
  <2>2. starts = <<>> \/ \E f \in StreamEvents : starts = <<Head_(f)>>
    BY <1>2 DEF UpstreamStarts
  <2>3. CASE starts = <<>>
    <3>1. UpstreamRest \o starts = <<Tail_(d)>>
      BY <2>1, <2>3, PieceFacts
    <3>2. Half(d) \o <<Tail_(d)>> = <<Head_(d), Tail_(d)>>
      BY <2>1, PieceFacts, PairOf
    <3>3. DueAfter(<<Tail_(d)>>) = NoEvent
      BY <2>1, PieceFacts DEF DueAfter
    <3> QED
      BY <1>0, <2>1, <3>1, <3>2, <3>3 DEF ChunkFits
  <2>4. CASE starts # <<>>
    <3>1. PICK f \in StreamEvents : starts = <<Head_(f)>>
      BY <2>2, <2>4
    <3>2. UpstreamRest \o starts = <<Tail_(d), Head_(f)>>
      BY <2>1, <3>1, PieceFacts, PairOf
    <3>3. Half(d) \o <<Tail_(d), Head_(f)>> = <<Head_(d), Tail_(d), Head_(f)>>
      BY <2>1, <3>1, PieceFacts, TripleOf
    <3>4. DueAfter(<<Tail_(d), Head_(f)>>) = f
      BY <2>1, <3>1, PieceFacts DEF DueAfter
    <3> QED
      BY <1>0, <2>1, <3>1, <3>2, <3>3, <3>4 DEF ChunkFits
  <2> QED
    BY <2>3, <2>4
<1> QED
  BY <1>1, <1>2

\* Keeping the beginning of an event.
LEMMA PendingFits ==
    ASSUME NEW g, GuardFits(g), NEW p \in Seq(Pieces), Len(p) <= 1
    PROVE  GuardFits([g EXCEPT !.pending = p]) /\ [g EXCEPT !.pending = p].pending = p
           /\ [g EXCEPT !.pending = p].bypass = g.bypass
BY DEF GuardFits

\* A push leaves a guard, which has bypassed itself or keeps the half of an event that the upstream
\* is in the middle of.
PushLeaves(h, due) == GuardFits(h) /\ (h.bypass \/ h.pending = Half(due))

\* What arrives is taken in within the limits, and what is pending is the beginning of the event that is due.
LEMMA PushFits ==
    ASSUME NEW g, GuardFits(g), NEW chunk, ~g.bypass => ChunkFits(g.pending, chunk)
    PROVE  PushLeaves(Push(g, chunk).g, DueAfter(chunk))
<1>0. \A h, out : To(h, out).g = h
  BY DEF To
<1>1. CASE g.bypass
  <2>1. Push(g, chunk) = To(g, chunk)
    BY <1>1 DEF Push
  <2> QED
    BY <1>0, <1>1, <2>1 DEF PushLeaves
<1>2. CASE ~g.bypass /\ g.fired
  <2>1. Push(g, chunk) = failOpen(g, chunk)
    BY <1>2 DEF Push
  <2> QED
    BY <2>1, FailOpenFits DEF PushLeaves
<1>3. CASE ~g.bypass /\ ~g.fired
  <2> DEFINE bytes == g.pending \o chunk
             calm == [g EXCEPT !.pending = <<>>]
  <2>0. <<>> \in Seq(Pieces) /\ Len(<<>>) <= 1
    OBVIOUS
  <2>1. GuardFits(calm) /\ calm.pending = <<>> /\ calm.bypass = g.bypass
    BY <2>0, PendingFits
  <2>2. PICK e \in StreamEvents :
            \/ bytes = <<Head_(e)>> /\ DueAfter(chunk) = e
            \/ bytes = <<Head_(e), Tail_(e)>> /\ DueAfter(chunk) = NoEvent
            \/ \E f \in StreamEvents : bytes = <<Head_(e), Tail_(e), Head_(f)>> /\ DueAfter(chunk) = f
    BY <1>3 DEF ChunkFits
  <2>3. CASE bytes = <<Head_(e)>> /\ DueAfter(chunk) = e
    <3>1. ~\E n \in DOMAIN bytes : bytes[n].part = "tail"
      BY <2>3, PieceFacts
    <3>2. Push(g, chunk) = IF bytes[1].e.type = "huge" THEN failOpen(calm, bytes) ELSE To([g EXCEPT !.pending = bytes], <<>>)
      BY <1>3, <3>1 DEF Push
    <3>3. bytes \in Seq(Pieces) /\ Len(bytes) <= 1 /\ bytes = Half(e)
      BY <2>3, PieceFacts, EventFacts DEF Half, NoEvent, Plain
    <3> HIDE DEF bytes, calm
    <3>4. PushLeaves(failOpen(calm, bytes).g, e)
      BY <2>1, FailOpenFits DEF PushLeaves
    <3>5. PushLeaves([g EXCEPT !.pending = bytes], e)
      BY <3>3, PendingFits DEF PushLeaves
    <3> QED
      BY <1>0, <2>3, <3>2, <3>4, <3>5
  <2>4. CASE bytes # <<Head_(e)>>
    <3> DEFINE done == processEvent(calm, e)
               rest == Half(DueAfter(chunk))
    <3>1. /\ \E n \in DOMAIN bytes : bytes[n].part = "tail"
          /\ bytes[1].e = e
          /\ rest = IF Last(bytes).part = "head" THEN <<Last(bytes)>> ELSE <<>>
          /\ rest \in Seq(Pieces) /\ Len(rest) <= 1
      <4>1. CASE bytes = <<Head_(e), Tail_(e)>> /\ DueAfter(chunk) = NoEvent
        BY <4>1, PieceFacts DEF Last, Half
      <4>2. CASE \E f \in StreamEvents : bytes = <<Head_(e), Tail_(e), Head_(f)>> /\ DueAfter(chunk) = f
        <5>1. PICK f \in StreamEvents : bytes = <<Head_(e), Tail_(e), Head_(f)>> /\ DueAfter(chunk) = f
          BY <4>2
        <5>2. f # NoEvent
          BY EventFacts DEF NoEvent, Plain
        <5> QED
          BY <5>1, <5>2, PieceFacts DEF Last, Half
      <4> QED
        BY <2>2, <2>4, <4>1, <4>2
    <3>2. Push(g, chunk) = IF done.g.bypass THEN To(done.g, done.out \o rest)
                           ELSE To([done.g EXCEPT !.pending = rest], done.out)
      BY <1>3, <3>1 DEF Push
    <3> HIDE DEF calm
    <3>3. PICK h : h = done.g
      OBVIOUS
    <3>4. GuardFits(h)
      BY <2>1, <3>3, ProcessFits
    <3> HIDE DEF done, rest
    <3>5. GuardFits([h EXCEPT !.pending = rest]) /\ [h EXCEPT !.pending = rest].pending = rest
      BY <3>1, <3>4, PendingFits
    <3>6. Push(g, chunk).g = IF h.bypass THEN h ELSE [h EXCEPT !.pending = rest]
      BY <1>0, <3>2, <3>3
    <3>7. rest = Half(DueAfter(chunk))
      BY DEF rest
    <3> QED
      BY <3>4, <3>5, <3>6, <3>7 DEF PushLeaves
  <2> QED
    BY <2>2, <2>3, <2>4
<1> QED
  BY <1>1, <1>2, <1>3

-----------------------------------------------------------------------------

GuardInv ==
    /\ GuardFits(guard)
    /\ tailDue \in StreamEvents \cup {NoEvent} /\ arrived \in 0..MaxSent
    /\ relayEnd \in {"no", "eof", "gone", "canceled"}
    /\ Reading /\ ~guard.bypass => guard.pending = Half(tailDue)

\* A fresh guard.
LEMMA GuardStarts == GuardInit => GuardInv
<1> SUFFICES ASSUME GuardInit PROVE GuardInv
  OBVIOUS
<1>1. <<>> \in Seq(Pieces) /\ <<>> \in Seq(StreamEvents) /\ <<>> \in Seq(Items) /\ Len(<<>>) = 0
  OBVIOUS
<1>2. GuardFits(NewSSEGuard) /\ NewSSEGuard.pending = <<>>
  BY <1>1, GuardNats, NoCallsFit DEF GuardFits, NewSSEGuard
<1> QED
  BY <1>2, GuardNats DEF GuardInit, GuardInv, Half

\* What is handed to the harness, which may be gone.
LEMMA RelayKeeps ==
    ASSUME GuardInv, Reading, NEW g, NEW out, NEW owed, Relay(g, out, owed), PushLeaves(g, tailDue'),
           tailDue' \in StreamEvents \cup {NoEvent}, arrived' \in 0..MaxSent
    PROVE  GuardInv'
<1>1. CASE guard' = g /\ UNCHANGED relayEnd
  BY <1>1 DEF GuardInv, PushLeaves, Reading, Half
<1>3. CASE relayEnd' = "gone" /\ guard' = Flush(g).g
  <2>1. GuardFits(guard')
    BY <1>3, FlushFits DEF PushLeaves
  <2> QED
    BY <1>3, <2>1 DEF GuardInv, Reading
<1> QED
  BY <1>1, <1>3 DEF Relay

\* Every step keeps the invariant.
LEMMA GuardKeeps == GuardInv /\ [GuardNext]_guardVars => GuardInv'
<1> SUFFICES ASSUME GuardInv, [GuardNext]_guardVars PROVE GuardInv'
  OBVIOUS
<1>1. CASE UpstreamSends
  <2>1. PICK starts \in UpstreamStarts :
           LET chunk  == UpstreamRest \o starts
               pushed == Push(guard, chunk)
           IN  /\ chunk # <<>>
               /\ tailDue' = IF Last(chunk).part = "head" THEN Last(chunk).e ELSE NoEvent
               /\ arrived' = arrived + IF starts = <<>> THEN 0 ELSE 1
               /\ Relay(pushed.g, pushed.out, IF starts = <<>> THEN <<>> ELSE <<Head(starts).e>>)
    BY <1>1 DEF UpstreamSends
  <2> DEFINE chunk == UpstreamRest \o starts
             pushed == Push(guard, chunk)
  <2>2. tailDue' = DueAfter(chunk) /\ chunk # <<>>
    BY <2>1 DEF DueAfter
  <2>3. ChunkFits(Half(tailDue), chunk) /\ tailDue' \in StreamEvents \cup {NoEvent} /\ (starts = <<>> \/ arrived # MaxSent)
    BY <2>2, ChunksFit DEF GuardInv
  <2>4. arrived' \in 0..MaxSent
    <3>1. arrived \in 0..MaxSent /\ MaxSent \in Nat /\ arrived' = arrived + IF starts = <<>> THEN 0 ELSE 1
      BY <2>1, GuardNats DEF GuardInv
    <3> QED
      BY <2>3, <3>1
  <2>5. ~guard.bypass => ChunkFits(guard.pending, chunk)
    BY <1>1, <2>3 DEF GuardInv, UpstreamSends
  <2>6. PushLeaves(pushed.g, tailDue')
    <3> HIDE DEF chunk
    <3> QED
      BY <2>2, <2>5, PushFits DEF GuardInv
  <2>7. Relay(pushed.g, pushed.out, IF starts = <<>> THEN <<>> ELSE <<Head(starts).e>>) /\ Reading
    BY <1>1, <2>1 DEF UpstreamSends
  <2> HIDE DEF pushed
  <2> QED
    BY <2>3, <2>4, <2>6, <2>7, RelayKeeps
<1>2. CASE HoldExpires
  <2>1. GuardFits([guard EXCEPT !.fired = TRUE]) /\ [guard EXCEPT !.fired = TRUE].pending = guard.pending
        /\ [guard EXCEPT !.fired = TRUE].bypass = guard.bypass
    BY DEF GuardInv, GuardFits
  <2> QED
    BY <1>2, <2>1 DEF HoldExpires, GuardInv, Reading
<1>3. CASE Poll
  <2>1. PICK h : h = FlushExpired(guard)
    OBVIOUS
  <2>2. GuardFits(h.g) /\ h.g.bypass
    BY <2>1, FailOpenFits DEF FlushExpired, GuardInv
  <2>3. Relay(h.g, h.out, <<>>) /\ UNCHANGED <<arrived, tailDue>> /\ Reading
    BY <1>3, <2>1 DEF Poll
  <2> QED
    BY <2>2, <2>3, RelayKeeps DEF PushLeaves, GuardInv
<1>4. CASE UpstreamEnds \/ Cancel
  <2>1. GuardFits(guard') /\ relayEnd' \in {"eof", "canceled"} /\ UNCHANGED <<arrived, tailDue>>
    BY <1>4, FlushFits DEF UpstreamEnds, Cancel, GuardInv
  <2> QED
    BY <2>1 DEF GuardInv, Reading
<1>5. CASE UNCHANGED guardVars
  BY <1>5 DEF GuardInv, guardVars, Reading
<1> QED
  BY <1>1, <1>2, <1>3, <1>4, <1>5 DEF GuardNext

\* The invariant has the types.
LEMMA GuardInvTypes == GuardInv => GuardTypeOK
BY DEF GuardInv, GuardTypeOK, GuardFits, CallsFit, Small

\* What the guard keeps of a stream is within its limits, and what is pending is the beginning of the
\* event that the upstream sends.
THEOREM GuardInductive == GuardSpec => []GuardInv
<1>1. GuardInit => GuardInv
  BY GuardStarts
<1>2. GuardInv /\ [GuardNext]_guardVars => GuardInv'
  BY GuardKeeps
<1> QED
  BY <1>1, <1>2, PTL DEF GuardSpec
=============================================================================
