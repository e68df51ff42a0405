----------------------- MODULE RoutingMutationProofs -----------------------
(* Theorems about RoutingMutation, for any operations, contents and wants,  *)
(* any number of faults, of waits given up and of edits.                    *)
EXTENDS RoutingMutation, TLAPS

\* Where the lock holder works and what it has on disk there.
HolderKnows ==
    /\ pc # "idle" => op \in Ops
    /\ pc \in {"swap", "signal", "await", "rollback", "recheck", "awaitPrior",
               "unlink", "reconcile", "snapshot"} => journal[op] # None
    /\ pc \in {"preflight", "journal", "swap"} =>
            prior # NoFile /\ terminal[op] = None
    /\ pc = "journal" => Unfinished = {} /\ prior # Want[op]
    /\ pc = "swap" => journal[op] = [prev |-> prior, next |-> Want[op]]
    /\ pc = "publish" => outcome # "none"
    /\ (pc = "publish" /\ journal[op] = None) => prior # NoFile
    /\ pc = "unlink" => terminal[op] # None
    /\ pc = "snapshot" => outcome # "none"
    /\ pc \in {"recheck", "awaitPrior"} => outcome \in {"rolled_back", "not_applied"}

\* A journal holds what its operation wants, which is not what was there.
JournalTrue ==
    \A o \in Unfinished : journal[o].next = Want[o] /\ journal[o].prev # Want[o]

\* An operation about to commit its edit has not done so before.
NotYetLanded == pc \in {"journal", "swap"} => landed[op] = 0

\* Only a router that is up runs a config.
DownRunsNothing == router # "up" => active = NoFile

\* A router that runs what a begun operation wants came to do so meanwhile.
ActiveSeen == \A o \in Begun : active = Want[o] => o \in activated

\* Before its swap, the path holds what the holder read unless it was edited,
\* and no commit is interrupted.
PriorOnPath ==
    pc \in {"preflight", "journal", "swap"} =>
        (path = prior \/ edits > 0) /\ held = NoFile

\* The config a begun operation wants is on disk, or was displaced from it, by
\* its own commit or by an editor.
OnDiskByCommit ==
    \A o \in Begun :
        (path = Want[o] \/ held = Want[o]) => (landed[o] = 1 \/ edits > 0)

\* So it is before "applied" is recorded.
AppliedEarned ==
    (pc = "publish" /\ outcome = "applied") =>
        (op \in activated /\ (landed[op] = 1 \/ edits > 0))

IInv ==
    /\ TypeOK /\ HolderKnows /\ JournalTrue /\ NotYetLanded
    /\ DownRunsNothing /\ ActiveSeen /\ PriorOnPath /\ OnDiskByCommit
    /\ AppliedEarned /\ AtMostOnce /\ NothingForgotten /\ AppliedMeansActive

---------------------------------------------------------------------------

\* The parts of IInv hold initially and every step preserves them.
THEOREM InductiveInv == Spec => []IInv
<1> USE MutationAssumption, RecordAssumption DEF MutationAssumption, RecordAssumption
<1>1. Init => IInv
  <2> SUFFICES ASSUME Init PROVE IInv
    OBVIOUS
  <2>1. DiskType /\ RecordsType
    BY DEF Init, DiskType, RecordsType, NoRecord
  <2>2. RouterType
    BY DEF Init, RouterType
  <2>3. HolderType
    BY DEF Init, HolderType, PCs
  <2>4. HistoryType
    BY DEF Init, HistoryType
  <2>5. Unfinished = {} /\ Begun = {} /\ terminal = NoRecord /\ pc = "idle"
    BY DEF Init, Unfinished, Begun, NoRecord
  <2>6. DownRunsNothing /\ AtMostOnce /\ NothingForgotten
    BY DEF Init, DownRunsNothing, AtMostOnce, NothingForgotten
  <2> QED
    BY <2>1, <2>2, <2>3, <2>4, <2>5, <2>6 DEF IInv, TypeOK, OneUnfinished, HolderKnows,
       JournalTrue, NotYetLanded, ActiveSeen, PriorOnPath, OnDiskByCommit,
       AppliedEarned, AppliedMeansActive, NoRecord
<1>2. IInv /\ [Next]_vars => IInv'
  <2> SUFFICES ASSUME IInv, [Next]_vars PROVE IInv'
    OBVIOUS
  <2> USE DEF IInv, TypeOK, DiskType, RecordsType, RouterType, HolderType, HistoryType, OneUnfinished, HolderKnows, JournalTrue, NotYetLanded, DownRunsNothing,
      ActiveSeen, PriorOnPath, OnDiskByCommit, AppliedEarned, AtMostOnce,
      NothingForgotten, AppliedMeansActive, Unfinished, Begun, PCs, Outcomes, Journals, Terminals,
      disk, records, gateway, tokens, holder, history, bounds, Goto, Fault, NoFault,
      Quiet, Reports, GivesUp, SendHup, RecoverCommit, Committed, Refused, Overtaken, CutOff,
      Land, Record, Valid, Confirmed, Runs
  <2>1. ASSUME NEW o \in Ops, BeginMutation(o) PROVE IInv'
    <3>1. DiskType'
      BY <2>1 DEF BeginMutation
    <3>2. RecordsType'
      BY <2>1 DEF BeginMutation
    <3>3. RouterType'
      BY <2>1 DEF BeginMutation
    <3>4. HolderType'
      BY <2>1 DEF BeginMutation
    <3>5. HistoryType'
      BY <2>1 DEF BeginMutation
    <3>6. OneUnfinished'
      BY <2>1 DEF BeginMutation
    <3>7. HolderKnows'
      BY <2>1 DEF BeginMutation
    <3>8. (JournalTrue /\ NotYetLanded)'
      BY <2>1 DEF BeginMutation
    <3>9. (DownRunsNothing /\ ActiveSeen /\ PriorOnPath)'
      BY <2>1 DEF BeginMutation
    <3>10. OnDiskByCommit'
      BY <2>1 DEF BeginMutation
    <3>11. AppliedEarned'
      BY <2>1 DEF BeginMutation
    <3>12. (AtMostOnce /\ NothingForgotten)'
      BY <2>1 DEF BeginMutation
    <3>13. AppliedMeansActive'
      BY <2>1 DEF BeginMutation
    <3> QED
      BY <3>1, <3>2, <3>3, <3>4, <3>5, <3>6, <3>7, <3>8, <3>9, <3>10, <3>11, <3>12, <3>13
  <2>2. ASSUME NEW o \in Ops, BeginReconcile(o) PROVE IInv'
    <3>1. DiskType'
      BY <2>2 DEF BeginReconcile
    <3>2. RecordsType'
      BY <2>2 DEF BeginReconcile
    <3>3. RouterType'
      BY <2>2 DEF BeginReconcile
    <3>4. HolderType'
      BY <2>2 DEF BeginReconcile
    <3>5. HistoryType'
      BY <2>2 DEF BeginReconcile
    <3>6. OneUnfinished'
      BY <2>2 DEF BeginReconcile
    <3>7. HolderKnows'
      BY <2>2 DEF BeginReconcile
    <3>8. (JournalTrue /\ NotYetLanded)'
      BY <2>2 DEF BeginReconcile
    <3>9. (DownRunsNothing /\ ActiveSeen /\ PriorOnPath)'
      BY <2>2 DEF BeginReconcile
    <3>10. OnDiskByCommit'
      BY <2>2 DEF BeginReconcile
    <3>11. AppliedEarned'
      BY <2>2 DEF BeginReconcile
    <3>12. (AtMostOnce /\ NothingForgotten)'
      BY <2>2 DEF BeginReconcile
    <3>13. AppliedMeansActive'
      BY <2>2 DEF BeginReconcile
    <3> QED
      BY <3>1, <3>2, <3>3, <3>4, <3>5, <3>6, <3>7, <3>8, <3>9, <3>10, <3>11, <3>12, <3>13
  <2>3. CASE BeginRecover
    BY <2>3 DEF BeginRecover
  <2>4. CASE Preflight
    <3>1. DiskType'
      BY <2>4 DEF Preflight
    <3>2. RecordsType'
      BY <2>4 DEF Preflight
    <3>3. RouterType'
      BY <2>4 DEF Preflight
    <3>4. HolderType'
      BY <2>4 DEF Preflight
    <3>5. HistoryType'
      BY <2>4 DEF Preflight
    <3>6. OneUnfinished'
      BY <2>4 DEF Preflight
    <3>7. HolderKnows'
      BY <2>4 DEF Preflight
    <3>8. (JournalTrue /\ NotYetLanded)'
      BY <2>4 DEF Preflight
    <3>9. (DownRunsNothing /\ ActiveSeen /\ PriorOnPath)'
      BY <2>4 DEF Preflight
    <3>10. OnDiskByCommit'
      BY <2>4 DEF Preflight
    <3>11. AppliedEarned'
      BY <2>4 DEF Preflight
    <3>12. (AtMostOnce /\ NothingForgotten)'
      BY <2>4 DEF Preflight
    <3>13. AppliedMeansActive'
      BY <2>4 DEF Preflight
    <3> QED
      BY <3>1, <3>2, <3>3, <3>4, <3>5, <3>6, <3>7, <3>8, <3>9, <3>10, <3>11, <3>12, <3>13
  <2>5. CASE WriteJournal
    BY <2>5 DEF WriteJournal
  <2>6. CASE Swap
    <3>1. DiskType'
      <4>0. prior \in Contents /\ Want[op] \in Contents
        BY <2>6 DEF Swap
      <4>1. CASE Committed(prior, Want[op])
        BY <4>0, <4>1
      <4>2. CASE Refused(prior)
        BY <4>2
      <4>3. CASE Overtaken(prior, Want[op])
        BY <4>3
      <4>4. CASE CutOff(prior, Want[op])
        BY <4>0, <4>4
      <4> QED
        BY <2>6, <4>1, <4>2, <4>3, <4>4 DEF Swap
    <3>2. RecordsType'
      BY <2>6 DEF Swap
    <3>3. RouterType'
      BY <2>6 DEF Swap
    <3>4. HolderType'
      BY <2>6 DEF Swap
    <3>5. HistoryType'
      BY <2>6 DEF Swap
    <3>6. OneUnfinished'
      BY <2>6 DEF Swap
    <3>7. HolderKnows'
      BY <2>6 DEF Swap
    <3>8. (JournalTrue /\ NotYetLanded)'
      BY <2>6 DEF Swap
    <3>9. (DownRunsNothing /\ ActiveSeen /\ PriorOnPath)'
      BY <2>6 DEF Swap
    <3>10. OnDiskByCommit'
      BY <2>6 DEF Swap
    <3>11. AppliedEarned'
      BY <2>6 DEF Swap
    <3>12. (AtMostOnce /\ NothingForgotten)'
      BY <2>6 DEF Swap
    <3>13. AppliedMeansActive'
      BY <2>6 DEF Swap
    <3> QED
      BY <3>1, <3>2, <3>3, <3>4, <3>5, <3>6, <3>7, <3>8, <3>9, <3>10, <3>11, <3>12, <3>13
  <2>7. CASE Signal
    <3>1. DiskType'
      BY <2>7 DEF Signal
    <3>2. RecordsType'
      BY <2>7 DEF Signal
    <3>3. RouterType'
      BY <2>7 DEF Signal
    <3>4. HolderType'
      BY <2>7 DEF Signal
    <3>5. HistoryType'
      BY <2>7 DEF Signal
    <3>6. OneUnfinished'
      BY <2>7 DEF Signal
    <3>7. HolderKnows'
      BY <2>7 DEF Signal
    <3>8. (JournalTrue /\ NotYetLanded)'
      BY <2>7 DEF Signal
    <3>9. (DownRunsNothing /\ ActiveSeen /\ PriorOnPath)'
      BY <2>7 DEF Signal
    <3>10. OnDiskByCommit'
      BY <2>7 DEF Signal
    <3>11. AppliedEarned'
      BY <2>7 DEF Signal
    <3>12. (AtMostOnce /\ NothingForgotten)'
      BY <2>7 DEF Signal
    <3>13. AppliedMeansActive'
      BY <2>7 DEF Signal
    <3> QED
      BY <3>1, <3>2, <3>3, <3>4, <3>5, <3>6, <3>7, <3>8, <3>9, <3>10, <3>11, <3>12, <3>13
  <2>8. CASE AwaitDesired
    BY <2>8 DEF AwaitDesired
  <2>9. CASE Rollback
    <3>1. DiskType'
      <4> DEFINE next == journal[op].next
                 prev == journal[op].prev
      <4>0. next \in Contents /\ prev \in Contents
        BY <2>9 DEF Rollback
      <4>1. CASE Committed(next, prev)
        BY <4>0, <4>1
      <4>2. CASE Refused(next)
        BY <4>2
      <4>3. CASE Overtaken(next, prev)
        BY <4>3
      <4>4. CASE CutOff(next, prev)
        BY <4>0, <4>4
      <4> QED
        BY <2>9, <4>1, <4>2, <4>3, <4>4 DEF Rollback
    <3>2. RecordsType'
      BY <2>9 DEF Rollback
    <3>3. RouterType'
      BY <2>9 DEF Rollback
    <3>4. HolderType'
      BY <2>9 DEF Rollback
    <3>5. HistoryType'
      BY <2>9 DEF Rollback
    <3>6. OneUnfinished'
      BY <2>9 DEF Rollback
    <3>7. HolderKnows'
      BY <2>9 DEF Rollback
    <3>8. (JournalTrue /\ NotYetLanded)'
      BY <2>9 DEF Rollback
    <3>9. (DownRunsNothing /\ ActiveSeen /\ PriorOnPath)'
      BY <2>9 DEF Rollback
    <3>10. OnDiskByCommit'
      BY <2>9 DEF Rollback
    <3>11. AppliedEarned'
      BY <2>9 DEF Rollback
    <3>12. (AtMostOnce /\ NothingForgotten)'
      BY <2>9 DEF Rollback
    <3>13. AppliedMeansActive'
      BY <2>9 DEF Rollback
    <3> QED
      BY <3>1, <3>2, <3>3, <3>4, <3>5, <3>6, <3>7, <3>8, <3>9, <3>10, <3>11, <3>12, <3>13
  <2>10. CASE RecheckPrior
    <3>1. DiskType'
      BY <2>10 DEF RecheckPrior
    <3>2. RecordsType'
      BY <2>10 DEF RecheckPrior
    <3>3. RouterType'
      BY <2>10 DEF RecheckPrior
    <3>4. HolderType'
      BY <2>10 DEF RecheckPrior
    <3>5. HistoryType'
      BY <2>10 DEF RecheckPrior
    <3>6. OneUnfinished'
      BY <2>10 DEF RecheckPrior
    <3>7. HolderKnows'
      BY <2>10 DEF RecheckPrior
    <3>8. (JournalTrue /\ NotYetLanded)'
      BY <2>10 DEF RecheckPrior
    <3>9. (DownRunsNothing /\ ActiveSeen /\ PriorOnPath)'
      BY <2>10 DEF RecheckPrior
    <3>10. OnDiskByCommit'
      BY <2>10 DEF RecheckPrior
    <3>11. AppliedEarned'
      BY <2>10 DEF RecheckPrior
    <3>12. (AtMostOnce /\ NothingForgotten)'
      BY <2>10 DEF RecheckPrior
    <3>13. AppliedMeansActive'
      BY <2>10 DEF RecheckPrior
    <3> QED
      BY <3>1, <3>2, <3>3, <3>4, <3>5, <3>6, <3>7, <3>8, <3>9, <3>10, <3>11, <3>12, <3>13
  <2>11. CASE AwaitPrior
    BY <2>11 DEF AwaitPrior
  <2>12. CASE Publish
    BY <2>12 DEF Publish
  <2>13. CASE Unlink
    BY <2>13 DEF Unlink
  <2>14. CASE Reconcile
    <3>1. DiskType'
      BY <2>14 DEF Reconcile
    <3>2. RecordsType'
      BY <2>14 DEF Reconcile
    <3>3. RouterType'
      BY <2>14 DEF Reconcile
    <3>4. HolderType'
      BY <2>14 DEF Reconcile
    <3>5. HistoryType'
      BY <2>14 DEF Reconcile
    <3>6. OneUnfinished'
      BY <2>14 DEF Reconcile
    <3>7. HolderKnows'
      BY <2>14 DEF Reconcile
    <3>8. (JournalTrue /\ NotYetLanded)'
      BY <2>14 DEF Reconcile
    <3>9. (DownRunsNothing /\ ActiveSeen /\ PriorOnPath)'
      BY <2>14 DEF Reconcile
    <3>10. OnDiskByCommit'
      BY <2>14 DEF Reconcile
    <3>11. AppliedEarned'
      BY <2>14 DEF Reconcile
    <3>12. (AtMostOnce /\ NothingForgotten)'
      BY <2>14 DEF Reconcile
    <3>13. AppliedMeansActive'
      BY <2>14 DEF Reconcile
    <3> QED
      BY <3>1, <3>2, <3>3, <3>4, <3>5, <3>6, <3>7, <3>8, <3>9, <3>10, <3>11, <3>12, <3>13
  <2>15. CASE Snapshot
    BY <2>15 DEF Snapshot
  <2>16. CASE RouterServes
    BY <2>16 DEF RouterServes
  <2>17. CASE ReloadReads
    <3>1. DiskType'
      BY <2>17 DEF ReloadReads
    <3>2. RecordsType'
      BY <2>17 DEF ReloadReads
    <3>3. RouterType'
      BY <2>17 DEF ReloadReads
    <3>4. HolderType'
      BY <2>17 DEF ReloadReads
    <3>5. HistoryType'
      BY <2>17 DEF ReloadReads
    <3>6. OneUnfinished'
      BY <2>17 DEF ReloadReads
    <3>7. HolderKnows'
      BY <2>17 DEF ReloadReads
    <3>8. (JournalTrue /\ NotYetLanded)'
      BY <2>17 DEF ReloadReads
    <3>9. (DownRunsNothing /\ ActiveSeen /\ PriorOnPath)'
      BY <2>17 DEF ReloadReads
    <3>10. OnDiskByCommit'
      BY <2>17 DEF ReloadReads
    <3>11. AppliedEarned'
      BY <2>17 DEF ReloadReads
    <3>12. (AtMostOnce /\ NothingForgotten)'
      BY <2>17 DEF ReloadReads
    <3>13. AppliedMeansActive'
      BY <2>17 DEF ReloadReads
    <3> QED
      BY <3>1, <3>2, <3>3, <3>4, <3>5, <3>6, <3>7, <3>8, <3>9, <3>10, <3>11, <3>12, <3>13
  <2>18. CASE ReloadPublishes
    BY <2>18 DEF ReloadPublishes
  <2>19. CASE RouterBoots
    BY <2>19 DEF RouterBoots
  <2>20. CASE PublishFails
    BY <2>20 DEF PublishFails
  <2>21. CASE JournalFails
    BY <2>21 DEF JournalFails
  <2>22. CASE ReloadFails
    BY <2>22 DEF ReloadFails
  <2>23. CASE RouterStops
    <3>1. DiskType'
      BY <2>23 DEF RouterStops
    <3>2. RecordsType'
      BY <2>23 DEF RouterStops
    <3>3. RouterType'
      BY <2>23 DEF RouterStops
    <3>4. HolderType'
      BY <2>23 DEF RouterStops
    <3>5. HistoryType'
      BY <2>23 DEF RouterStops
    <3>6. OneUnfinished'
      BY <2>23 DEF RouterStops
    <3>7. HolderKnows'
      BY <2>23 DEF RouterStops
    <3>8. (JournalTrue /\ NotYetLanded)'
      BY <2>23 DEF RouterStops
    <3>9. (DownRunsNothing /\ ActiveSeen /\ PriorOnPath)'
      BY <2>23 DEF RouterStops
    <3>10. OnDiskByCommit'
      BY <2>23 DEF RouterStops
    <3>11. AppliedEarned'
      BY <2>23 DEF RouterStops
    <3>12. (AtMostOnce /\ NothingForgotten)'
      BY <2>23 DEF RouterStops
    <3>13. AppliedMeansActive'
      BY <2>23 DEF RouterStops
    <3> QED
      BY <3>1, <3>2, <3>3, <3>4, <3>5, <3>6, <3>7, <3>8, <3>9, <3>10, <3>11, <3>12, <3>13
  <2>24. CASE Crash
    <3>1. DiskType'
      BY <2>24 DEF Crash
    <3>2. RecordsType'
      BY <2>24 DEF Crash
    <3>3. RouterType'
      BY <2>24 DEF Crash
    <3>4. HolderType'
      BY <2>24 DEF Crash
    <3>5. HistoryType'
      BY <2>24 DEF Crash
    <3>6. OneUnfinished'
      BY <2>24 DEF Crash
    <3>7. HolderKnows'
      BY <2>24 DEF Crash
    <3>8. (JournalTrue /\ NotYetLanded)'
      BY <2>24 DEF Crash
    <3>9. (DownRunsNothing /\ ActiveSeen /\ PriorOnPath)'
      BY <2>24 DEF Crash
    <3>10. OnDiskByCommit'
      BY <2>24 DEF Crash
    <3>11. AppliedEarned'
      BY <2>24 DEF Crash
    <3>12. (AtMostOnce /\ NothingForgotten)'
      BY <2>24 DEF Crash
    <3>13. AppliedMeansActive'
      BY <2>24 DEF Crash
    <3> QED
      BY <3>1, <3>2, <3>3, <3>4, <3>5, <3>6, <3>7, <3>8, <3>9, <3>10, <3>11, <3>12, <3>13
  <2>25. CASE EditorWrites
    BY <2>25 DEF EditorWrites
  <2>26. CASE UNCHANGED vars
    BY <2>26 DEF vars
  <2> QED
    BY <2>1, <2>2, <2>3, <2>4, <2>5, <2>6, <2>7, <2>8, <2>9, <2>10, <2>11, <2>12, <2>13, <2>14, <2>15, <2>16, <2>17, <2>18, <2>19, <2>20, <2>21, <2>22, <2>23, <2>24, <2>25, <2>26 DEF Next, Mutate, Router
<1> QED
  BY <1>1, <1>2, PTL DEF Spec

\* Journal, records, router and lock holder stay in their types.
THEOREM TypeCorrect == Spec => []TypeOK
BY InductiveInv, PTL DEF IInv

\* An operation's edit is committed at most once.
THEOREM AtMostOnceThm == Spec => []AtMostOnce
BY InductiveInv, PTL DEF IInv

\* A committed edit has a journal or a terminal record.
THEOREM NothingForgottenThm == Spec => []NothingForgotten
BY InductiveInv, PTL DEF IInv

\* "applied" is recorded of operations whose config the router came to run.
THEOREM AppliedMeansActiveThm == Spec => []AppliedMeansActive
BY InductiveInv, PTL DEF IInv

\* The commands replace no contents but those their unfinished operation knows.
THEOREM ForeignConfigKeptThm == Spec => ForeignConfigKept
<1> DEFINE Known == \E o \in Unfinished : path \in {journal[o].prev, journal[o].next}
           Kept  == (path' # path /\ edits' = edits /\ path # NoFile) => Known
<1>1. ASSUME IInv, [Next]_vars PROVE [Kept]_vars
  <2> SUFFICES ASSUME Next, path' # path, edits' = edits, path # NoFile PROVE Known
    BY <1>1
  <2> USE DEF Goto, NoFault, records, gateway, tokens, holder, history, bounds, disk
  <2>1. CASE \E o \in Ops : BeginMutation(o) \/ BeginReconcile(o)
    BY <2>1 DEF BeginMutation, BeginReconcile, RecoverCommit
  <2>2. CASE Swap
    <3>1. op \in Unfinished /\ journal[op].prev = prior
      BY <1>1, <2>2 DEF Swap, IInv, HolderKnows, Unfinished
    <3>2. path = prior
      BY <2>2 DEF Swap, Committed, Refused, Overtaken, CutOff
    <3> QED
      BY <3>1, <3>2
  <2>3. CASE Rollback
    <3>1. op \in Unfinished
      BY <1>1, <2>3 DEF Rollback, IInv, HolderKnows, Unfinished
    <3>2. path = journal[op].next
      BY <2>3 DEF Rollback, Committed, Refused, Overtaken, CutOff
    <3> QED
      BY <3>1, <3>2
  <2>4. CASE EditorWrites
    BY <1>1, <2>4 DEF EditorWrites, IInv, TypeOK, HistoryType
  <2>5. CASE Preflight \/ WriteJournal \/ Signal \/ AwaitDesired \/ RecheckPrior
    BY <2>5 DEF Preflight, WriteJournal, Signal, AwaitDesired, RecheckPrior
  <2>6. CASE AwaitPrior \/ Publish \/ Unlink \/ Reconcile \/ Snapshot
    BY <2>6 DEF AwaitPrior, Publish, Unlink, Reconcile, Snapshot
  <2>7. CASE BeginRecover \/ Router \/ RouterBoots \/ ReloadFails \/ RouterStops
    BY <2>7 DEF BeginRecover, Router, RouterServes, ReloadReads, ReloadPublishes,
       RouterBoots, ReloadFails, RouterStops
  <2>8. CASE PublishFails \/ JournalFails \/ Crash
    BY <2>8 DEF PublishFails, JournalFails, Crash
  <2> QED
    BY <2>1, <2>2, <2>3, <2>4, <2>5, <2>6, <2>7, <2>8 DEF Next, Mutate
<1>2. IInv /\ [Next]_vars => [Kept]_vars
  BY <1>1
<1> QED
  BY <1>2, InductiveInv, PTL DEF Spec, ForeignConfigKept
============================================================================
