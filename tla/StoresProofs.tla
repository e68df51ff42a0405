----------------------------- MODULE StoresProofs -----------------------------
(* Theorems about the exact commit of a config, the saved key, the model     *)
(* catalogs and the fallback ladder, and about their composition in StoresMC, *)
(* for any contents, transactions, processes, keys, providers, models,        *)
(* accounts and requests and any values of the bounds.                        *)
EXTENDS StoresMC, TLAPS

---------------------------------------------------------------------------
(* ExactCommit, for any contents, any number of transaction directories, of *)
(* faults and of edits.                                                      *)

\* Where the lock holder works in txn, and what it knows of it there.
HolderKnows ==
    /\ pc \in {"inspect", "restore"} => txn \in Txns /\ state[txn] # NoSwap
    /\ pc = "restore" => prior[txn] # NoFile
    /\ pc \in {"check", "prepare", "putState"} => Active = {}
    /\ pc \in {"prepare", "putState", "displace", "verify", "unwind",
               "install", "confirm"} => swap \in Swaps
    /\ pc \in {"putState", "rmPrior", "rmState", "rmDir"} => txn \in dirs
    /\ pc \in {"displace", "verify", "unwind", "install", "confirm"} =>
            txn \in Txns /\ state[txn] = swap
    /\ pc = "displace" => prior[txn] = NoFile
    /\ pc \in {"verify", "unwind", "install", "confirm"} => prior[txn] # NoFile
    /\ pc \in {"verify", "unwind", "install", "confirm"} => linked = NoTxn
    /\ pc = "unwind" => want \in {prior[txn], NoFile}
    /\ pc \in {"install", "confirm"} => prior[txn] = swap.expected
    /\ pc \in {"rmPrior", "rmState", "rmDir"} => Active \subseteq {txn}
    /\ pc \in {"rmState", "rmDir"} => prior[txn] = NoFile
    /\ pc = "rmDir" => state[txn] = NoSwap

\* A displaced entry never outlives its state.json.
PriorHasState == \A t \in Txns : prior[t] # NoFile => state[t] # NoSwap

\* A path that is missing by no editor's doing is displaced.
MissingIsDisplaced ==
    (path = NoFile /\ ~deleted) => \E t \in Txns : prior[t] # NoFile

\* The cleanup starts only while the path is there, or an editor removed it.
CleanUpKeepsPath == pc = "rmPrior" => (path # NoFile \/ deleted)

\* An entry displaced as expected is nobody's unseen edit.
AdoptedPrior ==
    \A t \in Txns :
        (prior[t] \in edits /\ state[t] # NoSwap /\ prior[t] = state[t].expected)
            => path = prior[t]

\* Nor is the one a cleanup is about to remove.
CleanUpSpares ==
    (pc = "rmPrior" /\ prior[txn] = want /\ want \in edits) => path = want

\* A displaced entry that was linked back is the live file.
LinkedIsPath == linked # NoTxn => path # NoFile /\ prior[linked] = path

\* An editor's deletion is undone by whatever puts the path back.
DeletedIsMissing == deleted => path = NoFile

\* The answer on the way agrees with what has happened to the live path.
HolderAnswers ==
    /\ pc # "idle" => result = "none"
    /\ pc \notin {"idle", "confirm", "rmPrior", "rmState", "rmDir"} => ~landed
    /\ pc = "confirm" => landed /\ (touched \/ path = swap.desired)
    /\ pc \in {"rmPrior", "rmState", "rmDir"} =>
            /\ after = "ok" => landed
            /\ after = "check" => ~landed
            /\ after = "error" => (~landed \/ touched)

IInv ==
    /\ TypeOK /\ OneActive /\ HolderKnows /\ PriorHasState
    /\ MissingIsDisplaced /\ CleanUpKeepsPath /\ AdoptedPrior
    /\ CleanUpSpares /\ LinkedIsPath /\ EditsSurvive
    /\ DeletedIsMissing /\ HolderAnswers

---------------------------------------------------------------------------

\* The parts of IInv hold initially, ...
LEMMA CommitStarts == Init => IInv
<1> SUFFICES ASSUME Init PROVE IInv
  OBVIOUS
<1>1. DiskType
  BY CommitAssumption DEF Init, DiskType, Files
<1>2. HolderType
  BY DEF Init, HolderType, PCs, Files, Afters, Results
<1>3. HistoryType
  BY DEF Init, HistoryType
<1>6. BoundsType
  BY CommitAssumption DEF Init, BoundsType, CommitAssumption
<1>4. Active = {} /\ pc = "idle" /\ edits = {} /\ linked = NoTxn /\ ~deleted
  BY DEF Init, Active
<1>5. path # NoFile /\ \A t \in Txns : prior[t] = NoFile
  BY CommitAssumption DEF Init, CommitAssumption
<1> QED
  BY <1>1, <1>2, <1>3, <1>4, <1>5, <1>6 DEF IInv, TypeOK, OneActive, HolderKnows,
     PriorHasState, MissingIsDisplaced, CleanUpKeepsPath, AdoptedPrior,
     CleanUpSpares, LinkedIsPath, EditsSurvive, DeletedIsMissing,
     HolderAnswers

\* ... every step preserves them, ...
LEMMA CommitStep == IInv /\ [Next]_vars => IInv'
<1> SUFFICES ASSUME IInv, [Next]_vars PROVE IInv'
  OBVIOUS
<1> USE CommitAssumption
<1> USE DEF CommitAssumption, Active, Files, PCs, Results, Afters, Swaps,
    TypeOK, DiskType, HolderType, HistoryType, BoundsType, OneActive, HolderKnows,
    PriorHasState, MissingIsDisplaced, CleanUpKeepsPath, AdoptedPrior,
    CleanUpSpares, LinkedIsPath, EditsSurvive, DeletedIsMissing,
    HolderAnswers, IInv, disk, holder, history, bounds, Goto, Return, CleanUp, CleanupFails, Fault, NoFault,
    StillRunning, SameTask, SameJob, LinkPrior, MovePathAway, LinkDesired,
    EditorActs
<1>1. CASE Begin
  BY <1>1 DEF Begin
<1>2. CASE Scan
  BY <1>2 DEF Scan
<1>3. CASE Inspect
  BY <1>3 DEF Inspect
<1>4. CASE Restore
  <2>1. CASE LinkPrior
    <3>1. DiskType'
      BY <1>4, <2>1 DEF Restore
    <3>2. HolderType'
      BY <1>4, <2>1 DEF Restore
    <3>3. HistoryType'
      BY <1>4, <2>1 DEF Restore
    <3>4. BoundsType'
      BY <1>4, <2>1 DEF Restore
    <3>5. OneActive' /\ HolderKnows' /\ PriorHasState'
      BY <1>4, <2>1 DEF Restore
    <3>6. MissingIsDisplaced' /\ CleanUpKeepsPath' /\ LinkedIsPath'
      BY <1>4, <2>1 DEF Restore
    <3>7. AdoptedPrior' /\ CleanUpSpares' /\ EditsSurvive'
      BY <1>4, <2>1 DEF Restore
    <3>8. DeletedIsMissing' /\ HolderAnswers'
      BY <1>4, <2>1 DEF Restore
    <3> QED
      BY <3>1, <3>2, <3>3, <3>4, <3>5, <3>6, <3>7, <3>8
  <2>2. CASE ~LinkPrior
    BY <1>4, <2>2 DEF Restore
  <2> QED
    BY <2>1, <2>2
<1>5. CASE RestoreFails
  <2>1. CASE LinkPrior
    <3>1. DiskType'
      BY <1>5, <2>1 DEF RestoreFails
    <3>2. HolderType'
      BY <1>5, <2>1 DEF RestoreFails
    <3>3. HistoryType'
      BY <1>5, <2>1 DEF RestoreFails
    <3>4. BoundsType'
      BY <1>5, <2>1 DEF RestoreFails
    <3>5. OneActive' /\ HolderKnows' /\ PriorHasState'
      BY <1>5, <2>1 DEF RestoreFails
    <3>6. MissingIsDisplaced' /\ CleanUpKeepsPath' /\ LinkedIsPath'
      BY <1>5, <2>1 DEF RestoreFails
    <3>7. AdoptedPrior' /\ CleanUpSpares' /\ EditsSurvive'
      BY <1>5, <2>1 DEF RestoreFails
    <3>8. DeletedIsMissing' /\ HolderAnswers'
      BY <1>5, <2>1 DEF RestoreFails
    <3> QED
      BY <3>1, <3>2, <3>3, <3>4, <3>5, <3>6, <3>7, <3>8
  <2>2. CASE ~LinkPrior
    BY <1>5, <2>2 DEF RestoreFails
  <2> QED
    BY <2>1, <2>2
<1>6. CASE Check
  BY <1>6 DEF Check
<1>7. CASE Prepare
  BY <1>7 DEF Prepare
<1>8. CASE PutState
  BY <1>8 DEF PutState
<1>9. CASE PrepareFails
  BY <1>9 DEF PrepareFails
<1>10. CASE Displace
  BY <1>10 DEF Displace
<1>11. CASE DisplaceFails
  BY <1>11 DEF DisplaceFails
<1>12. CASE Verify
  BY <1>12 DEF Verify
<1>13. CASE VerifyFails
  BY <1>13 DEF VerifyFails
<1>14. CASE Unwind
  <2>1. CASE LinkPrior
    <3>1. DiskType'
      BY <1>14, <2>1 DEF Unwind
    <3>2. HolderType'
      BY <1>14, <2>1 DEF Unwind
    <3>3. HistoryType'
      BY <1>14, <2>1 DEF Unwind
    <3>4. BoundsType'
      BY <1>14, <2>1 DEF Unwind
    <3>5. OneActive' /\ HolderKnows' /\ PriorHasState'
      BY <1>14, <2>1 DEF Unwind
    <3>6. MissingIsDisplaced' /\ CleanUpKeepsPath' /\ LinkedIsPath'
      BY <1>14, <2>1 DEF Unwind
    <3>7. AdoptedPrior' /\ CleanUpSpares' /\ EditsSurvive'
      BY <1>14, <2>1 DEF Unwind
    <3>8. DeletedIsMissing' /\ HolderAnswers'
      BY <1>14, <2>1 DEF Unwind
    <3> QED
      BY <3>1, <3>2, <3>3, <3>4, <3>5, <3>6, <3>7, <3>8
  <2>2. CASE ~LinkPrior
    BY <1>14, <2>2 DEF Unwind
  <2> QED
    BY <2>1, <2>2
<1>15. CASE UnwindFails
  <2>1. CASE LinkPrior
    <3>1. DiskType'
      BY <1>15, <2>1 DEF UnwindFails
    <3>2. HolderType'
      BY <1>15, <2>1 DEF UnwindFails
    <3>3. HistoryType'
      BY <1>15, <2>1 DEF UnwindFails
    <3>4. BoundsType'
      BY <1>15, <2>1 DEF UnwindFails
    <3>5. OneActive' /\ HolderKnows' /\ PriorHasState'
      BY <1>15, <2>1 DEF UnwindFails
    <3>6. MissingIsDisplaced' /\ CleanUpKeepsPath' /\ LinkedIsPath'
      BY <1>15, <2>1 DEF UnwindFails
    <3>7. AdoptedPrior' /\ CleanUpSpares' /\ EditsSurvive'
      BY <1>15, <2>1 DEF UnwindFails
    <3>8. DeletedIsMissing' /\ HolderAnswers'
      BY <1>15, <2>1 DEF UnwindFails
    <3> QED
      BY <3>1, <3>2, <3>3, <3>4, <3>5, <3>6, <3>7, <3>8
  <2>2. CASE ~LinkPrior
    BY <1>15, <2>2 DEF UnwindFails
  <2> QED
    BY <2>1, <2>2
<1>16. CASE Install
  <2>1. CASE LinkDesired
    <3>1. DiskType'
      BY <1>16, <2>1 DEF Install
    <3>2. HolderType'
      BY <1>16, <2>1 DEF Install
    <3>3. HistoryType'
      BY <1>16, <2>1 DEF Install
    <3>4. BoundsType'
      BY <1>16, <2>1 DEF Install
    <3>5. OneActive' /\ HolderKnows' /\ PriorHasState'
      BY <1>16, <2>1 DEF Install
    <3>6. MissingIsDisplaced' /\ CleanUpKeepsPath' /\ LinkedIsPath'
      BY <1>16, <2>1 DEF Install
    <3>7. AdoptedPrior' /\ CleanUpSpares' /\ EditsSurvive'
      BY <1>16, <2>1 DEF Install
    <3>8. DeletedIsMissing' /\ HolderAnswers'
      BY <1>16, <2>1 DEF Install
    <3> QED
      BY <3>1, <3>2, <3>3, <3>4, <3>5, <3>6, <3>7, <3>8
  <2>2. CASE ~LinkDesired
    BY <1>16, <2>2 DEF Install
  <2> QED
    BY <2>1, <2>2
<1>17. CASE InstallFails
  BY <1>17 DEF InstallFails
<1>18. CASE ConfirmFails
  BY <1>18 DEF ConfirmFails
<1>19. CASE Confirm
  BY <1>19 DEF Confirm
<1>20. CASE RemovePrior
  BY <1>20 DEF RemovePrior
<1>21. CASE RemoveState
  BY <1>21 DEF RemoveState
<1>22. CASE RemoveDir
  BY <1>22 DEF RemoveDir
<1>23. CASE RemoveFails
  BY <1>23 DEF RemoveFails
<1>24. CASE Crash
  BY <1>24 DEF Crash
<1>25. CASE EditorReplaces
  <2>1. DiskType'
    BY <1>25 DEF EditorReplaces
  <2>2. HolderType'
    BY <1>25 DEF EditorReplaces
  <2>3. HistoryType'
    BY <1>25 DEF EditorReplaces
  <2>4. BoundsType'
    BY <1>25 DEF EditorReplaces
  <2>5. OneActive' /\ HolderKnows' /\ PriorHasState'
    BY <1>25 DEF EditorReplaces
  <2>6. MissingIsDisplaced' /\ CleanUpKeepsPath' /\ LinkedIsPath'
    BY <1>25 DEF EditorReplaces
  <2>7. AdoptedPrior' /\ CleanUpSpares' /\ EditsSurvive'
    BY <1>25 DEF EditorReplaces
  <2>8. DeletedIsMissing' /\ HolderAnswers'
    BY <1>25 DEF EditorReplaces
  <2> QED
    BY <2>1, <2>2, <2>3, <2>4, <2>5, <2>6, <2>7, <2>8
<1>26. CASE EditorRewrites
  BY <1>26 DEF EditorRewrites
<1>27. CASE EditorDeletes
  BY <1>27 DEF EditorDeletes
<1>28. CASE UNCHANGED vars
  BY <1>28 DEF vars
<1> QED
  BY <1>1, <1>2, <1>3, <1>4, <1>5, <1>6, <1>7, <1>8, <1>9, <1>10, <1>11,
     <1>12, <1>13, <1>14, <1>15, <1>16, <1>17, <1>18, <1>19, <1>20, <1>21,
     <1>22, <1>23, <1>24, <1>25, <1>26, <1>27, <1>28 DEF Next, Recover,
     Commit, Remove, Fails, Editor

\* ... and so they hold in every state.
THEOREM InductiveInv == Spec => []IInv
BY CommitStarts, CommitStep, PTL DEF Spec

\* Every variable stays in its set.
THEOREM TypeCorrect == Spec => []TypeOK
  BY InductiveInv, PTL DEF IInv

\* No commit and no recovery, interrupted wherever it may be, destroys what an
\* editor wrote and nobody has superseded or adopted.
THEOREM EditsSurviveThm == Spec => []EditsSurvive
  BY InductiveInv, PTL DEF IInv

\* At most one transaction directory has a state.json.
THEOREM OneActiveThm == Spec => []OneActive
  BY InductiveInv, PTL DEF IInv

\* A path missing by no editor's doing is one link away from being restored.
LEMMA MissingPathIsRestorable == IInv => MissingPathRestorable
<1> SUFFICES ASSUME IInv, path = NoFile, ~deleted
             PROVE  \E t \in Txns : Active = {t} /\ prior[t] # NoFile
  BY DEF MissingPathRestorable
<1>1. PICK t \in Txns : prior[t] # NoFile
  BY DEF IInv, MissingIsDisplaced
<1>2. t \in Active /\ \A u \in Active : u = t
  BY <1>1 DEF IInv, PriorHasState, OneActive, Active
<1> QED
  BY <1>1, <1>2

\* So it is in every state.
THEOREM MissingPathRestorableThm == Spec => []MissingPathRestorable
BY MissingPathIsRestorable, InductiveInv, PTL

---------------------------------------------------------------------------
(* ExactCommit implements ConfigCell.                                      *)

\* The content that is displaced is that of any directory that holds one.
LEMMA DisplacedEntry ==
    IInv => \A t \in Txns : prior[t] # NoFile => Displaced = prior[t]
<1> SUFFICES ASSUME IInv, NEW t \in Txns, prior[t] # NoFile
             PROVE  Displaced = prior[t]
  OBVIOUS
<1>1. t \in Active /\ \A u \in Active : u = t
  BY DEF IInv, PriorHasState, OneActive, Active
<1>2. prior[t] \in Contents
  BY DEF IInv, TypeOK, DiskType, Files
<1> QED
  BY <1>1, <1>2 DEF Displaced

\* What the config is, told by any displaced entry there is.
CellFacts ==
    /\ path # NoFile => ConfigNow = path
    /\ (path = NoFile /\ deleted) => ConfigNow = NoFile
    /\ (path = NoFile /\ ~deleted) =>
            \E t \in Txns : prior[t] # NoFile /\ ConfigNow = prior[t]
    /\ \A t \in Txns : (path = NoFile /\ ~deleted /\ prior[t] # NoFile)
            => ConfigNow = prior[t]

\* ConfigNow is the live file, or the entry displaced from it.
LEMMA CellIs == IInv => CellFacts
  BY DisplacedEntry DEF CellFacts, ConfigNow, IInv, MissingIsDisplaced

\* A step that leaves the live path and the displaced entries alone leaves
\* the cell alone.
LEMMA CellStays ==
    ASSUME UNCHANGED <<path, deleted, prior, state>>
    PROVE  ConfigNow' = ConfigNow
  BY DEF ConfigNow, Displaced, Active

\* Linking the displaced entry back restores the cell, or undoes a deletion.
LEMMA LinkPriorCell ==
    ASSUME IInv, IInv', LinkPrior, txn \in Txns, prior[txn] # NoFile
    PROVE  /\ ConfigNow' \in Contents
           /\ ConfigNow' = ConfigNow \/ ConfigNow = NoFile
<1>1. CellFacts
  BY CellIs
<1>2. path' = prior[txn] /\ prior[txn] \in Contents
  BY DEF LinkPrior, IInv, TypeOK, DiskType, Files
<1>3. ConfigNow' = path'
  BY <1>2 DEF ConfigNow
<1> QED
  BY <1>1, <1>2, <1>3 DEF CellFacts, LinkPrior

\* The cell begins where the files do.
LEMMA CellStarts == Init => Cell!CellInit
BY CommitAssumption DEF Init, Cell!CellInit, CommitAssumption, ConfigNow

\* Every step of the files is a step of the cell or leaves it as it is.
LEMMA CellStep == IInv /\ IInv' /\ [Next]_vars => [Cell!CellNext]_Cell!cellVars
<1>a. IInv => CellFacts
  BY CellIs
<1>b. IInv' => CellFacts'
  BY CellIs, PTL
<1> SUFFICES ASSUME IInv, IInv', [Next]_vars
             PROVE  [Cell!CellNext]_Cell!cellVars
  OBVIOUS
<1> USE <1>a, <1>b, CommitAssumption DEF CommitAssumption
<1> DEFINE Task == <<swap, landed, touched>>
           Stutter == UNCHANGED <<ConfigNow, swap, landed, touched, result>>
           Answered(r) == UNCHANGED <<ConfigNow, swap, landed, touched>>
                          /\ result = "none" /\ result' = r
<1>1. Stutter => [Cell!CellNext]_Cell!cellVars
  BY DEF Cell!cellVars
<1>2. ASSUME NEW r \in Results \ {"none"}, Answered(r),
             r = "ok" => landed \/ swap = NoSwap,
             r = "error" => ~landed \/ touched
      PROVE  Cell!CellNext
  BY <1>2 DEF Cell!CellNext, Cell!Answer, Cell!Results, Results
<1>3. CASE Begin
  <2>1. ConfigNow' = ConfigNow
    BY <1>3, CellStays DEF Begin, disk
  <2>2. Cell!Begin
    BY <1>3, <2>1 DEF Begin, Cell!Begin, Swaps, Cell!Swaps
  <2> QED
    BY <2>2 DEF Cell!CellNext
<1>4. ASSUME UNCHANGED <<path, deleted, prior, state, swap, landed, touched>>,
             \/ UNCHANGED result
             \/ /\ pc # "idle"
                /\ \/ result' \in {"indeterminate", "crashed"}
                   \/ result' = "error" /\ (~landed \/ touched)
                   \/ result' = "ok" /\ (landed \/ swap = NoSwap)
      PROVE  [Cell!CellNext]_Cell!cellVars
  <2>1. ConfigNow' = ConfigNow
    BY <1>4, CellStays
  <2>2. CASE UNCHANGED result
    BY <1>1, <1>4, <2>1, <2>2
  <2>3. CASE pc # "idle" /\ result' # result
    <3>1. result = "none"
      BY <2>3 DEF IInv, HolderAnswers
    <3>2. result' \in Results \ {"none"}
      BY <1>4, <2>3 DEF Results
    <3> QED
      BY <1>2, <1>4, <2>1, <3>1, <3>2
  <2> QED
    BY <1>4, <2>2, <2>3
<1> USE DEF Goto, Return, CleanUp, CleanupFails, Fault, NoFault, StillRunning,
            SameTask, SameJob, disk, holder, history, bounds
<1>5. CASE Scan
  BY <1>4, <1>5 DEF Scan, IInv, HolderAnswers
<1>6. CASE Inspect \/ PrepareFails \/ VerifyFails \/ Verify \/ InstallFails
           \/ ConfirmFails \/ Prepare
  BY <1>4, <1>6 DEF Inspect, PrepareFails, VerifyFails, Verify, InstallFails,
     ConfirmFails, Prepare, IInv, HolderAnswers
<1>7. CASE Check \/ Confirm
  BY <1>4, <1>7 DEF Check, Confirm, IInv, HolderAnswers
<1>8. CASE RemoveDir \/ RemoveFails
  BY <1>4, <1>8 DEF RemoveDir, RemoveFails, IInv, HolderAnswers, TypeOK,
     HolderType, Afters
<1>9. CASE Crash
  BY <1>4, <1>9 DEF Crash
<1>10. ASSUME LinkPrior, txn \in Txns, prior[txn] # NoFile, ~landed,
              pc # "idle", UNCHANGED <<swap>>,
              UNCHANGED result \/ result' \in {"error", "indeterminate"}
       PROVE  [Cell!CellNext]_Cell!cellVars
  <2>1. /\ ConfigNow' \in Contents
        /\ ConfigNow' = ConfigNow \/ ConfigNow = NoFile
    BY <1>10, LinkPriorCell
  <2>2. UNCHANGED <<landed, touched>> /\ result = "none"
    BY <1>10 DEF LinkPrior, IInv, HolderAnswers
  <2>3. CASE ConfigNow' = ConfigNow
    BY <1>1, <1>2, <1>10, <2>2, <2>3 DEF Results
  <2>4. CASE ConfigNow = NoFile
    BY <1>10, <2>1, <2>2, <2>4 DEF Cell!CellNext, Cell!Undelete
  <2> QED
    BY <2>1, <2>3, <2>4
<1>11. CASE Restore
  BY <1>4, <1>10, <1>11 DEF Restore, IInv, HolderAnswers, HolderKnows
<1>12. CASE RestoreFails
  BY <1>4, <1>10, <1>12 DEF RestoreFails, IInv, HolderAnswers, HolderKnows
<1>13. CASE Unwind
  BY <1>4, <1>10, <1>13 DEF Unwind, IInv, HolderAnswers, HolderKnows
<1>14. CASE UnwindFails
  BY <1>4, <1>10, <1>14 DEF UnwindFails, IInv, HolderAnswers, HolderKnows
<1>15. CASE PutState
  <2>1. path # NoFile \/ deleted
    BY <1>15 DEF PutState, IInv, HolderKnows, MissingIsDisplaced,
       PriorHasState, Active
  <2>2. ConfigNow' = ConfigNow
    BY <1>15, <2>1 DEF PutState, ConfigNow
  <2> QED
    BY <1>1, <1>15, <2>2 DEF PutState
<1>16. CASE Displace \/ DisplaceFails
  <2>1. CASE MovePathAway
    <3>1. ~deleted /\ ~deleted' /\ path' = NoFile /\ path # NoFile
      BY <2>1 DEF MovePathAway, IInv, DeletedIsMissing
    <3>2. txn \in Txns /\ prior'[txn] = path
      BY <1>16, <2>1 DEF MovePathAway, Displace, DisplaceFails, IInv,
         HolderKnows, TypeOK, DiskType
    <3>3. ConfigNow' = ConfigNow
      BY <3>1, <3>2 DEF CellFacts
    <3> QED
      BY <1>1, <1>2, <1>16, <2>1, <3>3 DEF MovePathAway, Displace,
         DisplaceFails, IInv, HolderAnswers, Results
  <2>2. CASE ~MovePathAway
    BY <1>4, <1>16, <2>2 DEF Displace, DisplaceFails
  <2> QED
    BY <2>1, <2>2
<1>17. CASE Install
  <2>1. CASE LinkDesired
    <3>1. swap \in Swaps /\ ~landed /\ txn \in Txns
          /\ prior[txn] = swap.expected /\ prior[txn] # NoFile
      BY <1>17 DEF Install, IInv, HolderKnows, HolderAnswers
    <3>2. ConfigNow \in {swap.expected, NoFile}
      BY <2>1, <3>1 DEF LinkDesired, CellFacts
    <3>3. ConfigNow' = swap.desired
      BY <2>1, <3>1 DEF LinkDesired, ConfigNow, Swaps
    <3> QED
      BY <1>17, <2>1, <3>1, <3>2, <3>3 DEF Install, LinkDesired,
         Cell!CellNext, Cell!Swap, Swaps, Cell!Swaps
  <2>2. CASE ~LinkDesired
    BY <1>4, <1>17, <2>2 DEF Install
  <2> QED
    BY <2>1, <2>2
<1>18. CASE RemovePrior
  <2>1. path # NoFile \/ deleted
    BY <1>18 DEF RemovePrior, IInv, CleanUpKeepsPath
  <2>2. ConfigNow' = ConfigNow
    BY <1>18, <2>1 DEF RemovePrior, ConfigNow
  <2>3. CASE UNCHANGED prior
    BY <1>4, <1>18, <2>3 DEF RemovePrior, IInv, HolderAnswers, TypeOK,
       HolderType, Afters
  <2>4. CASE UNCHANGED result
    BY <1>1, <1>18, <2>2, <2>4 DEF RemovePrior
  <2> QED
    BY <1>18, <2>3, <2>4 DEF RemovePrior
<1>19. CASE RemoveState
  <2>1. path # NoFile \/ deleted
    BY <1>19 DEF RemoveState, IInv, HolderKnows, MissingIsDisplaced,
       PriorHasState, Active
  <2>2. ConfigNow' = ConfigNow
    BY <1>19, <2>1 DEF RemoveState, ConfigNow
  <2> QED
    BY <1>1, <1>19, <2>2 DEF RemoveState
<1>20. CASE Editor
  <2>1. ConfigNow' \in Contents \cup {NoFile}
    BY <1>20 DEF Editor, EditorReplaces, EditorRewrites, EditorDeletes,
       EditorActs, ConfigNow
  <2> QED
    BY <1>20, <2>1 DEF Editor, EditorReplaces, EditorRewrites, EditorDeletes,
       EditorActs, Cell!CellNext, Cell!Edit
<1>21. CASE UNCHANGED vars
  BY <1>4, <1>21 DEF vars
<1> QED
  BY <1>3, <1>5, <1>6, <1>7, <1>8, <1>9, <1>11, <1>12, <1>13, <1>14, <1>15,
     <1>16, <1>17, <1>18, <1>19, <1>20, <1>21
     DEF Next, Recover, Commit, Remove, Fails

\* The files implement the compare-and-swap cell, answers included.
THEOREM Implements == Spec => ImplementsCell
BY CellStarts, CellStep, InductiveInv, PTL DEF Spec, ImplementsCell, Cell!CellSpec

---------------------------------------------------------------------------
(* FallbackLadder.                                                          *)

\* The trigger on record is the last one.
Latest == cooldown # "none" => \A t \in Trips : recent[t] <= recent[cooldown]

\* A request is new until it arrives, and only arriving diverts it.
Undiverted == {q \in Requests : q.at = "new" => q.why = "none"}

LadderInv == LadderTypeOK /\ Latest /\ req \in [Reqs -> Undiverted]

\* A request is resolved to a request, refused ones included.
LEMMA ResolveType ==
    ASSUME NEW r \in Requests, NEW primary, r.why = "none"
    PROVE  Resolve(r, primary) \in Undiverted
BY DEF Requests, Undiverted, Resolve, NoReq

\* A trip puts a failure of Baseten on record as the latest.
LEMMA TripLatest ==
    ASSUME LadderInv, NEW t \in Trips, Trip(t)
    PROVE  CooldownType' /\ Latest'
<1>1. /\ recent \in [Trips -> 0 .. Ticks] /\ cooldown' = t
      /\ recent' = [recent EXCEPT ![t] = Ticks]
  BY DEF LadderInv, LadderTypeOK, Undiverted, CooldownType, Trip
<1>2. recent' \in [Trips -> 0 .. Ticks] /\ recent'[t] = Ticks
  BY <1>1 DEF Ticks
<1>3. t # "none"
  BY DEF Trips, Statuses
<1> QED
  BY <1>1, <1>2, <1>3 DEF CooldownType, Latest, Ticks

\* The ladder starts without a cooldown.
LEMMA LadderInvInit == LadderInit => LadderInv
BY LadderBounds DEF LadderInit, LadderInv, LadderTypeOK, ProviderType, CooldownType, Requests, Undiverted, Latest,
   NoReq, Ticks, Statuses, Trips

\* Each step of the ladder keeps its invariant.
LEMMA LadderInvStep == LadderInv /\ [LadderNext]_ladderVars => LadderInv'
<1> SUFFICES ASSUME LadderInv, [LadderNext]_ladderVars PROVE LadderInv'
  OBVIOUS
<1>t. ProviderType /\ CooldownType /\ Latest /\ req \in [Reqs -> Undiverted]
  BY DEF LadderInv, LadderTypeOK, Undiverted
<1>q. CASE UNCHANGED <<cooldown, recent>> /\ ProviderType' /\ req' \in [Reqs -> Undiverted]
  BY <1>t, <1>q DEF LadderInv, LadderTypeOK, Undiverted, CooldownType, Latest
<1>r. ASSUME NEW t \in Trips, Trip(t), ProviderType', req' \in [Reqs -> Undiverted]
      PROVE  LadderInv'
  BY <1>r, TripLatest DEF LadderInv, LadderTypeOK, Undiverted
<1>f. ASSUME NEW r \in Reqs, FallsBack(r) PROVE ProviderType' /\ req' \in [Reqs -> Undiverted]
  <2>1. [NoReq EXCEPT !.at = "native", !.gone = req[r].gone] \in Undiverted
    BY <1>t DEF NoReq, Requests, Undiverted
  <2> QED
    BY <1>f, <1>t, <2>1 DEF FallsBack, ProviderType
<1>e. ASSUME NEW r \in Reqs, Ends(r), Quiet PROVE LadderInv'
  <2>1. NoReq \in Undiverted
    BY DEF NoReq, Requests, Undiverted
  <2> QED
    BY <1>e, <1>q, <1>t, <2>1 DEF Ends, Quiet, ProviderType
<1>1. ASSUME NEW r \in Reqs, Arrive(r) PROVE LadderInv'
  <2>1. PICK plan \in {"none", "status_only", "legacy"},
             primary \in {"ok", "auth_unavailable", "image_input_unsupported"} :
          req' = [req EXCEPT ![r] =
                    Resolve([NoReq EXCEPT !.plan = plan, !.policy = policy], primary)]
    BY <1>1 DEF Arrive
  <2>2. [NoReq EXCEPT !.plan = plan, !.policy = policy] \in Requests
         /\ [NoReq EXCEPT !.plan = plan, !.policy = policy].why = "none"
    BY <1>t DEF NoReq, Requests, ProviderType
  <2>3. req' \in [Reqs -> Undiverted]
    BY <1>t, <2>1, <2>2, ResolveType
  <2> QED
    BY <1>1, <1>q, <1>t, <2>3 DEF Arrive, ArrivalLeavesCooldown, ProviderType
<1>2. ASSUME NEW r \in Reqs, HangUp(r) PROVE LadderInv'
  <2>1. req' \in [Reqs -> Undiverted]
    <3>1. req[r] \in Undiverted
      BY <1>t
    <3>2. [req[r] EXCEPT !.gone = TRUE] \in Undiverted
      BY <3>1 DEF Undiverted, Requests
    <3>3. req' = [req EXCEPT ![r] = [req[r] EXCEPT !.gone = TRUE]]
      BY <1>2, <1>t DEF HangUp
    <3> QED
      BY <1>t, <3>2, <3>3
  <2> QED
    BY <1>2, <1>q, <1>t, <2>1 DEF HangUp, ProviderType
<1>3. ASSUME NEW r \in Reqs, BasetenAnswers(r) PROVE LadderInv'
  BY <1>3, <1>e DEF BasetenAnswers
<1>4. ASSUME NEW r \in Reqs, BasetenLacksImages(r) PROVE LadderInv'
  BY <1>4, <1>f, <1>q DEF BasetenLacksImages
<1>5. ASSUME NEW r \in Reqs, BasetenRefuses(r) PROVE LadderInv'
  BY <1>5, <1>f, <1>r DEF BasetenRefuses, Trips
<1>6. ASSUME NEW r \in Reqs, BasetenFails(r) PROVE LadderInv'
  BY <1>6, <1>e, <1>f, <1>r DEF BasetenFails, Trips
<1>7. ASSUME NEW r \in Reqs, BasetenSilent(r) PROVE LadderInv'
  BY <1>7, <1>e, <1>f, <1>r DEF BasetenSilent, Trips
<1>8. ASSUME NEW r \in Reqs, BasetenJustInTime(r) \/ NativeEnds(r) PROVE LadderInv'
  BY <1>8, <1>e DEF BasetenJustInTime, NativeEnds
<1>9. CASE ProviderChanges \/ PolicyReloaded
  BY <1>9, <1>q, <1>t, LadderBounds DEF ProviderChanges, PolicyReloaded, ProviderType
<1>10. CASE TimePasses
  <2>1. /\ \E t \in Trips : recent[t] > 0
        /\ recent' = [t \in Trips |-> IF recent[t] = 0 THEN 0 ELSE recent[t] - 1]
        /\ cooldown' = IF recent'[cooldown] = 0 THEN "none" ELSE cooldown
        /\ ProviderType' /\ req' \in [Reqs -> Undiverted]
    BY <1>10, <1>t DEF TimePasses, ProviderType
  <2>2. cooldown \in Trips /\ \A t \in Trips : recent[t] \in 0 .. Ticks /\ recent[t] <= recent[cooldown]
    BY <1>t, <2>1 DEF CooldownType, Latest, Ticks
  <2>3. \A t \in Trips : recent'[t] \in 0 .. Ticks /\ recent'[t] <= recent'[cooldown]
    BY <2>1, <2>2 DEF Ticks
  <2>4. recent' \in [Trips -> 0 .. Ticks]
    BY <2>1, <2>3
  <2>5. "none" \notin Trips
    BY DEF Trips, Statuses
  <2>6. CASE recent'[cooldown] = 0
    <3>1. \A t \in Trips : recent'[t] = 0
      BY <2>3, <2>6 DEF Ticks
    <3> QED
      BY <2>1, <2>4, <2>6, <3>1 DEF LadderInv, LadderTypeOK, Undiverted, CooldownType, Latest
  <2>7. CASE recent'[cooldown] # 0
    BY <2>1, <2>2, <2>3, <2>4, <2>5, <2>7 DEF LadderInv, LadderTypeOK, Undiverted, CooldownType, Latest
  <2> QED
    BY <2>6, <2>7
<1>11. CASE UNCHANGED ladderVars
  BY <1>11, <1>q, <1>t DEF ladderVars, ProviderType
<1> QED
  BY <1>1, <1>2, <1>3, <1>4, <1>5, <1>6, <1>7, <1>8, <1>9, <1>10, <1>11 DEF LadderNext

\* The cooldown runs exactly while a trigger counts, and it is the latest one that is on record.
THEOREM LadderInductive == LadderSpec => []LadderInv
BY LadderInvInit, LadderInvStep, PTL DEF LadderSpec

\* A step diverts a request only for a trigger that counts and that the request may fall back for.
LEMMA DivertedStep ==
    LadderInv /\ [LadderNext]_ladderVars =>
        [\A r \in Reqs : req'[r].why = "cooldown" /\ req[r].at = "new" =>
            \E t \in Trips : /\ recent[t] > 0 /\ StatusEnabled(policy, t)
                            /\ t \in Allowed(req'[r].plan)]_ladderVars
<1> SUFFICES ASSUME LadderInv, LadderNext, NEW r \in Reqs, req'[r].why = "cooldown", req[r].at = "new"
             PROVE  \E t \in Trips : /\ recent[t] > 0 /\ StatusEnabled(policy, t)
                                     /\ t \in Allowed(req'[r].plan)
  OBVIOUS
<1>t. CooldownType /\ Latest /\ req \in [Reqs -> Undiverted] /\ req \in [Reqs -> Requests]
  BY DEF LadderInv, LadderTypeOK
<1>1. Arrive(r)
  <2>1. req'[r] # req[r] /\ NoReq.why # "cooldown"
    BY <1>t DEF Undiverted, NoReq
  <2> QED
    BY <1>t, <2>1 DEF LadderNext, Arrive, HangUp, Ends, FallsBack, BasetenAnswers, BasetenLacksImages,
       BasetenRefuses, BasetenFails, BasetenSilent, BasetenJustInTime, NativeEnds, AtBaseten, NoReq,
       ProviderChanges, TimePasses, PolicyReloaded
<1>2. PICK plan \in {"none", "status_only", "legacy"},
           primary \in {"ok", "auth_unavailable", "image_input_unsupported"} :
        req'[r] = Resolve([NoReq EXCEPT !.plan = plan, !.policy = policy], primary)
  BY <1>1, <1>t DEF Arrive
<1>3. cooldown \in Allowed(plan) /\ StatusEnabled(policy, cooldown) /\ req'[r].plan = plan
  BY <1>2 DEF Resolve, CooldownEligible, NoReq
<1>4. cooldown \in Trips
  BY <1>3, <1>t DEF Allowed, CooldownType, Statuses, Trips
<1>5. recent[cooldown] > 0
  <2>1. \A t \in Trips : recent[t] \in Nat /\ recent[t] <= recent[cooldown]
    BY <1>4, <1>t DEF CooldownType, Latest, Ticks, Trips, Statuses
  <2>2. \E t \in Trips : recent[t] # 0
    BY <1>4, <1>t DEF CooldownType, Trips, Statuses
  <2> QED
    BY <1>4, <2>1, <2>2
<1> QED
  BY <1>3, <1>4, <1>5

\* A step makes a trigger count again only while Baseten fails.
LEMMA TripStep ==
    LadderInv /\ [LadderNext]_ladderVars =>
        [(\E t \in Trips : recent'[t] > recent[t]) => baseten \in Trips]_ladderVars
<1> SUFFICES ASSUME LadderInv, LadderNext, NEW t \in Trips, recent'[t] > recent[t]
             PROVE  baseten \in Trips
  OBVIOUS
<1>t. recent \in [Trips -> 0 .. Ticks]
  BY DEF LadderInv, LadderTypeOK, CooldownType
<1>1. recent[t] \in Nat
  BY <1>t DEF Ticks
<1>2. recent' # recent
  BY <1>1
<1>3. CASE TimePasses
  <2>1. recent'[t] = IF recent[t] = 0 THEN 0 ELSE recent[t] - 1
    BY <1>3 DEF TimePasses
  <2> QED
    BY <1>1, <2>1
<1>4. ASSUME NEW r \in Reqs, BasetenRefuses(r) \/ BasetenFails(r) \/ BasetenSilent(r)
      PROVE  baseten \in Trips
  <2>1. baseten \in Statuses \/ baseten = "ttft_timeout" \/ (BasetenFails(r) /\ ~req[r].gone)
    BY <1>2, <1>4 DEF BasetenRefuses, BasetenFails, BasetenSilent, Gone, Quiet
  <2> QED
    BY <2>1 DEF Trips, BasetenFails, CallFails
<1> QED
  BY <1>2, <1>3, <1>4 DEF LadderNext, Arrive, ArrivalLeavesCooldown, HangUp, Quiet, BasetenAnswers,
     BasetenLacksImages, BasetenJustInTime, NativeEnds, ProviderChanges, PolicyReloaded

\* A cooldown starts for a failure of Baseten only, and diverts only what may be diverted for it.
THEOREM CooldownsJustifiedThm == LadderSpec => CooldownsJustified
BY LadderInductive, DivertedStep, TripStep, PTL
   DEF LadderSpec, CooldownsJustified, DivertedForCause, OnlyFailuresTrip

---------------------------------------------------------------------------
(* SavedKey.                                                                *)

\* Only the process that holds the lock is in a call, and a call is where its operation can be.
CallsLocked == \A p \in Procs : call[p] # NoCall => keyLock = p
CallsTakeTurns ==
    \A p \in Procs :
        /\ call[p].at = "none" <=> call[p].op = "none"
        /\ call[p].at = "set" => call[p].op \in {"load", "save"}
        /\ call[p].at = "delete" => call[p].op = "remove"

\* A save or a removal promises nothing until it ends, and a save has written its key by then.
WriterKnows ==
    \A p \in Procs :
        /\ call[p].op \in {"save", "remove"} /\ call[p].at # "look" => promised = Unknown
        /\ call[p].op = "save" /\ call[p].at \in {"recheck", "unlink"} => keychain = subject[p]

\* A load writes only into an empty Keychain, from a file no removal saw, and unlinks the file
\* only when the Keychain has its key.
LoaderKnows ==
    \A p \in Procs : call[p].op = "load" =>
        /\ call[p].at = "set" => /\ keychain = NoKey /\ promised = Unknown
                                /\ sight[p].ino \notin removed /\ sight[p].key = subject[p]
        /\ call[p].at \in {"recheck", "unlink"} =>
                keychain = subject[p] /\ sight[p].key \in {NoKey, subject[p]}

\* The files removals saw are gone; a file written later is another one.
RemovedGone ==
    /\ legacy.ino \notin removed
    /\ \A p \in Procs :
          /\ sight[p].ino <= writes
          /\ call[p].at = "delete" => legacy.ino # sight[p].ino \/ legacy.ino = 0

KeyInv ==
    /\ KeyTypeOK /\ PromiseKept /\ CallsLocked /\ CallsTakeTurns
    /\ WriterKnows /\ LoaderKnows /\ RemovedGone

\* The store starts without a call, a file and a promise.
LEMMA KeyInvInit == KeyInit => KeyInv
BY KeyValues, KeyBounds DEF KeyInit, KeyInv, KeyTypeOK, KeyStored, KeyCalls, KeyHistory, PromiseKept,
   CallsLocked, CallsTakeTurns, WriterKnows, LoaderKnows, RemovedGone, NoCall, NoLegacy, Legacies, Unknown

\* While one process is in a call, no other is.
LEMMA AloneInCall ==
    ASSUME KeyInv, NEW p \in Procs, call[p] # NoCall
    PROVE  keyLock = p /\ \A q \in Procs : q # p => call[q] = NoCall
BY DEF KeyInv, CallsLocked

\* An operation that returns leaves no call behind.
LEMMA ReturnLeavesNone ==
    ASSUME KeyInv, NEW p \in Procs, call[p] # NoCall, Returns(p)
    PROVE  /\ KeyCalls' /\ CallsLocked' /\ CallsTakeTurns' /\ WriterKnows' /\ LoaderKnows'
           /\ \A q \in Procs : call'[q] = NoCall
           /\ \A q \in Procs : sight'[q].ino = 0 \/ sight'[q] = sight[q]
<1>1. \A q \in Procs : q # p => call[q] = NoCall
  BY AloneInCall
<1>2. NoCall \in [op : {"none", "load", "save", "remove"},
                  at : {"none", "look", "set", "recheck", "unlink", "delete"}]
  BY DEF NoCall
<1>3. NoLegacy \in Legacies /\ NoLegacy.ino = 0
  BY KeyBounds DEF NoLegacy, Legacies
<1>4. KeyCalls
  BY DEF KeyInv, KeyTypeOK
<1>5. \A q \in Procs : call'[q] = NoCall
  BY <1>1, <1>4 DEF Returns, KeyCalls
<1>6. KeyCalls'
  BY <1>2, <1>3, <1>4 DEF Returns, KeyCalls
<1>7. \A q \in Procs : sight'[q].ino = 0 \/ sight'[q] = sight[q]
  BY <1>3, <1>4 DEF Returns, KeyCalls
<1> QED
  BY <1>5, <1>6, <1>7 DEF CallsLocked, CallsTakeTurns, WriterKnows, LoaderKnows, NoCall

\* Each step keeps the invariant of the saved key.
LEMMA KeyInvStep == KeyInv /\ [KeyNext]_keyVars => KeyInv'
<1> SUFFICES ASSUME KeyInv, [KeyNext]_keyVars PROVE KeyInv'
  OBVIOUS
<1>t. KeyStored /\ KeyCalls /\ KeyHistory
  BY DEF KeyInv, KeyTypeOK
<1>n. MaxWrites \in Nat /\ MaxKeyFaults \in Nat /\ writes \in Nat /\ legacy.ino \in Nat
      /\ \A q \in Procs : sight[q].ino \in Nat
  BY <1>t, KeyBounds DEF KeyStored, KeyCalls, Legacies
<1>m. ASSUME NEW p \in Procs, NEW at \in {"set", "recheck", "unlink", "delete"}, call[p] # NoCall,
             Reaches(p, at), UNCHANGED keyLock
      PROVE  /\ \A q \in Procs : q # p => call'[q] = NoCall
             /\ call'[p].op = call[p].op /\ call'[p].at = at
             /\ call' \in [Procs -> [op : {"none", "load", "save", "remove"},
                           at : {"none", "look", "set", "recheck", "unlink", "delete"}]]
             /\ CallsLocked'
  <2>1. keyLock = p /\ \A q \in Procs : q # p => call[q] = NoCall
    BY <1>m, AloneInCall
  <2>2. call[p] \in [op : {"none", "load", "save", "remove"},
                     at : {"none", "look", "set", "recheck", "unlink", "delete"}]
    BY <1>t DEF KeyCalls
  <2>3. [call[p] EXCEPT !.at = at] = [op |-> call[p].op, at |-> at]
    BY <2>2
  <2>4. call' = [call EXCEPT ![p] = [op |-> call[p].op, at |-> at]]
    BY <1>m, <1>t, <2>3 DEF Reaches, KeyCalls
  <2> QED
    BY <1>m, <1>t, <2>1, <2>2, <2>4 DEF KeyCalls, CallsLocked
<1>d. ASSUME NEW p \in Procs, call[p].at \in {"recheck", "unlink"}, legacy' = NoLegacy, FileDealtWith(p),
             UNCHANGED <<keychain, writes, keyFaults, removed>>
      PROVE  KeyInv'
  <2>1. call[p] # NoCall
    BY <1>d DEF NoCall
  <2>2. NoLegacy \in Legacies /\ NoLegacy.ino = 0 /\ NoLegacy.key = NoKey
    BY KeyBounds DEF NoLegacy, Legacies
  <2>3. KeyStored'
    BY <1>d, <1>n, <1>t, <2>2 DEF KeyStored
  <2>4. legacy'.ino = 0 /\ 0 \notin removed'
    BY <1>d, <1>n, <1>t, <2>2 DEF KeyHistory
  <2>5. CASE call[p].op = "remove"
    <3>1. Reaches(p, "delete") /\ UNCHANGED <<keyLock, sight, subject, promised>>
      BY <1>d, <2>5 DEF FileDealtWith
    <3>2. /\ \A q \in Procs : q # p => call'[q] = NoCall
          /\ call'[p].op = "remove" /\ call'[p].at = "delete"
          /\ call' \in [Procs -> [op : {"none", "load", "save", "remove"},
                        at : {"none", "look", "set", "recheck", "unlink", "delete"}]]
          /\ CallsLocked'
      BY <1>m, <2>1, <2>5, <3>1
    <3>3. promised = Unknown
      BY <1>d, <2>5 DEF KeyInv, WriterKnows
    <3>4. KeyCalls' /\ KeyHistory' /\ PromiseKept'
      BY <1>d, <1>t, <3>1, <3>2, <3>3 DEF KeyCalls, KeyHistory, PromiseKept
    <3>5. CallsTakeTurns' /\ WriterKnows' /\ LoaderKnows'
      BY <3>1, <3>2, <3>3 DEF CallsTakeTurns, WriterKnows, LoaderKnows, NoCall
    <3>6. RemovedGone'
      BY <1>d, <2>4, <3>1 DEF KeyInv, RemovedGone
    <3> QED
      BY <2>3, <3>2, <3>4, <3>5, <3>6 DEF KeyInv, KeyTypeOK
  <2>6. CASE call[p].op # "remove"
    <3>1. Returns(p) /\ promised' = IF call[p].op = "save" THEN subject[p] ELSE promised
      BY <1>d, <2>6 DEF FileDealtWith, Finished
    <3>2. KeyHistory'
      BY <1>d, <1>t, <3>1 DEF KeyCalls, KeyHistory
    <3>3. PromiseKept'
      BY <1>d, <3>1 DEF KeyInv, PromiseKept, WriterKnows
    <3>4. RemovedGone'
      BY <1>d, <1>n, <2>1, <2>4, <3>1, ReturnLeavesNone DEF KeyInv, RemovedGone, NoCall
    <3> QED
      BY <2>1, <2>3, <3>1, <3>2, <3>3, <3>4, ReturnLeavesNone DEF KeyInv, KeyTypeOK
  <2> QED
    BY <2>5, <2>6
<1>1. ASSUME NEW p \in Procs, NEW op \in {"load", "save", "remove"}, BeginCall(p, op) PROVE KeyInv'
  <2>1. UNCHANGED <<keychain, legacy, sight, writes, keyFaults, promised, removed>> /\ keyLock = NoKey /\ keyLock' = p
    BY <1>1 DEF BeginCall, Locked
  <2>2. \A q \in Procs : call[q] = NoCall
    BY <2>1, KeyValues DEF KeyInv, CallsLocked
  <2>3. KeyCalls'
    BY <1>1, <2>1, <1>t DEF BeginCall, KeyCalls
  <2>4. call'[p] = [op |-> op, at |-> "look"] /\ \A q \in Procs : q # p => call'[q] = NoCall
    BY <1>1, <1>t, <2>2 DEF BeginCall, KeyCalls
  <2>5. KeyStored' /\ KeyHistory' /\ PromiseKept'
    BY <1>t, <2>1 DEF KeyInv, KeyStored, KeyHistory, PromiseKept
  <2>6. CallsLocked' /\ CallsTakeTurns'
    BY <2>1, <2>4 DEF NoCall, CallsLocked, CallsTakeTurns
  <2>7. WriterKnows' /\ LoaderKnows'
    BY <2>4 DEF NoCall, WriterKnows, LoaderKnows
  <2>8. RemovedGone'
    BY <2>1, <2>4 DEF KeyInv, NoCall, RemovedGone
  <2> QED
    BY <2>1, <2>2, <2>3, <2>4, <2>5, <2>6, <2>7, <2>8 DEF KeyInv, KeyTypeOK
<1>2. ASSUME NEW p \in Procs, LoadLooks(p) PROVE KeyInv'
  <2>1. /\ call[p].op = "load" /\ call[p].at = "look" /\ call[p] # NoCall
        /\ UNCHANGED <<keychain, legacy, writes, keyFaults, promised, removed>>
    BY <1>2 DEF LoadLooks, Doing, NoCall
  <2>2. KeyStored' /\ KeyHistory' /\ PromiseKept'
    BY <1>t, <2>1 DEF KeyInv, KeyStored, KeyHistory, PromiseKept
  <2>3. CASE LoadFinishes
    <3>1. Returns(p)
      BY <1>2, <2>3 DEF LoadLooks
    <3>2. RemovedGone'
      BY <1>n, <2>1, <3>1, ReturnLeavesNone DEF KeyInv, RemovedGone, NoCall
    <3> QED
      BY <2>1, <2>2, <3>1, <3>2, ReturnLeavesNone DEF KeyInv, KeyTypeOK
  <2>4. CASE ~LoadFinishes
    <3> DEFINE at == IF keychain = NoKey THEN "set" ELSE "recheck"
    <3>1. /\ Reaches(p, at) /\ UNCHANGED keyLock
          /\ sight' = [sight EXCEPT ![p] = legacy]
          /\ subject' = [subject EXCEPT ![p] = IF keychain = NoKey THEN legacy.key ELSE keychain]
      BY <1>2, <2>4 DEF LoadLooks
    <3>2. at \in {"set", "recheck"}
      OBVIOUS
    <3>3. /\ \A q \in Procs : q # p => call'[q] = NoCall
          /\ call'[p].op = "load" /\ call'[p].at = at
          /\ call' \in [Procs -> [op : {"none", "load", "save", "remove"},
                        at : {"none", "look", "set", "recheck", "unlink", "delete"}]]
          /\ CallsLocked'
      BY <1>m, <2>1, <3>1, <3>2
    <3>4. /\ legacy \in Legacies /\ (keychain = NoKey => legacy.key \in Keys)
          /\ (keychain # NoKey => legacy.key \in {NoKey, keychain})
          /\ (keychain = NoKey => legacy # NoLegacy)
      BY <1>t, <2>4, KeyValues DEF KeyStored, LoadFinishes, Legacies, NoLegacy
    <3>5. sight' \in [Procs -> Legacies] /\ subject' \in [Procs -> Keys \cup {NoKey}]
          /\ sight'[p] = legacy /\ subject'[p] = (IF keychain = NoKey THEN legacy.key ELSE keychain)
          /\ \A q \in Procs : sight'[q] = legacy \/ sight'[q] = sight[q]
      BY <1>t, <3>1, <3>4 DEF KeyCalls, KeyStored
    <3>6. KeyCalls'
      BY <1>t, <3>1, <3>3, <3>5 DEF KeyCalls
    <3>7. CallsTakeTurns' /\ WriterKnows'
      BY <3>3 DEF CallsTakeTurns, WriterKnows, NoCall
    <3>8. keychain = NoKey => promised = Unknown
      BY <3>4 DEF KeyInv, PromiseKept
    <3>9. LoaderKnows'
      BY <2>1, <3>3, <3>4, <3>5, <3>8 DEF KeyInv, LoaderKnows, RemovedGone, NoCall
    <3>10. RemovedGone'
      BY <1>n, <1>t, <2>1, <3>3, <3>5 DEF KeyInv, KeyStored, RemovedGone, NoCall
    <3> QED
      BY <2>2, <3>3, <3>6, <3>7, <3>9, <3>10 DEF KeyInv, KeyTypeOK
  <2> QED
    BY <2>3, <2>4
<1>3. ASSUME NEW p \in Procs, WriterLooks(p) PROVE KeyInv'
  <2>1. PICK op \in {"save", "remove"} :
          /\ call[p].op = op /\ call[p].at = "look" /\ call[p] # NoCall
          /\ sight' = [sight EXCEPT ![p] = legacy] /\ Reaches(p, AfterSnapshot(op)) /\ promised' = Unknown
          /\ UNCHANGED <<keychain, legacy, keyLock, subject, writes, keyFaults, removed>>
    BY <1>3 DEF WriterLooks, Doing, NoCall
  <2>2. /\ \A q \in Procs : q # p => call'[q] = NoCall
        /\ call'[p].op = op /\ call'[p].at = AfterSnapshot(op)
        /\ call' \in [Procs -> [op : {"none", "load", "save", "remove"},
                      at : {"none", "look", "set", "recheck", "unlink", "delete"}]]
        /\ CallsLocked'
    BY <1>m, <2>1 DEF AfterSnapshot
  <2>3. sight' \in [Procs -> Legacies] /\ \A q \in Procs : sight'[q] = legacy \/ sight'[q] = sight[q]
    BY <1>t, <2>1 DEF KeyCalls, KeyStored
  <2>4. KeyCalls' /\ KeyStored' /\ KeyHistory'
    BY <1>t, <2>1, <2>2, <2>3 DEF KeyCalls, KeyStored, KeyHistory
  <2>5. CallsTakeTurns' /\ WriterKnows' /\ LoaderKnows' /\ PromiseKept'
    BY <2>1, <2>2 DEF CallsTakeTurns, WriterKnows, LoaderKnows, PromiseKept, NoCall, AfterSnapshot
  <2>6. RemovedGone'
    BY <1>n, <1>t, <2>1, <2>2, <2>3 DEF KeyInv, KeyStored, RemovedGone, NoCall, AfterSnapshot
  <2> QED
    BY <2>2, <2>4, <2>5, <2>6 DEF KeyInv, KeyTypeOK
<1>4. ASSUME NEW p \in Procs, SetKeychain(p) PROVE KeyInv'
  <2>1. PICK op \in {"load", "save"} :
          /\ call[p].op = op /\ call[p].at = "set" /\ call[p] # NoCall
          /\ keychain' = subject[p] /\ Reaches(p, "recheck")
          /\ UNCHANGED <<legacy, keyLock, sight, subject, writes, keyFaults, promised, removed>>
    BY <1>4 DEF SetKeychain, Doing, NoCall
  <2>2. /\ \A q \in Procs : q # p => call'[q] = NoCall
        /\ call'[p].op = op /\ call'[p].at = "recheck"
        /\ call' \in [Procs -> [op : {"none", "load", "save", "remove"},
                      at : {"none", "look", "set", "recheck", "unlink", "delete"}]]
        /\ CallsLocked'
    BY <1>m, <2>1
  <2>3. KeyCalls' /\ KeyStored' /\ KeyHistory'
    BY <1>t, <2>1, <2>2 DEF KeyCalls, KeyStored, KeyHistory
  <2>4. promised = Unknown
    BY <2>1 DEF KeyInv, WriterKnows, LoaderKnows
  <2>5. CallsTakeTurns' /\ WriterKnows' /\ PromiseKept'
    BY <2>1, <2>2, <2>4 DEF CallsTakeTurns, WriterKnows, PromiseKept, NoCall
  <2>6. LoaderKnows'
    BY <2>1, <2>2 DEF KeyInv, LoaderKnows, NoCall
  <2>7. RemovedGone'
    BY <2>1, <2>2 DEF KeyInv, RemovedGone, NoCall
  <2> QED
    BY <2>2, <2>3, <2>5, <2>6, <2>7 DEF KeyInv, KeyTypeOK
<1>5. ASSUME NEW p \in Procs, KeychainFails(p) PROVE KeyInv'
  <2>1. /\ call[p].at \in {"look", "set", "delete"} /\ call[p] # NoCall
        /\ keyFaults < MaxKeyFaults /\ keyFaults' = keyFaults + 1
        /\ keychain' = keychain \/ (call[p].at = "set" /\ keychain' = subject[p])
              \/ (call[p].at = "delete" /\ keychain' = NoKey)
        /\ removed' = IF call[p].at = "delete" /\ keychain' # keychain
                        THEN removed \cup ({sight[p].ino} \ {0}) ELSE removed
        /\ Returns(p) /\ UNCHANGED <<legacy, writes, promised>>
    BY <1>5 DEF KeychainFails, FailsOnce, NoCall
  <2>2. removed' \subseteq 1 .. writes /\ legacy.ino \notin removed'
    <3>1. removed \subseteq 1 .. writes /\ legacy.ino \notin removed /\ sight[p].ino <= writes
      BY <1>t DEF KeyInv, RemovedGone, KeyHistory
    <3>2. CASE call[p].at = "delete"
      <4>1. removed' \subseteq removed \cup ({sight[p].ino} \ {0})
        BY <2>1
      <4>2. legacy.ino # sight[p].ino \/ legacy.ino = 0
        BY <3>2 DEF KeyInv, RemovedGone
      <4>3. sight[p].ino = 0 \/ sight[p].ino \in 1 .. writes
        BY <1>n, <3>1
      <4> QED
        BY <3>1, <4>1, <4>2, <4>3
    <3>3. CASE call[p].at # "delete"
      BY <2>1, <3>1, <3>3
    <3> QED
      BY <3>2, <3>3
  <2>3. KeyStored'
    BY <1>t, <2>1 DEF KeyStored, KeyCalls
  <2>4. KeyHistory'
    BY <1>n, <1>t, <2>1, <2>2 DEF KeyHistory
  <2>5. call[p].at # "look" => promised = Unknown
    BY <1>t, <2>1 DEF KeyInv, WriterKnows, LoaderKnows, CallsTakeTurns, KeyCalls
  <2>6. PromiseKept'
    BY <2>1, <2>5 DEF KeyInv, PromiseKept
  <2>7. RemovedGone'
    BY <1>n, <2>1, <2>2, ReturnLeavesNone DEF KeyInv, RemovedGone, NoCall
  <2> QED
    BY <2>1, <2>3, <2>4, <2>6, <2>7, ReturnLeavesNone DEF KeyInv, KeyTypeOK
<1>6. ASSUME NEW p \in Procs, Recheck(p) PROVE KeyInv'
  <2>1. /\ call[p].at = "recheck" /\ call[p] # NoCall
        /\ UNCHANGED <<keychain, legacy, writes, keyFaults, removed>>
    BY <1>6 DEF Recheck, NoCall
  <2>2. CASE legacy = NoLegacy /\ FileDealtWith(p)
    BY <1>d, <2>1, <2>2
  <2>3. CASE Reaches(p, "unlink") /\ UNCHANGED <<keyLock, sight, subject, promised>>
    <3>1. /\ \A q \in Procs : q # p => call'[q] = NoCall
          /\ call'[p].op = call[p].op /\ call'[p].at = "unlink"
          /\ call' \in [Procs -> [op : {"none", "load", "save", "remove"},
                        at : {"none", "look", "set", "recheck", "unlink", "delete"}]]
          /\ CallsLocked'
      BY <1>m, <2>1, <2>3
    <3>2. KeyCalls' /\ KeyStored' /\ KeyHistory' /\ PromiseKept'
      BY <1>t, <2>1, <2>3, <3>1 DEF KeyInv, KeyCalls, KeyStored, KeyHistory, PromiseKept
    <3>3. CallsTakeTurns' /\ WriterKnows' /\ LoaderKnows' /\ RemovedGone'
      BY <2>1, <2>3, <3>1 DEF KeyInv, CallsTakeTurns, WriterKnows, LoaderKnows, RemovedGone, NoCall
    <3> QED
      BY <3>1, <3>2, <3>3 DEF KeyInv, KeyTypeOK
  <2>4. CASE Returns(p) /\ UNCHANGED promised
    <3>1. KeyStored' /\ KeyHistory' /\ PromiseKept'
      BY <1>t, <2>1, <2>4 DEF KeyInv, KeyStored, KeyHistory, PromiseKept
    <3>2. RemovedGone'
      BY <1>n, <2>1, <2>4, ReturnLeavesNone DEF KeyInv, RemovedGone, NoCall
    <3> QED
      BY <2>1, <2>4, <3>1, <3>2, ReturnLeavesNone DEF KeyInv, KeyTypeOK
  <2> QED
    BY <1>6, <2>2, <2>3, <2>4 DEF Recheck
<1>7. ASSUME NEW p \in Procs, Unlink(p) PROVE KeyInv'
  BY <1>7, <1>d DEF Unlink, NoCall
<1>8. ASSUME NEW p \in Procs, DeleteKeychain(p) PROVE KeyInv'
  <2>1. /\ call[p].op = "remove" /\ call[p].at = "delete" /\ call[p] # NoCall /\ keychain' = NoKey
        /\ promised' = IF legacy = NoLegacy THEN NoKey ELSE promised
        /\ removed' = removed \cup ({sight[p].ino} \ {0})
        /\ Returns(p) /\ UNCHANGED <<legacy, writes, keyFaults>>
    BY <1>8 DEF DeleteKeychain, Doing, NoCall
  <2>2. removed' \subseteq 1 .. writes /\ legacy.ino \notin removed'
    BY <1>n, <1>t, <2>1 DEF KeyInv, RemovedGone, KeyHistory
  <2>3. KeyStored' /\ KeyHistory'
    BY <1>t, <2>1, <2>2 DEF KeyStored, KeyHistory
  <2>4. PromiseKept'
    BY <2>1 DEF KeyInv, WriterKnows, PromiseKept
  <2>5. RemovedGone'
    BY <1>n, <2>1, <2>2, ReturnLeavesNone DEF KeyInv, RemovedGone, NoCall
  <2> QED
    BY <2>1, <2>3, <2>4, <2>5, ReturnLeavesNone DEF KeyInv, KeyTypeOK
<1>9. ASSUME NEW p \in Procs, Dies(p) PROVE KeyInv'
  <2>1. /\ call[p] # NoCall /\ keyFaults < MaxKeyFaults /\ keyFaults' = keyFaults + 1 /\ Returns(p)
        /\ UNCHANGED <<keychain, legacy, writes, promised, removed>>
    BY <1>9 DEF Dies, FailsOnce
  <2>2. KeyStored' /\ KeyHistory' /\ PromiseKept'
    BY <1>n, <1>t, <2>1 DEF KeyInv, KeyStored, KeyHistory, PromiseKept
  <2>3. RemovedGone'
    BY <1>n, <2>1, ReturnLeavesNone DEF KeyInv, RemovedGone, NoCall
  <2> QED
    BY <2>1, <2>2, <2>3, ReturnLeavesNone DEF KeyInv, KeyTypeOK
<1>10. CASE OldVersionSaves
  <2>1. /\ writes < MaxWrites /\ writes' = writes + 1 /\ promised' = Unknown
        /\ UNCHANGED <<keychain, keyLock, call, sight, subject, keyFaults, removed>>
    BY <1>10 DEF OldVersionSaves
  <2>2. PICK k \in Keys \cup {BadKey} : legacy' = [key |-> k, ino |-> writes + 1]
    BY <1>10 DEF OldVersionSaves
  <2>3. KeyStored'
    BY <1>n, <1>t, <2>1, <2>2, KeyValues DEF KeyStored, Legacies
  <2>4. KeyCalls' /\ KeyHistory' /\ PromiseKept'
    BY <1>n, <1>t, <2>1 DEF KeyCalls, KeyHistory, PromiseKept
  <2>5. CallsLocked' /\ CallsTakeTurns' /\ WriterKnows'
    BY <2>1 DEF KeyInv, CallsLocked, CallsTakeTurns, WriterKnows
  <2>6. LoaderKnows'
    BY <2>1 DEF KeyInv, LoaderKnows
  <2>7. RemovedGone'
    BY <1>n, <1>t, <2>1, <2>2 DEF KeyInv, KeyHistory, RemovedGone
  <2> QED
    BY <2>3, <2>4, <2>5, <2>6, <2>7 DEF KeyInv, KeyTypeOK
<1>11. CASE UNCHANGED keyVars
  BY <1>11 DEF keyVars, KeyInv, KeyTypeOK, KeyStored, KeyCalls, KeyHistory, PromiseKept, CallsLocked,
     CallsTakeTurns, WriterKnows, LoaderKnows, RemovedGone
<1> QED
  BY <1>1, <1>2, <1>3, <1>4, <1>5, <1>6, <1>7, <1>8, <1>9, <1>10, <1>11 DEF KeyNext

\* A finished save or removal keeps its promise until another begins.
THEOREM PromiseKeptThm == KeySpec => []PromiseKept
<1>1. KeySpec => []KeyInv
  BY KeyInvInit, KeyInvStep, PTL DEF KeySpec
<1>2. KeyInv => PromiseKept
  BY DEF KeyInv
<1> QED
  BY <1>1, <1>2, PTL

\* A load that writes the Keychain writes a key that no removal saw.
LEMMA NotUndoneStep ==
    KeyInv /\ [KeyNext]_keyVars =>
        [\A p \in Procs :
            call[p].op = "load" /\ Moves(p) /\ keychain = NoKey /\ keychain' # NoKey
                => sight[p].ino \notin removed]_keyVars
<1> SUFFICES ASSUME KeyInv, KeyNext, NEW p \in Procs, call[p].op = "load", Moves(p),
                    keychain = NoKey, keychain' # NoKey
             PROVE  sight[p].ino \notin removed
  OBVIOUS
<1>1. keychain' # keychain
  OBVIOUS
<1>2. PICK q \in Procs : SetKeychain(q) \/ KeychainFails(q) \/ DeleteKeychain(q)
  BY <1>1 DEF KeyNext, BeginCall, LoadLooks, WriterLooks, Recheck, Unlink, Dies, OldVersionSaves
<1>3. call[q] # NoCall /\ call[p] # NoCall
  BY <1>2 DEF SetKeychain, KeychainFails, DeleteKeychain, Doing, NoCall
<1>4. q = p
  BY <1>3, AloneInCall
<1>5. call[p].at = "set"
  BY <1>1, <1>2, <1>4 DEF SetKeychain, KeychainFails, DeleteKeychain, Doing
<1> QED
  BY <1>5 DEF KeyInv, LoaderKnows

\* A load never replaces a key, and unlinks its file only for a Keychain that has the key.
LEMMA MigrationStep ==
    KeyInv /\ [KeyNext]_keyVars =>
        [\A p \in Procs : call[p].op = "load" /\ Moves(p) =>
            /\ keychain # NoKey => keychain' = keychain
            /\ legacy # NoLegacy /\ legacy' = NoLegacy /\ legacy = sight[p]
                  => keychain' = legacy.key]_keyVars
<1> SUFFICES ASSUME KeyInv, KeyNext, NEW p \in Procs, call[p].op = "load", Moves(p)
             PROVE  /\ keychain # NoKey => keychain' = keychain
                    /\ legacy # NoLegacy /\ legacy' = NoLegacy /\ legacy = sight[p]
                          => keychain' = legacy.key
  OBVIOUS
<1>a. call[p] # NoCall /\ \A q \in Procs : q # p => call[q] = NoCall
  BY AloneInCall DEF NoCall
<1>1. keychain # NoKey => keychain' = keychain
  <2> SUFFICES ASSUME keychain # NoKey, keychain' # keychain PROVE FALSE
    OBVIOUS
  <2>1. PICK q \in Procs : SetKeychain(q) \/ KeychainFails(q) \/ DeleteKeychain(q)
    BY DEF KeyNext, BeginCall, LoadLooks, WriterLooks, Recheck, Unlink, Dies, OldVersionSaves
  <2>2. q = p
    BY <1>a, <2>1 DEF SetKeychain, KeychainFails, DeleteKeychain, Doing, NoCall
  <2>3. call[p].at = "set"
    BY <2>1, <2>2 DEF SetKeychain, KeychainFails, DeleteKeychain, Doing, KeyInv, CallsTakeTurns
  <2> QED
    BY <2>3 DEF KeyInv, LoaderKnows
<1>2. ASSUME legacy # NoLegacy, legacy' = NoLegacy, legacy = sight[p] PROVE keychain' = legacy.key
  <2>1. PICK q \in Procs : Unlink(q)
    <3>1. legacy' # legacy
      BY <1>2
    <3>2. ~OldVersionSaves
      BY <1>2, KeyBounds, KeyValues DEF OldVersionSaves, NoLegacy, KeyInv, KeyTypeOK, KeyStored
    <3> QED
      BY <3>1, <3>2 DEF KeyNext, BeginCall, LoadLooks, WriterLooks, SetKeychain, KeychainFails, Recheck,
         DeleteKeychain, Dies
  <2>2. q = p
    BY <1>a, <2>1 DEF Unlink, NoCall
  <2>3. keychain' = keychain /\ keychain = subject[p] /\ legacy.key \in {NoKey, subject[p]}
    BY <1>2, <2>1, <2>2 DEF Unlink, KeyInv, LoaderKnows
  <2>4. legacy.key # NoKey
    BY <1>2, KeyBounds DEF KeyInv, KeyTypeOK, KeyStored, Legacies, NoLegacy
  <2> QED
    BY <2>3, <2>4
<1> QED
  BY <1>1, <1>2

\* What a caller was told of the key holds, and no load breaks it.
THEOREM KeySafeThm == KeySpec => KeySafe
<1>1. KeySpec => []KeyInv
  BY KeyInvInit, KeyInvStep, PTL DEF KeySpec
<1> QED
  BY <1>1, PromiseKeptThm, NotUndoneStep, MigrationStep, PTL
     DEF KeySpec, KeySafe, LoadsAreSafe, DeletionNotUndone, MigrationKeepsKey

---------------------------------------------------------------------------
(* CatalogStore: records, layers and their merge.                          *)

\* A catalog maps some of the models to records.
LEMMA CatalogRecords ==
    ASSUME NEW ms \in Catalogs
    PROVE  /\ DOMAIN ms \subseteq Models /\ ms \in [DOMAIN ms -> Records]
           /\ \A m \in DOMAIN ms : ms[m] \in Records
BY DEF Catalogs

\* Every map from some of the models to records is a catalog.
LEMMA CatalogOf ==
    ASSUME NEW S \in SUBSET Models, NEW f, f \in [S -> Records]
    PROVE  f \in Catalogs /\ DOMAIN f = S
BY DEF Catalogs

\* The evidence in a record under a layer is still a record.
LEMMA ClearedRecord ==
    ASSUME NEW r \in Records, NEW layer \in Layers
    PROVE  /\ Cleared(r, layer) \in Records /\ Cleared(r, layer).public = r.public
           /\ Cleared(r, layer).account = IF layer.replacesAccount THEN None ELSE r.account
           /\ Cleared(r, layer).price = IF layer.replacesPricing THEN NoPrice ELSE r.price
BY DEF Records, Prices, Cleared, NoPrice

\* A merged record takes each kind of evidence from the higher one that has any.
LEMMA MergedRecord ==
    ASSUME NEW lower \in Records, NEW higher \in Records
    PROVE  LET merged == mergeModelRecord(lower, higher)
           IN  /\ merged \in Records
               /\ merged.public = IF higher.public # None THEN higher.public ELSE lower.public
               /\ merged.account = IF higher.account # None THEN higher.account ELSE lower.account
               /\ merged.price = IF higher.price # NoPrice THEN higher.price ELSE lower.price
BY DEF Records, mergeModelRecord, Record

\* What an overlay shows of a model.
LEMMA OverlayShows ==
    ASSUME NEW below \in Catalogs, NEW layer \in Layers
    PROVE  /\ Overlay(below, layer) \in Catalogs
           /\ DOMAIN Overlay(below, layer) = DOMAIN below \cup DOMAIN layer.models
           /\ \A m \in DOMAIN layer.models : m \notin DOMAIN below =>
                  Overlay(below, layer)[m] = layer.models[m]
           /\ \A m \in DOMAIN below : m \notin DOMAIN layer.models =>
                  Overlay(below, layer)[m] = Cleared(below[m], layer)
           /\ \A m \in DOMAIN below \cap DOMAIN layer.models :
                  Overlay(below, layer)[m] = mergeModelRecord(Cleared(below[m], layer), layer.models[m])
<1> DEFINE S == DOMAIN below \cup DOMAIN layer.models
           shown(m) == IF m \notin DOMAIN layer.models THEN Cleared(below[m], layer)
                       ELSE IF m \notin DOMAIN below THEN layer.models[m]
                       ELSE mergeModelRecord(Cleared(below[m], layer), layer.models[m])
<1>1. layer.models \in Catalogs
  BY DEF Layers
<1>2. S \subseteq Models
  BY <1>1, CatalogRecords
<1>3. ASSUME NEW m \in S PROVE shown(m) \in Records
  <2>1. m \in DOMAIN below => Cleared(below[m], layer) \in Records
    BY CatalogRecords, ClearedRecord
  <2>2. m \in DOMAIN layer.models => layer.models[m] \in Records
    BY <1>1, CatalogRecords
  <2> QED
    BY <2>1, <2>2, MergedRecord
<1>4. Overlay(below, layer) = [m \in S |-> shown(m)]
  BY DEF Overlay
<1> HIDE DEF S, shown
<1>5. Overlay(below, layer) \in [S -> Records]
  BY <1>3, <1>4
<1>6. \A m \in S : Overlay(below, layer)[m] = shown(m)
  BY <1>4
<1> QED
  BY <1>2, <1>5, <1>6, CatalogOf DEF S, shown

\* The models with public evidence, and that evidence: of one version of the slice of p, or none.
Publics(ms) == {m \in DOMAIN ms : ms[m].public # None}
OneVersion(p, ms) ==
    \E v \in 1..MaxVersion :
        /\ \A m \in Publics(ms) : ms[m].public = v
        /\ Publics(ms) \in {{}, PublicModels[v][p]}

\* An overlay has the public evidence of its two layers.
LEMMA OverlayPublics ==
    ASSUME NEW below \in Catalogs, NEW layer \in Layers
    PROVE  /\ Publics(Overlay(below, layer)) = Publics(below) \cup Publics(layer.models)
           /\ \A m \in Publics(layer.models) : Overlay(below, layer)[m].public = layer.models[m].public
           /\ \A m \in Publics(below) \ Publics(layer.models) :
                  Overlay(below, layer)[m].public = below[m].public
<1> DEFINE over == Overlay(below, layer)
           top == layer.models
<1>1. DOMAIN over = DOMAIN below \cup DOMAIN top
  BY OverlayShows
<1>2. \A m \in DOMAIN below : below[m] \in Records /\ Cleared(below[m], layer) \in Records
                               /\ Cleared(below[m], layer).public = below[m].public
  BY CatalogRecords, ClearedRecord
<1>3. \A m \in DOMAIN top : top[m] \in Records
  BY CatalogRecords DEF Layers
<1>4. ASSUME NEW m \in DOMAIN top, m \notin DOMAIN below PROVE over[m].public = top[m].public
  BY <1>4, OverlayShows
<1>5. ASSUME NEW m \in DOMAIN below, m \notin DOMAIN top PROVE over[m].public = below[m].public
  BY <1>2, <1>5, OverlayShows
<1>6. ASSUME NEW m \in DOMAIN below, m \in DOMAIN top
      PROVE  over[m].public = IF top[m].public # None THEN top[m].public ELSE below[m].public
  <2>1. over[m] = mergeModelRecord(Cleared(below[m], layer), top[m])
    BY <1>6, OverlayShows
  <2> QED
    BY <1>2, <1>3, <1>6, <2>1, MergedRecord
<1> HIDE DEF over, top
<1>7. Publics(over) = Publics(below) \cup Publics(top)
  BY <1>1, <1>4, <1>5, <1>6 DEF Publics
<1>8. \A m \in Publics(top) : over[m].public = top[m].public
  BY <1>4, <1>6 DEF Publics
<1>9. \A m \in Publics(below) \ Publics(top) : over[m].public = below[m].public
  BY <1>5, <1>6 DEF Publics
<1> QED
  BY <1>7, <1>8, <1>9 DEF over, top

\* Public evidence of one version stays so under and over layers without any.
LEMMA OverlayOneVersion ==
    ASSUME NEW p, NEW below \in Catalogs, NEW layer \in Layers,
           \/ OneVersion(p, below) /\ Publics(layer.models) = {}
           \/ Publics(below) = {} /\ OneVersion(p, layer.models)
    PROVE  OneVersion(p, Overlay(below, layer))
<1> DEFINE over == Overlay(below, layer)
           top == layer.models
<1>1. /\ Publics(over) = Publics(below) \cup Publics(top)
      /\ \A m \in Publics(top) : over[m].public = top[m].public
      /\ \A m \in Publics(below) \ Publics(top) : over[m].public = below[m].public
  BY OverlayPublics
<1>2. \/ OneVersion(p, below) /\ Publics(top) = {}
      \/ Publics(below) = {} /\ OneVersion(p, top)
  OBVIOUS
<1> HIDE DEF over, top
<1>3. OneVersion(p, over)
  BY <1>1, <1>2 DEF OneVersion
<1> QED
  BY <1>3 DEF over

\* A catalog without public evidence is of one version.
LEMMA NoneIsOneVersion ==
    ASSUME NEW p, NEW ms, Publics(ms) = {}
    PROVE  OneVersion(p, ms)
BY CatalogAssumption DEF OneVersion

---------------------------------------------------------------------------
(* CatalogStore: what the layers of a provider are.                        *)

\* The public evidence of a provider is in its cache or in its models.dev layer, and an account's
\* catalog is that of one account.
LayersSound(p, ls) ==
    /\ Publics(ls.vendored.models) = {} /\ Publics(ls.baseten.models) = {}
    /\ \/ OneVersion(p, ls.cache.models) /\ Publics(ls.modelsdev.models) = {}
       \/ Publics(ls.cache.models) = {} /\ OneVersion(p, ls.modelsdev.models)
    /\ ls.baseten # NoLayer => \E a \in Accounts : ls.baseten = basetenProviderCatalog(a)

\* No models are a catalog, and no layer is a layer without evidence.
LEMMA NothingIsLayer ==
    /\ NoModels \in Catalogs /\ DOMAIN NoModels = {} /\ Publics(NoModels) = {}
    /\ NoLayer \in Layers /\ NoLayer.models = NoModels
    /\ ~NoLayer.replacesAccount /\ ~NoLayer.replacesPricing
<1>1. NoModels \in [{} -> Records] /\ {} \in SUBSET Models
  BY DEF NoModels
<1>2. NoModels \in Catalogs /\ DOMAIN NoModels = {}
  BY <1>1, CatalogOf
<1> QED
  BY <1>2 DEF NoLayer, Layers, Publics

\* A stack is a catalog, and of one version if what is below it has no public evidence.
LEMMA StackShows ==
    ASSUME NEW p, NEW bottom \in Catalogs, NEW ls \in ProviderLayers
    PROVE  /\ Stack(bottom, ls) \in Catalogs
           /\ LayersSound(p, ls) /\ Publics(bottom) = {} => OneVersion(p, Stack(bottom, ls))
<1> DEFINE one == Overlay(bottom, ls.cache)
           two == Overlay(one, ls.modelsdev)
           three == Overlay(two, ls.baseten)
<1>1. /\ ls.cache \in Layers /\ ls.modelsdev \in Layers /\ ls.baseten \in Layers
  BY DEF ProviderLayers
<1>2. one \in Catalogs
  BY <1>1, OverlayShows
<1>3. two \in Catalogs
  BY <1>1, <1>2, OverlayShows
<1>4. three \in Catalogs
  BY <1>1, <1>3, OverlayShows
<1>5. Stack(bottom, ls) = three
  BY DEF Stack
<1> HIDE DEF two, three
<1>6. ASSUME LayersSound(p, ls), Publics(bottom) = {} PROVE OneVersion(p, three)
  <2>1. CASE OneVersion(p, ls.cache.models) /\ Publics(ls.modelsdev.models) = {}
    <3>1. OneVersion(p, one)
      BY <1>1, <1>6, <2>1, OverlayOneVersion
    <3> HIDE DEF one
    <3>2. OneVersion(p, two)
      BY <1>1, <1>2, <2>1, <3>1, OverlayOneVersion DEF two
    <3> QED
      BY <1>1, <1>3, <1>6, <3>2, OverlayOneVersion DEF three, LayersSound
  <2>2. CASE Publics(ls.cache.models) = {} /\ OneVersion(p, ls.modelsdev.models)
    <3>1. Publics(one) = {}
      BY <1>1, <1>6, <2>2, OverlayPublics
    <3> HIDE DEF one
    <3>2. OneVersion(p, two)
      BY <1>1, <1>2, <2>2, <3>1, OverlayOneVersion DEF two
    <3> QED
      BY <1>1, <1>3, <1>6, <3>2, OverlayOneVersion DEF three, LayersSound
  <2> QED
    BY <1>6, <2>1, <2>2 DEF LayersSound
<1> QED
  BY <1>4, <1>5, <1>6

\* A layer that replaces an account's evidence exactly if it has any.
ExportTrue(layer) ==
    layer.replacesAccount <=> \E m \in DOMAIN layer.models : layer.models[m].account # None

\* The cache written for a provider is such a layer, with public evidence of one version.
LEMMA ExportShows ==
    ASSUME NEW p, NEW ls \in ProviderLayers, LayersSound(p, ls)
    PROVE  LET exported == ExportProviderCache(ls)
           IN  exported \in Layers /\ ExportTrue(exported) /\ OneVersion(p, exported.models)
<1> DEFINE merged == Stack(NoModels, ls)
<1>1. merged \in Catalogs /\ OneVersion(p, merged)
  BY NothingIsLayer, StackShows
<1>2. /\ ls.cache.replacesPricing \in BOOLEAN /\ ls.modelsdev.replacesPricing \in BOOLEAN
      /\ ls.baseten.replacesPricing \in BOOLEAN
  BY DEF ProviderLayers, Layers
<1>3. ExportProviderCache(ls) =
        [models |-> merged,
         replacesAccount |-> \E m \in DOMAIN merged : merged[m].account # None,
         replacesPricing |-> \/ ls.cache.replacesPricing \/ ls.modelsdev.replacesPricing
                             \/ ls.baseten.replacesPricing]
  BY DEF ExportProviderCache
<1> HIDE DEF merged
<1> QED
  BY <1>1, <1>2, <1>3 DEF Layers, ExportTrue

\* A layer over nothing shows itself, and no layer changes nothing.
LEMMA OverlayNothing ==
    /\ \A layer \in Layers : Overlay(NoModels, layer) = layer.models
    /\ \A ms \in Catalogs : Overlay(ms, NoLayer) = ms
<1>1. ASSUME NEW layer \in Layers PROVE Overlay(NoModels, layer) = layer.models
  <2>1. layer.models \in Catalogs
    BY DEF Layers
  <2>2. layer.models \in [DOMAIN layer.models -> Records]
    BY <2>1, CatalogRecords
  <2>3. /\ Overlay(NoModels, layer) \in Catalogs
        /\ DOMAIN Overlay(NoModels, layer) = DOMAIN layer.models
        /\ \A m \in DOMAIN layer.models : Overlay(NoModels, layer)[m] = layer.models[m]
    BY OverlayShows, NothingIsLayer
  <2>4. Overlay(NoModels, layer) \in [DOMAIN layer.models -> Records]
    BY <2>3, CatalogRecords
  <2> QED
    BY <2>2, <2>3, <2>4
<1>2. ASSUME NEW ms \in Catalogs PROVE Overlay(ms, NoLayer) = ms
  <2>1. ms \in [DOMAIN ms -> Records]
    BY CatalogRecords
  <2>2. /\ Overlay(ms, NoLayer) \in Catalogs
        /\ DOMAIN Overlay(ms, NoLayer) = DOMAIN ms
        /\ \A m \in DOMAIN ms : Overlay(ms, NoLayer)[m] = Cleared(ms[m], NoLayer)
    BY OverlayShows, NothingIsLayer
  <2>3. Overlay(ms, NoLayer) \in [DOMAIN ms -> Records]
    BY <2>2, CatalogRecords
  <2>4. \A m \in DOMAIN ms : Cleared(ms[m], NoLayer) = ms[m]
    <3> SUFFICES ASSUME NEW m \in DOMAIN ms PROVE Cleared(ms[m], NoLayer) = ms[m]
      OBVIOUS
    <3>1. ms[m] \in Records
      BY CatalogRecords
    <3> QED
      BY <3>1, NothingIsLayer DEF Cleared, Records
  <2> QED
    BY <2>1, <2>2, <2>3, <2>4
<1> QED
  BY <1>1, <1>2

---------------------------------------------------------------------------
(* CatalogStore: the layers its sources make.                               *)

\* Where a model came from only is one of the origins.
LEMMA SourceRecords ==
    /\ \A v \in 1..MaxVersion :
          Record("modelsdev", v, None, [source |-> "modelsdev", of |-> v]) \in Records
    /\ \A a \in Accounts : Record("baseten", None, a, [source |-> "baseten", of |-> a]) \in Records
    /\ Record("vendored", None, None, [source |-> "vendored", of |-> None]) \in Records
BY DEF Record, Records, Prices, Origins

\* The layer of a public version.
LEMMA ModelsDevShows ==
    ASSUME NEW p \in Providers, NEW v \in 1..MaxVersion
    PROVE  /\ modelsDevLayer(p, v) \in Layers
           /\ OneVersion(p, modelsDevLayer(p, v).models)
<1> DEFINE ms == [m \in PublicModels[v][p] |->
                    Record("modelsdev", v, None, [source |-> "modelsdev", of |-> v])]
<1>1. PublicModels[v][p] \in SUBSET Models /\ ms \in [PublicModels[v][p] -> Records]
  BY CatalogAssumption, SourceRecords
<1>2. ms \in Catalogs /\ DOMAIN ms = PublicModels[v][p]
  BY <1>1, CatalogOf
<1>3. \A m \in DOMAIN ms : ms[m].public = v
  BY <1>2 DEF Record
<1>4. v # None
  BY CatalogAssumption
<1>5. Publics(ms) = PublicModels[v][p]
  BY <1>2, <1>3, <1>4 DEF Publics
<1>6. OneVersion(p, ms)
  BY <1>2, <1>3, <1>5 DEF OneVersion, Publics
<1>7. modelsDevLayer(p, v) = [NoLayer EXCEPT !.models = ms]
  BY DEF modelsDevLayer
<1> HIDE DEF ms
<1> QED
  BY <1>2, <1>6, <1>7, NothingIsLayer DEF Layers

\* The layer of an account's catalog.
LEMMA AccountShows ==
    ASSUME NEW a \in Accounts
    PROVE  /\ basetenProviderCatalog(a) \in Layers
           /\ Publics(basetenProviderCatalog(a).models) = {}
           /\ basetenProviderCatalog(a).replacesAccount /\ basetenProviderCatalog(a).replacesPricing
           /\ DOMAIN basetenProviderCatalog(a).models = AccountModels[a]
           /\ \A m \in AccountModels[a] :
                 basetenProviderCatalog(a).models[m] =
                     Record("baseten", None, a, [source |-> "baseten", of |-> a])
<1> DEFINE ms == [m \in AccountModels[a] |->
                    Record("baseten", None, a, [source |-> "baseten", of |-> a])]
<1>1. AccountModels[a] \in SUBSET Models /\ ms \in [AccountModels[a] -> Records]
  BY CatalogAssumption, SourceRecords
<1>2. ms \in Catalogs /\ DOMAIN ms = AccountModels[a]
  BY <1>1, CatalogOf
<1>3. \A m \in DOMAIN ms : ms[m] = Record("baseten", None, a, [source |-> "baseten", of |-> a])
  BY <1>2
<1>4. Publics(ms) = {}
  BY <1>3 DEF Publics, Record
<1>5. basetenProviderCatalog(a) = [models |-> ms, replacesAccount |-> TRUE, replacesPricing |-> TRUE]
  BY DEF basetenProviderCatalog
<1> HIDE DEF ms
<1> QED
  BY <1>2, <1>3, <1>4, <1>5 DEF Layers

\* The layer built into the program.
LEMMA VendoredShows ==
    ASSUME NEW p
    PROVE  VendoredLayer(p) \in Layers /\ Publics(VendoredLayer(p).models) = {}
<1> DEFINE S == IF p = Baseten THEN VendoredModels ELSE {}
           ms == [m \in S |-> Record("vendored", None, None, [source |-> "vendored", of |-> None])]
<1>1. S \in SUBSET Models /\ ms \in [S -> Records]
  BY CatalogAssumption, SourceRecords
<1>2. ms \in Catalogs /\ DOMAIN ms = S
  BY <1>1, CatalogOf
<1>3. Publics(ms) = {}
  BY <1>2 DEF Publics, Record
<1>4. VendoredLayer(p) = [NoLayer EXCEPT !.models = ms]
  BY DEF VendoredLayer
<1> HIDE DEF ms
<1> QED
  BY <1>2, <1>3, <1>4, NothingIsLayer DEF Layers

\* A cache without what came from models.dev has no public evidence.
LEMMA WithoutShows ==
    ASSUME NEW layer \in Layers
    PROVE  /\ withoutCachedModelsDev(layer) \in Layers
           /\ Publics(withoutCachedModelsDev(layer).models) = {}
<1> DEFINE kept == {m \in DOMAIN layer.models : layer.models[m].source # "modelsdev"}
           ms == [m \in kept |-> WithoutPublic(layer.models[m])]
<1>1. layer.models \in Catalogs
  BY DEF Layers
<1>2. \A m \in kept : WithoutPublic(layer.models[m]) \in Records /\ WithoutPublic(layer.models[m]).public = None
  <2> SUFFICES ASSUME NEW m \in kept
               PROVE  /\ WithoutPublic(layer.models[m]) \in Records
                      /\ WithoutPublic(layer.models[m]).public = None
    OBVIOUS
  <2>1. layer.models[m] \in Records
    BY <1>1, CatalogRecords
  <2> QED
    BY <2>1 DEF WithoutPublic, Record, Records, Prices, NoPrice
<1>3. kept \in SUBSET Models /\ ms \in [kept -> Records]
  BY <1>1, <1>2, CatalogRecords
<1>4. ms \in Catalogs /\ DOMAIN ms = kept
  BY <1>3, CatalogOf
<1>5. Publics(ms) = {}
  BY <1>2, <1>4 DEF Publics
<1>6. withoutCachedModelsDev(layer) = IF kept = {} THEN NoLayer ELSE [layer EXCEPT !.models = ms]
  BY DEF withoutCachedModelsDev
<1> HIDE DEF ms, kept
<1> QED
  BY <1>4, <1>5, <1>6, NothingIsLayer DEF Layers

\* The layers of a process that starts with a cache.
LEMMA ImportShows ==
    ASSUME NEW p \in Providers, ContentType, OneVersion(p, cacheFile[p].models)
    PROVE  Imported(p) \in ProviderLayers /\ LayersSound(p, Imported(p))
<1>1. cacheFile[p] \in Layers
  BY DEF ContentType
<1> QED
  BY <1>1, NothingIsLayer, VendoredShows DEF Imported, ProviderLayers, LayersSound

\* A cache that was exported is exported again as it is by the process that imports it.
LEMMA ImportExports ==
    ASSUME NEW p \in Providers, ContentType, ExportTrue(cacheFile[p])
    PROVE  ExportProviderCache(Imported(p)) = cacheFile[p]
<1>1. cacheFile[p] \in Layers /\ cacheFile[p].models \in Catalogs
  BY DEF ContentType, Layers
<1>2. Stack(NoModels, Imported(p)) = cacheFile[p].models
  BY <1>1, OverlayNothing DEF Stack, Imported
<1>3. ExportProviderCache(Imported(p)) =
        [models |-> cacheFile[p].models,
         replacesAccount |-> \E m \in DOMAIN cacheFile[p].models : cacheFile[p].models[m].account # None,
         replacesPricing |-> cacheFile[p].replacesPricing]
  BY <1>1, <1>2, NothingIsLayer DEF ExportProviderCache, Imported, Layers
<1> QED
  BY <1>1, <1>3 DEF Layers, ExportTrue

---------------------------------------------------------------------------
(* CatalogStore: the invariant.                                             *)

\* What is shown, kept and about to be written is sound.
ContentSound ==
    /\ \A p \in Providers : LayersSound(p, layers[p])
    /\ \A p \in Providers : OneVersion(p, cacheFile[p].models) /\ ExportTrue(cacheFile[p])
    /\ saving.at = "write" => \A p \in Providers : LayersSound(p, saving.snapshot[p])

\* A switch of the account is followed by an attempt.
KickKept == kick \/ basetenLoop.at = "start" \/ triedFor = account

\* The cache file of a provider is what its layers export, if that is anything.
Filed(p, ls) ==
    ExportProviderCache(ls).models # NoModels => cacheFile[p] = ExportProviderCache(ls)
SaveDue == basetenLoop.at = "save" \/ publicLoop.at = "save"

\* A save has filed every provider it has left behind, of a snapshot that is current or will be
\* saved again; without a save the files are current, or the last one failed.
FilesFollow ==
    /\ saving.at = "write" =>
          /\ \A p \in Providers : p \in Range(saving.left) \/ Filed(p, saving.snapshot[p])
          /\ saving.snapshot = layers \/ SaveDue
    /\ saving.at # "write" /\ ~SaveDue /\ ~lost => \A p \in Providers : Filed(p, layers[p])

CatalogInv == CatalogTypeOK /\ ContentSound /\ KickKept /\ FilesFollow

\* The layers a process starts with are typed, sound and filed.
LEMMA BootShows ==
    ASSUME ContentType,
           \A p \in Providers : OneVersion(p, cacheFile[p].models) /\ ExportTrue(cacheFile[p])
    PROVE  LET booted == [p \in Providers |-> Imported(p)]
           IN  /\ booted \in Snapshots
               /\ \A p \in Providers : LayersSound(p, booted[p]) /\ Filed(p, booted[p])
<1>1. \A p \in Providers : Imported(p) \in ProviderLayers /\ LayersSound(p, Imported(p))
  BY ImportShows
<1>2. \A p \in Providers : Filed(p, Imported(p))
  BY ImportExports DEF Filed
<1> QED
  BY <1>1, <1>2 DEF Snapshots

\* The store starts with the models built into the program and nothing on disk.
LEMMA CatalogInvInit == CatalogInit => CatalogInv
<1> SUFFICES ASSUME CatalogInit PROVE CatalogInv
  OBVIOUS
<1>1. /\ published = 1 /\ account \in Accounts /\ cacheFile = [p \in Providers |-> NoLayer]
      /\ layers = [p \in Providers |-> Imported(p)]
      /\ kick = FALSE /\ triedFor = None /\ basetenLoop = [at |-> "start"] /\ publicLoop = [at |-> "start"]
      /\ saving = LoopIdle /\ lost = FALSE /\ catalogFaults = 0
  BY DEF CatalogInit
<1>2. \A p \in Providers : cacheFile[p] = NoLayer
  BY <1>1
<1>3. \A p \in Providers : OneVersion(p, cacheFile[p].models) /\ ExportTrue(cacheFile[p])
  BY <1>2, NothingIsLayer, NoneIsOneVersion DEF ExportTrue
<1>4. \A p \in Providers : Imported(p) \in ProviderLayers /\ LayersSound(p, Imported(p))
  <2> SUFFICES ASSUME NEW p \in Providers
               PROVE  Imported(p) \in ProviderLayers /\ LayersSound(p, Imported(p))
    OBVIOUS
  <2> QED
    BY <1>2, <1>3, NothingIsLayer, VendoredShows DEF Imported, ProviderLayers, LayersSound
<1>5. ContentType
  BY <1>1, <1>4, NothingIsLayer DEF ContentType, Snapshots
<1>6. \A p \in Providers : LayersSound(p, layers[p]) /\ Filed(p, layers[p])
  BY <1>1, <1>3, <1>5, BootShows
<1>7. CatalogTypeOK
  <2>1. SourceType
    BY <1>1, CatalogAssumption DEF SourceType
  <2>4. FlagType
    <3>1. kick \in BOOLEAN /\ lost \in BOOLEAN
      BY <1>1
    <3>2. triedFor \in Accounts \cup {None} /\ catalogFaults \in 0..MaxCatalogFaults
      BY <1>1, CatalogAssumption
    <3> QED
      BY <3>1, <3>2 DEF FlagType
  <2>2. LoopType
    BY <1>1 DEF LoopType
  <2>3. SavingType
    BY <1>1 DEF SavingType
  <2> QED
    BY <1>5, <2>1, <2>2, <2>3, <2>4 DEF CatalogTypeOK
<1>8. saving.at # "write"
  BY <1>1 DEF LoopIdle
<1> QED
  BY <1>1, <1>3, <1>6, <1>7, <1>8 DEF CatalogInv, ContentSound, KickKept, FilesFollow

\* The layers after a catalog was fetched are typed and sound.
LEMMA FetchedBaseten ==
    ASSUME CatalogInv, ReplaceBasetenCatalog
    PROVE  layers' \in Snapshots /\ \A p \in Providers : LayersSound(p, layers'[p])
<1>1. basetenLoop.of \in Accounts /\ layers \in Snapshots
  BY DEF CatalogInv, CatalogTypeOK, LoopType, ContentType, ReplaceBasetenCatalog
<1>2. PICK a \in Accounts : layers' = [layers EXCEPT ![Baseten].baseten = basetenProviderCatalog(a)]
  BY <1>1 DEF ReplaceBasetenCatalog
<1>3. Baseten \in Providers
  BY CatalogAssumption
<1>4. ASSUME NEW ls \in ProviderLayers
      PROVE  [ls EXCEPT !.baseten = basetenProviderCatalog(a)] \in ProviderLayers
  BY AccountShows DEF ProviderLayers
<1>5. layers' = [layers EXCEPT ![Baseten] = [layers[Baseten] EXCEPT !.baseten = basetenProviderCatalog(a)]]
  BY <1>1, <1>2, <1>3 DEF Snapshots
<1>6. layers' \in Snapshots
  BY <1>1, <1>3, <1>4, <1>5 DEF Snapshots
<1>7. ASSUME NEW p \in Providers PROVE LayersSound(p, layers'[p])
  <2>1. LayersSound(p, layers[p]) /\ layers[p] \in ProviderLayers
    BY <1>1 DEF CatalogInv, ContentSound, Snapshots
  <2>2. CASE p # Baseten
    <3>1. layers'[p] = layers[p]
      BY <1>1, <1>3, <1>5, <2>2 DEF Snapshots
    <3> QED
      BY <2>1, <3>1
  <2>3. CASE p = Baseten
    <3>1. layers'[p] = [layers[p] EXCEPT !.baseten = basetenProviderCatalog(a)]
      BY <1>1, <1>3, <1>5, <2>3 DEF Snapshots
    <3>2. /\ layers'[p].baseten = basetenProviderCatalog(a)
          /\ layers'[p].vendored = layers[p].vendored /\ layers'[p].cache = layers[p].cache
          /\ layers'[p].modelsdev = layers[p].modelsdev
      BY <2>1, <3>1 DEF ProviderLayers
    <3> QED
      BY <2>1, <3>2, AccountShows DEF LayersSound
  <2> QED
    BY <2>2, <2>3
<1> QED
  BY <1>6, <1>7

\* The same for the public catalog.
LEMMA FetchedPublic ==
    ASSUME CatalogInv, ReplaceModelsDev
    PROVE  layers' \in Snapshots /\ \A p \in Providers : LayersSound(p, layers'[p])
<1>1. publicLoop.version \in 1..MaxVersion /\ layers \in Snapshots
  BY DEF CatalogInv, CatalogTypeOK, LoopType, ContentType, ReplaceModelsDev
<1>2. PICK v \in 1..MaxVersion :
          layers' = [p \in Providers |->
                       [layers[p] EXCEPT !.cache = withoutCachedModelsDev(@),
                                         !.modelsdev = modelsDevLayer(p, v)]]
  BY <1>1 DEF ReplaceModelsDev
<1>3. ASSUME NEW p \in Providers PROVE layers'[p] \in ProviderLayers /\ LayersSound(p, layers'[p])
  <2>1. LayersSound(p, layers[p]) /\ layers[p] \in ProviderLayers
    BY <1>1 DEF CatalogInv, ContentSound, Snapshots
  <2>2. layers'[p] = [layers[p] EXCEPT !.cache = withoutCachedModelsDev(layers[p].cache),
                                       !.modelsdev = modelsDevLayer(p, v)]
    BY <1>2
  <2>3. layers[p].cache \in Layers
    BY <2>1 DEF ProviderLayers
  <2>4. /\ layers'[p] \in ProviderLayers
        /\ layers'[p].cache = withoutCachedModelsDev(layers[p].cache)
        /\ layers'[p].modelsdev = modelsDevLayer(p, v)
        /\ layers'[p].vendored = layers[p].vendored /\ layers'[p].baseten = layers[p].baseten
    BY <2>1, <2>2, <2>3, WithoutShows, ModelsDevShows DEF ProviderLayers
  <2> QED
    BY <2>1, <2>3, <2>4, WithoutShows, ModelsDevShows DEF LayersSound
<1>4. DOMAIN layers' = Providers /\ layers' = [p \in Providers |-> layers'[p]]
  BY <1>2
<1> QED
  BY <1>3, <1>4 DEF Snapshots

\* The cache a save writes is typed, sound and files the provider it is written for.
LEMMA Written ==
    ASSUME CatalogInv, WriteCache
    PROVE  /\ cacheFile' \in [Providers -> Layers]
           /\ \A p \in Providers : OneVersion(p, cacheFile'[p].models) /\ ExportTrue(cacheFile'[p])
           /\ \A p \in Providers : p \in Range(saving'.left) \/ Filed(p, saving.snapshot[p])'
           /\ saving' \in [at : {"write"}, loop : {"baseten", "public"},
                            snapshot : Snapshots, left : Seq(Providers)]
           /\ saving'.loop = saving.loop /\ saving'.snapshot = saving.snapshot
<1>1. /\ saving \in [at : {"write"}, loop : {"baseten", "public"}, snapshot : Snapshots, left : Seq(Providers)]
      /\ saving.left # << >>
  BY DEF CatalogInv, CatalogTypeOK, SavingType, WriteCache, LoopIdle
<1>0. /\ Head(saving.left) \in Providers /\ Tail(saving.left) \in Seq(Providers)
      /\ \A p \in Range(saving.left) : p = Head(saving.left) \/ p \in Range(Tail(saving.left))
  <2> DEFINE s == saving.left
  <2>1. s \in Seq(Providers) /\ s # << >>
    BY <1>1
  <2> HIDE DEF s
  <2>2. Head(s) \in Providers /\ Tail(s) \in Seq(Providers)
    BY <2>1
  <2>3. ASSUME NEW p \in Range(s) PROVE p = Head(s) \/ p \in Range(Tail(s))
    <3>1. PICK i \in 1..Len(s) : p = s[i]
      BY <2>1 DEF Range
    <3>2. CASE i = 1
      BY <2>1, <3>1, <3>2
    <3>3. CASE i # 1
      <4>1. i - 1 \in 1..Len(Tail(s)) /\ Tail(s)[i - 1] = s[i]
        BY <2>1, <3>1, <3>3
      <4> QED
        BY <2>2, <3>1, <4>1, DOMAIN Tail(s) = 1..Len(Tail(s)) DEF Range
    <3> QED
      BY <3>2, <3>3
  <2> QED
    BY <2>2, <2>3 DEF s
<1>2. PICK q \in Providers :
          q = Head(saving.left) /\ \A p \in Range(saving.left) : p = q \/ p \in Range(Tail(saving.left))
  BY <1>0
<1> DEFINE exported == ExportProviderCache(saving.snapshot[q])
<1>3. saving.snapshot[q] \in ProviderLayers /\ LayersSound(q, saving.snapshot[q])
  BY <1>1, <1>2 DEF CatalogInv, ContentSound, Snapshots
<1>4. exported \in Layers /\ ExportTrue(exported) /\ OneVersion(q, exported.models)
  BY <1>2, <1>3, ExportShows
<1>5. /\ saving' = [saving EXCEPT !.left = Tail(saving.left)]
      /\ cacheFile' = IF exported.models = NoModels THEN cacheFile ELSE [cacheFile EXCEPT ![q] = exported]
  BY <1>2 DEF WriteCache, AfterFile
<1>6. cacheFile \in [Providers -> Layers]
  BY DEF CatalogInv, CatalogTypeOK, ContentType
<1>7. /\ saving' \in [at : {"write"}, loop : {"baseten", "public"}, snapshot : Snapshots, left : Seq(Providers)]
      /\ saving'.loop = saving.loop /\ saving'.snapshot = saving.snapshot
      /\ saving'.left = Tail(saving.left)
  BY <1>0, <1>1, <1>5
<1>8. Filed(q, saving.snapshot[q])'
  <2>1. exported.models # NoModels => cacheFile'[q] = exported
    BY <1>2, <1>5, <1>6
  <2>2. saving'.snapshot[q] = saving.snapshot[q]
    BY <1>7
  <2> QED
    BY <2>1, <2>2 DEF Filed
<1>9. \A p \in Providers : p # q => cacheFile'[p] = cacheFile[p]
  BY <1>2, <1>5, <1>6
<1> HIDE DEF exported
<1>10. cacheFile'[q] \in {cacheFile[q], exported}
  BY <1>2, <1>5, <1>6
<1>11. cacheFile' \in [Providers -> Layers]
  BY <1>2, <1>4, <1>5, <1>6
<1>12. \A p \in Providers : OneVersion(p, cacheFile[p].models) /\ ExportTrue(cacheFile[p])
  BY DEF CatalogInv, ContentSound
<1>13. \A p \in Providers : OneVersion(p, cacheFile'[p].models) /\ ExportTrue(cacheFile'[p])
  BY <1>2, <1>4, <1>9, <1>10, <1>12
<1>14. ASSUME NEW p \in Providers
       PROVE  p \in Range(saving'.left) \/ Filed(p, saving.snapshot[p])'
  <2>1. p \in Range(saving.left) \/ Filed(p, saving.snapshot[p])
    BY <1>1 DEF CatalogInv, FilesFollow
  <2>2. CASE p = q
    BY <1>8, <2>2
  <2>3. CASE p # q /\ p \in Range(saving.left)
    BY <1>2, <1>7, <2>3
  <2>4. CASE p # q /\ Filed(p, saving.snapshot[p])
    <3>1. cacheFile'[p] = cacheFile[p] /\ saving'.snapshot[p] = saving.snapshot[p]
      BY <1>7, <1>9, <2>4
    <3> QED
      BY <2>4, <3>1 DEF Filed
  <2> QED
    BY <2>1, <2>2, <2>3, <2>4
<1> QED
  BY <1>7, <1>11, <1>13, <1>14

\* A step of the loops and of what they write keeps the types.
LEMMA CatalogTypeStep == CatalogInv /\ [CatalogNext]_catalogVars => CatalogTypeOK'
<1> SUFFICES ASSUME CatalogInv, [CatalogNext]_catalogVars PROVE CatalogTypeOK'
  OBVIOUS
<1>t. SourceType /\ ContentType /\ LoopType /\ SavingType /\ FlagType
  BY DEF CatalogInv, CatalogTypeOK
<1>1. SourceType'
  <2>1. CASE CredentialSwitches
    BY <1>t, <2>1 DEF SourceType, CredentialSwitches
  <2>2. CASE PublicCatalogChanges
    BY <1>t, <2>2, CatalogAssumption DEF SourceType, PublicCatalogChanges
  <2>3. CASE UNCHANGED <<published, account>>
    BY <1>t, <2>3 DEF SourceType
  <2> QED
    BY <2>1, <2>2, <2>3 DEF CatalogNext, catalogVars, BasetenAsks, ReplaceBasetenCatalog, CatalogFails,
       PublicAsks, ReplaceModelsDev, RevalidateModelsDev, PublicFails, BasetenSaves, PublicSaves, Capture,
       WriteCache, Saved, SaveFails, CatalogCrash
<1>2. ContentType'
  <2>1. CASE ReplaceBasetenCatalog
    BY <1>t, <2>1, FetchedBaseten DEF ReplaceBasetenCatalog, ContentType
  <2>2. CASE ReplaceModelsDev
    BY <1>t, <2>2, FetchedPublic DEF ReplaceModelsDev, ContentType
  <2>3. CASE WriteCache
    BY <1>t, <2>3, Written DEF WriteCache, ContentType
  <2>4. CASE CatalogCrash
    BY <1>t, <2>4, BootShows DEF CatalogCrash, Boot, ContentType, CatalogInv, ContentSound
  <2>5. CASE UNCHANGED <<layers, cacheFile>>
    BY <1>t, <2>5 DEF ContentType
  <2> QED
    BY <2>1, <2>2, <2>3, <2>4, <2>5 DEF CatalogNext, catalogVars, BasetenAsks, CatalogFails, PublicAsks,
       RevalidateModelsDev, PublicFails, BasetenSaves, PublicSaves, Capture, Saved, SaveFails,
       CredentialSwitches, PublicCatalogChanges
<1>3. LoopType'
  <2>1. CASE BasetenAsks
    BY <1>t, <2>1 DEF BasetenAsks, LoopType, SourceType
  <2>2. CASE PublicAsks
    <3>1. (ModelsDevRootETag = published) \in BOOLEAN
      OBVIOUS
    <3> QED
      BY <1>t, <2>2, <3>1 DEF PublicAsks, LoopType, SourceType
  <2>3. CASE ReplaceBasetenCatalog \/ CatalogFails \/ BasetenSaves
    BY <1>t, <2>3 DEF ReplaceBasetenCatalog, CatalogFails, BasetenSaves, Capture, LoopIdle, LoopType
  <2>4. CASE ReplaceModelsDev \/ PublicFails \/ PublicSaves
    <3>1. publicLoop' = [at |-> "save"] \/ publicLoop' = [at |-> "idle"] \/ publicLoop' = [at |-> "saving"]
      BY <2>4 DEF ReplaceModelsDev, PublicFails, PublicSaves, LoopIdle
    <3>2. UNCHANGED basetenLoop
      BY <2>4 DEF ReplaceModelsDev, PublicFails, PublicSaves, Capture
    <3> QED
      BY <1>t, <3>1, <3>2 DEF LoopType
  <2>5. CASE RevalidateModelsDev
    BY <1>t, <2>5 DEF RevalidateModelsDev, LoopType
  <2>6. CASE Saved \/ SaveFails
    BY <1>t, <2>6 DEF Saved, SaveFails, Release, LoopIdle, LoopType
  <2>7. CASE CatalogCrash
    BY <2>7 DEF CatalogCrash, Boot, LoopType
  <2>8. CASE UNCHANGED <<basetenLoop, publicLoop>>
    BY <1>t, <2>8 DEF LoopType
  <2> QED
    BY <2>1, <2>2, <2>3, <2>4, <2>5, <2>6, <2>7, <2>8 DEF CatalogNext, catalogVars, WriteCache,
       CredentialSwitches, PublicCatalogChanges
<1>4. SavingType'
  <2>1. CASE BasetenSaves
    <3>1. layers \in Snapshots /\ Order \in Seq(Providers)
      BY <1>t, CatalogAssumption DEF ContentType, Providers
    <3> QED
      BY <2>1, <3>1 DEF BasetenSaves, Capture, SavingType
  <2>2. CASE PublicSaves
    <3>1. layers \in Snapshots /\ Order \in Seq(Providers)
      BY <1>t, CatalogAssumption DEF ContentType, Providers
    <3> QED
      BY <2>2, <3>1 DEF PublicSaves, Capture, SavingType
  <2>3. CASE WriteCache
    <3>1. saving # LoopIdle
      BY <2>3 DEF WriteCache, LoopIdle
    <3> QED
      BY <1>t, <2>3, <3>1, Written DEF WriteCache, SavingType
  <2>4. CASE Saved \/ SaveFails
    BY <2>4 DEF Saved, SaveFails, Release, SavingType
  <2>5. CASE CatalogCrash
    BY <2>5 DEF CatalogCrash, Boot, SavingType
  <2>6. CASE /\ UNCHANGED saving
             /\ basetenLoop.at # "saving" \/ UNCHANGED basetenLoop
             /\ publicLoop.at # "saving" \/ UNCHANGED publicLoop
    BY <1>t, <2>6 DEF SavingType
  <2> QED
    BY <2>1, <2>2, <2>3, <2>4, <2>5, <2>6 DEF CatalogNext, catalogVars, BasetenAsks, ReplaceBasetenCatalog,
       CatalogFails, PublicAsks, ReplaceModelsDev, RevalidateModelsDev, PublicFails, CredentialSwitches,
       PublicCatalogChanges
<1>5. FlagType'
  <2>1. triedFor' \in Accounts \cup {None}
    BY <1>t DEF SourceType, FlagType, CatalogNext, catalogVars, BasetenAsks, ReplaceBasetenCatalog,
     CatalogFails, PublicAsks, ReplaceModelsDev, RevalidateModelsDev, PublicFails, BasetenSaves, PublicSaves,
     Capture, WriteCache, Saved, SaveFails, CredentialSwitches, PublicCatalogChanges, CatalogCrash, Boot
  <2>2. kick' \in BOOLEAN /\ lost' \in BOOLEAN
    BY <1>t DEF FlagType, CatalogNext, catalogVars, BasetenAsks, ReplaceBasetenCatalog, Kicked,
     CatalogFails, PublicAsks, ReplaceModelsDev, RevalidateModelsDev, PublicFails, BasetenSaves, PublicSaves,
     Capture, WriteCache, Saved, SaveFails, CredentialSwitches, PublicCatalogChanges, CatalogCrash, Boot
  <2>3. catalogFaults' \in 0..MaxCatalogFaults
    <3>1. CatalogFault \/ UNCHANGED catalogFaults
      BY DEF CatalogNext, catalogVars, BasetenAsks, ReplaceBasetenCatalog, CatalogFails, PublicAsks,
         ReplaceModelsDev, RevalidateModelsDev, PublicFails, BasetenSaves, PublicSaves, Capture, WriteCache,
         Saved, SaveFails, CredentialSwitches, PublicCatalogChanges, CatalogCrash
    <3> QED
      BY <1>t, <3>1, CatalogAssumption DEF FlagType, CatalogFault
  <2> QED
    BY <2>1, <2>2, <2>3 DEF FlagType
<1> QED
  BY <1>1, <1>2, <1>3, <1>4, <1>5 DEF CatalogTypeOK

\* A step keeps what is shown, kept and about to be written sound.
LEMMA ContentStep == CatalogInv /\ [CatalogNext]_catalogVars => ContentSound'
<1> SUFFICES ASSUME CatalogInv, [CatalogNext]_catalogVars PROVE ContentSound'
  OBVIOUS
<1>t. ContentSound /\ ContentType
  BY DEF CatalogInv, CatalogTypeOK
<1>1. CASE ReplaceBasetenCatalog
  BY <1>1, <1>t, FetchedBaseten DEF ReplaceBasetenCatalog, ContentSound, ExportTrue
<1>2. CASE ReplaceModelsDev
  BY <1>2, <1>t, FetchedPublic DEF ReplaceModelsDev, ContentSound, ExportTrue
<1>3. CASE WriteCache
  <2>1. UNCHANGED layers /\ saving.at = "write"
    BY <1>3 DEF WriteCache
  <2> QED
    BY <1>3, <1>t, <2>1, Written DEF ContentSound
<1>4. CASE CatalogCrash
  <2>1. layers' = [p \in Providers |-> Imported(p)] /\ UNCHANGED cacheFile /\ saving' = LoopIdle
    BY <1>4 DEF CatalogCrash, Boot
  <2> QED
    BY <1>t, <2>1, BootShows DEF ContentSound, ExportTrue, LoopIdle
<1>5. CASE UNCHANGED <<layers, cacheFile>> /\ (saving' = LoopIdle \/ UNCHANGED saving \/ saving'.snapshot = layers)
  BY <1>5, <1>t DEF ContentSound, ExportTrue, LoopIdle
<1> QED
  BY <1>1, <1>2, <1>3, <1>4, <1>5 DEF CatalogNext, catalogVars, BasetenAsks, CatalogFails, PublicAsks,
     RevalidateModelsDev, PublicFails, BasetenSaves, PublicSaves, Capture, Saved, SaveFails, Release,
     CredentialSwitches, PublicCatalogChanges

\* A step that switches the account kicks the loop, and only an attempt takes the kick.
LEMMA KickStep == CatalogInv /\ [CatalogNext]_catalogVars => KickKept'
<1> SUFFICES ASSUME CatalogInv, [CatalogNext]_catalogVars PROVE KickKept'
  OBVIOUS
<1>t. KickKept /\ SavingType
  BY DEF CatalogInv, CatalogTypeOK
<1>1. CASE BasetenAsks
  BY <1>1 DEF BasetenAsks, KickKept
<1>2. CASE CredentialSwitches
  BY <1>2 DEF CredentialSwitches, Kicked, KickKept
<1>3. CASE CatalogCrash
  BY <1>3 DEF CatalogCrash, Boot, KickKept
<1>4. CASE UNCHANGED <<kick, triedFor, account>> /\ (basetenLoop.at # "start" \/ UNCHANGED basetenLoop)
  BY <1>4, <1>t DEF KickKept
<1>5. CASE Saved \/ SaveFails
  <2>1. basetenLoop.at # "start" \/ UNCHANGED basetenLoop
    BY <1>5, <1>t DEF Saved, SaveFails, Release, SavingType, LoopIdle
  <2>2. UNCHANGED <<kick, triedFor, account>>
    BY <1>5 DEF Saved, SaveFails
  <2> QED
    BY <1>4, <2>1, <2>2
<1> QED
  BY <1>1, <1>2, <1>3, <1>4, <1>5 DEF CatalogNext, catalogVars, ReplaceBasetenCatalog, CatalogFails,
     PublicAsks, ReplaceModelsDev, RevalidateModelsDev, PublicFails, BasetenSaves, PublicSaves,
     Capture, WriteCache, PublicCatalogChanges

\* A step keeps the files current, or a save due.
LEMMA FilesStep == CatalogInv /\ [CatalogNext]_catalogVars => FilesFollow'
<1> SUFFICES ASSUME CatalogInv, [CatalogNext]_catalogVars PROVE FilesFollow'
  OBVIOUS
<1>t. FilesFollow /\ LoopType /\ SavingType /\ ContentType /\ ContentSound
  BY DEF CatalogInv, CatalogTypeOK
<1>1. CASE ReplaceBasetenCatalog \/ ReplaceModelsDev
  <2>1. UNCHANGED <<cacheFile, saving>> /\ SaveDue'
    <3>1. UNCHANGED <<cacheFile, saving>>
      BY <1>1 DEF ReplaceBasetenCatalog, ReplaceModelsDev
    <3>2. basetenLoop' = [at |-> "save"] \/ publicLoop' = [at |-> "save"]
      BY <1>1 DEF ReplaceBasetenCatalog, ReplaceModelsDev
    <3> QED
      BY <3>1, <3>2 DEF SaveDue
  <2> QED
    BY <1>t, <2>1 DEF FilesFollow, Filed
<1>2. CASE BasetenSaves \/ PublicSaves
  <2>1. /\ saving'.at = "write" /\ saving'.snapshot = layers /\ saving'.left = Order
        /\ UNCHANGED <<layers, cacheFile>>
    BY <1>2 DEF BasetenSaves, PublicSaves, Capture
  <2>2. \A p \in Providers : p \in Range(Order)
    BY DEF Providers
  <2> QED
    BY <2>1, <2>2 DEF FilesFollow
<1>3. CASE WriteCache
  <2>1. UNCHANGED <<layers, basetenLoop, publicLoop>> /\ saving.at = "write" /\ saving'.at = "write"
    BY <1>3, Written DEF WriteCache
  <2>2. saving'.snapshot = layers' \/ SaveDue'
    BY <1>3, <1>t, <2>1, Written DEF FilesFollow, SaveDue
  <2> QED
    BY <1>3, <2>1, <2>2, Written DEF FilesFollow, Filed
<1>4. CASE Saved
  <2>1. /\ saving.at = "write" /\ saving.left = << >> /\ saving' = LoopIdle
        /\ UNCHANGED <<layers, cacheFile>>
    BY <1>4 DEF Saved, Release
  <2>2. \A p \in Providers : Filed(p, saving.snapshot[p])
    BY <1>t, <2>1 DEF FilesFollow, Range
  <2>3. saving.snapshot = layers \/ SaveDue'
    BY <1>4, <1>t, <2>1 DEF FilesFollow, SaveDue, SavingType, LoopIdle, Saved, Release
  <2>4. saving.snapshot = layers => \A p \in Providers : Filed(p, layers[p])'
    BY <2>1, <2>2 DEF Filed
  <2> QED
    BY <2>1, <2>3, <2>4 DEF FilesFollow, LoopIdle
<1>5. CASE SaveFails
  BY <1>5 DEF SaveFails, Release, LoopIdle, FilesFollow
<1>6. CASE CatalogCrash
  <2>1. layers' = [p \in Providers |-> Imported(p)] /\ UNCHANGED cacheFile /\ saving' = LoopIdle
    BY <1>6 DEF CatalogCrash, Boot
  <2>2. \A p \in Providers : Filed(p, layers[p])'
    BY <1>t, <2>1, BootShows DEF ContentSound, Filed
  <2> QED
    BY <2>1, <2>2 DEF FilesFollow, LoopIdle
<1>7. CASE /\ UNCHANGED <<layers, cacheFile, saving, lost>>
           /\ SaveDue => SaveDue'
  BY <1>7, <1>t DEF FilesFollow, Filed
<1> QED
  BY <1>1, <1>2, <1>3, <1>4, <1>5, <1>6, <1>7 DEF CatalogNext, catalogVars, SaveDue, BasetenAsks, CatalogFails,
     PublicAsks, RevalidateModelsDev, PublicFails, CredentialSwitches, PublicCatalogChanges

\* Each step of the store keeps its invariant.
LEMMA CatalogInvStep == CatalogInv /\ [CatalogNext]_catalogVars => CatalogInv'
BY CatalogTypeStep, ContentStep, KickStep, FilesStep DEF CatalogInv

---------------------------------------------------------------------------
(* CatalogStore: what the invariant says.                                   *)

\* A validator that is sent names the version every slice shows.
LEMMA RootETagShows == CatalogInv => RootETagTrue
<1> SUFFICES ASSUME CatalogInv, ModelsDevRootETag # None, NEW p \in Providers
             PROVE  PublicOf(p) = PublicModels[ModelsDevRootETag][p]
  BY DEF RootETagTrue
<1> DEFINE etag == ModelsDevRootETag
           ms == ActiveCatalog(p)
<1>1. etag \in 1..MaxVersion /\ Validators(p) = {etag}
  BY DEF ModelsDevRootETag
<1>2. layers[p] \in ProviderLayers /\ LayersSound(p, layers[p])
  BY DEF CatalogInv, CatalogTypeOK, ContentType, ContentSound, Snapshots
<1>3. OneVersion(p, ms)
  <2> DEFINE bottom == Overlay(NoModels, layers[p].vendored)
  <2>1. layers[p].vendored \in Layers
    BY <1>2 DEF ProviderLayers
  <2>2. bottom \in Catalogs /\ Publics(bottom) = {}
    BY <1>2, <2>1, NothingIsLayer, OverlayShows, OverlayPublics DEF LayersSound
  <2>3. ms = Stack(bottom, layers[p])
    BY DEF ActiveCatalog, activeProviderCatalogs
  <2> HIDE DEF bottom, ms
  <2> QED
    BY <1>2, <2>2, <2>3, StackShows
<1>4. Validators(p) = {ms[m].public : m \in DOMAIN ms} \ {None}
  BY DEF Validators
<1>5. PublicOf(p) = Publics(ms)
  BY DEF PublicOf, Publics
<1> HIDE DEF etag, ms
<1>6. PICK v \in 1..MaxVersion : /\ \A m \in Publics(ms) : ms[m].public = v
                                 /\ Publics(ms) \in {{}, PublicModels[v][p]}
  BY <1>3 DEF OneVersion
<1>7. PICK m \in DOMAIN ms : ms[m].public = etag /\ etag # None
  BY <1>1, <1>4
<1>8. m \in Publics(ms) /\ v = etag
  BY <1>6, <1>7 DEF Publics
<1>9. PublicOf(p) = PublicModels[etag][p]
  BY <1>5, <1>6, <1>8
<1> QED
  BY <1>9 DEF etag

\* Once an account's catalog is fetched, it alone is shown.
LEMMA AccountAlone == CatalogInv => NoForeignAccount
<1> SUFFICES ASSUME CatalogInv, layers[Baseten].baseten # NoLayer, NEW m \in DOMAIN ActiveCatalog(Baseten)
             PROVE  LET r == ActiveCatalog(Baseten)[m]
                        a == CHOOSE a \in Accounts : layers[Baseten].baseten = basetenProviderCatalog(a)
                    IN  /\ r.account \in {None, a}
                        /\ r.price.source = "baseten" => r.price.of = a
                        /\ m \in AccountModels[a] => r.account = a
  BY DEF NoForeignAccount
<1>1. Baseten \in Providers
  BY CatalogAssumption
<1>2. layers[Baseten] \in ProviderLayers /\ LayersSound(Baseten, layers[Baseten])
  BY <1>1 DEF CatalogInv, CatalogTypeOK, ContentType, ContentSound, Snapshots
<1>3. PICK a \in Accounts :
          /\ a = CHOOSE b \in Accounts : layers[Baseten].baseten = basetenProviderCatalog(b)
          /\ layers[Baseten].baseten = basetenProviderCatalog(a)
  BY <1>2 DEF LayersSound
<1> DEFINE top == basetenProviderCatalog(a)
           below == Overlay(Overlay(Overlay(NoModels, layers[Baseten].vendored), layers[Baseten].cache),
                            layers[Baseten].modelsdev)
           r == Overlay(below, top)[m]
<1>4. below \in Catalogs
  BY <1>2, NothingIsLayer, OverlayShows DEF ProviderLayers
<1>5. ActiveCatalog(Baseten) = Overlay(below, top)
  BY <1>3 DEF ActiveCatalog, activeProviderCatalogs, Stack
<1>6. /\ top \in Layers /\ top.replacesAccount /\ top.replacesPricing /\ DOMAIN top.models = AccountModels[a]
      /\ \A n \in AccountModels[a] :
            top.models[n] = Record("baseten", None, a, [source |-> "baseten", of |-> a])
  BY AccountShows
<1> HIDE DEF below, top
<1>7. ASSUME m \in DOMAIN below
      PROVE  /\ Cleared(below[m], top) \in Records
             /\ Cleared(below[m], top).account = None /\ Cleared(below[m], top).price = NoPrice
  BY <1>4, <1>6, <1>7, CatalogRecords, ClearedRecord
<1>11. /\ DOMAIN Overlay(below, top) = DOMAIN below \cup AccountModels[a]
       /\ \A n \in AccountModels[a] : n \notin DOMAIN below => Overlay(below, top)[n] = top.models[n]
       /\ \A n \in DOMAIN below : n \notin AccountModels[a] =>
              Overlay(below, top)[n] = Cleared(below[n], top)
       /\ \A n \in DOMAIN below \cap AccountModels[a] :
              Overlay(below, top)[n] = mergeModelRecord(Cleared(below[n], top), top.models[n])
  <2>1. /\ DOMAIN Overlay(below, top) = DOMAIN below \cup DOMAIN top.models
        /\ \A n \in DOMAIN top.models : n \notin DOMAIN below => Overlay(below, top)[n] = top.models[n]
        /\ \A n \in DOMAIN below : n \notin DOMAIN top.models =>
               Overlay(below, top)[n] = Cleared(below[n], top)
        /\ \A n \in DOMAIN below \cap DOMAIN top.models :
               Overlay(below, top)[n] = mergeModelRecord(Cleared(below[n], top), top.models[n])
    BY <1>4, <1>6, OverlayShows
  <2> QED
    BY <1>6, <2>1
<1>8. None \notin Accounts /\ NoPrice.source = None
  BY CatalogAssumption DEF NoPrice
<1>9. CASE m \in AccountModels[a]
  <2>1. /\ top.models[m] \in Records /\ top.models[m].account = a
        /\ top.models[m].price = [source |-> "baseten", of |-> a]
    BY <1>6, <1>9, SourceRecords DEF Record
  <2>2. top.models[m].price # NoPrice
    BY <1>8, <2>1 DEF NoPrice
  <2>3. r.account = a /\ r.price = [source |-> "baseten", of |-> a]
    <3>1. CASE m \in DOMAIN below
      <4>1. r = mergeModelRecord(Cleared(below[m], top), top.models[m])
        BY <1>9, <1>11, <3>1
      <4> QED
        BY <1>7, <1>8, <2>1, <2>2, <3>1, <4>1, MergedRecord
    <3>2. CASE m \notin DOMAIN below
      BY <1>9, <1>11, <2>1, <3>2
    <3> QED
      BY <3>1, <3>2
  <2> QED
    BY <1>3, <1>5, <2>3
<1>10. CASE m \notin AccountModels[a]
  <2>1. m \in DOMAIN below /\ r = Cleared(below[m], top)
    BY <1>5, <1>10, <1>11
  <2>2. r.account = None /\ r.price.source = None
    BY <1>7, <1>8, <2>1
  <2>3. None # "baseten"
    BY CatalogAssumption DEF Origins
  <2> QED
    BY <1>3, <1>5, <1>10, <2>2, <2>3
<1> QED
  BY <1>9, <1>10

\* Loops that wait have nothing left to fetch or to file.
LEMMA LoopsFollow == CatalogInv => CachesFollow
<1> SUFFICES ASSUME CatalogInv PROVE KickNotLost /\ DiskCurrent
  BY DEF CachesFollow
<1>1. KickNotLost
  BY DEF CatalogInv, KickKept, KickNotLost
<1>2. ASSUME basetenLoop = LoopIdle, publicLoop = LoopIdle, ~lost, NEW p \in Providers
      PROVE  Filed(p, layers[p])
  <2>1. saving.at # "write" /\ ~SaveDue
    BY <1>2 DEF CatalogInv, CatalogTypeOK, SavingType, SaveDue, LoopIdle
  <2> QED
    BY <1>2, <2>1 DEF CatalogInv, FilesFollow
<1>3. DiskCurrent
  BY <1>2 DEF DiskCurrent, Filed
<1> QED
  BY <1>1, <1>3

\* What the catalogs show and keep is sound.
LEMMA CatalogInvSound == CatalogInv => CatalogSound
BY RootETagShows, AccountAlone, LoopsFollow DEF CatalogSound, CatalogTrue

\* The catalogs are sound in every state of their specification.
THEOREM CatalogInductive == CatalogSpec => []CatalogInv
BY CatalogInvInit, CatalogInvStep, PTL DEF CatalogSpec

\* What the router shows of its sources is true, and its loops and files do not fall behind.
THEOREM CatalogSoundThm == CatalogSpec => []CatalogSound
BY CatalogInvSound, CatalogInductive, PTL

---------------------------------------------------------------------------
(* The composition StoresMC.                                                *)

StoresInv == IInv /\ KeyInv /\ CatalogInv /\ LadderInv
storesVars == <<part, vars, keyVars, catalogVars, ladderVars>>

\* A step of the composition is one of each component, or leaves it as it was.
LEMMA StoresSteps ==
    [StoresNext]_storesVars
        => [Next]_vars /\ [KeyNext]_keyVars /\ [CatalogNext]_catalogVars /\ [LadderNext]_ladderVars
BY DEF StoresNext, CommitMoves, KeyMoves, CatalogMoves, LadderMoves, storesVars

\* Every step of the composition keeps the invariants of the components.
LEMMA StoresStep == StoresInv /\ [StoresNext]_storesVars => StoresInv'
BY StoresSteps, CommitStep, KeyInvStep, CatalogInvStep, LadderInvStep DEF StoresInv

\* The invariants of the components hold together.
THEOREM StoresInductive == StoresSpec => []StoresInv
<1>1. StoresInit => StoresInv
  BY CommitStarts, KeyInvInit, CatalogInvInit, LadderInvInit DEF StoresInit, StoresInv
<1> QED
  BY <1>1, StoresStep, PTL DEF StoresSpec, storesVars

\* The types of the commit, the saved key, the catalogs and the ladder are correct.
THEOREM StoresTypes == StoresSpec => []TypesOK
<1>1. StoresInv => TypesOK
  BY DEF StoresInv, IInv, KeyInv, CatalogInv, LadderInv, TypesOK
<1> QED
  BY <1>1, StoresInductive, PTL

\* In the composition too, no commit and no recovery destroys an editor's text, at most one
\* directory has a state.json, and a path that nobody deleted can be put back.
THEOREM StoresCommits == StoresSpec => [](EditsSurvive /\ OneActive /\ MissingPathRestorable)
<1>1. StoresInv => EditsSurvive /\ OneActive /\ MissingPathRestorable
  BY MissingPathIsRestorable DEF StoresInv, IInv
<1> QED
  BY <1>1, StoresInductive, PTL

\* And there the files still implement the compare-and-swap cell.
THEOREM StoresImplementCell == StoresSpec => ImplementsCell
<1>1. StoresInit => Cell!CellInit
  BY CellStarts DEF StoresInit
<1>2. StoresInv /\ StoresInv' /\ [StoresNext]_storesVars => [Cell!CellNext]_Cell!cellVars
  BY StoresSteps, CellStep DEF StoresInv
<1> QED
  BY <1>1, <1>2, StoresInductive, PTL DEF StoresSpec, storesVars, ImplementsCell, Cell!CellSpec

\* The catalogs shown and kept are sound.
THEOREM StoresCatalogSound == StoresSpec => []CatalogSound
<1>1. StoresInv => CatalogSound
  BY CatalogInvSound DEF StoresInv
<1> QED
  BY <1>1, StoresInductive, PTL

\* A saved key is not lost to a process that dies, and a cooldown has a failure behind it.
THEOREM StoresSafeThm == StoresSpec => StoresSafe
<1>1. StoresInv => PromiseKept
  BY DEF StoresInv, KeyInv
<1>2. StoresInv /\ [StoresNext]_storesVars
      => [\A p \in Procs :
            call[p].op = "load" /\ Moves(p) /\ keychain = NoKey /\ keychain' # NoKey
                => sight[p].ino \notin removed]_keyVars
  BY StoresSteps, NotUndoneStep DEF StoresInv
<1>3. StoresInv /\ [StoresNext]_storesVars
      => [\A p \in Procs : call[p].op = "load" /\ Moves(p) =>
            /\ keychain # NoKey => keychain' = keychain
            /\ legacy # NoLegacy /\ legacy' = NoLegacy /\ legacy = sight[p]
                  => keychain' = legacy.key]_keyVars
  BY StoresSteps, MigrationStep DEF StoresInv
<1>4. StoresInv /\ [StoresNext]_storesVars
      => [\A r \in Reqs : req'[r].why = "cooldown" /\ req[r].at = "new" =>
            \E t \in Trips : /\ recent[t] > 0 /\ StatusEnabled(policy, t)
                            /\ t \in Allowed(req'[r].plan)]_ladderVars
  BY StoresSteps, DivertedStep DEF StoresInv
<1>5. StoresInv /\ [StoresNext]_storesVars
      => [(\E t \in Trips : recent'[t] > recent[t]) => baseten \in Trips]_ladderVars
  BY StoresSteps, TripStep DEF StoresInv
<1> QED
  BY <1>1, <1>2, <1>3, <1>4, <1>5, StoresInductive, PTL
     DEF StoresSpec, storesVars, StoresSafe, KeySafe, LoadsAreSafe, DeletionNotUndone, MigrationKeepsKey,
         CooldownsJustified, DivertedForCause, OnlyFailuresTrip

=============================================================================
