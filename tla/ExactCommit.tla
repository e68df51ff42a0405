---------------------------- MODULE ExactCommit ----------------------------
(***************************************************************************)
(* The exact config commit of the switch's CLI: compare-and-swap on a file *)
(* that editors outside the program may replace at any moment.  Source:    *)
(* gateway/cmd/baseten-switch/routing_mutation.go, from                    *)
(* compareAndSwapExactConfig to recoverInterruptedExactConfigCommit.       *)
(*                                                                         *)
(* One process at a time holds the config mutation lock (a flock, which a  *)
(* crash releases): it recovers what an earlier commit left, checks the    *)
(* live file, prepares a transaction directory, displaces the live file    *)
(* into it, verifies what it displaced, and hard-links the prepared file   *)
(* to the live path.  Every system call that editors can observe or that a *)
(* crash can separate is a step.                                           *)
(*                                                                         *)
(* A name's contents stand for its bytes and their hash.  Two names of one *)
(* inode matter only for the live path and a displaced entry that recovery *)
(* linked back to it (linked): the prepared file is never read again once  *)
(* it is linked.  The stage field of state.json is never read and is left  *)
(* out, its rewrites are kept as places to fail and to crash.              *)
(***************************************************************************)
EXTENDS Naturals, FiniteSets

CONSTANTS
    Contents,    \* possible contents of the config
    NoFile,      \* a name that does not exist
    Txns,        \* names MkdirTemp can return
    NoTxn,
    NoSwap,      \* no commit asked for; no state.json
    MaxFaults,   \* bound: crashes and failed system calls
    MaxEdits     \* bound: writes and deletions by editors

Swaps == [expected : Contents, desired : Contents]

ASSUME CommitAssumption ==
    /\ NoFile \notin Contents
    /\ NoTxn \notin Txns
    /\ NoSwap \notin Swaps
    /\ MaxFaults \in Nat /\ MaxEdits \in Nat

VARIABLES
    \* The disk.
    path,       \* contents of the live config path
    dirs,       \* transaction directories that exist
    state,      \* state.json of each: the swap it belongs to, or NoSwap
    prior,      \* the displaced entry of each
    junk,       \* directories with the temporary file of a cut-off write
    linked,     \* the directory whose displaced entry is path's inode, or NoTxn
    \* The lock holder.
    pc,
    swap,       \* [expected, desired] of the commit asked for; NoSwap: recovery only
    txn,        \* the directory it works in
    want,       \* expectedPriorHash of the cleanup it runs
    after,      \* what follows that cleanup
    result,     \* its answer
    \* History.
    landed,     \* its install succeeded
    touched,    \* an editor wrote since
    deleted,    \* path is missing because an editor removed it
    edits,      \* editors' contents that nobody has superseded or adopted
    faults, editCount

disk    == <<path, dirs, state, prior, junk, linked>>
holder  == <<swap, txn, want, after>>
history == <<landed, touched, deleted, edits>>
bounds  == <<faults, editCount>>
vars    == <<disk, pc, holder, result, history, bounds>>

PCs == {"idle", "scan", "inspect", "restore", "check", "prepare", "putState",
        "displace", "verify", "unwind", "install", "confirm",
        "rmPrior", "rmState", "rmDir"}
Results == {"none", "ok", "error", "indeterminate", "crashed"}
Afters  == {"check", "ok", "error"}

Files == Contents \cup {NoFile}
Active == {t \in Txns : state[t] # NoSwap}

Init ==
    /\ path \in Contents
    /\ dirs = {} /\ junk = {}
    /\ state = [t \in Txns |-> NoSwap]
    /\ prior = [t \in Txns |-> NoFile]
    /\ linked = NoTxn
    /\ pc = "idle"
    /\ swap = NoSwap /\ txn = NoTxn /\ want = NoFile /\ after = "error"
    /\ result = "none"
    /\ landed = FALSE /\ touched = FALSE /\ deleted = FALSE
    /\ edits = {}
    /\ faults = 0 /\ editCount = 0

---------------------------------------------------------------------------
(* Steps of the lock holder share these forms.                             *)

Goto(l) == pc' = l

\* Returns r and releases the lock.
Return(r) == Goto("idle") /\ result' = r

\* Starts cleanupExactCommitDir(txn, w); next says what a success leads to.
CleanUp(w, next) ==
    /\ Goto("rmPrior")
    /\ want' = w
    /\ after' = next

\* A cleanup that fails: only the final one of a commit is indeterminate.
CleanupFails == Return(IF after = "ok" THEN "indeterminate" ELSE "error")

Fault == faults < MaxFaults /\ faults' = faults + 1
NoFault == UNCHANGED faults
StillRunning == UNCHANGED result
SameTask == UNCHANGED <<swap, txn, editCount>>
SameJob == SameTask /\ UNCHANGED <<want, after>>

---------------------------------------------------------------------------
(* recoverInterruptedExactConfigCommit, run first by every holder.         *)

\* A command takes the lock: a commit, or a command that only recovers.
Begin ==
    /\ pc = "idle"
    /\ Goto("scan")
    /\ swap' \in {s \in Swaps : s.expected # s.desired} \cup {NoSwap}
    /\ txn' = NoTxn /\ want' = NoFile /\ after' = "error"
    /\ result' = "none"
    /\ landed' = FALSE /\ touched' = FALSE
    /\ UNCHANGED <<disk, deleted, edits, bounds>>

\* Variant: interrupted commits are for somebody else to repair.
ScanIgnores ==
    /\ pc = "scan"
    /\ Goto("check")
    /\ UNCHANGED <<disk, holder, result, history, bounds>>

\* Lists the directories.  One without state.json is passed over while the
\* live path exists and refuses the whole recovery when it does not.
Scan ==
    /\ pc = "scan"
    /\ \/ /\ path = NoFile /\ dirs \ Active # {}
          /\ Return("error") /\ UNCHANGED txn
       \/ /\ path # NoFile \/ dirs \subseteq Active
          /\ \/ Active = {} /\ Goto("check") /\ StillRunning /\ UNCHANGED txn
             \/ \E t \in Active :
                   /\ Active = {t}
                   /\ txn' = t
                   /\ Goto("inspect") /\ StillRunning
             \/ Cardinality(Active) > 1 /\ Return("error") /\ UNCHANGED txn
    /\ UNCHANGED <<disk, swap, want, after, history, bounds>>

\* Variant: a missing live path is an error even with the entry at hand.
InspectGivesUp ==
    /\ pc = "inspect"
    /\ LET s == state[txn] IN
       \/ /\ path # NoFile
          /\ CleanUp(s.expected, "check") /\ StillRunning
       \/ /\ path = NoFile
          /\ Return("error") /\ UNCHANGED <<want, after>>
    /\ SameTask /\ NoFault
    /\ UNCHANGED <<disk, history>>

\* Reads state.json and the live path.  A live path wins: the directory is
\* cleaned up, except that a displaced entry nobody expected is kept.
Inspect ==
    /\ pc = "inspect"
    /\ LET s == state[txn] IN
       \/ /\ path # NoFile
          /\ \/ path \in {s.expected, s.desired}
             \/ prior[txn] \in {s.expected, NoFile}
          /\ CleanUp(s.expected, "check") /\ StillRunning
       \/ /\ path \notin {NoFile, s.expected, s.desired}
          /\ prior[txn] \notin {s.expected, NoFile}
          /\ Return("error") /\ UNCHANGED <<want, after>>
       \/ /\ path = NoFile /\ prior[txn] = NoFile
          /\ Return("error") /\ UNCHANGED <<want, after>>
       \/ /\ path = NoFile /\ prior[txn] # NoFile
          /\ Goto("restore") /\ StillRunning /\ UNCHANGED <<want, after>>
    /\ SameTask /\ NoFault
    /\ UNCHANGED <<disk, history>>

\* The displaced entry linked to the live path, which must be free.
LinkPrior ==
    /\ path = NoFile
    /\ path' = prior[txn]
    /\ linked' = txn
    /\ deleted' = FALSE
    /\ UNCHANGED <<dirs, state, prior, junk, landed, touched, edits>>

\* Restores; an editor that claimed the path first wins.
Restore ==
    /\ pc = "restore"
    /\ LET expected == state[txn].expected
           next == IF prior[txn] = expected THEN "check" ELSE "error"
       IN \/ LinkPrior /\ CleanUp(prior[txn], next) /\ StillRunning
          \/ /\ path # NoFile /\ UNCHANGED <<disk, history>>
             /\ IF prior[txn] = expected
                THEN CleanUp(expected, "check") /\ StillRunning
                ELSE Return("error") /\ UNCHANGED <<want, after>>
    /\ SameTask /\ NoFault

\* The link fails, or the directory sync after it: with the path now there
\* that reads as a lost race.
RestoreFails ==
    /\ pc = "restore"
    /\ Fault
    /\ \/ UNCHANGED <<disk, history, want, after>> /\ Return("error")
       \/ /\ LinkPrior
          /\ LET expected == state[txn].expected IN
             IF prior[txn] = expected
             THEN CleanUp(expected, "check") /\ StillRunning
             ELSE Return("error") /\ UNCHANGED <<want, after>>
    /\ SameTask

---------------------------------------------------------------------------
(* compareAndSwapExactConfig.                                              *)

\* A recovery-only command is done; a commit compares the live bytes.
Check ==
    /\ pc = "check"
    /\ CASE swap = NoSwap -> Return("ok")
         [] swap # NoSwap /\ path = swap.expected -> Goto("prepare") /\ StillRunning
         [] OTHER -> Return("error")
    /\ SameJob /\ NoFault
    /\ UNCHANGED <<disk, history>>

\* MkdirTemp, and the desired file written and synced inside.
Prepare ==
    /\ pc = "prepare"
    /\ \E t \in Txns \ dirs :
        /\ txn' = t
        /\ dirs' = dirs \cup {t}
    /\ Goto("putState")
    /\ StillRunning /\ NoFault
    /\ UNCHANGED <<path, state, prior, junk, linked, swap, want, after,
                   history, editCount>>

\* Variant: state.json waits until after the displacement.
PutStateLater ==
    /\ pc = "putState"
    /\ Goto("displace")
    /\ SameJob /\ NoFault /\ StillRunning
    /\ UNCHANGED <<disk, history>>

\* state.json is durable before anything is displaced.
PutState ==
    /\ pc = "putState"
    /\ state' = [state EXCEPT ![txn] = swap]
    /\ Goto("displace")
    /\ SameJob /\ NoFault /\ StillRunning
    /\ UNCHANGED <<path, dirs, prior, junk, linked, history>>

\* A failure before the displacement cleans the directory up.
PrepareFails ==
    /\ pc \in {"putState", "displace"}
    /\ Fault
    /\ CleanUp(swap.expected, "error")
    /\ SameTask /\ StillRunning
    /\ UNCHANGED <<disk, history>>

\* os.Rename of the live path into the directory: whatever is there now.
MovePathAway ==
    /\ path # NoFile
    /\ prior' = [prior EXCEPT ![txn] = path]
    /\ path' = NoFile
    /\ linked' = NoTxn
    /\ edits' = edits \ {swap.expected}
    /\ UNCHANGED <<dirs, state, junk, landed, touched, deleted>>

Displace ==
    /\ pc = "displace"
    /\ \/ MovePathAway /\ Goto("verify") /\ UNCHANGED <<want, after>>
       \/ /\ path = NoFile
          /\ CleanUp(swap.expected, "error")
          /\ UNCHANGED <<disk, history>>
    /\ SameTask /\ NoFault /\ StillRunning

\* A directory sync fails after the rename.
DisplaceFails ==
    /\ pc = "displace"
    /\ Fault
    /\ MovePathAway
    /\ Return("indeterminate")
    /\ SameJob

\* Compares what was displaced; anything unexpected is put back.
Verify ==
    /\ pc = "verify"
    /\ IF prior[txn] = swap.expected
       THEN Goto("install") /\ UNCHANGED want
       ELSE Goto("unwind") /\ want' = prior[txn]
    /\ SameTask /\ NoFault /\ StillRunning
    /\ UNCHANGED <<disk, history, after>>

\* A state.json rewrite fails, or the displaced entry cannot be read.
VerifyFails ==
    /\ pc = "verify"
    /\ Fault
    /\ \/ Return("indeterminate") /\ UNCHANGED want
       \/ Goto("unwind") /\ want' = NoFile /\ StillRunning
    /\ SameTask
    /\ UNCHANGED <<disk, history, after>>

\* restoreDisplacedExactConfig on the way out of a commit.
Unwind ==
    /\ pc = "unwind"
    /\ \/ LinkPrior /\ CleanUp(want, "error") /\ StillRunning
       \/ /\ path # NoFile
          /\ Return("indeterminate")
          /\ UNCHANGED <<disk, history, want, after>>
    /\ SameTask /\ NoFault

UnwindFails ==
    /\ pc = "unwind"
    /\ Fault
    /\ \/ LinkPrior
       \/ UNCHANGED <<disk, history>>
    /\ Return("indeterminate")
    /\ SameJob

\* Variant: a rename instead of a link, which replaces what is there.
RenameDesired ==
    /\ path' = swap.desired
    /\ linked' = NoTxn
    /\ landed' = TRUE
    /\ deleted' = FALSE
    /\ UNCHANGED <<dirs, state, prior, junk, touched, edits>>

\* The desired file linked to the live path: os.Link fails on an existing name.
LinkDesired ==
    /\ path = NoFile
    /\ path' = swap.desired
    /\ linked' = NoTxn
    /\ landed' = TRUE
    /\ deleted' = FALSE
    /\ UNCHANGED <<dirs, state, prior, junk, touched, edits>>

Install ==
    /\ pc = "install"
    /\ \/ LinkDesired /\ Goto("confirm") /\ UNCHANGED <<want, after>>
       \/ /\ path # NoFile
          /\ CleanUp(swap.expected, "error")
          /\ UNCHANGED <<disk, history>>
    /\ SameTask /\ NoFault /\ StillRunning

\* The link fails though the path is free: the displaced entry goes back.
InstallFails ==
    /\ pc = "install"
    /\ path = NoFile
    /\ Fault
    /\ Goto("unwind")
    /\ want' = swap.expected
    /\ SameTask /\ StillRunning
    /\ UNCHANGED <<disk, history, after>>

\* Reads the installed file back.
Confirm ==
    /\ pc = "confirm"
    /\ CASE path = NoFile -> Return("indeterminate") /\ UNCHANGED <<want, after>>
         [] path = swap.desired -> CleanUp(swap.expected, "ok") /\ StillRunning
         [] OTHER -> CleanUp(swap.expected, "error") /\ StillRunning
    /\ SameTask /\ NoFault
    /\ UNCHANGED <<disk, history>>

\* A sync, the state rewrite or the reading back fails after the link.
ConfirmFails ==
    /\ pc = "confirm"
    /\ Fault
    /\ Return("indeterminate")
    /\ SameJob
    /\ UNCHANGED <<disk, history>>

---------------------------------------------------------------------------
(* cleanupExactCommitDir.                                                  *)

\* Variant: the displaced entry goes whatever it is.
RemoveAnyPrior ==
    /\ pc = "rmPrior"
    /\ prior' = [prior EXCEPT ![txn] = NoFile]
    /\ linked' = IF linked = txn THEN NoTxn ELSE linked
    /\ Goto("rmState")
    /\ SameJob /\ NoFault /\ StillRunning
    /\ UNCHANGED <<path, dirs, state, junk, history>>

\* The displaced entry goes only if its bytes are the ones named.
RemovePrior ==
    /\ pc = "rmPrior"
    /\ \/ /\ prior[txn] \in {want, NoFile}
          /\ prior' = [prior EXCEPT ![txn] = NoFile]
          /\ linked' = IF linked = txn THEN NoTxn ELSE linked
          /\ Goto("rmState") /\ StillRunning
       \/ /\ prior[txn] \notin {want, NoFile}
          /\ CleanupFails
          /\ UNCHANGED <<prior, linked>>
    /\ SameJob /\ NoFault
    /\ UNCHANGED <<path, dirs, state, junk, history>>

\* The prepared file, then state.json.
RemoveState ==
    /\ pc = "rmState"
    /\ state' = [state EXCEPT ![txn] = NoSwap]
    /\ Goto("rmDir")
    /\ SameJob /\ NoFault /\ StillRunning
    /\ UNCHANGED <<path, dirs, prior, junk, linked, history>>

\* Variant: the directory goes without a look at what is left in it.
RemoveDirBlindly ==
    /\ pc = "rmDir"
    /\ dirs' = dirs \ {txn}
    /\ IF after = "check" THEN Goto("check") /\ StillRunning ELSE Return(after)
    /\ SameJob /\ NoFault
    /\ UNCHANGED <<path, state, prior, junk, linked, history>>

\* The directory, unless something unknown is left in it.
RemoveDir ==
    /\ pc = "rmDir"
    /\ \/ /\ txn \in junk
          /\ CleanupFails
          /\ UNCHANGED dirs
       \/ /\ txn \notin junk
          /\ dirs' = dirs \ {txn}
          /\ IF after = "check" THEN Goto("check") /\ StillRunning ELSE Return(after)
    /\ SameJob /\ NoFault
    /\ UNCHANGED <<path, state, prior, junk, linked, history>>

RemoveFails ==
    /\ pc \in {"rmPrior", "rmState", "rmDir"}
    /\ Fault
    /\ CleanupFails
    /\ SameJob
    /\ UNCHANGED <<disk, history>>

---------------------------------------------------------------------------
(* The environment.                                                        *)

\* The process dies: the lock is free, the disk stays.  In the middle of an
\* atomicWriteFile of state.json its temporary file stays as well.
Crash ==
    /\ pc # "idle"
    /\ Fault
    /\ Return("crashed")
    /\ \/ UNCHANGED junk
       \/ pc \in {"putState", "verify", "install", "confirm"} /\ junk' = junk \cup {txn}
    /\ UNCHANGED <<path, dirs, state, prior, linked, holder, history, editCount>>

EditorActs ==
    /\ editCount < MaxEdits
    /\ editCount' = editCount + 1
    /\ touched' = landed
    /\ UNCHANGED <<dirs, state, junk, pc, holder, result, landed, faults>>

\* An editor renames a file of its own over the path, or creates it.
EditorReplaces ==
    /\ EditorActs
    /\ path' \in Contents
    /\ linked' = NoTxn
    /\ deleted' = FALSE
    /\ edits' = (edits \ {path}) \cup {path'}
    /\ UNCHANGED prior

\* An editor rewrites the file in place, through every name of its inode.
EditorRewrites ==
    /\ EditorActs
    /\ path # NoFile
    /\ path' \in Contents
    /\ prior' = IF linked = NoTxn THEN prior ELSE [prior EXCEPT ![linked] = path']
    /\ edits' = (edits \ {path}) \cup {path'}
    /\ UNCHANGED <<linked, deleted>>

EditorDeletes ==
    /\ EditorActs
    /\ path # NoFile
    /\ path' = NoFile
    /\ linked' = NoTxn
    /\ deleted' = TRUE
    /\ edits' = edits \ {path}
    /\ UNCHANGED prior

Recover == Scan \/ Inspect \/ Restore
Commit  == Check \/ Prepare \/ PutState \/ Displace \/ Verify \/ Unwind
           \/ Install \/ Confirm
Remove  == RemovePrior \/ RemoveState \/ RemoveDir
Fails   == RestoreFails \/ PrepareFails \/ DisplaceFails \/ VerifyFails
           \/ UnwindFails \/ InstallFails \/ ConfirmFails \/ RemoveFails \/ Crash
Editor  == EditorReplaces \/ EditorRewrites \/ EditorDeletes

Next == Begin \/ Recover \/ Commit \/ Remove \/ Fails \/ Editor

\* The holder runs on, and a user whose config is missing runs a command that
\* recovers: "mutation reconcile" or "config reset".  (The other mutating verbs
\* load the config before they lock, and stop there when it is missing.)
Fairness == WF_vars(Begin) /\ WF_vars(Recover \/ Commit \/ Remove)

Spec == Init /\ [][Next]_vars /\ Fairness

---------------------------------------------------------------------------
(* Properties.                                                             *)

\* The variables stay in their sets, and files live in directories that exist.
DiskType ==
    /\ path \in Files
    /\ dirs \subseteq Txns
    /\ state \in [Txns -> Swaps \cup {NoSwap}]
    /\ prior \in [Txns -> Files]
    /\ junk \subseteq dirs
    /\ \A t \in Txns \ dirs : state[t] = NoSwap /\ prior[t] = NoFile
    /\ linked \in dirs \cup {NoTxn}

HolderType ==
    /\ pc \in PCs
    /\ swap \in Swaps \cup {NoSwap}
    /\ txn \in Txns \cup {NoTxn}
    /\ want \in Files
    /\ after \in Afters
    /\ result \in Results

HistoryType ==
    /\ landed \in BOOLEAN /\ touched \in BOOLEAN /\ deleted \in BOOLEAN
    /\ edits \subseteq Contents

BoundsType == faults \in 0..MaxFaults /\ editCount \in 0..MaxEdits

TypeOK == DiskType /\ HolderType /\ HistoryType /\ BoundsType

\* What an editor wrote stays on disk, at the live path or as a displaced
\* entry, until an editor supersedes it or a commit that names it as its
\* expected contents displaces it: no commit and no recovery, interrupted
\* wherever it may be, throws away bytes nobody has seen.
EditsSurvive ==
    \A v \in edits : path = v \/ \E t \in Txns : prior[t] = v

\* A live path that is missing, and that no editor removed, is one directory
\* with state.json and the displaced entry away from being restored.
MissingPathRestorable ==
    (path = NoFile /\ ~deleted) =>
        \E t \in Txns : Active = {t} /\ prior[t] # NoFile

\* Never two directories with state.json, which recovery leaves to a human.
OneActive == \A t, u \in Active : t = u

\* The files implement a compare-and-swap cell: while the path is displaced,
\* the displaced entry holds the config.
Displaced == CHOOSE v \in Contents : \E t \in Active : prior[t] = v
ConfigNow ==
    IF path # NoFile THEN path ELSE IF deleted THEN NoFile ELSE Displaced
Cell == INSTANCE ConfigCell WITH cell <- ConfigNow

ImplementsCell == Cell!CellSpec

\* The comment on compareAndSwapExactConfig: a crash after displacement leaves
\* enough state for the recovery to restore the displaced entry.  So a path
\* that is missing only because a commit displaced it comes back, given that
\* commands go on taking the lock.
DisplacedPathReturns ==
    (path = NoFile /\ ~deleted) ~> (path # NoFile)
===========================================================================
