---------------------------- MODULE ConfigCell ----------------------------
(***************************************************************************)
(* What an exact config commit promises, without its files: the config is  *)
(* one cell that editors write as they please and that a commit of the     *)
(* switch changes by compare-and-swap.  The answer a commit gives tells    *)
(* whether its swap happened: "ok" only after it did, a plain error only   *)
(* when it did not or when an editor has written since.                    *)
(*                                                                         *)
(* ExactCommit implements this with renames and hard links; its files are  *)
(* mapped to this cell there.                                              *)
(***************************************************************************)
CONSTANTS Contents, NoFile, NoSwap

VARIABLES
    cell,      \* the config's contents, or NoFile
    swap,      \* the commit in progress: [expected, desired], or NoSwap
    landed,    \* that commit has swapped
    touched,   \* an editor has written or deleted since it did
    result     \* the last commit's answer

cellVars == <<cell, swap, landed, touched, result>>

Swaps   == [expected : Contents, desired : Contents]
Results == {"none", "ok", "error", "indeterminate", "crashed"}

CellInit ==
    /\ cell \in Contents
    /\ swap = NoSwap
    /\ landed = FALSE /\ touched = FALSE
    /\ result = "none"

\* An editor writes or deletes the file.
Edit ==
    /\ cell' \in Contents \cup {NoFile}
    /\ touched' = landed
    /\ UNCHANGED <<swap, landed, result>>

\* A commit, or with NoSwap a mere recovery, begins.
Begin ==
    /\ swap' \in Swaps \cup {NoSwap}
    /\ landed' = FALSE /\ touched' = FALSE
    /\ result' = "none"
    /\ UNCHANGED cell

\* The compare-and-swap itself.  It also lands where an editor has removed
\* the file in the meantime: a link needs a free path, not the old contents.
Swap ==
    /\ swap \in Swaps /\ ~landed
    /\ cell \in {swap.expected, NoFile}
    /\ cell' = swap.desired
    /\ landed' = TRUE
    /\ UNCHANGED <<swap, touched, result>>

\* Recovery of an interrupted commit, or a commit that backs out, may bring
\* back a file that was deleted while the displaced entry still existed.
Undelete ==
    /\ cell = NoFile
    /\ cell' \in Contents
    /\ \/ UNCHANGED result
       \/ result = "none" /\ result' \in {"error", "indeterminate"} /\ ~landed
    /\ UNCHANGED <<swap, landed, touched>>

Answer ==
    /\ result = "none"
    /\ result' \in Results \ {"none"}
    /\ result' = "ok" => (landed \/ swap = NoSwap)
    /\ result' = "error" => (~landed \/ touched)
    /\ UNCHANGED <<cell, swap, landed, touched>>

CellNext == Edit \/ Begin \/ Swap \/ Undelete \/ Answer

CellSpec == CellInit /\ [][CellNext]_cellVars
===========================================================================
