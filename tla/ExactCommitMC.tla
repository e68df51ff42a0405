--------------------------- MODULE ExactCommitMC ---------------------------
(* ExactCommit on small instances.                                         *)
EXTENDS ExactCommit
CONSTANTS v1, v2, v3, t1, t2, t3

TwoContents   == {v1, v2}
ThreeContents == {v1, v2, v3}
TwoTxns       == {t1, t2}
ThreeTxns     == {t1, t2, t3}
============================================================================
