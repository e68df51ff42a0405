-------------------------- MODULE RoutingMutationMC --------------------------
(* RoutingMutation on small instances.                                      *)
EXTENDS RoutingMutation
CONSTANTS o1, o2, c0, c1, c2

OneOp         == {o1}
TwoOps        == {o1, o2}
TwoContents   == {c0, c1}
ThreeContents == {c0, c1, c2}

\* Two operations that want different configs, and one on its own.
TwoWants == [o \in TwoOps |-> IF o = o1 THEN c1 ELSE c2]
OneWant  == [o \in OneOp |-> c1]
==============================================================================
