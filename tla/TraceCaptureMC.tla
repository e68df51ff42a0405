--------------------------- MODULE TraceCaptureMC ---------------------------
(* Instances of TraceCapture for TLC: two requests of two clients.           *)
EXTENDS TraceCapture, TLC

CONSTANTS r1, r2, c1, c2

MCRequests == {r1, r2}
MCClients  == {c1, c2}
OneRequest  == {r1}
OneClientOf == r1 :> c1
MCClientOf == r1 :> c1 @@ r2 :> c2

\* Off keeps its allowlist; both clients, one of them, and another retention.
PolicyOff  == [enabled |-> FALSE, clients |-> {c1, c2}, days |-> 1]
PolicyBoth == [enabled |-> TRUE,  clients |-> {c1, c2}, days |-> 1]
PolicyOne  == [enabled |-> TRUE,  clients |-> {c1},     days |-> 1]
PolicyLong == [enabled |-> TRUE,  clients |-> {c1, c2}, days |-> 2]

AllPolicies    == {PolicyOff, PolicyBoth, PolicyOne, PolicyLong}
WriterPolicies == {PolicyOff, PolicyBoth, PolicyLong}
=============================================================================
