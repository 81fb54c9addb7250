-------------------------- MODULE MCSpillControl --------------------------
(* A route with two peers, and the reloads that keep it, exchange the      *)
(* peers, move its workers, or end spilling.                               *)
EXTENDS SpillControl

Policy(max, limited) ==
  [highWater |-> 2, margin |-> 2, step |-> 1, max |-> max, limited |-> limited]

Base == [peers |-> <<"p", "q">>, policy |-> Policy(2, TRUE), source |-> [d \in {"h1"} |-> 1]]
Exchanged == [Base EXCEPT !.peers = <<"q", "p">>]
Moved == [Base EXCEPT !.source = [d \in {"h1"} |-> 2]]
Ended == [Base EXCEPT !.policy = NoPolicy]

MCConfigs == {Base, Exchanged, Moved, Ended}
MCPeerLoads == [p \in Peers |-> IF p = "q" THEN {0} ELSE {1}]
\* One peer may be far away, the other may fail.
MCDistances == [p \in Peers |-> IF p = "q" THEN {"near", "far"} ELSE {"near"}]

===========================================================================
