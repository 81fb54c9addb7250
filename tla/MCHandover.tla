---------------------------- MODULE MCHandover ----------------------------
(* Three processes under a clock that may be ahead when the first starts   *)
(* and be stepped back to the beginning before each of the others.         *)
EXTENDS Handover

SteppedClock == [p \in 1 .. 3 |-> IF p = 1 THEN {1, 3} ELSE {1, p}]

============================================================================
