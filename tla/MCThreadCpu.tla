---------------------------- MODULE MCThreadCpu ----------------------------
(* An instance of ThreadCpu for TLC: the first id is the configured one on *)
(* the host, the second a container's process or a stranger.               *)
EXTENDS ThreadCpu

MCKinds == [p \in {1, 2} |-> IF p = 1 THEN {"host"} ELSE {"nested", "other"}]
============================================================================
