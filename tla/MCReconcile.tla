---------------------------- MODULE MCReconcile ----------------------------
(* Config files over two ports: two proxies, the same with other routes,   *)
(* both ports merged into one proxy, one with an entry that names no port  *)
(* and another one rebuilt, and one with two entries for one port.         *)
EXTENDS Reconcile

MCEntry(ports, build, routes, certs) ==
  [ports |-> ports, build |-> build, routes |-> routes, certs |-> certs]

Split == [generation |-> "g1",
          proxies |-> <<MCEntry({1}, "b1", "r1", {"k"}), MCEntry({2}, "b1", "r1", {})>>]
Rerouted == [generation |-> "g2",
             proxies |-> <<MCEntry({1}, "b1", "r2", {"k"}), MCEntry({2}, "b1", "r2", {})>>]
Merged == [generation |-> "g3", proxies |-> <<MCEntry({1, 2}, "b1", "r3", {"k"})>>]
Partial == [generation |-> NoGeneration,
            proxies |-> <<MCEntry({}, "b1", "r4", {}), MCEntry({2}, "b2", "r4", {"m"})>>]
Doubled == [generation |-> "g4",
            proxies |-> <<MCEntry({1}, "b1", "r5", {"k"}), MCEntry({1}, "b1", "r6", {"k"})>>]

AllConfigs == {Split, Rerouted, Merged, Partial, Doubled}
TwoConfigs == {Split, Rerouted}
MCCerts == {"k", "m"}

============================================================================
