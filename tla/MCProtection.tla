--------------------------- MODULE MCProtection ---------------------------
(* Instances of Protection for TLC: configurations, addresses and hellos.  *)
EXTENDS Protection, TLC

\* One IPv4 client, reported plainly and as ::ffff:a.b.c.d by a dual-stack
\* listener.
MCPeers == {"a", "mapped-a"}
MCIPs == {"a"}
MCCanonical == [p \in MCPeers |-> "a"]

Hello(complete, fp, sni) == [complete |-> complete, ja3 |-> fp, ja4 |-> fp, sni |-> sni]

MCHellos == {Hello(TRUE, "fp", TRUE), Hello(FALSE, "cut", TRUE)}

Lim(rate, burst) == [rate |-> rate, burst |-> burst]

Config(allow, rate, sus, penalty, max) ==
  [allowlist |-> allow, blocklist |-> {}, ja3 |-> {"bad"}, ja4 |-> {}, requireSni |-> TRUE,
   limit |-> [k \in Kinds |-> IF k = "rate" THEN rate ELSE sus],
   penalty |-> penalty, max |-> max]

\* One connection costs two units.  One limit at a time for long, with the penalty
\* box and the cap or without them ...
Fast == Config({}, Lim(2, 2), Lim(1, 2), 2, 1)
Slow == Config({}, Lim(0, 0), Lim(1, 4), 0, 0)
\* ... and all of them for a short time, switched off and on again while checks
\* run, shrunk below one connection, and lifted for an address that is allowlisted.
Gate == Config({}, Lim(2, 2), Lim(0, 0), 1, 1)
Lenient == Config({}, Lim(0, 0), Lim(0, 0), 0, 2)
Tiny == Config({}, Lim(1, 1), Lim(0, 0), 0, 0)
Trusted == Config({"a"}, Lim(2, 2), Lim(0, 0), 1, 1)

MCConfigs == {Fast, Slow, Gate, Lenient, Tiny, Trusted}
MCInitConfigs == {Fast, Slow, Gate}
MCReloads ==
  [c \in MCConfigs |-> CASE c = Gate -> {Lenient, Tiny, Trusted}
                         [] c = Lenient -> {Gate}
                         [] OTHER -> {}]
MCMaxTime == [c \in MCConfigs |-> CASE c = Fast -> 2 [] c = Slow -> 3 [] OTHER -> 1]
MCMaxCharged == [c \in MCConfigs |-> IF c \in {Fast, Slow} THEN 5 ELSE 0]

\* The connection slots are interchangeable.
Slots == Permutations(Conns)
============================================================================
