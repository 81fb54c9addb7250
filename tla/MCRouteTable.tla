--------------------------- MODULE MCRouteTable ---------------------------
(***************************************************************************)
(* Instances of RouteTable: one exact name under one wildcard, the default *)
(* route, one more name under the wildcard and one under nothing.          *)
(***************************************************************************)
EXTENDS RouteTable, SequencesExt, TLC

MCWildcardOf ==
  "a.w" :> "*.w" @@ "b.w" :> "*.w" @@ "z" :> NoName @@ DefaultSni :> NoName

Plain(sni) ==
  [sni |-> sni, auth |-> "none", cert |-> "c1", upstreams |-> TRUE, declared |-> TRUE,
   allow |-> "any", failover |-> "none"]

\* What an edit or a rotation may turn a healthy spec into.
Edits(s) ==
  {s, [s EXCEPT !.cert = "c2"],
   [s EXCEPT !.auth = "ca", !.cert = "mismatched", !.failover = "valid"],
   [s EXCEPT !.cert = "mismatched", !.allow = "listed"],
   [s EXCEPT !.auth = Passthrough, !.upstreams = FALSE, !.failover = "invalid"]}
Rotations(s) == {s, [s EXCEPT !.cert = "c3", !.upstreams = FALSE]}
Undeclared(s) == [s EXCEPT !.declared = FALSE]

\* The specs a run gives an SNI.
SpecsOf(sni) ==
  CASE sni = "a.w" -> Edits(Plain(sni)) \cup {Undeclared(Plain(sni))}
    [] sni = "*.w" -> Rotations(Plain(sni)) \cup {Undeclared(Plain(sni))}
    [] OTHER -> {[Plain(sni) EXCEPT !.auth = Passthrough]}

\* At most two SNIs are configured, once each, or one SNI is configured twice.
Optional(sni) == {<<>>} \cup {<<s>> : s \in SpecsOf(sni)}
Pairs(s, t) == {a \o b : a \in Optional(s), b \in Optional(t)}
Distinct == Pairs("a.w", "*.w") \cup Pairs("a.w", DefaultSni) \cup Pairs("*.w", DefaultSni)
Twice(sni) == {<<Plain(sni), Undeclared(Plain(sni))>>, <<Undeclared(Plain(sni)), Plain(sni)>>}
Duplicates == UNION {Twice(sni) : sni \in Snis}

MCResolvedKeys == {<<"r1", "none">>, <<"c1", "none">>}

MCSpecLists == Distinct \cup Duplicates
=============================================================================
