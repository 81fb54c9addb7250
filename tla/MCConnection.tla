--------------------------- MODULE MCConnection ---------------------------
(* The routes, clients and answers of the model-checked instances.         *)
EXTENDS Connection, TLC

Client(via, permitted, complete) ==
  [via |-> via, permitted |-> permitted, complete |-> complete]

\* A refused client, one whose hello is incomplete, and a forwarded connection
\* besides the ordinary one.
MixedClients ==
  {Client("client", TRUE, TRUE), Client("client", FALSE, TRUE),
   Client("client", TRUE, FALSE), Client("ingress", TRUE, TRUE)}

Plain ==
  [name |-> "plain", suspended |-> FALSE, restricted |-> FALSE, limited |-> FALSE,
   failover |-> FALSE, drain |-> FALSE, spill |-> FALSE, terminate |-> TRUE,
   cert |-> TRUE, requireCert |-> FALSE]

\* A suspended, source-restricted, rate-limited route.
Held == [Plain EXCEPT !.name = "held", !.suspended = TRUE, !.restricted = TRUE,
                      !.limited = TRUE]

\* Failover routes: terminating, with a required certificate, draining and
\* passing through; and a suspended one.
Guarded == [Plain EXCEPT !.name = "guarded", !.failover = TRUE, !.spill = TRUE]
Certified == [Guarded EXCEPT !.name = "certified", !.requireCert = TRUE]
Draining == [Guarded EXCEPT !.name = "draining", !.drain = TRUE, !.terminate = FALSE,
                            !.restricted = TRUE]
HeldGuarded == [Guarded EXCEPT !.name = "heldGuarded", !.suspended = TRUE]
Uncertified == [Plain EXCEPT !.name = "uncertified", !.cert = FALSE]

AllRoutes == {Plain, Held, Guarded, Certified, Draining, HeldGuarded, Uncertified}

MCAnswers == {a \in [kind : {"route"}, permits : BOOLEAN, terminate : BOOLEAN] :
                a.permits = a.terminate}

ConnSymmetry == Permutations(Conns)

============================================================================
