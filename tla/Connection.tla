---------------------------- MODULE Connection ----------------------------
(***************************************************************************)
(* The life of a client connection (src/listener.rs accept_loop and        *)
(* src/proxy_conn.rs handle, connect_or_forward), with the registry of     *)
(* suspended connections (src/suspended.rs) and the JavaScript side that   *)
(* resolves them (src/proxy.rs resolve_connection).                        *)
(*                                                                         *)
(* Every await of handle() is a value of pc; what runs between two awaits  *)
(* is one action.  Accept loops, connection tasks and the JavaScript       *)
(* thread run in parallel.  The outcome of an await (bytes, errors,        *)
(* timeouts), the verdict of Protection, the health of the local upstream  *)
(* and the peers' answers are the environment's; Protection, TokenBucket   *)
(* and FailoverPeers model them.                                           *)
(***************************************************************************)
EXTENDS Integers, FiniteSets

CONSTANTS
  Conns,          \* client connections, each made once
  Clients,        \* what a client may be: records of via, permitted, complete
  Routes,         \* the routes a lookup may find
  InitRoute,
  Answers,        \* routes resolveConnection() may be given
  MaxConnections  \* 0: unlimited

NoRoute == [name |-> "none"]
NoAnswer == [kind |-> "none"]
Reject == [kind |-> "reject"]
Empty == [from |-> 0, answer |-> NoAnswer]

\* A route counts as one that requires a certificate only if it terminates TLS
\* (build_route: requires_client_cert).
ASSUME ConnectionConstants ==
  /\ IsFiniteSet(Conns)
  /\ MaxConnections \in Nat
  /\ Clients # {}
  /\ Clients \subseteq [via : {"client", "ingress"}, permitted : BOOLEAN, complete : BOOLEAN]
  /\ InitRoute \in Routes \cup {NoRoute}
  /\ NoRoute \notin Routes
  /\ Routes \subseteq [name : STRING, suspended : BOOLEAN, restricted : BOOLEAN, limited : BOOLEAN,
                       failover : BOOLEAN, drain : BOOLEAN, spill : BOOLEAN, terminate : BOOLEAN,
                       cert : BOOLEAN, requireCert : BOOLEAN]
  /\ \A r \in Routes : r.requireCert => r.terminate
  /\ Answers \cap {NoAnswer, Reject} = {}

Ids == 1 .. Cardinality(Conns)
NoId == 0

VARIABLES
  table,          \* what the live route table resolves the name to
  active,         \* GlobalMetrics.active_connections
  pendingGauge,   \* GlobalMetrics.pending_suspended
  counter,        \* SuspendedRegistry.counter
  pending,        \* SuspendedRegistry.pending: the ids with a sender
  inbox,          \* what a sender put in the oneshot of a connection
  call,           \* resolveConnection() between its check and its send
  conn            \* per connection: its task's locals, see Task

vars == <<table, active, pendingGauge, counter, pending, inbox, call, conn>>
registry == <<counter, pending, inbox, call>>

----------------------------------------------------------------------------

\* The locals of a task.  got: the message of its oneshot; mode: whether a forward
\* has the local upstream to fall back to; hello: the ClientHello has been consumed; upstream: the
\* local upstream is connected; connectErrors: UpstreamConnect errors counted;
\* charged: it took one of the route's tokens; heard: JavaScript was told of it.
NoTask == [pc |-> "out", client |-> CHOOSE k \in Clients : TRUE, route |-> NoRoute,
           id |-> NoId, got |-> Empty, mode |-> "none", forwards |-> 0, hello |-> FALSE,
           verified |-> FALSE, upstream |-> FALSE, connectErrors |-> 0,
           charged |-> FALSE, heard |-> FALSE, end |-> "none"]

\* Where a connection is inside handle(), counted in active from its first step.
InHandle == {"reading", "suspended", "expired", "forwarding", "peerTunnel",
             "connecting", "handshaking", "reconnecting", "tunnel"}

Goto(c, pc) == conn' = [conn EXCEPT ![c].pc = pc]

\* The task returns: ActiveGuard drops.
Return(c, locals, reason) ==
  /\ conn' = [conn EXCEPT ![c] = [locals EXCEPT !.pc = "closed", !.upstream = FALSE,
                                                !.end = reason]]
  /\ active' = active - 1

\* An UpstreamConnect error is counted against the route.
Counted(locals) == [locals EXCEPT !.connectErrors = @ + 1]

Init ==
  /\ table = InitRoute
  /\ active = 0
  /\ pendingGauge = 0
  /\ counter = 1
  /\ pending = {}
  /\ inbox = [c \in Conns |-> Empty]
  /\ call = [id |-> NoId, answer |-> NoAnswer]
  /\ conn = [c \in Conns |-> NoTask]

----------------------------------------------------------------------------
(* Acceptance                                                              *)

Full == MaxConnections > 0 /\ active >= MaxConnections

\* An accept loop reads the counter and drops the stream or spawns a task.
Accept(c) ==
  /\ conn[c].pc = "out"
  /\ \E client \in Clients :
       conn' = [conn EXCEPT ![c].client = client,
                            ![c].pc = IF Full THEN "closed" ELSE "spawned",
                            ![c].end = IF Full THEN "maxConnections" ELSE "none"]
  /\ UNCHANGED <<table, active, pendingGauge, registry>>

\* The spawned task runs: only now is the connection counted.
Begin(c) ==
  /\ conn[c].pc = "spawned"
  /\ active' = active + 1
  /\ Goto(c, "reading")
  /\ UNCHANGED <<table, pendingGauge, registry>>

\* The task ends before a route is looked up: an untrusted or malformed ingress
\* header, a load query answered, or a connection Protection blocks.
EndEarly(c) ==
  /\ conn[c].pc = "reading"
  /\ \/ /\ conn[c].client.via = "ingress"
        /\ \E reason \in {"untrusted", "badHeader", "loadQuery"} :
             Return(c, conn[c], reason)
     \/ Return(c, conn[c], "protection")
  /\ UNCHANGED <<table, pendingGauge, registry>>

----------------------------------------------------------------------------
(* Routing                                                                 *)

\* failover::decide.  A spill is a forward the environment may ask for.
Decide(client, route, down) ==
  IF client.via = "ingress"
  THEN IF down \/ route.drain THEN "refuse" ELSE "local"
  ELSE IF route.suspended THEN "local"
  ELSE IF down \/ route.drain THEN "forward"
  ELSE "localOrSpill"

HasPeers(c) ==
  /\ conn[c].route.failover
  /\ ~ conn[c].route.suspended
  /\ conn[c].client.via = "client"

\* A terminating route connects before the handshake only when a peer could still
\* take the connection, and never before a required certificate is verified.
ConnectsEarly(client, route) ==
  /\ route.failover
  /\ ~ route.suspended
  /\ client.via = "client"
  /\ client.complete
  /\ ~ route.requireCert

\* Step 5 of handle(), for the route in force: the await it reaches.
ServeLocally(c, locals, terminate, cert) ==
  IF terminate /\ ~ cert
  THEN Return(c, locals, "noCert")
  ELSE /\ conn' = [conn EXCEPT ![c] =
                     [locals EXCEPT !.pc =
                        IF terminate /\ ~ ConnectsEarly(locals.client, locals.route)
                        THEN "handshaking" ELSE "connecting"]]
       /\ UNCHANGED active

\* SuspendedRegistry::register: fetch_add gives the value before.
FreshId == counter

\* Step 4: register a oneshot and tell JavaScript, whose event queue may be full.
Suspend(c, locals) ==
  /\ pendingGauge' = pendingGauge + 1
  /\ counter' = counter + 1
  /\ pending' = pending \cup {FreshId}
  /\ \E heard \in BOOLEAN :
       conn' = [conn EXCEPT ![c] = [locals EXCEPT !.pc = "suspended", !.id = FreshId,
                                                  !.heard = heard]]
  /\ UNCHANGED <<active, inbox, call>>

Forward(c, locals, mode) ==
  /\ conn' = [conn EXCEPT ![c] = [locals EXCEPT !.pc = "forwarding", !.mode = mode,
                                                !.forwards = @ + 1]]
  /\ UNCHANGED active

\* What follows the failover decision for a connection this node serves.
Serve(c, locals) ==
  IF locals.route.suspended
  THEN Suspend(c, locals)
  ELSE /\ ServeLocally(c, locals, locals.route.terminate, locals.route.cert)
       /\ UNCHANGED <<pendingGauge, registry>>

\* Mutant of SourcePermitted: the route's own list is not consulted when the
\* route is suspended.
SourcePermittedLater(client, route) ==
  route.restricted => client.permitted \/ route.suspended

SourcePermitted(client, route) == route.restricted => client.permitted

\* Protection let the connection through: route lookup, source list, rate limit,
\* failover decision and, if suspended, registration.
Dispatch(c) ==
  LET client == conn[c].client
      known == [conn[c] EXCEPT !.route = table]
      paid == [known EXCEPT !.charged = table.limited]
  IN  /\ conn[c].pc = "reading"
      /\ \/ /\ table = NoRoute
            /\ Return(c, conn[c], "noRoute")
            /\ UNCHANGED <<pendingGauge, registry>>
         \/ /\ table # NoRoute
            /\ ~ SourcePermitted(client, table)
            /\ Return(c, known, "sourceNotAllowed")
            /\ UNCHANGED <<pendingGauge, registry>>
         \/ /\ table # NoRoute
            /\ SourcePermitted(client, table)
            /\ \/ /\ table.limited
                  /\ Return(c, known, "rateLimited")
                  /\ UNCHANGED <<pendingGauge, registry>>
               \/ /\ ~ table.failover
                  /\ Serve(c, paid)
               \/ /\ table.failover
                  /\ \E down \in BOOLEAN :
                       LET decision == Decide(client, table, down)
                       IN  \/ /\ decision = "refuse"
                              /\ Return(c, paid, "locallyDown")
                              /\ UNCHANGED <<pendingGauge, registry>>
                           \/ /\ \/ decision = "forward"
                                 \/ decision = "localOrSpill" /\ table.spill
                              /\ Forward(c, paid, IF down THEN "down" ELSE "fallback")
                              /\ UNCHANGED <<pendingGauge, registry>>
                           \/ /\ decision \in {"local", "localOrSpill"}
                              /\ Serve(c, paid)
      /\ UNCHANGED table

----------------------------------------------------------------------------
(* Suspension                                                              *)

\* Mutant of DecSuspended: a rejection or timeout leaves the gauge alone.
DecSuspendedIfResolved(resolved) == IF resolved THEN pendingGauge - 1 ELSE pendingGauge

DecSuspended(resolved) == pendingGauge - 1

\* The oneshot delivers a route: timeout() polls it before its timer.
Resolved(c) ==
  LET locals == [conn[c] EXCEPT !.got = inbox[c]]
      answer == inbox[c].answer
  IN  /\ conn[c].pc = "suspended"
      /\ answer \notin {NoAnswer, Reject}
      /\ pendingGauge' = DecSuspended(TRUE)
      /\ IF answer.permits
         THEN ServeLocally(c, locals, answer.terminate, TRUE)
         ELSE Return(c, locals, "sourceNotAllowed")
      /\ UNCHANGED <<table, registry>>

\* It delivers a rejection, or the timer fires first.
Unresolved(c) ==
  /\ conn[c].pc = "suspended"
  /\ inbox[c].answer \in {NoAnswer, Reject}
  /\ Goto(c, "expired")
  /\ UNCHANGED <<table, active, pendingGauge, registry>>

\* SuspendedRegistry::remove
Withdrawn(id) == pending \ {id}

Withdraw(c) ==
  /\ conn[c].pc = "expired"
  /\ pending' = Withdrawn(conn[c].id)
  /\ pendingGauge' = DecSuspended(FALSE)
  /\ Return(c, conn[c], "suspendUnresolved")
  /\ UNCHANGED <<table, counter, inbox, call>>

\* resolveConnection(): an id that is not pending is ignored.  A route that does
\* not parse or build is sent as a rejection.
ResolveCheck ==
  /\ call.id = NoId
  /\ \E id \in pending, answer \in Answers \cup {Reject} :
       call' = [id |-> id, answer |-> answer]
  /\ UNCHANGED <<table, active, pendingGauge, counter, pending, inbox, conn>>

Receivers(id) == {c \in Conns : conn[c].id = id}

\* SuspendedRegistry::resolve: only the one that takes the sender out sends; a
\* receiver that is gone ignores it.
ResolveSend ==
  /\ call.id # NoId
  /\ pending' = pending \ {call.id}
  /\ inbox' = IF call.id \in pending
              THEN [c \in Conns |-> IF c \in Receivers(call.id)
                                    THEN [from |-> call.id, answer |-> call.answer]
                                    ELSE inbox[c]]
              ELSE inbox
  /\ call' = [id |-> NoId, answer |-> NoAnswer]
  /\ UNCHANGED <<table, active, pendingGauge, counter, conn>>

----------------------------------------------------------------------------
(* Peers, the local upstream, and the handshake                            *)

\* No peer took a connection that cannot be served locally.  After a failed local
\* connect it is the failure already counted.
Exhausted(locals) ==
  IF locals.connectErrors > 0 THEN locals ELSE Counted(locals)

\* A forward for a drain or a spill falls back to the local upstream; one for a
\* route that is down, or whose local connect failed, ends the connection.
ForwardFails(c) ==
  /\ conn[c].pc = "forwarding"
  /\ \/ /\ conn[c].mode = "down"
        /\ Return(c, Exhausted(conn[c]), "upstreamConnect")
     \/ /\ conn[c].mode = "fallback"
        /\ ServeLocally(c, conn[c], conn[c].route.terminate, conn[c].route.cert)
  /\ UNCHANGED <<table, pendingGauge, registry>>

\* A peer's first byte commits the connection: the hello is read from the client.
PeerTakes(c) ==
  /\ conn[c].pc = "forwarding"
  /\ conn[c].client.complete
  /\ conn' = [conn EXCEPT ![c].pc = "peerTunnel", ![c].hello = TRUE]
  /\ UNCHANGED <<table, active, pendingGauge, registry>>

ConnectSucceeds(c) ==
  LET terminate == IF conn[c].route.suspended THEN conn[c].got.answer.terminate
                   ELSE conn[c].route.terminate
  IN  /\ conn[c].pc = "connecting"
      /\ conn' = [conn EXCEPT ![c].upstream = TRUE,
                              ![c].pc = IF terminate THEN "handshaking" ELSE "tunnel"]
      /\ UNCHANGED <<table, active, pendingGauge, registry>>

\* Counted at once; with peers, the connection goes to them.
ConnectFails(c) ==
  /\ conn[c].pc = "connecting"
  /\ \/ HasPeers(c) /\ Forward(c, Counted(conn[c]), "down")
     \/ ~ HasPeers(c) /\ Return(c, Counted(conn[c]), "upstreamConnect")
  /\ UNCHANGED <<table, pendingGauge, registry>>

\* The early upstream is used unless another protocol was negotiated than
\* predicted or it has closed meanwhile; then it is dropped and connected again.
HandshakeDone(c) ==
  /\ conn[c].pc = "handshaking"
  /\ \/ /\ conn[c].upstream
        /\ conn' = [conn EXCEPT ![c].pc = "tunnel", ![c].hello = TRUE, ![c].verified = TRUE]
     \/ conn' = [conn EXCEPT ![c].pc = "reconnecting", ![c].hello = TRUE,
                             ![c].verified = TRUE, ![c].upstream = FALSE]
  /\ UNCHANGED <<table, active, pendingGauge, registry>>

HandshakeFails(c) ==
  /\ conn[c].pc = "handshaking"
  /\ Return(c, [conn[c] EXCEPT !.hello = TRUE], "tlsHandshake")
  /\ UNCHANGED <<table, pendingGauge, registry>>

\* Mutant of AfterReconnectFails: peers are tried after the handshake, too.
AfterReconnectFailsForwarded(c) ==
  IF HasPeers(c) THEN Forward(c, Counted(conn[c]), "down")
  ELSE Return(c, Counted(conn[c]), "upstreamConnect")

AfterReconnectFails(c) == Return(c, Counted(conn[c]), "upstreamConnect")

Reconnect(c) ==
  /\ conn[c].pc = "reconnecting"
  /\ \/ /\ conn' = [conn EXCEPT ![c].pc = "tunnel", ![c].upstream = TRUE]
        /\ UNCHANGED active
     \/ AfterReconnectFails(c)
  /\ UNCHANGED <<table, pendingGauge, registry>>

TunnelEnds(c) ==
  /\ conn[c].pc \in {"tunnel", "peerTunnel"}
  /\ Return(c, conn[c], "done")
  /\ UNCHANGED <<table, pendingGauge, registry>>

\* updateConfig() swaps the route table under the connections.
Reload ==
  /\ \E r \in Routes \cup {NoRoute} : r # table /\ table' = r
  /\ UNCHANGED <<active, pendingGauge, registry, conn>>

----------------------------------------------------------------------------

\* Every await before the tunnel is bounded by a timeout, so a task moves on.
Advance(c) ==
  \/ Begin(c) \/ EndEarly(c) \/ Dispatch(c)
  \/ Resolved(c) \/ Unresolved(c) \/ Withdraw(c)
  \/ ForwardFails(c) \/ PeerTakes(c) \/ ConnectSucceeds(c) \/ ConnectFails(c)
  \/ HandshakeDone(c) \/ HandshakeFails(c) \/ Reconnect(c)

Next ==
  \/ \E c \in Conns : Accept(c) \/ Advance(c) \/ TunnelEnds(c)
  \/ ResolveCheck
  \/ ResolveSend
  \/ Reload

Spec == Init /\ [][Next]_vars

----------------------------------------------------------------------------
(* Properties                                                              *)

\* The shape of the state.
TypeOK ==
  /\ table \in Routes \cup {NoRoute}
  /\ active \in 0 .. Cardinality(Conns)
  /\ pendingGauge \in 0 .. Cardinality(Conns)
  /\ counter \in 1 .. Cardinality(Conns) + 1
  /\ pending \subseteq Ids
  /\ inbox \in [Conns -> [from : Ids \cup {NoId}, answer : Answers \cup {NoAnswer, Reject}]]
  /\ call \in [id : Ids \cup {NoId}, answer : Answers \cup {NoAnswer, Reject}]
  /\ \A c \in Conns :
       /\ conn[c].pc \in InHandle \cup {"out", "spawned", "closed"}
       /\ conn[c].client \in Clients
       /\ conn[c].route \in Routes \cup {NoRoute}
       /\ conn[c].id \in Ids \cup {NoId}
       /\ conn[c].mode \in {"none", "down", "fallback"}
       /\ conn[c].forwards \in 0 .. 2
       /\ conn[c].connectErrors \in 0 .. 2

Waiting == {c \in Conns : conn[c].pc \in {"suspended", "expired"}}

\* The gauges return to zero: they count the connections in handle() and the
\* suspended ones on every path out, whoever wins the race of an answer with the
\* timeout.
GaugesAgree ==
  /\ active = Cardinality({c \in Conns : conn[c].pc \in InHandle})
  /\ pendingGauge = Cardinality(Waiting)

\* The registry holds a sender exactly for the connections that still wait for
\* their first answer: no entry outlives its connection, none is answered twice.
RegistryMatchesWaiters ==
  pending = {conn[c].id : c \in {d \in Waiting : inbox[d] = Empty}}

\* A suspended connection is served only by a route JavaScript sent for its own
\* id, one that permits the client.
ServedByOwnAnswer ==
  \A c \in Conns :
    /\ conn[c].route # NoRoute
    /\ conn[c].route.suspended
    /\ conn[c].pc \in {"connecting", "handshaking", "reconnecting", "tunnel"}
    => /\ conn[c].id # NoId
       /\ conn[c].got.from = conn[c].id
       /\ conn[c].got.answer.permits

\* A peer the route's source list refuses "spends none of the route's tokens" and
\* "JS never hears of it" (proxy_conn.rs), and it never reaches an upstream.
RefusedSourceLeavesNoTrace ==
  \A c \in Conns :
    /\ conn[c].route # NoRoute
    /\ conn[c].route.restricted
    /\ ~ conn[c].client.permitted
    => ~ conn[c].charged /\ ~ conn[c].heard /\ ~ conn[c].upstream /\ ~ conn[c].hello

\* "An ingress connection is never forwarded again": no forwarding loop between
\* nodes.
IngressNeverForwarded ==
  \A c \in Conns : conn[c].client.via = "ingress" => conn[c].forwards = 0

\* A connection goes to the peers only while its ClientHello is unread, so a peer
\* or the local handshake can still be given all of it.
ForwardsUnreadHello ==
  \A c \in Conns : conn[c].pc = "forwarding" => ~ conn[c].hello /\ ~ conn[c].upstream

\* "A route requiring a client certificate lets no client reach its upstream
\* before the certificate is verified" (proxy_conn.rs).
VerifiedBeforeUpstream ==
  \A c \in Conns :
    /\ conn[c].upstream
    /\ ~ conn[c].route.suspended
    /\ conn[c].route.requireCert
    => conn[c].verified

\* What may serve a connection, on every path through handle(): the route JavaScript
\* chose for it, a peer while its hello is unread and it is not a peer's, an upstream
\* once the certificate is verified.
ServedAsAllowed ==
  ServedByOwnAnswer /\ IngressNeverForwarded /\ ForwardsUnreadHello /\ VerifiedBeforeUpstream

\* "An exhausted forward is the failure just counted, not a second one"
\* (proxy_conn.rs): on no path does a connection count two failed connects.
ConnectFailureCountedOnce == \A c \in Conns : conn[c].connectErrors <= 1

\* Every count that outlives an await is exact on every path: the two gauges, the
\* registry of suspended connections and the failed connects (proxy_conn.rs
\* handle, suspended.rs).
Accounted == TypeOK /\ GaugesAgree /\ RegistryMatchesWaiters /\ ConnectFailureCountedOnce

\* "Drop new connections when active count reaches this" (README.md).  Violated:
\* the counter is read at accept and raised by the spawned task.
ActiveWithinLimit == MaxConnections > 0 => active <= MaxConnections

============================================================================
