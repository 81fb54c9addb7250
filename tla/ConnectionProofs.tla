-------------------------- MODULE ConnectionProofs --------------------------
(***************************************************************************)
(* The life of a connection for any number of connections, any clients,    *)
(* routes and answers, and any connection limit: what TLC checks on two    *)
(* connections in MCConnection.                                            *)
(***************************************************************************)
EXTENDS Connection, FiniteSetTheorems, TLAPS

Pcs == InHandle \cup {"out", "spawned", "closed"}
SentAnswers == Answers \cup {NoAnswer, Reject}
Messages == [from : Ids \cup {NoId}, answer : SentAnswers]

Reasons ==
  {"none", "maxConnections", "untrusted", "badHeader", "loadQuery", "protection", "noRoute",
   "sourceNotAllowed", "rateLimited", "locallyDown", "noCert", "suspendUnresolved",
   "upstreamConnect", "tlsHandshake", "done"}

Tasks ==
  [pc : Pcs, client : Clients, route : Routes \cup {NoRoute}, id : Ids \cup {NoId},
   got : Messages, mode : {"none", "down", "fallback"}, forwards : 0 .. 2,
   hello : BOOLEAN, verified : BOOLEAN, upstream : BOOLEAN, connectErrors : 0 .. 2,
   charged : BOOLEAN, heard : BOOLEAN, end : Reasons]

\* The full shape of the state: that of TypeOK, with the records of the tasks whole
\* and the counts not yet bounded.
Shape ==
  /\ table \in Routes \cup {NoRoute}
  /\ active \in Int
  /\ pendingGauge \in Int
  /\ counter \in Nat \ {0}
  /\ pending \subseteq Ids
  /\ inbox \in [Conns -> Messages]
  /\ call \in [id : Ids \cup {NoId}, answer : SentAnswers]
  /\ conn \in [Conns -> Tasks]

----------------------------------------------------------------------------
(* What is known of a task at each of its awaits                           *)

\* Up to the lookup nothing has been decided.
Undecided(t) ==
  t.pc \in {"out", "spawned", "reading"} =>
    /\ t.route = NoRoute /\ t.id = NoId
    /\ t.forwards = 0 /\ t.connectErrors = 0
    /\ ~ t.charged /\ ~ t.heard

\* Until a peer or the handshake takes it, the hello is unread and no upstream is open.
Unread(t) ==
  t.pc \in {"out", "spawned", "reading", "suspended", "expired", "forwarding", "connecting"} =>
    ~ t.hello /\ ~ t.upstream

\* From the lookup on there is a route that admits the client.
Routed(t) ==
  t.pc \in InHandle \ {"reading"} => t.route \in Routes /\ SourcePermitted(t.client, t.route)

OnHold(t) ==
  t.pc \in {"suspended", "expired"} =>
    t.id # NoId /\ t.route.suspended /\ t.connectErrors = 0 /\ t.forwards = 0

Serving == {"connecting", "handshaking", "reconnecting", "tunnel"}

\* A connection with peers to fall back to has counted nothing yet.
InForward(t) ==
  t.pc = "forwarding" =>
    /\ ~ t.route.suspended
    /\ t.client.via = "client"
    /\ t.mode \in {"down", "fallback"}
    /\ t.mode = "fallback" => t.connectErrors = 0 /\ t.forwards <= 1

Served(t) ==
  t.pc \in Serving =>
    /\ t.connectErrors = 0 /\ t.forwards <= 1
    /\ t.route.suspended =>
         t.id # NoId /\ t.got.from = t.id /\ t.got.answer.permits

\* No way leads to an upstream around the certificate.
CertFirst(t) ==
  /\ t.pc = "connecting" /\ ~ t.route.suspended => ~ t.route.requireCert
  /\ t.pc = "reconnecting" => t.verified
  /\ t.upstream => t.pc \in {"handshaking", "tunnel"}
  /\ t.upstream /\ ~ t.route.suspended /\ t.route.requireCert => t.verified

NoTrace(t) ==
  /\ t.route # NoRoute
  /\ t.route.restricted
  /\ ~ t.client.permitted
  => ~ t.charged /\ ~ t.heard /\ ~ t.upstream /\ ~ t.hello

PathOK(t) ==
  /\ Undecided(t) /\ Unread(t) /\ Routed(t) /\ OnHold(t) /\ InForward(t) /\ Served(t)
  /\ CertFirst(t) /\ NoTrace(t)
  /\ t.connectErrors <= 1
  /\ t.client.via = "ingress" => t.forwards = 0

----------------------------------------------------------------------------
(* What is known of the registry                                           *)

\* Ids are given out once, in order.
Numbered == {c \in Conns : conn[c].id # NoId}

IdsFresh ==
  /\ counter = Cardinality(Numbered) + 1
  /\ \A c \in Conns : conn[c].id < counter
  /\ \A c, d \in Conns : conn[c].id = conn[d].id /\ conn[c].id # NoId => c = d

\* What lies in a oneshot was sent to its own id.
Delivered ==
  /\ \A c \in Conns : inbox[c] # Empty =>
       conn[c].id # NoId /\ inbox[c].from = conn[c].id /\ inbox[c].answer # NoAnswer
  /\ call.id # NoId => call.answer # NoAnswer

Inside == {c \in Conns : conn[c].pc \in InHandle}

IInv ==
  /\ Shape
  /\ \A c \in Conns : PathOK(conn[c])
  /\ active = Cardinality(Inside)
  /\ pendingGauge = Cardinality(Waiting)
  /\ RegistryMatchesWaiters
  /\ IdsFresh
  /\ Delivered

----------------------------------------------------------------------------
(* A step of one task                                                      *)

In(t) == IF t.pc \in InHandle THEN 1 ELSE 0
Waits(t) == t.pc \in {"suspended", "expired"}

\* Task c becomes t, and the gauge of active connections follows.
Moves(c, t) ==
  /\ t \in Tasks
  /\ PathOK(t)
  /\ conn' = [conn EXCEPT ![c] = t]
  /\ active' = active + In(t) - In(conn[c])

\* A step that neither starts nor ends a suspension.
Plainly(c) ==
  /\ \E t \in Tasks : Moves(c, t) /\ t.id = conn[c].id /\ (Waits(t) <=> Waits(conn[c]))
  /\ UNCHANGED <<pendingGauge, registry>>

\* One element more, one element less.
LEMMA CountOne ==
  ASSUME NEW S, IsFiniteSet(S), NEW T, NEW x
  PROVE  /\ x \notin S /\ T = S \cup {x} => Cardinality(T) = Cardinality(S) + 1
         /\ x \in S /\ T = S \ {x} => Cardinality(T) = Cardinality(S) - 1
BY FS_AddElement, FS_RemoveElement

\* The gauge of active connections stays exact when one task moves.
LEMMA ActiveMoves ==
  ASSUME Shape, active = Cardinality(Inside), NEW c \in Conns, NEW t, Moves(c, t)
  PROVE  /\ conn' \in [Conns -> Tasks]
         /\ conn'[c] = t
         /\ \A d \in Conns : d # c => conn'[d] = conn[d]
         /\ active' \in Int
         /\ active' = Cardinality(Inside')
<1>1. /\ conn' \in [Conns -> Tasks]
      /\ conn'[c] = t
      /\ \A d \in Conns : d # c => conn'[d] = conn[d]
  BY DEF Moves, Shape
<1>2. IsFiniteSet(Inside)
  BY FS_Subset, ConnectionConstants DEF Inside
<1>3. /\ t.pc \in InHandle => Inside' = Inside \cup {c}
      /\ t.pc \notin InHandle => Inside' = Inside \ {c}
      /\ c \in Inside <=> conn[c].pc \in InHandle
  BY <1>1 DEF Inside
<1>4. Cardinality(Inside) \in Nat
  BY <1>2, FS_CardinalityType
<1>5. active' = Cardinality(Inside')
  <2>1. CASE t.pc \in InHandle /\ c \notin Inside
    <3>1. Cardinality(Inside') = Cardinality(Inside) + 1
      BY <1>2, <1>3, <2>1, CountOne
    <3> QED
      BY <3>1, <2>1, <1>3, <1>4 DEF Moves, In
  <2>2. CASE t.pc \in InHandle /\ c \in Inside
    <3>1. Inside' = Inside
      BY <1>3, <2>2
    <3> QED
      BY <3>1, <2>2, <1>3, <1>4 DEF Moves, In
  <2>3. CASE t.pc \notin InHandle /\ c \in Inside
    <3>1. Cardinality(Inside') = Cardinality(Inside) - 1
      BY <1>2, <1>3, <2>3, CountOne
    <3> QED
      BY <3>1, <2>3, <1>3, <1>4 DEF Moves, In
  <2>4. CASE t.pc \notin InHandle /\ c \notin Inside
    <3>1. Inside' = Inside
      BY <1>3, <2>4
    <3> QED
      BY <3>1, <2>4, <1>3, <1>4 DEF Moves, In
  <2> QED
    BY <2>1, <2>2, <2>3, <2>4
<1> QED
  BY <1>1, <1>4, <1>5 DEF Moves, In

\* Whatever a task does outside of a suspension, the registry still matches.
LEMMA PlainStep ==
  ASSUME IInv, NEW c \in Conns, Plainly(c), table' \in Routes \cup {NoRoute}
  PROVE  IInv'
<1> USE DEF IInv
<1>1. PICK t \in Tasks : Moves(c, t) /\ t.id = conn[c].id /\ (Waits(t) <=> Waits(conn[c]))
  BY DEF Plainly
<1>2. UNCHANGED <<pendingGauge, counter, pending, inbox, call>>
  BY DEF Plainly, registry
<1>3. /\ conn' \in [Conns -> Tasks]
      /\ conn'[c] = t
      /\ \A d \in Conns : d # c => conn'[d] = conn[d]
      /\ active' \in Int
      /\ active' = Cardinality(Inside')
  BY <1>1, ActiveMoves
<1>4. Shape'
  BY <1>2, <1>3 DEF Shape
<1>5. \A d \in Conns : PathOK(conn'[d])
  BY <1>1, <1>3 DEF Moves
<1>6. \A d \in Conns : conn'[d].id = conn[d].id /\ (Waits(conn'[d]) <=> Waits(conn[d]))
  BY <1>1, <1>3
<1>7. Waiting' = Waiting /\ Numbered' = Numbered
  BY <1>6 DEF Waiting, Waits, Numbered
<1>8. RegistryMatchesWaiters'
  BY <1>2, <1>6, <1>7 DEF RegistryMatchesWaiters, Waiting
<1>9. IdsFresh' /\ Delivered'
  BY <1>2, <1>6, <1>7 DEF IdsFresh, Delivered
<1> QED
  BY <1>2, <1>3, <1>4, <1>5, <1>7, <1>8, <1>9

----------------------------------------------------------------------------
(* What the parts of handle() do to a task                                 *)

\* A task that returns is counted no longer.
LEMMA ReturnMoves ==
  ASSUME Shape, NEW c \in Conns, conn[c].pc \in InHandle, NEW locals \in Tasks,
         NoTrace(locals), locals.connectErrors <= 1,
         locals.client.via = "ingress" => locals.forwards = 0,
         NEW reason \in Reasons, Return(c, locals, reason)
  PROVE  \E t \in Tasks : Moves(c, t) /\ t.id = locals.id /\ ~ Waits(t)
<1> DEFINE t == [locals EXCEPT !.pc = "closed", !.upstream = FALSE, !.end = reason]
<1>1. t \in Tasks
  BY DEF Tasks, Pcs
<1>2. /\ t.pc = "closed" /\ t.upstream = FALSE
      /\ t.id = locals.id /\ t.client = locals.client /\ t.route = locals.route
      /\ t.forwards = locals.forwards /\ t.connectErrors = locals.connectErrors
      /\ t.charged = locals.charged /\ t.heard = locals.heard /\ t.hello = locals.hello
  BY DEF Tasks
<1>3. conn' = [conn EXCEPT ![c] = t] /\ active' = active - 1
  BY DEF Return
<1> HIDE DEF t
<1>4. PathOK(t)
  BY <1>2 DEF PathOK, Undecided, Unread, Routed, OnHold, InForward, Served, Serving, CertFirst,
              NoTrace, InHandle
<1>5. active' = active + In(t) - In(conn[c])
  BY <1>2, <1>3 DEF In, InHandle, Shape
<1>6. Moves(c, t)
  BY <1>1, <1>3, <1>4, <1>5 DEF Moves
<1> QED
  BY <1>1, <1>2, <1>6 DEF Waits

\* What a task must have when it turns to the local service.
MayServe(t, terminate) ==
  /\ t.route \in Routes /\ SourcePermitted(t.client, t.route)
  /\ ~ t.hello /\ ~ t.upstream
  /\ t.connectErrors = 0 /\ t.forwards <= 1
  /\ t.client.via = "ingress" => t.forwards = 0
  /\ t.route.requireCert => terminate \/ t.route.suspended
  /\ t.route.suspended => t.id # NoId /\ t.got.from = t.id /\ t.got.answer.permits

\* A task that goes on to a local service (serve_locally) moves to a legal
\* place, keeps its id and does not wait for an answer.
LEMMA ServeMoves ==
  ASSUME Shape, NEW c \in Conns, conn[c].pc \in InHandle, NEW locals \in Tasks,
         NEW terminate, NEW cert, MayServe(locals, terminate),
         ServeLocally(c, locals, terminate, cert)
  PROVE  \E t \in Tasks : Moves(c, t) /\ t.id = locals.id /\ ~ Waits(t)
<1>1. CASE terminate /\ ~ cert
  <2>1. Return(c, locals, "noCert")
    BY <1>1 DEF ServeLocally
  <2>2. NoTrace(locals) /\ locals.connectErrors <= 1
    BY DEF MayServe, NoTrace, SourcePermitted, Tasks
  <2>3. "noCert" \in Reasons
    BY DEF Reasons
  <2>4. locals.client.via = "ingress" => locals.forwards = 0
    BY DEF MayServe
  <2> QED
    BY <2>1, <2>2, <2>3, <2>4, ReturnMoves
<1>2. CASE ~ (terminate /\ ~ cert)
  <2> DEFINE pc == IF terminate /\ ~ ConnectsEarly(locals.client, locals.route)
                   THEN "handshaking" ELSE "connecting"
             t == [locals EXCEPT !.pc = pc]
  <2>1. conn' = [conn EXCEPT ![c] = t] /\ active' = active
    BY <1>2 DEF ServeLocally
  <2>2. pc \in {"handshaking", "connecting"}
    OBVIOUS
  <2>3. pc = "connecting" /\ ~ locals.route.suspended => ~ locals.route.requireCert
    BY DEF ConnectsEarly, MayServe
  <2> HIDE DEF pc
  <2>4. t \in Tasks
    BY <2>2 DEF Tasks, Pcs, InHandle
  <2>5. /\ t.pc = pc
        /\ t.id = locals.id /\ t.client = locals.client /\ t.route = locals.route
        /\ t.forwards = locals.forwards /\ t.connectErrors = locals.connectErrors
        /\ t.upstream = locals.upstream /\ t.hello = locals.hello /\ t.got = locals.got
    BY DEF Tasks
  <2> HIDE DEF t
  <2>6. PathOK(t)
    BY <2>2, <2>3, <2>5
       DEF PathOK, Undecided, Unread, Routed, OnHold, InForward, Served, Serving, CertFirst,
           NoTrace, InHandle, MayServe, SourcePermitted
  <2>7. active' = active + In(t) - In(conn[c])
    BY <2>1, <2>2, <2>5 DEF In, InHandle, Shape
  <2>8. Moves(c, t)
    BY <2>1, <2>4, <2>6, <2>7 DEF Moves
  <2> QED
    BY <2>2, <2>4, <2>5, <2>8 DEF Waits
<1> QED
  BY <1>1, <1>2

\* What a task must have when it turns to the peers.
LEMMA ForwardMoves ==
  ASSUME Shape, NEW c \in Conns, conn[c].pc \in InHandle, NEW locals \in Tasks,
         NEW mode \in {"down", "fallback"},
         locals.route \in Routes, SourcePermitted(locals.client, locals.route),
         ~ locals.hello, ~ locals.upstream, ~ locals.route.suspended,
         locals.client.via = "client", locals.connectErrors <= 1, locals.forwards <= 1,
         mode = "fallback" => locals.connectErrors = 0 /\ locals.forwards = 0,
         Forward(c, locals, mode)
  PROVE  \E t \in Tasks : Moves(c, t) /\ t.id = locals.id /\ ~ Waits(t)
<1> DEFINE t == [locals EXCEPT !.pc = "forwarding", !.mode = mode, !.forwards = @ + 1]
<1>1. conn' = [conn EXCEPT ![c] = t] /\ active' = active
  BY DEF Forward
<1>0. locals.forwards + 1 \in 0 .. 2
  BY DEF Tasks
<1>2. t \in Tasks
  BY <1>0 DEF Tasks, Pcs, InHandle
<1>3. /\ t.pc = "forwarding" /\ t.mode = mode /\ t.forwards = locals.forwards + 1
      /\ t.id = locals.id /\ t.client = locals.client /\ t.route = locals.route
      /\ t.connectErrors = locals.connectErrors
      /\ t.upstream = locals.upstream /\ t.hello = locals.hello
  BY DEF Tasks
<1> HIDE DEF t
<1>4. PathOK(t)
  BY <1>3 DEF PathOK, Undecided, Unread, Routed, OnHold, InForward, Served, Serving, CertFirst,
              NoTrace, InHandle, SourcePermitted
<1>5. active' = active + In(t) - In(conn[c])
  BY <1>1, <1>3 DEF In, InHandle, Shape
<1>6. Moves(c, t)
  BY <1>1, <1>2, <1>4, <1>5 DEF Moves
<1> QED
  BY <1>2, <1>3, <1>6 DEF Waits

----------------------------------------------------------------------------
(* The actions of a task                                                   *)

\* A task that moves on to t inside of handle(), or is not in it before and after.
LEMMA StepMoves ==
  ASSUME Shape, NEW c \in Conns, NEW t \in Tasks, PathOK(t),
         conn' = [conn EXCEPT ![c] = t], UNCHANGED active,
         t.pc \in InHandle <=> conn[c].pc \in InHandle
  PROVE  Moves(c, t)
BY DEF Moves, In, Shape

\* Each step of handle(): the moving task lands in a state its path allows,
\* and the gauges change by its part.
LEMMA AcceptStep ==
  ASSUME IInv, NEW c \in Conns, Accept(c)
  PROVE  Plainly(c)
<1>1. conn[c] \in Tasks /\ PathOK(conn[c]) /\ conn[c].pc = "out" /\ Shape
  BY DEF IInv, Shape, Accept
<1>2. PICK client \in Clients :
        conn' = [conn EXCEPT ![c].client = client,
                             ![c].pc = IF Full THEN "closed" ELSE "spawned",
                             ![c].end = IF Full THEN "maxConnections" ELSE "none"]
  BY DEF Accept
<1> DEFINE pc == IF Full THEN "closed" ELSE "spawned"
           end == IF Full THEN "maxConnections" ELSE "none"
           t == [conn[c] EXCEPT !.client = client, !.pc = pc, !.end = end]
<1>3. conn' = [conn EXCEPT ![c] = t]
  BY <1>1, <1>2 DEF Shape
<1>4. pc \in {"closed", "spawned"} /\ end \in Reasons
  BY DEF Reasons
<1> HIDE DEF pc, end
<1>5. t \in Tasks
  BY <1>1, <1>4 DEF Tasks, Pcs
<1>6. /\ t.pc \in {"closed", "spawned"}
      /\ t.id = conn[c].id /\ t.route = conn[c].route
      /\ t.forwards = conn[c].forwards /\ t.connectErrors = conn[c].connectErrors
      /\ t.charged = conn[c].charged /\ t.heard = conn[c].heard
      /\ t.upstream = conn[c].upstream /\ t.hello = conn[c].hello
  BY <1>1, <1>4 DEF Tasks
<1> HIDE DEF t
<1>7. PathOK(t)
  BY <1>1, <1>6 DEF PathOK, Undecided, Unread, Routed, OnHold, InForward, Served, Serving,
                    CertFirst, NoTrace, InHandle
<1>8. Moves(c, t)
  BY <1>1, <1>3, <1>5, <1>6, <1>7, StepMoves DEF Accept, InHandle
<1> QED
  BY <1>1, <1>5, <1>6, <1>8 DEF Plainly, Accept, Waits

LEMMA BeginStep ==
  ASSUME IInv, NEW c \in Conns, Begin(c)
  PROVE  Plainly(c)
<1>1. conn[c] \in Tasks /\ PathOK(conn[c]) /\ conn[c].pc = "spawned" /\ Shape
  BY DEF IInv, Shape, Begin
<1> DEFINE t == [conn[c] EXCEPT !.pc = "reading"]
<1>3. conn' = [conn EXCEPT ![c] = t]
  BY <1>1 DEF Shape, Begin, Goto
<1>5. t \in Tasks
  BY <1>1 DEF Tasks, Pcs, InHandle
<1>6. /\ t.pc = "reading" /\ t.client = conn[c].client
      /\ t.id = conn[c].id /\ t.route = conn[c].route
      /\ t.forwards = conn[c].forwards /\ t.connectErrors = conn[c].connectErrors
      /\ t.charged = conn[c].charged /\ t.heard = conn[c].heard
      /\ t.upstream = conn[c].upstream /\ t.hello = conn[c].hello
  BY <1>1 DEF Tasks
<1> HIDE DEF t
<1>7. PathOK(t)
  BY <1>1, <1>6 DEF PathOK, Undecided, Unread, Routed, OnHold, InForward, Served, Serving,
                    CertFirst, NoTrace, InHandle
<1>8. active' = active + In(t) - In(conn[c])
  BY <1>1, <1>6 DEF Begin, In, InHandle, Shape
<1>9. Moves(c, t)
  BY <1>3, <1>5, <1>7, <1>8 DEF Moves
<1> QED
  BY <1>1, <1>5, <1>6, <1>9 DEF Plainly, Begin, Waits

\* A task that returns with its locals as they are.
LEMMA ReturnStep ==
  ASSUME IInv, NEW c \in Conns, NEW locals \in Tasks, NEW reason \in Reasons,
         conn[c].pc \in InHandle, ~ Waits(conn[c]),
         locals.id = conn[c].id, NoTrace(locals), locals.connectErrors <= 1,
         locals.client.via = "ingress" => locals.forwards = 0,
         Return(c, locals, reason), UNCHANGED <<pendingGauge, registry>>
  PROVE  Plainly(c)
<1>1. Shape
  BY DEF IInv
<1>2. \E t \in Tasks : Moves(c, t) /\ t.id = locals.id /\ ~ Waits(t)
  BY <1>1, ReturnMoves
<1> QED
  BY <1>2 DEF Plainly

LEMMA EndEarlyStep ==
  ASSUME IInv, NEW c \in Conns, EndEarly(c)
  PROVE  Plainly(c)
<1>1. conn[c] \in Tasks /\ PathOK(conn[c]) /\ conn[c].pc = "reading"
  BY DEF IInv, Shape, EndEarly
<1>2. PICK reason \in Reasons : Return(c, conn[c], reason)
  BY DEF EndEarly, Reasons
<1>3. UNCHANGED <<pendingGauge, registry>>
  BY DEF EndEarly
<1> QED
  BY <1>1, <1>2, <1>3, ReturnStep DEF PathOK, Waits, InHandle

\* The next id is one of Ids as long as some connection has none.
LEMMA FreshIdInIds ==
  ASSUME IInv, NEW c \in Conns, conn[c].id = NoId
  PROVE  counter \in Ids
<1>1. IsFiniteSet(Conns \ {c}) /\ Cardinality(Conns \ {c}) = Cardinality(Conns) - 1
  BY FS_RemoveElement, ConnectionConstants
<1>2. Numbered \subseteq Conns \ {c}
  BY DEF Numbered
<1>3. Cardinality(Numbered) <= Cardinality(Conns \ {c})
  BY <1>1, <1>2, FS_Subset
<1>4. Cardinality(Conns) \in Nat /\ Cardinality(Numbered) \in Nat
  <2>1. IsFiniteSet(Numbered)
    BY <1>1, <1>2, FS_Subset
  <2> QED
    BY <2>1, FS_CardinalityType, ConnectionConstants
<1> QED
  BY <1>1, <1>3, <1>4 DEF IInv, IdsFresh, Ids

\* A suspension starts.
Suspends(c) ==
  /\ ~ Waits(conn[c]) /\ conn[c].id = NoId
  /\ \E t \in Tasks : Moves(c, t) /\ t.id = counter /\ Waits(t)
  /\ pendingGauge' = pendingGauge + 1
  /\ counter' = counter + 1
  /\ pending' = pending \cup {counter}
  /\ UNCHANGED <<inbox, call>>

LEMMA SuspendStep ==
  ASSUME IInv, NEW c \in Conns, NEW locals \in Tasks, Suspend(c, locals),
         conn[c].pc = "reading", locals.route \in Routes, locals.route.suspended,
         SourcePermitted(locals.client, locals.route),
         ~ locals.hello, ~ locals.upstream, locals.connectErrors = 0, locals.forwards = 0
  PROVE  Suspends(c)
<1>1. Shape /\ conn[c].id = NoId
  BY DEF IInv, PathOK, Undecided
<1>2. counter \in Ids /\ counter # NoId
  BY <1>1, FreshIdInIds DEF Ids, NoId
<1>3. PICK heard \in BOOLEAN :
        conn' = [conn EXCEPT ![c] = [locals EXCEPT !.pc = "suspended", !.id = counter,
                                                   !.heard = heard]]
  BY DEF Suspend, FreshId
<1> DEFINE t == [locals EXCEPT !.pc = "suspended", !.id = counter, !.heard = heard]
<1>4. t \in Tasks
  BY <1>2 DEF Tasks, Pcs, InHandle
<1>5. /\ t.pc = "suspended" /\ t.id = counter /\ t.client = locals.client
      /\ t.route = locals.route /\ t.upstream = locals.upstream /\ t.hello = locals.hello
      /\ t.connectErrors = locals.connectErrors /\ t.forwards = locals.forwards
  BY DEF Tasks
<1>6. conn' = [conn EXCEPT ![c] = t]
  BY <1>3
<1> HIDE DEF t
<1>7. PathOK(t)
  BY <1>2, <1>5 DEF PathOK, Undecided, Unread, Routed, OnHold, InForward, Served, Serving,
                    CertFirst, NoTrace, InHandle, SourcePermitted
<1>8. Moves(c, t)
  BY <1>1, <1>4, <1>5, <1>6, <1>7, StepMoves DEF Suspend, InHandle
<1> QED
  BY <1>1, <1>4, <1>5, <1>8 DEF Suspends, Suspend, FreshId, Waits

\* Serving a connection whose hello is unread: a suspension, or the local upstream.
LEMMA ServeStep ==
  ASSUME IInv, NEW c \in Conns, NEW locals \in Tasks, Serve(c, locals),
         conn[c].pc = "reading", locals.route \in Routes, locals.id = NoId,
         SourcePermitted(locals.client, locals.route),
         ~ locals.hello, ~ locals.upstream, locals.connectErrors = 0, locals.forwards = 0
  PROVE  Plainly(c) \/ Suspends(c)
<1>1. CASE locals.route.suspended
  BY <1>1, SuspendStep DEF Serve
<1>2. CASE ~ locals.route.suspended
  <2>1. /\ ServeLocally(c, locals, locals.route.terminate, locals.route.cert)
        /\ UNCHANGED <<pendingGauge, registry>>
    BY <1>2 DEF Serve
  <2>2. MayServe(locals, locals.route.terminate)
    BY <1>2, ConnectionConstants DEF MayServe
  <2>3. Shape /\ conn[c].pc \in InHandle /\ conn[c].id = NoId /\ ~ Waits(conn[c])
    BY DEF IInv, PathOK, Undecided, InHandle, Waits
  <2>4. \E t \in Tasks : Moves(c, t) /\ t.id = locals.id /\ ~ Waits(t)
    BY <2>1, <2>2, <2>3, ServeMoves
  <2> QED
    BY <2>1, <2>3, <2>4 DEF Plainly
<1> QED
  BY <1>1, <1>2

LEMMA DispatchStep ==
  ASSUME IInv, NEW c \in Conns, Dispatch(c)
  PROVE  Plainly(c) \/ Suspends(c)
<1> DEFINE client == conn[c].client
           known == [conn[c] EXCEPT !.route = table]
           paid == [known EXCEPT !.charged = table.limited]
<1>1. /\ conn[c] \in Tasks /\ PathOK(conn[c]) /\ Shape
      /\ conn[c].pc = "reading" /\ conn[c].pc \in InHandle /\ ~ Waits(conn[c])
  BY DEF IInv, Shape, Dispatch, InHandle, Waits
<1>2. /\ conn[c].route = NoRoute /\ conn[c].id = NoId
      /\ conn[c].forwards = 0 /\ conn[c].connectErrors = 0
      /\ ~ conn[c].charged /\ ~ conn[c].heard /\ ~ conn[c].hello /\ ~ conn[c].upstream
  BY <1>1 DEF PathOK, Undecided, Unread
<1>3. table \in Routes \cup {NoRoute}
  BY <1>1 DEF Shape
<1>4. known \in Tasks
  BY <1>1, <1>3 DEF Tasks
<1>5. /\ known.route = table /\ known.client = client /\ known.id = NoId
      /\ known.forwards = 0 /\ known.connectErrors = 0
      /\ ~ known.charged /\ ~ known.heard /\ ~ known.hello /\ ~ known.upstream
  BY <1>1, <1>2 DEF Tasks
<1>6. ASSUME table # NoRoute
      PROVE  /\ paid \in Tasks
             /\ paid.route = table /\ paid.client = client /\ paid.id = NoId
             /\ paid.forwards = 0 /\ paid.connectErrors = 0
             /\ ~ paid.heard /\ ~ paid.hello /\ ~ paid.upstream
  <2>1. table.limited \in BOOLEAN
    BY <1>3, <1>6, ConnectionConstants
  <2> QED
    BY <2>1, <1>4, <1>5 DEF Tasks
<1> HIDE DEF known, paid
<1>7. CASE /\ table = NoRoute
           /\ Return(c, conn[c], "noRoute")
           /\ UNCHANGED <<pendingGauge, registry>>
  <2>1. "noRoute" \in Reasons /\ NoTrace(conn[c])
    BY <1>2 DEF Reasons, NoTrace
  <2> QED
    BY <1>1, <1>2, <1>7, <2>1, ReturnStep
<1>8. CASE /\ \E reason \in Reasons : Return(c, known, reason)
           /\ UNCHANGED <<pendingGauge, registry>>
  <2>1. NoTrace(known)
    BY <1>5 DEF NoTrace
  <2> QED
    BY <1>1, <1>2, <1>4, <1>5, <1>8, <2>1, ReturnStep
<1>9. ASSUME table # NoRoute, SourcePermitted(client, table), Serve(c, paid)
      PROVE  Plainly(c) \/ Suspends(c)
  <2>1. paid \in Tasks /\ paid.route \in Routes
    BY <1>3, <1>6, <1>9
  <2>2. SourcePermitted(paid.client, paid.route)
    BY <1>6, <1>9
  <2> QED
    BY <1>1, <1>6, <1>9, <2>1, <2>2, ServeStep
<1>10. ASSUME NEW down \in BOOLEAN,
              table # NoRoute, SourcePermitted(client, table),
              Decide(client, table, down) \in {"forward", "localOrSpill"},
              Forward(c, paid, IF down THEN "down" ELSE "fallback"),
              UNCHANGED <<pendingGauge, registry>>
       PROVE  Plainly(c)
  <2> DEFINE mode == IF down THEN "down" ELSE "fallback"
  <2>1. paid \in Tasks /\ paid.route \in Routes /\ SourcePermitted(paid.client, paid.route)
    BY <1>3, <1>6, <1>10
  <2>2. client \in Clients
    BY <1>1 DEF Tasks
  <2>3. client.via # "ingress" /\ ~ table.suspended
    BY <1>10 DEF Decide
  <2>4. paid.client.via = "client" /\ ~ paid.route.suspended
    BY <1>6, <1>10, <2>2, <2>3, ConnectionConstants
  <2>5. mode \in {"down", "fallback"}
    OBVIOUS
  <2>6. Forward(c, paid, mode)
    BY <1>10
  <2> HIDE DEF mode
  <2>7. \E t \in Tasks : Moves(c, t) /\ t.id = paid.id /\ ~ Waits(t)
    BY <1>1, <1>6, <1>10, <2>1, <2>4, <2>5, <2>6, ForwardMoves
  <2> QED
    BY <1>1, <1>2, <1>6, <1>10, <2>7 DEF Plainly
<1>11. CASE /\ table # NoRoute /\ SourcePermitted(client, table)
            /\ Return(c, paid, "locallyDown")
            /\ UNCHANGED <<pendingGauge, registry>>
  <2>1. NoTrace(paid) /\ "locallyDown" \in Reasons
    BY <1>6, <1>11 DEF NoTrace, SourcePermitted, Reasons
  <2> QED
    BY <1>1, <1>2, <1>6, <1>11, <2>1, ReturnStep
<1>12. \/ table = NoRoute /\ Return(c, conn[c], "noRoute") /\ UNCHANGED <<pendingGauge, registry>>
       \/ /\ \/ Return(c, known, "sourceNotAllowed")
             \/ Return(c, known, "rateLimited")
          /\ UNCHANGED <<pendingGauge, registry>>
       \/ /\ table # NoRoute /\ SourcePermitted(client, table)
          /\ \/ Serve(c, paid)
             \/ Return(c, paid, "locallyDown") /\ UNCHANGED <<pendingGauge, registry>>
             \/ \E down \in BOOLEAN :
                  /\ Decide(client, table, down) \in {"forward", "localOrSpill"}
                  /\ Forward(c, paid, IF down THEN "down" ELSE "fallback")
                  /\ UNCHANGED <<pendingGauge, registry>>
  BY Zenon DEF Dispatch, known, paid
<1>13. "sourceNotAllowed" \in Reasons /\ "rateLimited" \in Reasons
  BY DEF Reasons
<1> QED
  BY <1>7, <1>8, <1>9, <1>10, <1>11, <1>12, <1>13

\* A suspension ends: its entry is gone from the registry, by whomever.
Released(c) ==
  /\ Waits(conn[c])
  /\ \E t \in Tasks : Moves(c, t) /\ t.id = conn[c].id /\ ~ Waits(t)
  /\ pendingGauge' = pendingGauge - 1
  /\ pending' = pending \ {conn[c].id}
  /\ UNCHANGED <<counter, inbox, call>>

LEMMA ResolvedStep ==
  ASSUME IInv, NEW c \in Conns, Resolved(c)
  PROVE  Released(c)
<1> DEFINE locals == [conn[c] EXCEPT !.got = inbox[c]]
           answer == inbox[c].answer
<1>1. /\ conn[c] \in Tasks /\ PathOK(conn[c]) /\ Shape /\ inbox[c] \in Messages
      /\ conn[c].pc = "suspended" /\ conn[c].pc \in InHandle /\ Waits(conn[c])
  BY DEF IInv, Shape, Resolved, InHandle, Waits
<1>2. inbox[c] # Empty
  BY DEF Resolved, Empty
<1>3. inbox[c].from = conn[c].id /\ conn[c].id # NoId
  BY <1>2 DEF IInv, Delivered
<1>4. conn[c].id \notin pending
  <2>1. \A d \in Conns : conn[d].id = conn[c].id => d = c
    BY <1>3 DEF IInv, IdsFresh
  <2> QED
    BY <1>2, <2>1 DEF IInv, RegistryMatchesWaiters, Waiting
<1>5. locals \in Tasks
  BY <1>1 DEF Tasks
<1>6. /\ locals.got = inbox[c] /\ locals.id = conn[c].id /\ locals.client = conn[c].client
      /\ locals.route = conn[c].route /\ locals.hello = conn[c].hello
      /\ locals.upstream = conn[c].upstream /\ locals.connectErrors = conn[c].connectErrors
      /\ locals.forwards = conn[c].forwards
  BY <1>1 DEF Tasks
<1>7. /\ conn[c].route \in Routes /\ conn[c].route.suspended
      /\ SourcePermitted(conn[c].client, conn[c].route)
      /\ ~ conn[c].hello /\ ~ conn[c].upstream
      /\ conn[c].connectErrors = 0 /\ conn[c].forwards = 0
  BY <1>1 DEF PathOK, Unread, Routed, OnHold, InHandle
<1>8. /\ pendingGauge' = pendingGauge - 1
      /\ UNCHANGED <<counter, pending, inbox, call>>
      /\ answer.permits => ServeLocally(c, locals, answer.terminate, TRUE)
      /\ ~ answer.permits => Return(c, locals, "sourceNotAllowed")
  BY DEF Resolved, DecSuspended, registry
<1> HIDE DEF locals
<1>9. \E t \in Tasks : Moves(c, t) /\ t.id = locals.id /\ ~ Waits(t)
  <2>1. CASE answer.permits
    <3>1. MayServe(locals, answer.terminate)
      BY <1>3, <1>6, <1>7, <2>1 DEF MayServe
    <3> QED
      BY <1>1, <1>5, <1>8, <2>1, <3>1, ServeMoves
  <2>2. CASE ~ answer.permits
    <3>1. NoTrace(locals) /\ "sourceNotAllowed" \in Reasons
      BY <1>6, <1>7 DEF NoTrace, SourcePermitted, Reasons
    <3> QED
      BY <1>1, <1>5, <1>6, <1>7, <1>8, <2>2, <3>1, ReturnMoves
  <2> QED
    BY <2>1, <2>2
<1> QED
  BY <1>1, <1>4, <1>6, <1>8, <1>9 DEF Released

LEMMA WithdrawStep ==
  ASSUME IInv, NEW c \in Conns, Withdraw(c)
  PROVE  Released(c)
<1>1. /\ conn[c] \in Tasks /\ PathOK(conn[c]) /\ Shape
      /\ conn[c].pc = "expired" /\ conn[c].pc \in InHandle /\ Waits(conn[c])
  BY DEF IInv, Shape, Withdraw, InHandle, Waits
<1>2. "suspendUnresolved" \in Reasons /\ Return(c, conn[c], "suspendUnresolved")
  BY DEF Withdraw, Reasons
<1>3. \E t \in Tasks : Moves(c, t) /\ t.id = conn[c].id /\ ~ Waits(t)
  BY <1>1, <1>2, ReturnMoves DEF PathOK
<1> QED
  BY <1>1, <1>3 DEF Released, Withdraw, Withdrawn, DecSuspended

LEMMA UnresolvedStep ==
  ASSUME IInv, NEW c \in Conns, Unresolved(c)
  PROVE  Plainly(c)
<1>1. conn[c] \in Tasks /\ PathOK(conn[c]) /\ conn[c].pc = "suspended" /\ Shape
  BY DEF IInv, Shape, Unresolved
<1> DEFINE t == [conn[c] EXCEPT !.pc = "expired"]
<1>2. conn' = [conn EXCEPT ![c] = t]
  BY <1>1 DEF Shape, Unresolved, Goto
<1>3. t \in Tasks
  BY <1>1 DEF Tasks, Pcs, InHandle
<1>4. /\ t.pc = "expired" /\ t.client = conn[c].client
      /\ t.id = conn[c].id /\ t.route = conn[c].route
      /\ t.forwards = conn[c].forwards /\ t.connectErrors = conn[c].connectErrors
      /\ t.charged = conn[c].charged /\ t.heard = conn[c].heard
      /\ t.upstream = conn[c].upstream /\ t.hello = conn[c].hello
  BY <1>1 DEF Tasks
<1> HIDE DEF t
<1>5. PathOK(t)
  BY <1>1, <1>4 DEF PathOK, Undecided, Unread, Routed, OnHold, InForward, Served, Serving,
                    CertFirst, NoTrace, InHandle
<1>6. Moves(c, t)
  BY <1>1, <1>2, <1>3, <1>4, <1>5, StepMoves DEF Unresolved, InHandle
<1> QED
  BY <1>1, <1>3, <1>4, <1>6 DEF Plainly, Unresolved, Waits

LEMMA ForwardFailsStep ==
  ASSUME IInv, NEW c \in Conns, ForwardFails(c)
  PROVE  Plainly(c)
<1>1. /\ conn[c] \in Tasks /\ PathOK(conn[c]) /\ Shape
      /\ conn[c].pc = "forwarding" /\ conn[c].pc \in InHandle /\ ~ Waits(conn[c])
      /\ UNCHANGED <<pendingGauge, registry>>
  BY DEF IInv, Shape, ForwardFails, InHandle, Waits
<1>2. CASE conn[c].mode = "down" /\ Return(c, Exhausted(conn[c]), "upstreamConnect")
  <2> DEFINE locals == Exhausted(conn[c])
  <2>1. conn[c].connectErrors \in 0 .. 1
    BY <1>1 DEF PathOK, Tasks
  <2>2. /\ locals \in Tasks
        /\ locals.id = conn[c].id /\ locals.client = conn[c].client
        /\ locals.route = conn[c].route /\ locals.hello = conn[c].hello
        /\ locals.upstream = conn[c].upstream /\ locals.connectErrors = 1
        /\ locals.forwards = conn[c].forwards
        /\ locals.charged = conn[c].charged /\ locals.heard = conn[c].heard
    BY <1>1, <2>1 DEF Exhausted, Counted, Tasks
  <2> HIDE DEF locals
  <2>3. NoTrace(locals) /\ (locals.client.via = "ingress" => locals.forwards = 0)
    BY <1>1, <2>2 DEF PathOK, NoTrace
  <2>4. "upstreamConnect" \in Reasons /\ Return(c, locals, "upstreamConnect")
    BY <1>2 DEF Reasons, locals
  <2> QED
    BY <1>1, <2>2, <2>3, <2>4, ReturnStep
<1>3. CASE /\ conn[c].mode = "fallback"
           /\ ServeLocally(c, conn[c], conn[c].route.terminate, conn[c].route.cert)
  <2>1. conn[c].route \in Routes
    BY <1>1 DEF PathOK, Routed, InHandle
  <2>2. conn[c].route.requireCert => conn[c].route.terminate
    BY <2>1, ConnectionConstants
  <2>3. MayServe(conn[c], conn[c].route.terminate)
    BY <1>1, <1>3, <2>1, <2>2 DEF MayServe, PathOK, Routed, InForward, Unread, InHandle
  <2>4. \E t \in Tasks : Moves(c, t) /\ t.id = conn[c].id /\ ~ Waits(t)
    BY <1>1, <1>3, <2>3, ServeMoves
  <2> QED
    BY <1>1, <2>4 DEF Plainly
<1> QED
  BY <1>2, <1>3 DEF ForwardFails

LEMMA PeerTakesStep ==
  ASSUME IInv, NEW c \in Conns, PeerTakes(c)
  PROVE  Plainly(c)
<1>1. conn[c] \in Tasks /\ PathOK(conn[c]) /\ conn[c].pc = "forwarding" /\ Shape
  BY DEF IInv, Shape, PeerTakes
<1> DEFINE t == [conn[c] EXCEPT !.pc = "peerTunnel", !.hello = TRUE]
<1>2. conn' = [conn EXCEPT ![c] = t]
  BY <1>1 DEF Shape, PeerTakes
<1>3. t \in Tasks
  BY <1>1 DEF Tasks, Pcs, InHandle
<1>4. /\ t.pc = "peerTunnel" /\ t.client = conn[c].client
      /\ t.id = conn[c].id /\ t.route = conn[c].route
      /\ t.forwards = conn[c].forwards /\ t.connectErrors = conn[c].connectErrors
      /\ t.charged = conn[c].charged /\ t.heard = conn[c].heard
      /\ t.upstream = conn[c].upstream
  BY <1>1 DEF Tasks
<1> HIDE DEF t
<1>5. PathOK(t)
  BY <1>1, <1>4 DEF PathOK, Undecided, Unread, Routed, OnHold, InForward, Served, Serving,
                    CertFirst, NoTrace, InHandle, SourcePermitted
<1>6. Moves(c, t)
  BY <1>1, <1>2, <1>3, <1>4, <1>5, StepMoves DEF PeerTakes, InHandle
<1> QED
  BY <1>1, <1>3, <1>4, <1>6 DEF Plainly, PeerTakes, Waits

LEMMA ConnectSucceedsStep ==
  ASSUME IInv, NEW c \in Conns, ConnectSucceeds(c)
  PROVE  Plainly(c)
<1>1. conn[c] \in Tasks /\ PathOK(conn[c]) /\ conn[c].pc = "connecting" /\ Shape
  BY DEF IInv, Shape, ConnectSucceeds
<1>2. PICK pc \in {"handshaking", "tunnel"} :
        conn' = [conn EXCEPT ![c].upstream = TRUE, ![c].pc = pc]
  BY DEF ConnectSucceeds
<1> DEFINE t == [conn[c] EXCEPT !.upstream = TRUE, !.pc = pc]
<1>3. conn' = [conn EXCEPT ![c] = t]
  BY <1>1, <1>2 DEF Shape
<1>4. t \in Tasks
  BY <1>1, <1>2 DEF Tasks, Pcs, InHandle
<1>5. /\ t.pc = pc /\ t.client = conn[c].client
      /\ t.id = conn[c].id /\ t.route = conn[c].route /\ t.got = conn[c].got
      /\ t.forwards = conn[c].forwards /\ t.connectErrors = conn[c].connectErrors
      /\ t.charged = conn[c].charged /\ t.heard = conn[c].heard
      /\ t.hello = conn[c].hello
  BY <1>1 DEF Tasks
<1> HIDE DEF t
<1>6. PathOK(t)
  BY <1>1, <1>2, <1>5 DEF PathOK, Undecided, Unread, Routed, OnHold, InForward, Served, Serving,
                    CertFirst, NoTrace, InHandle, SourcePermitted
<1>7. Moves(c, t)
  BY <1>1, <1>2, <1>3, <1>4, <1>5, <1>6, StepMoves DEF ConnectSucceeds, InHandle
<1> QED
  BY <1>1, <1>2, <1>4, <1>5, <1>7 DEF Plainly, ConnectSucceeds, Waits

\* A failed connect counted against the route.
LEMMA CountedTask ==
  ASSUME NEW t \in Tasks, t.connectErrors = 0
  PROVE  /\ Counted(t) \in Tasks
         /\ Counted(t).id = t.id /\ Counted(t).client = t.client /\ Counted(t).route = t.route
         /\ Counted(t).hello = t.hello /\ Counted(t).upstream = t.upstream
         /\ Counted(t).forwards = t.forwards /\ Counted(t).connectErrors = 1
         /\ Counted(t).charged = t.charged /\ Counted(t).heard = t.heard
BY DEF Counted, Tasks

LEMMA ConnectFailsStep ==
  ASSUME IInv, NEW c \in Conns, ConnectFails(c)
  PROVE  Plainly(c)
<1> DEFINE locals == Counted(conn[c])
<1>1. /\ conn[c] \in Tasks /\ PathOK(conn[c]) /\ Shape
      /\ conn[c].pc = "connecting" /\ conn[c].pc \in InHandle /\ ~ Waits(conn[c])
      /\ UNCHANGED <<pendingGauge, registry>>
  BY DEF IInv, Shape, ConnectFails, InHandle, Waits
<1>2. /\ conn[c].connectErrors = 0 /\ conn[c].forwards <= 1 /\ conn[c].route \in Routes
      /\ SourcePermitted(conn[c].client, conn[c].route)
      /\ ~ conn[c].hello /\ ~ conn[c].upstream /\ NoTrace(conn[c])
      /\ conn[c].client.via = "ingress" => conn[c].forwards = 0
  BY <1>1 DEF PathOK, Served, Serving, Unread, Routed, InHandle
<1>3. /\ locals \in Tasks
      /\ locals.id = conn[c].id /\ locals.client = conn[c].client /\ locals.route = conn[c].route
      /\ locals.hello = conn[c].hello /\ locals.upstream = conn[c].upstream
      /\ locals.forwards = conn[c].forwards /\ locals.connectErrors = 1
      /\ locals.charged = conn[c].charged /\ locals.heard = conn[c].heard
  BY <1>1, <1>2, CountedTask
<1> HIDE DEF locals
<1>4. CASE HasPeers(c) /\ Forward(c, locals, "down")
  <2>1. conn[c].client.via = "client" /\ ~ conn[c].route.suspended
    BY <1>4 DEF HasPeers
  <2>2. locals.connectErrors <= 1 /\ locals.forwards <= 1
    BY <1>2, <1>3
  <2>3. \E t \in Tasks : Moves(c, t) /\ t.id = locals.id /\ ~ Waits(t)
    BY <1>1, <1>2, <1>3, <1>4, <2>1, <2>2, ForwardMoves
  <2> QED
    BY <1>1, <1>3, <2>3 DEF Plainly
<1>5. CASE Return(c, locals, "upstreamConnect")
  <2>1. NoTrace(locals) /\ "upstreamConnect" \in Reasons /\ locals.connectErrors <= 1
    BY <1>2, <1>3 DEF NoTrace, Reasons
  <2> QED
    BY <1>1, <1>2, <1>3, <1>5, <2>1, ReturnStep
<1> QED
  BY <1>4, <1>5 DEF ConnectFails, locals

LEMMA HandshakeDoneStep ==
  ASSUME IInv, NEW c \in Conns, HandshakeDone(c)
  PROVE  Plainly(c)
<1>1. conn[c] \in Tasks /\ PathOK(conn[c]) /\ conn[c].pc = "handshaking" /\ Shape
  BY DEF IInv, Shape, HandshakeDone
<1>2. PICK pc \in {"tunnel", "reconnecting"}, upstream \in BOOLEAN :
        /\ upstream => pc = "tunnel"
        /\ conn' = [conn EXCEPT ![c] = [conn[c] EXCEPT !.pc = pc, !.hello = TRUE,
                                                       !.verified = TRUE, !.upstream = upstream]]
  <2>1. CASE /\ conn[c].upstream
             /\ conn' = [conn EXCEPT ![c].pc = "tunnel", ![c].hello = TRUE, ![c].verified = TRUE]
    <3>1. conn[c].upstream = TRUE
      BY <1>1, <2>1 DEF Tasks
    <3>2. conn' = [conn EXCEPT ![c] = [conn[c] EXCEPT !.pc = "tunnel", !.hello = TRUE,
                                                      !.verified = TRUE, !.upstream = TRUE]]
      BY <1>1, <2>1, <3>1, ZenonT(30) DEF Shape, Tasks
    <3> QED
      BY <3>2
  <2>2. CASE conn' = [conn EXCEPT ![c].pc = "reconnecting", ![c].hello = TRUE,
                                  ![c].verified = TRUE, ![c].upstream = FALSE]
    <3>1. conn' = [conn EXCEPT ![c] = [conn[c] EXCEPT !.pc = "reconnecting", !.hello = TRUE,
                                                      !.verified = TRUE, !.upstream = FALSE]]
      BY <1>1, <2>2 DEF Shape
    <3> QED
      BY <3>1
  <2> QED
    BY <2>1, <2>2 DEF HandshakeDone
<1> DEFINE t == [conn[c] EXCEPT !.pc = pc, !.hello = TRUE, !.verified = TRUE, !.upstream = upstream]
<1>3. t \in Tasks
  BY <1>1, <1>2 DEF Tasks, Pcs, InHandle
<1>4. /\ t.pc = pc /\ t.upstream = upstream /\ t.verified = TRUE /\ t.client = conn[c].client
      /\ t.id = conn[c].id /\ t.route = conn[c].route /\ t.got = conn[c].got
      /\ t.forwards = conn[c].forwards /\ t.connectErrors = conn[c].connectErrors
      /\ t.charged = conn[c].charged /\ t.heard = conn[c].heard
  BY <1>1 DEF Tasks
<1>5. conn' = [conn EXCEPT ![c] = t]
  BY <1>2
<1> HIDE DEF t
<1>6. PathOK(t)
  BY <1>1, <1>2, <1>4 DEF PathOK, Undecided, Unread, Routed, OnHold, InForward, Served, Serving,
                    CertFirst, NoTrace, InHandle, SourcePermitted
<1>7. Moves(c, t)
  BY <1>1, <1>2, <1>3, <1>4, <1>5, <1>6, StepMoves DEF HandshakeDone, InHandle
<1> QED
  BY <1>1, <1>2, <1>3, <1>4, <1>7 DEF Plainly, HandshakeDone, Waits

LEMMA HandshakeFailsStep ==
  ASSUME IInv, NEW c \in Conns, HandshakeFails(c)
  PROVE  Plainly(c)
<1> DEFINE locals == [conn[c] EXCEPT !.hello = TRUE]
<1>1. /\ conn[c] \in Tasks /\ PathOK(conn[c])
      /\ conn[c].pc = "handshaking" /\ conn[c].pc \in InHandle /\ ~ Waits(conn[c])
      /\ UNCHANGED <<pendingGauge, registry>>
  BY DEF IInv, Shape, HandshakeFails, InHandle, Waits
<1>2. /\ locals \in Tasks
      /\ locals.id = conn[c].id /\ locals.client = conn[c].client /\ locals.route = conn[c].route
      /\ locals.forwards = conn[c].forwards /\ locals.connectErrors = conn[c].connectErrors
  BY <1>1 DEF Tasks
<1>3. Return(c, locals, "tlsHandshake") /\ "tlsHandshake" \in Reasons
  BY DEF HandshakeFails, Reasons
<1> HIDE DEF locals
<1>4. NoTrace(locals) /\ locals.connectErrors <= 1
      /\ (locals.client.via = "ingress" => locals.forwards = 0)
  BY <1>1, <1>2 DEF PathOK, Routed, NoTrace, SourcePermitted, InHandle
<1> QED
  BY <1>1, <1>2, <1>3, <1>4, ReturnStep

LEMMA ReconnectStep ==
  ASSUME IInv, NEW c \in Conns, Reconnect(c)
  PROVE  Plainly(c)
<1>1. /\ conn[c] \in Tasks /\ PathOK(conn[c]) /\ Shape
      /\ conn[c].pc = "reconnecting" /\ conn[c].pc \in InHandle /\ ~ Waits(conn[c])
      /\ UNCHANGED <<pendingGauge, registry>>
  BY DEF IInv, Shape, Reconnect, InHandle, Waits
<1>2. CASE conn' = [conn EXCEPT ![c].pc = "tunnel", ![c].upstream = TRUE] /\ UNCHANGED active
  <2> DEFINE t == [conn[c] EXCEPT !.pc = "tunnel", !.upstream = TRUE]
  <2>1. conn' = [conn EXCEPT ![c] = t]
    BY <1>1, <1>2 DEF Shape
  <2>2. t \in Tasks
    BY <1>1 DEF Tasks, Pcs, InHandle
  <2>3. /\ t.pc = "tunnel" /\ t.client = conn[c].client /\ t.verified = conn[c].verified
        /\ t.id = conn[c].id /\ t.route = conn[c].route /\ t.got = conn[c].got
        /\ t.forwards = conn[c].forwards /\ t.connectErrors = conn[c].connectErrors
        /\ t.charged = conn[c].charged /\ t.heard = conn[c].heard /\ t.hello = conn[c].hello
    BY <1>1 DEF Tasks
  <2> HIDE DEF t
  <2>4. PathOK(t)
    BY <1>1, <2>3 DEF PathOK, Undecided, Unread, Routed, OnHold, InForward, Served, Serving,
                    CertFirst, NoTrace, InHandle, SourcePermitted
  <2>5. Moves(c, t)
    BY <1>1, <1>2, <2>1, <2>2, <2>3, <2>4, StepMoves DEF InHandle
  <2> QED
    BY <1>1, <2>2, <2>3, <2>5 DEF Plainly, Waits
<1>3. CASE Return(c, Counted(conn[c]), "upstreamConnect")
  <2> DEFINE locals == Counted(conn[c])
  <2>1. conn[c].connectErrors = 0
    BY <1>1 DEF PathOK, Served, Serving
  <2>2. /\ locals \in Tasks
        /\ locals.id = conn[c].id /\ locals.client = conn[c].client
        /\ locals.route = conn[c].route /\ locals.forwards = conn[c].forwards
        /\ locals.connectErrors = 1
    BY <1>1, <2>1, CountedTask
  <2>3. Return(c, locals, "upstreamConnect") /\ "upstreamConnect" \in Reasons
    BY <1>3 DEF Reasons
  <2> HIDE DEF locals
  <2>4. NoTrace(locals) /\ locals.connectErrors <= 1
        /\ (locals.client.via = "ingress" => locals.forwards = 0)
    BY <1>1, <2>2 DEF PathOK, Routed, NoTrace, SourcePermitted, InHandle
  <2> QED
    BY <1>1, <2>2, <2>3, <2>4, ReturnStep
<1> QED
  BY <1>2, <1>3 DEF Reconnect, AfterReconnectFails

LEMMA TunnelEndsStep ==
  ASSUME IInv, NEW c \in Conns, TunnelEnds(c)
  PROVE  Plainly(c)
<1>1. /\ conn[c] \in Tasks /\ PathOK(conn[c]) /\ conn[c].pc \in InHandle /\ ~ Waits(conn[c])
      /\ UNCHANGED <<pendingGauge, registry>> /\ Return(c, conn[c], "done")
  BY DEF IInv, Shape, TunnelEnds, InHandle, Waits
<1>2. "done" \in Reasons
  BY DEF Reasons
<1> QED
  BY <1>1, <1>2, ReturnStep DEF PathOK

----------------------------------------------------------------------------
(* The registry under suspensions and answers                              *)

\* The tasks that wait for an answer, and those with an id, are finitely many.
LEMMA WaitingFinite == IsFiniteSet(Waiting) /\ Cardinality(Waiting) \in Nat
<1>1. IsFiniteSet(Waiting)
  BY FS_Subset, ConnectionConstants DEF Waiting
<1> QED
  BY <1>1, FS_CardinalityType

LEMMA NumberedFinite == IsFiniteSet(Numbered) /\ Cardinality(Numbered) \in Nat
<1>1. IsFiniteSet(Numbered)
  BY FS_Subset, ConnectionConstants DEF Numbered
<1> QED
  BY <1>1, FS_CardinalityType

\* A task that suspends takes a fresh id and enters gauge and registry at once.
LEMMA SuspendsInv ==
  ASSUME IInv, NEW c \in Conns, Suspends(c), UNCHANGED table
  PROVE  IInv'
<1> USE DEF IInv
<1>1. PICK t \in Tasks : Moves(c, t) /\ t.id = counter /\ Waits(t)
  BY DEF Suspends
<1>2. /\ ~ Waits(conn[c]) /\ conn[c].id = NoId
      /\ pendingGauge' = pendingGauge + 1 /\ counter' = counter + 1
      /\ pending' = pending \cup {counter}
      /\ UNCHANGED <<inbox, call>>
  BY DEF Suspends
<1>3. /\ conn' \in [Conns -> Tasks]
      /\ conn'[c] = t
      /\ \A d \in Conns : d # c => conn'[d] = conn[d]
      /\ active' \in Int
      /\ active' = Cardinality(Inside')
  BY <1>1, ActiveMoves
<1>4. counter \in Ids /\ counter # NoId
  BY <1>2, FreshIdInIds DEF Ids, NoId
<1>5. Shape'
  BY <1>2, <1>3, <1>4 DEF Shape
<1>6. \A d \in Conns : PathOK(conn'[d])
  BY <1>1, <1>3 DEF Moves
<1>7. c \notin Waiting /\ Waiting' = Waiting \cup {c}
  BY <1>1, <1>2, <1>3 DEF Waiting, Waits
<1>8. pendingGauge' = Cardinality(Waiting')
  BY <1>2, <1>7, WaitingFinite, CountOne
<1>9. c \notin Numbered /\ Numbered' = Numbered \cup {c}
  BY <1>1, <1>2, <1>3, <1>4 DEF Numbered
<1>10. counter' = Cardinality(Numbered') + 1
  BY <1>2, <1>9, NumberedFinite, CountOne DEF IdsFresh
<1>11. inbox[c] = Empty
  BY <1>2 DEF Delivered
<1>12. RegistryMatchesWaiters'
  BY <1>1, <1>2, <1>3, <1>7, <1>11 DEF RegistryMatchesWaiters, Waiting
<1>13. \A d \in Conns : conn[d].id < counter /\ conn[d].id \in Int /\ counter \in Int
  BY DEF IdsFresh, Shape, Tasks, Ids, NoId
<1>14. IdsFresh'
  <2>1. \A d \in Conns : conn'[d].id < counter'
    BY <1>1, <1>2, <1>3, <1>13
  <2>2. \A d, e \in Conns : conn'[d].id = conn'[e].id /\ conn'[d].id # NoId => d = e
    BY <1>1, <1>3, <1>13 DEF IdsFresh
  <2> QED
    BY <1>10, <2>1, <2>2 DEF IdsFresh
<1>15. Delivered'
  BY <1>2, <1>3, <1>11 DEF Delivered
<1> QED
  BY <1>3, <1>5, <1>6, <1>8, <1>12, <1>14, <1>15

\* A task that leaves its wait leaves gauge and registry at once.
LEMMA ReleasedInv ==
  ASSUME IInv, NEW c \in Conns, Released(c), UNCHANGED table
  PROVE  IInv'
<1> USE DEF IInv
<1>1. PICK t \in Tasks : Moves(c, t) /\ t.id = conn[c].id /\ ~ Waits(t)
  BY DEF Released
<1>2. /\ Waits(conn[c])
      /\ pendingGauge' = pendingGauge - 1 /\ pending' = pending \ {conn[c].id}
      /\ UNCHANGED <<counter, inbox, call>>
  BY DEF Released
<1>3. /\ conn' \in [Conns -> Tasks]
      /\ conn'[c] = t
      /\ \A d \in Conns : d # c => conn'[d] = conn[d]
      /\ active' \in Int
      /\ active' = Cardinality(Inside')
  BY <1>1, ActiveMoves
<1>4. \A d \in Conns : conn'[d].id = conn[d].id
  BY <1>1, <1>3
<1>5. Shape'
  BY <1>2, <1>3 DEF Shape
<1>6. \A d \in Conns : PathOK(conn'[d])
  BY <1>1, <1>3 DEF Moves
<1>7. c \in Waiting /\ Waiting' = Waiting \ {c}
  BY <1>1, <1>2, <1>3 DEF Waiting, Waits
<1>8. pendingGauge' = Cardinality(Waiting')
  BY <1>2, <1>7, WaitingFinite, CountOne
<1>9. Numbered' = Numbered
  BY <1>4 DEF Numbered
<1>10. conn[c].id # NoId
  BY <1>2 DEF PathOK, OnHold, Waits
<1>11. \A d \in Conns : conn[d].id = conn[c].id => d = c
  BY <1>10 DEF IdsFresh
<1>12. RegistryMatchesWaiters'
  BY <1>2, <1>3, <1>4, <1>7, <1>11 DEF RegistryMatchesWaiters, Waiting
<1>13. IdsFresh' /\ Delivered'
  BY <1>2, <1>4, <1>9 DEF IdsFresh, Delivered
<1> QED
  BY <1>3, <1>5, <1>6, <1>8, <1>12, <1>13

\* JavaScript picks an id that is pending and an answer for it; nothing moves yet.
LEMMA ResolveCheckInv ==
  ASSUME IInv, ResolveCheck
  PROVE  IInv'
<1> USE DEF IInv
<1>1. UNCHANGED <<table, active, pendingGauge, counter, pending, inbox, conn>>
  BY DEF ResolveCheck
<1>2. PICK id \in pending, answer \in Answers \cup {Reject} :
        call' = [id |-> id, answer |-> answer]
  BY DEF ResolveCheck
<1>3. answer # NoAnswer
  BY <1>2, ConnectionConstants DEF NoAnswer, Reject
<1>4. Shape'
  BY <1>1, <1>2 DEF Shape, SentAnswers
<1>5. Delivered'
  BY <1>1, <1>2, <1>3 DEF Delivered
<1>6. Inside' = Inside /\ Waiting' = Waiting /\ Numbered' = Numbered
  BY <1>1 DEF Inside, Waiting, Numbered
<1>7. IdsFresh' /\ RegistryMatchesWaiters'
  BY <1>1, <1>6 DEF IdsFresh, RegistryMatchesWaiters
<1> QED
  BY <1>1, <1>4, <1>5, <1>6, <1>7

\* The answer reaches the one connection that bears the id, if its sender is
\* still there; the sender is gone afterwards.
LEMMA ResolveSendInv ==
  ASSUME IInv, ResolveSend
  PROVE  IInv'
<1> USE DEF IInv
<1>1. /\ UNCHANGED <<table, active, pendingGauge, counter, conn>>
      /\ call.id # NoId
      /\ pending' = pending \ {call.id}
      /\ call' = [id |-> NoId, answer |-> NoAnswer]
  BY DEF ResolveSend
<1> DEFINE message == [from |-> call.id, answer |-> call.answer]
<1>2. message \in Messages /\ message # Empty /\ message.from = call.id
      /\ message.answer # NoAnswer
  <2>1. call \in [id : Ids \cup {NoId}, answer : SentAnswers] /\ call.answer # NoAnswer
    BY <1>1 DEF Shape, Delivered
  <2>2. message \in Messages /\ message.from = call.id /\ message.answer = call.answer
    BY <2>1 DEF Messages
  <2> QED
    BY <1>1, <2>1, <2>2 DEF Empty
<1>3. /\ inbox' \in [Conns -> Messages]
      /\ \A c \in Conns :
           inbox'[c] = IF call.id \in pending /\ conn[c].id = call.id THEN message ELSE inbox[c]
  <2>1. inbox \in [Conns -> Messages]
    BY DEF Shape
  <2>2. CASE call.id \in pending
    BY <1>2, <2>1, <2>2 DEF ResolveSend, Receivers
  <2>3. CASE call.id \notin pending
    BY <2>1, <2>3 DEF ResolveSend
  <2> QED
    BY <2>2, <2>3
<1> HIDE DEF message
<1>4. Shape'
  BY <1>1, <1>3 DEF Shape, SentAnswers
<1>5. Delivered'
  BY <1>1, <1>2, <1>3 DEF Delivered
<1>6. Inside' = Inside /\ Waiting' = Waiting /\ Numbered' = Numbered
  BY <1>1 DEF Inside, Waiting, Numbered
<1>7. IdsFresh'
  BY <1>1, <1>6 DEF IdsFresh
<1>8. RegistryMatchesWaiters'
  <2> DEFINE first == {d \in Waiting : inbox[d] = Empty}
             left == {d \in Waiting : inbox'[d] = Empty}
  <2>1. \A d \in Waiting : d \in left <=> d \in first /\ conn[d].id # call.id
    <3>1. CASE call.id \in pending
      BY <1>2, <1>3, <3>1 DEF Waiting
    <3>2. CASE call.id \notin pending
      BY <1>3, <3>2 DEF Waiting, RegistryMatchesWaiters
    <3> QED
      BY <3>1, <3>2
  <2>2. pending = {conn[d].id : d \in first}
    BY DEF RegistryMatchesWaiters
  <2>3. left \subseteq Waiting /\ first \subseteq Waiting
    OBVIOUS
  <2> HIDE DEF left, first
  <2>4. pending \ {call.id} = {conn[d].id : d \in left}
    BY <2>1, <2>2, <2>3
  <2> QED
    BY <1>1, <1>6, <2>4 DEF RegistryMatchesWaiters, left
<1> QED
  BY <1>1, <1>4, <1>5, <1>6, <1>7, <1>8

\* A reload swaps the table under the tasks: what they have decided stands.
LEMMA ReloadInv ==
  ASSUME IInv, table' \in Routes \cup {NoRoute},
         UNCHANGED <<active, pendingGauge, registry, conn>>
  PROVE  IInv'
<1> USE DEF IInv
<1>1. UNCHANGED <<active, pendingGauge, counter, pending, inbox, call, conn>>
  BY DEF registry
<1>2. Inside' = Inside /\ Waiting' = Waiting /\ Numbered' = Numbered
  BY <1>1 DEF Inside, Waiting, Numbered
<1>3. Shape'
  BY <1>1 DEF Shape
<1>4. IdsFresh' /\ RegistryMatchesWaiters' /\ Delivered'
  BY <1>1, <1>2 DEF IdsFresh, RegistryMatchesWaiters, Delivered
<1> QED
  BY <1>1, <1>2, <1>3, <1>4

----------------------------------------------------------------------------
(* The invariant                                                           *)

\* Before the first connection every count is zero.
LEMMA InitInv == Init => IInv
<1> SUFFICES ASSUME Init PROVE IInv
  OBVIOUS
<1>1. (CHOOSE k \in Clients : TRUE) \in Clients
  BY ConnectionConstants
<1>2. Empty \in Messages
  BY DEF Empty, Messages, SentAnswers, NoId
<1>3. NoTask \in Tasks
  BY <1>1, <1>2 DEF NoTask, Tasks, Pcs, Reasons
<1>4. /\ NoTask.pc = "out" /\ NoTask.route = NoRoute /\ NoTask.id = NoId
      /\ NoTask.forwards = 0 /\ NoTask.connectErrors = 0
      /\ NoTask.charged = FALSE /\ NoTask.heard = FALSE
      /\ NoTask.hello = FALSE /\ NoTask.upstream = FALSE
  BY DEF NoTask
<1>5. \A c \in Conns : conn[c] = NoTask
  BY DEF Init
<1>6. PathOK(NoTask)
  BY <1>4 DEF PathOK, Undecided, Unread, Routed, OnHold, InForward, Served, Serving, CertFirst,
              NoTrace, InHandle
<1>7. Inside = {} /\ Waiting = {} /\ Numbered = {}
  BY <1>4, <1>5 DEF Inside, Waiting, Numbered, InHandle
<1>8. Cardinality({}) = 0
  BY FS_EmptySet
<1>9. Shape
  BY <1>2, <1>3, ConnectionConstants DEF Shape, Init, SentAnswers
<1>10. IdsFresh
  BY <1>4, <1>5, <1>7, <1>8 DEF IdsFresh, Init, NoId
<1>11. RegistryMatchesWaiters
  BY <1>7 DEF RegistryMatchesWaiters, Init
<1>12. Delivered
  BY DEF Delivered, Init
<1> QED
  BY <1>5, <1>6, <1>7, <1>8, <1>9, <1>10, <1>11, <1>12 DEF IInv, Init

\* A step of a task keeps the invariant: it is plain, or it starts or ends a
\* suspension.
LEMMA TaskStep ==
  ASSUME IInv, NEW c \in Conns, Accept(c) \/ Advance(c) \/ TunnelEnds(c)
  PROVE  IInv'
<1>1. UNCHANGED table /\ table' \in Routes \cup {NoRoute}
  <2>1. UNCHANGED table
    BY DEF Accept, Advance, TunnelEnds, Begin, EndEarly, Dispatch, Resolved, Unresolved,
           Withdraw, ForwardFails, PeerTakes, ConnectSucceeds, ConnectFails, HandshakeDone,
           HandshakeFails, Reconnect
  <2> QED
    BY <2>1 DEF IInv, Shape
<1>2. Plainly(c) \/ Suspends(c) \/ Released(c)
  BY AcceptStep, BeginStep, EndEarlyStep, DispatchStep, ResolvedStep, UnresolvedStep,
     WithdrawStep, ForwardFailsStep, PeerTakesStep, ConnectSucceedsStep, ConnectFailsStep,
     HandshakeDoneStep, HandshakeFailsStep, ReconnectStep, TunnelEndsStep DEF Advance
<1> QED
  BY <1>1, <1>2, PlainStep, SuspendsInv, ReleasedInv

\* Every step preserves the invariant.
LEMMA StepInv == IInv /\ [Next]_vars => IInv'
<1> SUFFICES ASSUME IInv, [Next]_vars PROVE IInv'
  OBVIOUS
<1>1. CASE \E c \in Conns : Accept(c) \/ Advance(c) \/ TunnelEnds(c)
  BY <1>1, TaskStep
<1>2. CASE ResolveCheck
  BY <1>2, ResolveCheckInv
<1>3. CASE ResolveSend
  BY <1>3, ResolveSendInv
<1>4. CASE Reload
  BY <1>4, ReloadInv DEF Reload
<1>5. CASE UNCHANGED vars
  <2>1. table' \in Routes \cup {NoRoute} /\ UNCHANGED <<active, pendingGauge, registry, conn>>
    BY <1>5 DEF vars, registry, IInv, Shape
  <2> QED
    BY <2>1, ReloadInv
<1> QED
  BY <1>1, <1>2, <1>3, <1>4, <1>5 DEF Next

\* The invariant holds in every reachable state.
LEMMA Invariant == Spec => []IInv
BY InitInv, StepInv, PTL DEF Spec

----------------------------------------------------------------------------
(* What the invariant says                                                 *)

\* No count exceeds the number of connections.
LEMMA CountsBounded ==
  ASSUME IInv
  PROVE  /\ active \in 0 .. Cardinality(Conns)
         /\ pendingGauge \in 0 .. Cardinality(Conns)
         /\ counter \in 1 .. Cardinality(Conns) + 1
<1>1. IsFiniteSet(Conns) /\ Cardinality(Conns) \in Nat
  BY ConnectionConstants, FS_CardinalityType
<1>2. Inside \subseteq Conns /\ Waiting \subseteq Conns /\ Numbered \subseteq Conns
  BY DEF Inside, Waiting, Numbered
<1>3. /\ Cardinality(Inside) \in Nat /\ Cardinality(Inside) <= Cardinality(Conns)
      /\ Cardinality(Waiting) \in Nat /\ Cardinality(Waiting) <= Cardinality(Conns)
      /\ Cardinality(Numbered) \in Nat /\ Cardinality(Numbered) <= Cardinality(Conns)
  BY <1>1, <1>2, FS_Subset, FS_CardinalityType
<1> QED
  BY <1>1, <1>3 DEF IInv, IdsFresh

\* What the theorems say of a state follows from the invariant.
LEMMA InvImpliesAccounted == IInv => Accounted
<1> SUFFICES ASSUME IInv PROVE Accounted
  OBVIOUS
<1>1. \A c \in Conns : conn[c] \in Tasks /\ PathOK(conn[c])
  BY DEF IInv, Shape
<1>2. TypeOK
  BY <1>1, CountsBounded DEF IInv, Shape, TypeOK, Tasks, Pcs, Messages, SentAnswers
<1>3. GaugesAgree /\ RegistryMatchesWaiters
  BY DEF IInv, GaugesAgree, Inside
<1>4. ConnectFailureCountedOnce
  BY <1>1 DEF ConnectFailureCountedOnce, PathOK
<1> QED
  BY <1>2, <1>3, <1>4 DEF Accounted

LEMMA InvImpliesNoTrace == IInv => RefusedSourceLeavesNoTrace
BY DEF IInv, PathOK, NoTrace, RefusedSourceLeavesNoTrace

LEMMA InvImpliesAllowed == IInv => ServedAsAllowed
<1> SUFFICES ASSUME IInv PROVE ServedAsAllowed
  OBVIOUS
<1>1. \A c \in Conns : PathOK(conn[c])
  BY DEF IInv
<1>2. ServedByOwnAnswer
  BY <1>1 DEF ServedByOwnAnswer, PathOK, Served, Serving
<1>3. IngressNeverForwarded
  BY <1>1 DEF IngressNeverForwarded, PathOK
<1>4. ForwardsUnreadHello
  BY <1>1 DEF ForwardsUnreadHello, PathOK, Unread
<1>5. VerifiedBeforeUpstream
  BY <1>1 DEF VerifiedBeforeUpstream, PathOK, CertFirst
<1> QED
  BY <1>2, <1>3, <1>4, <1>5 DEF ServedAsAllowed

----------------------------------------------------------------------------

\* Whatever the number of connections and whoever wins the race of an answer with
\* the timeout: active_connections and pending_suspended count exactly the tasks
\* inside handle() and the suspended ones, the registry (suspended.rs) holds a
\* sender exactly for those that wait for a first answer, and no connection counts
\* two failed connects (proxy_conn.rs).
THEOREM AccountedAlways == Spec => []Accounted
BY Invariant, InvImpliesAccounted, PTL

\* A client the source list of its route refuses takes no token, is not announced
\* to JavaScript and reaches no upstream, on any path through handle()
\* (proxy_conn.rs), reloads of the table included.
THEOREM RefusedSourceLeavesNoTraceAlways == Spec => []RefusedSourceLeavesNoTrace
BY Invariant, InvImpliesNoTrace, PTL

\* A suspended connection is served only by the route sent for its own id, a peer's
\* connection is never forwarded, only an unread hello is, and no upstream is open
\* before a required certificate is verified (proxy_conn.rs handle).
THEOREM ServedAsAllowedAlways == Spec => []ServedAsAllowed
BY Invariant, InvImpliesAllowed, PTL

=============================================================================
