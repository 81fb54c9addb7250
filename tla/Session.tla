------------------------------ MODULE Session ------------------------------
(***************************************************************************)
(* A connection from its first byte to its last: handle_connection of      *)
(* proxy_conn.rs takes a stream in (Intake), finds its route and proxies   *)
(* it (Tunnel).  What the intake only peeked at is still unread when the   *)
(* session starts: the ClientHello is the first thing a passthrough        *)
(* session carries, and the handshake reads it on a terminated one.        *)
(*                                                                         *)
(* How a route is found, admitted and connected is the subject of          *)
(* Connection; here any stream with a hello may become a session.          *)
(***************************************************************************)
EXTENDS Integers, Sequences

CONSTANTS Conns, InitialPeek, MaxHello, MaxPayload, MaxNames, MaxNameLen, MaxLoad, Loads,
          MaxHead, HeadRead, Routes,
          Sessions, BufferSize, FlushBytes

\* Limits and the size of a buffer (client_read_buffer_size, upstream_read_buffer_size) are
\* numbers, and counts are held back for at least one byte (COUNTER_FLUSH_BYTES).
ASSUME SessionAssumption ==
  /\ BufferSize \in Nat /\ FlushBytes \in Nat \ {0}
  /\ \A s \in Sessions : s[2] \in [half : Nat, idle : Nat, bytes : Nat]

VARIABLES conn, arrived, eof, consumed, pc, todo, source, verdict, buf, info, answer, got, http,
          sf, limit, phase, prefix, peer, sent, read, cap, pos, dir, err, armed, permit,
          watch, quiet, wake, life, gauge, pending, published, calm,
          proxied    \* the session has started

In == INSTANCE Intake
Out == INSTANCE Tunnel

inVars == <<conn, arrived, eof, consumed, pc, todo, source, verdict, buf, info, answer, got,
            http>>
outVars == <<sf, limit, phase, prefix, peer, sent, read, cap, pos, dir, err, armed, permit,
             watch, quiet, wake, life, gauge, pending, published, calm>>
vars == <<inVars, outVars, proxied>>

NoSession == [half |-> 0, idle |-> 0, bytes |-> 0]

Init ==
  /\ In!Init
  /\ Out!Fresh /\ sf = NoSession /\ limit = NoSession
  /\ proxied = FALSE

TakeIn ==
  /\ ~ proxied
  /\ In!Next
  /\ UNCHANGED <<outVars, proxied>>

\* The intake is over: its locals are gone, whatever they were.
Forgotten ==
  /\ conn' = CHOOSE c \in Conns : TRUE
  /\ arrived' = 0 /\ consumed' = 0 /\ eof' = FALSE /\ todo' = 0
  /\ pc' = "done" /\ source' = In!Nowhere /\ verdict' = "none"
  /\ buf' = InitialPeek /\ info' = In!NoInfo
  /\ answer' = <<>> /\ got' = 0 /\ http' = In!Unserved

\* The route is found and connected.  On a passthrough route the session starts with the
\* hello still unread; what a handshake reads is not the session's.
StartSession ==
  /\ ~ proxied
  /\ pc = "done" /\ info # In!NoInfo
  /\ proxied' = TRUE
  /\ \E s \in Sessions :
       /\ sf' = s[1] /\ limit' = s[2]
       /\ sent' = [sent EXCEPT !["client"] =
                     IF arrived > consumed /\ ~ s[1].terminated /\ s[2].bytes > 0 THEN 1 ELSE 0]
  /\ peer' = [peer EXCEPT !["client"] = IF eof THEN "eof" ELSE "open"]
  /\ Forgotten
  /\ UNCHANGED <<phase, prefix, read, cap, pos, dir, err, armed, permit, watch, quiet, wake,
                 life, gauge, pending, published, calm>>

Proxy(A) == proxied /\ A /\ UNCHANGED <<inVars, proxied>>

Next == TakeIn \/ StartSession \/ Proxy(Out!Next)

\* Time passes and a timer that is due is polled; the peers owe nothing, not even to
\* read what they are sent.
Fairness ==
  /\ WF_vars(Proxy(Out!Tick))
  /\ WF_vars(Proxy(Out!Watchdog))
  /\ WF_vars(Proxy(Out!IdleTimeout))

Spec == Init /\ [][Next]_vars /\ Fairness

----------------------------------------------------------------------------
(* Properties of the parts, in the whole                                   *)

\* However the stream is cut: a forwarded header is read to its last cell and no further,
\* and a trusted fingerprint is that of the hello the TLS stack will read.
HelloExact == (~ proxied => In!HeaderExact) /\ In!TrustedIsWhole

\* A load answer is read for the names that were asked, or not at all.
LoadsAligned == In!LoadsAligned

\* The plaintext listener forwards one ACME request head and nothing else, and if it is
\* UTF-8 throughout one that closes the connection and promises no body.
OnlyChallengeForwarded == In!OnlyChallengeForwarded

\* A half-closed session is reaped only after its window of quiet; one that ends well has
\* carried every byte, the hello that was peeked at included.
ReapedAfterQuiet == Out!ReapedAfterQuiet

\* Bytes and the half-closed gauge are exact however a session ends.
CountsSettled == Out!CountsSettled

\* A chain of certificates never costs the client its connection.
ChainNeverBreaksPrefix == proxied => Out!ChainNeverBreaksPrefix

\* A session whose response has ended does not stay quiet for ever: it ends, or its peers
\* go on sending, which may be without end, as "the deadline resets on activity"
\* (README.md).  One with an idle timeout ends that long after it began, busy or not.
\* Nothing the peers may withhold is waited for (forward, HalfCloseWatch::expired).
SessionEnds ==
  /\ []<> ~ (proxied /\ Out!Live /\ armed /\ limit.half > 0 /\ calm > 0)
  /\ proxied /\ limit.idle > 0 ~> ~ Out!Live

\* "Whatever its peers do": a half-closed session ends.  Violated, as it should be: a client
\* that keeps sending keeps its session ("holds a half-closed connection open while the
\* surviving direction is still carrying bytes", liveness.spec.ts).
ArmedSessionEnds == proxied /\ armed /\ limit.half > 0 ~> ~ Out!Live
============================================================================
