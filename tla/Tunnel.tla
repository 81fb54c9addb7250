------------------------------- MODULE Tunnel -------------------------------
(***************************************************************************)
(* A proxied session from its prefix to its end: forward of proxy_conn.rs, *)
(* the half-close bound of liveness.rs and the byte counts of metrics.rs.  *)
(*                                                                         *)
(* A direction is named after the peer it reads from.  The copy reads into *)
(* a buffer, writes the buffer, and shuts its writer down after the end of *)
(* its input; the session ends when both directions have, unless a timer   *)
(* ends it first.  Peers send, close, vanish and stop reading as they      *)
(* like.  Time is kept as ages, one Tick being the unit of the timeouts.   *)
(*                                                                         *)
(* How a rewriting copy changes the requests is the subject of Http1; here *)
(* it matters only that its directions fail one at a time.                 *)
(***************************************************************************)
EXTENDS Integers, Sequences, FiniteSets, FiniteSetsExt, SequencesExt

CONSTANTS
  Sessions,     \* pairs of a SourceForwarding and of limits: halfCloseTimeoutMs and
                \* idleTimeoutMs (0 for disabled), and how many bytes are counted
                \* before the counts start over
  BufferSize,   \* client_read_buffer_size, upstream_read_buffer_size
  FlushBytes    \* COUNTER_FLUSH_BYTES

Peers == {"client", "upstream"}
Other(p) == IF p = "client" THEN "upstream" ELSE "client"

Ended == {"ok", "stream", "peerTimeout", "halfClosed", "idle", "aborted"}

VARIABLES
  sf,        \* SourceForwarding
  limit,     \* the timeouts, and where the counts start over
  phase,     \* "prefix", "copy" or how the session ended
  prefix,    \* what was written ahead of the client's bytes
  peer,      \* of each peer: "open", "eof", "reset" or "gone" (the kernel gave up on it)
  sent,      \* bytes each peer has sent
  read,      \* bytes of them the copy has read
  cap, pos,  \* the direction's buffer: bytes read into it, bytes of it written
  dir,       \* the direction: "copy", "drain" or "done"
  err,       \* how it failed, or "none"
  armed,     \* HalfCloseWatch.armed
  permit,    \* the permit stored in its Notify
  watch,     \* expired(): "parked" or "asleep"
  quiet,     \* time since last_activity_ns
  wake,      \* time left of the watchdog's sleep
  life,      \* time since the session started
  gauge,     \* half_closed_connections
  pending,   \* CountingStream.pending_in ("client") and pending_out ("upstream")
  published, \* bytes_in and bytes_out of the listener and the route
  calm       \* history: time since a byte was read or the client was told of the end

vars == <<sf, limit, phase, prefix, peer, sent, read, cap, pos, dir, err, armed, permit,
          watch, quiet, wake, life, gauge, pending, published, calm>>

watchVars == <<armed, permit, watch, quiet, wake>>
copyVars == <<read, cap, pos, dir, err>>
countVars == <<gauge, pending, published>>
peerVars == <<peer, sent>>
given == <<sf, limit>>

----------------------------------------------------------------------------
(* What is forwarded about the client                                      *)

U16Max == 65535

\* The fingerprints a route selects, JA3 first; "" (length 0) when unparsed.
ForwardedFingerprints ==
  SelectSeq(<<[kind |-> "ja3", len |-> sf.ja3], [kind |-> "ja4", len |-> sf.ja4]>>,
            LAMBDA f : f.kind \in sf.fingerprint)

\* build_ssl_tlv: the client and verify fields and a sub-TLV each for version and cipher.
SslTlvLen == 5 + (3 + 7) + (3 + sf.tls.cipher)

TlvLen(tlvs) == FoldSeq(LAMBDA t, sum : 3 + t.len + sum, 0, tlvs)
Chain == [i \in 1 .. Len(sf.tls.chain) |-> [kind |-> "cert", len |-> sf.tls.chain[i]]]

\* Mutant of ChainFits: the address block is forgotten.
ChainFitsAlone(tlvs) ==
  /\ TlvLen(tlvs) + TlvLen(Chain) <= U16Max
  /\ \A i \in 1 .. Len(Chain) : Chain[i].len <= U16Max

ChainFits(tlvs) ==
  /\ TlvLen(tlvs) + TlvLen(Chain) + 36 <= U16Max
  /\ \A i \in 1 .. Len(Chain) : Chain[i].len <= U16Max

\* The TLVs write_connection_prefix collects for a PROXY v2 header.
PrefixTlvs ==
  LET seen == ForwardedFingerprints
              \o (IF sf.sni = 0 THEN <<>> ELSE <<[kind |-> "authority", len |-> sf.sni]>>)
      facts == seen
               \o (IF sf.tls.alpn = 0 THEN <<>> ELSE <<[kind |-> "alpn", len |-> sf.tls.alpn]>>)
               \o <<[kind |-> "ssl", len |-> SslTlvLen]>>
  IN IF ~ sf.terminated THEN seen
     ELSE facts \o (IF ChainFits(facts) THEN Chain ELSE <<>>)

\* write_proxy_v2_header: the length field of the header, empty TLVs left out.
HeaderLen(tlvs) ==
  (IF sf.v6 THEN 36 ELSE 12) + TlvLen(SelectSeq(tlvs, LAMBDA t : t.len > 0))

NoPrefix == [carrier |-> "none", tlvs |-> <<>>]

Prefix ==
  CASE sf.mode \in {"none", "xff"} -> NoPrefix
    [] sf.mode = "v1" -> [carrier |-> "v1", tlvs |-> <<>>]
    [] sf.mode = "v2" -> [carrier |-> "v2", tlvs |-> SelectSeq(PrefixTlvs, LAMBDA t : t.len > 0)]

\* The write is refused when a length does not fit its field.
PrefixEncodes ==
  sf.mode = "v2" =>
    HeaderLen(PrefixTlvs) <= U16Max /\ \A t \in Range(PrefixTlvs) : t.len <= U16Max

\* eligible_for_header_rewriting; proxy_raw never rewrites.
Http1Upstream == sf.terminated /\ sf.protocol = "http" /\ ~ sf.tls.h2

\* header_rewrites: the headers the proxy owns on this connection.
HeaderRewrites ==
  IF ~ Http1Upstream THEN {}
  ELSE (IF sf.mode = "xff" THEN {"X-Forwarded-For"} ELSE {})
       \cup (IF sf.mode = "v2" THEN {} ELSE sf.fingerprint)

Rewriting == HeaderRewrites # {}

----------------------------------------------------------------------------
(* The end of a session                                                    *)

\* Mutant of Dropped: the counts of a session cut short are lost.
DroppedUnpublished ==
  /\ gauge' = gauge - (IF armed THEN 1 ELSE 0)
  /\ pending' = [p \in Peers |-> 0]
  /\ UNCHANGED published

\* Drop of HalfCloseWatch and of CountingStream, which run however the session ends.
Dropped ==
  /\ gauge' = gauge - (IF armed THEN 1 ELSE 0)
  /\ published' = [p \in Peers |-> published[p] + pending[p]]
  /\ pending' = [p \in Peers |-> 0]

Ends(how) ==
  /\ phase' = how
  /\ Dropped
  /\ permit' = FALSE /\ wake' = 0 /\ life' = 0
  /\ UNCHANGED <<given, prefix, peerVars, copyVars, armed, watch, quiet, calm>>

\* classify_copy_failure of an error of peer p.
Classify(p) == IF peer[p] = "gone" THEN "peerTimeout" ELSE "stream"

Broken(p) == peer[p] \in {"reset", "gone"}

WritePrefix ==
  /\ phase = "prefix"
  /\ IF PrefixEncodes
     THEN /\ phase' = "copy"
          /\ prefix' = Prefix
          /\ UNCHANGED <<given, peerVars, copyVars, watchVars, countVars, life, calm>>
     ELSE Ends("stream")

PrefixFails ==
  /\ phase = "prefix"
  /\ Broken("upstream")
  /\ Ends(Classify("upstream"))

----------------------------------------------------------------------------
(* One direction of the copy                                               *)

Wrote(p) == read[p] - (cap[p] - pos[p])

\* record_in, record_out: the shared counters are touched once per FlushBytes.
Count(p, n) ==
  IF pending[p] + n >= FlushBytes
  THEN /\ published' = [published EXCEPT ![p] = @ + pending[p] + n]
       /\ pending' = [pending EXCEPT ![p] = 0]
  ELSE /\ pending' = [pending EXCEPT ![p] = @ + n]
       /\ UNCHANGED published

\* record_activity.
Activity ==
  /\ quiet' = IF armed THEN 0 ELSE quiet
  /\ UNCHANGED <<armed, permit, watch, wake>>

\* A copy reads whatever fits in what is left of its buffer; a direction fills a buffer to
\* its end before it starts again at the front.
Read(p) ==
  LET n == Min({sent[p] - read[p], BufferSize - cap[p]}) IN
  /\ phase = "copy" /\ dir[p] = "copy"
  /\ n > 0
  /\ read' = [read EXCEPT ![p] = @ + n]
  /\ cap' = [cap EXCEPT ![p] = @ + n]
  /\ Activity
  /\ calm' = 0
  /\ IF p = "client" THEN Count(p, n) ELSE UNCHANGED <<pending, published>>
  /\ UNCHANGED <<given, phase, prefix, peerVars, pos, dir, err, life, gauge>>

\* Mutant of ReadEof: the client's end of the watch is armed by the upstream's EOF.
ReadEofArms(p) ==
  /\ phase = "copy" /\ dir[p] = "copy"
  /\ peer[p] = "eof" /\ read[p] = sent[p]
  /\ dir' = [dir EXCEPT ![p] = "drain"]
  /\ IF p = "upstream"
     THEN /\ armed' = TRUE /\ permit' = TRUE /\ quiet' = 0 /\ gauge' = 1
          /\ UNCHANGED <<watch, wake>>
     ELSE UNCHANGED <<watchVars, gauge>>
  /\ UNCHANGED <<given, phase, prefix, peerVars, read, cap, pos, err, life, pending,
                 published, calm>>

ReadEof(p) ==
  /\ phase = "copy" /\ dir[p] = "copy"
  /\ peer[p] = "eof" /\ read[p] = sent[p]
  /\ dir' = [dir EXCEPT ![p] = "drain"]
  /\ UNCHANGED <<given, phase, prefix, peerVars, read, cap, pos, err, watchVars, countVars,
                 life, calm>>

\* The other peer takes some of the buffer, when it cares to read.
Write(p) ==
  /\ phase = "copy" /\ dir[p] \in {"copy", "drain"} /\ err[p] = "none"
  /\ ~ Broken(Other(p))
  /\ \E n \in 1 .. cap[p] - pos[p] :
       /\ LET whole == pos[p] + n = cap[p] IN
          /\ pos' = [pos EXCEPT ![p] = IF whole THEN 0 ELSE @ + n]
          /\ cap' = [cap EXCEPT ![p] = IF whole THEN 0 ELSE @]
       /\ IF p = "upstream" THEN Count(p, n) ELSE UNCHANGED <<pending, published>>
  /\ UNCHANGED <<given, phase, prefix, peerVars, read, dir, err, watchVars, life, gauge, calm>>

\* A rewriting copy goes on in the other direction.
PumpFails(p, how) ==
  /\ err' = [err EXCEPT ![p] = how]
  /\ dir' = [dir EXCEPT ![p] = "drain"]
  /\ UNCHANGED <<given, phase, prefix, peerVars, read, cap, pos, watchVars, countVars, life, calm>>

\* An error of either peer ends a plain copy.
CopyFails(p) ==
  /\ phase = "copy" /\ dir[p] \in {"copy", "drain"} /\ err[p] = "none"
  /\ \E q \in Peers :
       /\ Broken(q)
       /\ q = p => dir[p] = "copy"
       /\ q = Other(p) => cap[p] > 0
       /\ IF Rewriting THEN PumpFails(p, Classify(q)) ELSE Ends(Classify(q))

\* What a rewriting copy has read is no HTTP/1.1, or ends in the middle of a message: an
\* InvalidData or UnexpectedEof error, with both peers there.
Unframed(p) ==
  /\ phase = "copy" /\ dir[p] = "copy" /\ err[p] = "none"
  /\ Rewriting
  /\ read[p] > 0
  /\ PumpFails(p, "stream")

\* Mutant of Notified: a watchdog that is not parked yet misses it.
NotifiedNobody == FALSE

Notified == TRUE

\* HalfCloseWatch::arm, when the writer to the client has been shut down.
Arm ==
  /\ quiet' = 0
  /\ armed' = TRUE
  /\ IF armed THEN UNCHANGED <<gauge, permit>> ELSE gauge' = gauge + 1 /\ permit' = Notified
  /\ UNCHANGED <<watch, wake>>

\* The writer is flushed and shut down once the buffer is empty, or after an error.
Shutdown(p) ==
  /\ phase = "copy" /\ dir[p] = "drain"
  /\ cap[p] = 0 \/ err[p] # "none"
  /\ ~ Broken(Other(p))
  /\ dir' = [dir EXCEPT ![p] = "done"]
  /\ IF p = "upstream" THEN Arm /\ calm' = 0 ELSE UNCHANGED <<watchVars, gauge, calm>>
  /\ UNCHANGED <<given, phase, prefix, peerVars, read, cap, pos, err, life, pending, published>>

ShutdownFails(p) ==
  /\ phase = "copy" /\ dir[p] = "drain"
  /\ cap[p] = 0 \/ err[p] # "none"
  /\ Broken(Other(p))
  /\ IF Rewriting
     THEN /\ dir' = [dir EXCEPT ![p] = "done"]
          /\ UNCHANGED <<given, phase, prefix, peerVars, read, cap, pos, err, watchVars,
                         countVars, life, calm>>
     ELSE Ends(Classify(Other(p)))

\* Both directions are through; of two errors the client's counts.
CopyEnds ==
  /\ phase = "copy"
  /\ \A p \in Peers : dir[p] = "done"
  /\ Ends(CASE err["client"] # "none" -> err["client"]
            [] err["client"] = "none" /\ err["upstream"] # "none" -> err["upstream"]
            [] \A p \in Peers : err[p] = "none" -> "ok")

----------------------------------------------------------------------------
(* Timers                                                                  *)

\* HalfCloseWatch::expired, polled: woken, it looks how long it has been quiet.
Watchdog ==
  /\ phase \in {"prefix", "copy"} /\ limit.half > 0
  /\ \/ watch = "parked" /\ permit
     \/ watch = "asleep" /\ wake = 0
  /\ IF quiet < limit.half
     THEN /\ watch' = "asleep"
          /\ wake' = limit.half - quiet
          /\ permit' = FALSE
          /\ UNCHANGED <<given, phase, prefix, peerVars, copyVars, armed, quiet, countVars,
                         life, calm>>
     ELSE Ends("halfClosed")

IdleTimeout ==
  /\ phase \in {"prefix", "copy"}
  /\ limit.idle > 0 /\ life = limit.idle
  /\ Ends("idle")

\* The task is dropped at shutdown.
Abort ==
  /\ phase \in {"prefix", "copy"}
  /\ Ends("aborted")

Later(age, bound) == Min({age + 1, bound})

Tick ==
  /\ phase \in {"prefix", "copy"}
  /\ quiet' = Later(quiet, limit.half)
  /\ calm' = Later(calm, limit.half)
  /\ life' = Later(life, limit.idle)
  /\ wake' = Max({wake - 1, 0})
  /\ <<quiet, calm, life, wake>>' # <<quiet, calm, life, wake>>
  /\ UNCHANGED <<given, phase, prefix, peerVars, copyVars, armed, permit, watch, countVars>>

----------------------------------------------------------------------------
(* The peers                                                               *)

Live == phase \in {"prefix", "copy"}

Sends(p) ==
  /\ Live
  /\ peer[p] = "open" /\ sent[p] < limit.bytes
  /\ sent' = [sent EXCEPT ![p] = @ + 1]
  /\ UNCHANGED <<given, phase, prefix, peer, copyVars, watchVars, countVars, life, calm>>

\* The counts are bounded and the session is not: what was sent, delivered and counted to
\* the last byte is counted no longer, and the peer may go on sending for ever.
StartOver(p) ==
  /\ Live
  /\ sent[p] = limit.bytes /\ sent[p] > 0
  /\ read[p] = sent[p] /\ cap[p] = 0 /\ pending[p] = 0
  /\ published[p] = (IF p = "client" THEN read[p] ELSE Wrote(p))
  /\ sent' = [sent EXCEPT ![p] = 0]
  /\ read' = [read EXCEPT ![p] = 0]
  /\ published' = [published EXCEPT ![p] = 0]
  /\ UNCHANGED <<given, phase, prefix, peer, cap, pos, dir, err, watchVars, gauge, pending,
                 life, calm>>

\* A peer closes its writing half, resets, or is given up by the kernel: keepalive
\* probes (arm_keepalive) or retransmissions are exhausted.
PeerChanges(p) ==
  /\ Live
  /\ \/ peer[p] = "open" /\ \E s \in {"eof", "reset", "gone"} : peer' = [peer EXCEPT ![p] = s]
     \/ peer[p] = "eof" /\ \E s \in {"reset", "gone"} : peer' = [peer EXCEPT ![p] = s]
  /\ UNCHANGED <<given, phase, prefix, sent, copyVars, watchVars, countVars, life, calm>>

Zero == [p \in Peers |-> 0]

\* A session that has not started.
Fresh ==
  /\ phase = "prefix" /\ prefix = NoPrefix
  /\ peer = [p \in Peers |-> "open"] /\ sent = Zero
  /\ read = Zero /\ cap = Zero /\ pos = Zero
  /\ dir = [p \in Peers |-> "copy"] /\ err = [p \in Peers |-> "none"]
  /\ armed = FALSE /\ permit = FALSE /\ watch = "parked" /\ quiet = 0 /\ wake = 0
  /\ life = 0 /\ gauge = 0 /\ pending = Zero /\ published = Zero
  /\ calm = 0

Copy(p) ==
  \/ Read(p) \/ ReadEof(p) \/ Write(p) \/ CopyFails(p) \/ Unframed(p)
  \/ Shutdown(p) \/ ShutdownFails(p)

Next ==
  \/ WritePrefix \/ PrefixFails
  \/ \E p \in Peers : Copy(p)
  \/ CopyEnds
  \/ Watchdog \/ IdleTimeout \/ Abort \/ Tick
  \/ \E p \in Peers : Sends(p) \/ StartOver(p) \/ PeerChanges(p)

----------------------------------------------------------------------------
(* Properties                                                              *)

\* A session is reaped as half-closed only after the client has been told of the end of
\* the response, everything the upstream sent having reached it unless that direction
\* failed, and nothing has been read from either side for the whole window since: a client
\* that keeps sending keeps its session.  One that ends well has delivered every byte both
\* ways.
ReapedAfterQuiet ==
  /\ phase = "halfClosed" =>
       /\ calm >= limit.half /\ limit.half > 0
       /\ dir["upstream"] = "done"
       /\ err["upstream"] = "none" => Wrote("upstream") = sent["upstream"]
  /\ phase = "ok" => \A p \in Peers : Wrote(p) = sent[p]

\* However a session ends, its bytes are counted exactly, those still held back by the
\* connection included, and it leaves the half-closed gauge as it found it.
CountsSettled ==
  /\ gauge = (IF Live /\ armed THEN 1 ELSE 0)
  /\ \A p \in Peers : pending[p] < FlushBytes
  /\ published["client"] + pending["client"] = read["client"]
  /\ published["upstream"] + pending["upstream"] = Wrote("upstream")
  /\ ~ Live => \A p \in Peers : pending[p] = 0

\* "Drop the connection if it is idle for this many ms" (types.ts), "close connections
\* silent for this many ms" (README.md).  Violated: forward bounds the whole session, busy
\* or not, as metrics.rs says of IdleTimeout.
OnlyIdleDropped == phase = "idle" /\ limit.half > 0 => calm > 0

\* A chain of certificates of any length is forwarded whole or left out: it never costs
\* the client its connection, and it is left out only when the header would come within
\* an address block of what its length field can say.
ChainNeverBreaksPrefix ==
  /\ phase = "stream" /\ prefix = NoPrefix /\ sf.mode = "v2" => Broken("upstream")
  /\ prefix.carrier = "v2" /\ sf.terminated =>
       LET certs == SelectSeq(prefix.tlvs, LAMBDA t : t.kind = "cert")
           rest == SelectSeq(prefix.tlvs, LAMBDA t : t.kind # "cert")
       IN /\ certs \in {<<>>, Chain}
          /\ HeaderLen(rest \o Chain) + 36 <= U16Max => certs = Chain

============================================================================
