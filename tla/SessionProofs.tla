--------------------------- MODULE SessionProofs ---------------------------
(***************************************************************************)
(* Proofs about Session: the bytes and the gauge of a session are settled  *)
(* however it ends, and a half-closed session is reaped only after its     *)
(* window of quiet.                                                        *)
(***************************************************************************)
EXTENDS Session, TLAPS

\* What is known of the state of a session that may have started.
TunnelTypes ==
  /\ limit \in [half : Nat, idle : Nat, bytes : Nat]
  /\ phase \in {"prefix", "copy"} \cup Out!Ended
  /\ peer \in [Out!Peers -> {"open", "eof", "reset", "gone"}]
  /\ sent \in [Out!Peers -> Nat] /\ read \in [Out!Peers -> Nat]
  /\ cap \in [Out!Peers -> Nat] /\ pos \in [Out!Peers -> Nat]
  /\ dir \in [Out!Peers -> {"copy", "drain", "done"}]
  /\ err \in [Out!Peers -> {"none", "stream", "peerTimeout"}]
  /\ armed \in BOOLEAN /\ permit \in BOOLEAN /\ watch \in {"parked", "asleep"}
  /\ quiet \in Nat /\ wake \in Nat /\ life \in Nat /\ calm \in Nat
  /\ gauge \in Int /\ pending \in [Out!Peers -> Nat] /\ published \in [Out!Peers -> Nat]

\* A direction that is past its copy without an error has read all its peer will ever
\* send, and one that is through has written it.
CopyOK ==
  \A p \in Out!Peers :
    /\ read[p] <= sent[p] /\ pos[p] <= cap[p]
    /\ dir[p] # "copy" /\ err[p] = "none" => peer[p] # "open" /\ read[p] = sent[p]
    /\ dir[p] = "done" /\ err[p] = "none" => cap[p] = 0

\* Only the end of the response arms the watch and lets the watchdog run, and from then
\* on what the watch measures is what the property speaks of.
WatchOK ==
  /\ permit \/ watch = "asleep" => armed
  /\ armed => dir["upstream"] = "done" /\ quiet = calm

TunnelInv == TunnelTypes /\ CopyOK /\ WatchOK /\ CountsSettled /\ ReapedAfterQuiet

\* Until the route is connected the session has not begun.
NotBegun == ~ proxied => Out!Fresh

IInv == TunnelInv /\ NotBegun

USE DEF CountsSettled, ReapedAfterQuiet

----------------------------------------------------------------------------

LEMMA MinOfTwo ==
  ASSUME NEW a \in Int, NEW b \in Int
  PROVE  Out!Min({a, b}) = IF a <= b THEN a ELSE b
BY DEF Out!Min

LEMMA MaxOfTwo ==
  ASSUME NEW a \in Int, NEW b \in Int
  PROVE  Out!Max({a, b}) = IF a >= b THEN a ELSE b
BY DEF Out!Max

\* However a session ends, what was held back is published and the gauge goes down.
LEMMA EndsStep ==
  ASSUME TunnelInv, NEW how \in Out!Ended, Out!Ends(how), Out!Live,
         how = "halfClosed" => calm >= limit.half /\ limit.half > 0 /\ armed,
         how = "ok" => \A p \in Out!Peers : dir[p] = "done" /\ err[p] = "none"
  PROVE  TunnelInv'
<1> USE DEF TunnelInv, Out!Ends, Out!Dropped, Out!given, Out!peerVars, Out!copyVars
<1>1. TunnelTypes'
  <2>1. gauge' \in Int
    BY DEF TunnelTypes
  <2>2. pending' \in [Out!Peers -> Nat] /\ published' \in [Out!Peers -> Nat]
    BY DEF TunnelTypes
  <2> QED BY <2>1, <2>2 DEF TunnelTypes
<1>2. CopyOK' /\ WatchOK'
  BY DEF CopyOK, WatchOK, TunnelTypes
<1>3. Out!CountsSettled'
  <2>1. gauge' = 0 /\ ~ Out!Live'
    BY DEF Out!CountsSettled, Out!Live, Out!Ended, TunnelTypes
  <2>2. \A p \in Out!Peers : pending'[p] = 0 /\ published'[p] = published[p] + pending[p]
    BY DEF TunnelTypes
  <2>3. "client" \in Out!Peers /\ "upstream" \in Out!Peers
    BY DEF Out!Peers
  <2>4. Out!Wrote("upstream")' = Out!Wrote("upstream")
    BY DEF Out!Wrote
  <2>5. published'["client"] + pending'["client"] = read'["client"]
    BY <2>2, <2>3 DEF Out!CountsSettled, TunnelTypes
  <2>6. published'["upstream"] + pending'["upstream"] = Out!Wrote("upstream")'
    <3>1. published'["upstream"] + pending'["upstream"] = published["upstream"] + pending["upstream"]
      BY <2>2, <2>3 DEF TunnelTypes
    <3> QED BY <3>1, <2>4 DEF Out!CountsSettled
  <2> QED BY <2>1, <2>2, <2>5, <2>6, SessionAssumption DEF Out!CountsSettled
<1>4. Out!ReapedAfterQuiet'
  <2>1. \A p \in Out!Peers : dir[p] = "done" /\ err[p] = "none" => Out!Wrote(p) = sent[p]
    BY DEF CopyOK, TunnelTypes, Out!Wrote
  <2>2. "upstream" \in Out!Peers /\ (armed => dir["upstream"] = "done")
    BY DEF Out!Peers, WatchOK
  <2>3. how = "halfClosed" =>
          /\ calm >= limit.half /\ limit.half > 0 /\ dir["upstream"] = "done"
          /\ err["upstream"] = "none" => Out!Wrote("upstream") = sent["upstream"]
    BY <2>1, <2>2
  <2>4. how = "ok" => \A p \in Out!Peers : Out!Wrote(p) = sent[p]
    BY <2>1
  <2> QED BY <2>3, <2>4 DEF Out!ReapedAfterQuiet, Out!Wrote
<1> QED BY <1>1, <1>2, <1>3, <1>4

\* How an error of a peer is classified.
LEMMA ClassifyEnds ==
  ASSUME NEW p
  PROVE  Out!Classify(p) \in {"stream", "peerTimeout"}
BY DEF Out!Classify

\* An end that is neither a good one nor a reaping.
LEMMA CutShort ==
  ASSUME TunnelInv, Out!Live,
         NEW how \in {"stream", "peerTimeout", "idle", "aborted"}, Out!Ends(how)
  PROVE  TunnelInv'
<1>1. how \in Out!Ended /\ how # "halfClosed" /\ how # "ok"
  BY DEF Out!Ended
<1> QED BY <1>1, EndsStep

LEMMA WritePrefixStep ==
  ASSUME TunnelInv, Out!WritePrefix
  PROVE  TunnelInv'
<1>0. Out!Live
  BY DEF Out!WritePrefix, Out!Live
<1>1. CASE Out!PrefixEncodes
  BY <1>1 DEF Out!WritePrefix, TunnelInv, TunnelTypes, CopyOK, WatchOK, Out!given, Out!peerVars,
     Out!copyVars, Out!watchVars, Out!countVars, Out!CountsSettled, Out!Live, Out!Wrote,
     Out!ReapedAfterQuiet
<1>2. CASE ~ Out!PrefixEncodes
  <2>1. Out!Ends("stream")
    BY <1>2 DEF Out!WritePrefix
  <2> QED BY <1>0, <2>1, CutShort
<1> QED BY <1>1, <1>2

LEMMA PrefixFailsStep ==
  ASSUME TunnelInv, Out!PrefixFails
  PROVE  TunnelInv'
BY CutShort, ClassifyEnds DEF Out!PrefixFails, Out!Live

LEMMA CopyEndsStep ==
  ASSUME TunnelInv, Out!CopyEnds
  PROVE  TunnelInv'
<1> DEFINE how == CASE err["client"] # "none" -> err["client"]
                    [] err["client"] = "none" /\ err["upstream"] # "none" -> err["upstream"]
                    [] \A p \in Out!Peers : err[p] = "none" -> "ok"
<1>0. Out!Ends(how) /\ Out!Live /\ \A p \in Out!Peers : dir[p] = "done"
  BY DEF Out!CopyEnds, Out!Live
<1>1. \/ how \in {"stream", "peerTimeout"}
      \/ how = "ok" /\ \A p \in Out!Peers : err[p] = "none"
  BY DEF TunnelInv, TunnelTypes, Out!Peers
<1>2. how \in Out!Ended /\ how # "halfClosed"
  BY <1>1 DEF Out!Ended
<1> HIDE DEF how
<1> QED BY <1>0, <1>1, <1>2, EndsStep

LEMMA WatchdogStep ==
  ASSUME TunnelInv, Out!Watchdog
  PROVE  TunnelInv'
<1>0. Out!Live /\ armed /\ limit.half > 0
  BY DEF Out!Watchdog, Out!Live, TunnelInv, WatchOK
<1>1. CASE quiet < limit.half
  <2> USE <1>1 DEF Out!Watchdog, TunnelInv, Out!given, Out!peerVars, Out!copyVars, Out!countVars
  <2>1. wake' \in Nat
    BY DEF TunnelTypes
  <2>2. TunnelTypes'
    BY <2>1 DEF TunnelTypes
  <2>3. CopyOK' /\ WatchOK'
    BY <1>0 DEF CopyOK, WatchOK
  <2>4. Out!CountsSettled' /\ Out!ReapedAfterQuiet'
    BY DEF Out!CountsSettled, Out!Live, Out!Wrote, Out!ReapedAfterQuiet
  <2> QED BY <2>2, <2>3, <2>4
<1>2. CASE ~ (quiet < limit.half)
  <2>1. Out!Ends("halfClosed")
    BY <1>2 DEF Out!Watchdog
  <2>2. calm >= limit.half
    BY <1>0, <1>2 DEF TunnelInv, TunnelTypes, WatchOK
  <2>3. "halfClosed" \in Out!Ended
    BY DEF Out!Ended
  <2> QED BY <1>0, <2>1, <2>2, <2>3, EndsStep
<1> QED BY <1>1, <1>2

LEMMA IdleTimeoutStep ==
  ASSUME TunnelInv, Out!IdleTimeout \/ Out!Abort
  PROVE  TunnelInv'
BY CutShort DEF Out!IdleTimeout, Out!Abort, Out!Live

LEMMA LaterIsNat ==
  ASSUME NEW age \in Nat, NEW bound \in Nat
  PROVE  Out!Later(age, bound) \in Nat
BY MinOfTwo DEF Out!Later

LEMMA TickStep ==
  ASSUME TunnelInv, Out!Tick
  PROVE  TunnelInv'
<1> USE DEF Out!Tick, TunnelInv, Out!given, Out!peerVars, Out!copyVars, Out!countVars
<1>1. wake' \in Nat
  <2>1. wake - 1 \in Int /\ wake' = Out!Max({wake - 1, 0})
    BY DEF TunnelTypes
  <2>2. Out!Max({wake - 1, 0}) = IF wake - 1 >= 0 THEN wake - 1 ELSE 0
    BY <2>1, MaxOfTwo
  <2> QED BY <2>1, <2>2
<1>2. quiet' \in Nat /\ calm' \in Nat /\ life' \in Nat
  BY LaterIsNat DEF TunnelTypes
<1>3. TunnelTypes'
  BY <1>1, <1>2 DEF TunnelTypes
<1>4. CopyOK' /\ WatchOK'
  BY DEF CopyOK, WatchOK
<1>5. Out!CountsSettled' /\ Out!ReapedAfterQuiet'
  BY DEF Out!CountsSettled, Out!Live, Out!Wrote, Out!ReapedAfterQuiet
<1> QED BY <1>3, <1>4, <1>5

\* A peer that has stopped sending never sends again, so what was read whole stays whole.
LEMMA SendsStep ==
  ASSUME TunnelInv, NEW p \in Out!Peers, Out!Sends(p)
  PROVE  TunnelInv'
<1> USE DEF Out!Sends, TunnelInv, Out!given, Out!copyVars, Out!watchVars, Out!countVars
<1>1. TunnelTypes'
  BY DEF TunnelTypes
<1>2. \A q \in Out!Peers : sent'[q] >= sent[q] /\ (peer[q] # "open" => sent'[q] = sent[q])
  BY DEF TunnelTypes
<1>3. CopyOK' /\ WatchOK'
  BY <1>1, <1>2 DEF CopyOK, WatchOK, TunnelTypes
<1>4. Out!CountsSettled' /\ Out!ReapedAfterQuiet'
  BY DEF Out!CountsSettled, Out!Live, Out!Wrote, Out!ReapedAfterQuiet
<1> QED BY <1>1, <1>3, <1>4

\* The counts of what was delivered and published start over together.
LEMMA StartOverStep ==
  ASSUME TunnelInv, NEW p \in Out!Peers, Out!StartOver(p)
  PROVE  TunnelInv'
<1> USE DEF TunnelInv
<1>1. /\ UNCHANGED <<limit, phase, peer, cap, pos, dir, err, armed, permit, watch, quiet, wake>>
      /\ UNCHANGED <<gauge, pending, life, calm>>
      /\ read[p] = sent[p] /\ cap[p] = 0 /\ pending[p] = 0 /\ Out!Live
  BY DEF Out!StartOver, Out!given, Out!watchVars
<1>2. /\ sent' = [sent EXCEPT ![p] = 0] /\ read' = [read EXCEPT ![p] = 0]
      /\ published' = [published EXCEPT ![p] = 0]
  BY DEF Out!StartOver
<1>3. /\ sent'[p] = 0 /\ read'[p] = 0 /\ published'[p] = 0 /\ pos[p] = 0
      /\ \A q \in Out!Peers \ {p} :
           sent'[q] = sent[q] /\ read'[q] = read[q] /\ published'[q] = published[q]
  BY <1>1, <1>2 DEF TunnelTypes, CopyOK
<1>4. TunnelTypes'
  BY <1>1, <1>2 DEF TunnelTypes
<1>5. CopyOK' /\ WatchOK'
  BY <1>1, <1>3 DEF CopyOK, WatchOK, TunnelTypes
<1>6. Out!CountsSettled'
  <2>0. "client" \in Out!Peers /\ "upstream" \in Out!Peers
    BY DEF Out!Peers
  <2>1. Out!Wrote("upstream")' = IF p = "upstream" THEN 0 ELSE Out!Wrote("upstream")
    BY <1>1, <1>3, <2>0 DEF Out!Wrote
  <2>2. published'["client"] + pending'["client"] = read'["client"]
    BY <1>1, <1>3, <2>0 DEF Out!CountsSettled
  <2>3. published'["upstream"] + pending'["upstream"] = Out!Wrote("upstream")'
    BY <1>1, <1>3, <2>0, <2>1 DEF Out!CountsSettled
  <2> QED BY <1>1, <2>2, <2>3 DEF Out!CountsSettled, Out!Live
<1>7. Out!ReapedAfterQuiet'
  BY <1>1 DEF Out!ReapedAfterQuiet, Out!Live
<1> QED BY <1>4, <1>5, <1>6, <1>7

LEMMA PeerChangesStep ==
  ASSUME TunnelInv, NEW p \in Out!Peers, Out!PeerChanges(p)
  PROVE  TunnelInv'
<1> USE DEF Out!PeerChanges, TunnelInv, Out!given, Out!copyVars, Out!watchVars, Out!countVars
<1>1. TunnelTypes'
  BY DEF TunnelTypes
<1>2. \A q \in Out!Peers : peer[q] # "open" => peer'[q] # "open"
  BY DEF TunnelTypes
<1>3. CopyOK' /\ WatchOK'
  BY <1>2 DEF CopyOK, WatchOK
<1>4. Out!CountsSettled' /\ Out!ReapedAfterQuiet'
  BY DEF Out!CountsSettled, Out!Live, Out!Wrote, Out!ReapedAfterQuiet
<1> QED BY <1>1, <1>3, <1>4

----------------------------------------------------------------------------
(* The copy                                                                *)

\* A count is held back below the threshold or published, and never lost.
LEMMA CountKeeps ==
  ASSUME TunnelInv, NEW p \in Out!Peers, NEW n \in Nat, Out!Count(p, n)
  PROVE  /\ pending' \in [Out!Peers -> Nat] /\ published' \in [Out!Peers -> Nat]
         /\ \A q \in Out!Peers : pending'[q] < FlushBytes
         /\ published'[p] + pending'[p] = published[p] + pending[p] + n
         /\ \A q \in Out!Peers \ {p} : pending'[q] = pending[q] /\ published'[q] = published[q]
<1> USE SessionAssumption
<1>0. /\ pending \in [Out!Peers -> Nat] /\ published \in [Out!Peers -> Nat]
      /\ \A q \in Out!Peers : pending[q] < FlushBytes
  BY DEF TunnelInv, TunnelTypes, Out!CountsSettled
<1>1. CASE pending[p] + n >= FlushBytes
  BY <1>0, <1>1 DEF Out!Count
<1>2. CASE ~ (pending[p] + n >= FlushBytes)
  BY <1>0, <1>2 DEF Out!Count
<1> QED BY <1>1, <1>2

LEMMA ReadStep ==
  ASSUME TunnelInv, NEW p \in Out!Peers, Out!Read(p)
  PROVE  TunnelInv'
<1> DEFINE n == Out!Min({sent[p] - read[p], BufferSize - cap[p]})
<1> USE DEF TunnelInv
<1>0. /\ phase = "copy" /\ dir[p] = "copy" /\ Out!Live
      /\ UNCHANGED <<limit, phase, peer, sent, pos, dir, err, life, gauge>>
      /\ UNCHANGED <<armed, permit, watch, wake>>
      /\ calm' = 0 /\ quiet' = IF armed THEN 0 ELSE quiet
  BY DEF Out!Read, Out!Activity, Out!given, Out!peerVars, Out!Live
<1>1. n \in Nat /\ n <= sent[p] - read[p]
  <2>1. sent[p] - read[p] \in Int /\ BufferSize - cap[p] \in Int
    BY SessionAssumption DEF TunnelTypes
  <2>2. n = IF sent[p] - read[p] <= BufferSize - cap[p] THEN sent[p] - read[p] ELSE BufferSize - cap[p]
    BY <2>1, MinOfTwo
  <2>3. n > 0
    BY DEF Out!Read
  <2> QED BY <2>1, <2>2, <2>3
<1>2. /\ read' = [read EXCEPT ![p] = @ + n] /\ cap' = [cap EXCEPT ![p] = @ + n]
      /\ IF p = "client" THEN Out!Count(p, n) ELSE UNCHANGED <<pending, published>>
  BY DEF Out!Read
<1> HIDE DEF n
<1>3. /\ pending' \in [Out!Peers -> Nat] /\ published' \in [Out!Peers -> Nat]
      /\ \A q \in Out!Peers : pending'[q] < FlushBytes
      /\ p = "client" => published'[p] + pending'[p] = published[p] + pending[p] + n
      /\ \A q \in Out!Peers : q # p \/ p # "client" => pending'[q] = pending[q] /\ published'[q] = published[q]
  <2>1. CASE p = "client"
    BY <1>1, <1>2, <2>1, CountKeeps
  <2>2. CASE p # "client"
    BY <1>2, <2>2 DEF TunnelTypes, Out!CountsSettled
  <2> QED BY <2>1, <2>2
<1>4. TunnelTypes'
  <2>1. read' \in [Out!Peers -> Nat] /\ cap' \in [Out!Peers -> Nat]
    BY <1>1, <1>2 DEF TunnelTypes
  <2>2. quiet' \in Nat /\ calm' \in Nat
    BY <1>0 DEF TunnelTypes
  <2> QED BY <1>0, <1>3, <2>1, <2>2 DEF TunnelTypes
<1>5. CopyOK'
  <2>1. \A q \in Out!Peers : q # p => read'[q] = read[q] /\ cap'[q] = cap[q]
    BY <1>2 DEF TunnelTypes
  <2>2. read'[p] = read[p] + n /\ cap'[p] = cap[p] + n
    BY <1>2 DEF TunnelTypes
  <2>3. read'[p] <= sent'[p] /\ pos'[p] <= cap'[p]
    BY <1>0, <1>1, <2>2 DEF CopyOK, TunnelTypes
  <2> QED BY <1>0, <2>1, <2>2, <2>3 DEF CopyOK
<1>6. WatchOK'
  BY <1>0 DEF WatchOK
<1>7. Out!CountsSettled'
  <2>0. "client" \in Out!Peers /\ "upstream" \in Out!Peers /\ p \in {"client", "upstream"}
    BY DEF Out!Peers
  <2>1. \A q \in Out!Peers : Out!Wrote(q)' = Out!Wrote(q)
    BY <1>0, <1>1, <1>2 DEF TunnelTypes, Out!Wrote
  <2>2. published'["client"] + pending'["client"] = read'["client"]
    BY <1>1, <1>2, <1>3, <2>0 DEF TunnelTypes, Out!CountsSettled
  <2>3. published'["upstream"] + pending'["upstream"] = Out!Wrote("upstream")'
    BY <1>3, <2>0, <2>1 DEF Out!CountsSettled
  <2>4. gauge' = (IF Out!Live' /\ armed' THEN 1 ELSE 0) /\ Out!Live'
    BY <1>0 DEF Out!CountsSettled, Out!Live
  <2> QED BY <1>3, <2>2, <2>3, <2>4 DEF Out!CountsSettled
<1>8. Out!ReapedAfterQuiet'
  BY <1>0 DEF Out!ReapedAfterQuiet
<1> QED BY <1>4, <1>5, <1>6, <1>7, <1>8

LEMMA ReadEofStep ==
  ASSUME TunnelInv, NEW p \in Out!Peers, Out!ReadEof(p)
  PROVE  TunnelInv'
<1> USE DEF Out!ReadEof, TunnelInv, Out!given, Out!peerVars, Out!watchVars, Out!countVars
<1>1. TunnelTypes'
  BY DEF TunnelTypes
<1>2. /\ dir'[p] = "drain" /\ peer[p] = "eof" /\ read[p] = sent[p]
      /\ \A q \in Out!Peers \ {p} : dir'[q] = dir[q]
  BY DEF TunnelTypes
<1>3. CopyOK'
  BY <1>2 DEF CopyOK
<1>4. WatchOK'
  <2>1. "upstream" \in Out!Peers
    BY DEF Out!Peers
  <2>2. armed => dir["upstream"] = "done" /\ dir[p] = "copy"
    BY DEF WatchOK
  <2>3. armed => dir'["upstream"] = "done"
    BY <1>2, <2>1, <2>2
  <2> QED BY <2>3 DEF WatchOK
<1>5. Out!CountsSettled' /\ Out!ReapedAfterQuiet'
  BY DEF Out!CountsSettled, Out!Live, Out!Wrote, Out!ReapedAfterQuiet
<1> QED BY <1>1, <1>3, <1>4, <1>5

LEMMA WriteStep ==
  ASSUME TunnelInv, NEW p \in Out!Peers, Out!Write(p)
  PROVE  TunnelInv'
<1> USE DEF TunnelInv
<1>0. /\ phase = "copy" /\ dir[p] \in {"copy", "drain"} /\ Out!Live
      /\ UNCHANGED <<limit, phase, peer, sent, read, dir, err, life, gauge, calm>>
      /\ UNCHANGED <<armed, permit, watch, quiet, wake>>
  BY DEF Out!Write, Out!given, Out!peerVars, Out!watchVars, Out!Live
<1>1. PICK n \in 1 .. cap[p] - pos[p] :
        /\ pos' = [pos EXCEPT ![p] = IF pos[p] + n = cap[p] THEN 0 ELSE pos[p] + n]
        /\ cap' = [cap EXCEPT ![p] = IF pos[p] + n = cap[p] THEN 0 ELSE cap[p]]
        /\ IF p = "upstream" THEN Out!Count(p, n) ELSE UNCHANGED <<pending, published>>
  BY DEF Out!Write, TunnelTypes
<1>2. /\ n \in Nat /\ pos[p] + n <= cap[p]
      /\ cap[p] \in Nat /\ pos[p] \in Nat /\ read[p] \in Nat
  BY DEF TunnelTypes
<1>3. /\ \A q \in Out!Peers \ {p} : pos'[q] = pos[q] /\ cap'[q] = cap[q]
      /\ pos'[p] = (IF pos[p] + n = cap[p] THEN 0 ELSE pos[p] + n)
      /\ cap'[p] = (IF pos[p] + n = cap[p] THEN 0 ELSE cap[p])
      /\ pos' \in [Out!Peers -> Nat] /\ cap' \in [Out!Peers -> Nat]
  BY <1>1, <1>2 DEF TunnelTypes
<1>4. /\ pending' \in [Out!Peers -> Nat] /\ published' \in [Out!Peers -> Nat]
      /\ \A q \in Out!Peers : pending'[q] < FlushBytes
      /\ p = "upstream" => published'[p] + pending'[p] = published[p] + pending[p] + n
      /\ \A q \in Out!Peers : q # p \/ p # "upstream" => pending'[q] = pending[q] /\ published'[q] = published[q]
  <2>1. CASE p = "upstream"
    BY <1>1, <1>2, <2>1, CountKeeps
  <2>2. CASE p # "upstream"
    BY <1>1, <2>2 DEF TunnelTypes, Out!CountsSettled
  <2> QED BY <2>1, <2>2
<1>5. TunnelTypes'
  BY <1>0, <1>3, <1>4 DEF TunnelTypes
<1>6. CopyOK'
  <2>1. pos'[p] <= cap'[p] /\ dir'[p] # "done"
    BY <1>0, <1>2, <1>3
  <2> QED BY <1>0, <1>3, <2>1 DEF CopyOK
<1>7. WatchOK'
  BY <1>0 DEF WatchOK
<1>8. Out!CountsSettled'
  <2>0. "client" \in Out!Peers /\ "upstream" \in Out!Peers /\ p \in {"client", "upstream"}
    BY DEF Out!Peers
  <2>1. Out!Wrote(p)' = Out!Wrote(p) + n
    BY <1>0, <1>2, <1>3 DEF Out!Wrote
  <2>2. \A q \in Out!Peers \ {p} : Out!Wrote(q)' = Out!Wrote(q)
    BY <1>0, <1>3 DEF Out!Wrote
  <2>3. published'["client"] + pending'["client"] = read'["client"]
    BY <1>0, <1>4, <2>0 DEF Out!CountsSettled
  <2>4. published'["upstream"] + pending'["upstream"] = Out!Wrote("upstream")'
    BY <1>4, <2>0, <2>1, <2>2 DEF Out!CountsSettled
  <2>5. gauge' = (IF Out!Live' /\ armed' THEN 1 ELSE 0) /\ Out!Live'
    BY <1>0 DEF Out!CountsSettled, Out!Live
  <2> QED BY <1>4, <2>3, <2>4, <2>5 DEF Out!CountsSettled
<1>9. Out!ReapedAfterQuiet'
  BY <1>0 DEF Out!ReapedAfterQuiet
<1> QED BY <1>5, <1>6, <1>7, <1>8, <1>9

\* One direction of a rewriting copy fails: the other goes on.
LEMMA PumpFailsStep ==
  ASSUME TunnelInv, NEW p \in Out!Peers, NEW how \in {"stream", "peerTimeout"}, Out!Live,
         dir[p] \in {"copy", "drain"}, Out!PumpFails(p, how)
  PROVE  TunnelInv'
<1> USE DEF TunnelInv
<1>1. /\ err' = [err EXCEPT ![p] = how]
      /\ dir' = [dir EXCEPT ![p] = "drain"]
      /\ UNCHANGED <<limit, phase, peer, sent, read, cap, pos, life, calm>>
      /\ UNCHANGED <<armed, permit, watch, quiet, wake, gauge, pending, published>>
  BY DEF Out!PumpFails, Out!given, Out!peerVars, Out!watchVars, Out!countVars
<1>2. /\ dir'[p] = "drain" /\ err'[p] # "none"
      /\ \A r \in Out!Peers \ {p} : dir'[r] = dir[r] /\ err'[r] = err[r]
  BY <1>1 DEF TunnelTypes
<1>3. TunnelTypes'
  BY <1>1 DEF TunnelTypes
<1>4. CopyOK'
  BY <1>1, <1>2 DEF CopyOK
<1>5. WatchOK'
  <2>1. armed => dir["upstream"] = "done" /\ p # "upstream"
    BY DEF WatchOK
  <2>2. armed => dir'["upstream"] = "done"
    BY <1>2, <2>1 DEF Out!Peers
  <2> QED BY <1>1, <2>2 DEF WatchOK
<1>6. Out!CountsSettled'
  BY <1>1 DEF Out!CountsSettled, Out!Live, Out!Wrote
<1>7. Out!ReapedAfterQuiet'
  BY <1>1 DEF Out!ReapedAfterQuiet, Out!Live
<1> QED BY <1>3, <1>4, <1>5, <1>6, <1>7

LEMMA CopyFailsStep ==
  ASSUME TunnelInv, NEW p \in Out!Peers, Out!CopyFails(p)
  PROVE  TunnelInv'
<1>0. Out!Live /\ dir[p] \in {"copy", "drain"}
  BY DEF Out!CopyFails, Out!Live
<1>1. PICK q \in Out!Peers :
        IF Out!Rewriting THEN Out!PumpFails(p, Out!Classify(q)) ELSE Out!Ends(Out!Classify(q))
  BY DEF Out!CopyFails
<1>2. Out!Classify(q) \in {"stream", "peerTimeout"}
  BY ClassifyEnds
<1>3. CASE ~ Out!Rewriting
  BY <1>0, <1>1, <1>2, <1>3, CutShort
<1>4. CASE Out!Rewriting
  BY <1>0, <1>1, <1>2, <1>4, PumpFailsStep
<1> QED BY <1>3, <1>4

\* What a rewriting copy cannot frame ends its direction.
LEMMA UnframedStep ==
  ASSUME TunnelInv, NEW p \in Out!Peers, Out!Unframed(p)
  PROVE  TunnelInv'
BY PumpFailsStep DEF Out!Unframed, Out!Live

\* The end of the response arms the watch, once: until then nothing was armed.
LEMMA ShutdownStep ==
  ASSUME TunnelInv, NEW p \in Out!Peers, Out!Shutdown(p)
  PROVE  TunnelInv'
<1> USE DEF TunnelInv
<1>0. /\ phase = "copy" /\ dir[p] = "drain" /\ (cap[p] = 0 \/ err[p] # "none")
      /\ dir' = [dir EXCEPT ![p] = "done"]
      /\ UNCHANGED <<limit, phase, peer, sent, read, cap, pos, err, life, pending, published>>
  BY DEF Out!Shutdown, Out!given, Out!peerVars
<1>1. /\ dir'[p] = "done" /\ \A q \in Out!Peers \ {p} : dir'[q] = dir[q]
      /\ dir' \in [Out!Peers -> {"copy", "drain", "done"}]
  BY <1>0 DEF TunnelTypes
<1>2. CopyOK'
  BY <1>0, <1>1 DEF CopyOK
<1>3. Out!ReapedAfterQuiet'
  BY <1>0 DEF Out!ReapedAfterQuiet
<1>4. CASE p = "upstream"
  <2>1. ~ armed
    BY <1>0, <1>4 DEF WatchOK
  <2>2. /\ quiet' = 0 /\ calm' = 0 /\ armed' = TRUE /\ permit' = TRUE /\ gauge' = gauge + 1
        /\ UNCHANGED <<watch, wake>>
    BY <1>4, <2>1 DEF Out!Shutdown, Out!Arm, Out!Notified
  <2>3. gauge' = 1
    BY <2>1, <2>2 DEF Out!CountsSettled
  <2>4. TunnelTypes'
    BY <1>0, <1>1, <2>2, <2>3 DEF TunnelTypes
  <2>5. WatchOK'
    BY <1>1, <1>4, <2>2 DEF WatchOK
  <2>6. Out!CountsSettled'
    BY <1>0, <2>2, <2>3 DEF Out!CountsSettled, Out!Live, Out!Wrote
  <2> QED BY <1>2, <1>3, <2>4, <2>5, <2>6
<1>5. CASE p # "upstream"
  <2>1. UNCHANGED <<armed, permit, watch, quiet, wake, gauge, calm>>
    BY <1>5 DEF Out!Shutdown, Out!watchVars
  <2>2. TunnelTypes'
    BY <1>0, <1>1, <2>1 DEF TunnelTypes
  <2>3. dir'["upstream"] = dir["upstream"]
    BY <1>1, <1>5 DEF Out!Peers
  <2>4. WatchOK'
    BY <2>1, <2>3 DEF WatchOK
  <2>5. Out!CountsSettled'
    BY <1>0, <2>1 DEF Out!CountsSettled, Out!Live, Out!Wrote
  <2> QED BY <1>2, <1>3, <2>2, <2>4, <2>5
<1> QED BY <1>4, <1>5

LEMMA ShutdownFailsStep ==
  ASSUME TunnelInv, NEW p \in Out!Peers, Out!ShutdownFails(p)
  PROVE  TunnelInv'
<1> USE DEF TunnelInv
<1>0. /\ phase = "copy" /\ Out!Live /\ dir[p] = "drain" /\ (cap[p] = 0 \/ err[p] # "none")
  BY DEF Out!ShutdownFails, Out!Live
<1>1. CASE ~ Out!Rewriting
  BY <1>0, <1>1, CutShort, ClassifyEnds DEF Out!ShutdownFails
<1>2. CASE Out!Rewriting
  <2>1. /\ dir' = [dir EXCEPT ![p] = "done"]
        /\ UNCHANGED <<limit, phase, peer, sent, read, cap, pos, err, life, calm>>
        /\ UNCHANGED <<armed, permit, watch, quiet, wake, gauge, pending, published>>
    BY <1>2 DEF Out!ShutdownFails, Out!given, Out!peerVars, Out!watchVars, Out!countVars
  <2>2. /\ dir'[p] = "done" /\ \A q \in Out!Peers \ {p} : dir'[q] = dir[q]
    BY <2>1 DEF TunnelTypes
  <2>3. TunnelTypes'
    BY <2>1 DEF TunnelTypes
  <2>4. CopyOK'
    BY <1>0, <2>1, <2>2 DEF CopyOK
  <2>5. WatchOK'
    <3>1. armed => dir'["upstream"] = "done"
      BY <2>2 DEF WatchOK, Out!Peers
    <3> QED BY <2>1, <3>1 DEF WatchOK
  <2>6. Out!CountsSettled' /\ Out!ReapedAfterQuiet'
    BY <1>0, <2>1 DEF Out!CountsSettled, Out!Live, Out!Wrote, Out!ReapedAfterQuiet
  <2> QED BY <2>3, <2>4, <2>5, <2>6
<1> QED BY <1>1, <1>2

----------------------------------------------------------------------------
(* The whole connection                                                    *)

LEMMA TunnelStep ==
  ASSUME TunnelInv, Out!Next
  PROVE  TunnelInv'
<1>1. CASE Out!WritePrefix \/ Out!PrefixFails
  BY <1>1, WritePrefixStep, PrefixFailsStep
<1>2. ASSUME NEW p \in Out!Peers, Out!Copy(p)
      PROVE  TunnelInv'
  BY <1>2, ReadStep, ReadEofStep, WriteStep, CopyFailsStep, UnframedStep,
     ShutdownStep, ShutdownFailsStep DEF Out!Copy
<1>3. CASE Out!CopyEnds
  BY <1>3, CopyEndsStep
<1>4. CASE Out!Watchdog \/ Out!IdleTimeout \/ Out!Abort \/ Out!Tick
  BY <1>4, WatchdogStep, IdleTimeoutStep, TickStep
<1>5. ASSUME NEW p \in Out!Peers, Out!Sends(p) \/ Out!StartOver(p) \/ Out!PeerChanges(p)
      PROVE  TunnelInv'
  BY <1>5, SendsStep, StartOverStep, PeerChangesStep
<1> QED BY <1>1, <1>2, <1>3, <1>4, <1>5 DEF Out!Next

\* A session that has not begun: nothing read, nothing counted.
LEMMA FreshIsSound ==
  ASSUME Out!Fresh, limit \in [half : Nat, idle : Nat, bytes : Nat]
  PROVE  TunnelInv
<1> USE SessionAssumption DEF Out!Fresh, Out!Zero
<1>1. TunnelTypes
  <2>1. read \in [Out!Peers -> Nat] /\ cap \in [Out!Peers -> Nat] /\ pos \in [Out!Peers -> Nat]
    OBVIOUS
  <2>2. pending \in [Out!Peers -> Nat] /\ published \in [Out!Peers -> Nat]
    OBVIOUS
  <2>3. /\ dir \in [Out!Peers -> {"copy", "drain", "done"}]
        /\ err \in [Out!Peers -> {"none", "stream", "peerTimeout"}]
    OBVIOUS
  <2>4. armed \in BOOLEAN /\ permit \in BOOLEAN
    OBVIOUS
  <2>5. quiet \in Nat /\ wake \in Nat /\ life \in Nat /\ calm \in Nat /\ gauge \in Int
    OBVIOUS
  <2>6. phase \in {"prefix", "copy"} \cup Out!Ended /\ watch \in {"parked", "asleep"}
    OBVIOUS
  <2>7. peer \in [Out!Peers -> {"open", "eof", "reset", "gone"}] /\ sent \in [Out!Peers -> Nat]
    OBVIOUS
  <2> HIDE DEF Out!Fresh
  <2> QED BY <2>1, <2>2, <2>3, <2>4, <2>5, <2>6, <2>7 DEF TunnelTypes
<1>2. CopyOK /\ WatchOK
  BY DEF CopyOK, WatchOK
<1>3. Out!CountsSettled /\ Out!ReapedAfterQuiet
  BY DEF Out!CountsSettled, Out!Live, Out!Wrote, Out!ReapedAfterQuiet, Out!Peers
<1> QED BY <1>1, <1>2, <1>3 DEF TunnelInv

LEMMA InitIInv == Init => IInv
BY FreshIsSound DEF Init, IInv, NotBegun, NoSession

\* The route is connected: the client may have sent its hello, or closed.
LEMMA StartStep ==
  ASSUME IInv, StartSession
  PROVE  IInv'
<1>0. Out!Fresh /\ proxied' = TRUE
  BY DEF IInv, NotBegun, StartSession
<1>1. UNCHANGED <<phase, prefix, read, cap, pos, dir, err, armed, permit, watch, quiet, wake,
                  life, gauge, pending, published, calm>>
  BY DEF StartSession
<1>2. PICK s \in Sessions :
        /\ limit' = s[2]
        /\ sent' = [sent EXCEPT !["client"] =
                      IF arrived > consumed /\ ~ s[1].terminated /\ s[2].bytes > 0 THEN 1 ELSE 0]
  BY DEF StartSession
<1>3. limit' \in [half : Nat, idle : Nat, bytes : Nat]
  BY <1>2, SessionAssumption
<1>4. peer' \in [Out!Peers -> {"open", "eof", "reset", "gone"}] /\ sent' \in [Out!Peers -> Nat]
  BY <1>0, <1>2 DEF StartSession, Out!Fresh, Out!Zero
<1> USE DEF Out!Fresh, Out!Zero
<1>5. TunnelTypes'
  <2>1. read' \in [Out!Peers -> Nat] /\ cap' \in [Out!Peers -> Nat] /\ pos' \in [Out!Peers -> Nat]
    BY <1>0, <1>1
  <2>2. pending' \in [Out!Peers -> Nat] /\ published' \in [Out!Peers -> Nat]
    BY <1>0, <1>1
  <2>3. /\ dir' \in [Out!Peers -> {"copy", "drain", "done"}]
        /\ err' \in [Out!Peers -> {"none", "stream", "peerTimeout"}]
    BY <1>0, <1>1
  <2>4. armed' \in BOOLEAN /\ permit' \in BOOLEAN
    BY <1>0, <1>1
  <2>5. quiet' \in Nat /\ wake' \in Nat /\ life' \in Nat /\ calm' \in Nat /\ gauge' \in Int
    BY <1>0, <1>1
  <2>6. phase' \in {"prefix", "copy"} \cup Out!Ended /\ watch' \in {"parked", "asleep"}
    BY <1>0, <1>1
  <2> HIDE DEF Out!Fresh
  <2> QED BY <1>3, <1>4, <2>1, <2>2, <2>3, <2>4, <2>5, <2>6 DEF TunnelTypes
<1>6. CopyOK' /\ WatchOK'
  BY <1>0, <1>1, <1>4 DEF CopyOK, WatchOK
<1>7. Out!CountsSettled' /\ Out!ReapedAfterQuiet'
  BY <1>0, <1>1, SessionAssumption
     DEF Out!CountsSettled, Out!Live, Out!Wrote, Out!ReapedAfterQuiet, Out!Peers
<1> QED BY <1>0, <1>5, <1>6, <1>7 DEF IInv, TunnelInv, NotBegun

\* What a step that leaves the session alone leaves true.
LEMMA OutUnchanged ==
  ASSUME IInv, UNCHANGED <<outVars, proxied>>
  PROVE  IInv'
BY DEF IInv, TunnelInv, NotBegun, outVars, TunnelTypes, CopyOK, WatchOK, Out!CountsSettled, Out!Live,
   Out!Wrote, Out!ReapedAfterQuiet, Out!Fresh

LEMMA StepIInv == IInv /\ [Next]_vars => IInv'
<1> SUFFICES ASSUME IInv, [Next]_vars PROVE IInv'
  OBVIOUS
<1>1. CASE TakeIn
  BY <1>1, OutUnchanged DEF TakeIn
<1>2. CASE StartSession
  BY <1>2, StartStep
<1>3. CASE Proxy(Out!Next)
  BY <1>3, TunnelStep DEF Proxy, IInv, NotBegun
<1>4. CASE UNCHANGED vars
  BY <1>4, OutUnchanged DEF vars
<1> QED BY <1>1, <1>2, <1>3, <1>4 DEF Next

LEMMA InvariantHolds == Spec => []IInv
BY InitIInv, StepIInv, PTL DEF Spec

\* For any buffers, limits and bytes, however a session ends: what was read of the client and
\* written to it is counted exactly, nothing is left in the connection's own counters
\* (Drop of CountingStream), and half_closed_connections is back where it was (Drop of
\* HalfCloseWatch).
THEOREM CountsSettledAlways == Spec => []CountsSettled
<1>1. IInv => CountsSettled
  BY DEF IInv, TunnelInv
<1> QED BY <1>1, InvariantHolds, PTL

\* For any window: a session is reaped as half-closed only when the client has been told of
\* the end of a response that has reached it whole, and nothing was read from either side
\* for the window since (HalfCloseWatch::expired); one that ends well has carried every byte.
THEOREM ReapedAfterQuietAlways == Spec => []ReapedAfterQuiet
<1>1. IInv => ReapedAfterQuiet
  BY DEF IInv, TunnelInv
<1> QED BY <1>1, InvariantHolds, PTL

============================================================================
