------------------------------- MODULE Http1 -------------------------------
(***************************************************************************)
(* Header rewriting on a terminated HTTP/1.1 connection (http_proxy.rs:    *)
(* proxy_http1_rewriting).  Two pumps run in one task: "req" frames what   *)
(* the client sends, so as to rewrite the head of every request, and "rsp" *)
(* frames what the upstream answers, so as to know whether it accepted a   *)
(* tunnel.  They share a queue of what was asked and one verdict.          *)
(*                                                                         *)
(* A stream is a sequence of items: the lines of a head, the end of a head *)
(* with what it declares, chunk-size lines, blank lines and units of data, *)
(* which end no line.  How a read cuts the stream is a choice.             *)
(***************************************************************************)
EXTENDS Integers, Sequences

CONSTANTS
  Scripts,    \* what a client may send
  MaxHeader,  \* MAX_HEADER_SIZE, in items
  MaxData     \* bound on what an upstream says beyond its final answers

Pumps == {"req", "rsp"}

Line == [is |-> "line"]
Data == [is |-> "data"]
Blank == [is |-> "blank"]
Size(n) == [is |-> "size", n |-> n]

\* A request head: its Content-Length values, what its last Transfer-Encoding
\* field ends in, and whether its lines are well formed.
HeadItem(h) == [is |-> "head", head |-> h, own |-> FALSE]
Answer(status, length, chunked, to) ==
  [is |-> "answer", status |-> status, length |-> length, chunked |-> chunked, to |-> to]

\* A client sends items of its own: none answers it, and no head was rewritten yet.
ASSUME ScriptsAssumption ==
  \A s \in Scripts :
    /\ s \in Seq({s[i] : i \in DOMAIN s})
    /\ \A i \in 1 .. Len(s) :
         /\ s[i].is # "answer"
         /\ s[i].is = "head" => s[i] = HeadItem(s[i].head)
         /\ s[i].is = "size" => s[i].n \in Nat

VARIABLES
  made,     \* per pump: all that its source has produced
  closed,   \* per pump: its source sends nothing more
  took,     \* how many items it has read
  carry,    \* what it has read and not yet used
  sent,     \* what it has written
  pc, left, \* where it is, and the units of a body still to copy
  failed,   \* it ended with an error
  metas,    \* the queue of RequestMeta
  asked,    \* requests forwarded
  verdict,  \* of the tunnel candidate: "none", "pending", "yes", "no"
  matched,  \* history: the last answer matched with a request, and that request
  server,   \* upstream: where it is in what it receives, and whom it owes an answer
  said      \* upstream: what it said beyond its final answers

pumpVars == <<took, carry, sent, pc, left, failed>>
vars == <<made, closed, pumpVars, metas, asked, verdict, matched, server, said>>

Least(a, b) == IF a < b THEN a ELSE b
Avail(p) == Len(made[p]) - took[p]
Unread(p) == SubSeq(made[p], took[p] + 1, Len(made[p]))
Drop(s, n) == SubSeq(s, n + 1, Len(s))

Nobody == [at |-> 0, mode |-> "head", left |-> 0, seen |-> 0, owes |-> FALSE, head |-> Blank, strange |-> FALSE]

Init ==
  /\ \E s \in Scripts : made = [req |-> s, rsp |-> <<>>]
  /\ closed = [p \in Pumps |-> FALSE]
  /\ took = [p \in Pumps |-> 0]
  /\ carry = [p \in Pumps |-> <<>>]
  /\ sent = [p \in Pumps |-> <<>>]
  /\ pc = [p \in Pumps |-> "head"]
  /\ left = [p \in Pumps |-> 0]
  /\ failed = [p \in Pumps |-> FALSE]
  /\ metas = <<>> /\ asked = 0 /\ verdict = "none"
  /\ matched = [to |-> 0, id |-> 0]
  /\ server = Nobody
  /\ said = 0

----------------------------------------------------------------------------
(* Reading and copying, the same for both pumps                            *)

Ends(s) == {i \in 1 .. Len(s) : s[i].is \in {"head", "answer"}}

\* Where the first complete header block of s ends; 0 if there is none.
BlockEnd(s) == IF Ends(s) = {} THEN 0 ELSE CHOOSE i \in Ends(s) : \A j \in Ends(s) : i <= j

Lines == {"size", "crlf", "trailer"}

\* The pump needs more than it has buffered.
Starved(p) ==
  \/ pc[p] = "head" /\ BlockEnd(carry[p]) = 0
  \/ pc[p] \in Lines \cup {"body", "chunk", "raw"} /\ carry[p] = <<>>

End(p, err) ==
  /\ pc' = [pc EXCEPT ![p] = "done"]
  /\ failed' = [failed EXCEPT ![p] = err]
  /\ UNCHANGED <<made, closed, took, carry, sent, left, metas, asked, verdict, matched,
                 server, said>>

\* read_header_block and read_control_line buffer whatever a read returns.
Buffer(p) ==
  /\ Starved(p)
  /\ pc[p] \in Lines \cup {"head"}
  /\ pc[p] = "head" => Len(carry[p]) <= MaxHeader
  /\ \E k \in 1 .. Avail(p) :
       /\ took' = [took EXCEPT ![p] = @ + k]
       /\ carry' = [carry EXCEPT ![p] = @ \o SubSeq(Unread(p), 1, k)]
  /\ UNCHANGED <<made, closed, sent, pc, left, failed, metas, asked, verdict, matched,
                 server, said>>

\* A header block that does not end within its limit.
TooLong(p) ==
  /\ pc[p] = "head"
  /\ BlockEnd(carry[p]) = 0
  /\ Len(carry[p]) > MaxHeader
  /\ End(p, TRUE)

\* Nor does a control line, within MAX_CHUNK_LINE.
LongLine(p) ==
  /\ pc[p] \in Lines
  /\ carry[p] # <<>> /\ Head(carry[p]) = Data
  /\ End(p, TRUE)

\* A source that has closed: clean between two messages and in a raw copy.
Eof(p) ==
  /\ Starved(p)
  /\ closed[p] /\ Avail(p) = 0
  /\ pc[p] = "head" => Len(carry[p]) <= MaxHeader
  /\ End(p, pc[p] # "raw" /\ (pc[p] # "head" \/ carry[p] # <<>>))

\* A source that has closed with a reset: the read fails, whatever was still to come.
ReadFails(p) ==
  /\ Starved(p)
  /\ closed[p]
  /\ pc[p] = "head" => Len(carry[p]) <= MaxHeader
  /\ End(p, TRUE)

\* Where a pump goes after a body.
AfterBody(p) == IF p = "req" /\ verdict # "none" THEN "verdict" ELSE "head"

Copied(p, n) ==
  /\ left' = [left EXCEPT ![p] = @ - n]
  /\ pc' = [pc EXCEPT ![p] = IF n < left[p] THEN @
                             ELSE IF @ = "chunk" THEN "crlf" ELSE AfterBody(p)]

\* copy_body: first what is buffered, ...
CopyBuffered(p) ==
  /\ pc[p] \in {"body", "chunk"}
  /\ carry[p] # <<>>
  /\ LET n == Least(left[p], Len(carry[p])) IN
       /\ sent' = [sent EXCEPT ![p] = @ \o SubSeq(carry[p], 1, n)]
       /\ carry' = [carry EXCEPT ![p] = Drop(@, n)]
       /\ Copied(p, n)
  /\ UNCHANGED <<made, closed, took, failed, metas, asked, verdict, matched, server, said>>

\* ... then copy_exact, which never reads past the body.
ReadLimit(p) == Least(left[p], Avail(p))

CopyExact(p) ==
  /\ pc[p] \in {"body", "chunk"}
  /\ carry[p] = <<>>
  /\ \E k \in 1 .. ReadLimit(p) :
       /\ took' = [took EXCEPT ![p] = @ + k]
       /\ sent' = [sent EXCEPT ![p] = @ \o SubSeq(Unread(p), 1, k)]
       /\ Copied(p, k)
  /\ UNCHANGED <<made, closed, carry, failed, metas, asked, verdict, matched, server, said>>

\* copy_chunked_body: a size line, the CRLF after a chunk, a trailer line.
ChunkLine(p) ==
  LET line == Head(carry[p]) IN
  /\ pc[p] \in Lines
  /\ carry[p] # <<>>
  /\ \/ pc[p] = "size" /\ line.is = "size"
     \/ pc[p] = "crlf" /\ line = Blank
     \/ pc[p] = "trailer"
  /\ sent' = [sent EXCEPT ![p] = Append(@, line)]
  /\ carry' = [carry EXCEPT ![p] = Tail(@)]
  /\ left' = [left EXCEPT ![p] = IF pc[p] = "size" THEN line.n ELSE 0]
  /\ pc' = [pc EXCEPT ![p] =
              CASE pc[p] = "size" -> IF line.n = 0 THEN "trailer" ELSE "chunk"
                [] pc[p] = "crlf" -> "size"
                [] pc[p] = "trailer" -> IF line = Blank THEN AfterBody(p) ELSE "trailer"]
  /\ UNCHANGED <<made, closed, took, failed, metas, asked, verdict, matched, server, said>>

BadChunkLine(p) ==
  /\ carry[p] # <<>>
  /\ \/ pc[p] = "size" /\ Head(carry[p]).is # "size"
     \/ pc[p] = "crlf" /\ Head(carry[p]) # Blank
  /\ End(p, TRUE)

\* tokio::io::copy of a tunnel, or of a body that runs to the end.
RawCopy(p) ==
  /\ pc[p] = "raw"
  /\ \E k \in 1 .. Avail(p) :
       /\ took' = [took EXCEPT ![p] = @ + k]
       /\ sent' = [sent EXCEPT ![p] = @ \o SubSeq(Unread(p), 1, k)]
  /\ UNCHANGED <<made, closed, carry, pc, left, failed, metas, asked, verdict, matched,
                 server, said>>

----------------------------------------------------------------------------
(* The request pump                                                        *)

\* rewrite_request_head refuses what it cannot parse exactly.
Formed(block) ==
  /\ \A i \in 1 .. Len(block) - 1 : block[i] = Line
  /\ block[Len(block)].head.formed

RewriteHead(block) == [block EXCEPT ![Len(block)].own = TRUE]

\* Mutant of request_body: a Content-Length beside Transfer-Encoding is ignored.
RequestBodyLenient(h) ==
  CASE h.method = "CONNECT" -> [kind |-> "none", n |-> 0]
    [] h.method # "CONNECT" /\ h.te = "chunked" -> [kind |-> "chunked", n |-> 0]
    [] h.method # "CONNECT" /\ h.te = "none" /\ h.length \subseteq {0} ->
         [kind |-> "none", n |-> 0]
    [] OTHER -> [kind |-> "length", n |-> CHOOSE n \in h.length : TRUE]

\* How the body is framed; more than one reading is refused.
RequestBody(h) ==
  CASE h.method = "CONNECT" -> [kind |-> "none", n |-> 0]
    [] h.method # "CONNECT" /\ h.te = "chunked" /\ h.length = {} -> [kind |-> "chunked", n |-> 0]
    [] h.method # "CONNECT" /\ h.te = "none" /\ h.length \subseteq {0} ->
         [kind |-> "none", n |-> 0]
    [] h.method # "CONNECT" /\ h.te = "none" /\ h.length \in {{n} : n \in 1 .. 9} ->
         [kind |-> "length", n |-> CHOOSE n \in h.length : TRUE]
    [] OTHER -> [kind |-> "bad", n |-> 0]

Candidate(h) == h.method = "CONNECT" \/ h.upgrade

\* The state after a head whose body is framed as f.
BodyPc(h) ==
  CASE RequestBody(h).kind = "length" -> "body"
    [] RequestBody(h).kind = "chunked" -> "size"
    [] RequestBody(h).kind = "none" -> IF Candidate(h) THEN "verdict" ELSE "head"

Meta(h) ==
  [id |-> asked + 1, headOnly |-> h.method = "HEAD", connect |-> h.method = "CONNECT",
   upgrade |-> h.upgrade /\ h.method # "CONNECT"]

Block(p) == SubSeq(carry[p], 1, BlockEnd(carry[p]))
BlockHead == Block("req")[BlockEnd(carry["req"])].head

HasRequest == pc["req"] = "head" /\ BlockEnd(carry["req"]) > 0
Refused == ~ Formed(Block("req")) \/ RequestBody(BlockHead).kind = "bad"

RefuseRequest ==
  /\ HasRequest /\ Refused
  /\ End("req", TRUE)

\* The meta is queued before the head is written.
ForwardRequest ==
  /\ HasRequest /\ ~ Refused
  /\ metas' = Append(metas, Meta(BlockHead))
  /\ asked' = asked + 1
  /\ verdict' = IF Candidate(BlockHead) THEN "pending" ELSE "none"
  /\ sent' = [sent EXCEPT !["req"] = @ \o RewriteHead(Block("req"))]
  /\ carry' = [carry EXCEPT !["req"] = Drop(@, BlockEnd(@))]
  /\ left' = [left EXCEPT !["req"] = RequestBody(BlockHead).n]
  /\ pc' = [pc EXCEPT !["req"] = BodyPc(BlockHead)]
  /\ UNCHANGED <<made, closed, took, failed, matched, server, said>>

\* Mutant of Flushed: what was read ahead is forgotten.
FlushedNothing(p) == sent[p]

Flushed(p) == sent[p] \o carry[p]

\* The upstream has accepted: what is buffered and all that follows is opaque; or
\* declined, and what the client pipelined is HTTP.  The sender of a verdict lives in
\* the queue, and the queue outlives the response pump: no end of that pump ends this
\* wait.
Verdict ==
  /\ pc["req"] = "verdict"
  /\ verdict \in {"yes", "no"}
  /\ IF verdict = "yes"
     THEN /\ sent' = [sent EXCEPT !["req"] = Flushed("req")]
          /\ carry' = [carry EXCEPT !["req"] = <<>>]
          /\ pc' = [pc EXCEPT !["req"] = "raw"]
     ELSE /\ pc' = [pc EXCEPT !["req"] = "head"]
          /\ UNCHANGED <<sent, carry>>
  /\ verdict' = "none"
  /\ UNCHANGED <<made, closed, took, left, failed, metas, asked, matched, server, said>>

HasAnswer == pc["rsp"] = "head" /\ BlockEnd(carry["rsp"]) > 0
TheAnswer == carry["rsp"][BlockEnd(carry["rsp"])]

\* 100 Continue and the like; 101 is final.
Interim(a) == a.status = 100

\* There is something to write: a part of a body or tunnel, a request, what was read ahead
\* of a tunnel, an interim answer.
Writing(p) ==
  \/ pc[p] \in Lines \cup {"body", "chunk", "raw"} /\ (carry[p] # <<>> \/ Avail(p) > 0)
  \/ p = "req" /\ HasRequest /\ ~ Refused
  \/ p = "req" /\ pc[p] = "verdict" /\ verdict = "yes"
  \/ p = "rsp" /\ HasAnswer /\ Interim(TheAnswer)

\* A write to a peer that has closed fails; a request's meta is queued by then.
WriteFails(p) ==
  /\ closed[IF p = "req" THEN "rsp" ELSE "req"]
  /\ Writing(p)
  /\ metas' = IF p = "req" /\ HasRequest THEN Append(metas, Meta(BlockHead)) ELSE metas
  /\ pc' = [pc EXCEPT ![p] = "done"]
  /\ failed' = [failed EXCEPT ![p] = TRUE]
  /\ UNCHANGED <<made, closed, took, carry, sent, left, asked, verdict, matched, server, said>>

----------------------------------------------------------------------------
(* The response pump                                                       *)

ForwardInterim ==
  /\ HasAnswer /\ Interim(TheAnswer)
  /\ sent' = [sent EXCEPT !["rsp"] = @ \o Block("rsp")]
  /\ carry' = [carry EXCEPT !["rsp"] = Drop(@, BlockEnd(@))]
  /\ UNCHANGED <<made, closed, took, pc, left, failed, metas, asked, verdict, matched,
                 server, said>>

\* The status line does not parse.
Unparsable ==
  /\ HasAnswer /\ TheAnswer.status = 0
  /\ End("rsp", TRUE)

\* response_has_body, for any method but HEAD.
HasBody(a) == a.status >= 200 /\ a.status \notin {204, 304}

\* Mutant of ResponseBody: the answer to HEAD is framed as any other.
ResponseBodyByHead(a, headOnly) ==
  CASE ~ HasBody(a) -> [kind |-> "head", n |-> 0]
    [] HasBody(a) /\ a.chunked -> [kind |-> "size", n |-> 0]
    [] HasBody(a) /\ ~ a.chunked /\ a.length = {0} -> [kind |-> "head", n |-> 0]
    [] HasBody(a) /\ ~ a.chunked /\ a.length = {} -> [kind |-> "raw", n |-> 0]
    [] OTHER -> [kind |-> "body", n |-> CHOOSE n \in a.length : TRUE]

ResponseBody(a, headOnly) ==
  CASE headOnly \/ ~ HasBody(a) -> [kind |-> "head", n |-> 0]
    [] ~ headOnly /\ HasBody(a) ->
         CASE a.chunked -> [kind |-> "size", n |-> 0]
           [] ~ a.chunked /\ a.length = {} -> [kind |-> "raw", n |-> 0]
           [] ~ a.chunked /\ a.length = {0} -> [kind |-> "head", n |-> 0]
           [] ~ a.chunked /\ a.length \notin {{}, {0}} ->
                [kind |-> "body", n |-> CHOOSE n \in a.length : TRUE]

Established(m, a) ==
  \/ m.upgrade /\ a.status = 101
  \/ m.connect /\ a.status \in 200 .. 299

\* The verdict goes to the request pump before the answer goes to the client.
Report(m, a) ==
  CASE ~ (m.connect \/ m.upgrade) -> verdict
    [] (m.connect \/ m.upgrade) /\ Established(m, a) -> "yes"
    [] (m.connect \/ m.upgrade) /\ ~ Established(m, a) -> "no"

\* A final answer takes the next meta, waiting for it if need be.  An unsolicited 101
\* ends the pump, and so may a write to a client that has closed.
MatchAnswer ==
  LET a == TheAnswer
      m == Head(metas)
      through == Established(m, a)
      frame == ResponseBody(a, m.headOnly)
      rest == Drop(carry["rsp"], BlockEnd(carry["rsp"]))
      unsolicited == a.status = 101 /\ ~ (m.connect \/ m.upgrade)
      raw == through \/ frame.kind = "raw"
  IN
  /\ HasAnswer /\ ~ Interim(a) /\ a.status # 0
  /\ metas # <<>>
  /\ metas' = Tail(metas)
  /\ matched' = [to |-> a.to, id |-> m.id]
  /\ verdict' = Report(m, a)
  /\ \/ /\ unsolicited \/ closed["req"]
        /\ pc' = [pc EXCEPT !["rsp"] = "done"]
        /\ failed' = [failed EXCEPT !["rsp"] = TRUE]
        /\ UNCHANGED <<sent, carry, left>>
     \/ /\ ~ unsolicited
        /\ sent' = [sent EXCEPT !["rsp"] = @ \o Block("rsp") \o (IF raw THEN rest ELSE <<>>)]
        /\ carry' = [carry EXCEPT !["rsp"] = IF raw THEN <<>> ELSE rest]
        /\ left' = [left EXCEPT !["rsp"] = frame.n]
        /\ pc' = [pc EXCEPT !["rsp"] = IF raw THEN "raw" ELSE frame.kind]
        /\ UNCHANGED failed
  /\ UNCHANGED <<made, closed, took, asked, server, said>>

\* Mutant of NoMoreMetas: the sender is not dropped with the request pump.
NeverNoMoreMetas == FALSE

\* recv() returns None: the request pump has dropped its sender.
NoMoreMetas == metas = <<>> /\ pc["req"] = "done"

AnswerToNothing ==
  /\ HasAnswer /\ ~ Interim(TheAnswer) /\ TheAnswer.status # 0
  /\ NoMoreMetas
  /\ End("rsp", TRUE)

----------------------------------------------------------------------------
(* The upstream, an HTTP/1.1 server that answers in order, and the client  *)

\* The readings a receiver may give to a head.
Framings(h) ==
  IF h.method = "CONNECT" THEN {[kind |-> "head", n |-> 0]}
  ELSE {[kind |-> "size", n |-> 0] : x \in {h.te} \cap {"chunked"}}
       \cup {IF n = 0 THEN [kind |-> "head", n |-> 0] ELSE [kind |-> "body", n |-> n] :
               n \in IF h.te = "none" /\ h.length = {} THEN {0} ELSE h.length}

\* It reads one item; the end of a head where it expects one begins a request.
ServerReads ==
  LET item == sent["req"][server.at + 1]
      s == [server EXCEPT !.at = @ + 1]
  IN
  /\ ~ closed["rsp"]
  /\ server.at < Len(sent["req"])
  /\ server.mode = "head" => ~ server.owes
  /\ server' \in
       CASE server.mode = "head" /\ item.is = "head" ->
              {[s EXCEPT !.mode = f.kind, !.left = f.n, !.seen = @ + 1, !.owes = TRUE,
                         !.head = item.head, !.strange = @ \/ ~ item.own] : f \in Framings(item.head)}
         [] server.mode = "head" /\ item.is # "head" -> {s}
         [] server.mode \in {"body", "chunk"} ->
              {[s EXCEPT !.left = @ - 1,
                         !.mode = IF server.left > 1 THEN @
                                  ELSE IF @ = "chunk" THEN "crlf" ELSE "head"]}
         [] server.mode = "size" ->
              {IF item.is = "size" /\ item.n > 0
               THEN [s EXCEPT !.mode = "chunk", !.left = item.n] ELSE [s EXCEPT !.mode = "trailer"]}
         [] server.mode = "crlf" -> {[s EXCEPT !.mode = "size"]}
         [] server.mode = "trailer" -> {IF item = Blank THEN [s EXCEPT !.mode = "head"] ELSE s}
         [] server.mode = "raw" -> {s}
  /\ UNCHANGED <<made, closed, pumpVars, metas, asked, verdict, matched, said>>

\* Final answers: what may be said to a request, and what a decline looks like.
Answers(h, id) ==
  CASE h.method = "HEAD" -> {<<Answer(200, {1}, FALSE, id)>>}
    [] h.method # "HEAD" /\ Candidate(h) -> {<<Answer(400, {1}, FALSE, id), Data>>}
    [] OTHER -> {<<Answer(200, {1}, FALSE, id), Data>>, <<Line, Answer(204, {}, FALSE, id)>>,
                 <<Answer(304, {1}, FALSE, id)>>,
                 <<Answer(200, {}, TRUE, id), Size(1), Data, Blank, Size(0), Blank>>}

Says(items) == made' = [made EXCEPT !["rsp"] = @ \o items]

\* It answers the request it has read at least the head of.
ServerAnswers ==
  /\ ~ closed["rsp"]
  /\ server.owes
  /\ \/ /\ \E items \in Answers(server.head, server.seen) : Says(items)
        /\ server' = [server EXCEPT !.owes = FALSE]
     \/ /\ Candidate(server.head)
        /\ Says(<<Answer(IF server.head.method = "CONNECT" THEN 200 ELSE 101, {}, FALSE,
                         server.seen)>>)
        /\ server' = [server EXCEPT !.owes = FALSE, !.mode = "raw"]
  /\ UNCHANGED <<closed, pumpVars, metas, asked, verdict, matched, said>>

\* Besides: an interim answer, bytes of a tunnel, a status line that does not parse.
ServerSaysMore ==
  /\ ~ closed["rsp"]
  /\ said < MaxData
  /\ said' = said + 1
  /\ \/ server.owes /\ Says(<<Answer(100, {}, FALSE, 0)>>)
     \/ server.owes /\ Says(<<Answer(0, {}, FALSE, 0)>>)
     \/ server.mode = "raw" /\ ~ server.owes /\ Says(<<Data>>)
  /\ UNCHANGED <<closed, pumpVars, metas, asked, verdict, matched, server>>

\* It closes; first it may tell a client that is late (408), or end an answer whose body
\* runs to the end of the connection.
ServerCloses ==
  /\ ~ closed["rsp"]
  /\ closed' = [closed EXCEPT !["rsp"] = TRUE]
  /\ \/ UNCHANGED made
     \/ server.mode = "head" /\ ~ server.owes /\ Says(<<Answer(408, {0}, FALSE, 0)>>)
     \/ /\ server.owes /\ ~ Candidate(server.head) /\ server.head.method # "HEAD"
        /\ Says(<<Answer(200, {}, FALSE, server.seen), Data>>)
  /\ UNCHANGED <<pumpVars, metas, asked, verdict, matched, server, said>>

ClientCloses ==
  /\ ~ closed["req"]
  /\ closed' = [closed EXCEPT !["req"] = TRUE]
  /\ UNCHANGED <<made, pumpVars, metas, asked, verdict, matched, server, said>>

----------------------------------------------------------------------------

Pump(p) ==
  \/ Buffer(p) \/ TooLong(p) \/ LongLine(p) \/ Eof(p) \/ CopyBuffered(p) \/ CopyExact(p)
  \/ ChunkLine(p) \/ BadChunkLine(p) \/ RawCopy(p)

RequestPump == Pump("req") \/ RefuseRequest \/ ForwardRequest \/ Verdict
ResponsePump ==
  Pump("rsp") \/ ForwardInterim \/ Unparsable \/ MatchAnswer \/ AnswerToNothing

Next ==
  \/ RequestPump \/ ResponsePump
  \/ \E p \in Pumps : ReadFails(p) \/ WriteFails(p)
  \/ ServerReads \/ ServerAnswers \/ ServerSaysMore \/ ServerCloses \/ ClientCloses

Spec == Init /\ [][Next]_vars

\* The task runs whenever one of its pumps can go on; the peers owe nothing.
FairSpec == Spec /\ WF_vars(RequestPump) /\ WF_vars(ResponsePump)

----------------------------------------------------------------------------
(* Properties                                                              *)

\* An item as its source sent it.
Plain(s) == [i \in 1 .. Len(s) |-> IF s[i].is = "head" THEN [s[i] EXCEPT !.own = FALSE] ELSE s[i]]

\* Nothing is lost, repeated or reordered when a pump changes its mode: what it wrote,
\* what it holds and what it has not read are what its source sent.
StreamIntact ==
  \A p \in Pumps :
    /\ took[p] \in 0 .. Len(made[p])
    /\ pc[p] \in Lines \cup {"head", "body", "chunk", "verdict", "raw", "done"}
    /\ Plain(sent[p]) \o carry[p] \o Unread(p) = made[p]

\* Wherever the upstream expects a request it finds a head that was rewritten, in
\* whichever way it reads an ambiguous one and whether or not it accepts a tunnel.
EveryHeadRewritten == ~ server.strange

\* An answer is framed by the request it answers (408 answers none).
AnswersMatched == matched.to \in {0, matched.id}

\* When both peers have closed both pumps end, except that the request pump may
\* wait for a verdict.
PumpsEnd ==
  closed["req"] /\ closed["rsp"] ~>
    pc["rsp"] = "done" /\ pc["req"] \in {"done", "verdict"}

\* "response pump ended (upstream closed)" ends the wait for a verdict
\* (http_proxy.rs).  Violated: the receiver of the queue is not dropped with the pump,
\* nor is the sender of the verdict in it.
VerdictWaitEnds == pc["rsp"] = "done" ~> pc["req"] # "verdict"

============================================================================
