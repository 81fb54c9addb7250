------------------------------- MODULE Intake -------------------------------
(***************************************************************************)
(* The first bytes of a connection: the PROXY v2 header of a failover      *)
(* ingress (ingress.rs), which is read, the ClientHello (sni.rs), which is *)
(* only peeked at, so that TLS or a peer can still read it, and the        *)
(* request head of the plaintext listener (http_listener.rs).  All see a   *)
(* stream cut at arbitrary points, closed early or stalled.  A load query  *)
(* is a header too; its answer goes back the same way.                     *)
(***************************************************************************)
EXTENDS Wire

CONSTANTS
  Conns,         \* what may arrive, and what its sender meant
  InitialPeek,   \* INITIAL_PEEK
  MaxHello,      \* MAX_CLIENT_HELLO
  MaxPayload,    \* MAX_PAYLOAD of a PROXY command
  MaxLoad,       \* the permille cap of an answer
  Loads,         \* what this node answers for a name: a load or NoLoad
  MaxHead,       \* MAX_HEADER_SIZE
  HeadRead,      \* what one read of a request head may return
  Routes         \* of a Host: "noRoute", "notAllowed", "limited" or "open"

Nowhere == [family |-> "none", ip |-> None, port |-> 0]

VARIABLES
  conn,      \* a member of Conns: the whole stream and its meaning
  arrived,   \* cells that have arrived
  eof,       \* the sender has closed
  consumed,  \* cells read (peeking reads none)
  pc,        \* "fixed", "addresses", "local", "tlvs"; "peek"; "head", "serve", "acme";
             \* "answer", "done"
  todo,      \* cells of the header still to read, as its length field says
  source,    \* the address taken from the header
  verdict,   \* why the connection was refused or failed, or "none"
  buf,       \* size of the peek buffer
  info,      \* PeekInfo
  answer,    \* of a load query: what was written
  got,       \* how much of it the querying node has received
  http       \* of a plaintext connection: what it was told, and what its route was sent

vars == <<conn, arrived, eof, consumed, pc, todo, source, verdict, buf, info, answer, got, http>>

----------------------------------------------------------------------------
(* PROXY v2 headers: reading                                               *)

\* parse_fixed: the command and length, or why it is refused.
ParseFixed(fixed, len) ==
  CASE fixed.sig = "v1" -> "v1"
    [] fixed.sig \notin {"v1", "v2"} -> "invalid"
    [] fixed.sig = "v2" /\ fixed.command = "local" ->
         IF fixed.family \in {"unspec", "v4", "v6"}
            /\ len \in AddressLen(fixed.family) .. MaxNames * (2 + MaxNameLen)
         THEN "local" ELSE "invalid"
    [] fixed.sig = "v2" /\ fixed.command = "proxy" ->
         IF fixed.family \in {"v4", "v6"} /\ len \in AddressLen(fixed.family) .. MaxPayload
         THEN "proxy" ELSE "invalid"
    [] fixed.sig = "v2" /\ fixed.command \notin {"local", "proxy"} -> "invalid"

\* valid_name.
ValidName(value) == IF Len(value) \in 1 .. MaxNameLen THEN value[1].v ELSE None

\* parse_load_query: the names in order, None for one that names no route.  The walk keeps
\* where it is and where the values of the names found so far stand.
QueryNames(tlvs) ==
  LET value(at) == SubSeq(tlvs, at + 3, at + 2 + tlvs[at + 2].v)
      walk[at \in 0 .. Len(tlvs), found \in Seq(0 .. Len(tlvs))] ==
        IF at = Len(tlvs)
        THEN [bad |-> IF found = <<>> THEN "local" ELSE "none",
              names |-> [i \in 1 .. Len(found) |-> ValidName(value(found[i]))]]
        ELSE IF Len(tlvs) < at + 2 \/ tlvs[at + 2].v > Len(tlvs) - (at + 2)
             \/ (tlvs[at + 1].t = "query" /\ Len(found) = MaxNames)
        THEN [bad |-> "invalid", names |-> <<>>]
        ELSE walk[at + 2 + tlvs[at + 2].v,
                  IF tlvs[at + 1].t = "query" THEN Append(found, at) ELSE found]
  IN walk[0, <<>>]

\* parse_source: an IPv4-mapped address is taken for the IPv4 one (to_canonical).
Source(family, block) ==
  [family |-> IF family = "v6" /\ block[2].v = Mapped THEN "v4" ELSE family,
   ip |-> block[1].v, port |-> block[AddressLen(family)].v]

Here(n) == SubSeq(conn.wire, consumed + 1, consumed + n)
Avail == arrived - consumed

\* read_exact(n) has its cells.
Reads(n) == Avail >= n

Fixed == conn.wire[1].v

\* What of a PROXY payload follows its address block.
AfterFixed(len) == len - AddressLen(Fixed.family)

ReadFixed ==
  /\ pc = "fixed"
  /\ Reads(2)
  /\ consumed' = consumed + 2
  /\ LET len == conn.wire[2].v
         kind == ParseFixed(Fixed, len)
     IN /\ pc' = CASE kind = "proxy" -> "addresses" [] kind = "local" -> "local"
                   [] kind \notin {"proxy", "local"} -> "done"
        /\ verdict' = IF kind \in {"proxy", "local"} THEN "none" ELSE kind
        /\ todo' = CASE kind = "proxy" -> AfterFixed(len) [] kind = "local" -> len
                     [] kind \notin {"proxy", "local"} -> 0
  /\ UNCHANGED <<conn, arrived, eof, source, buf, info, answer, got, http>>

ReadAddresses ==
  /\ pc = "addresses"
  /\ Reads(AddressLen(Fixed.family))
  /\ consumed' = consumed + AddressLen(Fixed.family)
  /\ source' = Source(Fixed.family, Here(AddressLen(Fixed.family)))
  /\ pc' = IF todo = 0 THEN "peek" ELSE "tlvs"
  /\ UNCHANGED <<conn, arrived, eof, todo, verdict, buf, info, answer, got, http>>

\* The TLVs of a PROXY command are read past, in pieces of the discard buffer.
DiscardTlvs ==
  LET chunk == Min({todo, 2}) IN
  /\ pc = "tlvs"
  /\ Reads(chunk)
  /\ consumed' = consumed + chunk
  /\ todo' = todo - chunk
  /\ pc' = IF todo' = 0 THEN "peek" ELSE "tlvs"
  /\ UNCHANGED <<conn, arrived, eof, source, verdict, buf, info, answer, got, http>>

\* encode_load_answer: a line per name, its digits and a newline.
Digits(v) == IF v >= 10 THEN <<v \div 10, v % 10>> ELSE <<v>>
Newline == -2
Magic == -3
AnswerLine(name) ==
  IF name = None \/ Loads[name] = NoLoad THEN <<NoLoad, Newline>>
  ELSE Append(Digits(Min({Loads[name], MaxLoad})), Newline)
LoadAnswer(names) ==
  <<Magic>> \o FlattenSeq([i \in 1 .. Len(names) |-> AnswerLine(names[i])])

ReadLocal ==
  LET query == QueryNames(SubSeq(Here(todo), AddressLen(Fixed.family) + 1, todo)) IN
  /\ pc = "local"
  /\ Reads(todo)
  /\ consumed' = consumed + todo
  /\ todo' = 0
  /\ IF query.bad # "none"
     THEN /\ verdict' = query.bad
          /\ pc' = "done"
          /\ UNCHANGED answer
     ELSE /\ answer' = LoadAnswer(query.names)
          /\ pc' = "answer"
          /\ UNCHANGED verdict
  /\ UNCHANGED <<conn, arrived, eof, source, buf, info, got, http>>

InHeader == pc \in {"fixed", "addresses", "tlvs", "local"}

\* The peer closed in the middle of a header, or took too long over it.
HeaderFails ==
  /\ InHeader
  /\ \/ eof /\ arrived < Len(conn.wire) /\ verdict' = "invalid"
     \/ arrived < Len(conn.wire) /\ verdict' = "timeout"
  /\ pc' = "done"
  /\ UNCHANGED <<conn, arrived, eof, consumed, todo, source, buf, info, answer, got, http>>

----------------------------------------------------------------------------
(* The ClientHello                                                         *)

Complete(hs, len) == [is |-> "complete", hs |-> hs, len |-> len]
NeedMore(target) == [is |-> "more", target |-> target]
Invalid == [is |-> "invalid"]

\* What the handshake header declares; 0 while it is not whole.
Declared(hs) == IF Len(hs) < 2 THEN 0 ELSE 2 + hs[2].v

RecordPayload(raw, at, end) == SubSeq(raw, at + 3, end)

\* scan_handshake_records: the walk keeps where it is in raw and the handshake bytes of
\* the records behind it.
Scan(raw) ==
  LET walk[at \in 0 .. Len(raw), hs \in Seq(Range(raw))] ==
        IF Declared(hs) > 0 /\ Len(hs) >= Declared(hs)
        THEN Complete(SubSeq(hs, 1, Declared(hs)), at)
        ELSE IF Len(raw) > at /\ raw[at + 1].t # "handshake" THEN Invalid
        ELSE IF Len(raw) < at + 2 THEN NeedMore(at + 2)
        ELSE LET end == at + 2 + raw[at + 2].v
                 more == hs \o RecordPayload(raw, at, end)
             IN IF Len(raw) < end THEN NeedMore(end)
                ELSE IF Declared(hs) = 0 /\ more # <<>> /\ more[1].t # "hello" THEN Invalid
                ELSE walk[end, more]
  IN walk[0, <<>>]

\* Parser::parse_client_hello over the body: the cipher list, then as many whole
\* extensions as there are.
Extensions(body) ==
  LET bad == {i \in 2 .. Len(body) : body[i].t # "ext"}
      last == IF bad = {} THEN Len(body) ELSE Min(bad) - 1
  IN [i \in 1 .. last - 1 |-> body[i + 1].v]

NonGrease(s) == SelectSeq(s, LAMBDA v : v # Grease)
Sorted(s) == SortSeq(s, <)

\* The lists of the extensions of a kind, which a client may repeat.
Lists(exts, kind) ==
  LET all == SelectSeq(exts, LAMBDA e : e.type = kind)
  IN [i \in 1 .. Len(all) |-> all[i].list]

\* The values of all of them.
Ext(exts, kind) == FlattenSeq(Lists(exts, kind))

NoName == 0

\* The first name listed.  Host names are numbers; one that is absent, empty or
\* malformed counts as NoName.
ExtractSni(exts) ==
  IF Ext(exts, Sni) = <<>> THEN NoName ELSE Head(Ext(exts, Sni))

\* alpn_offers_h2: only the first list counts.
OffersH2(exts) == Lists(exts, Alpn) # <<>> /\ Contains(Head(Lists(exts, Alpn)), H2)

\* The first protocol of the last list that has one; 0 if there is none.
AlpnFirst(exts) ==
  LET offers == SelectSeq(Lists(exts, Alpn), LAMBDA list : list # <<>>)
  IN IF offers = <<>> THEN 0 ELSE Head(Last(offers))

Ja3(version, ciphers, exts) ==
  LET types == [i \in 1 .. Len(exts) |-> exts[i].type] IN
  <<version, NonGrease(ciphers), NonGrease(types), NonGrease(Ext(exts, Curves)),
    Ext(exts, PointFormats)>>

Ja4Exts(types) == Sorted(SelectSeq(types, LAMBDA t : t \notin {Grease, Sni, Alpn}))

Ja4(version, ciphers, exts) ==
  LET types == NonGrease([i \in 1 .. Len(exts) |-> exts[i].type])
      versions == Range(NonGrease(Ext(exts, Versions)))
  IN [version |-> IF versions = {} THEN version ELSE Max(versions),
      sni |-> Contains(types, Sni),
      counts |-> <<Len(NonGrease(ciphers)), Len(types)>>,
      alpn |-> AlpnFirst(exts),
      ciphers |-> Sorted(NonGrease(ciphers)),
      exts |-> Ja4Exts(types),
      sigs |-> NonGrease(Ext(exts, SigAlgs))]

NoInfo == [sni |-> NoName, ja3 |-> <<>>, ja4 |-> [exts |-> <<>>], h2 |-> FALSE, complete |-> FALSE,
           helloLen |-> 0]

\* parse_client_hello of a record payload.
ParseHello(payload) ==
  IF Len(payload) < 3 \/ payload[1].t # "hello" \/ payload[3].t # "ciphers" THEN NoInfo
  ELSE LET body == SubSeq(payload, 3, Len(payload))
           exts == Extensions(body)
           h == body[1].v
       IN [NoInfo EXCEPT !.sni = ExtractSni(exts), !.ja3 = Ja3(h.version, h.ciphers, exts),
                         !.ja4 = Ja4(h.version, h.ciphers, exts),
                         !.h2 = OffersH2(exts)]

\* Mutant of Trusted: whatever parses is complete.
TrustedIfParsed(parsed, len) == [parsed EXCEPT !.complete = TRUE, !.helloLen = len]

\* peek_with_timeout: only a reassembled hello is marked complete.
Trusted(parsed, len) == [parsed EXCEPT !.complete = len > 0, !.helloLen = len]

Decided(i) == pc' = "done" /\ info' = i /\ UNCHANGED buf

\* One turn of peek_reassemble.
Peek ==
  LET raw == Here(Min({Avail, buf}))
      scan == Scan(raw)
  IN
  /\ pc = "peek"
  /\ Avail > 0 \/ eof
  /\ IF raw = <<>> \/ scan.is = "invalid" THEN Decided(NoInfo)
     ELSE IF scan.is = "complete" THEN Decided(Trusted(ParseHello(scan.hs), scan.len))
     ELSE IF scan.target > MaxHello
          THEN Decided(Trusted(ParseHello(SubSeq(raw, 3, Len(raw))), 0))
     ELSE /\ buf' = Max({buf, scan.target})
          /\ UNCHANGED <<pc, info>>
  /\ UNCHANGED <<conn, arrived, eof, consumed, todo, source, verdict, answer, got, http>>

\* REASSEMBLY_TIMEOUT.
PeekTimesOut ==
  /\ pc = "peek"
  /\ arrived < Len(conn.wire)
  /\ Decided(NoInfo)
  /\ UNCHANGED <<conn, arrived, eof, consumed, todo, source, verdict, answer, got, http>>

----------------------------------------------------------------------------
(* The plaintext listener: ACME challenges and redirects                   *)

Unserved == [reply |-> "none", sent |-> <<>>, bytesIn |-> 0, routeIn |-> 0]

\* Where the header block of a request ends, 0 while it has not.
HeadEnd(cells) ==
  LET blank == {i \in 1 .. Len(cells) : cells[i].t = "blank"}
  IN IF blank = {} THEN 0 ELSE Min(blank)

Carry == SubSeq(conn.wire, 1, consumed)

\* read_header_block; what a read returned past the block is counted and dropped.
ReadHead ==
  LET n == Min({Avail, HeadRead})
      carry == SubSeq(conn.wire, 1, consumed + n)
  IN
  /\ pc = "head"
  /\ n > 0
  /\ consumed' = consumed + n
  /\ pc' = CASE HeadEnd(carry) > 0 -> "serve"
             [] HeadEnd(carry) = 0 /\ Len(carry) > MaxHead -> "done"
             [] HeadEnd(carry) = 0 /\ Len(carry) <= MaxHead -> "head"
  /\ verdict' = IF pc' = "done" THEN "httpHeader" ELSE verdict
  /\ http' = IF pc' = "serve" THEN [http EXCEPT !.bytesIn = consumed'] ELSE http
  /\ UNCHANGED <<conn, arrived, eof, todo, source, buf, info, answer, got>>

\* An EOF, even part-way through the head, is nothing to serve and no error.
HeadEof ==
  /\ pc = "head"
  /\ eof /\ Avail = 0
  /\ pc' = "done"
  /\ UNCHANGED <<conn, arrived, eof, consumed, todo, source, verdict, buf, info, answer, got, http>>

\* HEADER_READ_TIMEOUT.
HeadTimesOut ==
  /\ pc = "head"
  /\ arrived < Len(conn.wire)
  /\ pc' = "done"
  /\ verdict' = "httpHeader"
  /\ UNCHANGED <<conn, arrived, eof, consumed, todo, source, buf, info, answer, got, http>>

\* Mutant of Headers: what a read returned past the head is kept.
HeadersAndExcess == Carry

Headers == SubSeq(Carry, 1, HeadEnd(Carry))

Request == conn.wire[1].v

\* strip_body_framing, then with_connection_close.  Neither touches a head that is not
\* UTF-8 throughout.
Sanitized(head) ==
  IF ~ Request.utf8 THEN head
  ELSE LET close == Cell("field", "close")
           body == SelectSeq(head, LAMBDA c : c.t # "blank" /\ (c.t = "field" => c.v # "framing"))
           closed == [i \in 1 .. Len(body) |->
                        IF body[i].t = "field" /\ body[i].v = "connection" THEN close ELSE body[i]]
       IN closed \o (IF Contains(Tail(closed), close) THEN <<>> ELSE <<close>>) \o <<Cell("blank", 0)>>

\* handle_http and proxy_acme, up to the connection to the upstream.
Serve ==
  /\ pc = "serve"
  /\ LET route == IF Request.host = None THEN "noRoute" ELSE Routes[Request.host] IN
     IF Request.acme /\ route = "open"
     THEN pc' = "acme" /\ UNCHANGED <<http, verdict>>
     ELSE /\ pc' = "done"
          /\ verdict' = IF Request.acme /\ Request.host # None THEN route ELSE "none"
          /\ http' = [http EXCEPT !.reply =
                 CASE Request.host = None -> "400"
                   [] Request.host # None /\ ~ Request.acme -> "301"
                   [] Request.host # None /\ Request.acme /\ route = "noRoute" -> "404"
                   [] Request.host # None /\ Request.acme /\ route # "noRoute" -> "none"]
  /\ UNCHANGED <<conn, arrived, eof, consumed, todo, source, buf, info, answer, got>>

ConnectFails ==
  /\ pc = "acme"
  /\ http.sent = <<>>
  /\ pc' = "done"
  /\ verdict' = "upstreamConnect"
  /\ UNCHANGED <<conn, arrived, eof, consumed, todo, source, buf, info, answer, got, http>>

\* proxy_one_shot: the head goes out, the answer comes back or fails, the connection ends.
OneShot ==
  /\ pc = "acme"
  /\ http' = [http EXCEPT !.sent = Sanitized(Headers), !.routeIn = http.bytesIn,
                          !.reply = "upstream"]
  /\ pc' = "done"
  /\ verdict' \in {"none", "stream"}
  /\ UNCHANGED <<conn, arrived, eof, consumed, todo, source, buf, info, answer, got>>

----------------------------------------------------------------------------
(* The network                                                             *)

Arrive ==
  /\ ~ eof
  /\ arrived < Len(conn.wire)
  /\ \E n \in arrived + 1 .. Len(conn.wire) : arrived' = n
  /\ UNCHANGED <<conn, eof, consumed, pc, todo, source, verdict, buf, info, answer, got, http>>

Close ==
  /\ ~ eof
  /\ pc # "done"
  /\ eof' = TRUE
  /\ UNCHANGED <<conn, arrived, consumed, pc, todo, source, verdict, buf, info, answer, got, http>>

\* The querying node reads the answer to its end, which may come early.
AnswerArrives ==
  /\ pc = "answer"
  /\ \E n \in 0 .. Len(answer) : got' = n
  /\ pc' = "done"
  /\ UNCHANGED <<conn, arrived, eof, consumed, todo, source, verdict, buf, info, answer, http>>

Init ==
  /\ conn \in Conns
  /\ arrived = 0 /\ eof = FALSE /\ consumed = 0
  /\ pc = CASE conn.listener = "ingress" -> "fixed" [] conn.listener = "tls" -> "peek"
            [] conn.listener = "http" -> "head"
  /\ todo = 0
  /\ source = Nowhere /\ verdict = "none"
  /\ buf = InitialPeek /\ info = NoInfo
  /\ answer = <<>> /\ got = 0
  /\ http = Unserved

Next ==
  \/ ReadFixed \/ ReadAddresses \/ DiscardTlvs \/ ReadLocal \/ HeaderFails
  \/ Peek \/ PeekTimesOut
  \/ ReadHead \/ HeadEof \/ HeadTimesOut \/ Serve \/ ConnectFails \/ OneShot
  \/ Arrive \/ Close \/ AnswerArrives

Spec == Init /\ [][Next]_vars

----------------------------------------------------------------------------
(* parse_load_answer, at the node that asked                               *)

\* Mutant of WholeLines: the last line need not be ended.
AnyLines(cells) == TRUE

WholeLines(cells) == cells[Len(cells)] = Newline

\* A line is "-" or a number of at most two digits (four, in the code) within the cap.
Number(line) == IF Len(line) = 1 THEN line[1] ELSE 10 * line[1] + line[2]

WellFormed(line) ==
  \/ line = <<NoLoad>>
  \/ Len(line) \in 1 .. 2 /\ Range(line) \subseteq 0 .. 9 /\ Number(line) <= MaxLoad

\* The lines of a body whose newlines stand at the positions ends.
LinesOf(body) ==
  LET ends == {i \in 1 .. Len(body) : body[i] = Newline}
      bounds == SetToSortSeq({0} \cup ends \cup {Len(body) + 1}, <)
      all == [i \in 1 .. Len(bounds) - 1 |-> SubSeq(body, bounds[i] + 1, bounds[i + 1] - 1)]
  IN IF Len(body) \in ends THEN SubSeq(all, 1, Len(all) - 1) ELSE all

NoAnswer == <<>>

ParseLoadAnswer(cells, expected) ==
  IF cells = <<>> \/ Len(cells) > 1 + expected * 3 THEN NoAnswer
  ELSE LET lines == IF Len(cells) = 1 THEN <<>> ELSE LinesOf(Tail(cells)) IN
       IF Len(lines) # expected \/ ~ WholeLines(cells) \/ \E l \in Range(lines) : ~ WellFormed(l)
       THEN NoAnswer
       ELSE [i \in 1 .. expected |-> Number(lines[i])]

----------------------------------------------------------------------------
(* Properties                                                              *)

\* How many of the leading records of the stream hold the whole hello.
HelloRecords == conn.hello.records
HelloStart == conn.hello.start

\* However a forwarded connection is cut, its header is read to its last cell and no
\* further, and names the client it came from.
HeaderExact ==
  /\ todo \in 0 .. Len(conn.wire) /\ consumed \in 0 .. arrived
  /\ pc = "peek" \/ info # NoInfo =>
       /\ consumed = HelloStart
       /\ conn.listener = "ingress" => source = Canonical(conn.from)

\* A fingerprint that is trusted is that of the hello the TLS stack will read, however
\* it is cut into records and reads; the records that hold it, and no other, are
\* counted as the hello.
TrustedIsWhole ==
  info.complete =>
    /\ info.helloLen = HelloRecords
    /\ LET exts == {conn.hello.body[i].v : i \in 2 .. Len(conn.hello.body)}
           types == {e.type : e \in exts} \ {Grease}
       IN /\ info.sni \in {NoName} \cup {e.list[1] : e \in {x \in exts : x.type = Sni}}
          /\ Sni \in types => info.sni # NoName
          /\ Range(info.ja4.exts) = types \ {Sni, Alpn}
          /\ \A i, j \in DOMAIN info.ja4.exts : i < j => info.ja4.exts[i] <= info.ja4.exts[j]
          /\ Range(info.ja4.ciphers) = Range(conn.hello.body[1].v.ciphers) \ {Grease}
          /\ info.ja4.counts[2] =
               Len(SelectSeq(Tail(conn.hello.body), LAMBDA c : c.v.type # Grease))
          /\ \A e \in exts : e.type = Curves => Range(e.list) \ {Grease} \subseteq Range(info.ja3[4])

\* What the head sent says of the connection and of a body.
SentFields == {c.v : c \in {x \in Range(http.sent) : x.t = "field"}}
ClosedAndBodyless ==
  "close" \in SentFields /\ "framing" \notin SentFields /\ "connection" \notin SentFields

\* However a plaintext request is cut and whatever follows it, a route is sent one head and
\* nothing behind it, of an ACME request that names the route; every byte taken from the
\* client is counted, and for the route that served it.  A head that is UTF-8 throughout
\* asks the upstream to close and promises it no body; any other goes out as it came, its
\* framing and its Connection fields included (strip_body_framing and
\* rewrite_connection_header return it as it is).
OnlyChallengeForwarded ==
  /\ pc = "done" /\ http.bytesIn > 0 => http.bytesIn = consumed
  /\ http.routeIn \in {0, http.bytesIn}
  /\ http.sent # <<>> =>
       /\ http.reply = "upstream" /\ Request.acme /\ Routes[Request.host] = "open"
       /\ \A i \in 1 .. Len(http.sent) : http.sent[i].t = "blank" <=> i = Len(http.sent)
       /\ IF Request.utf8 THEN ClosedAndBodyless
          ELSE http.sent = SubSeq(conn.wire, 1, HeadEnd(conn.wire))

\* "Strip any Content-Length / Transfer-Encoding headers so a client that lies about a body
\* ... can't deadlock the upstream ... Then force Connection: close" (http_listener.rs).
\* Violated: one byte that is not UTF-8 anywhere in the head, and neither is done.
EveryHeadCloses == http.sent # <<>> => ClosedAndBodyless

\* A node that asks for the loads of its routes reads nothing at all or, for each name in
\* its place, the load of that route: a name too long to be asked is not available, and
\* an answer cut short is not taken for a smaller load.
LoadsAligned ==
  pc = "done" /\ answer # <<>> =>
    ParseLoadAnswer(SubSeq(answer, 1, got), Len(conn.names)) \in
      {NoAnswer, [i \in 1 .. Len(conn.names) |->
                IF conn.names[i].len \in 1 .. MaxNameLen /\ Loads[conn.names[i].id] # NoLoad
                THEN Min({Loads[conn.names[i].id], MaxLoad}) ELSE NoLoad]}

============================================================================
