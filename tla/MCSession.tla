----------------------------- MODULE MCSession ----------------------------
(* What arrives at a listener, and the sessions that come of it.           *)
EXTENDS Session, SequencesExt, TLC

W == INSTANCE Wire WITH MaxNames <- 2, MaxNameLen <- 2

ExtCell(type, list) == W!Cell("ext", [type |-> type, list |-> list])
CipherCell(list) == W!Cell("ciphers", [version |-> 3, ciphers |-> list])

\* Two clients: one sends GREASE and its extensions in no order, one repeats an extension
\* and names no host.
Browser == <<CipherCell(<<W!Grease, 5, 4>>), ExtCell(W!Versions, <<W!Grease, 4>>), ExtCell(W!Sni, <<7>>),
             ExtCell(W!SigAlgs, <<8>>), ExtCell(W!Alpn, <<W!H2, 1>>)>>
Plain == <<CipherCell(<<4>>), ExtCell(W!Curves, <<1>>), ExtCell(W!Grease, <<>>), ExtCell(W!Curves, <<2>>)>>

Hello(body) == <<W!Cell("hello", 0), W!Cell("len", Len(body))>> \o body

RecordOf(payload) == <<W!Cell("handshake", 0), W!Cell("len", Len(payload))>> \o payload

\* Ways to cut a message into records, an empty one among them.
Cuts(hs) ==
  {<<hs>>} \cup {<<SubSeq(hs, 1, i), SubSeq(hs, i + 1, Len(hs))>> : i \in 0 .. Len(hs) - 1}
  \cup {<<SubSeq(hs, 1, 1), SubSeq(hs, 2, 3), SubSeq(hs, 4, Len(hs))>>}

Flight(cut) == FlattenSeq([i \in 1 .. Len(cut) |-> RecordOf(cut[i])])

Early == <<W!Cell("appdata", 0), W!Cell("len", 1), W!Cell("value", W!None)>>

Conn(listener, header, from, names, records, body, after) ==
  [listener |-> listener, wire |-> header \o records \o after, from |-> from, names |-> names,
   hello |-> [start |-> Len(header), records |-> Len(records), body |-> body]]

Addr(family) == [family |-> family, ip |-> "a", port |-> 1]

Direct ==
  {Conn("tls", <<>>, Addr("v4"), <<>>, Flight(c), Browser, after) :
     c \in Cuts(Hello(Browser)), after \in {<<>>, Early}}
  \cup {Conn("tls", <<>>, Addr("v4"), <<>>, Flight(c), Plain, <<>>) : c \in Cuts(Hello(Plain))}

\* Not TLS, not a hello, a hello beyond the limit, a record that is no handshake.
Odd ==
  {Conn("tls", <<>>, Addr("v4"), <<>>, w, Plain, <<>>) :
     w \in {Early, RecordOf(<<W!Cell("finished", 0)>>), Flight(<<SubSeq(Hello(Plain), 1, 2)>>) \o Early,
            Flight(<<<<W!Cell("hello", 0), W!Cell("len", 30)>> \o Plain, Plain \o Plain \o Plain>>)}}

\* Forwarded by a peer, with the address forms and TLVs there are.
Forwarded ==
  {Conn("ingress", W!ProxyHeader(Addr(f), tlvs), Addr(f), <<>>, RecordOf(Hello(Plain)), Plain, <<>>) :
     f \in {"v4", "mapped", "v6"},
     tlvs \in {<<>>, <<[kind |-> "ja3", len |-> 1], [kind |-> "empty", len |-> 0]>>}}

\* By a balancer that sends an IPv4-mapped address as it is.
Unmapped ==
  {Conn("ingress", W!FixedPart("v2", "proxy", "v6", 3) \o W!AddressBlock(Addr("mapped")), Addr("mapped"),
        <<>>, RecordOf(Hello(Plain)), Plain, <<>>)}

Name(id, len) == [id |-> id, len |-> len]

\* One long name, one unknown, one without a load; cut into queries.
Queries ==
  UNION {{Conn("ingress", W!LoadQuery(chunk), Addr("v4"), chunk, <<>>, Plain, <<>>) :
            chunk \in W!QueryChunks(names)} :
           names \in {<<Name("x", 1), Name("y", 2), Name("x", 3)>>, <<Name("z", 1), Name("x", 1)>>}}

\* Headers to refuse.
Strange ==
  {Conn("ingress", W!FixedPart(sig, command, family, len), Addr("v4"), <<>>, <<>>, Plain, <<>>) :
     sig \in {"v1", "v2", "junk"}, command \in {"proxy", "local", "other"},
     family \in {"v4", "unspec", "unix"}, len \in {0, 20}}
  \cup {Conn("ingress", W!FixedPart("v2", "local", "unspec", Len(rest)) \o rest, Addr("v4"), <<>>, <<>>,
             Plain, <<>>) :
          rest \in {W!Tlv("noop", W!None, 1), <<W!Cell("query", 0)>>, <<W!Cell("query", 0), W!Cell("len", 5)>>,
                    W!Tlv("query", "x", 1) \o W!Tlv("query", "y", 1) \o W!Tlv("query", "z", 1)}}

\* A plaintext request, with a body or another request behind it.
Requests ==
  {Conn("http", <<>>, Addr("v4"), <<>>,
        <<W!Cell("line", [acme |-> r[1], host |-> r[2], utf8 |-> r[3]])>> \o fields \o <<W!Cell("blank", 0)>>,
        Plain, after) :
     r \in {<<TRUE, "own", TRUE>>, <<TRUE, "own", FALSE>>, <<TRUE, "foreign", TRUE>>, <<TRUE, "guarded", TRUE>>,
           <<TRUE, "busy", TRUE>>, <<TRUE, W!None, TRUE>>, <<FALSE, "own", TRUE>>, <<FALSE, W!None, TRUE>>},
     fields \in {<<>>, <<W!Cell("field", "framing"), W!Cell("field", "other"), W!Cell("field", "connection")>>,
                [i \in 1 .. 7 |-> W!Cell("field", "other")]},
     after \in {<<>>, <<W!Cell("line", [acme |-> FALSE, host |-> "own", utf8 |-> TRUE]), W!Cell("blank", 0)>>}}

MCRoutes == [h \in {"own", "foreign", "guarded", "busy"} |->
               CASE h = "own" -> "open" [] h = "foreign" -> "noRoute"
                 [] h = "guarded" -> "notAllowed" [] h = "busy" -> "limited"]

MCConns == Requests \cup Direct \cup Odd \cup Forwarded \cup Unmapped \cup Queries \cup Strange
MCLoads == [n \in {"x", "y", "z"} |-> CASE n = "x" -> 12 [] n = "y" -> 3 [] n = "z" -> W!NoLoad]

----------------------------------------------------------------------------

Opaque == [mode |-> "none", fingerprint |-> {}, protocol |-> "opaque", terminated |-> FALSE,
           ja3 |-> 0, ja4 |-> 0, sni |-> 0, v6 |-> FALSE,
           tls |-> [cipher |-> 0, alpn |-> 0, h2 |-> FALSE, chain |-> <<>>]]

Http == [Opaque EXCEPT !.mode = "xff", !.fingerprint = {"ja4"}, !.protocol = "http",
                       !.terminated = TRUE]

Limit(half, idle, bytes) == [half |-> half, idle |-> idle, bytes |-> bytes]

\* PROXY v2 with chains around what the length field leaves: the TLVs take 100 bytes
\* without the chain, an empty one among them.
Carried(v6, chain) ==
  [Opaque EXCEPT !.mode = "v2", !.fingerprint = {"ja3", "ja4"}, !.terminated = TRUE, !.ja3 = 32,
                 !.sni = 10, !.v6 = v6,
                 !.tls = [cipher |-> 23, alpn |-> 2, h2 |-> TRUE, chain |-> chain]]

Chains == {<<>>, <<30000, 35000>>, <<65396>>, <<65397>>, <<65400>>, <<65432>>, <<65536>>}

MCSessions ==
  {<<Opaque, Limit(2, 0, 2)>>, <<Opaque, Limit(1, 2, 1)>>, <<Http, Limit(2, 0, 2)>>}
  \cup {<<Carried(v6, chain), Limit(0, 0, 0)>> : v6 \in BOOLEAN, chain \in Chains}
  \cup {<<[Opaque EXCEPT !.mode = "v1"], Limit(0, 0, 0)>>}

============================================================================
