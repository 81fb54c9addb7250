-------------------------------- MODULE Wire --------------------------------
(***************************************************************************)
(* What nodes and clients write at the head of a connection.               *)
(*                                                                         *)
(* A stream is a sequence of cells with the proportions of the format: a   *)
(* record or handshake header has a type and a length cell, the fixed part *)
(* of a PROXY header two cells, an address block two or three.             *)
(***************************************************************************)
EXTENDS Integers, Sequences, FiniteSets, FiniteSetsExt, SequencesExt

CONSTANTS
  MaxNames,      \* MAX_QUERY_NAMES
  MaxNameLen     \* MAX_NAME_LEN

NoLoad == -1
None == "none"

Cell(t, v) == [t |-> t, v |-> v]

----------------------------------------------------------------------------
(* PROXY v2 headers and load queries                                       *)

\* An IPv4-mapped address is sent as IPv4.
Canonical(a) == IF a.family = "mapped" THEN [a EXCEPT !.family = "v4"] ELSE a

AddressLen(family) ==
  CASE family = "v4" -> 2 [] family = "v6" -> 3 [] family = "unspec" -> 0

\* The prefix that makes an IPv6 address an IPv4-mapped one.
Mapped == "mapped"

Tlv(kind, value, len) ==
  <<Cell(kind, 0), Cell("len", len)>> \o [i \in 1 .. len |-> Cell("value", value)]

\* TLVs with an empty value are skipped.
TlvBlock(tlvs) ==
  FlattenSeq([i \in 1 .. Len(tlvs) |->
                IF tlvs[i].len = 0 THEN <<>> ELSE Tlv(tlvs[i].kind, None, tlvs[i].len)])

AddressBlock(a) ==
  <<Cell("ip", a.ip)>>
  \o (CASE a.family = "v4" -> <<>> [] a.family = "v6" -> <<Cell("ip", None)>>
        [] a.family = "mapped" -> <<Cell("ip", Mapped)>>)
  \o <<Cell("port", a.port)>>

FixedPart(sig, command, family, len) ==
  <<Cell("fixed", [sig |-> sig, command |-> command, family |-> family]), Cell("len", len)>>

\* write_proxy_v2_header: the length field counts what follows the fixed part.
ProxyHeader(addr, tlvs) ==
  LET a == Canonical(addr)
      rest == AddressBlock(a) \o TlvBlock(tlvs)
  IN FixedPart("v2", "proxy", a.family, Len(rest)) \o rest

\* encode_load_query: one TLV per name; a name that is too long is sent empty.
LoadQuery(names) ==
  LET len(n) == IF n.len <= MaxNameLen THEN n.len ELSE 0
      rest == FlattenSeq([i \in 1 .. Len(names) |->
                            Tlv("query", names[i].id, len(names[i]))])
  IN FixedPart("v2", "local", "unspec", Len(rest)) \o rest

\* load_query_chunks: no query asks for more than the receiver accepts.
QueryChunks(names) ==
  {SubSeq(names, k * MaxNames + 1, Min({Len(names), (k + 1) * MaxNames})) :
     k \in 0 .. (Len(names) - 1) \div MaxNames}

----------------------------------------------------------------------------
(* TLS extensions and values that the parser tells apart                   *)

Grease == 99
Sni == 0
Alpn == 16
SigAlgs == 13
Versions == 43
Curves == 10
PointFormats == 11
H2 == 2
============================================================================
