----------------------------- MODULE MCHttp1 -----------------------------
(* What the clients of the model-checked instance send.                    *)
EXTENDS Http1

Get == [method |-> "GET", upgrade |-> FALSE, length |-> {}, te |-> "none", formed |-> TRUE]
Post(n) == [Get EXCEPT !.method = "POST", !.length = {n}]
Chunked == [Get EXCEPT !.method = "POST", !.te = "chunked"]
Upgrade == [Get EXCEPT !.upgrade = TRUE]
Connect == [Get EXCEPT !.method = "CONNECT"]
HeadOnly == [Get EXCEPT !.method = "HEAD"]

\* Two readings, and lines that do not parse.
TwoFramings == [Chunked EXCEPT !.length = {1}]
TwoLengths == [Post(1) EXCEPT !.length = {1, 2}]
Folded == [Get EXCEPT !.formed = FALSE]

\* Requests one behind the other; a body, whole or in chunks, that holds what looks
\* like a request; more behind a tunnel candidate, also one with a body; what is
\* refused; a head that does not end.
MCScripts ==
  {<<Line, HeadItem(HeadOnly), HeadItem(Post(1)), Data, HeadItem(Get)>>,
   <<HeadItem(Post(2)), Data, HeadItem(Get), HeadItem(Folded)>>,
   <<HeadItem(Chunked), Size(1), HeadItem(Get), Blank, Size(0), Line, Blank, HeadItem(Get)>>,
   <<HeadItem(Upgrade), Line, HeadItem(Get), Data>>,
   <<HeadItem([Upgrade EXCEPT !.length = {1}]), Data, HeadItem(Get)>>,
   <<HeadItem(Connect), Data, HeadItem(Get)>>,
   <<HeadItem(TwoFramings), Size(1), HeadItem(Get), Blank, Size(0), Blank>>,
   <<HeadItem(TwoLengths), Data, HeadItem(Get)>>,
   <<HeadItem(Chunked), Size(1), Data, Data>>,
   <<HeadItem(Chunked), Data>>,
   <<Line, Line, Line, Line, HeadItem(Get)>>}

============================================================================
