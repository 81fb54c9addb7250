--------------------------- MODULE MCLocalHealth ---------------------------
(* A route whose h2 destination shares an endpoint with the default one,   *)
(* and the reloads that move it to one endpoint or exchange them.          *)
EXTENDS LocalHealth

Layout(h1, h2) == [d \in {"h1", "h2"} |-> IF d = "h1" THEN h1 ELSE h2]

Both == Layout({"a", "b"}, {"b"})
Moved == Layout({"b"}, {"a"})

MCLayouts == {Both, Moved}
OneIp == [c \in Conns |-> "ip"]

============================================================================
