--------------------------- MODULE MC_SerdeCache ---------------------------
(* Two threads, three pairs of which two serialize to the same bytes (the *)
(* closures a message handler recreates per message), two operations      *)
(* each: enough for both threads to race on registering one key, for one  *)
(* to register the second, and for decodes in the other state.            *)
EXTENDS SerdeCache

CONSTANTS t1, t2, p1, p2, p3, k1, k2

MCThreads == {t1, t2}
MCPairs == {p1, p2, p3}
MCKeys == {k1, k2}
MCKeyOf == (p1 :> k1) @@ (p2 :> k1) @@ (p3 :> k2)
MCMaxOps == 2
====
