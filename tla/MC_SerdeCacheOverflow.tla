----------------------- MODULE MC_SerdeCacheOverflow -----------------------
(* One state registers NPairs distinct custom types, one after the other, *)
(* encoding a value of each, and then decodes the buffers whose type code  *)
(* came out negative.  NPairs = 120 is the 120th registration: slot 119,   *)
(* whose code 119 + SERDE_CUSTOM = 128 does not fit serde_type_code.       *)
EXTENDS SerdeCache

CONSTANTS t1

NPairs == 120

MCThreads == {t1}
MCPairs == 1 .. NPairs
MCKeys == 1 .. NPairs
MCKeyOf == [p \in MCPairs |-> p]
MCMaxOps == NPairs + 1

(* The pairs are encoded in order: the first one this state has not yet  *)
(* cached.                                                                *)
Uncached(t) == {p \in MCPairs : \A c \in DOMAIN cache[t] : cache[t][c] # p}
MCEncodable(t) ==
  IF Uncached(t) = {} THEN {} ELSE {CHOOSE p \in Uncached(t) : \A q \in Uncached(t) : p <= q}
(* Every value encoded is sent: the serialize methods do not raise. *)
AllSent == Cardinality(sent) = Cardinality(DOMAIN cache[t1])
(* Only buffers with a negative tag are decoded. *)
MCDecodable(t) == {m \in sent : m[1] < 0}
====
