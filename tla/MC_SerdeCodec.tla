---------------------------- MODULE MC_SerdeCodec ----------------------------
(* Values for SerdeCodec: every simple type, strings that do and do not   *)
(* fit the initial buffer, the empty string, and Lua and C closures with  *)
(* up to two upvalues drawn from _ENV, simple values, a table and a  *)
(* local function.                                                                *)
EXTENDS SerdeCodec

Int7 == [t |-> "integer", v |-> 7]
LongStr == [t |-> "string", v |-> "s200", len |-> 200]
Table == [t |-> "table"]
LocalFn == [t |-> "lclosure", v |-> "g", len |-> 40, up |-> << >>]

SimpleValues ==
  {Nil, Int7, LongStr,
   [t |-> "boolean", v |-> TRUE],
   [t |-> "lightuserdata", v |-> "p"],
   [t |-> "number", v |-> "1.5"],
   [t |-> "string", v |-> "", len |-> 0]}

UpSeqs(opts) == {<< >>} \cup {<<u>> : u \in opts} \cup (opts \X opts)

(* Upvalues of a Lua closure, named as the compiler names them. *)
LuaUps ==
  {[name |-> "_ENV", val |-> Globals], [name |-> "x", val |-> Int7],
   [name |-> "s", val |-> LongStr], [name |-> "t", val |-> Table],
   [name |-> "g", val |-> LocalFn]}

(* C closure upvalues have the empty name. *)
CUps == {[name |-> "", val |-> x] : x \in {Int7, LongStr, Table}}

LuaClosures ==
  {[t |-> "lclosure", v |-> "f", len |-> n, up |-> u] :
     n \in {40, 5000}, u \in UpSeqs(LuaUps)}

CClosures == {[t |-> "cclosure", v |-> "cf", up |-> u] : u \in UpSeqs(CUps)}

MCInputs == SimpleValues \cup {Table} \cup LuaClosures \cup CClosures

(* The closures whose upvalues are all serializable. *)
MCRoundTripInputs == {c \in LuaClosures \cup CClosures : Supported(c)}
====
