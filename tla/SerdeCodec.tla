----------------------------- MODULE SerdeCodec -----------------------------
(***************************************************************************)
(* The serde codec: serdebuf_serialize and its helpers (src/serdebuf.c)    *)
(* encode a Lua value into a growable buffer; loadshared and               *)
(* loadsharedimpl (src/stacktrace.h) decode it in another Lua state.       *)
(*                                                                         *)
(* A buffer is a sequence of fields, each with its width in bytes (amd64)  *)
(* and a kind, so that offsets, backpatching and growth are computed as in *)
(* the code.  The decoder walks byte offsets and works on a model of the   *)
(* consumer's Lua stack, since setupvalues is defined by what it does to   *)
(* that stack.  Custom types belong to SerdeCache and are left out.        *)
(***************************************************************************)
EXTENDS Integers, SequencesExt

CONSTANTS
  Inputs        \* the Lua values a producer may encode

\* enum serde_type
SERDE_ENV == 0
SERDE_NIL == 1
SERDE_BOOLEAN == 2
SERDE_LIGHTUSERDATA == 3
SERDE_INTEGER == 4
SERDE_NUMBER == 5
SERDE_STRING == 6
SERDE_CCLOSURE == 7
SERDE_LCLOSURE == 8
SERDE_CUSTOM == 9
SERDE_INVALID == -1
SERDE_ANY == -2

EINVAL == 22
CK_MD_CACHELINE == 64
CK_MD_PAGESIZE == 4096

\* sizeof on amd64: serde_type_code, bool, void *, lua_Integer,
\* lua_Number, size_t, unsigned, lua_CFunction
Width == [tag |-> 1, bool |-> 1, ptr |-> 8, int |-> 8, num |-> 8,
          size |-> 8, count |-> 4, fn |-> 8]

serde_type_size ==
  [t \in SERDE_ENV..SERDE_CUSTOM |->
     CASE t \in {SERDE_ENV, SERDE_NIL} -> 0
       [] t = SERDE_BOOLEAN -> Width.bool
       [] t \in {SERDE_LIGHTUSERDATA, SERDE_INTEGER, SERDE_NUMBER,
                 SERDE_STRING} -> 8
       [] t \in {SERDE_CCLOSURE, SERDE_CUSTOM} -> CK_MD_CACHELINE
       [] t = SERDE_LCLOSURE -> CK_MD_PAGESIZE]

(* Lua values.  Globals is the table a closure's _ENV upvalue holds. *)
Nil == [t |-> "nil"]
Globals == [t |-> "globals"]

(* An uninitialized placeholder written before a backpatch. *)
UNINIT == -1

(* serde_type: the tag a value is classified as. *)
serde_type(v) ==
  CASE v.t = "nil" -> SERDE_NIL
    [] v.t = "boolean" -> SERDE_BOOLEAN
    [] v.t = "lightuserdata" -> SERDE_LIGHTUSERDATA
    [] v.t = "integer" -> SERDE_INTEGER
    [] v.t = "number" -> SERDE_NUMBER
    [] v.t = "string" -> SERDE_STRING
    [] v.t = "cclosure" -> SERDE_CCLOSURE
    [] v.t = "lclosure" -> SERDE_LCLOSURE
    [] OTHER -> SERDE_INVALID

-----------------------------------------------------------------------------
(* The serdebuf: fields appended so far, capacity, and whether every      *)
(* append stayed within the capacity.                                     *)

Field(w, k, x) == [w |-> w, k |-> k, v |-> x]

SbSize(sb) == FoldLeft(LAMBDA n, f : n + f.w, 0, sb.f)

(* The byte offset of field i. *)
Offset(f, i) == FoldLeft(LAMBDA n, g : n + g.w, 0, SubSeq(f, 1, i - 1))

serdebuf_init(v) ==
  [f |-> << >>, ok |-> TRUE,
   cap |-> Width.tag + serde_type_size[serde_type(v)]
             + (IF serde_type(v) = SERDE_STRING THEN v.len ELSE 0)]

RoundUp2(x, y) == ((x + y - 1) \div y) * y

serdebuf_roundup(size) ==
  IF size >= CK_MD_PAGESIZE THEN RoundUp2(size, CK_MD_PAGESIZE)
                            ELSE RoundUp2(size, CK_MD_CACHELINE)

(* Mutant: growth to twice the capacity without raising it to the need. *)
serdebuf_append_double(sb, fld) ==
  LET needed == SbSize(sb) + fld.w
      cap == IF needed > sb.cap THEN serdebuf_roundup(sb.cap * 2) ELSE sb.cap
  IN  [f |-> Append(sb.f, fld), cap |-> cap, ok |-> sb.ok /\ needed <= cap]

(* serdebuf_append, with serdebuf_resize when the field does not fit. *)
serdebuf_append(sb, fld) ==
  LET needed == SbSize(sb) + fld.w
      cap == IF needed > sb.cap
               THEN serdebuf_roundup(Max({sb.cap * 2, needed}))
               ELSE sb.cap
  IN  [f |-> Append(sb.f, fld), cap |-> cap, ok |-> sb.ok /\ needed <= cap]

(* A store through a pointer at byte offset off into the buffer: it must *)
(* land exactly on the placeholder field of that width.                 *)
Backpatch(sb, off, w, x) ==
  IF \E i \in DOMAIN sb.f : Offset(sb.f, i) = off /\ sb.f[i].w = w
    THEN LET i == CHOOSE j \in DOMAIN sb.f : Offset(sb.f, j) = off
         IN  [sb EXCEPT !.f[i].v = x]
    ELSE [sb EXCEPT !.ok = FALSE]

Ok(sb) == [sb |-> sb, err |-> 0]
Fail(sb, e) == [sb |-> sb, err |-> e]

FunctionOrTable == {"lclosure", "cclosure", "table", "globals"}

RECURSIVE serdebuf_serialize(_, _, _), SerializeUps(_, _, _)

(* Mutant: the upvalue loop without its lua_type check. *)
SerializeUpsUnchecked(sb, ups, i) ==
  IF i > Len(ups) THEN Ok(sb)
  ELSE LET r == serdebuf_serialize(sb, ups[i].val,
                  IF ups[i].name = "_ENV" THEN SERDE_ENV ELSE SERDE_ANY)
       IN  IF r.err # 0 THEN r ELSE SerializeUps(r.sb, ups, i + 1)

(* The loop of serdebuf_serialize_upvalues from upvalue i on. *)
SerializeUps(sb, ups, i) ==
  IF i > Len(ups) THEN Ok(sb)
  ELSE IF ups[i].name # "_ENV" /\ ups[i].val.t \in FunctionOrTable
    THEN Fail(sb, EINVAL)
  ELSE LET r == serdebuf_serialize(sb, ups[i].val,
                  IF ups[i].name = "_ENV" THEN SERDE_ENV ELSE SERDE_ANY)
       IN  IF r.err # 0 THEN r ELSE SerializeUps(r.sb, ups, i + 1)

(* Mutant: *countp = i, one past the number of upvalues. *)
serdebuf_serialize_upvalues_i(sb, v) ==
  LET count_offset == SbSize(sb)
      r == SerializeUps(serdebuf_append(sb, Field(Width.count, "count", UNINIT)),
                        v.up, 1)
  IN  IF r.err # 0 THEN r
      ELSE Ok(Backpatch(r.sb, count_offset, Width.count, Len(v.up) + 1))

(* Room for the count, the upvalues, then *countp = i - 1. *)
serdebuf_serialize_upvalues(sb, v) ==
  LET count_offset == SbSize(sb)
      r == SerializeUps(serdebuf_append(sb, Field(Width.count, "count", UNINIT)),
                        v.up, 1)
  IN  IF r.err # 0 THEN r
      ELSE Ok(Backpatch(r.sb, count_offset, Width.count, Len(v.up)))

(* Room for the size, lua_dump (stripped) through serdebuf_writer, then *)
(* *sizep = serdebuf_size(sb) - start.                                  *)
serdebuf_dump(sb, v) ==
  LET s1 == serdebuf_append(sb, Field(Width.size, "size", UNINIT))
      start == SbSize(s1)
      s2 == serdebuf_append(s1, Field(v.len, "code",
                                      [code |-> v.v, nups |-> Len(v.up)]))
  IN  Ok(Backpatch(s2, start - Width.size, Width.size, SbSize(s2) - start))

serdebuf_serialize(sb, v, tag) ==
  LET type == IF tag = SERDE_ANY THEN serde_type(v) ELSE tag
      s1 == serdebuf_append(sb, Field(Width.tag, "tag", type))
      ups == serdebuf_serialize_upvalues(s1, v)
  IN  CASE type \in {SERDE_ENV, SERDE_NIL} -> Ok(s1)
        [] type = SERDE_BOOLEAN ->
             Ok(serdebuf_append(s1, Field(Width.bool, "bool", v.v)))
        [] type = SERDE_LIGHTUSERDATA ->
             Ok(serdebuf_append(s1, Field(Width.ptr, "ptr", v.v)))
        [] type = SERDE_NUMBER ->
             Ok(serdebuf_append(s1, Field(Width.num, "num", v.v)))
        [] type = SERDE_INTEGER ->
             Ok(serdebuf_append(s1, Field(Width.int, "int", v.v)))
        [] type = SERDE_STRING ->
             Ok(serdebuf_append(serdebuf_append(s1, Field(Width.size, "size", v.len)),
                                Field(v.len, "bytes", v.v)))
        [] type = SERDE_LCLOSURE ->
             IF ups.err # 0 THEN ups ELSE serdebuf_dump(ups.sb, v)
        [] type = SERDE_CCLOSURE ->
             IF ups.err # 0 THEN ups
             ELSE Ok(serdebuf_append(ups.sb, Field(Width.fn, "fn", v.v)))
        [] OTHER -> Fail(s1, EINVAL)

(* Mutant: the unsupported-type error reported as the type code. *)
EncodeTypeAsError(v) ==
  IF serde_type(v) = SERDE_INVALID
    THEN [err |-> serde_type(v), f |-> << >>, len |-> 0, ok |-> TRUE]
    ELSE LET r == serdebuf_serialize(serdebuf_init(v), v, SERDE_ANY)
         IN  [err |-> r.err, f |-> IF r.err = 0 THEN r.sb.f ELSE << >>,
              len |-> IF r.err = 0 THEN SbSize(r.sb) ELSE 0, ok |-> r.sb.ok]

(* serialize(): serdebuf_init, serdebuf_serialize(SERDE_ANY), finalize. *)
Encode(v) ==
  IF serde_type(v) = SERDE_INVALID
    THEN [err |-> EINVAL, f |-> << >>, len |-> 0, ok |-> TRUE]
    ELSE LET r == serdebuf_serialize(serdebuf_init(v), v, SERDE_ANY)
         IN  [err |-> r.err, f |-> IF r.err = 0 THEN r.sb.f ELSE << >>,
              len |-> IF r.err = 0 THEN SbSize(r.sb) ELSE 0, ok |-> r.sb.ok]
-----------------------------------------------------------------------------
(* The decoder.  A memcpy of w bytes at offset p reads a field only when *)
(* it lands on one of that width and meaning; anything else is garbage,  *)
(* which the model treats as a failed decode.                           *)

NoField == [w |-> -1, k |-> "none", v |-> UNINIT]

consume(f, p, w, k) ==
  LET I == {i \in DOMAIN f : f[i].w = w /\ f[i].k = k /\ Offset(f, i) = p}
  IN  IF I = {} THEN NoField ELSE f[CHOOSE i \in I : TRUE]

Failed == [p |-> 0, st |-> << >>, env |-> FALSE, err |-> TRUE]

(* The kind and width of the first payload item after each tag. *)
Payload ==
  [t \in SERDE_BOOLEAN..SERDE_LCLOSURE |->
     CASE t = SERDE_BOOLEAN -> [w |-> Width.bool, k |-> "bool"]
       [] t = SERDE_LIGHTUSERDATA -> [w |-> Width.ptr, k |-> "ptr"]
       [] t = SERDE_INTEGER -> [w |-> Width.int, k |-> "int"]
       [] t = SERDE_NUMBER -> [w |-> Width.num, k |-> "num"]
       [] t = SERDE_STRING -> [w |-> Width.size, k |-> "size"]
       [] t \in {SERDE_CCLOSURE, SERDE_LCLOSURE} ->
            [w |-> Width.count, k |-> "count"]]

(* A Lua closure as lua_load makes it: its first upvalue is the        *)
(* consumer's globals, the others nil.                                 *)
Loaded(code, size) ==
  [t |-> "lclosure", v |-> code.code, len |-> size,
   up |-> [i \in 1..code.nups |-> IF i = 1 THEN Globals ELSE Nil]]

RECURSIVE SetUps(_, _, _, _, _)

(* The loop of setupvalues: lua_pushvalue(idx++) then                  *)
(* lua_setupvalue(fidx, n), which pops the copy only when the closure  *)
(* has an upvalue n.                                                   *)
SetUps(st, fidx, idx, n, env) ==
  IF idx >= fidx THEN st
  ELSE IF n = 1 /\ env THEN SetUps(st, fidx, idx, n + 1, env)
  ELSE IF n <= Len(st[fidx].up)
    THEN SetUps([st EXCEPT ![fidx].up[n] = st[idx]], fidx, idx + 1, n + 1, env)
    ELSE SetUps(Append(st, st[idx]), fidx, idx + 1, n + 1, env)

(* Mutant: lua_insert(bottom) without the lua_settop(bottom). *)
setupvalues_keep(st, bottom, env) ==
  LET s == SetUps(st, Len(st), bottom, 1, env)
  IN  SubSeq(s, 1, bottom - 1) \o <<Last(s)>> \o SubSeq(s, bottom, Len(s) - 1)

(* setupvalues: bind, then lua_insert(bottom) and lua_settop(bottom),  *)
(* which keep whatever is on top of the stack at position bottom.      *)
setupvalues(st, bottom, env) ==
  LET s == SetUps(st, Len(st), bottom, 1, env)
  IN  Append(SubSeq(s, 1, bottom - 1), Last(s))

RECURSIVE loadsharedimpl(_, _, _, _), LoadUps(_, _, _, _, _)

(* The while loop of loadupvalues: count values, stopping at a failure. *)
LoadUps(f, p, st, env, n) ==
  IF n = 0 THEN [p |-> p, st |-> st, env |-> env, err |-> FALSE]
  ELSE LET r == loadsharedimpl(f, p, st, env)
       IN  IF r.err THEN r ELSE LoadUps(f, r.p, r.st, r.env, n - 1)

loadupvalues(f, p, st) ==
  LET count == consume(f, p, Width.count, "count").v
  IN  IF count = UNINIT THEN Failed
      ELSE LoadUps(f, p + Width.count, st, FALSE, count)

loadsharedimpl(f, p, st, env) ==
  LET tag == consume(f, p, Width.tag, "tag")
      type == tag.v
      q == p + Width.tag
      pay == consume(f, q, Payload[type].w, Payload[type].k)
      Push(x, w) == [p |-> q + w, st |-> Append(st, x), env |-> env,
                     err |-> FALSE]
      bottom == Len(st) + 1
      ups == loadupvalues(f, q, st)
      size == consume(f, ups.p, Width.size, "size").v
      code == consume(f, ups.p + Width.size, size, "code")
      fn == consume(f, ups.p, Width.fn, "fn")
      Closure(x, end) == [p |-> end, env |-> env, err |-> FALSE,
                          st |-> setupvalues(Append(ups.st, x), bottom, ups.env)]
  IN  CASE tag.k = "none" \/ type < 0 -> Failed
        [] type = SERDE_ENV -> [p |-> q, st |-> st, env |-> TRUE, err |-> FALSE]
        [] type = SERDE_NIL -> Push(Nil, 0)
        [] type > SERDE_LCLOSURE \/ pay.k = "none" -> Failed
        [] type = SERDE_BOOLEAN -> Push([t |-> "boolean", v |-> pay.v], pay.w)
        [] type = SERDE_LIGHTUSERDATA ->
             Push([t |-> "lightuserdata", v |-> pay.v], pay.w)
        [] type = SERDE_NUMBER -> Push([t |-> "number", v |-> pay.v], pay.w)
        [] type = SERDE_INTEGER -> Push([t |-> "integer", v |-> pay.v], pay.w)
        [] type = SERDE_STRING ->
             LET bytes == consume(f, q + pay.w, pay.v, "bytes")
             IN  IF bytes.k = "none" THEN Failed
                 ELSE Push([t |-> "string", v |-> bytes.v, len |-> pay.v],
                           pay.w + pay.v)
        [] ups.err -> Failed
        [] type = SERDE_LCLOSURE ->
             IF code.k = "none" THEN Failed   \* luaL_loadbufferx fails
             ELSE Closure(Loaded(code.v, size), ups.p + Width.size + size)
        [] type = SERDE_CCLOSURE ->
             IF fn.k = "none" THEN Failed
             ELSE Closure([t |-> "cclosure", v |-> fn.v, up |-> << >>],
                          ups.p + Width.fn)

(* loadshared: env starts uninitialized (envInit) and only           *)
(* loadsharedimpl's SERDE_ENV case sets it.                         *)
loadshared(f, envInit) ==
  LET r == loadsharedimpl(f, 0, << >>, envInit)
  IN  IF r.err \/ r.env
        THEN [ok |-> FALSE, v |-> Nil, p |-> 0, n |-> 0]
        ELSE [ok |-> TRUE, v |-> Last(r.st), p |-> r.p, n |-> Len(r.st)]

-----------------------------------------------------------------------------
(* The wire grammar of spec.md section 6, as a reference parser that    *)
(* knows nothing of the Lua stack: the offset just past the value at p, *)
(* or -1.  Every item must be one field of the stated width, and every  *)
(* length or count must match what follows it.                          *)

Item(f, p, w) ==
  LET I == {i \in DOMAIN f : f[i].w = w /\ Offset(f, i) = p}
  IN  IF I = {} THEN NoField ELSE f[CHOOSE i \in I : TRUE]

(* size_t length, length bytes *)
Blob(f, p) ==
  LET len == Item(f, p, 8)
  IN  IF len.k # "size" \/ Item(f, p + 8, len.v).k = "none"
        THEN -1 ELSE p + 8 + len.v

Fixed(f, p, w) == IF Item(f, p, w).k = "none" THEN -1 ELSE p + w

RECURSIVE WireValue(_, _), WireValues(_, _, _)

WireValues(f, p, n) ==
  IF n = 0 \/ p < 0 THEN p ELSE WireValues(f, WireValue(f, p), n - 1)

(* uint32 count, count * value *)
WireUpvalues(f, p) ==
  LET count == Item(f, p, 4)
  IN  IF count.k # "count" \/ count.v < 0 THEN -1
      ELSE WireValues(f, p + 4, count.v)

WireValue(f, p) ==
  LET tag == Item(f, p, 1)
      q == p + 1
      ups == WireUpvalues(f, q)
  IN  CASE tag.k # "tag" -> -1
        [] tag.v \in {SERDE_NIL, SERDE_ENV} -> q
        [] tag.v = SERDE_BOOLEAN -> Fixed(f, q, 1)
        [] tag.v \in {SERDE_LIGHTUSERDATA, SERDE_INTEGER, SERDE_NUMBER} ->
             Fixed(f, q, 8)
        [] tag.v = SERDE_STRING -> Blob(f, q)
        [] tag.v = SERDE_CCLOSURE -> IF ups < 0 THEN -1 ELSE Fixed(f, ups, 8)
        [] tag.v = SERDE_LCLOSURE -> IF ups < 0 THEN -1 ELSE Blob(f, ups)
        [] OTHER -> -1

(* spec.md section 8: the values the round-trip law covers. *)
Simple == {"nil", "boolean", "lightuserdata", "integer", "number", "string"}
Supported(v) ==
  \/ v.t \in Simple
  \/ /\ v.t \in {"lclosure", "cclosure"}
     /\ \A i \in DOMAIN v.up : v.up[i].name = "_ENV" \/ v.up[i].val.t \in Simple

(* What a consumer can observe of a value: a closure's upvalue values. *)
Observe(v) ==
  IF v.t \in {"lclosure", "cclosure"}
    THEN [v EXCEPT !.up = [i \in DOMAIN v.up |-> v.up[i].val]]
    ELSE v

-----------------------------------------------------------------------------
(* One value travels from a producer to a consumer: serialize() encodes *)
(* it, loadshared() decodes the buffer in another Lua state.            *)

VARIABLES
  val,          \* the producer's value
  phase,        \* "encode", "decode" or "done"
  wire,         \* serialize()'s result: err, fields, length, capacity kept
  out           \* loadshared()'s result: ok, value, offset reached, depth

vars == <<val, phase, wire, out>>

NoOut == [ok |-> FALSE, v |-> Nil, p |-> 0, n |-> 0]

TypeOK ==
  /\ val \in Inputs
  /\ phase \in {"encode", "decode", "done"}
  /\ wire.err \in {0, EINVAL} /\ wire.ok \in BOOLEAN /\ wire.len \in Nat
  /\ out.ok \in BOOLEAN /\ out.p \in Nat /\ out.n \in Nat

Init ==
  /\ val \in Inputs
  /\ phase = "encode"
  /\ wire = [err |-> 0, f |-> << >>, len |-> 0, ok |-> TRUE]
  /\ out = NoOut

Serialize ==
  /\ phase = "encode"
  /\ wire' = Encode(val)
  /\ phase' = IF wire'.err = 0 THEN "decode" ELSE "done"
  /\ UNCHANGED <<val, out>>

(* loadshared reads its uninitialized local env: either outcome. *)
Deserialize ==
  /\ phase = "decode"
  /\ \E envInit \in BOOLEAN : out' = loadshared(wire.f, envInit)
  /\ phase' = "done"
  /\ UNCHANGED <<val, wire>>

Done == phase = "done" /\ UNCHANGED vars

Next == Serialize \/ Deserialize \/ Done

Spec == Init /\ [][Next]_vars

-----------------------------------------------------------------------------
(* serdebuf_serialize and its backpatches (countp in                   *)
(* serdebuf_serialize_upvalues, sizep in serdebuf_dump) produce a      *)
(* buffer the wire grammar parses to exactly its length, across buffer *)
(* growths: every count and length prefix matches what follows it.    *)
WireWellFormed ==
  phase # "encode" /\ wire.err = 0 => WireValue(wire.f, 0) = wire.len

(* serdebuf_append's growth (doubling, raised to the need, rounded up) *)
(* always leaves room for the bytes mempcpy writes.                    *)
BufferBounded == wire.ok

(* serialize fails exactly on the values spec.md section 8 excludes:  *)
(* unsupported types and closures with function or table upvalues.    *)
EncodesExactlySupported ==
  phase # "encode" => (wire.err = 0 <=> Supported(val))

(* A successful loadshared returns the pointer just past the encoded  *)
(* value and leaves exactly one value on the consumer's stack.         *)
DecodeConsumes == out.ok => out.p = wire.len /\ out.n = 1

(* spec.md section 8, round-trip law: decoding what serialize produced  *)
(* succeeds (loadshared's env flag, the _ENV slot in setupvalues) and    *)
(* gives a value observationally equal to the encoded one.              *)
RoundTrip ==
  phase = "done" /\ wire.err = 0 => out.ok /\ out.v = Observe(val)
====
