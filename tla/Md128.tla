------------------------------- MODULE Md128 -------------------------------
(***************************************************************************)
(* ck.shared.pr.md128 (src/serdebuf.c): a reference-counted 16-byte value   *)
(* (struct rcsharedpr128: a union of typed arrays, then refs) read and      *)
(* written through typed views.  value.u32 is a view of four 4-byte         *)
(* elements; value.u32:load() and :cas() act on the whole value, and        *)
(* value.u32[i]:store(x), :load(), :add(x) ... on element i.  The model     *)
(* keeps, of the bytes, only which of the 16 have been written since        *)
(* aligned_alloc and whether an access has reached past them (onto refs).   *)
(* Every element operation is one ck_pr atomic, so threads interleave      *)
(* only between calls.                                                      *)
(***************************************************************************)
EXTENDS Naturals, FiniteSets

CONSTANTS
  Threads,
  ViewNames,    \* the views the program uses, a subset of DOMAIN Width
  Args,         \* the argument forms the program passes to new()
  MaxOps        \* bound on the view operations of a thread

(* SERDE_PR128_*: each view's element size in bytes; it has 16 \div w   *)
(* elements, so that the views cover the 16 bytes exactly.              *)
Width == [u8 |-> 1, u16 |-> 2, u32 |-> 4, u64 |-> 8,
          c |-> 1, d |-> 8, i |-> 4, p |-> 8, u |-> 4]

Value == 0..15

Elements(v) == 16 \div Width[v]

(* The bytes of element i of view v: p = &sharedp->NAME[i]. *)
ElemBytes(v, i) == {i * Width[v] + k : k \in 0..(Width[v] - 1)}

VARIABLES
  created,      \* new() has run
  refs,         \* sharedp->refs
  handle,       \* thread -> it holds a live userdata
  released,     \* the rcsharedpr128 was freed
  written,      \* the bytes of the value written since aligned_alloc
  wild,         \* an access reached past the 16 bytes
  garbage,      \* a load or compare read a byte never written
  ops

vars == <<created, refs, handle, released, written, wild, garbage, ops>>

TypeOK ==
  /\ created \in BOOLEAN /\ released \in BOOLEAN
  /\ refs \in 0..Cardinality(Threads)
  /\ handle \in [Threads -> BOOLEAN]
  /\ written \subseteq Value
  /\ wild \in BOOLEAN /\ garbage \in BOOLEAN
  /\ ops \in [Threads -> 0..MaxOps]

Init ==
  /\ created = FALSE /\ refs = 0 /\ released = FALSE
  /\ handle = [t \in Threads |-> FALSE]
  /\ written = {} /\ wild = FALSE /\ garbage = FALSE
  /\ ops = [t \in Threads |-> 0]

Set(f, t, x) == [f EXCEPT ![t] = x]

(* A method call on a live handle: checkcookie on the value the view   *)
(* table holds at MD128_VALUE.                                          *)
Call(t) ==
  /\ handle[t] /\ ops[t] < MaxOps
  /\ ops' = Set(ops, t, ops[t] + 1)

(* A read of bytes B: any of them never written is garbage. *)
Read(B) == garbage' = (garbage \/ (B \cap Value) \ written # {})

(* A write of bytes B: those past the value land on refs. *)
Write(B) == written' = written \cup (B \cap Value)

Touch(B) == wild' = (wild \/ ~(B \subseteq Value))

-----------------------------------------------------------------------------
(* The bytes new() writes after aligned_alloc, by argument form:        *)
(*  "none"    nil or no argument: n = 0, nothing is written;             *)
(*  "string"  memcpy and a zero fill of the rest (when the stray index   *)
(*            luaL_checklstring is given names the argument; otherwise   *)
(*            it raises before aligned_alloc and nothing happens);       *)
(*  "numbers" a table of 2, 4, 8 or 16 integers, or of 2 floats: every   *)
(*            element, so all 16 bytes;                                  *)
(*  "ptrs"    a table of 2 lightuserdata: accepted as                    *)
(*            LUA_TLIGHTUSERDATA, but the fill loop only stores under    *)
(*            case LUA_TUSERDATA, so nothing is written.                 *)
NewWritten(arg) ==
  CASE arg \in {"none", "ptrs"} -> {}
    [] arg \in {"string", "numbers"} -> Value

(* l_ck_shared_pr_md128_new: check the argument, aligned_alloc, fill,    *)
(* refcount_init, and a userdata holding the cookie.                     *)
New(t, arg) ==
  /\ ~created
  /\ created' = TRUE /\ refs' = 1
  /\ handle' = Set(handle, t, TRUE)
  /\ written' = NewWritten(arg)
  /\ UNCHANGED <<released, wild, garbage, ops>>

(* l_ck_shared_pr_md128_retain: refcount_retain through a cookie another *)
(* holder passed over, and a new userdata.                               *)
Retain(t) ==
  /\ ~handle[t] /\ \E u \in Threads : handle[u]
  /\ refs' = refs + 1
  /\ handle' = Set(handle, t, TRUE)
  /\ UNCHANGED <<created, released, written, wild, garbage, ops>>

(* l_ck_shared_pr_md128_gc: refcount_release, free on the last, and     *)
(* invalidate the cookie.                                                *)
Release(t) ==
  /\ handle[t]
  /\ refs' = refs - 1
  /\ handle' = Set(handle, t, FALSE)
  /\ released' = (refs = 1)
  /\ UNCHANGED <<created, written, wild, garbage, ops>>

(* A whole-view operation, value.v:op(...) (l_ck_shared_pr_md128_index   *)
(* gives the view table): load reads all 16 bytes (ck_pr_md_load_64_2    *)
(* and the like); cas and cas_value compare all 16 and, when equal,      *)
(* write all 16.                                                         *)
ViewOp(t, op) ==
  /\ Call(t)
  /\ Read(Value)
  /\ \E equal \in BOOLEAN :
       written' = IF op \in {"cas", "cas_value"} /\ equal THEN Value
                  ELSE written
  /\ UNCHANGED <<created, refs, handle, released, wild>>

(* An element operation, value.v[i]:op(...): luaL_argcheck(i > 0 &&     *)
(* i <= N), then the ck_pr operation on sharedp->NAME[i].  load reads   *)
(* the element, store writes it, a read-modify-write (add, faa, cas,    *)
(* inc, ...) does both.                                                 *)
ElemOp(t, v, i, op) ==
  /\ Call(t)
  /\ 0 < i /\ i <= Elements(v)
  /\ LET B == ElemBytes(v, i)
     IN  /\ Touch(B)
         /\ IF op = "store" THEN UNCHANGED garbage ELSE Read(B)
         /\ IF op = "load" THEN UNCHANGED written ELSE Write(B)
  /\ UNCHANGED <<created, refs, handle, released>>

Next ==
  \E t \in Threads :
    \/ \E arg \in Args : New(t, arg)
    \/ Retain(t) \/ Release(t)
    \/ \E v \in ViewNames :
         \/ \E op \in {"load", "cas", "cas_value"} : ViewOp(t, op)
         \/ \E i \in 1..Elements(v), op \in {"load", "store", "add"} :
              ElemOp(t, v, i, op)

Spec == Init /\ [][Next]_vars

-----------------------------------------------------------------------------
(* Properties *)

(* No md128 operation reads or writes past the 16 bytes of the value,   *)
(* and none reads a byte that new() or a store has not written: the     *)
(* element pointer of every element handler, and the fill of new.      *)
MemorySafe == ~wild /\ ~garbage
====
