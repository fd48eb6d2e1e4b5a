------------------------------ MODULE Sequence ------------------------------
(***************************************************************************)
(* ck.sequence (src/sequence.c): a reference-counted ck_sequence_t         *)
(* sequence lock, and the Lua program it is made for.  The Writer thread   *)
(* updates a datum of two words (say two shared.pr cells) between          *)
(* write_begin and write_end; every other thread copies both words         *)
(* between read_begin and read_retry and keeps the copy only when          *)
(* read_retry returns false.  ck_sequence itself is not in this            *)
(* repository; its operations follow ck_sequence.h: write_begin and        *)
(* write_end each store sequence + 1, read_begin waits for an even         *)
(* sequence and returns it, read_retry compares the sequence with the     *)
(* version.  The binding offers no writer lock: writers are serialized by *)
(* the program, here by having one.                                        *)
(***************************************************************************)
EXTENDS Naturals, FiniteSets

CONSTANTS
  Threads,
  Writer,       \* the one thread that writes
  Values,       \* what a word of the datum can hold
  Initial,      \* the datum the program starts with, a pair of Values
  MaxOps,       \* bound on read_begin and write_begin calls per thread
  Word,         \* 2^32: the range of the unsigned int sequence
  NULL

Readers == Threads \ {Writer}
Datums == Values \X Values

VARIABLES
  created,      \* new() has run
  refs,         \* rcsequence.refs
  handle,       \* thread -> it holds a userdata for the rcsequence
  released,     \* the rcsequence was freed
  sequence,     \* seqlock.sequence
  data,         \* the datum the program protects
  pc,           \* thread -> "idle" or "spin" (inside read_begin)
  phase,        \* thread -> where its program is: "none"; a reader
                \* "begun", "copied1", "copied2"; the writer "w0", "w1", "w2"
  version,      \* thread -> the version its read_begin returned
  copy,         \* thread -> the words it copied
  wval,         \* the datum the writer is writing
  got,          \* thread -> the datum its last validated read returned
  ops

vars == <<created, refs, handle, released, sequence, data, pc, phase,
          version, copy, wval, got, ops>>

TypeOK ==
  /\ created \in BOOLEAN /\ released \in BOOLEAN
  /\ refs \in 0..Cardinality(Threads)
  /\ handle \in [Threads -> BOOLEAN]
  /\ sequence \in 0..(Word - 1)
  /\ data \in Datums /\ wval \in Datums
  /\ pc \in [Threads -> {"idle", "spin"}]
  /\ phase \in [Threads -> {"none", "begun", "copied1", "copied2",
                            "w0", "w1", "w2"}]
  /\ version \in [Threads -> 0..(Word - 1)]
  /\ copy \in [Threads -> Datums]
  /\ got \in [Threads -> Datums \cup {NULL}]
  /\ ops \in [Threads -> 0..MaxOps]

Init ==
  /\ created = FALSE /\ refs = 0 /\ released = FALSE
  /\ handle = [t \in Threads |-> FALSE]
  /\ sequence = 0 /\ data = Initial /\ wval = Initial
  /\ pc = [t \in Threads |-> "idle"]
  /\ phase = [t \in Threads |-> "none"]
  /\ version = [t \in Threads |-> 0]
  /\ copy = [t \in Threads |-> Initial]
  /\ got = [t \in Threads |-> NULL]
  /\ ops = [t \in Threads |-> 0]

Set(f, t, x) == [f EXCEPT ![t] = x]

(* checkcookie on the thread's own userdata: a method call on a handle. *)
Call(t) == pc[t] = "idle" /\ handle[t]

(* A call the ops bound counts. *)
Counted(t) == ops[t] < MaxOps /\ ops' = Set(ops, t, ops[t] + 1)

-----------------------------------------------------------------------------
(* new, retain, __gc *)

(* l_ck_sequence_new: malloc, ck_sequence_init (sequence = 0),          *)
(* refcount_init, and a userdata holding the cookie.                    *)
New(t) ==
  /\ ~created /\ pc[t] = "idle"
  /\ created' = TRUE /\ refs' = 1
  /\ handle' = Set(handle, t, TRUE)
  /\ UNCHANGED <<released, sequence, data, pc, phase, version, copy, wval,
                 got, ops>>

(* l_ck_sequence_retain: refcount_retain through a cookie another       *)
(* holder passed over, and a new userdata for it.                       *)
Retain(t) ==
  /\ pc[t] = "idle" /\ ~handle[t]
  /\ \E u \in Threads : handle[u]
  /\ refs' = refs + 1
  /\ handle' = Set(handle, t, TRUE)
  /\ UNCHANGED <<created, released, sequence, data, pc, phase, version,
                 copy, wval, got, ops>>

(* l_ck_sequence_gc, run by the collector once the program has dropped  *)
(* the userdata (after its last read or write): refcount_release, and   *)
(* the last one frees the rcsequence.                                   *)
Release(t) ==
  /\ Call(t) /\ phase[t] = "none"
  /\ refs' = refs - 1
  /\ handle' = Set(handle, t, FALSE)
  /\ released' = (refs = 1)
  /\ UNCHANGED <<created, sequence, data, pc, phase, version, copy, wval,
                 got, ops>>

-----------------------------------------------------------------------------
(* Readers *)

(* l_ck_sequence_read_begin: checkcookie, then ck_sequence_read_begin. *)
ReadBegin(t) ==
  /\ t \in Readers /\ Call(t) /\ phase[t] = "none" /\ Counted(t)
  /\ pc' = Set(pc, t, "spin")
  /\ UNCHANGED <<created, refs, handle, released, sequence, data, phase,
                 version, copy, wval, got>>

(* ck_sequence_read_begin: load the sequence until it is even, then a   *)
(* load fence; the binding pushes it with lua_pushinteger.              *)
ReadBeginLoad(t) ==
  /\ pc[t] = "spin" /\ sequence % 2 = 0
  /\ version' = Set(version, t, sequence)
  /\ pc' = Set(pc, t, "idle")
  /\ phase' = Set(phase, t, "begun")
  /\ UNCHANGED <<created, refs, handle, released, sequence, data, copy,
                 wval, got, ops>>

(* The program copies the first word, then the second. *)
CopyWord(t) ==
  /\ phase[t] \in {"begun", "copied1"} /\ pc[t] = "idle"
  /\ LET i == IF phase[t] = "begun" THEN 1 ELSE 2
     IN  /\ copy' = Set(copy, t, [copy[t] EXCEPT ![i] = data[i]])
         /\ phase' = Set(phase, t, IF i = 1 THEN "copied1" ELSE "copied2")
  /\ UNCHANGED <<created, refs, handle, released, sequence, data, pc,
                 version, wval, got, ops>>

(* Mutant: read_retry that only asks whether a write is in progress    *)
(* (an odd sequence), not whether one happened since read_begin.        *)
ReadRetryParity(t) ==
  /\ Call(t) /\ phase[t] = "copied2"
  /\ got' = IF sequence % 2 = 1 THEN got ELSE Set(got, t, copy[t])
  /\ phase' = Set(phase, t, "none")
  /\ UNCHANGED <<created, refs, handle, released, sequence, data, pc,
                 version, copy, wval, ops>>

(* l_ck_sequence_read_retry: luaL_checkinteger turns the version back   *)
(* into an unsigned int, ck_sequence_read_retry (a load fence, then     *)
(* sequence != version), and lua_pushboolean.  The program keeps its    *)
(* copy when that is false and starts over when it is true.             *)
ReadRetry(t) ==
  /\ Call(t) /\ phase[t] = "copied2"
  /\ got' = IF sequence # version[t] % Word THEN got
            ELSE Set(got, t, copy[t])
  /\ phase' = Set(phase, t, "none")
  /\ UNCHANGED <<created, refs, handle, released, sequence, data, pc,
                 version, copy, wval, ops>>

-----------------------------------------------------------------------------
(* The writer *)

(* l_ck_sequence_write_begin: ck_sequence_write_begin stores sequence   *)
(* + 1 (odd) and issues a store fence; the program then has datum d to  *)
(* write.                                                               *)
WriteBegin(t, d) ==
  /\ t = Writer /\ Call(t) /\ phase[t] = "none" /\ Counted(t)
  /\ sequence' = (sequence + 1) % Word
  /\ wval' = d
  /\ phase' = Set(phase, t, "w0")
  /\ UNCHANGED <<created, refs, handle, released, data, pc, version, copy,
                 got>>

(* The program stores the first word, then the second. *)
StoreWord(t) ==
  /\ phase[t] \in {"w0", "w1"}
  /\ LET i == IF phase[t] = "w0" THEN 1 ELSE 2
     IN  /\ data' = [data EXCEPT ![i] = wval[i]]
         /\ phase' = Set(phase, t, IF i = 1 THEN "w1" ELSE "w2")
  /\ UNCHANGED <<created, refs, handle, released, sequence, pc, version,
                 copy, wval, got, ops>>

(* Mutant: write_end that leaves the sequence odd. *)
WriteEndNoStore(t) ==
  /\ Call(t) /\ phase[t] = "w2"
  /\ phase' = Set(phase, t, "none")
  /\ UNCHANGED <<created, refs, handle, released, sequence, data, pc,
                 version, copy, wval, got, ops>>

(* l_ck_sequence_write_end: ck_sequence_write_end issues a store fence  *)
(* and stores sequence + 1 (even again).                                *)
WriteEnd(t) ==
  /\ Call(t) /\ phase[t] = "w2"
  /\ sequence' = (sequence + 1) % Word
  /\ phase' = Set(phase, t, "none")
  /\ UNCHANGED <<created, refs, handle, released, data, pc, version, copy,
                 wval, got, ops>>

-----------------------------------------------------------------------------

(* The steps a thread takes once it has begun a read or a write. *)
Step(t) ==
  \/ ReadBeginLoad(t) \/ CopyWord(t) \/ ReadRetry(t)
  \/ StoreWord(t) \/ WriteEnd(t)

(* Every handle has been collected: nothing more can happen. *)
Quiescent ==
  /\ created /\ \A t \in Threads : ~handle[t]
  /\ UNCHANGED vars

Next ==
  \/ \E t \in Threads :
       \/ New(t) \/ Retain(t) \/ Release(t)
       \/ ReadBegin(t) \/ \E d \in Datums : WriteBegin(t, d)
       \/ Step(t)
  \/ Quiescent

(* Each OS thread keeps running a call it has begun, and the writer's  *)
(* program runs its write section to write_end: it has no error path   *)
(* between the two calls.                                               *)
Spec == Init /\ [][Next]_vars /\ \A t \in Threads : WF_vars(Step(t))

-----------------------------------------------------------------------------
(* Properties *)

(* The datum a read that starts now and validates would be promised:  *)
(* the writer's new datum from write_begin on, the stored one before.  *)
Committed ==
  IF phase[Writer] \in {"w0", "w1", "w2"} THEN wval ELSE data

Reg == INSTANCE AtomicRegister WITH
         Datums <- Datums, None <- NULL, reg <- Committed, read <- got

(* Validated reads are atomic: the pair of sequence stores around a    *)
(* write, the even wait in read_begin and the comparison in read_retry *)
(* (with the version's round trip through a Lua integer) let a copy    *)
(* through only when it is the datum of one instant, never a torn mix  *)
(* of two writes.  Writes linearize at write_begin, reads at a         *)
(* read_retry that returns false.                                      *)
SeqRegister == Reg!RSpec

(* Every read_begin returns: a reader waiting for an even sequence is  *)
(* let go by the writer's write_end.                                    *)
ReadersReturn == \A t \in Readers : []<>(pc[t] = "idle")
====
