-------------------------------- MODULE Ring --------------------------------
(***************************************************************************)
(* ck.ring (src/ring.c): a reference-counted ck_ring of pointers to        *)
(* serialized buffers, in four variants.  enqueue serializes a value into  *)
(* a fresh buffer and hands the pointer to ck_ring_enqueue_*_size, freeing *)
(* it when the ring is full; dequeue takes a pointer out, loadshared()s it *)
(* and frees it.  The last __gc frees the ring and its slot array.         *)
(*                                                                         *)
(* ck_ring itself is not in this repository: its producer and consumer    *)
(* steps are modelled from ck's ck_ring.h (a single-producer enqueue is    *)
(* one step; a multi-producer one reserves p_head by CAS, writes its slot  *)
(* and waits for p_tail to publish; a multi-consumer dequeue reads its     *)
(* slot and then claims it by CAS on c_head).  Buffers are abstracted to   *)
(* ids: their contents are SerdeCodec's subject.                           *)
(***************************************************************************)
EXTENDS Naturals, FiniteSets, Bitwise

CONSTANTS
  Threads,          \* OS threads, each running a Lua state
  Variants,         \* the metatables new() may be called through
  Size,             \* the size argument of new()
  MaxBuffers,       \* bound on the buffers serialized
  MaxOps,           \* bound on enqueue/dequeue calls per thread
  SingleProducer,   \* the one thread that enqueues on an sp ring
  SingleConsumer,   \* the one thread that dequeues on an sc ring
  Word,             \* 2^w for the w-bit unsigned int of ck_ring's counters
  NULL

Buffers == 1..MaxBuffers

(* The ring variants by their producer and consumer sides. *)
SP == {"spsc", "spmc"}
MP == {"mpmc", "mpsc"}
SC == {"spsc", "mpsc"}
MC == {"mpmc", "spmc"}

(* ck_ring_init: ring->size = size, ring->mask = size - 1 (unsigned). *)
Mask == (Size - 1) % Word

VARIABLES
  variant,      \* the metatable of the ring, or "none" before new()
  refs,         \* rcring.refs
  handle,       \* thread -> it holds a userdata whose cookie is the ring
  released,     \* the last release freed the rcring and its slot array
  p_head,       \* ck_ring: producer reservation counter (mp)
  p_tail,       \* ck_ring: published producer counter
  c_head,       \* ck_ring: consumer counter
  slot,         \* the ck_ring_buffer_t array: index -> buffer
  nbuf,         \* buffers serialized so far
  frees,        \* buffer -> number of times it was freed
  pc,           \* thread -> where its current call is
  lp,           \* thread -> its local producer counter
  lc,           \* thread -> its local consumer counter
  lv,           \* thread -> the buffer it holds (v)
  res,          \* thread -> the buffer its last dequeue returned
  ops           \* thread -> calls made

vars == <<variant, refs, handle, released, p_head, p_tail, c_head, slot,
          nbuf, frees, pc, lp, lc, lv, res, ops>>

PCs == {"idle", "mp_check", "mp_cas", "mp_full", "mp_wait",
        "mc_load", "mc_cas", "try_load", "try_cas"}

TypeOK ==
  /\ variant \in Variants \cup {"none"}
  /\ refs \in 0..Cardinality(Threads)
  /\ handle \in [Threads -> BOOLEAN]
  /\ released \in BOOLEAN
  /\ {p_head, p_tail, c_head} \subseteq Nat
  /\ slot \in [0..Mask -> Buffers \cup {NULL}]
  /\ nbuf \in 0..MaxBuffers
  /\ frees \in [Buffers -> Nat]
  /\ pc \in [Threads -> PCs]
  /\ lp \in [Threads -> Nat] /\ lc \in [Threads -> Nat]
  /\ lv \in [Threads -> Buffers \cup {NULL}]
  /\ res \in [Threads -> Buffers \cup {NULL}]
  /\ ops \in [Threads -> 0..MaxOps]

Init ==
  /\ variant = "none"
  /\ refs = 0
  /\ handle = [t \in Threads |-> FALSE]
  /\ released = FALSE
  /\ p_head = 0 /\ p_tail = 0 /\ c_head = 0
  /\ slot = [i \in 0..Mask |-> NULL]
  /\ nbuf = 0
  /\ frees = [b \in Buffers |-> 0]
  /\ pc = [t \in Threads |-> "idle"]
  /\ lp = [t \in Threads |-> 0] /\ lc = [t \in Threads |-> 0]
  /\ lv = [t \in Threads |-> NULL]
  /\ res = [t \in Threads |-> NULL]
  /\ ops = [t \in Threads |-> 0]

Free(b) == frees' = [frees EXCEPT ![b] = @ + 1]

(* A call through checkcookie: the thread holds a live handle. *)
Call(t) ==
  /\ pc[t] = "idle" /\ handle[t]
  /\ ops[t] < MaxOps
  /\ ops' = [ops EXCEPT ![t] = @ + 1]

(* serdebuf_init, serdebuf_serialize, serdebuf_finalize: a new buffer. *)
Serialized(b) == nbuf < MaxBuffers /\ b = nbuf + 1 /\ nbuf' = b

Goto(t, to) == pc' = [pc EXCEPT ![t] = to]

-----------------------------------------------------------------------------
(* new, retain, __gc *)

(* newring: malloc the rcring, ck_ring_init, malloc the slot array,    *)
(* refcount_init, and a userdata holding the cookie.                   *)
New(t, m) ==
  /\ variant = "none" /\ pc[t] = "idle"
  /\ variant' = m
  /\ refs' = 1
  /\ handle' = [handle EXCEPT ![t] = TRUE]
  /\ UNCHANGED <<released, p_head, p_tail, c_head, slot, nbuf, frees,
                 pc, lp, lc, lv, res, ops>>

(* retainring: refcount_retain through a cookie another holder passed. *)
Retain(t) ==
  /\ pc[t] = "idle" /\ ~handle[t]
  /\ \E u \in Threads : handle[u]
  /\ refs' = refs + 1
  /\ handle' = [handle EXCEPT ![t] = TRUE]
  /\ UNCHANGED <<variant, released, p_head, p_tail, c_head, slot, nbuf,
                 frees, pc, lp, lc, lv, res, ops>>

(* Mutant: releasering without the invalidate of the cookie. *)
ReleaseNoInvalidate(t) ==
  /\ pc[t] = "idle" /\ handle[t]
  /\ refs' = refs - 1
  /\ released' = (refs = 1)
  /\ UNCHANGED <<variant, handle, p_head, p_tail, c_head, slot, nbuf,
                 frees, pc, lp, lc, lv, res, ops>>

(* releasering: refcount_release; the last one frees ringp->buffer and *)
(* ringp, not the buffers still queued; then invalidate.              *)
Release(t) ==
  /\ pc[t] = "idle" /\ handle[t]
  /\ refs' = refs - 1
  /\ released' = (refs = 1)
  /\ handle' = [handle EXCEPT ![t] = FALSE]
  /\ UNCHANGED <<variant, p_head, p_tail, c_head, slot, nbuf, frees,
                 pc, lp, lc, lv, res, ops>>

-----------------------------------------------------------------------------
(* enqueue *)

(* _ck_ring_enqueue_sp: full when (producer + 1) & mask equals         *)
(* consumer & mask; otherwise write slot producer & mask and publish   *)
(* p_tail.  The caller frees the buffer when the ring is full.         *)
EnqueueSP(t) ==
  /\ variant \in SP /\ t = SingleProducer
  /\ Call(t)
  /\ \E b \in Buffers :
       /\ Serialized(b)
       /\ IF ((p_tail + 1) & Mask) = (c_head & Mask)
            THEN /\ Free(b)
                 /\ UNCHANGED <<p_tail, slot>>
            ELSE /\ slot' = [slot EXCEPT ![p_tail & Mask] = b]
                 /\ p_tail' = p_tail + 1
                 /\ UNCHANGED frees
  /\ UNCHANGED <<variant, refs, handle, released, p_head, c_head, pc, lp,
                 lc, lv, res>>

(* _ck_ring_enqueue_mp: producer = p_head, then the retry loop. *)
EnqueueMP(t) ==
  /\ variant \in MP
  /\ Call(t)
  /\ \E b \in Buffers :
       Serialized(b) /\ lv' = [lv EXCEPT ![t] = b]
  /\ lp' = [lp EXCEPT ![t] = p_head]
  /\ Goto(t, "mp_check")
  /\ UNCHANGED <<variant, refs, handle, released, p_head, p_tail, c_head,
                 slot, frees, lc, res>>

(* consumer = c_head; room when producer - consumer < mask (unsigned). *)
MPCheck(t) ==
  /\ pc[t] = "mp_check"
  /\ lc' = [lc EXCEPT ![t] = c_head]
  /\ Goto(t, IF (lp[t] - c_head) % Word < Mask THEN "mp_cas" ELSE "mp_full")
  /\ UNCHANGED <<variant, refs, handle, released, p_head, p_tail, c_head,
                 slot, nbuf, frees, lp, lv, res, ops>>

(* ck_pr_cas_uint_value(&p_head, producer, producer + 1, &producer);   *)
(* on success the memcpy into slot producer & mask.                   *)
MPCas(t) ==
  /\ pc[t] = "mp_cas"
  /\ IF p_head = lp[t]
       THEN /\ p_head' = p_head + 1
            /\ slot' = [slot EXCEPT ![lp[t] & Mask] = lv[t]]
            /\ Goto(t, "mp_wait")
            /\ UNCHANGED lp
       ELSE /\ lp' = [lp EXCEPT ![t] = p_head]
            /\ Goto(t, "mp_check")
            /\ UNCHANGED <<p_head, slot>>
  /\ UNCHANGED <<variant, refs, handle, released, p_tail, c_head, nbuf,
                 frees, lc, lv, res, ops>>

(* Full: re-read p_head; unchanged means fail (the caller frees v),   *)
(* otherwise retry with the new producer.                             *)
MPFull(t) ==
  /\ pc[t] = "mp_full"
  /\ IF p_head = lp[t]
       THEN /\ Free(lv[t])
            /\ lv' = [lv EXCEPT ![t] = NULL]
            /\ Goto(t, "idle")
            /\ UNCHANGED lp
       ELSE /\ lp' = [lp EXCEPT ![t] = p_head]
            /\ Goto(t, "mp_check")
            /\ UNCHANGED <<frees, lv>>
  /\ UNCHANGED <<variant, refs, handle, released, p_head, p_tail, c_head,
                 slot, nbuf, lc, res, ops>>

(* Mutant: store p_tail = producer + 1 without waiting for p_tail. *)
MPPublishNoWait(t) ==
  /\ pc[t] = "mp_wait"
  /\ p_tail' = lp[t] + 1
  /\ lv' = [lv EXCEPT ![t] = NULL]
  /\ Goto(t, "idle")
  /\ UNCHANGED <<variant, refs, handle, released, p_head, c_head, slot,
                 nbuf, frees, lp, lc, res, ops>>

(* Wait until p_tail = producer, then publish producer + 1. *)
MPPublish(t) ==
  /\ pc[t] = "mp_wait"
  /\ p_tail = lp[t]
  /\ p_tail' = p_tail + 1
  /\ lv' = [lv EXCEPT ![t] = NULL]
  /\ Goto(t, "idle")
  /\ UNCHANGED <<variant, refs, handle, released, p_head, c_head, slot,
                 nbuf, frees, lp, lc, res, ops>>

-----------------------------------------------------------------------------
(* dequeue *)

(* Mutant: the slot is copied and freed but c_head is not stored. *)
DequeueSCNoStore(t) ==
  /\ variant \in SC /\ t = SingleConsumer
  /\ Call(t)
  /\ IF c_head = p_tail
       THEN UNCHANGED <<frees, res>>
       ELSE LET b == slot[c_head & Mask] IN
            /\ Free(b)
            /\ res' = [res EXCEPT ![t] = b]
  /\ UNCHANGED <<variant, refs, handle, released, p_head, p_tail, c_head,
                 slot, nbuf, pc, lp, lc, lv>>

(* _ck_ring_dequeue_sc: empty when c_head = p_tail; otherwise copy the *)
(* slot and store c_head + 1.  The caller loadshared()s and frees it.  *)
DequeueSC(t) ==
  /\ variant \in SC /\ t = SingleConsumer
  /\ Call(t)
  /\ IF c_head = p_tail
       THEN UNCHANGED <<c_head, frees, res>>
       ELSE LET b == slot[c_head & Mask] IN
            /\ c_head' = c_head + 1
            /\ Free(b)
            /\ res' = [res EXCEPT ![t] = b]
  /\ UNCHANGED <<variant, refs, handle, released, p_head, p_tail, slot,
                 nbuf, pc, lp, lc, lv>>

(* _ck_ring_dequeue_mc and _ck_ring_trydequeue_mc: consumer = c_head. *)
DequeueMC(t, kind) ==
  /\ variant \in MC
  /\ Call(t)
  /\ lc' = [lc EXCEPT ![t] = c_head]
  /\ Goto(t, kind)
  /\ UNCHANGED <<variant, refs, handle, released, p_head, p_tail, c_head,
                 slot, nbuf, frees, lp, lv, res>>

(* producer = p_tail; empty when consumer = producer, else copy slot   *)
(* consumer & mask into v.                                             *)
MCLoad(t) ==
  /\ pc[t] \in {"mc_load", "try_load"}
  /\ IF lc[t] = p_tail
       THEN /\ Goto(t, "idle")
            /\ UNCHANGED lv
       ELSE /\ lv' = [lv EXCEPT ![t] = slot[lc[t] & Mask]]
            /\ Goto(t, IF pc[t] = "mc_load" THEN "mc_cas" ELSE "try_cas")
  /\ UNCHANGED <<variant, refs, handle, released, p_head, p_tail, c_head,
                 slot, nbuf, frees, lp, lc, res, ops>>

(* Mutants: a plain store of c_head = consumer + 1 instead of the CAS; *)
(* and a CAS that does not give back the current c_head on failure.   *)
MCCasStore(t) ==
  /\ pc[t] \in {"mc_cas", "try_cas"}
  /\ c_head' = lc[t] + 1
  /\ Free(lv[t])
  /\ res' = [res EXCEPT ![t] = lv[t]]
  /\ Goto(t, "idle")
  /\ lv' = [lv EXCEPT ![t] = NULL]
  /\ UNCHANGED <<variant, refs, handle, released, p_head, p_tail, slot,
                 nbuf, lp, lc, ops>>

MCCasNoReload(t) ==
  /\ pc[t] \in {"mc_cas", "try_cas"}
  /\ IF c_head = lc[t]
       THEN /\ c_head' = c_head + 1
            /\ Free(lv[t])
            /\ res' = [res EXCEPT ![t] = lv[t]]
            /\ Goto(t, "idle")
       ELSE /\ Goto(t, IF pc[t] = "mc_cas" THEN "mc_load" ELSE "idle")
            /\ UNCHANGED <<c_head, frees, res>>
  /\ lv' = [lv EXCEPT ![t] = NULL]
  /\ UNCHANGED <<variant, refs, handle, released, p_head, p_tail, slot,
                 nbuf, lp, lc, ops>>

(* ck_pr_cas_uint_value(&c_head, consumer, consumer + 1, &consumer):  *)
(* on success the caller frees v; on failure dequeue retries with the *)
(* new consumer and trydequeue returns false.                         *)
MCCas(t) ==
  /\ pc[t] \in {"mc_cas", "try_cas"}
  /\ IF c_head = lc[t]
       THEN /\ c_head' = c_head + 1
            /\ Free(lv[t])
            /\ res' = [res EXCEPT ![t] = lv[t]]
            /\ Goto(t, "idle")
            /\ UNCHANGED lc
       ELSE /\ lc' = [lc EXCEPT ![t] = c_head]
            /\ Goto(t, IF pc[t] = "mc_cas" THEN "mc_load" ELSE "idle")
            /\ UNCHANGED <<c_head, frees, res>>
  /\ lv' = [lv EXCEPT ![t] = NULL]
  /\ UNCHANGED <<variant, refs, handle, released, p_head, p_tail, slot,
                 nbuf, lp, ops>>

-----------------------------------------------------------------------------

(* The steps of a call already under way. *)
Step(t) ==
  \/ MPCheck(t) \/ MPCas(t) \/ MPFull(t) \/ MPPublish(t)
  \/ MCLoad(t) \/ MCCas(t)

(* Every handle has been collected: nothing more can happen. *)
Quiescent ==
  /\ variant # "none"
  /\ \A t \in Threads : ~handle[t] /\ pc[t] = "idle"
  /\ UNCHANGED vars

Next ==
  \/ \E t \in Threads :
       \/ \E m \in Variants : New(t, m)
       \/ Retain(t) \/ Release(t)
       \/ EnqueueSP(t) \/ EnqueueMP(t) \/ DequeueSC(t)
       \/ DequeueMC(t, "mc_load") \/ DequeueMC(t, "try_load")
       \/ Step(t)
  \/ Quiescent

(* Each OS thread keeps running a call it has begun. *)
Spec == Init /\ [][Next]_vars /\ \A t \in Threads : WF_vars(Step(t))

-----------------------------------------------------------------------------
(* Properties *)

(* The buffers published and not yet consumed, oldest first. *)
Window == c_head..(p_tail - 1)
Queued == [i \in 1..(p_tail - c_head) |-> slot[(c_head + i - 1) & Mask]]

(* A buffer a producer holds between serializing and publishing it. *)
InFlight(b) == \E t \in Threads :
                 lv[t] = b /\ pc[t] \in {"mp_check", "mp_cas", "mp_full", "mp_wait"}

(* No buffer is freed twice: a dequeue frees the buffer it took out, a *)
(* failed enqueue frees the one it made; no slot is handed to two      *)
(* dequeuers and no buffer is freed after it was queued and lost.      *)
FreedOnce == \A b \in Buffers : frees[b] <= 1

(* While the ring is live, every buffer serialized so far is exactly   *)
(* one of: freed, published once in the window, or held by the         *)
(* producer that is enqueueing it.  A slot overwritten before it is    *)
(* consumed, or a consumer freeing a slot it did not claim, breaks it. *)
BuffersAccounted ==
  ~released =>
    \A b \in 1..nbuf :
      LET copies == Cardinality({i \in Window : slot[i & Mask] = b}) IN
      (frees[b] = 1 /\ copies = 0 /\ ~InFlight(b))
      \/ (frees[b] = 0 /\ copies + (IF InFlight(b) THEN 1 ELSE 0) = 1)

(* Every enqueue, dequeue and trydequeue call returns: the MP publish  *)
(* spin and the CAS retry loops do not wait forever.                   *)
(* (pc # "idle" ~> pc = "idle", written as the equivalent []<>.)       *)
HandlersReturn == \A t \in Threads : []<>(pc[t] = "idle")

(* The ring implements a bounded FIFO of capacity size - 1: enqueue    *)
(* takes effect when p_tail is published, a dequeue when c_head moves. *)
BQ == INSTANCE BoundedQueue WITH
        Cap <- Mask, Values <- Buffers, None <- NULL,
        queue <- Queued, got <- res
RingQueue == BQ!QSpec

====
