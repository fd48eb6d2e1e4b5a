-------------------------------- MODULE Fifo --------------------------------
(***************************************************************************)
(* ck.fifo (src/serdebuf.c): a reference-counted ck_fifo of serialized    *)
(* buffers, in two variants.  enqueue serializes a value into a buffer,   *)
(* gets a list entry (spsc: recycled or malloc'd; mpmc: malloc'd) and     *)
(* links it at the tail; dequeue takes the value of the entry after the   *)
(* head, loadshared()s and frees it; mpmc dequeue also frees the entries  *)
(* ck hands back as garbage.  The last __gc walks the list from where     *)
(* ck_fifo_*_deinit says it starts and frees every entry.                 *)
(*                                                                         *)
(* ck_fifo itself is not in this repository: its steps are modelled from  *)
(* ck's ck_fifo.h.  spsc is a list with a stub, a head the consumer       *)
(* stores, a tail the producer stores, and a garbage/head_snapshot pair   *)
(* the producer recycles entries from.  mpmc is the Michael-Scott queue   *)
(* with {pointer, generation} pairs on head, tail and every next.         *)
(* Entries are ids; a freed entry keeps its contents and its id is never  *)
(* handed out again, and uaf records any access to a freed entry.         *)
(***************************************************************************)
EXTENDS Naturals, Sequences, FiniteSets

CONSTANTS
  Threads,          \* OS threads, each running a Lua state
  Variants,         \* the metatables new() may be called through
  MaxBuffers,       \* bound on the buffers serialized
  MaxEntries,       \* bound on the list entries malloc'd (the stub included)
  MaxOps,           \* bound on enqueue/dequeue calls per thread
  NULL

Buffers == 1..MaxBuffers
Entries == 1..MaxEntries

(* A ck_fifo_mpmc_pointer: an entry and a generation (always 0 in spsc). *)
Ptr(e, g) == [p |-> e, g |-> g]
Nil == Ptr(NULL, 0)
Ptrs == [p : Entries \cup {NULL}, g : Nat]

VARIABLES
  variant,      \* the metatable of the fifo, or "none" before new()
  refs,         \* rcfifo.refs
  handle,       \* thread -> it holds a userdata whose cookie is the fifo
  released,     \* the last __gc freed the list and the rcfifo
  head,         \* fifo->head
  tail,         \* fifo->tail
  next,         \* entry -> its next pointer
  value,        \* entry -> its value (a buffer)
  snapshot,     \* spsc: fifo->head_snapshot
  garbage,      \* spsc: fifo->garbage, the oldest entry not yet recycled
  nent,         \* entries malloc'd so far
  efrees,       \* entry -> number of times it was freed
  uaf,          \* some step read, wrote or freed a freed entry
  nbuf,         \* buffers serialized so far
  frees,        \* buffer -> number of times it was freed
  elock,        \* spsc: the thread holding fifo->m_tail (enqueue_lock)
  dlock,        \* spsc: the thread holding fifo->m_head (dequeue_lock)
  pc,           \* thread -> where its current call is
  kind,         \* thread -> "block" (enqueue/dequeue) or "try"
  lh, lt, ln,   \* thread -> its local copies of head, tail and next
  le,           \* thread -> the entry it is linking or taking
  lv,           \* thread -> the buffer it holds (v)
  res,          \* thread -> the buffer its last dequeue returned
  ops           \* thread -> calls made

vars == <<variant, refs, handle, released, head, tail, next, value,
          snapshot, garbage, nent, efrees, uaf, nbuf, frees, elock, dlock,
          pc, kind, lh, lt, ln, le, lv, res, ops>>

PCs == {"idle", "spsc_link", "spsc_store", "enq_tail", "enq_next",
        "enq_cas", "enq_swing", "dq_head", "dq_tail", "dq_next",
        "dq_decide", "dq_cas"}

TypeOK ==
  /\ variant \in Variants \cup {"none"}
  /\ refs \in 0..Cardinality(Threads)
  /\ handle \in [Threads -> BOOLEAN]
  /\ released \in BOOLEAN
  /\ {head, tail} \subseteq Ptrs
  /\ next \in [Entries -> Ptrs]
  /\ value \in [Entries -> Buffers \cup {NULL}]
  /\ {snapshot, garbage} \subseteq Entries \cup {NULL}
  /\ nent \in 0..MaxEntries
  /\ efrees \in [Entries -> Nat]
  /\ uaf \in BOOLEAN
  /\ nbuf \in 0..MaxBuffers
  /\ frees \in [Buffers -> Nat]
  /\ {elock, dlock} \subseteq Threads \cup {NULL}
  /\ pc \in [Threads -> PCs]
  /\ kind \in [Threads -> {"block", "try"}]
  /\ \A t \in Threads : {lh[t], lt[t], ln[t]} \subseteq Ptrs
  /\ le \in [Threads -> Entries \cup {NULL}]
  /\ lv \in [Threads -> Buffers \cup {NULL}]
  /\ res \in [Threads -> Buffers \cup {NULL}]
  /\ ops \in [Threads -> 0..MaxOps]

Init ==
  /\ variant = "none"
  /\ refs = 0
  /\ handle = [t \in Threads |-> FALSE]
  /\ released = FALSE
  /\ head = Nil /\ tail = Nil
  /\ next = [e \in Entries |-> Nil]
  /\ value = [e \in Entries |-> NULL]
  /\ snapshot = NULL /\ garbage = NULL
  /\ nent = 0
  /\ efrees = [e \in Entries |-> 0]
  /\ uaf = FALSE
  /\ nbuf = 0
  /\ frees = [b \in Buffers |-> 0]
  /\ elock = NULL /\ dlock = NULL
  /\ pc = [t \in Threads |-> "idle"]
  /\ kind = [t \in Threads |-> "block"]
  /\ lh = [t \in Threads |-> Nil]
  /\ lt = [t \in Threads |-> Nil]
  /\ ln = [t \in Threads |-> Nil]
  /\ le = [t \in Threads |-> NULL]
  /\ lv = [t \in Threads |-> NULL]
  /\ res = [t \in Threads |-> NULL]
  /\ ops = [t \in Threads |-> 0]

Free(b) == frees' = [frees EXCEPT ![b] = @ + 1]

Freed(e) == e # NULL /\ efrees[e] > 0

(* A step that reads or writes entry e: touching freed memory is a uaf. *)
Touch(e) == uaf' = (uaf \/ Freed(e))

(* The entries from e on, following next: the garbage walk of __gc and *)
(* of mpmc dequeue.  k bounds the walk.                               *)
RECURSIVE Reach(_, _)
Reach(e, k) == IF e = NULL \/ k = 0 THEN {} ELSE {e} \cup Reach(next[e].p, k - 1)

(* while (garbage != NULL) { next = NEXT(garbage); free(garbage); ... } *)
FreeEntries(S) ==
  /\ efrees' = [e \in Entries |-> IF e \in S THEN efrees[e] + 1 ELSE efrees[e]]
  /\ uaf' = (uaf \/ \E e \in S : Freed(e))

(* malloc of an entry: a fresh one. *)
Malloc(e) == nent < MaxEntries /\ e = nent + 1 /\ nent' = e

(* A call through checkcookie: the thread holds a live handle. *)
Call(t) ==
  /\ pc[t] = "idle" /\ handle[t]
  /\ ops[t] < MaxOps
  /\ ops' = [ops EXCEPT ![t] = @ + 1]

(* serdebuf_init, serdebuf_serialize, serdebuf_finalize: a new buffer. *)
Serialized(b) == nbuf < MaxBuffers /\ b = nbuf + 1 /\ nbuf' = b

Goto(t, to) == pc' = [pc EXCEPT ![t] = to]

Set(f, t, x) == [f EXCEPT ![t] = x]

-----------------------------------------------------------------------------
(* new, retain, __gc *)

(* l_ck_fifo_*_new: malloc the rcfifo and a stub, ck_fifo_*_init (stub *)
(* next = NULL; head = tail (= head_snapshot = garbage) = stub),       *)
(* refcount_init, and a userdata holding the cookie.                  *)
New(t, m) ==
  /\ variant = "none" /\ pc[t] = "idle"
  /\ \E e \in Entries :
       /\ Malloc(e)
       /\ head' = Ptr(e, 0) /\ tail' = Ptr(e, 0)
       /\ snapshot' = e /\ garbage' = e
  /\ variant' = m
  /\ refs' = 1
  /\ handle' = Set(handle, t, TRUE)
  /\ UNCHANGED <<released, next, value, efrees, uaf, nbuf, frees, elock,
                 dlock, pc, kind, lh, lt, ln, le, lv, res, ops>>

(* l_ck_fifo_*_retain: refcount_retain through a cookie another holder *)
(* passed.                                                            *)
Retain(t) ==
  /\ pc[t] = "idle" /\ ~handle[t]
  /\ \E u \in Threads : handle[u]
  /\ refs' = refs + 1
  /\ handle' = Set(handle, t, TRUE)
  /\ UNCHANGED <<variant, released, head, tail, next, value, snapshot,
                 garbage, nent, efrees, uaf, nbuf, frees, elock, dlock, pc,
                 kind, lh, lt, ln, le, lv, res, ops>>

(* l_ck_fifo_*_gc, run by the collector on an unreachable userdata:    *)
(* refcount_release; the last one takes the list start from            *)
(* ck_fifo_*_deinit (spsc: fifo->garbage; mpmc: fifo->head), frees     *)
(* every entry from there on, then the rcfifo.  The buffers still      *)
(* queued are not freed.  Nothing invalidates the cookie.              *)
Release(t) ==
  /\ pc[t] = "idle" /\ handle[t]
  /\ refs' = refs - 1
  /\ handle' = Set(handle, t, FALSE)
  /\ IF refs = 1
       THEN /\ FreeEntries(Reach(IF variant = "spsc" THEN garbage ELSE head.p,
                                 MaxEntries))
            /\ released' = TRUE
       ELSE UNCHANGED <<efrees, uaf, released>>
  /\ UNCHANGED <<variant, head, tail, next, value, snapshot, garbage, nent,
                 nbuf, frees, elock, dlock, pc, kind, lh, lt, ln, le, lv,
                 res, ops>>

-----------------------------------------------------------------------------
(* spsc: the producer holds enqueue_lock, the consumer dequeue_lock.  A *)
(* failed trylock changes nothing, so each lock is one action.         *)

(* enqueue_trylock / enqueue_lock: ck_spinlock_trylock / _lock on      *)
(* m_tail.                                                             *)
EnqueueLock(t) ==
  /\ variant = "spsc" /\ pc[t] = "idle" /\ handle[t]
  /\ elock = NULL
  /\ elock' = t
  /\ UNCHANGED <<variant, refs, handle, released, head, tail, next, value,
                 snapshot, garbage, nent, efrees, uaf, nbuf, frees, dlock,
                 pc, kind, lh, lt, ln, le, lv, res, ops>>

(* enqueue_unlock: ck_spinlock_unlock on m_tail. *)
EnqueueUnlock(t) ==
  /\ pc[t] = "idle" /\ handle[t]
  /\ elock = t
  /\ elock' = NULL
  /\ UNCHANGED <<variant, refs, handle, released, head, tail, next, value,
                 snapshot, garbage, nent, efrees, uaf, nbuf, frees, dlock,
                 pc, kind, lh, lt, ln, le, lv, res, ops>>

(* dequeue_trylock / dequeue_lock on m_head. *)
DequeueLock(t) ==
  /\ variant = "spsc" /\ pc[t] = "idle" /\ handle[t]
  /\ dlock = NULL
  /\ dlock' = t
  /\ UNCHANGED <<variant, refs, handle, released, head, tail, next, value,
                 snapshot, garbage, nent, efrees, uaf, nbuf, frees, elock,
                 pc, kind, lh, lt, ln, le, lv, res, ops>>

(* dequeue_unlock on m_head. *)
DequeueUnlock(t) ==
  /\ pc[t] = "idle" /\ handle[t]
  /\ dlock = t
  /\ dlock' = NULL
  /\ UNCHANGED <<variant, refs, handle, released, head, tail, next, value,
                 snapshot, garbage, nent, efrees, uaf, nbuf, frees, elock,
                 pc, kind, lh, lt, ln, le, lv, res, ops>>

(* Mutant: ck_fifo_spsc_recycle without the head_snapshot test, taking *)
(* fifo->garbage even when it is still the head.                      *)
EnqueueSPSCNoSnapshot(t) ==
  /\ variant = "spsc" /\ elock = t
  /\ Call(t)
  /\ \E b \in Buffers : Serialized(b) /\ lv' = Set(lv, t, b)
  /\ le' = Set(le, t, garbage)
  /\ garbage' = next[garbage].p
  /\ Goto(t, "spsc_link")
  /\ UNCHANGED <<variant, refs, handle, released, head, tail, next, value,
                 snapshot, nent, efrees, uaf, frees, elock, dlock, kind, lh,
                 lt, ln, res>>

(* l_ck_fifo_spsc_enqueue: serialize, then ck_fifo_spsc_recycle: when  *)
(* head_snapshot = garbage, reload head_snapshot from head, and if it  *)
(* is still garbage recycle nothing and malloc an entry; otherwise    *)
(* take garbage and advance garbage to its next.                       *)
EnqueueSPSC(t) ==
  /\ variant = "spsc" /\ elock = t
  /\ Call(t)
  /\ \E b \in Buffers : Serialized(b) /\ lv' = Set(lv, t, b)
  /\ LET snap == IF snapshot = garbage THEN head.p ELSE snapshot IN
     /\ snapshot' = snap
     /\ IF snap = garbage
          THEN /\ \E e \in Entries : Malloc(e) /\ le' = Set(le, t, e)
               /\ UNCHANGED garbage
          ELSE /\ le' = Set(le, t, garbage)
               /\ garbage' = next[garbage].p
               /\ UNCHANGED nent
  /\ Goto(t, "spsc_link")
  /\ UNCHANGED <<variant, refs, handle, released, head, tail, next, value,
                 efrees, uaf, frees, elock, dlock, kind, lh, lt, ln, res>>

(* Mutant: the link without the store of fifo->tail. *)
SPSCLinkNoTail(t) ==
  /\ pc[t] = "spsc_link"
  /\ LET e == le[t] IN
     /\ value' = [value EXCEPT ![e] = lv[t]]
     /\ next' = [next EXCEPT ![e] = Nil, ![tail.p] = Ptr(e, 0)]
  /\ le' = Set(le, t, NULL) /\ lv' = Set(lv, t, NULL)
  /\ Goto(t, "idle")
  /\ UNCHANGED <<variant, refs, handle, released, head, tail, snapshot,
                 garbage, nent, efrees, uaf, nbuf, frees, elock, dlock, kind,
                 lh, lt, ln, res, ops>>

(* ck_fifo_spsc_enqueue: entry->value = v, entry->next = NULL, store   *)
(* tail->next = entry, tail = entry.                                  *)
SPSCLink(t) ==
  /\ pc[t] = "spsc_link"
  /\ LET e == le[t] IN
     /\ value' = [value EXCEPT ![e] = lv[t]]
     /\ next' = [next EXCEPT ![e] = Nil, ![tail.p] = Ptr(e, 0)]
     /\ tail' = Ptr(e, 0)
  /\ le' = Set(le, t, NULL) /\ lv' = Set(lv, t, NULL)
  /\ Goto(t, "idle")
  /\ UNCHANGED <<variant, refs, handle, released, head, snapshot, garbage,
                 nent, efrees, uaf, nbuf, frees, elock, dlock, kind, lh, lt,
                 ln, res, ops>>

(* l_ck_fifo_spsc_dequeue: ck_fifo_spsc_dequeue loads head->next;      *)
(* NULL returns false, otherwise v = entry->value.                    *)
DequeueSPSC(t) ==
  /\ variant = "spsc" /\ dlock = t
  /\ Call(t)
  /\ LET e == next[head.p].p IN
     IF e = NULL
       THEN UNCHANGED <<pc, le, lv>>
       ELSE /\ le' = Set(le, t, e) /\ lv' = Set(lv, t, value[e])
            /\ Goto(t, "spsc_store")
  /\ UNCHANGED <<variant, refs, handle, released, head, tail, next, value,
                 snapshot, garbage, nent, efrees, uaf, nbuf, frees, elock,
                 dlock, kind, lh, lt, ln, res>>

(* Store head = entry; the caller loadshared()s v and frees it. *)
SPSCStore(t) ==
  /\ pc[t] = "spsc_store"
  /\ head' = Ptr(le[t], 0)
  /\ Free(lv[t])
  /\ res' = Set(res, t, lv[t])
  /\ le' = Set(le, t, NULL) /\ lv' = Set(lv, t, NULL)
  /\ Goto(t, "idle")
  /\ UNCHANGED <<variant, refs, handle, released, tail, next, value,
                 snapshot, garbage, nent, efrees, uaf, nbuf, elock, dlock,
                 kind, lh, lt, ln, ops>>

-----------------------------------------------------------------------------
(* mpmc: enqueue / tryenqueue *)

(* l_ck_fifo_mpmc_enqueue and _tryenqueue: serialize, malloc an entry; *)
(* ck_fifo_mpmc_(try)enqueue sets entry->value = v, entry->next =      *)
(* {NULL, 0}.                                                          *)
EnqueueMPMC(t, k) ==
  /\ variant = "mpmc"
  /\ Call(t)
  /\ \E b \in Buffers, e \in Entries :
       /\ Serialized(b) /\ Malloc(e)
       /\ lv' = Set(lv, t, b) /\ le' = Set(le, t, e)
       /\ value' = [value EXCEPT ![e] = b]
       /\ next' = [next EXCEPT ![e] = Nil]
  /\ kind' = Set(kind, t, k)
  /\ Goto(t, "enq_tail")
  /\ UNCHANGED <<variant, refs, handle, released, head, tail, snapshot,
                 garbage, efrees, uaf, frees, elock, dlock, lh, lt, ln, res>>

(* tail = fifo->tail *)
EnqTail(t) ==
  /\ pc[t] = "enq_tail"
  /\ lt' = Set(lt, t, tail)
  /\ Goto(t, "enq_next")
  /\ UNCHANGED <<variant, refs, handle, released, head, tail, next, value,
                 snapshot, garbage, nent, efrees, uaf, nbuf, frees, elock,
                 dlock, kind, lh, ln, le, lv, res, ops>>

(* next = tail.pointer->next *)
EnqNext(t) ==
  /\ pc[t] = "enq_next"
  /\ ln' = Set(ln, t, next[lt[t].p])
  /\ Touch(lt[t].p)
  /\ Goto(t, "enq_cas")
  /\ UNCHANGED <<variant, refs, handle, released, head, tail, next, value,
                 snapshot, garbage, nent, efrees, nbuf, frees, elock, dlock,
                 kind, lh, lt, le, lv, res, ops>>

(* A failed attempt: enqueue goes round its loop again; tryenqueue     *)
(* returns false and the caller frees v but not the entry ("oof").    *)
EnqRetry(t) ==
  IF kind[t] = "block"
    THEN Goto(t, "enq_tail") /\ UNCHANGED <<frees, le, lv>>
    ELSE /\ Free(lv[t])
         /\ le' = Set(le, t, NULL) /\ lv' = Set(lv, t, NULL)
         /\ Goto(t, "idle")

(* A generation changed under us: retry.  Tail lags: CAS tail to       *)
(* {next, gen + 1} and retry.  Otherwise CAS tail->next from next to   *)
(* {entry, next.gen + 1}; success goes on to swing the tail.          *)
EnqCas(t) ==
  /\ pc[t] = "enq_cas"
  /\ LET e == lt[t].p IN
     \/ /\ tail.g # lt[t].g
        /\ EnqRetry(t)
        /\ UNCHANGED <<tail, next, uaf>>
     \/ /\ tail.g = lt[t].g /\ ln[t].p # NULL
        /\ tail' = IF tail = lt[t] THEN Ptr(ln[t].p, lt[t].g + 1) ELSE tail
        /\ EnqRetry(t)
        /\ UNCHANGED <<next, uaf>>
     \/ /\ tail.g = lt[t].g /\ ln[t].p = NULL
        /\ Touch(e)
        /\ IF next[e] = ln[t]
             THEN /\ next' = [next EXCEPT ![e] = Ptr(le[t], ln[t].g + 1)]
                  /\ Goto(t, "enq_swing")
                  /\ UNCHANGED <<frees, le, lv>>
             ELSE EnqRetry(t) /\ UNCHANGED next
        /\ UNCHANGED tail
  /\ UNCHANGED <<variant, refs, handle, released, head, value, snapshot,
                 garbage, nent, efrees, nbuf, elock, dlock, kind, lh, lt, ln,
                 res, ops>>

(* After the loop: CAS tail from tail to {entry, tail.gen + 1}. *)
EnqSwing(t) ==
  /\ pc[t] = "enq_swing"
  /\ tail' = IF tail = lt[t] THEN Ptr(le[t], lt[t].g + 1) ELSE tail
  /\ le' = Set(le, t, NULL) /\ lv' = Set(lv, t, NULL)
  /\ Goto(t, "idle")
  /\ UNCHANGED <<variant, refs, handle, released, head, next, value,
                 snapshot, garbage, nent, efrees, uaf, nbuf, frees, elock,
                 dlock, kind, lh, lt, ln, res, ops>>

-----------------------------------------------------------------------------
(* mpmc: dequeue / trydequeue *)

(* l_ck_fifo_mpmc_dequeue and _trydequeue call ck_fifo_mpmc_(try)dequeue. *)
DequeueMPMC(t, k) ==
  /\ variant = "mpmc"
  /\ Call(t)
  /\ kind' = Set(kind, t, k)
  /\ Goto(t, "dq_head")
  /\ UNCHANGED <<variant, refs, handle, released, head, tail, next, value,
                 snapshot, garbage, nent, efrees, uaf, nbuf, frees, elock,
                 dlock, lh, lt, ln, le, lv, res>>

(* head = fifo->head, tail = fifo->tail, next = head.pointer->next: three *)
(* loads, each a step.                                                 *)
DqLoad(t) ==
  /\ \/ pc[t] = "dq_head" /\ lh' = Set(lh, t, head) /\ Goto(t, "dq_tail")
        /\ UNCHANGED <<lt, ln, uaf>>
     \/ pc[t] = "dq_tail" /\ lt' = Set(lt, t, tail) /\ Goto(t, "dq_next")
        /\ UNCHANGED <<lh, ln, uaf>>
     \/ pc[t] = "dq_next" /\ ln' = Set(ln, t, next[lh[t].p])
        /\ Touch(lh[t].p) /\ Goto(t, "dq_decide")
        /\ UNCHANGED <<lh, lt>>
  /\ UNCHANGED <<variant, refs, handle, released, head, tail, next, value,
                 snapshot, garbage, nent, efrees, nbuf, frees, elock, dlock,
                 kind, le, lv, res, ops>>

(* dequeue goes round its loop again; trydequeue returns false. *)
DqRetry(t) == Goto(t, IF kind[t] = "block" THEN "dq_head" ELSE "idle")

(* head = tail: empty when next is NULL, otherwise the tail lags: CAS  *)
(* it to {next, tail.gen + 1} and retry.  head # tail: retry on a NULL *)
(* next, otherwise v = next.pointer->value and go on to the CAS.       *)
DqDecide(t) ==
  /\ pc[t] = "dq_decide"
  /\ \/ lh[t].p = lt[t].p /\ ln[t].p = NULL
        /\ Goto(t, "idle") /\ UNCHANGED <<tail, lv, uaf>>
     \/ lh[t].p = lt[t].p /\ ln[t].p # NULL
        /\ tail' = (IF tail = lt[t] THEN Ptr(ln[t].p, lt[t].g + 1) ELSE tail)
        /\ DqRetry(t) /\ UNCHANGED <<lv, uaf>>
     \/ lh[t].p # lt[t].p /\ ln[t].p = NULL
        /\ DqRetry(t) /\ UNCHANGED <<tail, lv, uaf>>
     \/ lh[t].p # lt[t].p /\ ln[t].p # NULL
        /\ lv' = Set(lv, t, value[ln[t].p])
        /\ Touch(ln[t].p)
        /\ Goto(t, "dq_cas") /\ UNCHANGED tail
  /\ UNCHANGED <<variant, refs, handle, released, head, next, value,
                 snapshot, garbage, nent, efrees, nbuf, frees, elock, dlock,
                 kind, lh, lt, ln, le, res, ops>>

(* Mutant: a failed CAS retries from the CAS without reloading head. *)
DqCasNoReload(t) ==
  /\ pc[t] = "dq_cas"
  /\ IF head = lh[t]
       THEN /\ head' = Ptr(ln[t].p, lh[t].g + 1)
            /\ FreeEntries(Reach(lh[t].p, MaxEntries))
            /\ Free(lv[t])
            /\ res' = Set(res, t, lv[t])
            /\ lv' = Set(lv, t, NULL)
            /\ Goto(t, "idle")
       ELSE /\ Goto(t, IF kind[t] = "block" THEN "dq_cas" ELSE "idle")
            /\ UNCHANGED <<head, efrees, uaf, frees, res, lv>>
  /\ UNCHANGED <<variant, refs, handle, released, tail, next, value,
                 snapshot, garbage, nent, nbuf, elock, dlock, kind, lh, lt,
                 ln, le, ops>>

(* CAS head from head to {next, head.gen + 1}; on success ck returns   *)
(* garbage = head.pointer, and the caller's loop frees garbage and     *)
(* every entry after it, then loadshared()s v and frees it.           *)
DqCas(t) ==
  /\ pc[t] = "dq_cas"
  /\ IF head = lh[t]
       THEN /\ head' = Ptr(ln[t].p, lh[t].g + 1)
            /\ FreeEntries(Reach(lh[t].p, MaxEntries))
            /\ Free(lv[t])
            /\ res' = Set(res, t, lv[t])
            /\ lv' = Set(lv, t, NULL)
            /\ Goto(t, "idle")
       ELSE /\ DqRetry(t)
            /\ UNCHANGED <<head, efrees, uaf, frees, res, lv>>
  /\ UNCHANGED <<variant, refs, handle, released, tail, next, value,
                 snapshot, garbage, nent, nbuf, elock, dlock, kind, lh, lt,
                 ln, le, ops>>

-----------------------------------------------------------------------------

(* The steps of a call already under way. *)
Step(t) ==
  \/ SPSCLink(t) \/ SPSCStore(t)
  \/ EnqTail(t) \/ EnqNext(t) \/ EnqCas(t) \/ EnqSwing(t)
  \/ DqLoad(t) \/ DqDecide(t) \/ DqCas(t)

(* Every handle has been collected: nothing more can happen. *)
Quiescent ==
  /\ variant # "none"
  /\ \A t \in Threads : ~handle[t] /\ pc[t] = "idle"
  /\ UNCHANGED vars

Next ==
  \/ \E t \in Threads :
       \/ \E m \in Variants : New(t, m)
       \/ Retain(t) \/ Release(t)
       \/ EnqueueLock(t) \/ EnqueueUnlock(t)
       \/ DequeueLock(t) \/ DequeueUnlock(t)
       \/ EnqueueSPSC(t) \/ DequeueSPSC(t)
       \/ \E k \in {"block", "try"} : EnqueueMPMC(t, k) \/ DequeueMPMC(t, k)
       \/ Step(t)
  \/ Quiescent

(* Each OS thread keeps running a call it has begun. *)
Spec == Init /\ [][Next]_vars /\ \A t \in Threads : WF_vars(Step(t))

-----------------------------------------------------------------------------
(* Properties *)

(* The values of the entries after the head, oldest first. *)
RECURSIVE Chain(_, _)
Chain(e, k) ==
  IF e = NULL \/ k = 0 THEN << >> ELSE <<value[e]>> \o Chain(next[e].p, k - 1)
Queued == IF head.p = NULL THEN << >> ELSE Chain(next[head.p].p, MaxEntries)

(* A buffer a producer holds between serializing and linking it. *)
InFlight(b) == \E t \in Threads :
                 lv[t] = b /\ pc[t] \in {"spsc_link", "enq_tail", "enq_next",
                                         "enq_cas"}

(* While the fifo is live, every buffer serialized so far is exactly   *)
(* one of: freed once, queued once, or held by the producer enqueueing *)
(* it.  An entry recycled while still in the list, a link at a stale   *)
(* tail, or a value taken twice breaks it.                             *)
BuffersAccounted ==
  ~released =>
    \A b \in 1..nbuf :
      LET copies == Cardinality({i \in DOMAIN Queued : Queued[i] = b}) IN
      (frees[b] = 1 /\ copies = 0 /\ ~InFlight(b))
      \/ (frees[b] = 0 /\ copies + (IF InFlight(b) THEN 1 ELSE 0) = 1)

(* No list entry is read, written or freed after it was freed, and none *)
(* is freed twice: what the dequeue garbage loops and __gc must ensure. *)
EntryMemorySafe == ~uaf /\ \A e \in Entries : efrees[e] <= 1

(* Every enqueue, dequeue and try call returns: the retry loops of the *)
(* mpmc enqueue and dequeue do not spin forever.                       *)
(* (pc # "idle" ~> pc = "idle", written as the equivalent []<>.)      *)
HandlersReturn == \A t \in Threads : []<>(pc[t] = "idle")

(* The fifo implements a FIFO queue (never full): an enqueue takes      *)
(* effect when its entry is linked, a dequeue when head moves.          *)
BQ == INSTANCE BoundedQueue WITH
        Cap <- MaxBuffers, Values <- Buffers, None <- NULL,
        queue <- Queued, got <- res
FifoQueue == BQ!QSpec

====
