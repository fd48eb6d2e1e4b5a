----------------------------- MODULE MC_Channels -----------------------------
(***************************************************************************)
(* The two channel types of the library side by side: ck.ring             *)
(* (src/ring.c) and ck.fifo (src/serdebuf.c), used by the same two        *)
(* threads.  They share no state; the first new() decides which one the   *)
(* program creates, so one run checks both.  Thread a is the single       *)
(* producer and b the single consumer of the sp/sc rings.                 *)
(***************************************************************************)
EXTENDS Naturals

CONSTANTS a, b, NULL, Word, Size,
          RingVariants, RingBuffers, RingOps,
          FifoVariants, FifoBuffers, FifoEntries, FifoOps

MCThreads == {a, b}

VARIABLES
  variant, refs, handle, released, p_head, p_tail, c_head, slot, nbuf,
  frees, pc, lp, lc, lv, res, ops,
  f_variant, f_refs, f_handle, f_released, head, tail, next, value,
  snapshot, garbage, nent, efrees, uaf, f_nbuf, f_frees, elock, dlock,
  f_pc, kind, lh, lt, ln, le, f_lv, f_res, f_ops

rvars == <<variant, refs, handle, released, p_head, p_tail, c_head, slot,
           nbuf, frees, pc, lp, lc, lv, res, ops>>
fvars == <<f_variant, f_refs, f_handle, f_released, head, tail, next, value,
           snapshot, garbage, nent, efrees, uaf, f_nbuf, f_frees, elock,
           dlock, f_pc, kind, lh, lt, ln, le, f_lv, f_res, f_ops>>
vars == <<rvars, fvars>>

R == INSTANCE Ring WITH
       Threads <- MCThreads, Variants <- RingVariants,
       MaxBuffers <- RingBuffers, MaxOps <- RingOps,
       SingleProducer <- a, SingleConsumer <- b

F == INSTANCE Fifo WITH
       Threads <- MCThreads, Variants <- FifoVariants,
       MaxBuffers <- FifoBuffers, MaxEntries <- FifoEntries, MaxOps <- FifoOps,
       variant <- f_variant, refs <- f_refs, handle <- f_handle,
       released <- f_released, nbuf <- f_nbuf, frees <- f_frees, pc <- f_pc,
       lv <- f_lv, res <- f_res, ops <- f_ops

Init == R!Init /\ F!Init

RingNext == R!Next /\ f_variant = "none" /\ UNCHANGED fvars
FifoNext == F!Next /\ variant = "none" /\ UNCHANGED rvars
Next == RingNext \/ FifoNext

RingStep(t) == R!Step(t) /\ UNCHANGED fvars
FifoStep(t) == F!Step(t) /\ UNCHANGED rvars

(* Each OS thread keeps running a call it has begun. *)
Spec == Init /\ [][Next]_vars
          /\ \A t \in MCThreads : WF_vars(RingStep(t)) /\ WF_vars(FifoStep(t))

-----------------------------------------------------------------------------
(* Properties: each is the one of Ring or Fifo named after it. *)

(* Both channels' variables keep their types. *)
TypeOK == R!TypeOK /\ F!TypeOK

(* No ring buffer is freed twice: a dequeue frees the buffer it claimed, *)
(* a failed enqueue the one it made (ring.c enqueue/dequeue handlers).  *)
RingFreedOnce == R!FreedOnce

(* While the ring is live every buffer is freed, published once in the *)
(* window, or held by its producer: no slot overwritten or lost.        *)
RingBuffersAccounted == R!BuffersAccounted

(* Every ring enqueue/dequeue/trydequeue returns: the MP publish spin   *)
(* and the CAS retry loops end.                                         *)
RingHandlersReturn == R!HandlersReturn

(* The ring implements a bounded FIFO of capacity size - 1. *)
RingQueue == R!RingQueue

(* While the fifo is live every buffer is freed once, linked once in   *)
(* the list after the head, or held by its producer: spsc recycling    *)
(* never reuses a live entry and no mpmc link is lost.                 *)
FifoBuffersAccounted == F!BuffersAccounted

(* Every fifo enqueue/dequeue/try call returns: the mpmc retry loops    *)
(* end.                                                                 *)
FifoHandlersReturn == F!HandlersReturn

(* The fifo implements a FIFO queue: a value is enqueued when its entry *)
(* is linked and dequeued when head moves past it.                      *)
FifoQueue == F!FifoQueue

====
