------------------------------ MODULE MC_Memory ------------------------------
(***************************************************************************)
(* Memory safety of the bindings that manage raw memory themselves: the    *)
(* ring's slots (src/ring.c), the fifo's list entries and the md128        *)
(* value (src/serdebuf.c), side by side for the same two threads.  They    *)
(* share no state; the first new() decides which one the program creates. *)
(***************************************************************************)
EXTENDS Naturals

CONSTANTS a, b, NULL, Word, Size,
          RingVariants, RingBuffers, RingOps,
          FifoVariants, FifoBuffers, FifoEntries, FifoOps,
          Md128Views, Md128Args, Md128Ops

MCThreads == {a, b}

VARIABLES
  variant, refs, handle, released, p_head, p_tail, c_head, slot, nbuf,
  frees, pc, lp, lc, lv, res, ops,
  f_variant, f_refs, f_handle, f_released, head, tail, next, value,
  snapshot, garbage, nent, efrees, uaf, f_nbuf, f_frees, elock, dlock,
  f_pc, kind, lh, lt, ln, le, f_lv, f_res, f_ops,
  created, m_refs, m_handle, m_released, written, wild, m_garbage, m_ops

rvars == <<variant, refs, handle, released, p_head, p_tail, c_head, slot,
           nbuf, frees, pc, lp, lc, lv, res, ops>>
fvars == <<f_variant, f_refs, f_handle, f_released, head, tail, next, value,
           snapshot, garbage, nent, efrees, uaf, f_nbuf, f_frees, elock,
           dlock, f_pc, kind, lh, lt, ln, le, f_lv, f_res, f_ops>>
mvars == <<created, m_refs, m_handle, m_released, written, wild, m_garbage,
           m_ops>>
vars == <<rvars, fvars, mvars>>

R == INSTANCE Ring WITH
       Threads <- MCThreads, Variants <- RingVariants,
       MaxBuffers <- RingBuffers, MaxOps <- RingOps,
       SingleProducer <- a, SingleConsumer <- b

F == INSTANCE Fifo WITH
       Threads <- MCThreads, Variants <- FifoVariants,
       MaxBuffers <- FifoBuffers, MaxEntries <- FifoEntries, MaxOps <- FifoOps,
       variant <- f_variant, refs <- f_refs, handle <- f_handle,
       released <- f_released, nbuf <- f_nbuf, frees <- f_frees, pc <- f_pc,
       lv <- f_lv, res <- f_res, ops <- f_ops

M == INSTANCE Md128 WITH
       Threads <- MCThreads, ViewNames <- Md128Views, Args <- Md128Args,
       MaxOps <- Md128Ops, refs <- m_refs, handle <- m_handle,
       released <- m_released, garbage <- m_garbage, ops <- m_ops

Init == R!Init /\ F!Init /\ M!Init

RingNext == R!Next /\ f_variant = "none" /\ ~created
              /\ UNCHANGED <<fvars, mvars>>
FifoNext == F!Next /\ variant = "none" /\ ~created
              /\ UNCHANGED <<rvars, mvars>>
Md128Next == M!Next /\ variant = "none" /\ f_variant = "none"
               /\ UNCHANGED <<rvars, fvars>>

Spec == Init /\ [][RingNext \/ FifoNext \/ Md128Next]_vars

-----------------------------------------------------------------------------
(* No binding frees a buffer twice, reads, writes or frees a fifo list  *)
(* entry after it was freed, or touches md128 bytes past the value or   *)
(* never written: the ring dequeue handlers, the fifo dequeue and __gc  *)
(* garbage loops, and md128's new and element handlers.                 *)
MemorySafe == R!FreedOnce /\ F!EntryMemorySafe /\ M!MemorySafe
====
