------------------------------ MODULE SharedMut ------------------------------
(***************************************************************************)
(* ck.shared.mut (src/serdebuf.c): a reference-counted cell whose value is *)
(* a serialized buffer, replaced by store() and read by load() without a   *)
(* lock.  A replaced buffer is retired through ck_hp: each Lua state owns  *)
(* one hazard pointer record (register_hp_record), ck_hp_free reclaims at  *)
(* once (HP_THRESHOLD 1), scanning the hazard pointers of every record     *)
(* that is not FREE, and closing the state purges and unregisters the      *)
(* record (l_ck_hp_record_gc).                                             *)
(*                                                                         *)
(* ck_hp_set is a plain store.  With StoreBuffering the model lets it sit  *)
(* in the storing thread's FIFO store buffer, as on x86-TSO, until a flush *)
(* step or a locked instruction of that thread drains it; loads of other   *)
(* variables do not wait for it.  Without StoreBuffering every store is    *)
(* visible at once (sequential consistency).                               *)
(***************************************************************************)
EXTENDS Naturals, Sequences, FiniteSets

CONSTANTS
  States,         \* Lua states, each on its own thread
  Values,         \* Lua values a state may store
  MaxBuffers,     \* bound on the serialized buffers ever allocated
  MaxOps,         \* bound on the operations of one state
  StoreBuffering, \* TRUE: plain stores are buffered (x86-TSO)
  NULL

Buffers == 1..MaxBuffers

VARIABLES
  ptr,        \* sharedp->serialized, NULL before new and after free(sharedp)
  content,    \* buffer -> the value serialized into it (immutable)
  nbuf,       \* buffers allocated so far
  frees,      \* buffer -> how many times freeserialized ran on it
  refs,       \* sharedp->refs
  handle,     \* state -> it holds a live shared.mut userdata
  hp,         \* state -> its record's pointers[0] as other threads see it
  sbuf,       \* state -> its store buffer: hazard stores not yet visible
  pending,    \* state -> its record's pending (retired) buffers
  recUsed,    \* state -> its record is not CK_HP_FREE
  pc,         \* state -> where it is in a handler
  lv,         \* state -> the local `serialized` (load and gc) or `newp`
  res,        \* state -> the value its last load decoded
  ops,        \* state -> operations started
  checkedVisible \* history: state -> its hazard store had drained when
                 \* the re-check of its current load passed

vars == <<ptr, content, nbuf, frees, refs, handle, hp, sbuf, pending,
          recUsed, pc, lv, res, ops>>

allvars == <<vars, checkedVisible>>

NoValue == "none"

PCs == {"idle", "ld_load", "ld_set", "ld_check", "ld_use", "ld_clear", "st_fas",
        "st_free", "gc_load", "gc_set", "gc_check", "gc_free", "purge", "closed"}

TypeOK ==
  /\ ptr \in Buffers \cup {NULL}
  /\ content \in [Buffers -> Values \cup {NoValue}]
  /\ nbuf \in 0..MaxBuffers
  /\ frees \in [Buffers -> Nat]
  /\ refs \in Nat
  /\ handle \in [States -> BOOLEAN]
  /\ hp \in [States -> Buffers \cup {NULL}]
  /\ sbuf \in [States -> Seq(Buffers \cup {NULL})]
  /\ pending \in [States -> SUBSET Buffers]
  /\ recUsed \in [States -> BOOLEAN]
  /\ pc \in [States -> PCs]
  /\ lv \in [States -> Buffers \cup {NULL}]
  /\ res \in [States -> Values \cup {NoValue}]
  /\ ops \in [States -> 0..MaxOps]
  /\ checkedVisible \in [States -> BOOLEAN]

Freed == {b \in Buffers : frees[b] > 0}

(***************************************************************************)
(* ck_hp_set(record, 0, p): a plain store of the state's hazard pointer.   *)
(***************************************************************************)
HpSet(t, p) ==
  IF StoreBuffering
    THEN /\ sbuf' = [sbuf EXCEPT ![t] = Append(@, p)]
         /\ UNCHANGED hp
    ELSE /\ hp' = [hp EXCEPT ![t] = p]
         /\ UNCHANGED sbuf

(* A locked instruction (ck_pr_fas, ck_pr_faa) drains the store buffer. *)
Drained(t) == IF sbuf[t] = << >> THEN hp[t] ELSE sbuf[t][Len(sbuf[t])]

(***************************************************************************)
(* ck_hp_reclaim(record) with the retired set `retired`: every buffer no   *)
(* record that is not FREE points to is freed (freeserialized), the others *)
(* stay pending.  The hazards are those visible in memory.                 *)
(***************************************************************************)
Hazards == {hp[o] : o \in {x \in States : recUsed[x]}}

Reclaim(t, retired) ==
  /\ pending' = [pending EXCEPT ![t] = retired \cap Hazards]
  /\ frees' = [b \in Buffers |->
                 IF b \in retired \ Hazards THEN frees[b] + 1 ELSE frees[b]]

(* ck_hp_free with HP_THRESHOLD 1: push onto pending, then reclaim. *)
HpFree(t, b) == Reclaim(t, pending[t] \cup {b})

(* Serializing a value allocates a buffer: serialize() and finalize. *)
Serialize(b, v) ==
  /\ nbuf < MaxBuffers
  /\ b = nbuf + 1
  /\ nbuf' = b
  /\ content' = [content EXCEPT ![b] = v]

Start(t) == /\ pc[t] = "idle" /\ ops[t] < MaxOps
            /\ ops' = [ops EXCEPT ![t] = @ + 1]

Goto(t, l) == pc' = [pc EXCEPT ![t] = l]

(***************************************************************************)
(* newshared: malloc sharedp, serialize, refcount_init.  A serialize error *)
(* frees sharedp and raises: nothing changes.                              *)
(***************************************************************************)
New(t, v) ==
  /\ Start(t) /\ nbuf = 0
  /\ \E b \in Buffers : Serialize(b, v) /\ ptr' = b
  /\ refs' = 1
  /\ handle' = [handle EXCEPT ![t] = TRUE]
  /\ UNCHANGED <<frees, hp, sbuf, pending, recUsed, pc, lv, res>>

(***************************************************************************)
(* retainshared: a cookie passed by a state that still holds its handle   *)
(* (the protocol of tests/testmut.lua); refcount_retain is an atomic add.  *)
(***************************************************************************)
Retain(t) ==
  /\ Start(t) /\ ~handle[t] /\ \E o \in States : handle[o]
  /\ refs' = refs + 1
  /\ handle' = [handle EXCEPT ![t] = TRUE]
  /\ hp' = [hp EXCEPT ![t] = Drained(t)]
  /\ sbuf' = [sbuf EXCEPT ![t] = << >>]
  /\ UNCHANGED <<ptr, content, nbuf, frees, pending, recUsed, pc, lv, res>>

(* l_ck_shared_mut_load: the protect loop, loadshared, clear the hazard. *)
LoadBegin(t) ==
  /\ Start(t) /\ handle[t]
  /\ Goto(t, "ld_load")
  /\ UNCHANGED <<ptr, content, nbuf, frees, refs, handle, hp, sbuf, pending,
                 recUsed, lv, res>>

(* serialized = ck_pr_load_ptr(&sharedp->serialized); *)
ProtectLoad(t, from, to) ==
  /\ pc[t] = from
  /\ lv' = [lv EXCEPT ![t] = ptr]
  /\ Goto(t, to)
  /\ UNCHANGED <<ptr, content, nbuf, frees, refs, handle, hp, sbuf, pending,
                 recUsed, res, ops>>

(* ck_hp_set(record, 0, serialized); *)
ProtectSet(t, from, to) ==
  /\ pc[t] = from
  /\ HpSet(t, lv[t])
  /\ Goto(t, to)
  /\ UNCHANGED <<ptr, content, nbuf, frees, refs, handle, pending, recUsed,
                 lv, res, ops>>

(* Mutant: the protect loop without its re-check load. *)
ProtectCheckNoRetry(t, from, to) ==
  /\ pc[t] = from
  /\ Goto(t, to)
  /\ UNCHANGED <<ptr, content, nbuf, frees, refs, handle, hp, sbuf, pending,
                 recUsed, lv, res, ops>>

(* Mutant: ck_hp_set(record, 0, NULL) moved before loadshared. *)
ProtectCheckClearsEarly(t, from, to) ==
  /\ pc[t] = from
  /\ Goto(t, IF ptr = lv[t] THEN to
             ELSE IF from = "ld_check" THEN "ld_load" ELSE "gc_load")
  /\ IF ptr = lv[t] THEN HpSet(t, NULL) ELSE UNCHANGED <<hp, sbuf>>
  /\ UNCHANGED <<ptr, content, nbuf, frees, refs, handle, pending,
                 recUsed, lv, res, ops>>

(* while (ck_pr_load_ptr(&sharedp->serialized) != serialized) *)
ProtectCheck(t, from, to) ==
  /\ pc[t] = from
  /\ Goto(t, IF ptr = lv[t] THEN to
             ELSE IF from = "ld_check" THEN "ld_load" ELSE "gc_load")
  /\ UNCHANGED <<ptr, content, nbuf, frees, refs, handle, hp, sbuf, pending,
                 recUsed, lv, res, ops>>

(* loadshared(L, serialized->pointer) decodes the buffer. *)
LoadUse(t) ==
  /\ pc[t] = "ld_use"
  /\ res' = [res EXCEPT ![t] = content[lv[t]]]
  /\ Goto(t, "ld_clear")
  /\ UNCHANGED <<ptr, content, nbuf, frees, refs, handle, hp, sbuf, pending,
                 recUsed, lv, ops>>

(* ck_hp_set(record, 0, NULL), then return or lua_error. *)
LoadClear(t) ==
  /\ pc[t] = "ld_clear"
  /\ HpSet(t, NULL)
  /\ lv' = [lv EXCEPT ![t] = NULL]
  /\ Goto(t, "idle")
  /\ UNCHANGED <<ptr, content, nbuf, frees, refs, handle, pending, recUsed,
                 res, ops>>

(***************************************************************************)
(* l_ck_shared_mut_store: serialize the value; an error raises before     *)
(* anything is published.                                                  *)
(***************************************************************************)
StoreBegin(t, v) ==
  /\ Start(t) /\ handle[t]
  /\ \/ \E b \in Buffers : Serialize(b, v) /\ lv' = [lv EXCEPT ![t] = b]
                            /\ Goto(t, "st_fas")
     \/ UNCHANGED <<content, nbuf, lv, pc>>
  /\ UNCHANGED <<ptr, frees, refs, handle, hp, sbuf, pending, recUsed, res>>

(* oldp = ck_pr_fas_ptr(&sharedp->serialized, newp): a locked exchange. *)
StoreFas(t) ==
  /\ pc[t] = "st_fas"
  /\ ptr' = lv[t]
  /\ lv' = [lv EXCEPT ![t] = ptr]
  /\ hp' = [hp EXCEPT ![t] = Drained(t)]
  /\ sbuf' = [sbuf EXCEPT ![t] = << >>]
  /\ Goto(t, "st_free")
  /\ UNCHANGED <<content, nbuf, frees, refs, handle, pending, recUsed, res, ops>>

(* Mutant: ck_hp_free(record, &newp->hazard, newp, newp). *)
StoreFreeNew(t) ==
  /\ pc[t] = "st_free"
  /\ HpFree(t, ptr)
  /\ lv' = [lv EXCEPT ![t] = NULL]
  /\ Goto(t, "idle")
  /\ UNCHANGED <<ptr, content, nbuf, refs, handle, hp, sbuf, recUsed, res, ops>>

(* ck_hp_free(record, &oldp->hazard, oldp, oldp) *)
StoreFree(t) ==
  /\ pc[t] = "st_free"
  /\ HpFree(t, lv[t])
  /\ lv' = [lv EXCEPT ![t] = NULL]
  /\ Goto(t, "idle")
  /\ UNCHANGED <<ptr, content, nbuf, refs, handle, hp, sbuf, recUsed, res, ops>>

(* Mutant: the gc handler without invalidate(L, 1). *)
GcReleaseNoInvalidate(t) ==
  /\ pc[t] = "idle" /\ handle[t]
  /\ refs' = refs - 1
  /\ hp' = [hp EXCEPT ![t] = Drained(t)]
  /\ sbuf' = [sbuf EXCEPT ![t] = << >>]
  /\ Goto(t, IF refs = 1 THEN "gc_load" ELSE "idle")
  /\ UNCHANGED <<ptr, content, nbuf, frees, handle, pending, recUsed, lv, res,
                 ops>>

(***************************************************************************)
(* l_ck_shared_mut_gc: refcount_release (an atomic decrement between       *)
(* fences), invalidate; the last release protects the current buffer and  *)
(* goes on to retire it.                                                   *)
(***************************************************************************)
GcRelease(t) ==
  /\ pc[t] = "idle" /\ handle[t]
  /\ refs' = refs - 1
  /\ handle' = [handle EXCEPT ![t] = FALSE]
  /\ hp' = [hp EXCEPT ![t] = Drained(t)]
  /\ sbuf' = [sbuf EXCEPT ![t] = << >>]
  /\ Goto(t, IF refs = 1 THEN "gc_load" ELSE "idle")
  /\ UNCHANGED <<ptr, content, nbuf, frees, pending, recUsed, lv, res, ops>>

(* ck_hp_free(serialized); ck_hp_set(record, 0, NULL); free(sharedp) *)
GcFree(t) ==
  /\ pc[t] = "gc_free"
  /\ HpFree(t, lv[t])
  /\ HpSet(t, NULL)
  /\ ptr' = NULL
  /\ lv' = [lv EXCEPT ![t] = NULL]
  /\ Goto(t, "idle")
  /\ UNCHANGED <<content, nbuf, refs, handle, recUsed, res, ops>>

(* The oldest buffered store of the thread reaches memory. *)
Flush(t) ==
  /\ sbuf[t] # << >>
  /\ hp' = [hp EXCEPT ![t] = Head(sbuf[t])]
  /\ sbuf' = [sbuf EXCEPT ![t] = Tail(@)]
  /\ UNCHANGED <<ptr, content, nbuf, frees, refs, handle, pending, recUsed,
                 pc, lv, res, ops>>

(***************************************************************************)
(* lua_close: the handle's finalizer has run (it was created after the     *)
(* record's userdata), then l_ck_hp_record_gc runs.                        *)
(***************************************************************************)
Close(t) ==
  /\ pc[t] = "idle" /\ ~handle[t]
  /\ Goto(t, "purge")
  /\ UNCHANGED <<ptr, content, nbuf, frees, refs, handle, hp, sbuf, pending,
                 recUsed, lv, res, ops>>

(* Mutant: one ck_hp_reclaim instead of ck_hp_purge before unregistering. *)
PurgeOnce(t) ==
  /\ pc[t] = "purge"
  /\ Reclaim(t, pending[t])
  /\ recUsed' = [recUsed EXCEPT ![t] = FALSE]
  /\ hp' = [hp EXCEPT ![t] = Drained(t)]
  /\ sbuf' = [sbuf EXCEPT ![t] = << >>]
  /\ Goto(t, "closed")
  /\ UNCHANGED <<ptr, content, nbuf, refs, handle, lv, res, ops>>

(***************************************************************************)
(* ck_hp_purge spins on ck_hp_reclaim while the record has pending         *)
(* buffers; then ck_hp_unregister marks the record FREE, with a locked     *)
(* increment of n_free.                                                    *)
(***************************************************************************)
Purge(t) ==
  /\ pc[t] = "purge"
  /\ IF pending[t] = {}
       THEN /\ recUsed' = [recUsed EXCEPT ![t] = FALSE]
            /\ hp' = [hp EXCEPT ![t] = Drained(t)]
            /\ sbuf' = [sbuf EXCEPT ![t] = << >>]
            /\ Goto(t, "closed")
            /\ UNCHANGED <<frees, pending>>
       ELSE /\ Reclaim(t, pending[t])
            /\ UNCHANGED <<recUsed, hp, sbuf, pc>>
  /\ UNCHANGED <<ptr, content, nbuf, refs, handle, lv, res, ops>>

Init ==
  /\ ptr = NULL
  /\ content = [b \in Buffers |-> NoValue]
  /\ nbuf = 0
  /\ frees = [b \in Buffers |-> 0]
  /\ refs = 0
  /\ handle = [t \in States |-> FALSE]
  /\ hp = [t \in States |-> NULL]
  /\ sbuf = [t \in States |-> << >>]
  /\ pending = [t \in States |-> {}]
  /\ recUsed = [t \in States |-> TRUE]
  /\ pc = [t \in States |-> "idle"]
  /\ lv = [t \in States |-> NULL]
  /\ res = [t \in States |-> NoValue]
  /\ ops = [t \in States |-> 0]
  /\ checkedVisible = [t \in States |-> FALSE]

(* Every state has closed: the program has ended. *)
Quiescent == (\A t \in States : pc[t] = "closed") /\ UNCHANGED vars

Step(t) ==
  \/ \E v \in Values : New(t, v) \/ StoreBegin(t, v)
  \/ Retain(t) \/ LoadBegin(t)
  \/ ProtectLoad(t, "ld_load", "ld_set") \/ ProtectSet(t, "ld_set", "ld_check")
  \/ ProtectLoad(t, "gc_load", "gc_set") \/ ProtectSet(t, "gc_set", "gc_check")
  \/ ProtectCheck(t, "ld_check", "ld_use") \/ ProtectCheck(t, "gc_check", "gc_free")
  \/ LoadUse(t) \/ LoadClear(t)
  \/ StoreFas(t) \/ StoreFree(t)
  \/ GcRelease(t) \/ GcFree(t)
  \/ Flush(t) \/ Close(t) \/ Purge(t)

(* The history variable records, when a load passes its re-check, whether *)
(* its store buffer had drained, its hazard pointer visible to every      *)
(* thread: what the fence of ck_hp_set_fence guarantees.                  *)
RecordCheck ==
  checkedVisible' =
    [t \in States |-> /\ pc'[t] = "ld_use"
                      /\ IF pc[t] = "ld_use" THEN checkedVisible[t]
                                             ELSE /\ sbuf[t] = << >>
                                                  /\ hp[t] = lv[t]]

Next == ((\E t \in States : Step(t)) \/ Quiescent) /\ RecordCheck

(* Each state is a running thread and a store buffer drains eventually. *)
Spec == Init /\ [][Next]_allvars /\ \A t \in States : WF_vars(Step(t))

-----------------------------------------------------------------------------
(* l_ck_shared_mut_load never decodes a buffer that freeserialized has    *)
(* freed: the hazard pointer protects it from every store's ck_hp_free.   *)
NoUseAfterFree == \A t \in States : pc[t] = "ld_use" => lv[t] \notin Freed

(* The hazard pointer argument of l_ck_shared_mut_load: a load whose      *)
(* hazard store had drained (no older store of the thread still pending)  *)
(* when its re-check found the pointer unchanged never decodes a freed    *)
(* buffer, though every other store is buffered.                          *)
ProtectedUseSafe ==
  \A t \in States : pc[t] = "ld_use" /\ checkedVisible[t] => lv[t] \notin Freed

(* freeserialized runs at most once per buffer: store retires only the     *)
(* buffer it replaced and the last gc only the current one.                *)
FreedOnce == \A b \in Buffers : frees[b] <= 1

(* Once every state has closed, every buffer ever serialized has been      *)
(* freed: purging the records at lua_close leaks nothing.                  *)
Reclaimed ==
  <>((\A t \in States : pc[t] = "closed") /\ \A b \in 1..nbuf : b \in Freed)
====
