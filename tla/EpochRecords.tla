---------------------------- MODULE EpochRecords ----------------------------
(***************************************************************************)
(* The epoch records behind the serde type cache's hash table              *)
(* (src/stacktrace.h: register_epoch_record, l_ck_epoch_record_gc,         *)
(* serde_ck_free, luaopen_ck_serde).                                        *)
(*                                                                         *)
(* Every Lua state that loads ck takes an epoch record: one recycled from  *)
(* serde_cache_epoch's record list by ck_epoch_recycle, or a fresh one,    *)
(* and then calls ck_epoch_register on it, which pushes it on the list.    *)
(* The record is also stored in the OS thread's thread_serde_cache_record. *)
(* When the hash table grows, ck_ht frees the old map through              *)
(* serde_ck_free(defer), which queues it on thread_serde_cache_record with *)
(* ck_epoch_call.  Nothing polls the epoch: the queued maps are freed by   *)
(* ck_epoch_reclaim when the state closes, before ck_epoch_unregister      *)
(* marks the record free.  Meanwhile any state may be inside               *)
(* ck_ht_get_spmc, reading the map it loaded.                              *)
(*                                                                         *)
(* The behaviour of the ck calls is ck 0.7's: the record list is a         *)
(* ck_stack with a next pointer per record, ck_epoch_register resets the   *)
(* record's pending lists and pushes it, ck_epoch_recycle walks the list   *)
(* from the head and claims the first free record with fetch-and-store,    *)
(* ck_epoch_unregister marks it free and counts it in n_free.              *)
(***************************************************************************)
EXTENDS Naturals, FiniteSets

CONSTANTS
  States,       \* Lua states that load ck, each opened and closed once
  OSThreads,    \* the threads they run on
  ThreadOf,     \* ThreadOf[s]: the thread running state s
  Records,      \* memory for ck_epoch_record_t that malloc can return
  MaxMaps,      \* hash table maps allocated by growth (bounds the model)
  NULL

ASSUME ThreadOf \in [States -> OSThreads]
ASSUME NULL \notin Records
ASSUME MaxMaps \in Nat \ {0}

Maps == 1 .. MaxMaps

VARIABLES
  rstate,       \* record -> "none" (never malloc'd), "USED" or "FREE"
  next,         \* record -> the record below it on the list (record_next)
  head,         \* top of serde_cache_epoch.records
  n_free,       \* serde_cache_epoch.n_free
  pending,      \* record -> maps deferred on it by ck_epoch_call
  tls,          \* thread -> thread_serde_cache_record
  map,          \* the hash table's current map
  freed,        \* maps given back to free()
  lstate,       \* Lua state -> "new", "recycle", "malloc", "register",
                \*              "open", "failed" or "closed"
  cursor,       \* ck_epoch_recycle's position in the list
  rec,          \* the record in the state's CK_EPOCH_RECORD userdata
  reading       \* map a state's ck_ht_get_spmc is probing, or NULL

vars == <<rstate, next, head, n_free, pending, tls, map, freed, lstate,
          cursor, rec, reading>>

-----------------------------------------------------------------------------
(* luaopen_ck_serde -> register_epoch_record: ck_epoch_recycle returns    *)
(* NULL at once when n_free is 0, otherwise it walks the list.            *)
Open(s) ==
  /\ lstate[s] = "new"
  /\ \/ /\ n_free = 0
        /\ lstate' = [lstate EXCEPT ![s] = "malloc"]
        /\ UNCHANGED cursor
     \/ /\ n_free # 0
        /\ lstate' = [lstate EXCEPT ![s] = "recycle"]
        /\ cursor' = [cursor EXCEPT ![s] = head]
  /\ UNCHANGED <<rstate, next, head, n_free, pending, tls, map, freed, rec,
                 reading>>

(* Bug variants of RecycleStep: claiming the record under the cursor      *)
(* without looking at its state, and claiming without counting it out of  *)
(* n_free.                                                                 *)
RecycleClaimsAny(s) ==
  LET r == cursor[s] IN
  /\ lstate[s] = "recycle"
  /\ \/ /\ r = NULL
        /\ lstate' = [lstate EXCEPT ![s] = "malloc"]
        /\ UNCHANGED <<rstate, n_free, rec>>
     \/ /\ r # NULL
        /\ rstate' = [rstate EXCEPT ![r] = "USED"]
        /\ n_free' = IF rstate[r] = "FREE" THEN n_free - 1 ELSE n_free
        /\ rec' = [rec EXCEPT ![s] = r]
        /\ lstate' = [lstate EXCEPT ![s] = "register"]
  /\ UNCHANGED <<next, head, pending, tls, map, freed, cursor, reading>>

RecycleKeepsCount(s) ==
  LET r == cursor[s] IN
  /\ lstate[s] = "recycle"
  /\ \/ /\ r = NULL
        /\ lstate' = [lstate EXCEPT ![s] = "malloc"]
        /\ UNCHANGED <<rstate, cursor, rec>>
     \/ /\ r # NULL
        /\ rstate[r] = "FREE"
        /\ rstate' = [rstate EXCEPT ![r] = "USED"]
        /\ rec' = [rec EXCEPT ![s] = r]
        /\ lstate' = [lstate EXCEPT ![s] = "register"]
        /\ UNCHANGED cursor
     \/ /\ r # NULL
        /\ rstate[r] # "FREE"
        /\ cursor' = [cursor EXCEPT ![s] = next[r]]
        /\ UNCHANGED <<rstate, rec, lstate>>
  /\ UNCHANGED <<n_free, next, head, pending, tls, map, freed, reading>>

(* One iteration of ck_epoch_recycle's CK_STACK_FOREACH: the end of the   *)
(* list returns NULL; a FREE record is claimed by ck_pr_fas_uint (which    *)
(* another recycler may win) and n_free is decremented; otherwise go to   *)
(* the next record.                                                       *)
RecycleStep(s) ==
  LET r == cursor[s] IN
  /\ lstate[s] = "recycle"
  /\ \/ /\ r = NULL
        /\ lstate' = [lstate EXCEPT ![s] = "malloc"]
        /\ UNCHANGED <<rstate, n_free, cursor, rec>>
     \/ /\ r # NULL
        /\ rstate[r] = "FREE"
        /\ rstate' = [rstate EXCEPT ![r] = "USED"]
        /\ n_free' = n_free - 1
        /\ rec' = [rec EXCEPT ![s] = r]
        /\ lstate' = [lstate EXCEPT ![s] = "register"]
        /\ UNCHANGED cursor
     \/ /\ r # NULL
        /\ rstate[r] # "FREE"
        /\ cursor' = [cursor EXCEPT ![s] = next[r]]
        /\ UNCHANGED <<rstate, n_free, rec, lstate>>
  /\ UNCHANGED <<next, head, pending, tls, map, freed, reading>>

(* malloc of a record; on failure luaL_error leaves luaopen.              *)
Malloc(s) ==
  /\ lstate[s] = "malloc"
  /\ \/ \E r \in Records :
          /\ rstate[r] = "none"
          /\ rstate' = [rstate EXCEPT ![r] = "USED"]
          /\ rec' = [rec EXCEPT ![s] = r]
          /\ lstate' = [lstate EXCEPT ![s] = "register"]
     \/ /\ lstate' = [lstate EXCEPT ![s] = "failed"]
        /\ UNCHANGED <<rstate, rec>>
  /\ UNCHANGED <<next, head, n_free, pending, tls, map, freed, cursor,
                 reading>>

(* ck_epoch_register resets the record (its pending lists included) and   *)
(* pushes it with ck_stack_push_upmc; then thread_serde_cache_record =    *)
(* record and the userdata takes it.  The record is pushed whether it     *)
(* came from malloc or from the list.                                     *)
Register(s) ==
  LET r == rec[s] IN
  /\ lstate[s] = "register"
  /\ next' = [next EXCEPT ![r] = head]
  /\ head' = r
  /\ pending' = [pending EXCEPT ![r] = {}]
  /\ tls' = [tls EXCEPT ![ThreadOf[s]] = r]
  /\ lstate' = [lstate EXCEPT ![s] = "open"]
  /\ UNCHANGED <<rstate, n_free, map, freed, cursor, rec, reading>>

(* ck_ht_get_spmc, inside ck_epoch_begin / ck_epoch_end on the thread's   *)
(* record (cache_serde's get:): it loads the table's map and probes it.   *)
BeginGet(s) ==
  /\ lstate[s] = "open"
  /\ reading[s] = NULL
  /\ reading' = [reading EXCEPT ![s] = map]
  /\ UNCHANGED <<rstate, next, head, n_free, pending, tls, map, freed, lstate,
                 cursor, rec>>

EndGet(s) ==
  /\ reading[s] # NULL
  /\ reading' = [reading EXCEPT ![s] = NULL]
  /\ UNCHANGED <<rstate, next, head, n_free, pending, tls, map, freed, lstate,
                 cursor, rec>>

(* ck_ht_put_spmc in cache_serde's locked insert grows the table: the new *)
(* map replaces the old one, which ck_ht frees through serde_ck_free with *)
(* defer: ck_epoch_call on thread_serde_cache_record.                     *)
Grow(s) ==
  LET r == tls[ThreadOf[s]] IN
  /\ lstate[s] = "open"
  /\ reading[s] = NULL
  /\ map < MaxMaps
  /\ map' = map + 1
  /\ pending' = [pending EXCEPT ![r] = @ \cup {map}]
  /\ UNCHANGED <<rstate, next, head, n_free, tls, freed, lstate, cursor, rec,
                 reading>>

(* lua_close collects the record userdata: l_ck_epoch_record_gc calls     *)
(* ck_epoch_reclaim, which runs every callback pending on the record, and *)
(* ck_epoch_unregister, which marks it FREE and increments n_free.        *)
Close(s) ==
  LET r == rec[s] IN
  /\ lstate[s] = "open"
  /\ reading[s] = NULL
  /\ freed' = freed \cup pending[r]
  /\ pending' = [pending EXCEPT ![r] = {}]
  /\ rstate' = [rstate EXCEPT ![r] = "FREE"]
  /\ n_free' = n_free + 1
  /\ lstate' = [lstate EXCEPT ![s] = "closed"]
  /\ UNCHANGED <<next, head, tls, map, cursor, rec, reading>>

-----------------------------------------------------------------------------
(* init_serde_cache registers module_serde_cache_record, which is never   *)
(* unregistered while states run: it is below every other record.         *)
Init ==
  /\ rstate = [r \in Records |-> "none"]
  /\ next = [r \in Records |-> NULL]
  /\ head = NULL
  /\ n_free = 0
  /\ pending = [r \in Records |-> {}]
  /\ tls = [t \in OSThreads |-> NULL]
  /\ map = 1
  /\ freed = {}
  /\ lstate = [s \in States |-> "new"]
  /\ cursor = [s \in States |-> NULL]
  /\ rec = [s \in States |-> NULL]
  /\ reading = [s \in States |-> NULL]

(* Every state has been closed or failed to load ck. *)
Quiescent ==
  /\ \A s \in States : lstate[s] \in {"closed", "failed"}
  /\ UNCHANGED vars

(* A thread runs one C call at a time: states on one thread do not       *)
(* interleave inside luaopen_ck_serde or ck_ht_get_spmc.                   *)
Busy(s) == lstate[s] \in {"recycle", "malloc", "register"} \/ reading[s] # NULL
ThreadFree(s) == \A o \in States : o # s /\ ThreadOf[o] = ThreadOf[s] => ~Busy(o)

Step(s) ==
  /\ ThreadFree(s)
  /\ \/ Open(s) \/ RecycleStep(s) \/ Malloc(s) \/ Register(s)
     \/ BeginGet(s) \/ EndGet(s) \/ Grow(s) \/ Close(s)

Next == (\E s \in States : Step(s)) \/ Quiescent

Spec == Init /\ [][Next]_vars /\ \A s \in States : WF_vars(Step(s))

-----------------------------------------------------------------------------
TypeOK ==
  /\ rstate \in [Records -> {"none", "USED", "FREE"}]
  /\ next \in [Records -> Records \cup {NULL}]
  /\ head \in Records \cup {NULL}
  /\ n_free \in 0 .. Cardinality(Records)
  /\ pending \in [Records -> SUBSET Maps]
  /\ tls \in [OSThreads -> Records \cup {NULL}]
  /\ map \in Maps /\ freed \subseteq Maps
  /\ lstate \in [States -> {"new", "recycle", "malloc", "register", "open",
                             "failed", "closed"}]
  /\ cursor \in [States -> Records \cup {NULL}]
  /\ rec \in [States -> Records \cup {NULL}]
  /\ reading \in [States -> Maps \cup {NULL}]

(* Two open states never hold the same record: the fetch-and-store of     *)
(* ck_epoch_recycle hands a free record to one recycler only.             *)
RecordsExclusive ==
  \A s1, s2 \in States :
    /\ s1 # s2
    /\ lstate[s1] \in {"register", "open"}
    /\ lstate[s2] \in {"register", "open"}
    => rec[s1] # rec[s2]

(* Deferred reclamation (spec.md 4.3): a hash table map is not freed while *)
(* a state's ck_ht_get_spmc may still be reading it.                      *)
NoUseAfterFree ==
  \A s \in States : reading[s] # NULL => reading[s] \notin freed

(* Deferrals go to a record the deferring thread owns: the                *)
(* thread_serde_cache_record of a thread with an open state is the record *)
(* of one of that thread's open states.                                   *)
DeferToOwnRecord ==
  \A s \in States : lstate[s] = "open" =>
    \E o \in States : /\ lstate[o] = "open"
                      /\ ThreadOf[o] = ThreadOf[s]
                      /\ rec[o] = tls[ThreadOf[s]]

(* luaopen_ck_serde returns: a state that starts registering its record   *)
(* is eventually open or has failed.                                      *)
RegistrationReturns ==
  \A s \in States : lstate[s] = "recycle" ~> lstate[s] \in {"open", "failed"}
====
