----------------------------- MODULE SerdeCache -----------------------------
(***************************************************************************)
(* The process-wide custom serde type cache of src/stacktrace.h            *)
(* (serde.c: cache_serde, and the custom branch of loadsharedimpl).        *)
(*                                                                         *)
(* Every thread runs its own Lua state.  Encoding a value whose metatable  *)
(* carries a (serialize, deserialize) pair resolves the pair to a type     *)
(* code: first by identity in the state's own registry table, then by the  *)
(* bytes of the serialized pair in the shared ck_ht hash table, and on a   *)
(* miss by appending the bytes to the serde_cache slot array under a       *)
(* spinlock.  Decoding a custom type code looks the pair up in the         *)
(* decoding state's registry table, or loads it from serde_cache[code -    *)
(* SERDE_CUSTOM].                                                          *)
(*                                                                         *)
(* Data is abstracted: a pair is a model value, the bytes of its encoding  *)
(* are a key (several pairs may encode to the same key, as closures        *)
(* recreated per message do), and a buffer carrying a custom value is the  *)
(* pair of its type code and the key of the pair that wrote it.  The hash  *)
(* table is a function from keys to slot indices; ck_ht_get_spmc and       *)
(* ck_ht_put_spmc are atomic (their memory reclamation is EpochRecords').  *)
(***************************************************************************)
EXTENDS Integers, FiniteSets, TLC

CONSTANTS
  Threads,      \* threads, each running one Lua state that loaded ck
  Pairs,        \* (serialize, deserialize) function pairs held by the states
  Keys,         \* byte encodings of pairs
  KeyOf,        \* KeyOf[p]: the bytes serdebuf_serialize produces for pair p
  MaxOps,       \* encodes plus decodes each thread performs (bounds the model)
  NoThread,     \* the unlocked spinlock
  NoKey         \* a thread that holds no serialized pair

ASSUME KeyOf \in [Pairs -> Keys]
ASSUME MaxOps \in Nat
ASSUME NoThread \notin Threads
ASSUME NoKey \notin Keys

(* enum serde_type (serde.h): the built-in tags are 0 .. SERDE_CUSTOM - 1. *)
SERDE_CUSTOM == 9
(* typedef int8_t serde_type_code *)
TypeCodeBits == 8
(* SERDE_CACHE_CAPACITY == SERDE_TYPE_CODE_MAX + 1 == 1 << 8 *)
SERDE_CACHE_CAPACITY == 2 ^ TypeCodeBits

(* The conversion of an unsigned slot number to serde_type_code: int8_t   *)
(* keeps the low 8 bits as a two's complement number.                     *)
Int8(x) == ((x + 2 ^ (TypeCodeBits - 1)) % 2 ^ TypeCodeBits) - 2 ^ (TypeCodeBits - 1)

(* loadsharedimpl: a negative type code is "invalid type". *)
InvalidType(type) == type < 0

TypeCodes == -(2 ^ (TypeCodeBits - 1)) .. 2 ^ (TypeCodeBits - 1) - 1

(* A pair loaded by the decoder from the bytes of a slot: a new Lua value *)
(* in the decoding state, whose encoding is those bytes again.            *)
Loaded(k) == [loaded |-> k]
PairValues == Pairs \cup {Loaded(k) : k \in Keys}
PairKey(p) == IF p \in Pairs THEN KeyOf[p] ELSE p.loaded

VARIABLES
  serde_cache,      \* slot array: slot index -> key bytes stored there
  serde_cache_len,  \* number of published slots
  types,            \* ck_ht serde_cache_types: key -> slot index
  lock,             \* serde_cache_lock holder
  cache,            \* per state registry table: type code -> pair
  held,             \* pairs of the custom values a state holds
  pc,               \* where each thread is in cache_serde
  pair,             \* the pair being resolved
  key,              \* the serialized pair (the hash table key)
  err,              \* cache_serde's local error
  idx,              \* cache_serde's local i
  putok,            \* result of ck_ht_put_spmc
  ops,              \* operations performed per thread
  sent,             \* buffers in flight: <<type code, key of the encoder's pair>>
  decodes           \* history: results of decoding a custom value

vars == <<serde_cache, serde_cache_len, types, lock, cache, held, pc, pair,
          key, err, idx, putok, ops, sent, decodes>>

ENOMEM == 12

(* The inputs: a state can encode any custom value it holds and decode   *)
(* any buffer in flight.  A model may restrict them to one order.         *)
Encodable(t) == held[t]
Decodable(t) == sent

-----------------------------------------------------------------------------
(* Returning from cache_serde to serdebuf_serialize (serdebuf.c), which on *)
(* success writes the type code over the tag byte and runs the value's     *)
(* serialize method through lua_pcall; when that succeeds the buffer is    *)
(* finalized and handed to another state (a ring, fifo or shared value).   *)
Emit(t, code, k) ==
  \/ sent' = sent \cup {<<code, k>>}
  \/ UNCHANGED sent                       \* serialize method raised an error

Finish(t) ==
  /\ pc' = [pc EXCEPT ![t] = "idle"]
  /\ ops' = [ops EXCEPT ![t] = @ + 1]

(* serdebuf_serialize case SERDE_CUSTOM, cache_serde up to the registry   *)
(* scan: a pair already in this state's table resolves to its type code.  *)
EncodeCustom(t) ==
  /\ pc[t] = "idle"
  /\ ops[t] < MaxOps
  /\ \E p \in Encodable(t) :
       IF \E c \in DOMAIN cache[t] : cache[t][c] = p
       THEN LET c == CHOOSE c \in DOMAIN cache[t] : cache[t][c] = p
            IN /\ Emit(t, c, PairKey(p))
               /\ Finish(t)
               /\ UNCHANGED <<pair, key, err>>
       ELSE /\ pc' = [pc EXCEPT ![t] = "build"]
            /\ pair' = [pair EXCEPT ![t] = p]
            /\ UNCHANGED <<ops, sent, key, err>>
  /\ UNCHANGED <<serde_cache, serde_cache_len, types, lock, cache, held, idx,
                 putok, decodes>>

(* serdebuf_init and two serdebuf_serialize calls on the pair, then       *)
(* serdebuf_finalize.  Fails with ENOMEM, EINVAL (an upvalue that is a    *)
(* function or table) or EOVERFLOW (longer than UINT16_MAX).              *)
BuildKey(t) ==
  /\ pc[t] = "build"
  /\ \/ /\ key' = [key EXCEPT ![t] = PairKey(pair[t])]
        /\ err' = [err EXCEPT ![t] = 0]
        /\ pc' = [pc EXCEPT ![t] = "get"]
        /\ UNCHANGED ops
     \/ /\ Finish(t)
        /\ UNCHANGED <<key, err>>
  /\ UNCHANGED <<serde_cache, serde_cache_len, types, lock, cache, held, pair,
                 idx, putok, sent, decodes>>

(* get: ck_ht_get_spmc inside an epoch section.  A hit frees the key and  *)
(* takes the slot index from the entry; a miss after a failed put returns  *)
(* the saved error; a first miss goes on to insert.                        *)
Get(t) ==
  /\ pc[t] = "get"
  /\ \/ /\ key[t] \in DOMAIN types
        /\ idx' = [idx EXCEPT ![t] = types[key[t]]]
        /\ pc' = [pc EXCEPT ![t] = "success"]
        /\ UNCHANGED ops
     \/ /\ key[t] \notin DOMAIN types
        /\ err[t] # 0
        /\ Finish(t)
        /\ UNCHANGED idx
     \/ /\ key[t] \notin DOMAIN types
        /\ err[t] = 0
        /\ pc' = [pc EXCEPT ![t] = "lock"]
        /\ UNCHANGED <<ops, idx>>
  /\ UNCHANGED <<serde_cache, serde_cache_len, types, lock, cache, held, pair,
                 key, err, putok, sent, decodes>>

(* ck_spinlock_lock(&serde_cache_lock) *)
Lock(t) ==
  /\ pc[t] = "lock"
  /\ lock = NoThread
  /\ lock' = t
  /\ pc' = [pc EXCEPT ![t] = "put"]
  /\ UNCHANGED <<serde_cache, serde_cache_len, types, cache, held, pair, key,
                 err, idx, putok, ops, sent, decodes>>

(* Bug variant of WriteSlot: i = serde_cache_len - 1 (off by one). *)
WriteSlotOffByOne(t) ==
  LET i == serde_cache_len - 1 IN
  /\ pc[t] = "put"
  /\ idx' = [idx EXCEPT ![t] = i]
  /\ serde_cache' = (i :> key[t]) @@ serde_cache
  /\ pc' = [pc EXCEPT ![t] = "publish"]
  /\ UNCHANGED <<serde_cache_len, types, lock, cache, held, pair, key, err,
                 putok, ops, sent, decodes>>

(* i = serde_cache_len; serde_cache[i] = serialized.  The slot is written *)
(* before the hash table publishes the key, and serde_cache_len is raised  *)
(* only at unlock, so readers never see the slot as published yet.        *)
WriteSlot(t) ==
  LET i == serde_cache_len IN
  /\ pc[t] = "put"
  /\ idx' = [idx EXCEPT ![t] = i]
  /\ serde_cache' = (i :> key[t]) @@ serde_cache
  /\ pc' = [pc EXCEPT ![t] = "publish"]
  /\ UNCHANGED <<serde_cache_len, types, lock, cache, held, pair, key, err,
                 putok, ops, sent, decodes>>

(* Bug variant of PutSpmc: a put that replaces an existing key instead of *)
(* failing.                                                               *)
PutSpmcReplaces(t) ==
  /\ pc[t] = "publish"
  /\ types' = [k \in DOMAIN types \cup {key[t]} |->
                 IF k = key[t] THEN idx[t] ELSE types[k]]
  /\ putok' = [putok EXCEPT ![t] = TRUE]
  /\ pc' = [pc EXCEPT ![t] = "unlock"]
  /\ UNCHANGED <<serde_cache, serde_cache_len, lock, cache, held, pair, key,
                 err, idx, ops, sent, decodes>>

(* ck_ht_put_spmc(&serde_cache_types, hash, &entry) with value i.  Put    *)
(* fails when the key is present (another thread inserted it since our     *)
(* get) or when growing the table cannot allocate.  The key of a failed   *)
(* put is freed by the retried get, so its slot is left dangling (Freed). *)
PutSpmc(t) ==
  /\ pc[t] = "publish"
  /\ \/ /\ key[t] \notin DOMAIN types
        /\ types' = (key[t] :> idx[t]) @@ types
        /\ putok' = [putok EXCEPT ![t] = TRUE]
        /\ UNCHANGED serde_cache
     \/ /\ serde_cache' = (idx[t] :> "Freed") @@ serde_cache
        /\ putok' = [putok EXCEPT ![t] = FALSE]
        /\ UNCHANGED types
  /\ pc' = [pc EXCEPT ![t] = "unlock"]
  /\ UNCHANGED <<serde_cache_len, lock, cache, held, pair, key, err, idx,
                 ops, sent, decodes>>

(* Bug variant of Put: the store to serde_cache[i] sinks below the        *)
(* publishing put (a compiler or a weakly ordered CPU reordering the two   *)
(* plain stores without ck_ht's store fence between them).                *)
PublishFirst(t) ==
  LET i == serde_cache_len IN
  /\ pc[t] = "put"
  /\ idx' = [idx EXCEPT ![t] = i]
  /\ \/ /\ key[t] \notin DOMAIN types
        /\ types' = (key[t] :> i) @@ types
        /\ putok' = [putok EXCEPT ![t] = TRUE]
     \/ /\ putok' = [putok EXCEPT ![t] = FALSE]
        /\ UNCHANGED types
  /\ pc' = [pc EXCEPT ![t] = "publish"]
  /\ UNCHANGED <<serde_cache, serde_cache_len, lock, cache, held, pair, key,
                 err, ops, sent, decodes>>

WriteSlotLast(t) ==
  /\ pc[t] = "publish"
  /\ serde_cache' = (idx[t] :> IF putok[t] THEN key[t] ELSE "Freed")
                       @@ serde_cache
  /\ pc' = [pc EXCEPT ![t] = "unlock"]
  /\ UNCHANGED <<serde_cache_len, types, lock, cache, held, pair, key, err,
                 idx, putok, ops, sent, decodes>>

PutReordered(t) == PublishFirst(t) \/ WriteSlotLast(t)

(* The insert under the spinlock: write the slot, then publish the key.  *)
Put(t) == WriteSlot(t) \/ PutSpmc(t)

(* Bug variants of Unlock: a missing ++serde_cache_len, and a failure    *)
(* path that keeps the lock.                                               *)
UnlockNoIncrement(t) ==
  /\ pc[t] = "unlock"
  /\ lock' = NoThread
  /\ pc' = [pc EXCEPT ![t] = IF putok[t] THEN "success" ELSE "get"]
  /\ err' = [err EXCEPT ![t] = IF putok[t] THEN @ ELSE ENOMEM]
  /\ UNCHANGED <<serde_cache, serde_cache_len, types, cache, held, pair, key,
                 idx, putok, ops, sent, decodes>>

UnlockKeepsLockOnFailure(t) ==
  /\ pc[t] = "unlock"
  /\ \/ /\ putok[t]
        /\ lock' = NoThread
        /\ serde_cache_len' = serde_cache_len + 1
        /\ pc' = [pc EXCEPT ![t] = "success"]
        /\ UNCHANGED err
     \/ /\ ~putok[t]
        /\ err' = [err EXCEPT ![t] = ENOMEM]
        /\ pc' = [pc EXCEPT ![t] = "get"]
        /\ UNCHANGED <<serde_cache_len, lock>>
  /\ UNCHANGED <<serde_cache, types, cache, held, pair, key, idx, putok, ops,
                 sent, decodes>>

(* if (ok) ++serde_cache_len; ck_spinlock_unlock; on failure error =      *)
(* ENOMEM and goto get.                                                    *)
Unlock(t) ==
  /\ pc[t] = "unlock"
  /\ lock' = NoThread
  /\ \/ /\ putok[t]
        /\ serde_cache_len' = serde_cache_len + 1
        /\ pc' = [pc EXCEPT ![t] = "success"]
        /\ UNCHANGED err
     \/ /\ ~putok[t]
        /\ err' = [err EXCEPT ![t] = ENOMEM]
        /\ pc' = [pc EXCEPT ![t] = "get"]
        /\ UNCHANGED serde_cache_len
  /\ UNCHANGED <<serde_cache, types, cache, held, pair, key, idx, putok, ops,
                 sent, decodes>>

(* success: type = i + SERDE_CUSTOM, narrowed to serde_type_code; the     *)
(* state's registry table gets cache[type] = {serialize, deserialize}.    *)
Success(t) ==
  LET type == Int8(idx[t] + SERDE_CUSTOM) IN
  /\ pc[t] = "success"
  /\ cache' = [cache EXCEPT ![t] = (type :> pair[t]) @@ @]
  /\ Emit(t, type, key[t])
  /\ Finish(t)
  /\ UNCHANGED <<serde_cache, serde_cache_len, types, lock, held, pair, key,
                 err, idx, putok, decodes>>

(* Bug variant of Decode: indexing serde_cache by the type code itself,  *)
(* without subtracting SERDE_CUSTOM.                                       *)
DecodeUnshifted(t) ==
  /\ pc[t] = "idle"
  /\ ops[t] < MaxOps
  /\ \E m \in Decodable(t) :
       LET type == m[1]
           slot == type
       IN /\ type \notin DOMAIN cache[t]
          /\ IF slot \in DOMAIN serde_cache /\ serde_cache[slot] \in Keys
             THEN /\ cache' = [cache EXCEPT ![t] = (type :> Loaded(serde_cache[slot])) @@ @]
                  /\ decodes' = decodes \cup
                       {[type |-> type, sent |-> m[2], got |-> serde_cache[slot],
                         why |-> "loaded"]}
             ELSE /\ decodes' = decodes \cup
                       {[type |-> type, sent |-> m[2], got |-> NoKey,
                         why |-> "unpublished slot"]}
                  /\ UNCHANGED cache
  /\ Finish(t)
  /\ UNCHANGED <<serde_cache, serde_cache_len, types, lock, held, pair, key,
                 err, idx, putok, sent>>

(* loadsharedimpl on a custom value: a negative type is rejected; a type  *)
(* in the state's registry table uses its deserialize; otherwise the pair *)
(* is loaded from serde_cache[type - SERDE_CUSTOM] and cached before the  *)
(* deserialize method runs.  The result records the key of the pair the   *)
(* value ends up with, or why there is none.                              *)
Decode(t) ==
  /\ pc[t] = "idle"
  /\ ops[t] < MaxOps
  /\ \E m \in Decodable(t) :
       LET type == m[1]
           slot == type - SERDE_CUSTOM
           Record(got, why) == decodes' = decodes \cup
                     {[type |-> type, sent |-> m[2], got |-> got, why |-> why]}
           Deserialize(p) == \/ held' = [held EXCEPT ![t] = @ \cup {p}]
                             \/ UNCHANGED held  \* deserialize raised an error
       IN \/ /\ InvalidType(type)
             /\ Record(NoKey, "invalid type")
             /\ UNCHANGED <<cache, held>>
          \/ /\ ~InvalidType(type)
             /\ type \in DOMAIN cache[t]
             /\ Record(PairKey(cache[t][type]), "cached")
             /\ Deserialize(cache[t][type])
             /\ UNCHANGED cache
          \/ /\ ~InvalidType(type)
             /\ type \notin DOMAIN cache[t]
             /\ IF slot \in DOMAIN serde_cache /\ serde_cache[slot] \in Keys
                THEN LET p == Loaded(serde_cache[slot]) IN
                     \/ /\ cache' = [cache EXCEPT ![t] = (type :> p) @@ @]
                        /\ Record(serde_cache[slot], "loaded")
                        /\ Deserialize(p)
                     \/ /\ UNCHANGED <<cache, held, decodes>> \* loadshared failed
                ELSE /\ Record(NoKey, "unpublished slot")
                     /\ UNCHANGED <<cache, held>>
  /\ Finish(t)
  /\ UNCHANGED <<serde_cache, serde_cache_len, types, lock, pair, key, err,
                 idx, putok, sent>>

-----------------------------------------------------------------------------
Init ==
  /\ serde_cache = <<>>
  /\ serde_cache_len = 0
  /\ types = <<>>
  /\ lock = NoThread
  /\ cache = [t \in Threads |-> <<>>]
  /\ held = [t \in Threads |-> Pairs]
  /\ pc = [t \in Threads |-> "idle"]
  /\ pair = [t \in Threads |-> CHOOSE p \in Pairs : TRUE]
  /\ key = [t \in Threads |-> NoKey]
  /\ err = [t \in Threads |-> 0]
  /\ idx = [t \in Threads |-> 0]
  /\ putok = [t \in Threads |-> FALSE]
  /\ ops = [t \in Threads |-> 0]
  /\ sent = {}
  /\ decodes = {}

(* Every thread has used up its operations and left cache_serde. *)
Quiescent ==
  /\ \A t \in Threads : pc[t] = "idle" /\ ops[t] = MaxOps
  /\ UNCHANGED vars

Step(t) ==
  \/ EncodeCustom(t) \/ BuildKey(t) \/ Get(t) \/ Lock(t) \/ Put(t)
  \/ Unlock(t) \/ Success(t) \/ Decode(t)

Next == (\E t \in Threads : Step(t)) \/ Quiescent

(* Each thread keeps running while it has work: weak fairness per thread. *)
Spec == Init /\ [][Next]_vars /\ \A t \in Threads : WF_vars(Step(t))
-----------------------------------------------------------------------------
TypeOK ==
  /\ serde_cache_len \in 0 .. SERDE_CACHE_CAPACITY
  /\ DOMAIN types \subseteq Keys
  /\ lock \in Threads \cup {NoThread}
  /\ \A t \in Threads :
       /\ DOMAIN cache[t] \subseteq TypeCodes
       /\ \A c \in DOMAIN cache[t] : cache[t][c] \in PairValues
       /\ held[t] \subseteq PairValues
       /\ pc[t] \in {"idle", "build", "get", "lock", "put", "publish", "unlock",
                  "success"}
       /\ ops[t] \in 0 .. MaxOps
       /\ key[t] \in Keys \cup {NoKey}
       /\ err[t] \in {0, ENOMEM}
       /\ idx[t] \in Nat
       /\ putok[t] \in BOOLEAN
  /\ sent \subseteq TypeCodes \X Keys

(* Idempotent, shared resolution: whichever thread resolves a pair, and   *)
(* however the get / put / retried get of cache_serde interleave with      *)
(* other threads registering the same bytes, equal serialized pairs get   *)
(* one type code and different ones get different codes.                   *)
CodeAgreement ==
  \A a, b \in sent : (a[2] = b[2]) <=> (a[1] = b[1])

(* Every entry a state's registry table caches under a type code, by       *)
(* cache_serde's success path or by the decoder, holds a pair whose bytes  *)
(* are the ones serde_cache[type - SERDE_CUSTOM] holds: the per-state      *)
(* cache never disagrees with the shared slot array.                       *)
LocalCacheSound ==
  \A t \in Threads : \A c \in DOMAIN cache[t] :
    LET s == c - SERDE_CUSTOM IN
    /\ s \in DOMAIN serde_cache
    /\ serde_cache[s] = PairKey(cache[t][c])

(* Round trip of the custom type tag: a value decoded from a buffer, in   *)
(* any state, gets a pair with the same bytes as the pair that encoded it *)
(* (never "invalid type", never a slot that was not published).           *)
CustomRoundTrip ==
  \A d \in decodes : d.got = d.sent

(* Cache monotonicity: once the hash table maps a key to a slot, neither  *)
(* the mapping nor the slot changes again, and serde_cache_len never      *)
(* shrinks: a slot is written before ck_ht_put_spmc publishes it.         *)
PublishedStable ==
  [][/\ serde_cache_len' >= serde_cache_len
     /\ \A k \in DOMAIN types :
          /\ k \in DOMAIN types'
          /\ types'[k] = types[k]
          /\ serde_cache'[types[k]] = serde_cache[types[k]]]_vars

(* Every call of cache_serde returns: the spinlock holder always unlocks  *)
(* and a failed put retries get at most once.                             *)
ResolutionReturns ==
  \A t \in Threads : pc[t] = "build" ~> pc[t] = "idle"
====
