# TLA+ models of flua-ck

flua-ck is a Lua module that wraps ConcurrencyKit (ck) so that Lua states running
on different threads can share data. Values cross threads as *serialized
buffers*. The serializer ("serde") and its custom type cache are the centre of
the system. Rings, fifos and shared values move the buffers between states.

## The system

The sources are concatenated into a few files. The line ranges below are the
ones the map in `PROJECT.json` refers to.
The abstract specifications `SharedCell`, `BoundedQueue` and
`AtomicRegister` state what a component promises. They translate no code and
have no map entries.

| Part | Source | State | Operations |
|---|---|---|---|
| serde custom type cache | `src/stacktrace.h` 66–335, 466–571 (serde.c) | global `serde_cache[256]` slot array, `serde_cache_len`, the `ck_ht` table `serde_cache_types` (key bytes → slot), `serde_cache_lock` (spinlock), a per-Lua-state registry table (type code → `{serialize, deserialize}`) | `cache_serde`, the custom branch of `loadsharedimpl`, `init_serde_cache`, `fini_serde_cache` |
| epoch records | `src/stacktrace.h` 79–189 | `serde_cache_epoch`, one `ck_epoch_record` per thread (`thread_serde_cache_record`), deferred frees of hash table maps | `register_epoch_record` (recycle or malloc, then register), `l_ck_epoch_record_gc` (reclaim, unregister), `serde_ck_free` |
| serde codec | `src/serdebuf.c` 1–368, `src/stacktrace.h` 337–552 | a growable buffer (`serdebuf`) with saved offsets for backpatching | append / resize, serialize (per type tag, upvalues, dump, custom), finalize; `loadsharedimpl`, `loadclosure`, `setupvalues` |
| shared.const / shared.mut | `src/serdebuf.c` 838–1186, `src/refcount.h` | a reference-counted cell holding a serialized buffer; hazard pointer records per thread | new, retain, gc, load, store; `register_hp_record`, `l_ck_hp_record_gc` |
| fifo (spsc, mpmc) | `src/serdebuf.c` 369–837 | ck fifo of buffer pointers, reference count | new, retain, gc, enqueue (serialize, finalize, enqueue), dequeue (load, free) |
| ring (spsc, mpmc, spmc, mpsc) | `src/ring.c` 1–645, `src/common.h`, `src/refcount.h` | ck ring of buffer pointers with a fixed size | the same as fifo, and a full ring frees the buffer |
| sequence lock | `src/sequence.c` | a reference-counted `ck_sequence_t` (`rcsequence`) | new, retain, gc, read_begin, read_retry, write_begin, write_end |
| shared.pr.md128 | `src/serdebuf.c` 1436–1980 | a reference-counted 16-byte value (`rcsharedpr128`: a union of typed arrays, then `refs`) | new, retain, gc, view and element operations (load, store, cas, add, ...) |
| ec, shared.pr | `src/unnamed/part_000`, `src/serdebuf.c` 1188–1435 | one ck object per userdata | each binding is a single ck call |

The parts interact like this:

- Encoding a value with a serde metatable calls `cache_serde`. That function
  gives the (serialize, deserialize) pair a small integer type code, shared by
  every thread, which is written as the value's tag.
- Any other state that decodes the buffer maps the tag back to the pair. It
  looks in its own registry table first, and otherwise loads the pair from the
  slot array.
- Inserting into the hash table may grow it. The old map is freed through the
  epoch of the thread that caused the growth.
- shared.mut frees replaced buffers through hazard pointers.

Hard behaviours in this code:

- Threads racing to register the same type.
- Lock-free readers of the hash table and of `serde_cache` slots.
- Epoch records and hazard pointer records recycled across thread lifetimes.
- Frees deferred until readers leave.
- The int8 width of type codes.
- Error paths in the middle of building a buffer.

## What is modelled

### `SerdeCache.tla`: the custom type cache

The module models `cache_serde` and the custom branch of `loadsharedimpl`,
under any number of threads. Each thread runs one Lua state.

Data is abstracted as follows:

- A pair is a model value.
- The bytes of a serialized pair are a key (`KeyOf`). Several pairs may have
  the same key, as the closures that pfetch recreates for every message do.
- The hash table is a function from keys to slots.
- A buffer in flight is a `<<type code, key>>` pair.

The variables keep the source's names: `serde_cache`, `serde_cache_len`,
`types` (`serde_cache_types`), `lock`, and `cache` (each state's registry
table). The thread-local variables are `pc`, `pair`, `key`, `err`, `idx` and
`putok`, which are the locals of `cache_serde`.

Each action is one step of the code:

| Action | Code |
|---|---|
| `EncodeCustom` | the registry scan by identity |
| `BuildKey` | serializing the pair; its errors return |
| `Get` | `get:` in an epoch section: hit, error return, or go on to insert |
| `Lock` | spinlock acquire |
| `WriteSlot` | `i = serde_cache_len; serde_cache[i] = serialized` |
| `PutSpmc` | `ck_ht_put_spmc`: fails on a present key or on allocation failure |
| `Unlock` | `++serde_cache_len` if the put succeeded, unlock, and on failure `error = ENOMEM; goto get` |
| `Success` | the narrowing to `serde_type_code` and `cache[type] = {ser, de}` |
| `Emit` | the custom serializer's pcall, which may raise, and the hand-off of the buffer |
| `Decode` | a negative tag is "invalid type"; otherwise the registry table, or a load from the slot, cached before the deserializer's pcall |

`Put` is `WriteSlot` then `PutSpmc`: the slot store and the publication are
separate steps, so other threads run between them, as in the code.
`ck_ht_get_spmc` and `ck_ht_put_spmc` are atomic steps. The hash table's
memory reclamation belongs to the epoch component and is not modelled here.

Properties:

- `CodeAgreement`: equal bytes get one code in every state, and different bytes
  get different codes.
- `LocalCacheSound`: every registry entry matches its slot. A put that
  published the key before storing the slot (mutant `PutReordered`) lets a
  second thread hit the key and cache a code whose slot is still empty.
- `CustomRoundTrip`: a decoded value gets a pair with the encoder's bytes. It is
  never "invalid type" and never an unpublished slot.
- `PublishedStable` (an action property): a published key and its slot never
  change, and `serde_cache_len` never shrinks.
- `ResolutionReturns` (liveness): every call of `cache_serde` returns.

### `EpochRecords.tla`: epoch records and the hash table's deferred frees

This module models `register_epoch_record`, `l_ck_epoch_record_gc`,
`serde_ck_free(defer)` and the readers of the hash table. A Lua state is
opened once and closed once (`States`). It runs on an OS thread (`ThreadOf`),
which holds `thread_serde_cache_record` (`tls`).

The ck calls are modelled by what ck 0.7 does:

- The record list is a stack with `next` pointers and a `head`.
- `ck_epoch_recycle` returns NULL when `n_free` is 0. Otherwise it walks the
  list one record per step (`RecycleStep`) and claims a FREE record by
  fetch-and-store.
- `ck_epoch_register` resets the record and pushes it (`Register`).
- `ck_epoch_reclaim` runs every pending free (`Close`).
- `ck_epoch_unregister` marks the record FREE and increments `n_free` (`Close`).

Hash table growth (`Grow`) defers the old map onto the thread's record.
`BeginGet` / `EndGet` are a `ck_ht_get_spmc` probing the map it loaded. States
of one thread never interleave inside a C call (`ThreadFree`).

Properties:

- `RecordsExclusive`: no two live states hold one record.
- `RegistrationReturns` (liveness): a recycler always returns.
- `NoUseAfterFree`: a map is not freed while it is being read. This is
  spec.md §4.3.
- `DeferToOwnRecord`: the thread's record belongs to one of its open states.

Runs (`MC_EpochRecords`): three states, `s1` and `s2` on thread `T1`; two
records; three maps. This is enough for two recyclers to race for one record,
for a read to overlap a growth and a close, and for two states on one thread.

- **`epoch_records`** (pass, about 8,800 states): `RecordsExclusive`. The
  fetch-and-store gives a record to one recycler only.
- **`epoch_recycle_hang`** (violation of `RegistrationReturns`):
  1. s2 opens and closes.
  2. s1 and s3 both start recycling.
  3. s3 claims `r1` and registers it again, so `next[r1] = r1`.
  4. s1, which started its walk when `n_free` was 1, walks `r1` forever.

  The repository's lldb script describes this cycle for hazard pointer
  records. The hazard pointer path was fixed, but the epoch path was not.
- **`epoch_reclaim_uaf`** (violation of `NoUseAfterFree`): one state grows the
  table while another is inside `ck_ht_get_spmc` on the old map. The grower
  closes, and `ck_epoch_reclaim` frees the map at once. Nothing in the module
  ever waits for a grace period (no `ck_epoch_synchronize` or `poll`).
- **`epoch_tls_stale`** (violation of `DeferToOwnRecord`): s2 opens on s1's
  thread, overwrites `thread_serde_cache_record` and closes. The thread keeps
  deferring onto a FREE record.

Fairness is weak fairness per state. A state keeps executing the C call it is
in, but it is never forced to close.

### `SharedMut.tla` and `SharedCell.tla`: shared.mut and its hazard pointers

`SharedCell` is what `ck.shared.mut` promises. It is a reference-counted cell
holding one value. Each operation is atomic: new, retain (through a cookie),
release (the last one destroys the cell), store, and load.

`SharedMut` models the handlers in `src/serdebuf.c` for one shared object used
by several Lua states, each on its own thread:

| Action | Code |
|---|---|
| `New` | `newshared`: serialize the value into a buffer, `refcount_init` |
| `Retain` | `retainshared`: `refcount_retain` on a cookie from a state that still holds its handle, as `tests/testmut.lua` does |
| `LoadBegin`, `ProtectLoad`, `ProtectSet`, `ProtectCheck`, `LoadUse`, `LoadClear` | `l_ck_shared_mut_load`, one step per statement: load the pointer, `ck_hp_set`, re-check, `loadshared`, clear the hazard |
| `StoreBegin`, `StoreFas`, `StoreFree` | `l_ck_shared_mut_store`: serialize (which may fail before anything is published), `ck_pr_fas_ptr`, `ck_hp_free` of the old buffer |
| `GcRelease`, the `gc_*` protect steps, `GcFree` | `l_ck_shared_mut_gc`: `refcount_release` and `invalidate`. The last release protects the current buffer, retires it, clears the hazard and frees `sharedp` |
| `Close`, `Purge` | `lua_close` running `l_ck_hp_record_gc`: `ck_hp_purge` spins on `ck_hp_reclaim`, then `ck_hp_unregister` |
| `Flush` | the hardware draining the oldest store of a thread's store buffer |

ck's hazard pointer calls are modelled by what ck 0.7 does:

- `ck_hp_free` with `HP_THRESHOLD` 1 pushes the buffer and reclaims at once.
- `ck_hp_reclaim` frees every pending buffer that no non-FREE record's
  visible hazard pointer names (`Reclaim`).
- `ck_hp_set` is a plain store (`HpSet`).

With the constant `StoreBuffering` TRUE, a plain store goes into the thread's
FIFO store buffer, as on x86-TSO. A locked instruction of that thread drains
the buffer. The locked instructions here are the fetch-and-store, and the
atomic add of retain, release and unregister.

Each state's record is registered when the model starts (`register_hp_record`
in `luaopen_ck_shared`). Recycling a FREE record for a later state is not
modelled; EpochRecords covers that pattern for epoch records.

Buffers are numbers `1..MaxBuffers` with the value serialized into them. A
buffer's `frees` count records each run of `freeserialized`.

Properties:

- `NoUseAfterFree`: `loadshared` never decodes a freed buffer.
- `ProtectedUseSafe`: the hazard pointer argument itself. A load whose store
  buffer had drained when its re-check passed never decodes a freed buffer,
  even though every other store is buffered. This is what `ck_hp_set_fence`
  would guarantee. A history variable, `checkedVisible`, records the condition
  at the re-check. A first version asked only that the hazard be *visible* at
  the re-check. TLC refuted it: the value visible can be the same pointer left
  by the previous load, with that load's clearing `NULL` store still buffered
  behind it.
- `FreedOnce`: no buffer is freed twice.
- `Reclaimed` (liveness): when every state has closed, every buffer has been
  freed.
- `CellSpec` (refinement, in `MC_SharedMut`): the handlers implement
  `SharedCell`. The refinement mapping:
  - the cell's value is the content of `sharedp->serialized`, and it is
    "gone" once the count reaches 0;
  - the holders are the states with a live handle;
  - a load's result is fixed at its successful re-check, and a store takes
    effect at its fetch-and-store.

Runs (`MC_SharedMut`): two states and two values, four buffers, three
operations per state. That is enough for a load to overlap a store by the other
state, for a store to race the other state's last gc, and for a state to close
while the other state's hazard still protects one of its retired buffers. The
runs take about 2 min 20 s and 1 s.

- **`shared_mut`** (pass, TSO, about 377,000 states, 2 min 20 s):
  `MCTypeOK`, `FreedOnce`, `ProtectedUseSafe`, `MutReclaimed` and
  `CellSpec`, and the sequence lock's `SeqRegister` and `SeqReadersReturn`
  (see `Sequence.tla` below). `MCTypeOK` is the type invariant of both
  modules. `MutReclaimed` is `Reclaimed` in every behaviour whose program
  uses the shared.mut cell rather than the sequence lock. Store buffering
  breaks none of them. The protocol is correct once the hazard store has
  drained before the re-check.
- **`shared_mut_tso`** (violation of `NoUseAfterFree`):
  1. b loads the pointer to buffer 1.
  2. b's `ck_hp_set` is still buffered when its re-check passes.
  3. a exchanges the pointer, and its `ck_hp_free` scan sees no hazard and
     frees buffer 1.
  4. b decodes buffer 1 after it was freed.

  This is a **code bug** at `src/serdebuf.c:1143` (and 1112 in gc, which is
  harmless there because the gc runs on the last handle). The code should use
  `ck_hp_set_fence`.

Fairness is weak fairness per state (each is a running thread) covering its
store buffer flush, which hardware guarantees. Each state does a bounded number
of operations, after which collecting its handle and closing are its only
steps.

Mutants:

- gc without `invalidate` (`MCTypeOK`);
- store retiring the new buffer instead of the old one (`FreedOnce`);
- a single `ck_hp_reclaim` instead of `ck_hp_purge` at close (`MutReclaimed`);
- the protect loop without its re-check (`CellSpec`);
- the hazard cleared before `loadshared` (`ProtectedUseSafe`).

### `Sequence.tla` and `AtomicRegister.tla`: ck.sequence

`ck.sequence` (`src/sequence.c`) wraps a `ck_sequence_t` in a
reference-counted `rcsequence`. Its methods are one ck call each; what can go
wrong is in how a program combines them. So `Sequence` models the binding
together with the program the lock is made for:

- the `Writer` thread updates a datum of two words (two `Values`) between
  `write_begin` and `write_end`;
- every other thread copies the two words one at a time between
  `read_begin` and `read_retry`, and keeps its copy only when `read_retry`
  returns false.

The binding has no writer lock. Writers must be serialized by the program,
and the model has a single writer.

| Action | Code |
|---|---|
| `New`, `Retain`, `Release` | `l_ck_sequence_new`, `_retain`, `_gc` (refcount; the last release frees, with no `invalidate`) |
| `ReadBegin`, `ReadBeginLoad` | `l_ck_sequence_read_begin`; `ck_sequence_read_begin` waits for an even sequence and returns it |
| `ReadRetry` | `l_ck_sequence_read_retry`: the version back from a Lua integer (`% Word`), `sequence != version` |
| `WriteBegin`, `WriteEnd` | `l_ck_sequence_write_begin` / `_end`: each stores `sequence + 1` |
| `CopyWord`, `StoreWord` | the program's accesses to the protected words |

ck_sequence is not in this repository; its operations are modelled from
`ck_sequence.h` (marked `spec_modelled` where an action is ck's alone).

`AtomicRegister` is what the lock promises: a datum that is written whole
and read whole. The refinement mapping:
- `reg` is the writer's new datum from `write_begin` on, and the stored
  datum otherwise;
- `read` is each reader's last validated copy.

Properties, checked in `MC_SharedMut` (the same two states either use a
shared.mut or a sequence lock, whichever their first step creates):

- `SeqRegister`: the refinement. No validated copy is a torn mix of two
  writes.
- `SeqReadersReturn` (liveness): every `read_begin` returns. A reader that
  starts during a write waits for `write_end`.

Bounds: one writer, one reader, one-bit words, three `read_begin` /
`write_begin` calls per thread. That is enough for a read to start during a
write, to copy one word before and one after a whole write, and to retry.
Alone, the sequence lock has about 20,000 states.

Fairness: weak fairness on each thread's steps once it has begun a read or a
write. The writer's program has no error path between `write_begin` and
`write_end`. A Lua error there would leave the sequence odd, and every
reader would spin in `read_begin` for ever (see Not modelled).

Mutants:

- `read_retry` that only tests for an odd sequence, not a change since
  `read_begin` (`SeqRegister`);
- `write_end` that does not store (`SeqReadersReturn`).

### `SerdeCodec.tla`: encoding and decoding one value

The module follows one value from a producer to a consumer. `Serialize` is
`serialize()` (`src/serdebuf.c` 962–989). `Deserialize` is `loadshared`
(`src/stacktrace.h` 543–552), which is how `shared.const`/`shared.mut` load and
the channels dequeue. The encoder and decoder are RECURSIVE operators named
after the C functions they translate.

| Operator | Code |
|---|---|
| `serde_type`, `serde_type_size`, `Width` | `serde_type`, the size table, and `sizeof` on amd64 |
| `serdebuf_init`, `serdebuf_append`, `serdebuf_roundup` | the initial capacity, growth (double, raised to the need, rounded to a cache line or page), and `mempcpy` |
| `serdebuf_serialize`, `SerializeUps`, `serdebuf_serialize_upvalues`, `serdebuf_dump`, `Backpatch` | the per-tag encoder, the upvalue loop with its `lua_type` check, and the count and size placeholders patched through saved offsets |
| `consume`, `loadsharedimpl`, `LoadUps`, `loadupvalues`, `Loaded`, `SetUps`, `setupvalues` | the decoder on a model of the consumer's Lua stack |

How the data is abstracted:

- **Buffer.** A buffer is a sequence of fields. Each field has a width in
  bytes, a kind and a payload. Offsets, capacities and backpatches are
  therefore computed in bytes, as the code computes them.
- **Reads.** A `consume` that does not land on a field of the width and kind it
  copies reads garbage, and the model counts that as a failed decode.
- **Bytecode.** A Lua closure's bytecode is one field whose payload records the
  number of upvalues. `lua_load` gives the new closure that many upvalues: the
  first holds the consumer's globals and the rest are nil.
- **C closures.** `lua_pushcfunction` makes a function with no upvalues. Every
  `lua_setupvalue` on it therefore fails and leaves its argument on the stack.
  `SetUps` models this exactly.
- **The `env` flag.** In `loadshared` the `env` flag is uninitialized, so
  `Deserialize` picks either value.

`WireValue` is a reference parser written from the grammar in spec.md §6. It
knows nothing of the Lua stack. `Supported` and `Observe` are spec.md §8's set
of supported values and its observational equivalence: a closure is observed
through its upvalue values.

Properties:

- `WireWellFormed`: every encoding parses by the grammar to exactly its
  length. This checks the backpatches, across buffer growth.
- `BufferBounded`: no `mempcpy` goes past the capacity.
- `EncodesExactlySupported`: encoding fails exactly on the values spec.md §8
  excludes.
- `DecodeConsumes`: a successful decode returns the offset just past the
  value and leaves one value on the stack.
- `RoundTrip`: decoding what serialize produced succeeds and gives a value
  observationally equal to the encoded one.

Runs (`MC_SerdeCodec`):

- **Inputs.** Nil, a boolean, a pointer, an integer, a number, the empty
  string, a 200-byte string and a table without serde methods. Lua closures
  have bytecode of 40 or 5000 bytes. Lua and C closures have up to two upvalues
  drawn from `_ENV`, an integer, the long string, a table and a local function.
  This reaches growth beyond twice the capacity (a C closure holding the long
  string), growth from a page, every upvalue rejection, and `_ENV` in either
  slot.
- **`serde_codec`** passes: 246 states, 1 s.
- **`serde_codec_roundtrip`** (`MC_SerdeCodecRoundTrip.cfg`, inputs limited
  to closures whose upvalues are all supported) violates `RoundTrip`. Three
  code bugs break it, and the trace TLC prints is the shortest of them:
  - `loadshared` reads its `env` flag uninitialized (stacktrace.h:546). The
    decode fails whenever the stack byte under `env` is nonzero, so even a
    C closure without upvalues fails. `Deserialize` chooses that byte.
  - With upvalues `(x, _ENV)`, x is encoded first. `setupvalues` skips slot 1,
    puts x in slot 2, and slot 1 keeps the globals. The decoded closure has
    its upvalues swapped. Lua 5.4 orders upvalues by first use, so `_ENV` is
    slot 1 only when the function uses a global before any other upvalue.
  - A C closure with upvalue 7 decodes as the integer 7, because the C case
    rebuilds it with `lua_pushcfunction` and every `lua_setupvalue` fails.

Mutants:

- the unsupported-type error reported as the type code (`TypeOK`);
- `*countp = i` (`WireWellFormed`);
- growth without `if (newsize < needed)` (`BufferBounded`);
- the upvalue loop without its type check (`EncodesExactlySupported`);
- `setupvalues` without `lua_settop` (`DecodeConsumes`).

### Runs of SerdeCache

- **`serde_cache`** (`MC_SerdeCache`, expected to pass).
  - Bounds: two threads; three pairs, of which `p1` and `p2` have the same
    bytes; two operations per thread.
  - This is enough for both threads to race on the same key. One thread's put
    then fails and its retried get finds the other's slot.
  - It is also enough for put allocation failure and for a decode in the state
    that did not encode.
  - Size: about 76,000 states, 20 s.
  - Fairness: weak fairness per thread. Every thread is a running OS thread and
    the spinlock holder always proceeds. Each thread does a bounded number of
    operations, so weak fairness suffices for the unfair `ck_spinlock`.
- **`serde_cache_int8`** (`MC_SerdeCacheOverflow`, expected violation).
  - One state registers 120 distinct types in order, then decodes the buffers
    whose tag came out negative. Slot 119 gives code 128, which is stored as
    −128.
  - `CustomRoundTrip` fails: the decoder answers "invalid type".
  - This is a **code bug** (finding in `PROJECT.json`). Only 119 of the 256
    slots that `SERDE_CACHE_CAPACITY` provides can round-trip.
  - The `MCEncodable` / `MCDecodable` overrides and the `AllSent` constraint
    pick out this one behaviour of the program.

Every property of a passing run has a mutant in `PROJECT.json`. The bug
variants are defined in `SerdeCache.tla` just before the action they replace:

- an off-by-one slot index (`TypeOK`);
- a put that replaces a present key (`CodeAgreement`);
- the slot store sunk below the publishing put (`LocalCacheSound`);
- a missing `++serde_cache_len`;
- a failure path that keeps the lock;
- the decoder indexing `serde_cache` without subtracting `SERDE_CUSTOM`.

### `Ring.tla` and `BoundedQueue.tla`: ck.ring

`Ring` models `src/ring.c`. Its state:

- the handle side: `variant` (the metatable `new` was called through),
  `refs` (`rcring.refs`), `handle[t]` (thread t holds a userdata whose cookie
  is the ring) and `released` (the last `__gc` freed the ring);
- the ck_ring side: `p_head`, `p_tail`, `c_head` and `slot` (the
  `ck_ring_buffer_t` array);
- the buffers: `nbuf` (buffers serialized so far, as ids) and `frees`
  (how often each was freed);
- each thread's call in progress: `pc` and the locals `lp`, `lc` and `lv`
  of the ck loops, and `res`, the buffer its last dequeue returned.

The ck_ring functions are not in this repository. Their steps are modelled
from ck's `ck_ring.h` and marked `spec_modelled` in the map:

- `EnqueueSP` (spsc, spmc) is one step, because a single producer's
  enqueue is.
- Multi-producer enqueue (mpmc, mpsc) has these steps:
  - `EnqueueMP` serializes and reads `p_head`;
  - `MPCheck` tests for room with unsigned arithmetic modulo `Word`;
  - `MPCas` claims the slot by CAS and writes it;
  - `MPFull` re-reads `p_head` and either fails, freeing the buffer, or
    retries;
  - `MPPublish` spins until `p_tail` reaches its reservation.
- `DequeueSC` (spsc, mpsc) is one step.
- `DequeueMC` (mpmc, spmc dequeue and trydequeue) reads `c_head`, `MCLoad`
  copies the slot, and `MCCas` claims it. When the CAS fails, dequeue
  retries and trydequeue returns false.
- `New`, `Retain` and `Release` are `newring`, `retainring` and
  `releasering`. `Call` is `checkcookie`.

Serialization errors raise before the ring is touched, so they are left out.
`size` and `capacity` only read the counters.

`BoundedQueue` is what a ring promises: a FIFO of at most `Cap` values with
atomic enqueue and dequeue. `RingQueue` checks `Ring` against it, with this
refinement mapping:

- the queue is the published window `slot[c_head & mask .. (p_tail - 1) &
  mask]`;
- `got` is `res`;
- `Cap` is `size - 1`.

So an enqueue takes effect when `p_tail` is stored, and a dequeue when
`c_head` moves.

Properties:

- `FreedOnce`: no buffer is freed twice.
- `BuffersAccounted`: while the ring is live, every buffer is exactly one of
  freed, published once, or held by the producer enqueueing it.
- `HandlersReturn`: every call returns, despite the publish spin and the CAS
  retry loops.
- `RingQueue`: the refinement above.

The ring's runs are the channel runs below, where it runs beside the fifo.

### `Fifo.tla`: ck.fifo

`Fifo` models the fifo bindings in `src/serdebuf.c` (lines 369–837). Its
state:

- the handle side, as in `Ring`: `variant`, `refs`, `handle` and `released`;
- the ck_fifo list:
  - `head` and `tail`, and each entry's `next` and `value`;
  - every pointer is a `{p, g}` pair (entry, generation), as in
    `ck_fifo_mpmc_pointer`, with the generation always 0 in spsc;
  - spsc's `snapshot` (`head_snapshot`) and `garbage`;
- the allocations:
  - `nent`: the entries malloc'd so far, as ids;
  - `efrees`: how often each entry was freed;
  - `uaf`: set when a step reads, writes or frees a freed entry;
  - `nbuf` and `frees` for the buffers;
- the spsc locks `elock` and `dlock` (`m_tail` and `m_head`);
- each thread's call in progress: `pc`, `kind` (the blocking or the try
  form), and the locals `lh`, `lt`, `ln`, `le` and `lv` of the ck loops, plus
  `res`.

A freed entry keeps its contents and its id is never handed out again. This
is the most favourable outcome of undefined behaviour. Any other outcome is
already flagged by `uaf`.

The ck_fifo functions are not in this repository. Their steps are modelled
from ck's `ck_fifo.h` and marked `spec_modelled` in the map.

spsc:

- `EnqueueSPSC` serializes and then runs `ck_fifo_spsc_recycle`. When
  `head_snapshot` equals `garbage`, it reloads the snapshot from `head`. If
  the snapshot is still `garbage`, it mallocs an entry; otherwise it takes
  `garbage` and advances it.
- `SPSCLink` writes the entry and stores `tail->next` and `tail`.
- `DequeueSPSC` loads `head->next`; `SPSCStore` stores `head`, and the
  caller frees the buffer.
- Enqueue and dequeue require holding `enqueue_lock` and `dequeue_lock`.
  That is how a program shares one spsc fifo between several threads.
- `EnqueueLock`, `EnqueueUnlock`, `DequeueLock` and `DequeueUnlock` are the
  lock bindings. A trylock that fails changes nothing, so it is the same
  action as the lock.

mpmc, the Michael-Scott queue:

- `EnqueueMPMC` serializes, mallocs the entry and starts the loop.
- `EnqTail` and `EnqNext` load the tail and its next.
- `EnqCas` retries on a changed generation and helps a lagging tail.
  Otherwise it CASes `tail->next`.
- `EnqSwing` is the closing CAS of the tail.
- `DqLoad` loads head, tail and next, one step each. `DqDecide` returns
  empty, helps the tail, retries, or reads the value.
- `DqCas` CASes the head. It then runs the caller's garbage loop exactly as
  the code has it: free the garbage entry and follow `next`, freeing every
  entry after it.
- `EnqRetry` and `DqRetry` are the failure paths. The blocking calls go
  round the loop again. `tryenqueue` frees `v` but not the entry, and
  `trydequeue` returns false.

`Release` is `__gc`. The last release frees every entry from where
`ck_fifo_*_deinit` starts the list: `garbage` for spsc, `head` for mpmc.
`cookie` and `isempty` change no state.

Properties:

- `BuffersAccounted`: while the fifo is live, every buffer is exactly one of
  freed once, queued once after the head, or held by its producer.
- `HandlersReturn`: every call returns.
- `FifoQueue`: the fifo refines `BoundedQueue`, with `Cap` at the buffer
  bound, where it never binds.
  - The queue is the values of the entries after `head`, found by a
    RECURSIVE `Chain`.
  - An enqueue takes effect at the link, and a dequeue when `head` moves.
- `EntryMemorySafe`: no entry is touched or freed after it was freed.

### `MC_Channels.tla`: ring and fifo together

`MC_Channels` instantiates `Ring` and `Fifo` for the same two threads, with
the fifo's handle-side variables renamed apart. The two share no state, so
the composition is a sum: the first `new` decides which channel the program
creates. One run therefore checks both. The properties are the modules'
own, prefixed with `Ring` or `Fifo`.

`HandlersReturn` is written `[]<>(pc[t] = "idle")`, which is equivalent to
`pc[t] # "idle" ~> pc[t] = "idle"`. TLC checks this form without a tableau.

Runs:

- **`channels`** passes.
  - Threads a and b. a is the single producer of sp rings and b the single
    consumer of sc rings.
  - Rings: all four variants, size 4 (capacity 3), 4 buffers and 4 calls per
    thread. This covers:
    - a full ring: 4 enqueues by one producer, the last one freed;
    - the counters wrapping around the 4 slots;
    - two producers racing for `p_head`, the later reservation written and
      waiting for the earlier one to publish;
    - two consumers copying the same slot;
    - a stale producer counter that makes `MPCheck` see a "full" ring and
      retry.
  - Fifos: both variants, 2 buffers, 3 entries (the stub included) and 3
    calls per thread. This covers:
    - spsc: recycling the old stub once the consumer has moved past it
      (enqueue, dequeue, enqueue), and the locks passed between the threads;
    - mpmc: two enqueuers racing on `tail->next`, a lagging tail helped by
      the other thread, two dequeuers racing on `head`, and `tryenqueue` and
      `trydequeue` failing.
  - Retain and `__gc` from either thread, in both channels.
  - Size: about 376,000 states, a little over 2 minutes.
  - Fairness: weak fairness on each thread's steps of a call in progress.
    Each thread is a running OS thread, and spins and retries are code that
    keeps running. Starting a call is not assumed.
  - `channels` checks the fifo properties with an mpmc dequeue that frees
    entries still in use. They hold only because the model lets freed
    memory keep its contents. `memory` is the run that shows the fault.
- The memory faults that `channels` lets pass are shown by the `memory`
  run of `MC_Memory` (below).

Mutants:

- `releasering` without `invalidate` (`TypeOK`);
- a plain store instead of the consumer CAS (`RingFreedOnce`);
- an sc dequeue that does not store `c_head` (`RingBuffersAccounted`);
- a consumer CAS that does not give back the current head, so it retries
  forever (`RingHandlersReturn`);
- a publish without the wait for `p_tail` (`RingQueue`);
- `ck_fifo_spsc_recycle` without the `head_snapshot` test, recycling the
  head itself (`FifoBuffersAccounted`);
- an mpmc dequeue CAS that retries without reloading the head
  (`FifoHandlersReturn`);
- an spsc link that does not store `fifo->tail` (`FifoQueue`).

### `Md128.tla`: shared.pr.md128

`ck.shared.pr.md128` is a reference-counted 16-byte value that Lua reads
and writes through typed views: `value.u32` sees four 4-byte elements,
`value.u64` two 8-byte ones, and so on. Whole-view methods (`load`, `cas`,
`cas_value`) act on all 16 bytes. Element methods (`value.u32[i]:store(x)`,
`:load()`, `:add(x)`, ...) act on element `i`. Each method is one `ck_pr`
atomic, so what matters is which bytes an operation touches and whether
they were ever written.

The model keeps, of the bytes:
- which of the 16 have been written since `aligned_alloc` (`written`);
- whether an access reached past them onto `refs` (`wild`);
- whether a read saw a byte never written (`garbage`).

| Action | Code |
|---|---|
| `New(t, arg)` | `l_ck_shared_pr_md128_new`, by argument form (`NewWritten`): nil, a string, a table of numbers, a table of two lightuserdata |
| `Retain`, `Release` | `_retain`, `_gc` (refcount, free on the last, `invalidate`) |
| `ViewOp(t, op)` | `l_ck_shared_pr_md128_index` and `SERDE_PR128_VIEW_OP_IMPL`: load, cas, cas_value on all 16 bytes |
| `ElemOp(t, v, i, op)` | `SERDE_PR128_VIEW_I_OP_IMPL`: `luaL_argcheck(i > 0 && i <= N)`, then the operation on `&sharedp->NAME[i]` (`ElemBytes`) |

`MemorySafe`: no operation touches bytes past the value or reads a byte
never written. It is violated three ways (all code bugs):

- `p = &sharedp->NAME[i]` uses the 1-based Lua index as a C index.
  Element 2 of the u64 view reads or writes the 8 bytes after the value,
  which are `refs`. A store there sets the reference count. The handlers
  are reached as `getmetatable(e).load(e)`: the `[#]` element metatables
  (serdebuf.c:1975-1978, 2013-2014) have no `__index`, although the comment
  at line 1898 calls them self-indexed, so `e:load()` raises. That missing
  `__index` is a bug of its own, outside any property; `ElemOp` models the
  handlers as callable, which is how they are reachable.
- `new{p1, p2}` with two lightuserdata passes the type check as
  `LUA_TLIGHTUSERDATA`, but the fill loop stores only under
  `LUA_TUSERDATA`. Nothing is written.
- `new()` with no argument writes nothing either. `aligned_alloc` does not
  zero the value.

The string form of `new` reads its argument through the uninitialized
`int i` (serdebuf.c:1500). The model takes the outcome where that index
names the argument. In the other outcome, `luaL_checklstring` raises before
anything is allocated.

### `MC_Memory.tla`: memory safety of ring, fifo and md128

`MC_Memory` is the sum of `Ring`, `Fifo` and `Md128` for two threads, as in
`MC_Channels`: the first `new` decides which object the program creates. Its
one property, `MemorySafe`, is the conjunction of the three modules' memory
properties. It is only checked in a violation run.

- **`memory`** violates `MemorySafe` (ring `FreedOnce`, fifo
  `EntryMemorySafe` and md128 `MemorySafe`). Five bugs are in scope; TLC
  reports the shortest trace, an md128 one. Narrowing `Md128Args` and the
  channel variants in `MC_Memory.cfg` shows each of the others.
  - md128 (three code bugs, see `Md128.tla`). With `Md128Args =
    {"numbers"}` the trace is `new`, then an element call such as
    `getmetatable(e).load(e)` on element 2 of the u64 view reading `refs`; with `{"ptrs"}` or `{"none"}` it is `new`, then a load of
    bytes never written.
  - mpmc fifo (code_bug, serdebuf.c:742), with `Md128Args = {}`. The
    trace is new, enqueue, dequeue, `__gc` on one thread.
    - `ck_fifo_mpmc_dequeue` returns the old stub as garbage.
    - The caller's loop frees the stub, then follows `next` and frees the
      new head too.
    - `__gc` walks from that head and frees it again.
    - A second dequeue instead of `__gc` reads the freed head.
  - spsc ring of size 6. Setting `Md128Args = {}` and `FifoVariants = {}`
    shows this trace (17 states). `newring` accepts size 6, and ck_ring's
    `& mask` indexing needs a power of two.
    - After 7 enqueues and 2 dequeues, the full check
      `(p_tail + 1) & 5 = c_head & 5` passes while slot `p_tail & 5` is
      still queued.
    - Buffer 5 is overwritten and so leaked.
    - Buffer 7 then sits in two slots and is freed twice.
    - Sizes 3, 5 and 7 make a ring that never accepts an enqueue.

Bounds: an spsc ring of 6 slots with 9 buffers and 9 calls, the mpmc fifo
with 2 buffers and 3 entries, md128 with every argument form, the views u8,
u32, u64 and p, and 2 operations per thread.

## Plan

These are the next modules, in order. Each one comes with an MC module, a
passing run, mutants, and violation runs where the code disagrees with its
comments or with spec.md.

1. **SerdeCache, continued.**
   - A violation run for the 257th registration writing past `serde_cache`
     (slot bound invariant).
   - `fini_serde_cache`.
2. **EpochRecords** (done, except `fini_serde_cache`): `register_epoch_record` / `l_ck_epoch_record_gc` over ck's
   record list, which is a stack of records with `next` pointers and an active
   flag. It models thread creation and close, and hash table growth deferring
   the old map to the growing thread's record.
   Checked: `RecordsExclusive` (pass), `RegistrationReturns`,
   `NoUseAfterFree` and `DeferToOwnRecord` (violated, code bugs). Left: a
   property that deferred maps are eventually freed, which cannot hold
   while a state stays open (hazard at stacktrace.h:109).
3. **SharedMut** (done): shared.mut, its hazard pointer records, the TSO
   store-buffer finding, and the refinement of `SharedCell`. Left: shared.const,
   which has the same reference count without hazard pointers.
4. **Ring and Fifo** (done): all ring and fifo variants, both refining
   `BoundedQueue`, with the ring size-6 double free and the fifo garbage-loop
   free. Left: violation runs for the buffers both leak at the last `__gc`,
   for the entry `tryenqueue` leaks, and for an explicit `f:__gc()` on a
   fifo (see Not modelled).
5. **SerdeCodec** (done): encode / decode as RECURSIVE operators over small
   values, checked against the spec.md §6 grammar and the §8 round-trip law,
   with the `_ENV`, C closure and uninitialized `env` findings. Left: custom
   values inside the codec (the codec and SerdeCache composed), and ENOMEM
   at each growth step.
6. **Sequence** (done): the sequence-lock binding with its reader and
   writer protocol, refining `AtomicRegister`. Left: a writer that raises
   inside its write section (see Not modelled).
7. **Md128** (done): the md128 value's bytes under every argument form of
   `new` and every element index, with the index off-by-one and the
   uninitialized fills. Left: the values of the bytes.

## Not modelled

- **ec and scalar shared.pr**: single ck calls, with no control of this
  repository's own. Which `ck_pr` operation exists for which type is
  generated from `pr.h`, which is not in this repository.
- **md128 byte values.** `Md128` tracks which bytes are written, not what
  they hold. So the conversions of each view (integer truncation to
  `u8` ... `u32`, the `c` view's single characters) are not modelled.
- **A writer that raises between `write_begin` and `write_end`.** The
  sequence stays odd and every `read_begin` spins in C with no way out. The
  binding offers no protected write section. The model's writer has no
  error path; `SeqReadersReturn` assumes it.
- **Several sequence-lock writers.** `ck_sequence_write_begin` is a plain
  increment, so two writers can lose one. The binding leaves writer
  exclusion to the program, and the model has one writer.
- **Leaks of the fifo.**
  - `l_ck_fifo_mpmc_tryenqueue` frees the buffer but not the entry when the
    enqueue fails (the "oof" comment). `EnqRetry` models this, but no
    property counts entries.
  - The last fifo `__gc` frees the entries, not the buffers still queued.
- **An explicit `f:__gc()` on a fifo.** The fifo `__gc` handlers do not
  invalidate the cookie, and `__index` makes `__gc` callable from Lua. The
  model's `Release` is the collector's single finalizer call.
- **Buffers left in a ring at its last `__gc`.** `releasering` frees the
  slot array but not the queued buffers, so they leak. `BuffersAccounted`
  only speaks of a live ring, and the leak has no violation run.
- **Module registration.** `luaopen_ck_ring` registers the mpmc functions
  under the field name `"mpmp"` (ring.c:638), so `ck.ring.mpmc` is nil. A
  name is not a behaviour TLC can explore.
- **The examples and the lldb script.**
- **Byte-level formats**: the bytes of a bytecode dump and of strings, and
  stream wrappers. SerdeCodec keeps field widths and offsets but treats a
  field's bytes as one value.
