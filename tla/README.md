# PetPS: specifications, model checking and proofs

PetPS is a parameter server for embeddings. Servers keep key/value pairs in
persistent memory (PM) and answer batched GETs over RDMA; the answers are
written straight into the client's memory. This directory holds TLA+ models of
its store, of its start and recovery, and of its clients and servers, TLC
configurations that check them on small instances, and proofs that TLAPS checks for
all instances. Paths below are relative to the repository; `Mayfly` is the RDMA
library in `third_party/Mayfly-main`.

## 1. The system's parts

| part | code | state and concurrency | module |
|---|---|---|---|
| epoch manager | `src/memory/epoch_manager.h` | table of per-thread deques of epochs, two atomic counters; a bump scans the table while readers push and pop | `EpochManager` |
| deferred free lists | `src/memory/malloc.h` (`ShmEpochRecycle`) | one queue of (epoch, block) per shard, a bump every 1000 recycles | `PetKV` |
| store | `src/pet_kv/pet_kv.{h,cc}` | `Update` under a shard's `modify_lock_`, lock-free `Get`/`BatchGet`, key to shard by `PetMultiKV` | `PetKV` |
| recovery | `src/pet_kv/pet_kv.cc` (constructor, destructor), `pet_hash.h` (`Valid`, `Initialize`, `Reload`) | formats the table or rebuilds the dictionary's counts and compares them with the allocator's | `PetKVRecovery` |
| GET and PUT handlers | `src/ps/petps_server.cc` (`RpcPsGet`, `RpcPsPut`, `PollingThread`) | polling threads, each `Protect`s, looks up, copies, `UnProtect`s and posts an RDMA write from its one buffer | `PetKV` (the epoch side), `PSRpc` (the messages) |
| dictionary | `src/pet_kv/pet_hash.h` | chunked hash table in PM with per-chunk overflow counts; restart through `Valid`/`Reload`; readers take no lock | `PetHash`, abstract: `KVMap`; threads: `PetHashThreads` |
| hot-key migration | `src/pet_kv/pet_hash.h` (`HotnessAwareMigration`) | moves hot keys to their home chunk while readers run | `PetHashMigration`, `PetHashThreads` |
| allocator | `src/memory/persist_malloc.h`, `src/base/bitmap.h` | slab chunks in PM with bitmaps, a pool lock and chunk locks, rebuilt at start | `PersistMemoryPool` |
| register center | `src/memory/shm_file.{h,cc}` | named areas of one PM device, found again after a restart | `RegisterCenter` |
| clients | `src/ps/petps_client.cc`, `allshards_ps_client.h`, `src/benchmark/benchmark_client_common.h` | asynchronous requests that poll a word of their buffer; fan-out over servers | `PSRpc` |
| start-up | `src/ps/petps_server.cc`, Mayfly's `Keeper.cpp`, `DSMKeeper.{h,cpp}`, `DSM.cpp` | node ids and connection data through memcached, barriers, registration of threads, the exchange of thread ids | `DSMKeeper`, `PSStartup`, `PSRpc` |
| loading and checking | `src/ps/load_db.h`, `shard_manager.h` | key ranges over threads and servers | `LoadDB` |
| log allocator, value descriptor, Postoffice | `persist_malloc.h` (`PersistSimpleMalloc`), `shm_common.h`, `persistence.h`, `Postoffice.cc` | a bump pointer that wraps, packed pointers, flushes, roles | not modelled, see section 7 |
| baselines, base library, benchmarks | `src/kv_engine`, `src/base`, `src/benchmark` | adapters, utilities, drivers | not modelled: no protocol of their own |

How they interact: a client's GET reaches a polling thread, which enters an
epoch, looks every key up in the shard's `PetHash`, copies the values behind
the pointers and leaves the epoch. A PUT runs `PetKV::Update`: it allocates a
block from the shard's `PersistMemoryPool`, fills it, hands the old block to
`ShmEpochRecycle` and points the dictionary at the new one. The handler's answer
is copied to the polling thread's RDMA buffer, which the NIC reads and writes into
the client's memory, where the client polls for it. `Recycle` frees
blocks whose removal epoch no protected reader can still be in.

## 2. Modules

### EpochManager

State: `current_epoch_`, `safe_to_reclaim_epoch_`, the table (`thread_id_`,
`epoch_list_`), and the locals of `Protect` and of the table scan. The atomic
members are single steps. A push and a pop of a deque take two steps, because
`ComputeNewSafeToReclaimEpoch` reads the deque of another thread without
synchronisation: a read in between, or of a deque that was popped while empty,
is undefined and may return any epoch (`Readable`). `ReserveEntry` is one step:
entries are never given back, so what a thread's CAS wins is the first entry
that was free at that moment. The module has no behaviour of its own; `PetKV`
composes its actions.

### PetKV

Adds the store and the threads. A GET is `GetStart` (load the epoch),
`GetEntryForThread`, `PushBegin`/`PushEnd`, one `Lookup` per key, `Copy`,
`UnProtect`; with `UseSglist` a completion comes back and `PollCompletion`,
`CompletionUnProtect` run the second `UnProtect` of `PollingThread`. An Update
is `UpdateStart` (lock, look up, allocate, fill), then `Insert`, or `Retire`,
`Bump`, `Scan`..., `StoreSafe`, `FreeHead`..., `Publish`: the code recycles the
old block (pet_kv.cc:133) before it replaces the pointer (line 134). Threads in
`Unprotected` read the way `KVEnginePetKV::Get` does, with no epoch. An
exhausted pool and an exhausted epoch table abort the process (`fatal`).
`early`, `leaked` are history variables. The dictionary is a function and the
pool a set here; the next three modules model them. `Retired(k)` holds while an
Update has queued the block that `dict[k]` still points at.

### KVMap, PetHash

`KVMap` is what a dictionary promises: a map, where a Put into a table at its
load limit may drop one other key or abort. `PetHash` is the table: slots,
sizes, 8-bit overflow counts that stick at their maximum, probe chains with odd
steps. Actions: `Set` (`SetExisting`, `Insert`, `InsertFull`), `Delete`,
`Restart` (`Valid`, then `Reload` or a fresh table). `ImplementsMap` is the
refinement, with the map read off by `Get`. Operations do not interleave here:
writers hold `modify_lock_`. Hashing is the constants `Home` and `Sign`, under
the assumption that an odd step visits every chunk of a power-of-two table once.

### PetHashMigration

Adds `HotnessAwareMigration`, one hot key per action: into a free slot of the
home chunk (`MigrateToFreeSlot`) or by a swap with the key in slot 0
(`MigrateToVictimSlot`). `SwapSpec` has only the swaps, `MigrationSpec` both.

### PersistMemoryPool

New is `NewStart`, `TryLastUsed` | `TakeFreeChunk`, `UseChunk`, `MarkUsed` |
`StartScan`, `ScanChunk`..., `OutOfMemory`, then `Malloc`, `NewReturn`; Free is
`FreeStart` (the counter), `FreeClear` (the bit), `FreeReturn`. `Full` is read
without the chunk's lock, as in the code. `Restart` may come between any two
steps: the headers and bitmaps stay, all else is rebuilt as the constructor
does it. Deques of chunks are sets: no property depends on their order.

### PetHashThreads

The table used by several threads, one load or store per step; only Insert's stores
of a slot's key and value are one step, since nobody reads them before the tag is
stored. A slot is these three words, written in the order of `F14Chunk::Set` and
`Delete`. `GetInternal` is `ReadFlag`, `MatchTag`, `MatchKey`, `ReadValue`,
`NextChunk`, with the jump to `RETRY`; Set and Insert go from the unlocked search
through the chunks' locks (`Turn`, `UpdateInChunk`, `TakeSlot`, `PutEntry`,
`PutTag`, `PassChunk`). As in the repository's multi-threaded tests, writers run
first (`phase`), then a migration by swaps; readers run all the time. A migration
takes a dozen steps from `MarkChunk` to `UnmarkChunk`. `present` and `moved` are
history: the key was there when the lookup began, a migration was moving it.

### RegisterCenter, PetKVRecovery

`RegisterCenter` is the persistent table of named areas and the volatile end of
the used space: `Register` finds a name and moves the end behind its area
(`UseExisting`), or appends an area and clears it (`AppendRegister`). Several
shards register concurrently, each its own files in order.

`PetKVRecovery` composes it with `PetHash`: one shard from `Start` through the
registration of its files and `CheckTable` (`Valid`) to `Initialize` (`Format`,
`WipeHeader` and `WipeItems` for the memset of each chunk, `BlankChunk` for the loop
that sets every `first` to -1) or to `Reload` (`ReloadChunk` per chunk, `ReloadSize`,
`ReloadOverflow`), then `CheckCounts` (the `CHECK_EQ` of line 79) and serving, and
`Shutdown` with the destructor's `Exit`. Update and the forced eviction are cut at
every persistent store: the block's bit, the chunk's lock, its size, the entry, the
table's size, the counts, the free of an old block, the pointer. `Crash` may come
between any two steps of all these; the free list is then gone and everything else
stays, the chunk's lock included.

Lookups and `Valid` go by a slot's tag, `Reload` goes by its `first`, and the two
disagree in a table that `Initialize` has not finished: `untagged` is the key that
`Reload` finds in a slot without a tag, `ZeroKey` (key 0, which clients do not use)
after the memset, or the key of an old entry before it. A reload that meets such slots
brings the old entries back and counts entries of key 0.

Recycle frees any number of queued blocks here: which ones is the subject of `PetKV`.
The history variables record what a reader may find (`want`), whether a death cut a
change of the table short (`cut`), and whether the dictionary of a started store
points at a free block (`exposed`). The model stops when an area has been laid over
another one (`overlay`): the contents are then arbitrary.

### LoadDB, DSMKeeper, PSStartup, PSRpc

Four layers of one specification. `main[p]` is where the main thread of a process is,
through all of them.

`LoadDB`: with `preload` a server counts the keys that `KeyPartition` gives it, loads
them with one thread per part of the range, joins the threads and checks; with `exit`
it ends then. With `check_all_inserted` it checks and ends. Without a preload the
count that the check compares with is uninitialised, hence any number.

`DSMKeeper`: a process enters through memcached. A server sets `serverNum` to 0 if it
is missing and increments it, in separate operations, and has the old value as its
node id. The client reads `serverNum`, takes a number from `clientNum`, waits for a
server, sets `clientNum` to 0 and counts itself again (`EnterClient` ...
`CountClient`). Then everyone but node 0 leaves its data for the servers, before its
queue pair numbers are filled in (`"bare"`), reads the two counters once, connects to
every node it has counted (`PutMeta`, which leaves the `"full"` data, and `GetMeta`,
which takes what is there), and waits for late clients (`PollClients`). The barriers
are counters that node 0 sets to 0 and the others wait for.

`PSStartup`: the polling threads spin until main raises `barrier_ready_`, each
registers and gets the next DSM thread id; main sleeps, registers and enters the
barrier. Nothing but the sleep orders main and the polling threads, so the model does
not.

`PSRpc`: client threads ask every server which of its threads to use, wait for the
start flag and then visit their slots in turn: a free slot is filled with a GET or a
PUT, a busy one is polled. The client's memory is an array of cells, laid out as
`GetReceiveBuffer` does, so the poll word of a GET for zero keys is the last cell of
the buffer before. A polling thread takes a request, builds the answer in its buffer
(`RpcPsGet`; a missing key makes it shorter) and posts it; `NicWrite` reads the buffer
later. A write that the NIC cannot carry out, because the server has connected with
bare data or because the key given with it is that of another memory region (which is
so with `use_sglist`: `write_from_pm_vec` passes the key of the engine's memory for a
buffer that lies in the cache), fails and takes the queue pair with it (`NicFail`).
With one server the client is `WqRPCParameterClient`, with two the wrapper
`AllShardsParameterClientWrapper`, whose PUT aborts. Messages between registered
threads are reliable and in order per receiver, as the code relies on them to be; one
to an id that nobody has registered is lost.

Behaviours begin with the start of the processes (`StartingInit`) or in a cluster that
has started (`ServingInit`). The second is needed because the benchmark client does
not get through its own start, see section 4; it stands for a client of the library
that does without the second barrier. It includes servers with bare data, and main
threads that have registered before a polling thread.

### Proof modules

`PetKVInvariant` (the invariant of the store and what each step does to it) and
`PetKVProofs` (the epochs, the free lists, the theorems); `PersistMemoryPoolProofs`;
`RegisterCenterProofs`; `CountingFacts` (facts about finite sets, definitions only),
`PetHashInvariant`, `PetHashOperations` (the operations on one key), `PetHashSteps` (the
swap) and `PetHashProofs` (the theorems).

## 3. Runs

Every run takes less than three minutes with two workers. MC modules hold the
instances.

| run | question | result |
|---|---|---|
| `petkv_two_shards` | two writers on two shards share the epoch, one protected reader, no scatter list: are blocks found before they were retired kept, free lists free of duplicates, all blocks accounted for, and does every entry that is not being replaced lead to its own key's value? | holds |
| `petkv_one_shard` | scatter list: two readers for one epoch entry that call `UnProtect` twice, one without an epoch, evictions, an exhausted pool, a bump every second recycle: is the free list still ordered, and what is lost? | holds: only evicted keys' blocks are lost |
| `petkv_late_reader` | does a protected reader always read its own key? | violated |
| `pethash` | four one-slot chunks, five keys, all chain shapes, sticking counts, eviction, restarts, swaps at any time: is the table a map, does it pass `Valid`, which operations keep exact counts exact? | holds |
| `migration_all` | the same with two-slot chunks and moves into free slots | violated |
| `hash_threads` | two writers, then a migration, and a reader, store by store: does a lookup find what is there, and under its own key; is a key inserted once? | holds, but for keys being moved |
| `pool` | two threads, two chunks, two sizes, a restart at any step: one owner per block, exact counters, no chunk lost, `CHECK(return_ptr)` holds, New finishes? | holds |
| `recovery` | three lives, deaths at any store of an Update, a formatting or a reload: is what is served what was acknowledged, when is the dictionary cleared, are counts that agree exact, do clean restarts succeed, are found areas kept? | holds |
| `recovery_crash` | does the `CHECK_EQ` of the constructor hold? | violated |
| `cluster` | one server with two polling threads or two with one, from the start, and a started cluster whose client has two requests under way: is every key loaded and counted, does the start get through and connect everyone, are answers complete and their own, does every request finish? | holds |
| `cluster_start` | does the benchmark client raise its start flag once its threads are ready? | violated |
| `cluster_reused_buffer` | does the client's own check of its answers pass? | violated |

**Bounds.** `MaxEpoch` (5, 6 at most) leaves room for every writer to bump
while others are in the middle of a scan; a block needs two bumps to be freed,
so every sequence retire, bump, free, reuse happens (`petkv_one_shard` has 4). Blocks are one or two more
than keys, so reuse happens. `MaxThreadNum` is 1, with more readers than entries in
`petkv_one_shard` (so the abort of a full table happens there; it cannot in
`petkv_two_shards`). `BumpPeriod` is 1 or 2 instead of 1000: a
longer period only delays bumps. `FullSize` 9 means never full, 1 always.
`MaxOverflow` is 2 or 3 instead of 255 so that counts stick. `MaxRestarts` is 1:
a restart leaves a state like an initial one of the next life. `MaxCompletions`
bounds completions that are not yet polled. In `recovery` two one-slot chunks of
which all three keys want the first give every path of Insert (free slot, next
chunk, eviction); four Updates are enough to fill the table, replace and evict, and
three starts allow a death, a death during the recovery from it or inside the
formatting that follows, and a third start that meets both. The pool of three blocks is one more than the table holds. In
`cluster` three requests let a slot be used again while the other is under way;
three warm-up threads share two keys, so one thread has nothing to do; `memcached`
begins with no counters or with two zeros; the samples
include a batch with no key for one server and one with a key that is not stored.
In `hash_threads` two keys share a whole chain and the third crosses it.
Symmetry is used for interchangeable keys, blocks, chunks, threads, and for
readers only where all of them are protected; never with liveness.

**Fairness.** `pool`: `WF(Continue(t))`, a thread that is inside New or Free goes
on when it can. `cluster`: weak fairness of the set-up steps, of the servers'
steps (polling threads, NIC) and of each client thread. The threads are ordinary
OS threads that spin on their queues and locks, and the NIC processes what is
posted, so this is the scheduler's and the hardware's guarantee and no more; in
the pool calls need not start.

**Races that only time decides.** Nothing in the code keeps a server from reading
`serverNum` before the last server has entered, a client from entering before the
servers, two servers from both setting `serverNum` to 0, or main from registering
before a polling thread has (its sleep of `thread_count_ + 2` seconds is meant to).
The model has them all. `Misstart` names them, `ClusterStarts` says that the start
gets through in every other case, and `RequestsFinish` excepts a main thread that has
registered too early (`MainFirst`).

**Deadlock** is checked in the runs of `PetKV`, `PetHash` and the pool, where an
aborted process stutters (`Aborted`). It is not in `recovery` (a process that was
refused its last start, or that waits for a chunk lock that a dead process held,
stops) and in the runs of the cluster (the clients have a fixed number of requests, a
cluster that lost one of the races above stops); there `ClusterStarts` and
`RequestsFinish` say what must not stop.

## 4. Disagreements found

1. `petkv_late_reader`: `Update` recycles the old block before it unlinks it.
   A reader that enters its epoch after the bump still finds the old pointer;
   its epoch does not protect the block, which is freed, reused for another key
   and overwritten under the reader. The comparison in
   `test/petkv_multithread_test.cc:38` is what it breaks. (With two shards the
   free may even come before line 134 replaces the pointer: shards share the
   epoch and not the lock.) `EarlyReadersSafe` is the part that does hold.
2. `migration_all`: a move into a free slot of the home chunk decrements the
   count of the chunk the key leaves (pet_hash.h:430), not those it passed; a
   count reaches 0, or wraps, while another chain needs it and that key is lost.
3. `recovery_crash`: a process that dies inside the first `Initialize` leaves slots
   whose `first` is 0 and not yet -1. `Valid` accepts the table, `Reload` counts these
   slots as entries of key 0, and the `CHECK_EQ` at pet_kv.cc:79 aborts this start and
   all later ones. So does a death inside an Update that has allocated its block, or
   with blocks on the free list: these blocks have no owner then.
4. `cluster_start`: only node 0 initialises a barrier (DSMKeeper.cpp:195-209) and it
   is a server. The benchmark client waits for ever in the barrier "clients start" of
   the clients (benchmark_client_common.h:160-162).
5. `cluster_reused_buffer`: without the scatter list a polling thread copies its next
   answer over the previous one before the NIC has read it (petps_server.cc:240-248);
   the check at benchmark_client_common.h:344-349 fails.

Facts that qualify properties which hold, each an explicit exception in one:

- With `use_sglist`, which is the default, each GET calls `UnProtect` twice
  (petps_server.cc:234 and 285): the second call pops an empty deque, or the epoch of
  the next GET. The free lists stay sound (`petkv_one_shard`, and the theorems about
  them cover both modes), but `EarlyReadersSafe` is checked and proved for one
  `UnProtect` only.
- With `use_sglist` no answer to a GET arrives at all: the NIC refuses a write whose
  buffer is not in the region of its key. The same holds for a server that has read
  the client's bare data. `RequestsFinish` is about the other cases.
- A swap keeps every key reachable but may leave counts too large, when the
  victim's chain wraps round to its own home; `CountsStayExact` is about all other
  operations.
- A lookup of a key that a migration is moving may miss it or find the value of
  the key it changes places with: `is_migrating` is cleared chunk by chunk, and
  the key is compared before the value is read (`moved` in `hash_threads`).
- A death after Recycle has freed the old block and before line 134 leaves the
  dictionary pointing at a free block with counts that agree (`exposed`). Also, a
  death inside an `Initialize` that cleared a broken table can leave as many entries of
  key 0 as there are ownerless blocks (`Exists(ZeroKey)` in `StartExact`).
- A death during the very first start can leave an area that the next start does
  not ask for before another shard appends a new one over it. `FoundAreasKept`
  is about areas that the running process has found again.
- A death of the process while it holds a chunk's lock leaves the lock held.
- A forced eviction loses the evicted key's block, so even a clean restart after
  it is refused (`evicted` in `CleanStart`).
- A GET with a key that is not stored, or with no key for some server, does not
  finish (`RequestsFinish` is about the others). pet_kv.h:116 speaks of zeros for
  missing keys, but the engine passes 0 as the known value size
  (engine_pethash.h:19), so the entry has no bytes and the answer is shorter.
- `check_all_inserted` without `preload` reports on an uninitialised count, and divides
  by it (`ReportsTruth` is about a check after a preload).
- Readers without an epoch (`KVEnginePetKV::Get`) may read a reused block; the
  store itself is not affected (`r3` in `petkv_one_shard`).

## 5. Proofs

All theorems are for arbitrary constants that satisfy the modules' named
assumptions (`EpochAssumption`, `PetKVAssumption`, `PoolAssumption`,
`HashAssumption`, `RegisterAssumption`): finite sets of writers, chunks and sizes,
positive table and chunk sizes. TLC evaluates the same assumptions in every run.

**PetKVProofs.** `KVTypes`: `Spec => []TypeOK`, `KVNoDoubleFree`:
`Spec => []NoDoubleFree`. The inductive invariant is
`KVInv == TypeOK /\ BumpInv /\ EpochInv /\ LockInv /\ PlaceInv`. `PlaceInv` says
that a block is in one place only: under one key that is not being retired, on
one free list, in the hands of one Update, or leaked. `NoDoubleFree` alone is not
inductive: `Retire` queues `dict[key]`, so one has to know that no other key,
list or Update has that block, which needs the lock (`LockInv`). `BumpInv` and
`EpochInv` are what the types of the epochs need: an epoch in use is positive and
below the current one, so `oldest_call - 1` is a natural number. The theorem
covers both modes of the GET handler and unprotected readers: whatever readers do
to the epoch table, the free lists stay sound.

Two more theorems rest on `KVInv`. `KVQueueOrdered`: `Spec => []QueueOrdered`.
Besides the order itself the invariant (`OrderInv`) says that no block is queued
under an epoch that has not begun; appending under the current epoch then keeps the
order, however the bumps of other shards interleave. `KVBlocksAccounted`:
`Spec => []BlocksAccounted`. `BlocksAccounted` is not inductive, because the block a
key still points at while it is being retired may be freed and used again before
`Publish` replaces it. `AccountInv` therefore does not count the blocks of retired
keys; the lock (`OneUpdatePerShard`) shows that the key an eviction drops is not
one of them. `KVLiveEntriesSound`: `Spec => []LiveEntriesSound`. That such an entry's
block is allocated and on no free list is part of `KVInv`; `MemInv` adds that it holds
its own key's value, and so does the block an Update has filled and not yet published.
The only step that writes a block is `UpdateStart`, which takes a free one, and by
`PlaceInv` no live entry and no other Update has that. Retired keys have to be left
out: with two shards their block may be freed, and filled for another key, before
`Publish` replaces the pointer.

**PetKVProofs, readers.** `EarlyReadersTheorem`: without the scatter list,
`Spec => []EarlyReadersSafe`. `ReaderInv` says why a block an early reader has
found is still allocated (`Kept`): its key still points at it and is not being
retired, or it has leaked, or it is on a free list with a removal epoch that is
`Covered`. Covered means: not below the reader's epoch, above the published safe
epoch, and not below the running minimum of any scan that has passed the
reader's entry. That last clause is what makes the invariant inductive; it is the
reason why a scan that runs concurrently with `Protect` is harmless to early
readers. `ProtectInv` says that a reader's deque holds exactly its epoch from
push to pop; it fails with two `UnProtect`s, hence the assumption.

**PersistMemoryPoolProofs.** `PoolTypes`: `Spec => []TypeOK`. `PoolSafe`:
`Spec => [](NewSucceeds /\ BlocksExclusive /\ CountersExact)`. `PoolInv` adds who
holds which lock (`LockInv`), that a used chunk counts its bits except the one a
Free is about to clear (`CountInv`), and which chunks lists may hold (`ListInv`).
The point is the unlocked read of `Full`: only the holder of the pool lock
allocates, and a Free only lowers the count, so a chunk seen with room has a
clear bit when `Malloc` gets its lock. `PoolLosesNothing`:
`Spec => []BitsAccounted`, and `PoolPartitioned`: `Spec => []ChunksPartitioned`.
`AccountInv` adds to `PoolInv` where the chunks are filed (`Filed`): the list of a
size holds exactly the used chunks of that size, and an unused chunk is on the free
list or in the hands of the one New that holds the pool lock. Restarts, which
rebuild the lists from the chunks, are steps of `Spec`, so both theorems cover them.
`PoolTotalExact`: `Spec => []TotalExact`. `total_malloc_` is updated outside the
locks, so `TotalInv` relates it to the number of set bits by what is under way: one
less for every New that has set its bit, one more for every Free that has cleared it.

**PetHashInvariant, PetHashOperations, PetHashSteps, PetHashProofs.** The table with
its swaps: `HashTypes`, `HashFindsStoredKeys`, `HashAlwaysValid`
(`SwapSpec => []TypeOK`, `[]StoredKeysFound`, `[]AlwaysValid`), `HashCountsStayExact`,
`HashSwapKeepsContents` and the refinement `HashImplementsMap`
(`SwapSpec => ImplementsMap`), for every number of chunks, slots and keys, every
placement of the keys and every limit of the counters. A lookup stops at a chunk whose
overflow count is 0, so a stored key is found because every chunk its chain passed
counts it. `HashInv` therefore counts: an overflow count is at its limit, where it
sticks, or at least the number of occupied slots whose key's chain passed the chunk
(`OverflowEnough`); the sizes are exact and a key is stored once. Exact counts would
not be inductive: a swap may leave them too large. That a
chain meets every chunk once before it repeats (a power of two and an odd step) is part
of `HashAssumption`. The sum of `Valid` over the chunks is a fold, for which there is
no induction here; `CountsAreSum` shows that counting the stored pairs by chunk solves
the equation that defines the sum, and a smallest counterexample that nothing else
does. The facts about finite sets are the definition
`CountingFacts`; the lemmas have it as a hypothesis and `CountingHolds` in
`PetHashProofs` proves it from the library, so no theorem depends on it.

**RegisterCenterProofs.** `FoundAreasAreKept`:
`RegisterSpec => []FoundAreasKept`. `RInv` says that areas have distinct names and
the size their file has, and that the end of the used space lies behind every area
that this process has opened, which is why an appended one cannot touch them; it
is the line that moves the end behind a found area (shm_file.h:72-74) that keeps
it. `RegisterSpec` lets the process restart between any two registrations.

**Only model-checked:** liveness (`NewFinishes`, `ClusterStarts`,
`RequestsFinish`), which the prover cannot treat; the stores of several threads on the
table (`PetHashThreads`), whose invariant would have to relate every intermediate
store of two writers and a migration; a shard's deaths and restarts
(`PetKVRecovery`); the cluster (`PSRpc`).

## 6. What is abstracted

- Memory is sequentially consistent. A restart keeps every store made before it.
- Values are the key they belong to (`PetKV`, `PetHashThreads`, `PSRpc`), blocks
  with key and data (`PetKVRecovery`) or members of a small set (`PetHash`). A PUT
  of the benchmark client stores random numbers; in `PSRpc` a cell only says whose
  value it is.
- Tags of the hash table only filter, so only `PetHashThreads` has them.
- Epochs are natural numbers up to `MaxEpoch`, not 64-bit words.
- In `PetKVRecovery` stores to one chunk that `Valid` and `Reload` tell apart only when
  all of them are made are one step: an entry (value, then tag), whose chunk's size,
  stored before, gives both states away in the same manner; the header of a chunk; its
  items.
- In `PetHash` an eviction leaves room in the chunk that the next turn of `Insert`
  looks at; a table of one chunk has no next turn, and `InsertFull` aborts it.
- memcached has no keys of an earlier run but perhaps the two counters set to 0; every
  operation on it is atomic.
- Statistics, timers, logging.

## 7. Not modelled

- **Power failure.** Stores that have not been flushed are not lost in these
  models; a death is the death of the process. The order of `clflushopt` and
  fences would need a model of the cache, and the code has no reader of what such
  a failure leaves other than the recovery modelled here.
- **`ReInitialize`** (a file registered again with another size, which comes from a
  changed configuration and wipes the device) and the limits of the register center (device size, number
  of names, 50-character names), and its fsdax files: configuration errors that
  end in an abort or a wiped device.
- **`PersistSimpleMalloc`, `PersistLoopShmMalloc`** and the **other engines**:
  baselines of the evaluation, adapters over third-party indexes. The simple
  allocator reuses memory in use when it wraps, which is what it is meant to do.
- **Verbs, the NIC, memcached itself** and the parts of Mayfly that PetPS does not call
  (its directory threads, reads and atomics). More than one client process: the
  library's callers all leave `expectedClientNR` at 1. Keys of an earlier run left in
  memcached.
- **`shuffle_load`**, the synchronous **`WaitRPCFinish`** (a loop over the query
  that is modelled), the benchmark's stop, pause and throughput code, the check
  function of `Insert` for expired entries (every caller passes none), recycling
  policies nobody constructs.
- **Postoffice, base library, drivers, data-set tools**: no protocol; hash
  functions and roles are constants of the models.

The repository's source tree holds, beside about nine thousand lines of its own, a
copy of googletest and other vendored code, which is several times as long and is
not the subject of this project: measured against all files the models cover a
few percent, measured against the store, the allocator, the epochs and the
client-server protocol nearly every function that changes state.
