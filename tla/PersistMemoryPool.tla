------------------------- MODULE PersistMemoryPool -------------------------
(***************************************************************************)
(* The slab allocator of src/memory/persist_malloc.h.  New runs under the  *)
(* pool's lock_, but looks at Chunk::Full without the chunk's lock; Free   *)
(* takes only the chunk's lock.  The chunk headers and bitmaps live in the *)
(* mapped file and survive a restart of the process; the free list, the    *)
(* per-size lists and the counters are rebuilt by the constructor.         *)
(*                                                                         *)
(* No property depends on which unused chunk is taken first or in which    *)
(* order a size's chunks are scanned, so the deques are sets here.  A      *)
(* block is a pair (chunk, entry).  The pool's clients keep the blocks     *)
(* they were given across a restart, as PetKV does in its dictionary.      *)
(***************************************************************************)
EXTENDS Integers, FiniteSets

CONSTANTS Threads, NoThread,
          Chunks,           \* the nr_chunks_ chunks of the file
          Sizes, NoSize,    \* slab_sizes
          MaxEntryNumber,   \* slab size -> entries of a chunk of that size
          NoChunk,
          MaxRestarts       \* bound on restarts of the process

AllEntries == UNION {0 .. MaxEntryNumber[s] - 1 : s \in Sizes}
Blocks == Chunks \X AllEntries

ASSUME PoolAssumption ==
    /\ IsFiniteSet(Chunks) /\ IsFiniteSet(Sizes)
    /\ Sizes # {}
    /\ MaxEntryNumber \in [Sizes -> Nat \ {0}]
    /\ NoThread \notin Threads
    /\ NoSize \notin Sizes
    /\ NoChunk \notin Chunks
    /\ MaxRestarts \in Nat

VARIABLES
    \* in the file
    is_used, slab_size_, bitmap_,
    \* of the process
    allocated_entries_,       \* chunk -> its counter
    chunk_lock,               \* chunk -> holder of Chunk::lock_
    lock_,                    \* holder of the pool's lock_
    free_chunks_,             \* the unused chunks
    size_to_chunks_,          \* slab size -> its chunks
    size_to_last_used_chunk_, \* slab size -> chunk New tries first
    total_malloc_,
    fatal,                    \* LOG(FATAL): out of memory
    check_failed,             \* CHECK(return_ptr) failed
    \* of a call in progress
    pc, slab, chunk, entry,
    unscanned,                \* chunks New's last loop has yet to look at
    \* of the clients
    held,                     \* blocks returned by New and not given to Free
    lost,                     \* history: blocks in flight when a restart came
    restarts

fileVars   == <<is_used, slab_size_, bitmap_>>
poolVars   == <<allocated_entries_, chunk_lock, lock_, free_chunks_,
                size_to_chunks_, size_to_last_used_chunk_, total_malloc_,
                fatal, check_failed>>
callVars   == <<pc, slab, chunk, entry, unscanned>>
clientVars == <<held, lost, restarts>>
vars == <<fileVars, poolVars, callVars, clientVars>>

PC == {"idle", "choose", "use", "mark", "scan", "malloc", "count",   \* New
       "clear", "uncount"}                                           \* Free

TypeOK ==
    /\ is_used \in [Chunks -> BOOLEAN]
    /\ slab_size_ \in [Chunks -> Sizes \cup {NoSize}]
    /\ bitmap_ \in [Chunks -> SUBSET AllEntries]
    /\ allocated_entries_ \in [Chunks -> Nat]
    /\ chunk_lock \in [Chunks -> Threads \cup {NoThread}]
    /\ lock_ \in Threads \cup {NoThread}
    /\ free_chunks_ \in SUBSET Chunks
    /\ size_to_chunks_ \in [Sizes -> SUBSET Chunks]
    /\ size_to_last_used_chunk_ \in [Sizes -> Chunks \cup {NoChunk}]
    /\ total_malloc_ \in Int
    /\ fatal \in BOOLEAN
    /\ check_failed \in BOOLEAN
    /\ pc \in [Threads -> PC]
    /\ slab \in [Threads -> Sizes \cup {NoSize}]
    /\ chunk \in [Threads -> Chunks \cup {NoChunk}]
    /\ entry \in [Threads -> AllEntries]
    /\ unscanned \in [Threads -> SUBSET Chunks]
    /\ held \in SUBSET Blocks
    /\ lost \in SUBSET Blocks
    /\ restarts \in 0 .. MaxRestarts

Init ==
    /\ is_used = [c \in Chunks |-> FALSE]
    /\ slab_size_ = [c \in Chunks |-> NoSize]
    /\ bitmap_ = [c \in Chunks |-> {}]
    /\ allocated_entries_ = [c \in Chunks |-> 0]
    /\ chunk_lock = [c \in Chunks |-> NoThread]
    /\ lock_ = NoThread
    /\ free_chunks_ = Chunks
    /\ size_to_chunks_ = [s \in Sizes |-> {}]
    /\ size_to_last_used_chunk_ = [s \in Sizes |-> NoChunk]
    /\ total_malloc_ = 0
    /\ fatal = FALSE
    /\ check_failed = FALSE
    /\ pc = [t \in Threads |-> "idle"]
    /\ slab = [t \in Threads |-> NoSize]
    /\ chunk = [t \in Threads |-> NoChunk]
    /\ entry = [t \in Threads |-> 0]
    /\ unscanned = [t \in Threads |-> {}]
    /\ held = {}
    /\ lost = {}
    /\ restarts = 0

At(t, label) == ~ fatal /\ ~ check_failed /\ pc[t] = label
Goto(t, label) == pc' = [pc EXCEPT ![t] = label]

(* A call returns: its locals are gone.                                    *)
Return(t) ==
    /\ pc' = [pc EXCEPT ![t] = "idle"]
    /\ slab' = [slab EXCEPT ![t] = NoSize]
    /\ chunk' = [chunk EXCEPT ![t] = NoChunk]
    /\ entry' = [entry EXCEPT ![t] = 0]
    /\ unscanned' = [unscanned EXCEPT ![t] = {}]

EntriesOf(c) == 0 .. MaxEntryNumber[slab_size_[c]] - 1

(* Chunk::Full, read without the chunk's lock.                             *)
Full(c) == allocated_entries_[c] = MaxEntryNumber[slab_size_[c]]

---------------------------------------------------------------------------
(* NewInternal, under the pool's lock_.                                    *)

NewStart(t, s) ==
    /\ At(t, "idle")
    /\ lock_ = NoThread
    /\ lock_' = t
    /\ slab' = [slab EXCEPT ![t] = s]
    /\ Goto(t, "choose")
    /\ UNCHANGED <<fileVars, allocated_entries_, chunk_lock, free_chunks_,
                   size_to_chunks_, size_to_last_used_chunk_, total_malloc_,
                   fatal, check_failed, chunk, entry, unscanned, clientVars>>

LastUsedHasRoom(t) ==
    LET last == size_to_last_used_chunk_[slab[t]] IN
    last # NoChunk /\ ~ Full(last)

TryLastUsed(t) ==
    /\ At(t, "choose")
    /\ LastUsedHasRoom(t)
    /\ chunk' = [chunk EXCEPT ![t] = size_to_last_used_chunk_[slab[t]]]
    /\ Goto(t, "malloc")
    /\ UNCHANGED <<fileVars, poolVars, slab, entry, unscanned, clientVars>>

TakeFreeChunk(t) ==
    /\ At(t, "choose")
    /\ ~ LastUsedHasRoom(t)
    /\ \E c \in free_chunks_ :
          /\ chunk' = [chunk EXCEPT ![t] = c]
          /\ free_chunks_' = free_chunks_ \ {c}
    /\ Goto(t, "use")
    /\ UNCHANGED <<fileVars, allocated_entries_, chunk_lock, lock_,
                   size_to_chunks_, size_to_last_used_chunk_, total_malloc_,
                   fatal, check_failed, slab, entry, unscanned, clientVars>>

(* Chunk::Use writes the header; is_used is its last store.                *)
UseChunk(t) ==
    /\ At(t, "use")
    /\ slab_size_' = [slab_size_ EXCEPT ![chunk[t]] = slab[t]]
    /\ bitmap_' = [bitmap_ EXCEPT ![chunk[t]] = {}]
    /\ Goto(t, "mark")
    /\ UNCHANGED <<is_used, poolVars, slab, chunk, entry, unscanned, clientVars>>

MarkUsed(t) ==
    /\ At(t, "mark")
    /\ is_used' = [is_used EXCEPT ![chunk[t]] = TRUE]
    /\ allocated_entries_' = [allocated_entries_ EXCEPT ![chunk[t]] = 0]
    /\ size_to_chunks_' = [size_to_chunks_ EXCEPT ![slab[t]] = @ \cup {chunk[t]}]
    /\ size_to_last_used_chunk_' =
            [size_to_last_used_chunk_ EXCEPT ![slab[t]] = chunk[t]]
    /\ Goto(t, "malloc")
    /\ UNCHANGED <<slab_size_, bitmap_, chunk_lock, lock_, free_chunks_,
                   total_malloc_, fatal, check_failed, slab, chunk, entry,
                   unscanned, clientVars>>

(* No chunk left: look for a chunk of the size with room, one Full at a    *)
(* time; a size_to_chunks_ list without any is LOG(FATAL) out of memory.   *)
StartScan(t) ==
    /\ At(t, "choose")
    /\ ~ LastUsedHasRoom(t)
    /\ free_chunks_ = {}
    /\ unscanned' = [unscanned EXCEPT ![t] = size_to_chunks_[slab[t]]]
    /\ Goto(t, "scan")
    /\ UNCHANGED <<fileVars, poolVars, slab, chunk, entry, clientVars>>

(* A faulty variant: the loop does not move on from a full chunk.          *)
ScanChunkAgain(t) ==
    /\ At(t, "scan")
    /\ \E c \in unscanned[t] :
          IF Full(c)
          THEN UNCHANGED <<pc, chunk>>
          ELSE Goto(t, "malloc") /\ chunk' = [chunk EXCEPT ![t] = c]
    /\ UNCHANGED <<fileVars, poolVars, slab, entry, unscanned, clientVars>>

ScanChunk(t) ==
    /\ At(t, "scan")
    /\ \E c \in unscanned[t] :
          /\ unscanned' = [unscanned EXCEPT ![t] = @ \ {c}]
          /\ IF Full(c)
             THEN UNCHANGED <<pc, chunk>>
             ELSE Goto(t, "malloc") /\ chunk' = [chunk EXCEPT ![t] = c]
    /\ UNCHANGED <<fileVars, poolVars, slab, entry, clientVars>>

OutOfMemory(t) ==
    /\ At(t, "scan")
    /\ unscanned[t] = {}
    /\ fatal' = TRUE
    /\ UNCHANGED <<fileVars, allocated_entries_, chunk_lock, lock_,
                   free_chunks_, size_to_chunks_, size_to_last_used_chunk_,
                   total_malloc_, check_failed, callVars, clientVars>>

(* Chunk::Malloc, under the chunk's lock: the first clear bit is set.      *)
Zeros(c) == EntriesOf(c) \ bitmap_[c]

(* A faulty variant: the search overlooks the bits that are set.           *)
FirstEntry(c) == CHOOSE e \in EntriesOf(c) : \A f \in EntriesOf(c) : e <= f

FirstZero(c) == CHOOSE e \in Zeros(c) : \A f \in Zeros(c) : e <= f

Malloc(t) ==
    LET c == chunk[t] IN
    /\ At(t, "malloc")
    /\ chunk_lock[c] = NoThread
    /\ IF Zeros(c) = {}
       THEN /\ check_failed' = TRUE
            /\ UNCHANGED <<bitmap_, allocated_entries_, pc, entry>>
       ELSE /\ bitmap_' = [bitmap_ EXCEPT ![c] = @ \cup {FirstZero(c)}]
            /\ allocated_entries_' = [allocated_entries_ EXCEPT ![c] = @ + 1]
            /\ entry' = [entry EXCEPT ![t] = FirstZero(c)]
            /\ Goto(t, "count")
            /\ UNCHANGED check_failed
    /\ UNCHANGED <<is_used, slab_size_, chunk_lock, lock_, free_chunks_,
                   size_to_chunks_, size_to_last_used_chunk_, total_malloc_,
                   fatal, slab, chunk, unscanned, clientVars>>

NewReturn(t) ==
    /\ At(t, "count")
    /\ total_malloc_' = total_malloc_ + 1
    /\ lock_' = NoThread
    /\ held' = held \cup {<<chunk[t], entry[t]>>}
    /\ Return(t)
    /\ UNCHANGED <<fileVars, allocated_entries_, chunk_lock, free_chunks_,
                   size_to_chunks_, size_to_last_used_chunk_, fatal,
                   check_failed, lost, restarts>>

---------------------------------------------------------------------------
(* Free: the counter goes down before the bit is cleared, both under the   *)
(* chunk's lock; total_malloc_ follows.                                    *)

(* Faulty variants: Free without the chunk's lock; with no count; with no  *)
(* bit cleared.                                                            *)
FreeStartUnlocked(t, b) ==
    /\ At(t, "idle")
    /\ b \in held
    /\ allocated_entries_' = [allocated_entries_ EXCEPT ![b[1]] = @ - 1]
    /\ held' = held \ {b}
    /\ chunk' = [chunk EXCEPT ![t] = b[1]]
    /\ entry' = [entry EXCEPT ![t] = b[2]]
    /\ Goto(t, "clear")
    /\ UNCHANGED <<fileVars, chunk_lock, lock_, free_chunks_, size_to_chunks_,
                   size_to_last_used_chunk_, total_malloc_, fatal,
                   check_failed, slab, unscanned, lost, restarts>>

FreeStartUncounted(t, b) ==
    /\ At(t, "idle")
    /\ b \in held
    /\ chunk_lock[b[1]] = NoThread
    /\ chunk_lock' = [chunk_lock EXCEPT ![b[1]] = t]
    /\ held' = held \ {b}
    /\ chunk' = [chunk EXCEPT ![t] = b[1]]
    /\ entry' = [entry EXCEPT ![t] = b[2]]
    /\ Goto(t, "clear")
    /\ UNCHANGED <<fileVars, allocated_entries_, lock_, free_chunks_,
                   size_to_chunks_, size_to_last_used_chunk_, total_malloc_,
                   fatal, check_failed, slab, unscanned, lost, restarts>>

FreeClearNothing(t) ==
    /\ At(t, "clear")
    /\ chunk_lock' = [chunk_lock EXCEPT ![chunk[t]] = NoThread]
    /\ Goto(t, "uncount")
    /\ UNCHANGED <<fileVars, allocated_entries_, lock_, free_chunks_,
                   size_to_chunks_, size_to_last_used_chunk_, total_malloc_,
                   fatal, check_failed, slab, chunk, entry, unscanned,
                   clientVars>>

FreeStart(t, b) ==
    LET c == b[1] IN
    /\ At(t, "idle")
    /\ b \in held
    /\ chunk_lock[c] = NoThread
    /\ chunk_lock' = [chunk_lock EXCEPT ![c] = t]
    /\ allocated_entries_' = [allocated_entries_ EXCEPT ![c] = @ - 1]
    /\ held' = held \ {b}
    /\ chunk' = [chunk EXCEPT ![t] = c]
    /\ entry' = [entry EXCEPT ![t] = b[2]]
    /\ Goto(t, "clear")
    /\ UNCHANGED <<fileVars, lock_, free_chunks_, size_to_chunks_,
                   size_to_last_used_chunk_, total_malloc_, fatal,
                   check_failed, slab, unscanned, lost, restarts>>

FreeClear(t) ==
    /\ At(t, "clear")
    /\ bitmap_' = [bitmap_ EXCEPT ![chunk[t]] = @ \ {entry[t]}]
    /\ chunk_lock' = [chunk_lock EXCEPT ![chunk[t]] = NoThread]
    /\ Goto(t, "uncount")
    /\ UNCHANGED <<is_used, slab_size_, allocated_entries_, lock_,
                   free_chunks_, size_to_chunks_, size_to_last_used_chunk_,
                   total_malloc_, fatal, check_failed, slab, chunk, entry,
                   unscanned, clientVars>>

FreeReturn(t) ==
    /\ At(t, "uncount")
    /\ total_malloc_' = total_malloc_ - 1
    /\ Return(t)
    /\ UNCHANGED <<fileVars, allocated_entries_, chunk_lock, lock_,
                   free_chunks_, size_to_chunks_, size_to_last_used_chunk_,
                   fatal, check_failed, clientVars>>

---------------------------------------------------------------------------
(* A restart of the process, and the constructor on the existing file.     *)

Allocated == {b \in Blocks : is_used[b[1]] /\ b[2] \in bitmap_[b[1]]}

(* Faulty variants: the counter is left at 0; every chunk counts as free;  *)
(* nothing is added to total_malloc_.                                      *)
NoRecovery(c) == 0
AllUnused == Chunks
NoTotal == 0

(* Recovery of one chunk: its counter from its bitmap.                     *)
Recovery(c) == IF is_used[c] THEN Cardinality(bitmap_[c]) ELSE 0

(* The chunks the constructor finds unused, and those it lists by size.    *)
Unused == {c \in Chunks : ~ is_used[c]}
UsedFor(s) == {c \in Chunks : is_used[c] /\ slab_size_[c] = s}

TotalAllocated == Cardinality(Allocated)

Restart ==
    /\ restarts < MaxRestarts
    /\ restarts' = restarts + 1
    /\ allocated_entries_' = [c \in Chunks |-> Recovery(c)]
    /\ free_chunks_' = Unused
    /\ size_to_chunks_' = [s \in Sizes |-> UsedFor(s)]
    /\ size_to_last_used_chunk_' = [s \in Sizes |-> NoChunk]
    /\ total_malloc_' = TotalAllocated
    /\ chunk_lock' = [c \in Chunks |-> NoThread]
    /\ lock_' = NoThread
    /\ fatal' = FALSE
    /\ check_failed' = FALSE
    /\ pc' = [t \in Threads |-> "idle"]
    /\ slab' = [t \in Threads |-> NoSize]
    /\ chunk' = [t \in Threads |-> NoChunk]
    /\ entry' = [t \in Threads |-> 0]
    /\ unscanned' = [t \in Threads |-> {}]
    /\ lost' = Allocated \ held
    /\ UNCHANGED <<fileVars, held>>

---------------------------------------------------------------------------
(* A call that has started.                                                *)
Continue(t) ==
    \/ TryLastUsed(t) \/ TakeFreeChunk(t) \/ UseChunk(t) \/ MarkUsed(t)
    \/ StartScan(t) \/ ScanChunk(t) \/ OutOfMemory(t) \/ Malloc(t)
    \/ NewReturn(t) \/ FreeClear(t) \/ FreeReturn(t)

Aborted == (fatal \/ check_failed) /\ UNCHANGED vars

Next ==
    \/ \E t \in Threads :
          \/ \E s \in Sizes : NewStart(t, s)
          \/ \E b \in held : FreeStart(t, b)
          \/ Continue(t)
    \/ Restart
    \/ Aborted

Spec == Init /\ [][Next]_vars

(* A thread inside New or Free keeps running: no lock it waits for is held *)
(* by a thread that waits for anything.                                    *)
LiveSpec == Spec /\ \A t \in Threads : WF_vars(Continue(t))

---------------------------------------------------------------------------
(* Properties.                                                             *)

(* CHECK(return_ptr) never fails: a chunk that looked not full without its *)
(* lock still has a clear bit when Malloc has the lock (persist_malloc.h:  *)
(* 367-370, 389), whatever Free did in between.                            *)
NewSucceeds == ~ check_failed

InFlight(t) == <<chunk[t], entry[t]>>
Owning == {t \in Threads : pc[t] \in {"count", "clear"}}

(* No block has two owners: what the clients hold, what a New is about to  *)
(* return, what a Free has taken and what a restart lost are different     *)
(* blocks, all of them marked in a bitmap (persist_malloc.h:191-210).      *)
BlocksExclusive ==
    /\ held \cup lost \subseteq Allocated
    /\ held \cap lost = {}
    /\ \A t \in Owning : InFlight(t) \in Allocated \ (held \cup lost)
    /\ \A t, u \in Owning : InFlight(t) = InFlight(u) => t = u

(* No bit is set without an owner, and only a restart loses one            *)
(* (persist_malloc.h:200-210).                                             *)
BitsAccounted == Allocated \subseteq held \cup lost \cup {InFlight(t) : t \in Owning}

(* What GetMallocedIds and Full check: a chunk at rest counts its bits     *)
(* (persist_malloc.h:184, 222).                                            *)
CountersExact ==
    \A c \in Chunks : (is_used[c] /\ chunk_lock[c] = NoThread) =>
        allocated_entries_[c] = Cardinality(bitmap_[c])

(* What persist_memorypool_test.cc checks: with no call in progress        *)
(* total_malloc() is the number of blocks in use, after a restart too.     *)
TotalExact ==
    (\A t \in Threads : pc[t] = "idle") => total_malloc_ = Cardinality(Allocated)

(* A chunk is on the free list, on the list of one size, or on its way     *)
(* from the one to the other in the hands of the one thread that holds     *)
(* lock_ (persist_malloc.h:372-378, 325-335).                              *)
ChunksPartitioned ==
    \A c \in Chunks :
        LET moving == \E t \in Threads : chunk[t] = c /\ pc[t] \in {"use", "mark"}
            listed == {s \in Sizes : c \in size_to_chunks_[s]}
        IN  IF c \in free_chunks_ \/ moving
            THEN listed = {} /\ ~ (c \in free_chunks_ /\ moving)
            ELSE Cardinality(listed) = 1

(* A New that has the pool's lock returns or aborts (persist_malloc.h:     *)
(* 358-392): whoever holds the chunk's lock it waits for lets go of it.    *)
NewFinishes ==
    \A t \in Threads : pc[t] = "choose" ~> (pc[t] = "idle" \/ fatal)

============================================================================
