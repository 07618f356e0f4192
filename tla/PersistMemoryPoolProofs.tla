---------------------- MODULE PersistMemoryPoolProofs ----------------------
(***************************************************************************)
(* For any number of threads, chunks, slab sizes and entries: New never    *)
(* fails its CHECK, no block has two owners, no block is lost, and every   *)
(* chunk is on one list or in the hands of the one New.                    *)
(***************************************************************************)
EXTENDS PersistMemoryPool, FiniteSetTheorems, WellFoundedInduction, TLAPS

(* A non-empty set of naturals has a least element.                        *)
LEMMA LeastNatural ==
    ASSUME NEW S \in SUBSET Nat, S # {}
    PROVE  \E e \in S : \A f \in S : e <= f
<1>1. PICK e \in S : \A f \in S : <<f, e>> \notin OpToRel(<, Nat)
  BY NatLessThanWellFounded, WFMin, Zenon
<1>2. \A f \in S : ~ (f < e)
  BY <1>1, Zenon DEF OpToRel
<1> QED
  BY <1>2

(* One element more, and one less.                                         *)
LEMMA OneMore ==
    ASSUME NEW S, IsFiniteSet(S), NEW x, x \notin S
    PROVE  /\ IsFiniteSet(S \cup {x}) /\ Cardinality(S) \in Nat
           /\ Cardinality(S \cup {x}) = Cardinality(S) + 1
  BY FS_AddElement, FS_CardinalityType, Zenon

(* ... and its counterpart.                                                *)
LEMMA OneLess ==
    ASSUME NEW S, IsFiniteSet(S), NEW x \in S
    PROVE  /\ IsFiniteSet(S \ {x}) /\ Cardinality(S) \in Nat
           /\ Cardinality(S \ {x}) = Cardinality(S) - 1
  BY FS_RemoveElement, FS_CardinalityType, Zenon

(* The limit is wide so that a busy machine does not matter.               *)
USE SMTT(60)

NewPC == {"choose", "use", "mark", "scan", "malloc", "count"}

(* Who holds which lock.                                                   *)
LockInv ==
    /\ \A t \in Threads : pc[t] \in NewPC => lock_ = t /\ slab[t] \in Sizes
    /\ \A c \in Chunks, t \in Threads :
          chunk_lock[c] = t <=> pc[t] = "clear" /\ chunk[t] = c

(* A used chunk counts its bits, all but the one a Free is about to clear. *)
CountInv ==
    \A c \in Chunks : is_used[c] =>
        /\ slab_size_[c] \in Sizes
        /\ bitmap_[c] \subseteq EntriesOf(c)
        /\ Cardinality(bitmap_[c]) =
              IF chunk_lock[c] = NoThread THEN allocated_entries_[c]
              ELSE allocated_entries_[c] + 1

(* What the lists hold, and the chunk a New has settled on.                *)
ListInv ==
    /\ \A c \in free_chunks_ : ~ is_used[c]
    /\ \A s \in Sizes : \A c \in size_to_chunks_[s] : is_used[c]
    /\ \A s \in Sizes : size_to_last_used_chunk_[s] # NoChunk =>
                            is_used[size_to_last_used_chunk_[s]]
    /\ \A t \in Threads : pc[t] = "scan" => \A c \in unscanned[t] : is_used[c]
    /\ \A t \in Threads : pc[t] \in {"use", "mark"} =>
          chunk[t] \in Chunks \ free_chunks_ /\ ~ is_used[chunk[t]]
    /\ \A t \in Threads : pc[t] = "mark" =>
          slab_size_[chunk[t]] = slab[t] /\ bitmap_[chunk[t]] = {}
    /\ \A t \in Threads : pc[t] = "malloc" =>
          /\ chunk[t] \in Chunks /\ is_used[chunk[t]]
          /\ allocated_entries_[chunk[t]] < MaxEntryNumber[slab_size_[chunk[t]]]

PoolInv == TypeOK /\ LockInv /\ CountInv /\ ListInv /\ BlocksExclusive /\ NewSucceeds

---------------------------------------------------------------------------
(* The bit Chunk::Malloc sets was clear and belongs to the chunk.          *)
LEMMA FirstZeroIsZero ==
    ASSUME NEW c \in Chunks, Zeros(c) # {}, slab_size_[c] \in Sizes
    PROVE  FirstZero(c) \in Zeros(c)
<1>1. Zeros(c) \in SUBSET Nat
  BY PoolAssumption DEF Zeros, EntriesOf
<1>2. \E e \in Zeros(c) : \A f \in Zeros(c) : e <= f
  BY <1>1, LeastNatural, Zenon
<1> QED
  BY <1>2, Zenon DEF FirstZero

(* A chunk that counts fewer bits than it has entries has a clear bit.     *)
LEMMA RoomMeansZero ==
    ASSUME NEW c \in Chunks, slab_size_[c] \in Sizes,
           bitmap_[c] \subseteq EntriesOf(c),
           Cardinality(bitmap_[c]) < MaxEntryNumber[slab_size_[c]]
    PROVE  Zeros(c) # {}
<1> DEFINE n == MaxEntryNumber[slab_size_[c]]
<1>1. n \in Nat \ {0}
  BY PoolAssumption, Zenon
<1>2. Cardinality(EntriesOf(c)) = n
  BY <1>1, FS_Interval DEF EntriesOf
<1> QED
  BY <1>2, <1>1 DEF Zeros

(* A chunk's bitmap has finitely many bits.                                *)
LEMMA BitmapFinite ==
    ASSUME NEW c \in Chunks, slab_size_[c] \in Sizes, bitmap_[c] \subseteq EntriesOf(c)
    PROVE  IsFiniteSet(bitmap_[c]) /\ Cardinality(bitmap_[c]) \in Nat
<1>1. IsFiniteSet(EntriesOf(c))
  BY PoolAssumption, FS_Interval DEF EntriesOf
<1> QED
  BY <1>1, FS_Subset, FS_CardinalityType, Zenon
---------------------------------------------------------------------------
(* Every chunk has an entry 0, which an idle thread shows as its entry.    *)
LEMMA ZeroEntry == 0 \in AllEntries
<1>1. PICK s \in Sizes : TRUE
  BY PoolAssumption, Zenon
<1>2. 0 \in 0 .. MaxEntryNumber[s] - 1
  BY PoolAssumption
<1> QED
  BY <1>2, Zenon DEF AllEntries

(* The blocks in use can be counted, as the constructor does.              *)
LEMMA AllocatedFinite == IsFiniteSet(Allocated) /\ Cardinality(Allocated) \in Nat
<1> DEFINE E == {0 .. MaxEntryNumber[s] - 1 : s \in Sizes}
           f == [s \in Sizes |-> 0 .. MaxEntryNumber[s] - 1]
<1>1. f \in Surjection(Sizes, E)
  BY Zenon DEF Surjection
<1>2. IsFiniteSet(E)
  BY <1>1, FS_Surjection, PoolAssumption, Zenon
<1>3. \A T \in E : IsFiniteSet(T)
  BY FS_Interval, PoolAssumption
<1>4. IsFiniteSet(AllEntries)
  BY <1>2, <1>3, FS_UNION, Zenon DEF AllEntries
<1>5. IsFiniteSet(Blocks)
  BY <1>4, FS_Product, PoolAssumption, Zenon DEF Blocks
<1> QED
  BY <1>5, FS_Subset, FS_CardinalityType, Zenon DEF Allocated

(* A pool on a fresh file satisfies the invariant.                         *)
LEMMA InitPool == Init => PoolInv
<1> SUFFICES ASSUME Init PROVE PoolInv
  BY Zenon
<1>1. restarts \in 0 .. MaxRestarts /\ entry \in [Threads -> AllEntries]
  BY ZeroEntry, PoolAssumption DEF Init
<1>2. TypeOK
  <2>1. /\ is_used \in [Chunks -> BOOLEAN]
        /\ slab_size_ \in [Chunks -> Sizes \cup {NoSize}]
        /\ bitmap_ \in [Chunks -> SUBSET AllEntries]
        /\ allocated_entries_ \in [Chunks -> Nat]
        /\ chunk_lock \in [Chunks -> Threads \cup {NoThread}]
    BY Zenon DEF Init
  <2>2. /\ free_chunks_ \in SUBSET Chunks
        /\ size_to_chunks_ \in [Sizes -> SUBSET Chunks]
        /\ size_to_last_used_chunk_ \in [Sizes -> Chunks \cup {NoChunk}]
    BY Zenon DEF Init
  <2>3. /\ pc \in [Threads -> PC]
        /\ slab \in [Threads -> Sizes \cup {NoSize}]
        /\ chunk \in [Threads -> Chunks \cup {NoChunk}]
        /\ unscanned \in [Threads -> SUBSET Chunks]
    BY Zenon DEF Init, PC
  <2>4. held \in SUBSET Blocks /\ lost \in SUBSET Blocks
    BY Zenon DEF Init
  <2>5. /\ lock_ \in Threads \cup {NoThread} /\ total_malloc_ \in Int
    BY DEF Init
  <2>6. fatal \in BOOLEAN /\ check_failed \in BOOLEAN
    BY Zenon DEF Init
  <2> QED
    BY <1>1, <2>1, <2>2, <2>3, <2>4, <2>5, <2>6, Zenon DEF TypeOK
<1>3. LockInv /\ CountInv /\ ListInv
  BY PoolAssumption, Zenon DEF Init, LockInv, CountInv, ListInv, NewPC
<1>4. BlocksExclusive
  BY Zenon DEF Init, BlocksExclusive, Owning
<1>5. NewSucceeds
  BY Zenon DEF Init, NewSucceeds
<1> QED
  BY <1>2, <1>3, <1>4, <1>5, Zenon DEF PoolInv

(* A used chunk that does not look full counts fewer bits than entries.    *)
LEMMA NotFullHasRoom ==
    ASSUME PoolInv, NEW c \in Chunks, is_used[c], ~ Full(c)
    PROVE  allocated_entries_[c] < MaxEntryNumber[slab_size_[c]]
<1> DEFINE n == MaxEntryNumber[slab_size_[c]]
<1>1. slab_size_[c] \in Sizes /\ bitmap_[c] \subseteq EntriesOf(c)
  BY Zenon DEF PoolInv, CountInv
<1>2. n \in Nat \ {0}
  BY <1>1, PoolAssumption, Zenon
<1>3. IsFiniteSet(EntriesOf(c)) /\ Cardinality(EntriesOf(c)) = n
  <2>1. 0 \in Int /\ n - 1 \in Int /\ ~ (0 > n - 1) /\ n - 1 - 0 + 1 = n
    BY <1>2
  <2>2. IsFiniteSet(0 .. n - 1)
    BY <2>1, FS_Interval, Zenon
  <2>3. Cardinality(0 .. n - 1) = n
    BY <2>1, FS_Interval, Zenon
  <2> QED
    BY <2>2, <2>3, Zenon DEF EntriesOf
<1>4. Cardinality(bitmap_[c]) <= n
  BY <1>1, <1>3, FS_Subset, Zenon
<1>5. allocated_entries_[c] \in Nat /\ allocated_entries_[c] <= Cardinality(bitmap_[c])
  BY DEF PoolInv, TypeOK, CountInv
<1>6. Cardinality(bitmap_[c]) \in Nat
  BY <1>1, BitmapFinite, Zenon
<1> QED
  BY <1>2, <1>4, <1>5, <1>6 DEF Full

(* Nobody frees into a chunk that is not in use.                           *)
LEMMA UnusedUnlocked ==
    ASSUME PoolInv, NEW c \in Chunks, ~ is_used[c]
    PROVE  chunk_lock[c] = NoThread
<1> SUFFICES ASSUME NEW t \in Threads, chunk_lock[c] = t PROVE FALSE
  BY Zenon DEF PoolInv, TypeOK
<1>1. pc[t] = "clear" /\ chunk[t] = c
  BY ZenonT(40) DEF PoolInv, LockInv
<1>2. InFlight(t) \in Allocated
  BY <1>1, Zenon DEF PoolInv, BlocksExclusive, Owning
<1> QED
  BY <1>1, <1>2, Zenon DEF InFlight, Allocated

(* The counter of the chunk a held block lies in is not 0.                 *)
LEMMA FreeCounts ==
    ASSUME PoolInv, NEW b \in held, chunk_lock[b[1]] = NoThread
    PROVE  allocated_entries_[b[1]] - 1 \in Nat
<1> DEFINE c == b[1]
<1>1. c \in Chunks /\ is_used[c] /\ b[2] \in bitmap_[c]
  BY Zenon DEF PoolInv, TypeOK, BlocksExclusive, Allocated, Blocks
<1>2. IsFiniteSet(bitmap_[c]) /\ Cardinality(bitmap_[c]) \in Nat
  BY <1>1, BitmapFinite, Zenon DEF PoolInv, CountInv
<1>3. Cardinality(bitmap_[c]) # 0
  BY <1>1, <1>2, FS_EmptySet, Zenon
<1> QED
  BY <1>1, <1>2, <1>3 DEF PoolInv, CountInv

---------------------------------------------------------------------------
(* What most steps leave alone.                                            *)

(* The types of what a call works with.                                    *)
LEMMA CallTypes ==
    ASSUME TypeOK
    PROVE  /\ pc \in [Threads -> PC]
           /\ slab \in [Threads -> Sizes \cup {NoSize}]
           /\ chunk \in [Threads -> Chunks \cup {NoChunk}]
           /\ entry \in [Threads -> AllEntries]
           /\ unscanned \in [Threads -> SUBSET Chunks]
  BY Zenon DEF TypeOK

(* The calls of the other threads stay where they are.                     *)
OthersStay(t) ==
    \A u \in Threads \ {t} :
        pc'[u] = pc[u] /\ chunk'[u] = chunk[u] /\ entry'[u] = entry[u]

(* A step of New between taking and releasing lock_.                       *)
NewStep(t) ==
    /\ pc[t] \in NewPC /\ pc'[t] \in NewPC
    /\ OthersStay(t)
    /\ UNCHANGED <<lock_, slab, chunk_lock>>

(* Such a step leaves the locks as they are.                               *)
LEMMA NewStepLock ==
    ASSUME LockInv, NEW t \in Threads, NewStep(t)
    PROVE  LockInv'
<1>1. pc[t] # "clear" /\ pc'[t] # "clear"
  BY Zenon DEF NewStep, NewPC
<1>2. ASSUME NEW u \in Threads PROVE pc'[u] \in NewPC => lock_' = u /\ slab'[u] \in Sizes
  BY Zenon DEF LockInv, NewStep, OthersStay
<1>3. ASSUME NEW c \in Chunks, NEW u \in Threads
      PROVE  chunk_lock'[c] = u <=> pc'[u] = "clear" /\ chunk'[u] = c
  <2>1. chunk_lock[c] = u <=> pc[u] = "clear" /\ chunk[u] = c
    BY Zenon DEF LockInv
  <2>2. chunk_lock' = chunk_lock
    BY Zenon DEF NewStep
  <2>3. u # t => pc'[u] = pc[u] /\ chunk'[u] = chunk[u]
    BY Zenon DEF NewStep, OthersStay
  <2> QED
    BY <1>1, <2>1, <2>2, <2>3, Zenon
<1> QED
  BY <1>2, <1>3, Zenon DEF LockInv

(* A step of a thread that has no block in its hands, before or after.     *)
OwnersStay(t) ==
    /\ pc[t] \notin {"count", "clear"} /\ pc'[t] \notin {"count", "clear"}
    /\ OthersStay(t)
    /\ Allocated' = Allocated
    /\ UNCHANGED <<held, lost>>

(* Such a step leaves the blocks with their owners.                        *)
LEMMA OwnersFrame ==
    ASSUME BlocksExclusive, NEW t \in Threads, OwnersStay(t)
    PROVE  BlocksExclusive'
<1>1. Owning' = Owning /\ t \notin Owning
  BY Zenon DEF Owning, OwnersStay, OthersStay
<1>2. \A u \in Owning : InFlight(u)' = InFlight(u)
  BY <1>1, Zenon DEF Owning, InFlight, OwnersStay, OthersStay
<1>3. held' = held /\ lost' = lost /\ Allocated' = Allocated
  BY Zenon DEF OwnersStay
<1> QED
  BY <1>1, <1>2, <1>3 DEF BlocksExclusive

(* New takes lock_.                                                        *)
LEMMA NewStartKeeps ==
    ASSUME PoolInv, NEW t \in Threads, NEW s \in Sizes, NewStart(t, s)
    PROVE  PoolInv'
<1> USE DEF PoolInv, At, Goto, Return, fileVars, poolVars, callVars, clientVars
<1>1. TypeOK'
  BY PoolAssumption, Zenon DEF TypeOK, LockInv, ListInv, NewPC, PC, Blocks, NewStart
<1>2. LockInv'
  BY PoolAssumption DEF TypeOK, LockInv, NewPC, NewStart
<1>3. CountInv'
  BY Zenon DEF CountInv, EntriesOf, NewStart
<1>4. ListInv'
  BY PoolAssumption DEF TypeOK, LockInv, ListInv, NewPC, NewStart
<1>5. BlocksExclusive'
  <2>1. Allocated' = Allocated
    BY Zenon DEF Allocated, NewStart
  <2>2. OwnersStay(t)
    BY <2>1, CallTypes, Zenon DEF OwnersStay, OthersStay, NewStart
  <2> QED
    BY <2>2, OwnersFrame, Zenon
<1>6. NewSucceeds'
  BY Zenon DEF NewSucceeds, NewStart
<1> QED
  BY <1>1, <1>2, <1>3, <1>4, <1>5, <1>6, Zenon

(* New settles on the chunk of its size it used last.                      *)
LEMMA TryLastUsedKeeps ==
    ASSUME PoolInv, NEW t \in Threads, TryLastUsed(t)
    PROVE  PoolInv'
<1> USE DEF PoolInv, At, Goto, Return, fileVars, poolVars, callVars, clientVars
<1>1. TypeOK'
  BY PoolAssumption DEF TypeOK, LockInv, ListInv, NewPC, PC, Blocks, TryLastUsed
<1>2. LockInv'
  <2>1. NewStep(t)
    BY CallTypes, Zenon DEF NewStep, OthersStay, NewPC, TryLastUsed
  <2> QED
    BY <2>1, NewStepLock, Zenon
<1>3. CountInv'
  BY Zenon DEF CountInv, EntriesOf, TryLastUsed
<1>4. ListInv'
  <2>1. LET last == size_to_last_used_chunk_[slab[t]] IN
        /\ last \in Chunks /\ is_used[last]
        /\ allocated_entries_[last] < MaxEntryNumber[slab_size_[last]]
    BY NotFullHasRoom DEF TypeOK, LockInv, ListInv, NewPC, TryLastUsed, LastUsedHasRoom
  <2> QED
    BY <2>1 DEF TypeOK, LockInv, ListInv, NewPC, TryLastUsed
<1>5. BlocksExclusive'
  <2>1. Allocated' = Allocated
    BY Zenon DEF Allocated, TryLastUsed
  <2>2. OwnersStay(t)
    BY <2>1, CallTypes, Zenon DEF OwnersStay, OthersStay, TryLastUsed
  <2> QED
    BY <2>2, OwnersFrame, Zenon
<1>6. NewSucceeds'
  BY Zenon DEF NewSucceeds, TryLastUsed
<1> QED
  BY <1>1, <1>2, <1>3, <1>4, <1>5, <1>6, Zenon

(* New takes a chunk from the free list.                                   *)
LEMMA TakeFreeChunkKeeps ==
    ASSUME PoolInv, NEW t \in Threads, TakeFreeChunk(t)
    PROVE  PoolInv'
<1> USE DEF PoolInv, At, Goto, Return, fileVars, poolVars, callVars, clientVars
<1>1. TypeOK'
  BY PoolAssumption DEF TypeOK, LockInv, ListInv, NewPC, PC, Blocks, TakeFreeChunk
<1>2. LockInv'
  <2>1. NewStep(t)
    BY CallTypes, Zenon DEF NewStep, OthersStay, NewPC, TakeFreeChunk
  <2> QED
    BY <2>1, NewStepLock, Zenon
<1>3. CountInv'
  BY Zenon DEF CountInv, EntriesOf, TakeFreeChunk
<1>4. ListInv'
  BY PoolAssumption DEF TypeOK, LockInv, ListInv, NewPC, TakeFreeChunk
<1>5. BlocksExclusive'
  <2>1. Allocated' = Allocated
    BY Zenon DEF Allocated, TakeFreeChunk
  <2>2. OwnersStay(t)
    BY <2>1, CallTypes, Zenon DEF OwnersStay, OthersStay, TakeFreeChunk
  <2> QED
    BY <2>2, OwnersFrame, Zenon
<1>6. NewSucceeds'
  BY Zenon DEF NewSucceeds, TakeFreeChunk
<1> QED
  BY <1>1, <1>2, <1>3, <1>4, <1>5, <1>6, Zenon

(* Chunk::Use writes the header of the new chunk.                          *)
LEMMA UseChunkKeeps ==
    ASSUME PoolInv, NEW t \in Threads, UseChunk(t)
    PROVE  PoolInv'
<1> USE DEF PoolInv, At, Goto, Return, fileVars, poolVars, callVars, clientVars
<1>1. TypeOK'
  BY PoolAssumption, Zenon DEF TypeOK, LockInv, ListInv, NewPC, PC, Blocks, UseChunk
<1>2. LockInv'
  <2>1. NewStep(t)
    BY CallTypes, Zenon DEF NewStep, OthersStay, NewPC, UseChunk
  <2> QED
    BY <2>1, NewStepLock, Zenon
<1>3. CountInv'
  BY PoolAssumption DEF TypeOK, LockInv, CountInv, ListInv, EntriesOf, NewPC, UseChunk
<1>4. ListInv'
  BY PoolAssumption DEF TypeOK, LockInv, ListInv, NewPC, UseChunk
<1>5. BlocksExclusive'
  <2>1. chunk[t] \in Chunks /\ ~ is_used[chunk[t]]
    BY Zenon DEF ListInv, UseChunk
  <2>2. Allocated' = Allocated
    BY <2>1, Zenon DEF TypeOK, ListInv, Allocated, Blocks, UseChunk
  <2>3. OwnersStay(t)
    BY <2>2, CallTypes, Zenon DEF OwnersStay, OthersStay, UseChunk
  <2> QED
    BY <2>3, OwnersFrame, Zenon
<1>6. NewSucceeds'
  BY Zenon DEF NewSucceeds, UseChunk
<1> QED
  BY <1>1, <1>2, <1>3, <1>4, <1>5, <1>6, Zenon

(* Chunk::Use marks the chunk used and New puts it on its list.            *)
LEMMA MarkUsedKeeps ==
    ASSUME PoolInv, NEW t \in Threads, MarkUsed(t)
    PROVE  PoolInv'
<1> USE DEF PoolInv, At, Goto, Return, fileVars, poolVars, callVars, clientVars
<1>1. TypeOK'
  BY PoolAssumption DEF TypeOK, LockInv, ListInv, NewPC, PC, Blocks, MarkUsed
<1>2. LockInv'
  <2>1. NewStep(t)
    BY CallTypes, Zenon DEF NewStep, OthersStay, NewPC, MarkUsed
  <2> QED
    BY <2>1, NewStepLock, Zenon
<1>3. CountInv'
  <2>1. chunk_lock[chunk[t]] = NoThread
    BY UnusedUnlocked, Zenon DEF TypeOK, ListInv, MarkUsed
  <2>2. Cardinality(bitmap_[chunk[t]]) = 0
    BY FS_EmptySet, Zenon DEF ListInv, MarkUsed
  <2> QED
    BY <2>1, <2>2 DEF TypeOK, LockInv, CountInv, ListInv, EntriesOf, NewPC, MarkUsed
<1>4. ListInv'
  <2> DEFINE c == chunk[t]
  <2>1. c \in Chunks /\ slab[t] \in Sizes /\ slab_size_[c] = slab[t]
    BY Zenon DEF LockInv, ListInv, NewPC, MarkUsed
  <2>2. MaxEntryNumber[slab[t]] \in Nat \ {0}
    BY <2>1, PoolAssumption, Zenon
  <2>3. \A u \in Threads \ {t} : pc[u] \notin NewPC
    BY DEF LockInv, NewPC, MarkUsed
  <2>4. is_used' = [is_used EXCEPT ![c] = TRUE]
    BY Zenon DEF MarkUsed
  <2>5. \A d \in free_chunks_' : ~ is_used'[d]
    BY <2>4, <2>1, Zenon DEF TypeOK, ListInv, MarkUsed
  <2> QED
    BY <2>1, <2>2, <2>3, <2>5 DEF TypeOK, ListInv, NewPC, MarkUsed
<1>5. BlocksExclusive'
  <2>1. chunk[t] \in Chunks /\ ~ is_used[chunk[t]]
    BY Zenon DEF ListInv, MarkUsed
  <2>2. Allocated' = Allocated
    BY <2>1, Zenon DEF TypeOK, ListInv, Allocated, Blocks, MarkUsed
  <2>3. OwnersStay(t)
    BY <2>2, CallTypes, Zenon DEF OwnersStay, OthersStay, MarkUsed
  <2> QED
    BY <2>3, OwnersFrame, Zenon
<1>6. NewSucceeds'
  BY Zenon DEF NewSucceeds, MarkUsed
<1> QED
  BY <1>1, <1>2, <1>3, <1>4, <1>5, <1>6, Zenon

(* New starts its loop over the chunks of the size.                        *)
LEMMA StartScanKeeps ==
    ASSUME PoolInv, NEW t \in Threads, StartScan(t)
    PROVE  PoolInv'
<1> USE DEF PoolInv, At, Goto, Return, fileVars, poolVars, callVars, clientVars
<1>1. TypeOK'
  BY PoolAssumption DEF TypeOK, LockInv, ListInv, NewPC, PC, Blocks, StartScan
<1>2. LockInv'
  <2>1. NewStep(t)
    BY CallTypes, Zenon DEF NewStep, OthersStay, NewPC, StartScan
  <2> QED
    BY <2>1, NewStepLock, Zenon
<1>3. CountInv'
  BY Zenon DEF CountInv, EntriesOf, StartScan
<1>4. ListInv'
  BY PoolAssumption DEF TypeOK, LockInv, ListInv, NewPC, StartScan
<1>5. BlocksExclusive'
  <2>1. Allocated' = Allocated
    BY Zenon DEF Allocated, StartScan
  <2>2. OwnersStay(t)
    BY <2>1, CallTypes, Zenon DEF OwnersStay, OthersStay, StartScan
  <2> QED
    BY <2>2, OwnersFrame, Zenon
<1>6. NewSucceeds'
  BY Zenon DEF NewSucceeds, StartScan
<1> QED
  BY <1>1, <1>2, <1>3, <1>4, <1>5, <1>6, Zenon

(* New looks at one chunk without the chunk's lock.                        *)
LEMMA ScanChunkKeeps ==
    ASSUME PoolInv, NEW t \in Threads, ScanChunk(t)
    PROVE  PoolInv'
<1> USE DEF PoolInv, At, Goto, Return, fileVars, poolVars, callVars, clientVars
<1>1. TypeOK'
  <2>1. PICK c \in unscanned[t] :
            /\ unscanned' = [unscanned EXCEPT ![t] = @ \ {c}]
            /\ IF Full(c) THEN UNCHANGED <<pc, chunk>>
               ELSE Goto(t, "malloc") /\ chunk' = [chunk EXCEPT ![t] = c]
    BY Zenon DEF ScanChunk
  <2>2. c \in Chunks
    BY Zenon DEF TypeOK
  <2>3. CASE Full(c)
    BY <2>1, <2>3, Zenon DEF TypeOK, ScanChunk
  <2>4. CASE ~ Full(c)
    BY <2>1, <2>2, <2>4 DEF TypeOK, ScanChunk, PC
  <2> QED
    BY <2>3, <2>4, Zenon
<1>2. LockInv'
  <2>1. NewStep(t)
    BY CallTypes, Zenon DEF NewStep, OthersStay, NewPC, ScanChunk
  <2> QED
    BY <2>1, NewStepLock, Zenon
<1>3. CountInv'
  BY Zenon DEF CountInv, EntriesOf, ScanChunk
<1>4. ListInv'
  <2>1. PICK c \in unscanned[t] :
            /\ unscanned' = [unscanned EXCEPT ![t] = @ \ {c}]
            /\ IF Full(c) THEN UNCHANGED <<pc, chunk>>
               ELSE Goto(t, "malloc") /\ chunk' = [chunk EXCEPT ![t] = c]
    BY Zenon DEF ScanChunk
  <2>2. c \in Chunks /\ is_used[c]
    BY Zenon DEF TypeOK, ListInv, ScanChunk
  <2>3. CASE Full(c)
    BY <2>1, <2>3 DEF TypeOK, LockInv, ListInv, NewPC, ScanChunk
  <2>4. CASE ~ Full(c)
    <3>1. allocated_entries_[c] < MaxEntryNumber[slab_size_[c]]
      BY <2>2, <2>4, NotFullHasRoom, Zenon
    <3> QED
      BY <2>1, <2>2, <2>4, <3>1 DEF TypeOK, LockInv, ListInv, NewPC, ScanChunk
  <2> QED
    BY <2>3, <2>4, Zenon
<1>5. BlocksExclusive'
  <2>1. Allocated' = Allocated
    BY Zenon DEF Allocated, ScanChunk
  <2>2. OwnersStay(t)
    BY <2>1, CallTypes, Zenon DEF OwnersStay, OthersStay, ScanChunk
  <2> QED
    BY <2>2, OwnersFrame, Zenon
<1>6. NewSucceeds'
  BY Zenon DEF NewSucceeds, ScanChunk
<1> QED
  BY <1>1, <1>2, <1>3, <1>4, <1>5, <1>6, Zenon

(* New finds no chunk with room and aborts.                                *)
LEMMA OutOfMemoryKeeps ==
    ASSUME PoolInv, NEW t \in Threads, OutOfMemory(t)
    PROVE  PoolInv'
<1> USE DEF PoolInv, At, Goto, Return, fileVars, poolVars, callVars, clientVars
<1>1. TypeOK'
  BY PoolAssumption, Zenon DEF TypeOK, LockInv, ListInv, NewPC, PC, Blocks, OutOfMemory
<1>2. LockInv'
  BY PoolAssumption DEF TypeOK, LockInv, NewPC, OutOfMemory
<1>3. CountInv'
  BY Zenon DEF CountInv, EntriesOf, OutOfMemory
<1>4. ListInv'
  BY Zenon DEF ListInv, OutOfMemory
<1>5. BlocksExclusive'
  BY PoolAssumption DEF TypeOK, LockInv, ListInv, BlocksExclusive, Allocated, Owning,
     InFlight, Blocks, NewPC, OutOfMemory
<1>6. NewSucceeds'
  BY Zenon DEF NewSucceeds, OutOfMemory
<1> QED
  BY <1>1, <1>2, <1>3, <1>4, <1>5, <1>6, Zenon

(* Chunk::Malloc sets a bit that was clear.                                *)
LEMMA MallocKeeps ==
    ASSUME PoolInv, NEW t \in Threads, Malloc(t)
    PROVE  PoolInv'
<1> USE DEF PoolInv, At, Goto, Return, fileVars, poolVars, callVars, clientVars
<1> DEFINE c == chunk[t]
<1>1. c \in Chunks /\ is_used[c] /\ slab_size_[c] \in Sizes
  BY Zenon DEF ListInv, CountInv, Malloc
<1>2. bitmap_[c] \subseteq EntriesOf(c) /\ Cardinality(bitmap_[c]) = allocated_entries_[c]
  BY <1>1, Zenon DEF CountInv, Malloc
<1>3. Zeros(c) # {}
  <2>1. allocated_entries_[c] < MaxEntryNumber[slab_size_[c]]
    BY Zenon DEF ListInv, Malloc
  <2> HIDE DEF c
  <2> QED
    BY <1>1, <1>2, <2>1, RoomMeansZero, Zenon
<1>4. FirstZero(c) \in EntriesOf(c) /\ FirstZero(c) \notin bitmap_[c]
  BY <1>1, <1>3, FirstZeroIsZero, Zenon DEF Zeros
<1>5. FirstZero(c) \in AllEntries
  BY <1>1, <1>4, Zenon DEF EntriesOf, AllEntries
<1> DEFINE e == FirstZero(c)
<1>6. /\ bitmap_' = [bitmap_ EXCEPT ![c] = @ \cup {e}]
      /\ allocated_entries_' = [allocated_entries_ EXCEPT ![c] = @ + 1]
      /\ entry' = [entry EXCEPT ![t] = e]
      /\ pc' = [pc EXCEPT ![t] = "count"]
      /\ UNCHANGED check_failed
  BY <1>3, Zenon DEF Malloc
<1>7. UNCHANGED <<is_used, slab_size_, chunk_lock, lock_, free_chunks_,
                  size_to_chunks_, size_to_last_used_chunk_, total_malloc_,
                  fatal, slab, chunk, unscanned, held, lost, restarts>>
      /\ pc[t] = "malloc" /\ chunk_lock[c] = NoThread
  BY Zenon DEF Malloc
<1> HIDE DEF c, e
<1>t. TypeOK'
  BY <1>1, <1>5, <1>6, <1>7 DEF TypeOK, PC, e
<1>l. LockInv'
  <2>1. NewStep(t)
    BY <1>6, <1>7, CallTypes, Zenon DEF NewStep, OthersStay, NewPC
  <2> QED
    BY <2>1, NewStepLock, Zenon
<1>c. CountInv'
  <2>1. IsFiniteSet(bitmap_[c]) /\ Cardinality(bitmap_[c]) \in Nat
    BY <1>1, <1>2, BitmapFinite, Zenon
  <2>2. Cardinality(bitmap_[c] \cup {e}) = allocated_entries_[c] + 1
    BY <2>1, <1>2, <1>4, FS_AddElement, Zenon DEF e
  <2> QED
    BY <2>2, <1>1, <1>2, <1>4, <1>6, <1>7, Zenon DEF TypeOK, CountInv, EntriesOf, e
<1>s. ListInv'
  BY <1>1, <1>6, <1>7 DEF TypeOK, LockInv, ListInv, NewPC
<1>b. BlocksExclusive'
  <2>1. <<c, e>> \in Blocks /\ <<c, e>> \notin Allocated
    BY <1>1, <1>4, <1>5, Zenon DEF Allocated, Blocks, e
  <2>2. Allocated' = Allocated \cup {<<c, e>>}
    BY <2>1, <1>1, <1>5, <1>6, <1>7 DEF TypeOK, Allocated, Blocks, e
  <2>3. Owning' = Owning \cup {t} /\ InFlight(t)' = <<c, e>> /\ t \notin Owning
    BY <1>6, <1>7, ZenonT(40) DEF TypeOK, Owning, InFlight, c
  <2>4. \A u \in Threads \ {t} : InFlight(u)' = InFlight(u)
    BY <1>6, <1>7, Zenon DEF TypeOK, InFlight
  <2> QED
    BY <2>1, <2>2, <2>3, <2>4, <1>7 DEF BlocksExclusive, Owning
<1>n. NewSucceeds'
  BY <1>6, Zenon DEF NewSucceeds
<1> QED
  BY <1>t, <1>l, <1>c, <1>s, <1>b, <1>n, Zenon

(* New counts the block and returns it.                                    *)
LEMMA NewReturnKeeps ==
    ASSUME PoolInv, NEW t \in Threads, NewReturn(t)
    PROVE  PoolInv'
<1> USE DEF PoolInv, At, Goto, Return, fileVars, poolVars, callVars, clientVars
<1>1. TypeOK'
  <2>1. InFlight(t) \in Blocks
    BY Zenon DEF BlocksExclusive, Owning, Allocated, NewReturn
  <2> QED
    BY <2>1, ZeroEntry, PoolAssumption DEF TypeOK, PC, InFlight, NewReturn
<1>2. LockInv'
  BY PoolAssumption DEF TypeOK, LockInv, NewPC, NewReturn
<1>3. CountInv'
  BY Zenon DEF CountInv, EntriesOf, NewReturn
<1>4. ListInv'
  BY PoolAssumption DEF TypeOK, LockInv, ListInv, NewPC, NewReturn
<1>5. BlocksExclusive'
  <2>1. pc[t] = "count" /\ pc'[t] = "idle" /\ OthersStay(t)
    BY CallTypes, Zenon DEF OthersStay, NewReturn
  <2>2. Allocated' = Allocated /\ held' = held \cup {InFlight(t)} /\ lost' = lost
    BY Zenon DEF Allocated, InFlight, NewReturn
  <2>3. Owning' = Owning \ {t} /\ t \in Owning
    BY <2>1, Zenon DEF Owning, OthersStay
  <2>4. \A u \in Owning \ {t} : InFlight(u)' = InFlight(u)
    BY <2>1, Zenon DEF Owning, InFlight, OthersStay
  <2> QED
    BY <2>2, <2>3, <2>4 DEF BlocksExclusive
<1>6. NewSucceeds'
  BY Zenon DEF NewSucceeds, NewReturn
<1> QED
  BY <1>1, <1>2, <1>3, <1>4, <1>5, <1>6, Zenon

(* Free takes the chunk's lock and counts down.                            *)
LEMMA FreeStartKeeps ==
    ASSUME PoolInv, NEW t \in Threads, NEW b \in held, FreeStart(t, b)
    PROVE  PoolInv'
<1> USE DEF PoolInv, At, Goto, Return, fileVars, poolVars, callVars, clientVars
<1>1. TypeOK'
  <2>1. allocated_entries_[b[1]] - 1 \in Nat
    BY FreeCounts, Zenon DEF FreeStart
  <2>2. b \in Chunks \X AllEntries
    BY Zenon DEF TypeOK, Blocks
  <2> QED
    BY <2>1, <2>2, Zenon DEF TypeOK, PC, FreeStart, Blocks
<1>2. LockInv'
  BY PoolAssumption DEF TypeOK, LockInv, NewPC, FreeStart
<1>3. CountInv'
  <2>1. /\ b[1] \in Chunks
        /\ Cardinality(bitmap_[b[1]]) = (allocated_entries_[b[1]] - 1) + 1
    <3>1. b[1] \in Chunks /\ is_used[b[1]] /\ chunk_lock[b[1]] = NoThread
      BY Zenon DEF FreeStart, BlocksExclusive, Allocated, Blocks
    <3>2. /\ Cardinality(bitmap_[b[1]]) = allocated_entries_[b[1]]
          /\ allocated_entries_[b[1]] \in Nat
      BY <3>1, Zenon DEF CountInv, TypeOK
    <3> QED
      BY <3>1, <3>2
  <2> QED
    BY <2>1, PoolAssumption DEF TypeOK, CountInv, EntriesOf, FreeStart
<1>4. ListInv'
  <2>1. allocated_entries_[b[1]] - 1 \in Nat
    BY FreeCounts, Zenon DEF FreeStart
  <2> QED
    BY <2>1, PoolAssumption DEF TypeOK, CountInv, ListInv, FreeStart
<1>5. BlocksExclusive'
  <2>1. b \in Blocks /\ b = <<b[1], b[2]>>
    BY DEF TypeOK, Blocks
  <2>2. /\ chunk'[t] = b[1] /\ entry'[t] = b[2] /\ pc'[t] = "clear" /\ pc[t] = "idle"
        /\ OthersStay(t)
    BY CallTypes, Zenon DEF OthersStay, FreeStart
  <2>3. Allocated' = Allocated /\ held' = held \ {b} /\ lost' = lost
    BY Zenon DEF Allocated, FreeStart
  <2>4. InFlight(t)' = b
    BY <2>1, <2>2, Zenon DEF InFlight
  <2>5. Owning' = Owning \cup {t} /\ t \notin Owning
    BY <2>2, Zenon DEF Owning, OthersStay
  <2>6. \A u \in Owning : InFlight(u)' = InFlight(u)
    BY <2>2, <2>5, Zenon DEF Owning, InFlight, OthersStay
  <2> QED
    BY <2>3, <2>4, <2>5, <2>6 DEF BlocksExclusive
<1>6. NewSucceeds'
  BY Zenon DEF NewSucceeds, FreeStart
<1> QED
  BY <1>1, <1>2, <1>3, <1>4, <1>5, <1>6, Zenon

(* Free clears the bit and lets go of the lock.                            *)
LEMMA FreeClearKeeps ==
    ASSUME PoolInv, NEW t \in Threads, FreeClear(t)
    PROVE  PoolInv'
<1> USE DEF PoolInv, At, Goto, Return, fileVars, poolVars, callVars, clientVars
<1>1. TypeOK'
  <2>1. /\ bitmap_' \in [Chunks -> SUBSET AllEntries]
        /\ chunk_lock' \in [Chunks -> Threads \cup {NoThread}]
    BY Zenon DEF TypeOK, FreeClear
  <2>2. pc' \in [Threads -> PC]
    BY CallTypes, Zenon DEF PC, FreeClear
  <2> QED
    BY <2>1, <2>2, Zenon DEF TypeOK, FreeClear
<1>2. LockInv'
  BY PoolAssumption DEF TypeOK, LockInv, NewPC, FreeClear
<1>3. CountInv'
  <2> DEFINE c == chunk[t]
  <2>1. /\ c \in Chunks /\ is_used[c] /\ entry[t] \in bitmap_[c]
        /\ chunk_lock[c] = t
    BY Zenon DEF LockInv, BlocksExclusive, Owning, InFlight, Allocated, Blocks, FreeClear
  <2>2. IsFiniteSet(bitmap_[c]) /\ Cardinality(bitmap_[c]) \in Nat
    BY <2>1, BitmapFinite, Zenon DEF CountInv
  <2>3. Cardinality(bitmap_[c]) = allocated_entries_[c] + 1 /\ allocated_entries_[c] \in Nat
    BY <2>1, PoolAssumption, Zenon DEF CountInv, TypeOK
  <2>4. Cardinality(bitmap_[c] \ {entry[t]}) = Cardinality(bitmap_[c]) - 1
    <3> DEFINE S == bitmap_[c]
               x == entry[t]
    <3>1. IsFiniteSet(S) /\ x \in S
      BY <2>1, <2>2, Zenon
    <3> HIDE DEF S, x
    <3>2. Cardinality(S \ {x}) = Cardinality(S) - 1
      BY <3>1, FS_RemoveElement, Zenon
    <3> QED
      BY <3>2, Zenon DEF S, x
  <2>5. Cardinality(bitmap_[c] \ {entry[t]}) = allocated_entries_[c]
    BY <2>3, <2>4
  <2> QED
    BY <2>1, <2>5, PoolAssumption, Zenon DEF TypeOK, CountInv, EntriesOf, FreeClear
<1>4. ListInv'
  BY PoolAssumption DEF TypeOK, LockInv, ListInv, NewPC, FreeClear
<1>5. BlocksExclusive'
  <2>1. t \in Owning /\ InFlight(t) \in Blocks
    BY Zenon DEF BlocksExclusive, Owning, Allocated, FreeClear
  <2>2. Allocated' = Allocated \ {InFlight(t)}
    BY <2>1 DEF TypeOK, Allocated, InFlight, Blocks, FreeClear
  <2>3. Owning' = Owning \ {t}
    BY Zenon DEF TypeOK, Owning, FreeClear
  <2>4. \A u \in Threads : InFlight(u)' = InFlight(u)
    BY Zenon DEF InFlight, FreeClear
  <2>5. held' = held /\ lost' = lost /\ Owning \subseteq Threads
    BY Zenon DEF Owning, FreeClear
  <2> QED
    BY <2>1, <2>2, <2>3, <2>4, <2>5 DEF BlocksExclusive
<1>6. NewSucceeds'
  BY Zenon DEF NewSucceeds, FreeClear
<1> QED
  BY <1>1, <1>2, <1>3, <1>4, <1>5, <1>6, Zenon

(* Free counts total_malloc_ down and returns.                             *)
LEMMA FreeReturnKeeps ==
    ASSUME PoolInv, NEW t \in Threads, FreeReturn(t)
    PROVE  PoolInv'
<1> USE DEF PoolInv, At, Goto, Return, fileVars, poolVars, callVars, clientVars
<1>1. TypeOK'
  BY ZeroEntry, PoolAssumption DEF TypeOK, PC, FreeReturn
<1>2. LockInv'
  BY PoolAssumption DEF TypeOK, LockInv, NewPC, FreeReturn
<1>3. CountInv'
  BY Zenon DEF CountInv, EntriesOf, FreeReturn
<1>4. ListInv'
  BY PoolAssumption DEF TypeOK, LockInv, ListInv, NewPC, FreeReturn
<1>5. BlocksExclusive'
  <2>1. Allocated' = Allocated
    BY Zenon DEF Allocated, FreeReturn
  <2>2. OwnersStay(t)
    BY <2>1, CallTypes, Zenon DEF OwnersStay, OthersStay, FreeReturn
  <2> QED
    BY <2>2, OwnersFrame, Zenon
<1>6. NewSucceeds'
  BY Zenon DEF NewSucceeds, FreeReturn
<1> QED
  BY <1>1, <1>2, <1>3, <1>4, <1>5, <1>6, Zenon

(* The constructor rebuilds the lists and the counters.                    *)
LEMMA RestartKeeps ==
    ASSUME PoolInv, Restart
    PROVE  PoolInv'
<1> USE DEF PoolInv, fileVars
<1>1. \A c \in Chunks : Recovery(c) \in Nat
  BY BitmapFinite, Zenon DEF CountInv, Recovery
<1>2. Cardinality(Allocated) \in Int
  BY AllocatedFinite
<1>3. TypeOK'
  <2>1. /\ is_used' \in [Chunks -> BOOLEAN]
        /\ slab_size_' \in [Chunks -> Sizes \cup {NoSize}]
        /\ bitmap_' \in [Chunks -> SUBSET AllEntries]
        /\ allocated_entries_' \in [Chunks -> Nat]
        /\ chunk_lock' \in [Chunks -> Threads \cup {NoThread}]
    BY <1>1, Zenon DEF TypeOK, Restart
  <2>2. /\ free_chunks_' \in SUBSET Chunks
        /\ size_to_chunks_' \in [Sizes -> SUBSET Chunks]
        /\ size_to_last_used_chunk_' \in [Sizes -> Chunks \cup {NoChunk}]
        /\ total_malloc_' \in Int
    BY <1>2, Zenon DEF Restart, Unused, UsedFor, TotalAllocated
  <2>3. /\ pc' \in [Threads -> PC]
        /\ slab' \in [Threads -> Sizes \cup {NoSize}]
        /\ chunk' \in [Threads -> Chunks \cup {NoChunk}]
        /\ unscanned' \in [Threads -> SUBSET Chunks]
        /\ entry' \in [Threads -> AllEntries]
    BY ZeroEntry, Zenon DEF Restart, PC
  <2>4. held' \in SUBSET Blocks /\ lost' \in SUBSET Blocks
    BY Zenon DEF TypeOK, Restart, Allocated
  <2>5. restarts' \in 0 .. MaxRestarts
    BY PoolAssumption DEF TypeOK, Restart
  <2> QED
    BY <2>1, <2>2, <2>3, <2>4, <2>5, Zenon DEF TypeOK, Restart
<1>4. LockInv'
  BY PoolAssumption DEF TypeOK, LockInv, Restart, NewPC
<1>5. CountInv'
  BY PoolAssumption, Zenon DEF TypeOK, CountInv, Restart, EntriesOf, Recovery
<1>6. ListInv'
  BY Zenon DEF ListInv, Restart, Unused, UsedFor
<1>7. BlocksExclusive'
  BY Zenon DEF BlocksExclusive, Restart, Allocated, Owning
<1>8. NewSucceeds'
  BY Zenon DEF NewSucceeds, Restart
<1> QED
  BY <1>3, <1>4, <1>5, <1>6, <1>7, <1>8, Zenon

(* Every step keeps the invariant.                                         *)
LEMMA NextKeeps == PoolInv /\ [Next]_vars => PoolInv'
<1> SUFFICES ASSUME PoolInv, [Next]_vars PROVE PoolInv'
  BY Zenon
<1>1. CASE UNCHANGED vars
  <2>1. UNCHANGED <<fileVars, poolVars, callVars, clientVars>>
    BY <1>1, Zenon DEF vars
  <2>2. TypeOK'
    BY <2>1, Zenon DEF PoolInv, TypeOK, fileVars, poolVars, callVars, clientVars
  <2>3. LockInv' /\ CountInv' /\ NewSucceeds'
    BY <2>1, Zenon DEF PoolInv, LockInv, CountInv, NewSucceeds, EntriesOf, fileVars,
       poolVars, callVars
  <2>4. ListInv'
    BY <2>1, Zenon DEF PoolInv, ListInv, fileVars, poolVars, callVars
  <2>5. BlocksExclusive'
    BY <2>1, Zenon DEF PoolInv, BlocksExclusive, Allocated, Owning, InFlight, fileVars,
       callVars, clientVars
  <2> QED
    BY <2>2, <2>3, <2>4, <2>5, Zenon DEF PoolInv
<1>2. ASSUME NEW t \in Threads, NEW s \in Sizes, NewStart(t, s) PROVE PoolInv'
  BY <1>2, NewStartKeeps, Zenon
<1>3. ASSUME NEW t \in Threads, NEW b \in held, FreeStart(t, b) PROVE PoolInv'
  BY <1>3, FreeStartKeeps, Zenon
<1>4. ASSUME NEW t \in Threads, Continue(t) PROVE PoolInv'
  BY <1>4, TryLastUsedKeeps, TakeFreeChunkKeeps, UseChunkKeeps, MarkUsedKeeps,
     StartScanKeeps, ScanChunkKeeps, OutOfMemoryKeeps, MallocKeeps,
     NewReturnKeeps, FreeClearKeeps, FreeReturnKeeps, Zenon DEF Continue
<1>5. CASE Restart
  BY <1>5, RestartKeeps, Zenon
<1> QED
  BY <1>1, <1>2, <1>3, <1>4, <1>5, Zenon DEF Next, Aborted

(* Whatever the threads do and however often the process restarts, New     *)
(* never fails its CHECK(return_ptr) (persist_malloc.h:389): the bit that  *)
(* Full promised without the chunk's lock is still clear.                  *)
THEOREM PoolNewSucceeds == Spec => []NewSucceeds
<1>1. PoolInv => NewSucceeds
  BY Zenon DEF PoolInv
<1> QED
  BY <1>1, InitPool, NextKeeps, PTL DEF Spec

(* No block has two owners, among clients, calls in progress and what a    *)
(* restart lost (persist_malloc.h:191-210).                                *)
THEOREM PoolSafe == Spec => []BlocksExclusive
<1>1. PoolInv => BlocksExclusive
  BY Zenon DEF PoolInv
<1> QED
  BY <1>1, InitPool, NextKeeps, PTL DEF Spec

(* Every chunk at rest counts its bits, which GetMallocedIds checks        *)
(* (persist_malloc.h:222).                                                 *)
THEOREM PoolCountersExact == Spec => []CountersExact
<1>1. PoolInv => CountersExact
  BY Zenon DEF PoolInv, CountInv, CountersExact
<1> QED
  BY <1>1, InitPool, NextKeeps, PTL DEF Spec

(* Every variable of the pool keeps its type.                              *)
THEOREM PoolTypes == Spec => []TypeOK
<1>1. PoolInv => TypeOK
  BY Zenon DEF PoolInv
<1> QED
  BY <1>1, InitPool, NextKeeps, PTL DEF Spec

---------------------------------------------------------------------------
(* Nothing gets lost: bits without an owner, and chunks on no list.        *)

Moving(c) == \E t \in Threads : chunk[t] = c /\ pc[t] \in {"use", "mark"}

(* The list of a size holds the used chunks of that size, and a chunk that *)
(* is not used is on the free list or in the hands of a New.               *)
Filed ==
    /\ \A c \in Chunks, s \in Sizes :
          c \in size_to_chunks_[s] <=> is_used[c] /\ slab_size_[c] = s
    /\ \A c \in Chunks : ~ is_used[c] => c \in free_chunks_ \/ Moving(c)

AccountInv == PoolInv /\ BitsAccounted /\ Filed

(* A step of a thread with no chunk in its hands, before or after.         *)
ListsStay(t) ==
    /\ pc[t] \notin {"use", "mark"} /\ pc'[t] \notin {"use", "mark"}
    /\ OthersStay(t)
    /\ UNCHANGED <<is_used, slab_size_, size_to_chunks_, free_chunks_>>

(* Such a step leaves the chunks where they are.                           *)
LEMMA ListsFrame ==
    ASSUME Filed, NEW t \in Threads, ListsStay(t)
    PROVE  Filed'
<1>1. ASSUME NEW c \in Chunks, Moving(c) PROVE Moving(c)'
  <2>1. PICK u \in Threads : chunk[u] = c /\ pc[u] \in {"use", "mark"}
    BY <1>1, Zenon DEF Moving
  <2>2. u # t
    BY <2>1, Zenon DEF ListsStay
  <2>3. chunk'[u] = c /\ pc'[u] \in {"use", "mark"}
    BY <2>1, <2>2, Zenon DEF ListsStay, OthersStay
  <2> QED
    BY <2>3, Zenon DEF Moving
<1>2. UNCHANGED <<is_used, slab_size_, size_to_chunks_, free_chunks_>>
  BY Zenon DEF ListsStay
<1> QED
  BY <1>1, <1>2, Zenon DEF Filed

(* A step that leaves the owners alone leaves no bit without one.          *)
LEMMA BitsFrame ==
    ASSUME BitsAccounted, NEW t \in Threads, OwnersStay(t)
    PROVE  BitsAccounted'
<1>1. Owning' = Owning /\ t \notin Owning
  BY Zenon DEF Owning, OwnersStay, OthersStay
<1>2. \A u \in Owning : InFlight(u)' = InFlight(u)
  BY <1>1, Zenon DEF Owning, InFlight, OwnersStay, OthersStay
<1>3. held' = held /\ lost' = lost /\ Allocated' = Allocated
  BY Zenon DEF OwnersStay
<1> QED
  BY <1>1, <1>2, <1>3, Zenon DEF BitsAccounted

(* The steps of New that choose a chunk which is in use already, and those *)
(* that only begin or end a call.                                          *)
LEMMA ChoosingAccounts ==
    ASSUME AccountInv, NEW t \in Threads,
           \/ \E s \in Sizes : NewStart(t, s)
           \/ TryLastUsed(t) \/ StartScan(t) \/ ScanChunk(t) \/ OutOfMemory(t)
           \/ FreeReturn(t)
    PROVE  BitsAccounted' /\ Filed'
<1> USE DEF At, Goto, Return, fileVars, poolVars, callVars, clientVars
<1>1. /\ chunk \in [Threads -> Chunks \cup {NoChunk}] /\ entry \in [Threads -> AllEntries]
      /\ pc \in [Threads -> PC]
  BY CallTypes, Zenon DEF AccountInv, PoolInv
<1>2. UNCHANGED <<is_used, slab_size_, bitmap_, size_to_chunks_, free_chunks_, held, lost>>
  BY Zenon DEF NewStart, TryLastUsed, StartScan, ScanChunk, OutOfMemory, FreeReturn
<1>3. OthersStay(t)
  BY <1>1, Zenon DEF OthersStay, NewStart, TryLastUsed, StartScan, ScanChunk,
     OutOfMemory, FreeReturn
<1>4. pc[t] \in {"idle", "choose", "scan", "uncount"}
  BY Zenon DEF NewStart, TryLastUsed, StartScan, ScanChunk, OutOfMemory, FreeReturn
<1>5. pc'[t] \in {"choose", "malloc", "scan", "idle"}
  BY <1>1, Zenon DEF NewStart, TryLastUsed, StartScan, ScanChunk, OutOfMemory, FreeReturn
<1>6. Allocated' = Allocated
  BY <1>2, Zenon DEF Allocated
<1>7. OwnersStay(t) /\ ListsStay(t)
  BY <1>2, <1>3, <1>4, <1>5, <1>6, Zenon DEF OwnersStay, ListsStay
<1> QED
  BY <1>7, ListsFrame, BitsFrame, Zenon DEF AccountInv

(* The steps that take a chunk off the free list and file it.              *)
LEMMA TakingAccounts ==
    ASSUME AccountInv, NEW t \in Threads,
           TakeFreeChunk(t) \/ UseChunk(t) \/ MarkUsed(t)
    PROVE  BitsAccounted' /\ Filed'
<1> USE DEF At, Goto, fileVars, poolVars, callVars, clientVars
<1>1. TypeOK /\ LockInv /\ ListInv /\ Filed /\ BitsAccounted
  BY Zenon DEF AccountInv, PoolInv
<1>2. pc[t] \in {"use", "mark"} => chunk[t] \in Chunks /\ ~ is_used[chunk[t]]
  BY <1>1, Zenon DEF ListInv
<1>3. Allocated' = Allocated
  <2>1. CASE TakeFreeChunk(t)
    BY <2>1, Zenon DEF Allocated, TakeFreeChunk
  <2>2. CASE UseChunk(t)
    BY <1>1, <1>2, <2>2, Zenon DEF TypeOK, Allocated, Blocks, UseChunk
  <2>3. CASE MarkUsed(t)
    <3>1. bitmap_[chunk[t]] = {} /\ chunk[t] \in Chunks
      BY <1>1, <1>2, <2>3, Zenon DEF ListInv, MarkUsed
    <3> QED
      BY <1>1, <2>3, <3>1, Zenon DEF TypeOK, Allocated, Blocks, MarkUsed
  <2> QED
    BY <2>1, <2>2, <2>3, Zenon
<1>4. OwnersStay(t)
  BY <1>1, <1>3, CallTypes, Zenon DEF OwnersStay, OthersStay, TakeFreeChunk, UseChunk, MarkUsed
<1>5. BitsAccounted'
  BY <1>1, <1>4, BitsFrame, Zenon
<1>6. \A u \in Threads \ {t} : pc[u] \notin NewPC
  BY <1>1 DEF LockInv, NewPC, TakeFreeChunk, UseChunk, MarkUsed
<1>7. CASE TakeFreeChunk(t)
  <2>1. PICK d \in free_chunks_ :
            chunk' = [chunk EXCEPT ![t] = d] /\ free_chunks_' = free_chunks_ \ {d}
    BY <1>7, Zenon DEF TakeFreeChunk
  <2>2. chunk'[t] = d /\ pc'[t] = "use"
    BY <1>1, <1>7, <2>1, CallTypes, Zenon DEF TakeFreeChunk
  <2>3. \A c \in Chunks : ~ Moving(c)
    BY <1>6, <1>7, Zenon DEF Moving, NewPC, TakeFreeChunk
  <2>4. Moving(d)'
    BY <2>2, Zenon DEF Moving
  <2> QED
    BY <1>1, <1>5, <1>7, <2>1, <2>3, <2>4, Zenon DEF Filed, TakeFreeChunk
<1>8. CASE UseChunk(t)
  <2>1. slab_size_' = [slab_size_ EXCEPT ![chunk[t]] = slab[t]] /\ ~ is_used[chunk[t]]
    BY <1>2, <1>8, Zenon DEF UseChunk
  <2>2. UNCHANGED <<is_used, size_to_chunks_, free_chunks_, chunk>>
    BY <1>8, Zenon DEF UseChunk
  <2>3. \A c \in Chunks : Moving(c) => c = chunk[t]
    BY <1>6, Zenon DEF Moving, NewPC
  <2>4. Moving(chunk[t])'
    BY <1>1, <1>8, CallTypes, Zenon DEF Moving, UseChunk
  <2>5. \A c \in Chunks : c # chunk[t] => slab_size_'[c] = slab_size_[c]
    BY <1>1, <2>1, Zenon DEF TypeOK
  <2>6. ASSUME NEW c \in Chunks, NEW s \in Sizes
        PROVE  c \in size_to_chunks_'[s] <=> is_used'[c] /\ slab_size_'[c] = s
    <3>1. c \in size_to_chunks_[s] <=> is_used[c] /\ slab_size_[c] = s
      BY <1>1, Zenon DEF Filed
    <3>2. c = chunk[t] => ~ is_used[c]
      BY <2>1, Zenon
    <3> QED
      BY <2>2, <2>5, <3>1, <3>2, Zenon
  <2>7. ASSUME NEW c \in Chunks, ~ is_used'[c]
        PROVE  c \in free_chunks_' \/ Moving(c)'
    <3>1. c \in free_chunks_ \/ Moving(c)
      BY <1>1, <2>2, <2>7, Zenon DEF Filed
    <3>2. CASE c = chunk[t]
      BY <2>2, <2>4, <3>2 DEF Moving
    <3> QED
      BY <2>2, <2>3, <3>1, <3>2, Zenon
  <2> QED
    BY <1>5, <2>6, <2>7, Zenon DEF Filed
<1>9. CASE MarkUsed(t)
  <2> DEFINE d == chunk[t]
             z == slab[t]
  <2>1. d \in Chunks /\ z \in Sizes /\ slab_size_[d] = z /\ ~ is_used[d]
    BY <1>1, <1>2, <1>9, Zenon DEF LockInv, ListInv, NewPC, MarkUsed
  <2>2. /\ is_used' = [is_used EXCEPT ![d] = TRUE]
        /\ size_to_chunks_' = [size_to_chunks_ EXCEPT ![z] = @ \cup {d}]
        /\ UNCHANGED <<slab_size_, free_chunks_>>
    BY <1>9, Zenon DEF MarkUsed
  <2>3. \A c \in Chunks : Moving(c) => c = d
    BY <1>6, Zenon DEF Moving, NewPC
  <2>4. is_used \in [Chunks -> BOOLEAN] /\ size_to_chunks_ \in [Sizes -> SUBSET Chunks]
    BY <1>1, Zenon DEF TypeOK
  <2> HIDE DEF d, z
  <2>5. ASSUME NEW c \in Chunks, NEW s \in Sizes
        PROVE  c \in size_to_chunks_'[s] <=> is_used'[c] /\ slab_size_'[c] = s
    <3>1. c \in size_to_chunks_[s] <=> is_used[c] /\ slab_size_[c] = s
      BY <1>1, Zenon DEF Filed
    <3> QED
      BY <2>1, <2>2, <2>4, <3>1
  <2>6. \A c \in Chunks : ~ is_used'[c] => c \in free_chunks_'
    BY <1>1, <2>1, <2>2, <2>3, <2>4, Zenon DEF Filed
  <2> QED
    BY <1>5, <2>5, <2>6, Zenon DEF Filed
<1> QED
  BY <1>7, <1>8, <1>9, Zenon

(* The steps in which a bit is set or cleared or a block changes hands.    *)
LEMMA OwningAccounts ==
    ASSUME AccountInv, NEW t \in Threads,
           \/ Malloc(t) \/ NewReturn(t) \/ FreeClear(t)
           \/ \E b \in held : FreeStart(t, b)
    PROVE  BitsAccounted' /\ Filed'
<1> USE DEF At, Goto, Return, fileVars, poolVars, callVars, clientVars
<1>1. TypeOK /\ ListInv /\ CountInv /\ Filed /\ BitsAccounted
  BY Zenon DEF AccountInv, PoolInv
<1>2. OthersStay(t)
  <2>1. /\ chunk \in [Threads -> Chunks \cup {NoChunk}] /\ entry \in [Threads -> AllEntries]
        /\ pc \in [Threads -> PC]
    BY <1>1, CallTypes, Zenon
  <2>2. CASE Malloc(t)
    BY <2>1, <2>2, Zenon DEF OthersStay, Malloc
  <2>3. CASE NewReturn(t) \/ FreeClear(t)
    BY <2>1, <2>3, Zenon DEF OthersStay, NewReturn, FreeClear
  <2>4. ASSUME NEW b \in held, FreeStart(t, b) PROVE OthersStay(t)
    BY <2>1, <2>4, Zenon DEF OthersStay, FreeStart
  <2> QED
    BY <2>2, <2>3, <2>4, Zenon
<1>3. ListsStay(t)
  <2>1. pc[t] \in {"malloc", "count", "clear", "idle"}
    BY Zenon DEF Malloc, NewReturn, FreeClear, FreeStart
  <2>2. pc'[t] \in {"malloc", "count", "idle", "uncount", "clear"}
    BY <1>1, <2>1, CallTypes, Zenon DEF Malloc, NewReturn, FreeClear, FreeStart
  <2>3. UNCHANGED <<is_used, slab_size_, size_to_chunks_, free_chunks_>>
    BY Zenon DEF Malloc, NewReturn, FreeClear, FreeStart
  <2> QED
    BY <1>2, <2>1, <2>2, <2>3, Zenon DEF ListsStay
<1>4. Filed'
  BY <1>1, <1>3, ListsFrame, Zenon
<1>5. \A u \in Threads \ {t} : InFlight(u)' = InFlight(u) /\ (u \in Owning' <=> u \in Owning)
  BY <1>2, Zenon DEF InFlight, Owning, OthersStay
<1>6. \A b \in Allocated : \/ b \in held \cup lost
                           \/ \E u \in Owning : b = InFlight(u)
  BY <1>1, Zenon DEF BitsAccounted
<1>7. SUFFICES ASSUME NEW b \in Allocated'
               PROVE  b \in held' \cup lost' \/ \E u \in Owning' : b = InFlight(u)'
  BY <1>4, Zenon DEF BitsAccounted
<1>8. lost' = lost /\ Owning \subseteq Threads
  BY Zenon DEF Malloc, NewReturn, FreeClear, FreeStart, Owning
<1>9. CASE Malloc(t)
  <2>1. held' = held /\ chunk' = chunk /\ pc[t] = "malloc" /\ is_used' = is_used
    BY <1>9, Zenon DEF Malloc
  <2>2. CASE bitmap_' = bitmap_ /\ UNCHANGED <<pc, entry>>
    <3>1. b \in Allocated /\ t \notin Owning
      BY <2>1, <2>2, <1>7, Zenon DEF Allocated, Owning
    <3> QED
      BY <3>1, <2>1, <1>5, <1>6, <1>8, Zenon
  <2>3. CASE /\ bitmap_' = [bitmap_ EXCEPT ![chunk[t]] = @ \cup {FirstZero(chunk[t])}]
             /\ entry' = [entry EXCEPT ![t] = FirstZero(chunk[t])]
             /\ pc' = [pc EXCEPT ![t] = "count"]
    <3>1. t \in Owning' /\ InFlight(t)' = <<chunk[t], FirstZero(chunk[t])>>
      BY <1>1, <2>1, <2>3, CallTypes, Zenon DEF Owning, InFlight
    <3>2. b \in Allocated \/ b = <<chunk[t], FirstZero(chunk[t])>>
      BY <1>1, <2>1, <2>3, <1>7 DEF TypeOK, Allocated, Blocks
    <3>3. t \notin Owning
      BY <2>1, Zenon DEF Owning
    <3> QED
      BY <3>1, <3>2, <3>3, <2>1, <1>5, <1>6, <1>8, Zenon
  <2> QED
    BY <1>9, <2>2, <2>3, Zenon DEF Malloc
<1>10. CASE NewReturn(t)
  <2>1. held' = held \cup {InFlight(t)} /\ Allocated' = Allocated
    BY <1>10, Zenon DEF NewReturn, InFlight, Allocated
  <2>2. CASE b \in held \cup lost
    BY <2>1, <2>2, <1>8, Zenon
  <2>3. ASSUME NEW u \in Owning, b = InFlight(u)
        PROVE  b \in held' \/ \E w \in Owning' : b = InFlight(w)'
    <3>1. CASE u = t
      BY <2>1, <2>3, <3>1, Zenon
    <3>2. CASE u # t
      BY <2>3, <3>2, <1>5, <1>8, Zenon
    <3> QED
      BY <3>1, <3>2, Zenon
  <2> QED
    BY <2>1, <2>2, <2>3, <1>6, <1>7, Zenon
<1>11. CASE FreeClear(t)
  <2>1. t \in Owning /\ InFlight(t) \in Blocks
    BY <1>11, Zenon DEF AccountInv, PoolInv, BlocksExclusive, Owning, Allocated, FreeClear
  <2>2. Allocated' = Allocated \ {InFlight(t)} /\ held' = held
    BY <1>1, <1>11, <2>1 DEF TypeOK, Allocated, InFlight, Blocks, FreeClear
  <2> QED
    BY <2>1, <2>2, <1>5, <1>6, <1>7, <1>8, ZenonT(40)
<1>12. ASSUME NEW f \in held, FreeStart(t, f)
       PROVE  b \in held' \cup lost' \/ \E u \in Owning' : b = InFlight(u)'
  <2>1. f = <<f[1], f[2]>>
    BY <1>1 DEF TypeOK, Blocks
  <2>2. held' = held \ {f} /\ Allocated' = Allocated /\ pc[t] = "idle"
    BY <1>12, Zenon DEF FreeStart, Allocated
  <2>3. chunk'[t] = f[1] /\ entry'[t] = f[2] /\ pc'[t] = "clear"
    BY <1>1, <1>12, CallTypes, ZenonT(40) DEF FreeStart
  <2>4. t \in Owning' /\ t \notin Owning /\ InFlight(t)' = f
    BY <2>1, <2>2, <2>3, Zenon DEF Owning, InFlight
  <2> QED
    BY <2>2, <2>4, <1>5, <1>6, <1>7, <1>8, Zenon
<1> QED
  BY <1>9, <1>10, <1>11, <1>12, Zenon

(* The constructor files every chunk, and what has no owner is lost.       *)
LEMMA RestartAccounts ==
    ASSUME AccountInv, Restart
    PROVE  BitsAccounted' /\ Filed'
<1>1. Allocated' = Allocated
  BY Zenon DEF Restart, Allocated, fileVars
<1>2. BitsAccounted'
  BY <1>1, Zenon DEF Restart, BitsAccounted
<1>3. Filed'
  BY Zenon DEF Restart, Filed, Unused, UsedFor, fileVars
<1> QED
  BY <1>2, <1>3, Zenon

(* Every step keeps the account.                                           *)
LEMMA NextAccounts == AccountInv /\ [Next]_vars => AccountInv'
<1> SUFFICES ASSUME AccountInv, [Next]_vars PROVE AccountInv'
  BY Zenon
<1>1. PoolInv'
  BY NextKeeps, Zenon DEF AccountInv
<1>2. CASE UNCHANGED vars
  <2>1. UNCHANGED <<fileVars, poolVars, callVars, clientVars>>
    BY <1>2, Zenon DEF vars
  <2>2. BitsAccounted'
    BY <2>1, Zenon DEF AccountInv, BitsAccounted, Allocated, Owning, InFlight,
       fileVars, callVars, clientVars
  <2>3. Filed'
    BY <2>1, Zenon DEF AccountInv, Filed, Moving, fileVars, poolVars, callVars
  <2> QED
    BY <1>1, <2>2, <2>3, Zenon DEF AccountInv
<1>3. ASSUME NEW t \in Threads, Continue(t) PROVE BitsAccounted' /\ Filed'
  BY <1>3, ChoosingAccounts, TakingAccounts, OwningAccounts, Zenon DEF Continue
<1>4. ASSUME NEW t \in Threads, NEW s \in Sizes, NewStart(t, s)
      PROVE  BitsAccounted' /\ Filed'
  BY <1>4, ChoosingAccounts, Zenon
<1>5. ASSUME NEW t \in Threads, NEW b \in held, FreeStart(t, b)
      PROVE  BitsAccounted' /\ Filed'
  BY <1>5, OwningAccounts, Zenon
<1>6. CASE Restart
  BY <1>1, <1>6, RestartAccounts, Zenon DEF AccountInv
<1> QED
  BY <1>1, <1>2, <1>3, <1>4, <1>5, <1>6, Zenon DEF Next, Aborted, AccountInv

(* A fresh pool has no bits, and all of its chunks on the free list.       *)
LEMMA InitAccounts == Init => AccountInv
<1> SUFFICES ASSUME Init PROVE AccountInv
  BY Zenon
<1>1. Allocated = {}
  BY Zenon DEF Init, Allocated, Blocks
<1>2. BitsAccounted
  BY <1>1, Zenon DEF BitsAccounted
<1>3. Filed
  BY Zenon DEF Init, Filed
<1> QED
  BY <1>2, <1>3, InitPool, Zenon DEF AccountInv

(* Chunks that are filed are partitioned.                                  *)
LEMMA FiledPartitions == AccountInv => ChunksPartitioned
<1> SUFFICES ASSUME AccountInv, NEW c \in Chunks
    PROVE  LET moving == \E t \in Threads : chunk[t] = c /\ pc[t] \in {"use", "mark"}
               listed == {s \in Sizes : c \in size_to_chunks_[s]}
           IN  IF c \in free_chunks_ \/ moving
               THEN listed = {} /\ ~ (c \in free_chunks_ /\ moving)
               ELSE Cardinality(listed) = 1
  BY Zenon DEF ChunksPartitioned
<1> DEFINE listed == {s \in Sizes : c \in size_to_chunks_[s]}
<1>1. ListInv /\ CountInv /\ Filed
  BY Zenon DEF AccountInv, PoolInv
<1>2. listed = {s \in Sizes : is_used[c] /\ slab_size_[c] = s}
  BY <1>1, ZenonT(40) DEF Filed
<1>3. c \in free_chunks_ \/ Moving(c) => ~ is_used[c] /\ ~ (c \in free_chunks_ /\ Moving(c))
  <2>1. c \in free_chunks_ => ~ is_used[c]
    BY <1>1, Zenon DEF ListInv
  <2>2. \A t \in Threads : pc[t] \in {"use", "mark"} =>
            chunk[t] \notin free_chunks_ /\ ~ is_used[chunk[t]]
    BY <1>1, Zenon DEF ListInv
  <2>3. Moving(c) => c \notin free_chunks_ /\ ~ is_used[c]
    BY <2>2, Zenon DEF Moving
  <2> QED
    BY <2>1, <2>3, Zenon
<1>4. ~ (c \in free_chunks_ \/ Moving(c)) => is_used[c]
  BY <1>1, Zenon DEF Filed
<1>5. is_used[c] => listed = {slab_size_[c]}
  BY <1>1, <1>2, Zenon DEF CountInv
<1>6. is_used[c] => Cardinality(listed) = 1
  BY <1>5, FS_Singleton, Zenon
<1>7. ~ is_used[c] => listed = {}
  BY <1>2, Zenon
<1> HIDE DEF listed
<1> QED
  BY <1>3, <1>4, <1>6, <1>7, Zenon DEF Moving, listed

(* A bit without an owner is one a restart left behind: New and Free lose  *)
(* none, whatever their interleaving (persist_malloc.h:191-210).           *)
THEOREM PoolLosesNothing == Spec => []BitsAccounted
<1>1. AccountInv => BitsAccounted
  BY Zenon DEF AccountInv
<1> QED
  BY <1>1, InitAccounts, NextAccounts, PTL DEF Spec

(* A chunk is on the free list, on the list of one size, or in the hands   *)
(* of the one New that moves it, restarts at any step included             *)
(* (persist_malloc.h:372-378, 325-335).                                    *)
THEOREM PoolPartitioned == Spec => []ChunksPartitioned
<1> QED
  BY FiledPartitions, InitAccounts, NextAccounts, PTL DEF Spec

---------------------------------------------------------------------------
(* total_malloc_ lags behind the bitmaps by the calls in progress.         *)

Counting   == {t \in Threads : pc[t] = "count"}
Uncounting == {t \in Threads : pc[t] = "uncount"}

(* A New that has set its bit has yet to count it, a Free that has cleared *)
(* its bit still counts it.                                                *)
TotalInv ==
    /\ IsFiniteSet(Counting) /\ IsFiniteSet(Uncounting)
    /\ Cardinality(Allocated) =
          total_malloc_ + Cardinality(Counting) - Cardinality(Uncounting)

(* A step that sets and clears no bit and starts or ends no count.         *)
LEMMA TotalFrame ==
    ASSUME TotalInv, Allocated' = Allocated, total_malloc_' = total_malloc_,
           Counting' = Counting, Uncounting' = Uncounting
    PROVE  TotalInv'
  BY Zenon DEF TotalInv

(* The steps of New before its bit is set, and the first of Free.          *)
LEMMA QuietTotal ==
    ASSUME PoolInv, TotalInv, NEW t \in Threads,
           \/ \E s \in Sizes : NewStart(t, s)
           \/ \E b \in held : FreeStart(t, b)
           \/ TryLastUsed(t) \/ TakeFreeChunk(t) \/ UseChunk(t) \/ MarkUsed(t)
           \/ StartScan(t) \/ ScanChunk(t) \/ OutOfMemory(t)
    PROVE  TotalInv'
<1> USE DEF At, Goto, fileVars, poolVars, callVars, clientVars
<1>1. TypeOK /\ ListInv /\ pc \in [Threads -> PC]
  BY CallTypes, Zenon DEF PoolInv
<1>2. \A u \in Threads \ {t} : pc'[u] = pc[u]
  BY <1>1, Zenon DEF NewStart, FreeStart, TryLastUsed, TakeFreeChunk, UseChunk,
     MarkUsed, StartScan, ScanChunk, OutOfMemory
<1>3. pc[t] \notin {"count", "uncount"}
  BY Zenon DEF NewStart, FreeStart, TryLastUsed, TakeFreeChunk, UseChunk,
     MarkUsed, StartScan, ScanChunk, OutOfMemory
<1>4. pc'[t] \notin {"count", "uncount"}
  BY <1>1, Zenon DEF NewStart, FreeStart, TryLastUsed, TakeFreeChunk, UseChunk,
     MarkUsed, StartScan, ScanChunk, OutOfMemory
<1>5. Counting' = Counting /\ Uncounting' = Uncounting
  BY <1>2, <1>3, <1>4, Zenon DEF Counting, Uncounting
<1>6. total_malloc_' = total_malloc_
  BY Zenon DEF NewStart, FreeStart, TryLastUsed, TakeFreeChunk, UseChunk,
     MarkUsed, StartScan, ScanChunk, OutOfMemory
<1>7. Allocated' = Allocated
  <2>1. CASE UseChunk(t)
    BY <1>1, <2>1, Zenon DEF TypeOK, ListInv, Allocated, Blocks, UseChunk
  <2>2. CASE MarkUsed(t)
    <3>1. bitmap_[chunk[t]] = {} /\ chunk[t] \in Chunks
      BY <1>1, <2>2, Zenon DEF ListInv, MarkUsed
    <3> QED
      BY <1>1, <2>2, <3>1, Zenon DEF TypeOK, Allocated, Blocks, MarkUsed
  <2> QED
    BY <2>1, <2>2, Zenon DEF Allocated, NewStart, FreeStart, TryLastUsed, TakeFreeChunk,
       StartScan, ScanChunk, OutOfMemory
<1> QED
  BY <1>5, <1>6, <1>7, TotalFrame, Zenon

(* Malloc sets a bit that New will count.                                  *)
LEMMA MallocTotal ==
    ASSUME PoolInv, TotalInv, NEW t \in Threads, Malloc(t)
    PROVE  TotalInv'
<1> USE DEF At, Goto
<1> DEFINE c == chunk[t]
           e == FirstZero(c)
<1>1. /\ pc \in [Threads -> PC] /\ bitmap_ \in [Chunks -> SUBSET AllEntries]
      /\ pc[t] = "malloc" /\ total_malloc_' = total_malloc_ /\ is_used' = is_used
  BY Zenon DEF PoolInv, TypeOK, Malloc
<1>2. CASE Zeros(c) = {}
  <2>1. UNCHANGED <<bitmap_, pc>>
    BY <1>2, Zenon DEF Malloc
  <2> QED
    BY <1>1, <2>1, TotalFrame, Zenon DEF Allocated, Counting, Uncounting
<1>3. CASE Zeros(c) # {}
  <2>1. bitmap_' = [bitmap_ EXCEPT ![c] = @ \cup {e}] /\ pc' = [pc EXCEPT ![t] = "count"]
    BY <1>3, Zenon DEF Malloc
  <2>2. c \in Chunks /\ is_used[c] /\ slab_size_[c] \in Sizes
    BY Zenon DEF PoolInv, ListInv, CountInv, Malloc
  <2>3. e \in EntriesOf(c) /\ e \notin bitmap_[c]
    BY <2>2, <1>3, FirstZeroIsZero, Zenon DEF Zeros
  <2>4. e \in AllEntries
    BY <2>2, <2>3, Zenon DEF EntriesOf, AllEntries
  <2> HIDE DEF c, e
  <2>5. <<c, e>> \notin Allocated
    BY <2>3, Zenon DEF Allocated
  <2>6. Allocated' = Allocated \cup {<<c, e>>}
    BY <1>1, <2>1, <2>2, <2>4 DEF Allocated, Blocks
  <2>7. t \notin Counting /\ Counting' = Counting \cup {t} /\ Uncounting' = Uncounting
    BY <1>1, <2>1, Zenon DEF Counting, Uncounting
  <2>8. /\ IsFiniteSet(Counting) /\ IsFiniteSet(Uncounting)
        /\ Cardinality(Allocated) = total_malloc_ + Cardinality(Counting) - Cardinality(Uncounting)
    BY Zenon DEF TotalInv
  <2>9. Cardinality(Allocated') = Cardinality(Allocated) + 1
    BY <2>5, <2>6, OneMore, AllocatedFinite, Zenon
  <2>10. IsFiniteSet(Counting') /\ Cardinality(Counting') = Cardinality(Counting) + 1
    BY <2>7, <2>8, OneMore, Zenon
  <2>11. Uncounting' = Uncounting
    BY <2>7
  <2>12. Cardinality(Counting) \in Nat /\ Cardinality(Uncounting) \in Nat /\ total_malloc_ \in Int
    BY <2>8, FS_CardinalityType, Zenon DEF PoolInv, TypeOK
  <2>13. Cardinality(Allocated)' =
            total_malloc_' + Cardinality(Counting)' - Cardinality(Uncounting)'
    BY <1>1, <2>8, <2>9, <2>10, <2>11, <2>12
  <2> QED
    BY <2>8, <2>10, <2>11, <2>13, Zenon DEF TotalInv
<1> QED
  BY <1>2, <1>3, Zenon

(* New counts its block.                                                   *)
LEMMA NewReturnTotal ==
    ASSUME PoolInv, TotalInv, NEW t \in Threads, NewReturn(t)
    PROVE  TotalInv'
<1>1. /\ pc \in [Threads -> PC] /\ pc[t] = "count" /\ pc' = [pc EXCEPT ![t] = "idle"]
      /\ total_malloc_' = total_malloc_ + 1 /\ total_malloc_ \in Int
  BY Zenon DEF PoolInv, TypeOK, NewReturn, At, Return
<1>2. Allocated' = Allocated
  BY Zenon DEF Allocated, NewReturn, fileVars
<1>3. t \in Counting /\ Counting' = Counting \ {t} /\ Uncounting' = Uncounting
  BY <1>1, Zenon DEF Counting, Uncounting
<1>4. /\ IsFiniteSet(Counting) /\ IsFiniteSet(Uncounting)
      /\ Cardinality(Allocated) = total_malloc_ + Cardinality(Counting) - Cardinality(Uncounting)
  BY Zenon DEF TotalInv
<1>5. /\ IsFiniteSet(Counting') /\ Cardinality(Counting') = Cardinality(Counting) - 1
      /\ Cardinality(Counting) \in Nat
  BY <1>3, <1>4, OneLess, Zenon
<1>6. Cardinality(Uncounting) \in Nat
  BY <1>4, FS_CardinalityType, Zenon
<1>7. Cardinality(Allocated)' =
          total_malloc_' + Cardinality(Counting)' - Cardinality(Uncounting)'
  BY <1>1, <1>2, <1>3, <1>4, <1>5, <1>6
<1> QED
  BY <1>3, <1>4, <1>5, <1>7, Zenon DEF TotalInv

(* Free has cleared its bit and has yet to count it.                       *)
LEMMA FreeClearTotal ==
    ASSUME PoolInv, TotalInv, NEW t \in Threads, FreeClear(t)
    PROVE  TotalInv'
<1>1. /\ pc \in [Threads -> PC] /\ pc[t] = "clear" /\ pc' = [pc EXCEPT ![t] = "uncount"]
      /\ total_malloc_' = total_malloc_ /\ total_malloc_ \in Int
  BY Zenon DEF PoolInv, TypeOK, FreeClear, At, Goto
<1>2. InFlight(t) \in Allocated
  BY <1>1, Zenon DEF PoolInv, BlocksExclusive, Owning
<1>3. Allocated' = Allocated \ {InFlight(t)}
  <2>1. bitmap_' = [bitmap_ EXCEPT ![chunk[t]] = @ \ {entry[t]}] /\ is_used' = is_used
    BY Zenon DEF FreeClear
  <2>2. bitmap_ \in [Chunks -> SUBSET AllEntries] /\ InFlight(t) \in Blocks
    BY <1>2, Zenon DEF PoolInv, TypeOK, Allocated
  <2> QED
    BY <2>1, <2>2 DEF Allocated, InFlight, Blocks
<1>4. t \notin Uncounting /\ Uncounting' = Uncounting \cup {t} /\ Counting' = Counting
  BY <1>1, Zenon DEF Counting, Uncounting
<1>5. /\ IsFiniteSet(Counting) /\ IsFiniteSet(Uncounting)
      /\ Cardinality(Allocated) = total_malloc_ + Cardinality(Counting) - Cardinality(Uncounting)
  BY Zenon DEF TotalInv
<1>6. /\ IsFiniteSet(Uncounting') /\ Cardinality(Uncounting') = Cardinality(Uncounting) + 1
      /\ Cardinality(Uncounting) \in Nat
  BY <1>4, <1>5, OneMore, Zenon
<1>7. Cardinality(Allocated') = Cardinality(Allocated) - 1 /\ Cardinality(Allocated) \in Nat
  BY <1>2, <1>3, OneLess, AllocatedFinite, Zenon
<1>8. Cardinality(Counting) \in Nat
  BY <1>5, FS_CardinalityType, Zenon
<1>9. Cardinality(Allocated)' =
          total_malloc_' + Cardinality(Counting)' - Cardinality(Uncounting)'
  BY <1>1, <1>4, <1>5, <1>6, <1>7, <1>8
<1> QED
  BY <1>4, <1>5, <1>6, <1>9, Zenon DEF TotalInv

(* Free counts.                                                            *)
LEMMA FreeReturnTotal ==
    ASSUME PoolInv, TotalInv, NEW t \in Threads, FreeReturn(t)
    PROVE  TotalInv'
<1>1. /\ pc \in [Threads -> PC] /\ pc[t] = "uncount" /\ pc' = [pc EXCEPT ![t] = "idle"]
      /\ total_malloc_' = total_malloc_ - 1 /\ total_malloc_ \in Int
  BY Zenon DEF PoolInv, TypeOK, FreeReturn, At, Return
<1>2. Allocated' = Allocated
  BY Zenon DEF Allocated, FreeReturn, fileVars
<1>3. t \in Uncounting /\ Uncounting' = Uncounting \ {t} /\ Counting' = Counting
  BY <1>1, Zenon DEF Counting, Uncounting
<1>4. /\ IsFiniteSet(Counting) /\ IsFiniteSet(Uncounting)
      /\ Cardinality(Allocated) = total_malloc_ + Cardinality(Counting) - Cardinality(Uncounting)
  BY Zenon DEF TotalInv
<1>5. /\ IsFiniteSet(Uncounting') /\ Cardinality(Uncounting') = Cardinality(Uncounting) - 1
      /\ Cardinality(Uncounting) \in Nat
  BY <1>3, <1>4, OneLess, Zenon
<1>6. Cardinality(Counting) \in Nat
  BY <1>4, FS_CardinalityType, Zenon
<1>7. Cardinality(Allocated)' =
          total_malloc_' + Cardinality(Counting)' - Cardinality(Uncounting)'
  BY <1>1, <1>2, <1>3, <1>4, <1>5, <1>6
<1> QED
  BY <1>3, <1>4, <1>5, <1>7, Zenon DEF TotalInv

(* With no call in progress nothing is left to count.                      *)
LEMMA TotalAtRest ==
    ASSUME \A t \in Threads : pc[t] = "idle", total_malloc_ = Cardinality(Allocated)
    PROVE  TotalInv
<1>1. Counting = {} /\ Uncounting = {}
  BY Zenon DEF Counting, Uncounting
<1>2. IsFiniteSet({}) /\ Cardinality({}) = 0
  BY FS_EmptySet, Zenon
<1>3. Cardinality(Counting) = 0 /\ Cardinality(Uncounting) = 0
  BY <1>1, <1>2, Zenon
<1>4. Cardinality(Allocated) = total_malloc_ + 0 - 0
  BY AllocatedFinite
<1> QED
  BY <1>1, <1>2, <1>3, <1>4, Zenon DEF TotalInv

(* The same of the state after a step.                                     *)
LEMMA TotalAtRestNext ==
    ((\A t \in Threads : pc[t] = "idle") /\ total_malloc_ = Cardinality(Allocated) => TotalInv)'
  BY TotalAtRest, PTL

(* Every step keeps the total.                                             *)
LEMMA NextTotal == PoolInv /\ TotalInv /\ [Next]_vars => TotalInv'
<1> SUFFICES ASSUME PoolInv, TotalInv, [Next]_vars PROVE TotalInv'
  BY Zenon
<1>1. CASE UNCHANGED vars
  BY <1>1, TotalFrame, Zenon DEF vars, fileVars, poolVars, callVars, Allocated, Counting,
     Uncounting
<1>2. ASSUME NEW t \in Threads,
             \/ \E s \in Sizes : NewStart(t, s)
             \/ \E b \in held : FreeStart(t, b)
             \/ Continue(t)
      PROVE  TotalInv'
  BY <1>2, QuietTotal, MallocTotal, NewReturnTotal, FreeClearTotal, FreeReturnTotal,
     Zenon DEF Continue
<1>3. CASE Restart
  <2>1. (\A t \in Threads : pc[t] = "idle")'
    BY <1>3, Zenon DEF Restart
  <2>2. Allocated' = Allocated
    BY <1>3, Zenon DEF Restart, Allocated, fileVars
  <2>3. total_malloc_' = Cardinality(Allocated)'
    BY <1>3, <2>2, Zenon DEF Restart, TotalAllocated
  <2> QED
    BY <2>1, <2>3, TotalAtRestNext, Zenon
<1> QED
  BY <1>1, <1>2, <1>3, Zenon DEF Next, Aborted

(* With no call in progress total_malloc() is the number of blocks in use, *)
(* which persist_memorypool_test.cc checks, whatever New and Free did at   *)
(* the same time before and however often the process restarted            *)
(* (persist_malloc.h:332, 390, 400).                                       *)
THEOREM PoolTotalExact == Spec => []TotalExact
<1>1. Init => TotalInv
  <2> SUFFICES ASSUME Init PROVE TotalInv
    OBVIOUS
  <2>1. Allocated = {} /\ total_malloc_ = 0 /\ \A t \in Threads : pc[t] = "idle"
    BY Zenon DEF Init, Allocated, Blocks
  <2>2. Cardinality(Allocated) = 0
    BY <2>1, FS_EmptySet, Zenon
  <2> QED
    BY <2>1, <2>2, TotalAtRest, Zenon
<1>2. PoolInv /\ TotalInv => TotalExact
  <2> SUFFICES ASSUME TotalInv, PoolInv, \A t \in Threads : pc[t] = "idle"
               PROVE  total_malloc_ = Cardinality(Allocated)
    BY Zenon DEF TotalExact
  <2>1. Counting = {} /\ Uncounting = {}
    BY Zenon DEF Counting, Uncounting
  <2>2. Cardinality(Counting) = 0 /\ Cardinality(Uncounting) = 0
    BY <2>1, FS_EmptySet, Zenon
  <2>3. total_malloc_ \in Int
    BY Zenon DEF PoolInv, TypeOK
  <2> QED
    BY <2>2, <2>3 DEF TotalInv
<1> QED
  BY <1>1, <1>2, InitPool, NextKeeps, NextTotal, PTL DEF Spec

============================================================================
