------------------------------ MODULE PetHash ------------------------------
(***************************************************************************)
(* The dictionary of src/pet_kv/pet_hash.h with one operation at a time, as *)
(* PetKV::Update runs it under modify_lock_.                               *)
(*                                                                         *)
(* A key is probed for along its own chain of chunks, which starts at its  *)
(* home chunk and moves by an odd step.  A chunk counts the keys whose     *)
(* chain passed it (overflow_count_); a lookup stops at the first chunk    *)
(* where the count is 0.  The count is an 8-bit counter that sticks at     *)
(* its maximum and wraps below 0.                                          *)
(*                                                                         *)
(* Tags only speed a chunk's search up (the key is compared as well), so a *)
(* slot is in use here when it holds a key.                                *)
(***************************************************************************)
EXTENDS Integers, FiniteSetsExt

CONSTANTS Keys, Values, NoKey, NoValue,
          ChunkNum,        \* chunk_num_, a power of two
          kMaxSize,        \* slots of a chunk (14 in the code)
          MaxOverflow,     \* 255 in the code
          MaxLoadFactor,   \* kMaxLoadFactor, per cent
          Home,            \* Hash(key) & (chunk_num_ - 1)
          Sign             \* Sign(Hash(key))

Chunks == 0 .. ChunkNum - 1
Slots  == 0 .. kMaxSize - 1

ProbeDelta(k) == 2 * Sign[k] + 1

(* The i-th chunk on the probe chain of k.                                 *)
Pos(k, i) == (Home[k] + i * ProbeDelta(k)) % ChunkNum

(* chunk_num_ is a power of two and every step is odd, so the first        *)
(* chunk_num_ chunks of a chain are all the chunks, each of them once.     *)
ASSUME HashAssumption ==
    /\ ChunkNum \in Nat \ {0}
    /\ kMaxSize \in Nat \ {0}
    /\ MaxOverflow \in Nat \ {0}
    /\ MaxLoadFactor \in 1 .. 100
    /\ Home \in [Keys -> Chunks]
    /\ Sign \in [Keys -> Nat]
    /\ NoKey \notin Keys /\ NoValue \notin Values
    /\ \A k \in Keys : \A i, j \in Chunks : Pos(k, i) = Pos(k, j) => i = j
    /\ \A k \in Keys : \A c \in Chunks : \E i \in Chunks : Pos(k, i) = c

VARIABLES slot,             \* chunk -> slot -> value_[slot].first
          val,              \* chunk -> slot -> value_[slot].second
          chunk_size,       \* chunk -> F14Chunk::size_
          overflow_count_,  \* chunk -> F14Chunk::overflow_count_
          size_,            \* PetHash::size_
          fatal             \* LOG(FATAL) aborted the process

table == <<slot, val, chunk_size, overflow_count_, size_>>
vars  == <<slot, val, chunk_size, overflow_count_, size_, fatal>>

TypeOK ==
    /\ slot \in [Chunks -> [Slots -> Keys \cup {NoKey}]]
    /\ val \in [Chunks -> [Slots -> Values \cup {NoValue}]]
    /\ chunk_size \in [Chunks -> 0 .. kMaxSize]
    /\ overflow_count_ \in [Chunks -> 0 .. MaxOverflow]
    /\ size_ \in 0 .. ChunkNum * kMaxSize
    /\ fatal \in BOOLEAN

EmptyTable(sl, vl, cs, ov, sz) ==
    /\ sl = [c \in Chunks |-> [s \in Slots |-> NoKey]]
    /\ vl = [c \in Chunks |-> [s \in Slots |-> NoValue]]
    /\ cs = [c \in Chunks |-> 0]
    /\ ov = [c \in Chunks |-> 0]
    /\ sz = 0

Init == EmptyTable(slot, val, chunk_size, overflow_count_, size_) /\ fatal = FALSE

---------------------------------------------------------------------------
(* Lookup.                                                                 *)

In(k, c) == \E s \in Slots : slot[c][s] = k
SlotOf(k, c) == CHOOSE s \in Slots :
    slot[c][s] = k /\ \A r \in 0 .. s - 1 : slot[c][r] # k

(* GetInternal reaches the i-th chunk of k's chain.                        *)
Reaches(k, i) == \A j \in 0 .. i - 1 :
    ~ In(k, Pos(k, j)) /\ overflow_count_[Pos(k, j)] # 0

(* ... and finds k there.                                                  *)
FoundAt(k, i) == Reaches(k, i) /\ In(k, Pos(k, i))

Exists(k) == \E i \in Chunks : FoundAt(k, i)
Distance(k) == CHOOSE i \in Chunks : FoundAt(k, i)
Where(k) == Pos(k, Distance(k))

Get(k) == IF Exists(k) THEN val[Where(k)][SlotOf(k, Where(k))] ELSE NoValue

---------------------------------------------------------------------------
(* The overflow counters, and the counters of the chunks in a set.         *)

IncOverflow(n) == IF n # MaxOverflow THEN n + 1 ELSE n

(* A faulty variant: a count at its maximum is decremented as well.        *)
DecStuck(n) == (n + MaxOverflow) % (MaxOverflow + 1)

DecOverflow(n) == IF n # MaxOverflow THEN (n + MaxOverflow) % (MaxOverflow + 1)
                  ELSE n

Incremented(cs) == [c \in Chunks |-> IF c \in cs THEN IncOverflow(overflow_count_[c])
                                     ELSE overflow_count_[c]]
Decremented(cs) == [c \in Chunks |-> IF c \in cs THEN DecOverflow(overflow_count_[c])
                                     ELSE overflow_count_[c]]

(* The first n chunks of k's chain.                                        *)
Passed(k, n) == {Pos(k, j) : j \in 0 .. n - 1}

Full == size_ * 100 >= ChunkNum * kMaxSize * MaxLoadFactor
HasRoom(c) == chunk_size[c] < kMaxSize
FirstFree(c) == CHOOSE s \in Slots :
    slot[c][s] = NoKey /\ \A r \in 0 .. s - 1 : slot[c][r] # NoKey

PutAt(c, s, k, v) ==
    /\ slot' = [slot EXCEPT ![c][s] = k]
    /\ val' = [val EXCEPT ![c][s] = v]

---------------------------------------------------------------------------
(* Operations.                                                             *)

(* Set of a key that is present: overwrite in place.                       *)
SetExisting(k, v) ==
    /\ Exists(k)
    /\ val' = [val EXCEPT ![Where(k)][SlotOf(k, Where(k))] = v]
    /\ UNCHANGED <<slot, chunk_size, overflow_count_, size_, fatal>>

(* Insert: the i-th chunk of k's chain takes k, every chunk before it was  *)
(* full and counts k as passed.  (The re-search of each chunk for k cannot  *)
(* hit: k is not reachable here, and StoredKeysFound says that a key that  *)
(* is not reachable is not stored.)                                        *)
Insert(k, v) ==
    \E i \in Chunks :
        LET c == Pos(k, i) IN
        /\ ~ Exists(k)
        /\ HasRoom(c)
        /\ \A j \in 0 .. i - 1 : ~ HasRoom(Pos(k, j))
        /\ i > 0 => ~ Full
        /\ PutAt(c, FirstFree(c), k, v)
        /\ chunk_size' = [chunk_size EXCEPT ![c] = @ + 1]
        /\ overflow_count_' = Incremented(Passed(k, i))
        /\ size_' = size_ + 1
        /\ UNCHANGED fatal

(* Insert at the load limit with a full home chunk.  force_insert deletes  *)
(* the key in slot Sign % kMaxSize of the home chunk, the next turn of the *)
(* loop finds that slot free.  The loop has chunk_num_ turns: a one-chunk  *)
(* table has no next turn.  Without force_insert, or without a next turn,  *)
(* the process aborts, and the table as it was then is of no interest.     *)
InsertFull(k, v, force_insert) ==
    LET c == Home[k]
        s == Sign[k] % kMaxSize
        victim == slot[c][s] IN
    /\ ~ Exists(k)
    /\ ~ HasRoom(c)
    /\ Full
    /\ IF force_insert /\ ChunkNum > 1
       THEN /\ PutAt(c, s, k, v)
            /\ overflow_count_' = Decremented(Passed(victim, Distance(victim)))
            /\ UNCHANGED <<chunk_size, size_, fatal>>
       ELSE /\ fatal' = TRUE
            /\ UNCHANGED table

Set(k, v, is_force) ==
    SetExisting(k, v) \/ Insert(k, v) \/ InsertFull(k, v, is_force)

(* Faulty variants of Delete: the table keeps its size; the counts along   *)
(* the chain are left alone; the chunk that held the key is counted too.   *)
DeleteWith(k, size, passed) ==
    /\ Exists(k)
    /\ slot' = [slot EXCEPT ![Where(k)][SlotOf(k, Where(k))] = NoKey]
    /\ overflow_count_' = Decremented(passed)
    /\ chunk_size' = [chunk_size EXCEPT ![Where(k)] = @ - 1]
    /\ size_' = size
    /\ UNCHANGED <<val, fatal>>

DeleteKeepsSize(k) == DeleteWith(k, size_, Passed(k, Distance(k)))
DeleteKeepsCounts(k) == DeleteWith(k, size_ - 1, {})
DeleteCountsTooFar(k) == DeleteWith(k, size_ - 1, Passed(k, Distance(k) + 1))

Delete(k) ==
    /\ Exists(k)
    /\ slot' = [slot EXCEPT ![Where(k)][SlotOf(k, Where(k))] = NoKey]
    /\ overflow_count_' = Decremented(Passed(k, Distance(k)))
    /\ chunk_size' = [chunk_size EXCEPT ![Where(k)] = @ - 1]
    /\ size_' = size_ - 1
    /\ UNCHANGED <<val, fatal>>

---------------------------------------------------------------------------
(* Restart.                                                                *)

Stored(c) == {s \in Slots : slot[c][s] # NoKey}
AtSlot(p) == slot[p[1]][p[2]]
AllStored == {p \in Chunks \X Slots : AtSlot(p) # NoKey}

(* PetHash::Valid, of a table whose geometry fits its file.                *)
Valid ==
    /\ size_ <= ChunkNum * kMaxSize
    /\ \A p \in AllStored : Exists(AtSlot(p))
    /\ size_ = Cardinality(AllStored)
    /\ size_ = MapThenSumSet(LAMBDA c : chunk_size[c], Chunks)

(* The occupied slots whose key's chain passes chunk c on its way home to  *)
(* the slot: what the second pass of Reload counts into c.                 *)
PassingSlots(c) ==
    {p \in AllStored : \E i, j \in Chunks :
        j < i /\ Pos(AtSlot(p), i) = p[1] /\ Pos(AtSlot(p), j) = c}

SaturatedCount(n) == IF n < MaxOverflow THEN n ELSE MaxOverflow

Reload ==
    /\ chunk_size' = [c \in Chunks |-> Cardinality(Stored(c))]
    /\ size_' = Cardinality(AllStored)
    /\ overflow_count_' = [c \in Chunks |->
                             SaturatedCount(Cardinality(PassingSlots(c)))]
    /\ UNCHANGED <<slot, val, fatal>>

(* PetKV's constructor on an existing dictionary file.                     *)
Restart ==
    IF Valid THEN Reload
    ELSE EmptyTable(slot', val', chunk_size', overflow_count_', size_')
         /\ UNCHANGED fatal

---------------------------------------------------------------------------
Aborted == fatal /\ UNCHANGED vars

Next ==
    \/ /\ ~ fatal
       /\ \/ \E k \in Keys, v \in Values, is_force \in BOOLEAN : Set(k, v, is_force)
          \/ \E k \in Keys : Delete(k)
          \/ Restart
    \/ Aborted

Spec == Init /\ [][Next]_vars

---------------------------------------------------------------------------
(* Properties.                                                             *)

(* Every key in the table is found, in the chunk it is stored in: no chain *)
(* is cut by an overflow count that reached 0 too early (pet_hash.h:365).  *)
StoredKeysFound ==
    \A p \in AllStored : Exists(AtSlot(p)) /\ Where(AtSlot(p)) = p[1]

(* A count that has not stuck at its maximum is exactly the number of keys *)
(* whose chain passed the chunk, so lookups of absent keys stop as early   *)
(* as possible and Reload recomputes what was there (pet_hash.h:87-92,     *)
(* 199-239).                                                               *)
OverflowExact ==
    \A c \in Chunks : overflow_count_[c] # MaxOverflow =>
        overflow_count_[c] = Cardinality(PassingSlots(c))

(* A table written by completed operations passes Valid at the next start, *)
(* which keeps PetKV from wiping it (pet_kv.cc:67-69).                     *)
AlwaysValid == Valid

(* The table is a map: Set, Delete, eviction and restart do to what Get    *)
(* returns exactly what KVMap says.                                        *)
Map == INSTANCE KVMap WITH map <- [k \in Keys |-> Get(k)], aborted <- fatal
ImplementsMap == Map!MapSpec
===========================================================================
