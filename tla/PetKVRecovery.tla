--------------------------- MODULE PetKVRecovery ---------------------------
(***************************************************************************)
(* One shard of a store over crashes and restarts: PetKV's constructor and *)
(* destructor, and Update store by store, on the dictionary of PetHash and *)
(* the areas of RegisterCenter.  The other shards only register files.     *)
(*                                                                         *)
(* The process may die between any two steps; every store it has made is   *)
(* in persistent memory then.  (What a power failure does to stores that   *)
(* have not been flushed is not modelled.)  A step is one store, or stores *)
(* to one chunk that Valid and Reload tell apart only when all are made.   *)
(* The dictionary, the bits of the allocator, the blocks and the locks of  *)
(* the dictionary's chunks are persistent, the free list is not.           *)
(*                                                                         *)
(* A slot is in use when its tag is not 0, which is what lookups and Valid *)
(* go by.  Reload goes by the slot's first, which is -1 in a free slot of  *)
(* a finished table but 0, or a key, in one that Initialize has not        *)
(* finished: untagged is what Reload finds in a slot whose tag is 0.       *)
(*                                                                         *)
(* The free list hands back any number of blocks in a call of Recycle:     *)
(* PetKV models the epochs that decide, which the other shards advance.    *)
(***************************************************************************)
EXTENDS PetHash, RegisterCenter, SequencesExt

CONSTANTS Store,        \* the shard
          Data,         \* what clients write
          ZeroKey,      \* key 0: clients count their keys from 1
          MaxUpdates,   \* bound: Updates begun
          MaxStarts     \* bound: starts of the process

Blocks == Values
NoBlock == NoValue

ASSUME RecoveryAssumption ==
    /\ Store \in Shards /\ ChunkNum > 1
    /\ ZeroKey \in Keys /\ Home[ZeroKey] = 0
    /\ MaxUpdates \in Nat /\ MaxStarts \in Nat

VARIABLES pc,           \* where the shard's thread is, or "down"
          formatted,    \* capacity_ is not 0
          untagged,     \* chunk -> slot -> first, if it is not -1 and the tag is 0
          todo,         \* the chunks a loop of the constructor has ahead
          allocated,    \* the blocks whose bit is set
          mem,          \* block -> key and data last copied into it
          locked,       \* chunk -> its lock_ is held
          key, data, new_block, hop, victim,   \* Update, Insert, Delete: locals
          recycle_ptr_, \* the free list
          updates, starts,
          want,         \* history: key -> what a reader may find
          history       \* history: crashed, evicted, cut, refused, exposed

localVars == <<key, data, new_block, hop, victim, recycle_ptr_>>
formatVars == <<formatted, untagged, todo>>
kvVars == <<pc, formatVars, allocated, mem, locked, localVars, updates, starts, want, history>>
recVars == <<vars, registerVars, kvVars>>

Absent == <<>>
Contents == (Keys \X Data) \cup {Absent}
ClientKeys == Keys \ {ZeroKey}
Nowhere == <<>>
Starting == {"register", "format", "header", "items", "blank", "reload", "size",
             "rebuild", "check"}
Serving == {"loaded", "idle", "write", "insert", "turn", "entry", "count",
            "unlock", "unlink", "shrink", "uncount", "retire", "drain", "return", "clear"}

(* A death here leaves the table's sizes or counts in disagreement.        *)
CutPoints == {"entry", "count", "unlink", "shrink", "uncount", "header", "items",
              "reload", "size", "rebuild"}

(* The areas are cleared when they are registered: zeros are not a table.  *)
RecoveryInit ==
    /\ Init /\ RegisterInit
    /\ pc = "down"
    /\ formatted = FALSE
    /\ untagged = [c \in Chunks |-> [s \in Slots |-> ZeroKey]]
    /\ todo = {}
    /\ allocated = {}
    /\ mem = [b \in Blocks |-> Absent]
    /\ locked = [c \in Chunks |-> FALSE]
    /\ key = NoKey /\ data = Absent /\ new_block = NoBlock
    /\ hop = 0 /\ victim = Nowhere
    /\ recycle_ptr_ = <<>>
    /\ updates = 0 /\ starts = 0
    /\ want = [k \in Keys |-> {Absent}]
    /\ history = [crashed |-> FALSE, evicted |-> FALSE, cut |-> FALSE,
                  refused |-> FALSE, exposed |-> FALSE]

Found(k) == IF Exists(k) THEN mem[Get(k)] ELSE Absent

---------------------------------------------------------------------------
(* The life of the process.                                                *)

Start ==
    /\ pc = "down"
    /\ starts < MaxStarts
    /\ starts' = starts + 1
    /\ MapDevice
    /\ pc' = "register"
    /\ UNCHANGED <<vars, formatVars, allocated, mem, locked, localVars, updates,
                   want, history>>

(* The threads of LoadShard register their files.                          *)
LoadShard(s) ==
    /\ pc \in IF s = Store THEN {"register"} ELSE Starting \cup {"loaded"}
    /\ Register(s)
    /\ UNCHANGED <<vars, kvVars>>

(* PetKV's constructor: Initialize of a table that is not Valid, Reload of *)
(* one that is.  Reload begins with size_ = 0.                             *)
CheckTable ==
    /\ pc = "register"
    /\ AllOpened(Store)
    /\ IF formatted /\ Valid
       THEN pc' = "reload" /\ todo' = Chunks /\ size_' = 0
       ELSE pc' = "format" /\ UNCHANGED <<todo, size_>>
    /\ UNCHANGED <<slot, val, chunk_size, overflow_count_, locked, formatted,
                   untagged, want, history>>

(* Initialize: chunk_num_, capacity_ and size_.                            *)
Format ==
    /\ pc = "format"
    /\ formatted' = TRUE
    /\ size_' = 0
    /\ todo' = Chunks
    /\ pc' = "header"
    /\ UNCHANGED <<slot, val, chunk_size, overflow_count_, locked, untagged, want,
                   history>>

FirstTodo == Min(todo)
AllFree == [s \in Slots |-> NoKey]

(* memset goes from chunk to chunk: tags, size, lock and count come first, *)
WipeHeader ==
    /\ pc = "header"
    /\ slot' = [slot EXCEPT ![FirstTodo] = AllFree]
    /\ untagged' = [untagged EXCEPT ![FirstTodo] = [s \in Slots |->
                       IF slot[FirstTodo][s] = NoKey THEN @[s] ELSE slot[FirstTodo][s]]]
    /\ chunk_size' = [chunk_size EXCEPT ![FirstTodo] = 0]
    /\ overflow_count_' = [overflow_count_ EXCEPT ![FirstTodo] = 0]
    /\ locked' = [locked EXCEPT ![FirstTodo] = FALSE]
    /\ pc' = "items"
    /\ UNCHANGED <<val, size_, formatted, todo, want, history>>

(* then the items, whose firsts are 0 from now on.                         *)
WipeItems ==
    LET lost == {untagged[FirstTodo][s] : s \in Slots}
        rest == todo \ {FirstTodo} IN
    /\ pc = "items"
    /\ untagged' = [untagged EXCEPT ![FirstTodo] = [s \in Slots |-> ZeroKey]]
    /\ val' = [val EXCEPT ![FirstTodo] = [s \in Slots |-> NoValue]]
    /\ want' = [k \in Keys |-> IF k \in lost THEN {Absent} ELSE want[k]]
    /\ IF rest = {} THEN pc' = "blank" /\ todo' = Chunks
       ELSE pc' = "header" /\ todo' = rest
    /\ UNCHANGED <<slot, chunk_size, overflow_count_, size_, locked, formatted,
                   history>>

(* F14Chunk::Initialize, chunk after chunk: the firsts become -1.          *)
BlankChunk ==
    /\ pc = "blank"
    /\ untagged' = [untagged EXCEPT ![FirstTodo] = AllFree]
    /\ todo' = todo \ {FirstTodo}
    /\ pc' = IF todo' = {} THEN "check" ELSE "blank"
    /\ UNCHANGED <<slot, val, chunk_size, overflow_count_, size_, locked, formatted,
                   want, history>>

(* Reload, first pass: four threads have the chunks between them.  A slot  *)
(* whose first is not -1 is counted, and its tag is set if it was not.     *)
ReloadChunk ==
    /\ pc = "reload"
    /\ \E c \in todo :
        /\ slot' = [slot EXCEPT ![c] = [s \in Slots |->
                       IF @[s] = NoKey THEN untagged[c][s] ELSE @[s]]]
        /\ untagged' = [untagged EXCEPT ![c] = AllFree]
        /\ chunk_size' = [chunk_size EXCEPT ![c] =
                             Cardinality({s \in Slots : slot'[c][s] # NoKey})]
        /\ overflow_count_' = [overflow_count_ EXCEPT ![c] = 0]
        /\ todo' = todo \ {c}
    /\ pc' = IF todo' = {} THEN "size" ELSE "reload"
    /\ UNCHANGED <<val, size_, locked, formatted, want, history>>

ReloadSize ==
    /\ pc = "size"
    /\ size_' = Cardinality(AllStored)
    /\ todo' = Chunks
    /\ pc' = "rebuild"
    /\ UNCHANGED <<slot, val, chunk_size, overflow_count_, locked, formatted,
                   untagged, want, history>>

(* A faulty variant: the second pass is missing.                           *)
ReloadNoOverflow ==
    /\ pc = "rebuild"
    /\ todo' = {}
    /\ pc' = "check"
    /\ UNCHANGED <<slot, val, chunk_size, overflow_count_, size_, locked, formatted,
                   untagged, want, history>>

(* Second pass: a chunk's entries count into the chunks they have passed.  *)
ReloadOverflow ==
    /\ pc = "rebuild"
    /\ \E c \in todo :
        /\ overflow_count_' = [d \in Chunks |-> SaturatedCount(overflow_count_[d] +
                Cardinality({p \in PassingSlots(d) : p[1] = c}))]
        /\ todo' = todo \ {c}
    /\ pc' = IF todo' = {} THEN "check" ELSE "rebuild"
    /\ UNCHANGED <<slot, val, chunk_size, size_, locked, formatted, untagged, want,
                   history>>

(* A faulty variant: the two counts are not compared.                      *)
AnyCounts == TRUE

(* CHECK_EQ(dict_->Size(), shm_malloc_->total_malloc()).                   *)
CountsAgree == size_ = Cardinality(allocated)

CheckCounts ==
    /\ pc = "check"
    /\ pc' = IF CountsAgree THEN "loaded" ELSE "down"
    /\ history' = [history EXCEPT !.refused = @ \/ ~ CountsAgree, !.cut = FALSE,
                     !.exposed = @ \/ \E k \in ClientKeys : Exists(k) /\ Get(k) \notin allocated]
    /\ UNCHANGED <<slot, val, chunk_size, overflow_count_, size_, locked, formatVars,
                   want>>

(* The constructor of PetMultiKV has joined its threads.                   *)
Join ==
    /\ pc = "loaded"
    /\ \A s \in Shards : AllOpened(s)
    /\ pc' = "idle"
    /\ UNCHANGED <<slot, val, chunk_size, overflow_count_, size_, locked, formatVars,
                   want, history>>

LoseVolatile ==
    /\ key' = NoKey /\ data' = Absent /\ new_block' = NoBlock
    /\ hop' = 0 /\ victim' = Nowhere
    /\ recycle_ptr_' = <<>>

(* The process dies, by a signal or by a LOG(FATAL) of another thread.     *)
Crash ==
    /\ pc # "down"
    /\ LoseVolatile
    /\ todo' = {}
    /\ pc' = "down"
    /\ history' = [history EXCEPT !.crashed = TRUE, !.cut = @ \/ pc \in CutPoints]

(* ~PetKV: Clear frees what is on the free list, then the process ends.    *)
Shutdown ==
    /\ pc = "idle"
    /\ pc' = "clear"
    /\ UNCHANGED <<todo, localVars, history>>

(* A faulty variant: the destructor leaves the free list as it is.         *)
ExitAtOnce ==
    /\ pc = "clear"
    /\ pc' = "down"
    /\ LoseVolatile
    /\ UNCHANGED <<todo, history>>

Exit ==
    /\ pc = "clear"
    /\ recycle_ptr_ = <<>>
    /\ pc' = "down"
    /\ LoseVolatile
    /\ UNCHANGED <<todo, history>>

---------------------------------------------------------------------------
(* Update.                                                                 *)

(* GetReturnPtr and New.  An exhausted pool is LOG(FATAL), see Crash.      *)
Update(k, d) ==
    /\ pc = "idle"
    /\ updates < MaxUpdates
    /\ updates' = updates + 1
    /\ \E b \in Blocks \ allocated :
        allocated' = allocated \cup {b} /\ new_block' = b
    /\ key' = k /\ data' = d
    /\ want' = [want EXCEPT ![k] = @ \cup {<<k, d>>}]
    /\ pc' = "write"
    /\ UNCHANGED <<vars, registerVars, formatVars, mem, locked, hop, victim,
                   recycle_ptr_, starts, history>>

(* memcpy of the value into the block.                                     *)
WriteValue ==
    /\ pc = "write"
    /\ mem' = [mem EXCEPT ![new_block] = <<key, data>>]
    /\ pc' = IF Exists(key) THEN "retire" ELSE "insert"
    /\ hop' = 0
    /\ UNCHANGED <<val, allocated, key, data, new_block, victim, recycle_ptr_, want>>

Chunk == Pos(key, hop)
SetLock(held) == locked' = [locked EXCEPT ![Chunk] = held]

(* A turn of Insert's loop takes the lock of its chunk, which a death of   *)
(* the process leaves held.                                                *)
LockChunk ==
    /\ pc = "insert"
    /\ ~ locked[Chunk]
    /\ SetLock(TRUE)
    /\ pc' = "turn"
    /\ UNCHANGED <<slot, val, chunk_size, overflow_count_, size_, hop, victim, want, history>>

(* F14Chunk::Insert and the table's size_++: three stores.                 *)
GrowChunk ==
    /\ pc = "turn" /\ HasRoom(Chunk)
    /\ chunk_size' = [chunk_size EXCEPT ![Chunk] = @ + 1]
    /\ pc' = "entry"
    /\ UNCHANGED <<slot, val, overflow_count_, size_, locked, hop, victim, want, history>>

StoreEntry ==
    /\ pc = "entry"
    /\ PutAt(Chunk, FirstFree(Chunk), key, new_block)
    /\ pc' = "count"
    /\ UNCHANGED <<chunk_size, overflow_count_, size_, locked, hop, victim, want, history>>

(* A faulty variant: the table's size is left to the next Reload.          *)
SizeUncounted ==
    /\ pc = "count"
    /\ pc' = "unlock"
    /\ UNCHANGED <<slot, val, chunk_size, overflow_count_, size_, locked, hop, victim,
                   want, history>>

CountEntry ==
    /\ pc = "count"
    /\ size_' = size_ + 1
    /\ pc' = "unlock"
    /\ UNCHANGED <<slot, val, chunk_size, overflow_count_, locked, hop, victim, want, history>>

UnlockChunk ==
    /\ pc = "unlock"
    /\ SetLock(FALSE)
    /\ pc' = "return"
    /\ UNCHANGED <<slot, val, chunk_size, overflow_count_, size_, hop, victim, want, history>>

(* A faulty variant: a full table is passed by like a full chunk.          *)
PassFullTable ==
    /\ pc = "turn" /\ ~ HasRoom(Chunk)
    /\ overflow_count_' = Incremented({Chunk})
    /\ SetLock(FALSE)
    /\ hop' = hop + 1
    /\ pc' = "insert"
    /\ UNCHANGED <<slot, val, chunk_size, size_, victim, want, history>>

(* The chunk is full and the table is not: on to the next chunk.           *)
PassChunk ==
    /\ pc = "turn" /\ ~ HasRoom(Chunk) /\ ~ Full
    /\ overflow_count_' = Incremented({Chunk})
    /\ SetLock(FALSE)
    /\ hop' = hop + 1
    /\ pc' = "insert"
    /\ UNCHANGED <<slot, val, chunk_size, size_, victim, want, history>>

(* The table is full: Delete looks the key of a slot of this chunk up, and *)
(* what it finds is deleted, count by count; nobody frees its block.  The  *)
(* next turn is at the same chunk, and inserts there.  (size_ does not     *)
(* change while chunks are passed, so hop is 0 here, as Insert's i is.)    *)
VictimKey == slot[Chunk][(Sign[key] + hop) % kMaxSize]

EvictCounts ==
    /\ pc = "turn" /\ ~ HasRoom(Chunk) /\ Full
    /\ victim' = <<Where(VictimKey), SlotOf(VictimKey, Where(VictimKey))>>
    /\ overflow_count_' = Decremented(Passed(VictimKey, Distance(VictimKey)))
    /\ want' = [want EXCEPT ![VictimKey] = @ \cup {Absent}]
    /\ history' = [history EXCEPT !.evicted = TRUE]
    /\ pc' = "unlink"
    /\ UNCHANGED <<slot, val, chunk_size, size_, locked, hop>>

EvictEntry ==
    /\ pc = "unlink"
    /\ slot' = [slot EXCEPT ![victim[1]][victim[2]] = NoKey]
    /\ want' = [want EXCEPT ![AtSlot(victim)] = {Absent}]
    /\ pc' = "shrink"
    /\ UNCHANGED <<val, chunk_size, overflow_count_, size_, locked, hop, victim,
                   history>>

ShrinkChunk ==
    /\ pc = "shrink"
    /\ chunk_size' = [chunk_size EXCEPT ![victim[1]] = @ - 1]
    /\ pc' = "uncount"
    /\ UNCHANGED <<slot, val, overflow_count_, size_, locked, hop, victim, want,
                   history>>

UncountEntry ==
    /\ pc = "uncount"
    /\ size_' = size_ - 1
    /\ SetLock(FALSE)
    /\ victim' = Nowhere
    /\ pc' = "insert"
    /\ UNCHANGED <<slot, val, chunk_size, overflow_count_, hop, want, history>>

(* The key is in the table: its old block goes to the free list ...        *)
Retire ==
    /\ pc = "retire"
    /\ recycle_ptr_' = Append(recycle_ptr_, Get(key))
    /\ pc' = "drain"
    /\ UNCHANGED <<val, allocated, mem, key, data, new_block, hop, victim, want>>

FreeHead ==
    /\ pc \in {"drain", "clear"}
    /\ recycle_ptr_ # <<>>
    /\ allocated' = allocated \ {Head(recycle_ptr_)}
    /\ recycle_ptr_' = Tail(recycle_ptr_)
    /\ UNCHANGED <<val, pc, mem, key, data, new_block, hop, victim, want>>

(* ... and the entry is pointed at the new one.                            *)
Publish ==
    /\ pc = "drain"
    /\ val' = [val EXCEPT ![Where(key)][SlotOf(key, Where(key))] = new_block]
    /\ pc' = "return"
    /\ UNCHANGED <<allocated, mem, localVars, want>>

(* Update returns true.                                                    *)
Return ==
    /\ pc = "return"
    /\ want' = [want EXCEPT ![key] = {<<key, data>>}]
    /\ key' = NoKey /\ data' = Absent /\ new_block' = NoBlock /\ hop' = 0
    /\ pc' = "idle"
    /\ UNCHANGED <<val, allocated, mem, victim, recycle_ptr_>>

Construct ==
    /\ \/ CheckTable \/ Format \/ WipeHeader \/ WipeItems \/ BlankChunk
       \/ ReloadChunk \/ ReloadSize \/ ReloadOverflow \/ CheckCounts \/ Join
    /\ UNCHANGED <<fatal, registerVars, allocated, mem, localVars, updates, starts>>

Stop ==
    /\ Crash \/ Shutdown \/ Exit
    /\ UNCHANGED <<vars, registerVars, formatted, untagged, allocated, mem, locked,
                   updates, starts, want>>

Insertion ==
    /\ \/ LockChunk \/ GrowChunk \/ StoreEntry \/ CountEntry \/ UnlockChunk
       \/ PassChunk \/ EvictCounts \/ EvictEntry \/ ShrinkChunk \/ UncountEntry
    /\ UNCHANGED <<fatal, registerVars, formatVars, allocated, mem, key, data, new_block,
                   recycle_ptr_, updates, starts>>

Replacement ==
    /\ WriteValue \/ Retire \/ FreeHead \/ Publish \/ Return
    /\ UNCHANGED <<slot, chunk_size, overflow_count_, size_, fatal, registerVars,
                   formatVars, locked, updates, starts, history>>

(* Once an area overlays another one, two stores share memory and nothing  *)
(* is said any more.                                                       *)
RecoveryNext ==
    /\ overlay = "none"
    /\ \/ Start \/ Construct \/ Stop
       \/ \E s \in Shards : LoadShard(s)
       \/ \E k \in ClientKeys, d \in Data : Update(k, d)
       \/ Insertion \/ Replacement

RecoverySpec == RecoveryInit /\ [][RecoveryNext]_recVars

---------------------------------------------------------------------------
(* Properties.                                                             *)

RecoveryTypeOK ==
    /\ TypeOK
    /\ pc \in {"down"} \cup Starting \cup Serving
    /\ allocated \subseteq Blocks /\ ToSet(recycle_ptr_) \subseteq Blocks
    /\ mem \in [Blocks -> Contents]
    /\ locked \in [Chunks -> BOOLEAN]
    /\ want \in [Keys -> SUBSET Contents]
    /\ hop \in Chunks /\ victim \in (Chunks \X Slots) \cup {Nowhere}
    /\ formatted \in BOOLEAN /\ todo \subseteq Chunks
    /\ untagged \in [Chunks -> [Slots -> Keys \cup {NoKey}]]

(* What a store that serves returns for a key is what the last completed   *)
(* Update wrote or what one that was under way when the process died was   *)
(* writing, over any number of crashes; a key is absent only if it was     *)
(* never written, was evicted, or the whole dictionary was cleared.  The   *)
(* exception is a store that started on a dictionary that points at a free *)
(* block, see below (pet_kv.cc:66-79, 113-142).                            *)
ServesAcknowledged ==
    (pc \in Serving /\ ~ history.exposed) => \A k \in ClientKeys : Found(k) \in want[k]

(* A start clears the dictionary only if there was none, or if a death cut *)
(* an insertion, an eviction, an earlier Reload or an earlier Initialize   *)
(* short (pet_hash.h:257-302, pet_kv.cc:67-69).                            *)
ClearedOnlyIfCut ==
    [][(pc = "register" /\ pc' = "format") => (history.cut \/ ~ formatted)]_recVars

(* A start that CHECK_EQ lets pass has no block that is allocated and not  *)
(* in the dictionary, and no two keys on one block, unless the dictionary  *)
(* points at a free block: the counts then agree although the sets do not. *)
(* That happens when the process dies after Recycle has freed the old      *)
(* block and before the entry is pointed at the new one (pet_kv.cc:79,     *)
(* 133-134).  Or unless Reload has met slots that a death inside           *)
(* Initialize left with first = 0 and has counted them as entries of key   *)
(* 0, as many as there were blocks of lost keys (pet_hash.h:143-175).      *)
StartExact ==
    (pc = "loaded" /\ ~ history.exposed /\ ~ Exists(ZeroKey)) =>
        allocated = {Get(k) : k \in {x \in Keys : Exists(x)}}

(* Without a crash and without an eviction the next start succeeds: the    *)
(* destructor empties the free list (malloc.h:89, 106-111).                *)
CleanStart == ~ history.crashed /\ ~ history.evicted => ~ history.refused

(* The CHECK_EQ of PetKV's constructor.                                    *)
StartSucceeds == pc = "check" => CountsAgree
===========================================================================
