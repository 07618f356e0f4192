------------------------------ MODULE PetKV ------------------------------
(***************************************************************************)
(* The concurrent life of value blocks: PetKV::Update (src/pet_kv/         *)
(* pet_kv.cc) under a shard's modify_lock_, the deferred free list of      *)
(* ShmEpochRecycle (src/memory/malloc.h), and the GET handler of a polling *)
(* thread (RpcPsGet in src/ps/petps_server.cc), which looks pointers up    *)
(* with no lock and copies the values behind them under an epoch.          *)
(*                                                                         *)
(* The dictionary is a map from keys to blocks here; PetHash models it.    *)
(* The allocator is a set of allocated blocks per shard; PersistMemoryPool *)
(* models it.  A block holds the key whose value was last copied into it.  *)
(***************************************************************************)
EXTENDS EpochManager, FiniteSets

CONSTANTS Shards, Keys, Blocks,
          GetShard,        \* key -> shard (PetMultiKV::GetShard)
          Pool,            \* block -> the shard whose pool it belongs to
          NoBlock, NoKey,
          Writers,         \* threads that call Update
          Readers,         \* threads that read
          Unprotected,     \* readers that call Get without Protect
          UseSglist,       \* FLAGS_use_sglist
          BumpPeriod,      \* recycles per epoch bump (1000 in the code)
          FullSize,        \* keys of a shard from which PetHash::Full holds
          MaxCompletions   \* bound on completions a thread leaves unpolled

ASSUME PetKVAssumption ==
    /\ GetShard \in [Keys -> Shards]
    /\ Pool \in [Blocks -> Shards]
    /\ NoBlock \notin Blocks /\ NoKey \notin Keys
    /\ Threads = Writers \cup Readers /\ IsFiniteSet(Writers)
    /\ Unprotected \subseteq Readers
    /\ UseSglist \in BOOLEAN
    /\ BumpPeriod \in Nat \ {0}
    /\ FullSize \in Nat
    /\ MaxCompletions \in Nat \ {0}

VARIABLES pc,
          key,             \* Update: its key
          new_block,       \* Update: what New returned
          todo,            \* GET: keys of the request still to look up
          got,             \* GET: key -> pointer found (the values vector)
          early,           \* history: keys whose pointer was found before
                           \* its block was retired
          completions,     \* thread -> SG_GET work completions not yet polled
          modify_lock_,    \* shard -> holder
          recycle_ptr_,    \* shard -> queue of (removal epoch, block)
          recycled_count,  \* shard -> recycles modulo BumpPeriod
          dict,            \* key -> block
          allocated,       \* the blocks the pools consider in use
          mem,             \* block -> key whose value it holds
          leaked,          \* history: blocks of force-evicted keys
          fatal            \* a LOG(FATAL) has aborted the process

kvVars == <<pc, key, new_block, todo, got, early, completions, modify_lock_,
            recycle_ptr_, recycled_count, dict, allocated, mem, leaked, fatal>>
vars == <<epochVars, kvVars>>

PC == {"idle",                                             \* polling
       "enque", "push", "lookup", "pop",                   \* a GET
       "cpop",                                             \* a completion
       "insert", "retire", "bump", "scan", "drain"}        \* an Update

RecycleEntry == [epoch : Epochs, block : Blocks]

TypeOK ==
    /\ EpochTypeOK
    /\ pc \in [Threads -> PC]
    /\ key \in [Threads -> Keys \cup {NoKey}]
    /\ new_block \in [Threads -> Blocks \cup {NoBlock}]
    /\ todo \in [Threads -> SUBSET Keys]
    /\ got \in [Threads -> [Keys -> Blocks \cup {NoBlock}]]
    /\ early \in [Threads -> SUBSET Keys]
    /\ completions \in [Threads -> 0 .. MaxCompletions]
    /\ modify_lock_ \in [Shards -> Threads \cup {NoThread}]
    /\ recycle_ptr_ \in [Shards -> Seq(RecycleEntry)]
    /\ recycled_count \in [Shards -> 0 .. BumpPeriod - 1]
    /\ dict \in [Keys -> Blocks \cup {NoBlock}]
    /\ allocated \in SUBSET Blocks
    /\ mem \in [Blocks -> Keys \cup {NoKey}]
    /\ leaked \in SUBSET Blocks
    /\ fatal \in BOOLEAN

NothingGot == [k \in Keys |-> NoBlock]

Init ==
    /\ EpochInit
    /\ pc = [t \in Threads |-> "idle"]
    /\ key = [t \in Threads |-> NoKey]
    /\ new_block = [t \in Threads |-> NoBlock]
    /\ todo = [t \in Threads |-> {}]
    /\ got = [t \in Threads |-> NothingGot]
    /\ early = [t \in Threads |-> {}]
    /\ completions = [t \in Threads |-> 0]
    /\ modify_lock_ = [s \in Shards |-> NoThread]
    /\ recycle_ptr_ = [s \in Shards |-> <<>>]
    /\ recycled_count = [s \in Shards |-> 0]
    /\ dict = [k \in Keys |-> NoBlock]
    /\ allocated = {}
    /\ mem = [b \in Blocks |-> NoKey]
    /\ leaked = {}
    /\ fatal = FALSE

Queued(b) ==
    \E s \in Shards : \E n \in DOMAIN recycle_ptr_[s] :
        recycle_ptr_[s][n].block = b

(* The block dict[k] points at was handed to Recycle by an Update that has *)
(* not yet published its new one.                                          *)
Retired(k) == \E t \in Threads : key[t] = k /\ pc[t] \in {"bump", "scan", "drain"}

At(t, label) == ~ fatal /\ pc[t] = label
Goto(t, label) == pc' = [pc EXCEPT ![t] = label]

---------------------------------------------------------------------------
(* GET.                                                                    *)

(* RpcPsGet enters: Protect loads the epoch before it finds its entry.     *)
GetStart(t, batch) ==
    /\ At(t, "idle")
    /\ t \in Readers \ Unprotected
    /\ completions[t] < MaxCompletions
    /\ ProtectLoad(t)
    /\ todo' = [todo EXCEPT ![t] = batch]
    /\ Goto(t, "enque")
    /\ UNCHANGED <<current_epoch_, safe_to_reclaim_epoch_, thread_id_,
                   thread_local_entry, epoch_list_, deque_busy, deque_broken,
                   oldest_call, scan_index, key, new_block, got, early,
                   completions, modify_lock_, recycle_ptr_, recycled_count,
                   dict, allocated, mem, leaked, fatal>>

(* KVEnginePetKV::Get, used by the load check and by the tests, reads with *)
(* no epoch at all.                                                        *)
GetUnprotected(t, batch) ==
    /\ At(t, "idle")
    /\ t \in Unprotected
    /\ todo' = [todo EXCEPT ![t] = batch]
    /\ Goto(t, "lookup")
    /\ UNCHANGED <<epochVars, key, new_block, got, early, completions,
                   modify_lock_, recycle_ptr_, recycled_count, dict,
                   allocated, mem, leaked, fatal>>

(* GetEntryForThread on a thread's first Protect.  When the table is used  *)
(* up ReserveEntry spins for two seconds and aborts the process.           *)
GetEntryForThread(t) ==
    /\ At(t, "enque")
    /\ thread_local_entry[t] = NoEntry
    /\ IF NoEntryLeft
       THEN fatal' = TRUE /\ UNCHANGED <<thread_id_, thread_local_entry>>
       ELSE ReserveEntry(t) /\ UNCHANGED fatal
    /\ UNCHANGED <<current_epoch_, safe_to_reclaim_epoch_, epoch_list_,
                   deque_busy, deque_broken, loaded_epoch, oldest_call,
                   scan_index, pc, key, new_block, todo, got, early,
                   completions, modify_lock_, recycle_ptr_, recycled_count,
                   dict, allocated, mem, leaked>>

PushBegin(t) ==
    /\ At(t, "enque")
    /\ thread_local_entry[t] # NoEntry
    /\ TouchDeque(t)
    /\ Goto(t, "push")
    /\ UNCHANGED <<current_epoch_, safe_to_reclaim_epoch_, thread_id_,
                   thread_local_entry, epoch_list_, deque_broken,
                   loaded_epoch, oldest_call, scan_index, key, new_block,
                   todo, got, early, completions, modify_lock_, recycle_ptr_,
                   recycled_count, dict, allocated, mem, leaked, fatal>>

PushEnd(t) ==
    /\ At(t, "push")
    /\ EnqueProtect(t)
    /\ Goto(t, "lookup")
    /\ UNCHANGED <<current_epoch_, safe_to_reclaim_epoch_, thread_id_,
                   thread_local_entry, deque_broken, loaded_epoch,
                   oldest_call, scan_index, key, new_block, todo, got, early,
                   completions, modify_lock_, recycle_ptr_, recycled_count,
                   dict, allocated, mem, leaked, fatal>>

(* BatchGet: one lock-free lookup per key.                                 *)
Lookup(t, k) ==
    /\ At(t, "lookup")
    /\ k \in todo[t]
    /\ todo' = [todo EXCEPT ![t] = @ \ {k}]
    /\ got' = [got EXCEPT ![t][k] = dict[k]]
    /\ early' = [early EXCEPT ![t] =
                   IF dict[k] # NoBlock /\ ~ Retired(k)
                   THEN @ \cup {k} ELSE @]
    /\ UNCHANGED <<epochVars, pc, key, new_block, completions, modify_lock_,
                   recycle_ptr_, recycled_count, dict, allocated, mem,
                   leaked, fatal>>

(* The values are copied to the registered send buffer; UnProtect begins.  *)
(* An unprotected reader returns.                                          *)
Copy(t) ==
    /\ At(t, "lookup")
    /\ todo[t] = {}
    /\ got' = [got EXCEPT ![t] = NothingGot]
    /\ early' = [early EXCEPT ![t] = {}]
    /\ IF t \in Unprotected
       THEN Goto(t, "idle") /\ UNCHANGED deque_busy
       ELSE Goto(t, "pop") /\ TouchDeque(t)
    /\ UNCHANGED <<current_epoch_, safe_to_reclaim_epoch_, thread_id_,
                   thread_local_entry, epoch_list_, deque_broken,
                   loaded_epoch, oldest_call, scan_index, key, new_block,
                   todo, completions, modify_lock_, recycle_ptr_,
                   recycled_count, dict, allocated, mem, leaked, fatal>>

(* UnProtect returns and the response is posted: with a scatter list its   *)
(* completion will come back with WR_ID_SG_GET.                            *)
UnProtect(t) ==
    /\ At(t, "pop")
    /\ DequeUnProtect(t)
    /\ Goto(t, "idle")
    /\ completions' = [completions EXCEPT ![t] = IF UseSglist THEN @ + 1 ELSE @]
    /\ UNCHANGED <<current_epoch_, safe_to_reclaim_epoch_, thread_id_,
                   thread_local_entry, loaded_epoch, oldest_call, scan_index,
                   key, new_block, todo, got, early, modify_lock_,
                   recycle_ptr_, recycled_count, dict, allocated, mem,
                   leaked, fatal>>

(* PollingThread: a WR_ID_SG_GET completion calls UnProtect once more.     *)
PollCompletion(t) ==
    /\ At(t, "idle")
    /\ completions[t] > 0
    /\ completions' = [completions EXCEPT ![t] = @ - 1]
    /\ TouchDeque(t)
    /\ Goto(t, "cpop")
    /\ UNCHANGED <<current_epoch_, safe_to_reclaim_epoch_, thread_id_,
                   thread_local_entry, epoch_list_, deque_broken,
                   loaded_epoch, oldest_call, scan_index, key, new_block,
                   todo, got, early, modify_lock_, recycle_ptr_,
                   recycled_count, dict, allocated, mem, leaked, fatal>>

CompletionUnProtect(t) ==
    /\ At(t, "cpop")
    /\ DequeUnProtect(t)
    /\ Goto(t, "idle")
    /\ UNCHANGED <<current_epoch_, safe_to_reclaim_epoch_, thread_id_,
                   thread_local_entry, loaded_epoch, oldest_call, scan_index,
                   key, new_block, todo, got, early, completions,
                   modify_lock_, recycle_ptr_, recycled_count, dict,
                   allocated, mem, leaked, fatal>>

---------------------------------------------------------------------------
(* PetKV::Update, inside modify_lock_ from UpdateStart to Insert/Publish.  *)

Old(t) == dict[key[t]]
Shard(t) == GetShard[key[t]]
FreeBlocks(s) == {b \in Blocks \ allocated : Pool[b] = s}
KeysOf(s) == {k \in Keys : GetShard[k] = s /\ dict[k] # NoBlock}

(* Lock, look the key up, take a block and copy the value into it.  An     *)
(* exhausted pool is LOG(FATAL).  The guard leaves room for one bump per   *)
(* writer below MaxEpoch.                                                  *)
UpdateStart(t, k) ==
    LET s == GetShard[k] IN
    /\ At(t, "idle")
    /\ t \in Writers
    /\ current_epoch_ + Cardinality(Writers) <= MaxEpoch
    /\ modify_lock_[s] = NoThread
    /\ modify_lock_' = [modify_lock_ EXCEPT ![s] = t]
    /\ IF FreeBlocks(s) = {}
       THEN /\ fatal' = TRUE
            /\ UNCHANGED <<pc, key, new_block, allocated, mem>>
       ELSE \E b \in FreeBlocks(s) :
            /\ key' = [key EXCEPT ![t] = k]
            /\ new_block' = [new_block EXCEPT ![t] = b]
            /\ allocated' = allocated \cup {b}
            /\ mem' = [mem EXCEPT ![b] = k]
            /\ Goto(t, IF dict[k] = NoBlock THEN "insert" ELSE "retire")
            /\ UNCHANGED fatal
    /\ UNCHANGED <<epochVars, todo, got, early, completions, recycle_ptr_,
                   recycled_count, dict, leaked>>

Unlock(t) ==
    /\ modify_lock_' = [modify_lock_ EXCEPT ![Shard(t)] = NoThread]
    /\ key' = [key EXCEPT ![t] = NoKey]
    /\ new_block' = [new_block EXCEPT ![t] = NoBlock]
    /\ Goto(t, "idle")

(* Insert with force_insert and no check_func: a full dictionary may drop  *)
(* another key of the shard.  Nobody frees the block of the dropped key.   *)
Insert(t) ==
    /\ At(t, "insert")
    /\ \/ /\ dict' = [dict EXCEPT ![key[t]] = new_block[t]]
          /\ UNCHANGED leaked
       \/ \E victim \in KeysOf(Shard(t)) :
          /\ Cardinality(KeysOf(Shard(t))) >= FullSize
          /\ dict' = [dict EXCEPT ![victim] = NoBlock,
                                  ![key[t]] = new_block[t]]
          /\ leaked' = leaked \cup {dict[victim]}
    /\ Unlock(t)
    /\ UNCHANGED <<epochVars, todo, got, early, completions, recycle_ptr_,
                   recycled_count, allocated, mem, fatal>>

(* Faulty variants of Recycle: the block is dropped, or queued in front.   *)
RetireForgets(t) ==
    /\ At(t, "retire")
    /\ Goto(t, "drain")
    /\ UNCHANGED <<epochVars, key, new_block, todo, got, early, completions,
                   modify_lock_, recycle_ptr_, recycled_count, dict,
                   allocated, mem, leaked, fatal>>

RetireInFront(t) ==
    LET s == Shard(t)
        count == (recycled_count[s] + 1) % BumpPeriod IN
    /\ At(t, "retire")
    /\ recycle_ptr_' = [recycle_ptr_ EXCEPT ![s] =
            <<[epoch |-> current_epoch_, block |-> Old(t)]>> \o @]
    /\ recycled_count' = [recycled_count EXCEPT ![s] = count]
    /\ Goto(t, IF count = 0 THEN "bump" ELSE "drain")
    /\ UNCHANGED <<epochVars, key, new_block, todo, got, early, completions,
                   modify_lock_, dict, allocated, mem, leaked, fatal>>

(* ShmEpochRecycle::Recycle(old): queue the block under the current epoch  *)
(* and, every BumpPeriod-th time, bump the epoch.                          *)
Retire(t) ==
    LET s == Shard(t)
        count == (recycled_count[s] + 1) % BumpPeriod IN
    /\ At(t, "retire")
    /\ recycle_ptr_' = [recycle_ptr_ EXCEPT ![s] =
            Append(@, [epoch |-> current_epoch_, block |-> Old(t)])]
    /\ recycled_count' = [recycled_count EXCEPT ![s] = count]
    /\ Goto(t, IF count = 0 THEN "bump" ELSE "drain")
    /\ UNCHANGED <<epochVars, key, new_block, todo, got, early, completions,
                   modify_lock_, dict, allocated, mem, leaked, fatal>>

Bump(t) ==
    /\ At(t, "bump")
    /\ BumpFetchAdd(t)
    /\ Goto(t, "scan")
    /\ UNCHANGED <<safe_to_reclaim_epoch_, thread_id_, thread_local_entry,
                   epoch_list_, deque_busy, deque_broken, loaded_epoch, key,
                   new_block, todo, got, early, completions, modify_lock_,
                   recycle_ptr_, recycled_count, dict, allocated, mem,
                   leaked, fatal>>

Scan(t) ==
    /\ At(t, "scan")
    /\ ScanEntry(t)
    /\ UNCHANGED <<current_epoch_, safe_to_reclaim_epoch_, thread_id_,
                   thread_local_entry, epoch_list_, deque_busy, deque_broken,
                   loaded_epoch, kvVars>>

StoreSafe(t) ==
    /\ At(t, "scan")
    /\ StoreSafeEpoch(t)
    /\ Goto(t, "drain")
    /\ UNCHANGED <<current_epoch_, thread_id_, thread_local_entry,
                   epoch_list_, deque_busy, deque_broken, loaded_epoch,
                   oldest_call, scan_index, key, new_block, todo, got, early,
                   completions, modify_lock_, recycle_ptr_, recycled_count,
                   dict, allocated, mem, leaked, fatal>>

HeadIsSafe(s) ==
    /\ recycle_ptr_[s] # <<>>
    /\ IsSafeToReclaim(Head(recycle_ptr_[s]).epoch)

(* A faulty variant: the pop after Free is missing.                        *)
FreeHeadNoPop(t) ==
    /\ At(t, "drain")
    /\ HeadIsSafe(Shard(t))
    /\ allocated' = allocated \ {Head(recycle_ptr_[Shard(t)]).block}
    /\ UNCHANGED <<epochVars, pc, key, new_block, todo, got, early,
                   completions, modify_lock_, recycle_ptr_, recycled_count,
                   dict, mem, leaked, fatal>>

(* One turn of Recycle's while loop: free the head of the queue.           *)
FreeHead(t) ==
    LET s == Shard(t) IN
    /\ At(t, "drain")
    /\ HeadIsSafe(s)
    /\ allocated' = allocated \ {Head(recycle_ptr_[s]).block}
    /\ recycle_ptr_' = [recycle_ptr_ EXCEPT ![s] = Tail(@)]
    /\ UNCHANGED <<epochVars, pc, key, new_block, todo, got, early,
                   completions, modify_lock_, recycled_count, dict, mem,
                   leaked, fatal>>

(* The loop ends, and only now the entry is pointed at the new block.  The *)
(* re-read that follows sees that store, the lock being held.              *)
Publish(t) ==
    /\ At(t, "drain")
    /\ ~ HeadIsSafe(Shard(t))
    /\ dict' = [dict EXCEPT ![key[t]] = new_block[t]]
    /\ Unlock(t)
    /\ UNCHANGED <<epochVars, todo, got, early, completions, recycle_ptr_,
                   recycled_count, allocated, mem, leaked, fatal>>

---------------------------------------------------------------------------
Step(t) ==
    \/ \E batch \in SUBSET Keys \ {{}} :
          GetStart(t, batch) \/ GetUnprotected(t, batch)
    \/ GetEntryForThread(t) \/ PushBegin(t) \/ PushEnd(t)
    \/ \E k \in Keys : Lookup(t, k)
    \/ Copy(t) \/ UnProtect(t) \/ PollCompletion(t) \/ CompletionUnProtect(t)
    \/ \E k \in Keys : UpdateStart(t, k)
    \/ Insert(t) \/ Retire(t) \/ Bump(t) \/ Scan(t) \/ StoreSafe(t)
    \/ FreeHead(t) \/ Publish(t)

Aborted == fatal /\ UNCHANGED vars

Next == (\E t \in Threads : Step(t)) \/ Aborted

Spec == Init /\ [][Next]_vars

---------------------------------------------------------------------------
(* Properties.                                                             *)

(* What the epochs are for: a block that a protected reader found before   *)
(* the block was retired is not freed until the reader has copied it       *)
(* (epoch_manager.h:67-80, malloc.h:90-105).                               *)
EarlyReadersSafe ==
    \A t \in Threads \ Unprotected : \A k \in early[t] :
        got[t][k] \in allocated

(* No block is freed twice or freed while unused: the free lists hold      *)
(* distinct allocated blocks (malloc.h:99-104, pet_kv.cc:133).             *)
NoDoubleFree ==
    \A s1, s2 \in Shards :
        \A m \in DOMAIN recycle_ptr_[s1] : \A n \in DOMAIN recycle_ptr_[s2] :
            /\ recycle_ptr_[s1][m].block \in allocated
            /\ recycle_ptr_[s1][m].block = recycle_ptr_[s2][n].block
                 => s1 = s2 /\ m = n

(* Nothing but a forced eviction loses a block: every allocated block is   *)
(* in the dictionary, on a free list, or held by an Update in progress     *)
(* (pet_kv.cc:113-142).                                                    *)
BlocksAccounted ==
    \A b \in allocated \ leaked :
        \/ \E k \in Keys : dict[k] = b
        \/ Queued(b)
        \/ \E t \in Threads : new_block[t] = b

(* A free list is ordered by epoch, so stopping at its first unsafe head   *)
(* strands no block that could be freed (malloc.h:99).                     *)
QueueOrdered ==
    \A s \in Shards : \A n \in 1 .. Len(recycle_ptr_[s]) - 1 :
        recycle_ptr_[s][n].epoch <= recycle_ptr_[s][n + 1].epoch

(* An entry that no Update is replacing leads to the value of its own key, *)
(* in a block that is allocated and on no free list, whatever the other    *)
(* shards' bumps make Recycle free and New hand out again                  *)
(* (pet_kv.cc:113-142, malloc.h:90-105).                                   *)
LiveEntriesSound ==
    \A k \in Keys : dict[k] # NoBlock /\ ~ Retired(k) =>
        /\ mem[dict[k]] = k
        /\ dict[k] \in allocated
        /\ ~ Queued(dict[k])

(* What petkv_multithread_test.cc checks: a reader that found a pointer    *)
(* for key k reads k's value behind it for as long as it uses it.          *)
ReadsOwnKey ==
    \A t \in Readers : \A k \in Keys :
        got[t][k] # NoBlock => mem[got[t][k]] = k
===========================================================================
