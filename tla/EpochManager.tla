--------------------------- MODULE EpochManager ---------------------------
(***************************************************************************)
(* The process-wide epoch manager of src/memory/epoch_manager.h.           *)
(*                                                                         *)
(* Readers announce the epoch they started in by pushing it on the deque   *)
(* of their own table entry (Protect) and pop it when they are done        *)
(* (UnProtect).  BumpCurrentEpoch advances the epoch, scans the table one  *)
(* entry at a time and publishes the largest epoch whose garbage may be    *)
(* freed.  Nothing but the two counters and thread_id_ is atomic: the scan *)
(* reads another thread's std::deque while its owner may be pushing or     *)
(* popping.  A read of a deque in that state, or of a deque that was       *)
(* popped while empty, is undefined; it may yield any epoch, or 0.         *)
(*                                                                         *)
(* Memory is sequentially consistent here.  The module has no behaviour of *)
(* its own: PetKV composes its actions with the threads that call them.    *)
(***************************************************************************)
EXTENDS Naturals, Sequences

CONSTANTS Threads,        \* threads that may call into the manager
          NoThread,       \* the value 0 of an unreserved entry's thread_id_
          MaxThreadNum,   \* entries of the table (64 in the code)
          StartIndex,     \* GetHash(pthread_self()) % max_thread_num_
          MaxEpoch        \* bound on current_epoch_ (2^64 in the code)

ASSUME EpochAssumption ==
    /\ MaxThreadNum \in Nat \ {0}
    /\ StartIndex \in [Threads -> 0 .. MaxThreadNum - 1]
    /\ MaxEpoch \in Nat \ {0}
    /\ NoThread \notin Threads

VARIABLES current_epoch_,          \* EpochManager::current_epoch_
          safe_to_reclaim_epoch_,  \* EpochManager::safe_to_reclaim_epoch_
          thread_id_,              \* entry -> the thread that reserved it
          thread_local_entry,      \* thread -> its entry, NoEntry before
          epoch_list_,             \* entry -> the deque of protected epochs
          deque_busy,              \* entry -> its owner is inside push or pop
          deque_broken,            \* entry -> it was popped while empty
          loaded_epoch,            \* thread -> argument of its EnqueProtect
          oldest_call,             \* thread -> local of the table scan
          scan_index               \* thread -> next entry of the table scan

epochVars == <<current_epoch_, safe_to_reclaim_epoch_, thread_id_,
               thread_local_entry, epoch_list_, deque_busy, deque_broken,
               loaded_epoch, oldest_call, scan_index>>

Entries == 0 .. MaxThreadNum - 1
NoEntry == MaxThreadNum
Epochs  == 0 .. MaxEpoch

EpochTypeOK ==
    /\ current_epoch_ \in Epochs \ {0}
    /\ safe_to_reclaim_epoch_ \in Epochs
    /\ thread_id_ \in [Entries -> Threads \cup {NoThread}]
    /\ thread_local_entry \in [Threads -> Entries \cup {NoEntry}]
    /\ epoch_list_ \in [Entries -> Seq(Epochs \ {0})]
    /\ deque_busy \in [Entries -> BOOLEAN]
    /\ deque_broken \in [Entries -> BOOLEAN]
    /\ loaded_epoch \in [Threads -> Epochs]
    /\ oldest_call \in [Threads -> Epochs]
    /\ scan_index \in [Threads -> 0 .. MaxThreadNum]

EpochInit ==
    /\ current_epoch_ = 1
    /\ safe_to_reclaim_epoch_ = 0
    /\ thread_id_ = [i \in Entries |-> NoThread]
    /\ thread_local_entry = [t \in Threads |-> NoEntry]
    /\ epoch_list_ = [i \in Entries |-> <<>>]
    /\ deque_busy = [i \in Entries |-> FALSE]
    /\ deque_broken = [i \in Entries |-> FALSE]
    /\ loaded_epoch = [t \in Threads |-> 0]
    /\ oldest_call = [t \in Threads |-> 0]
    /\ scan_index = [t \in Threads |-> 0]

---------------------------------------------------------------------------
(* The table.                                                              *)

Probe(t, i) == (StartIndex[t] + i) % MaxThreadNum

FreeEntry(i) == thread_id_[i] = NoThread

(* ReserveEntry: entries are never released, so the entry a thread's CAS   *)
(* wins is the first one free in its probe order at that moment.           *)
ReserveEntry(t) ==
    \E i \in Entries :
        /\ FreeEntry(Probe(t, i))
        /\ \A j \in 0 .. i - 1 : ~ FreeEntry(Probe(t, j))
        /\ thread_id_' = [thread_id_ EXCEPT ![Probe(t, i)] = t]
        /\ thread_local_entry' = [thread_local_entry EXCEPT ![t] = Probe(t, i)]

NoEntryLeft == \A i \in Entries : ~ FreeEntry(i)

(* Entry::MinEpoch on a deque at rest; 0 stands for "nothing protected".   *)
MinEpoch(list) ==
    IF list = <<>>
    THEN 0
    ELSE CHOOSE e \in {list[n] : n \in DOMAIN list} :
            \A n \in DOMAIN list : e <= list[n]

(* What a scan of entry i may read.                                        *)
Readable(i) ==
    IF deque_busy[i] \/ deque_broken[i]
    THEN Epochs
    ELSE {MinEpoch(epoch_list_[i])}

---------------------------------------------------------------------------
(* Protect and UnProtect.  A push and a pop take two steps each: between   *)
(* them the deque is being modified.                                       *)

ProtectLoad(t) ==
    loaded_epoch' = [loaded_epoch EXCEPT ![t] = current_epoch_]

TouchDeque(t) ==
    deque_busy' = [deque_busy EXCEPT ![thread_local_entry[t]] = TRUE]

EnqueProtect(t) ==
    LET i == thread_local_entry[t] IN
    /\ epoch_list_' = [epoch_list_ EXCEPT ![i] = Append(@, loaded_epoch[t])]
    /\ deque_busy' = [deque_busy EXCEPT ![i] = FALSE]

(* pop_front of an empty std::deque is undefined: from then on the deque   *)
(* means nothing.                                                          *)
DequeUnProtect(t) ==
    LET i == thread_local_entry[t] IN
    /\ deque_busy' = [deque_busy EXCEPT ![i] = FALSE]
    /\ IF epoch_list_[i] = <<>>
       THEN /\ deque_broken' = [deque_broken EXCEPT ![i] = TRUE]
            /\ UNCHANGED epoch_list_
       ELSE /\ epoch_list_' = [epoch_list_ EXCEPT ![i] = Tail(@)]
            /\ UNCHANGED deque_broken

---------------------------------------------------------------------------
(* BumpCurrentEpoch: fetch_add, one scan step per entry, the final store.  *)

BumpFetchAdd(t) ==
    /\ current_epoch_' = current_epoch_ + 1
    /\ oldest_call' = [oldest_call EXCEPT ![t] = current_epoch_]
    /\ scan_index' = [scan_index EXCEPT ![t] = 0]

(* Faulty variants: an idle entry counts as epoch 0; the oldest epoch in   *)
(* use is published as safe; a removal epoch one too new passes.           *)
ScanEntryNoZeroTest(t) ==
    /\ scan_index[t] < MaxThreadNum
    /\ \E entryEpoch \in Readable(scan_index[t]) :
          oldest_call' = [oldest_call EXCEPT ![t] =
                            IF entryEpoch < @ THEN entryEpoch ELSE @]
    /\ scan_index' = [scan_index EXCEPT ![t] = @ + 1]

StoreOldestEpoch(t) ==
    /\ scan_index[t] = MaxThreadNum
    /\ safe_to_reclaim_epoch_' = oldest_call[t]

ScanEntry(t) ==
    /\ scan_index[t] < MaxThreadNum
    /\ \E entryEpoch \in Readable(scan_index[t]) :
          oldest_call' = [oldest_call EXCEPT ![t] =
                            IF entryEpoch # 0 /\ entryEpoch < @
                            THEN entryEpoch ELSE @]
    /\ scan_index' = [scan_index EXCEPT ![t] = @ + 1]

StoreSafeEpoch(t) ==
    /\ scan_index[t] = MaxThreadNum
    /\ safe_to_reclaim_epoch_' = oldest_call[t] - 1

IsSafeToReclaim(epoch) == epoch <= safe_to_reclaim_epoch_
===========================================================================
