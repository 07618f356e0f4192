-------------------------- MODULE PetKVInvariant --------------------------
(***************************************************************************)
(* The inductive invariant of PetKV; the steps of a GET and of             *)
(* BumpCurrentEpoch, which move no block; the steps of Update, which do;   *)
(* and what protects a reader.  PetKVProofs puts them together.            *)
(***************************************************************************)
EXTENDS PetKV, TLAPS

(* The leaves are small; the limit is wide so that a busy machine does     *)
(* not matter.                                                             *)
USE SMTT(60)

Updating == {"insert", "retire", "bump", "scan", "drain"}

(* The writers that may still advance the epoch.                           *)
MayBump == {t \in Writers : pc[t] \in {"insert", "retire", "bump"}}

(* The bound on epochs leaves room for them.                               *)
BumpInv == current_epoch_ + Cardinality(MayBump) <= MaxEpoch

(* What a thread's entry of the epoch table and its scan have to do with   *)
(* the epochs.                                                             *)
TableInv(t) ==
    /\ thread_local_entry[t] # NoEntry => thread_id_[thread_local_entry[t]] = t
    /\ pc[t] = "scan" => 0 < oldest_call[t] /\ oldest_call[t] < current_epoch_
    /\ loaded_epoch[t] <= current_epoch_
    /\ t \notin Unprotected /\ pc[t] \in {"enque", "push", "lookup", "pop"} =>
          loaded_epoch[t] # 0 /\ completions[t] < MaxCompletions
    /\ t \notin Unprotected /\ pc[t] \in {"push", "lookup", "pop"} =>
          thread_local_entry[t] # NoEntry
    /\ pc[t] = "cpop" \/ completions[t] > 0 => thread_local_entry[t] # NoEntry
    /\ pc[t] \in {"enque", "push", "pop"} => t \notin Unprotected

EpochInv ==
    /\ safe_to_reclaim_epoch_ < current_epoch_
    /\ \A t \in Threads : TableInv(t)

(* An Update works on its key under the lock of the key's shard.           *)
UpdateInv(t) ==
    /\ pc[t] \in Updating =>
          /\ key[t] \in Keys /\ modify_lock_[Shard(t)] = t
          /\ new_block[t] \in Blocks /\ t \in Writers
    /\ pc[t] \notin Updating => key[t] = NoKey /\ new_block[t] = NoBlock
    /\ pc[t] = "retire" => Old(t) # NoBlock
    /\ pc[t] = "insert" => Old(t) = NoBlock

LockInv == \A t \in Threads : UpdateInv(t)

LiveKeys == {k \in Keys : dict[k] # NoBlock /\ ~ Retired(k)}
QueuedBlocks == {b \in Blocks : Queued(b)}

(* A block is in one place only: under one live key, on one free list, in  *)
(* the hands of one Update, or leaked.                                     *)
PlaceInv ==
    /\ NoDoubleFree
    /\ leaked \subseteq allocated
    /\ leaked \cap QueuedBlocks = {}
    /\ \A k \in LiveKeys : dict[k] \in allocated \ (leaked \cup QueuedBlocks)
    /\ \A k, l \in LiveKeys : dict[k] = dict[l] => k = l
    /\ \A t \in Threads : new_block[t] # NoBlock =>
          /\ new_block[t] \in allocated \ (leaked \cup QueuedBlocks)
          /\ \A k \in LiveKeys : dict[k] # new_block[t]
          /\ \A u \in Threads : new_block[u] = new_block[t] => u = t

(* The invariant, but for the count of BumpInv.                            *)
CoreInv == TypeOK /\ EpochInv /\ LockInv /\ PlaceInv

KVInv == CoreInv /\ BumpInv

(* A step that takes nothing of the room BumpInv keeps.                    *)
NoBump == MayBump' \subseteq MayBump /\ UNCHANGED current_epoch_

---------------------------------------------------------------------------
(* Facts about a state.                                                    *)

(* The epochs and counters are natural numbers.                            *)
LEMMA EpochsNat ==
    ASSUME TypeOK
    PROVE  /\ current_epoch_ \in Nat \ {0} /\ safe_to_reclaim_epoch_ \in Nat
           /\ \A t \in Threads : /\ loaded_epoch[t] \in Nat /\ oldest_call[t] \in Nat
                                 /\ scan_index[t] \in Nat
           /\ \A t \in Threads : completions[t] \in Nat
           /\ MaxCompletions \in Nat \ {0}
  BY EpochAssumption, PetKVAssumption DEF TypeOK, EpochTypeOK, Epochs

(* The types of what the threads work with.                                *)
LEMMA ThreadTypes ==
    ASSUME TypeOK
    PROVE  /\ pc \in [Threads -> PC]
           /\ key \in [Threads -> Keys \cup {NoKey}]
           /\ new_block \in [Threads -> Blocks \cup {NoBlock}]
           /\ dict \in [Keys -> Blocks \cup {NoBlock}]
           /\ modify_lock_ \in [Shards -> Threads \cup {NoThread}]
           /\ recycle_ptr_ \in [Shards -> Seq(RecycleEntry)]
  BY Zenon DEF TypeOK

(* modify_lock_ lets one Update into a shard at a time.                    *)
LEMMA OneUpdatePerShard ==
    ASSUME LockInv, NEW t \in Threads, NEW u \in Threads,
           pc[t] \in Updating, pc[u] \in Updating, Shard(t) = Shard(u)
    PROVE  t = u
  BY Zenon DEF LockInv, UpdateInv

(* The probe sequence of ReserveEntry stays in the table.                  *)
LEMMA ProbeInTable ==
    ASSUME NEW t \in Threads, NEW i \in Entries
    PROVE  Probe(t, i) \in Entries
  BY EpochAssumption DEF Probe, Entries

(* The scan reads an entry of the table.                                   *)
LEMMA ScanInTable ==
    ASSUME TypeOK, NEW t \in Threads, scan_index[t] < MaxThreadNum
    PROVE  scan_index[t] \in Entries
<1>1. scan_index[t] \in 0 .. MaxThreadNum
  BY Zenon DEF TypeOK, EpochTypeOK
<1> QED
  BY <1>1, EpochAssumption DEF Entries

---------------------------------------------------------------------------
(* The free lists.                                                         *)

(* What Append does to a free list.                                        *)
LEMMA QueueAppend ==
    ASSUME NEW q \in Seq(RecycleEntry), NEW e \in RecycleEntry
    PROVE  /\ Append(q, e) \in Seq(RecycleEntry)
           /\ DOMAIN q = 1 .. Len(q) /\ Len(q) \in Nat
           /\ DOMAIN Append(q, e) = 1 .. Len(q) + 1
           /\ \A n \in 1 .. Len(q) : Append(q, e)[n] = q[n]
           /\ Append(q, e)[Len(q) + 1] = e
  OBVIOUS

(* What popping does to a free list.                                       *)
LEMMA QueueTail ==
    ASSUME NEW q \in Seq(RecycleEntry), q # <<>>
    PROVE  /\ Tail(q) \in Seq(RecycleEntry)
           /\ DOMAIN q = 1 .. Len(q) /\ Len(q) \in Nat \ {0}
           /\ DOMAIN Tail(q) = 1 .. Len(q) - 1
           /\ \A n \in 1 .. Len(q) - 1 : Tail(q)[n] = q[n + 1]
           /\ Head(q) = q[1] /\ Head(q) \in RecycleEntry
  OBVIOUS

(* A queued block is not free.                                             *)
LEMMA QueuedIsAllocated ==
    ASSUME PlaceInv
    PROVE  QueuedBlocks \subseteq allocated
  BY DEF PlaceInv, NoDoubleFree, QueuedBlocks, Queued

(* A free list holds blocks and epochs.                                    *)
LEMMA QueueBlockType ==
    ASSUME TypeOK, NEW s \in Shards, NEW n \in DOMAIN recycle_ptr_[s]
    PROVE  recycle_ptr_[s][n].block \in Blocks /\ recycle_ptr_[s][n].epoch \in Epochs
<1>1. recycle_ptr_[s] \in Seq(RecycleEntry)
  BY ThreadTypes, Zenon
<1>2. recycle_ptr_[s][n] \in RecycleEntry
  BY <1>1
<1> QED
  BY <1>2, Zenon DEF RecycleEntry

(* The free list of shard s grows by e.                                    *)
Pushed(s, e) == recycle_ptr_' = [recycle_ptr_ EXCEPT ![s] = Append(@, e)]

(* A free list after Retire, seen from any position in any list.           *)
LEMMA QueueAppended ==
    ASSUME TypeOK, NEW s \in Shards, NEW e \in RecycleEntry,
           Pushed(s, e), NEW x \in Shards, NEW n \in DOMAIN recycle_ptr_'[x]
    PROVE  IF x = s /\ n = Len(recycle_ptr_[s]) + 1
           THEN recycle_ptr_'[x][n] = e
           ELSE n \in DOMAIN recycle_ptr_[x] /\ recycle_ptr_'[x][n] = recycle_ptr_[x][n]
<1>1. recycle_ptr_ \in [Shards -> Seq(RecycleEntry)] /\ recycle_ptr_[s] \in Seq(RecycleEntry)
  BY ThreadTypes, Zenon
<1>2. recycle_ptr_'[x] = IF x = s THEN Append(recycle_ptr_[s], e) ELSE recycle_ptr_[x]
  BY <1>1, Zenon DEF Pushed
<1>3. CASE x = s
  BY <1>1, <1>2, <1>3, QueueAppend
<1>4. CASE x # s
  BY <1>2, <1>4, Zenon
<1> QED
  BY <1>3, <1>4, Zenon

(* The free list of shard s loses its head.                                *)
Popped(s) == recycle_ptr_[s] # <<>> /\ recycle_ptr_' = [recycle_ptr_ EXCEPT ![s] = Tail(@)]

(* A free list after FreeHead, seen from any position in any list.         *)
LEMMA QueuePopped ==
    ASSUME TypeOK, NEW s \in Shards, Popped(s),
           NEW x \in Shards, NEW n \in DOMAIN recycle_ptr_'[x]
    PROVE  /\ n \in Nat \ {0}
           /\ IF x = s
              THEN n + 1 \in DOMAIN recycle_ptr_[x] /\ recycle_ptr_'[x][n] = recycle_ptr_[x][n + 1]
              ELSE n \in DOMAIN recycle_ptr_[x] /\ recycle_ptr_'[x][n] = recycle_ptr_[x][n]
<1>1. recycle_ptr_[s] \in Seq(RecycleEntry) /\ recycle_ptr_[s] # <<>> /\ recycle_ptr_[x] \in Seq(RecycleEntry)
  BY ThreadTypes, Zenon DEF Popped
<1>2. recycle_ptr_'[x] = IF x = s THEN Tail(recycle_ptr_[s]) ELSE recycle_ptr_[x]
  BY ThreadTypes, Zenon DEF Popped
<1>3. CASE x = s
  <2>1. n \in 1 .. Len(recycle_ptr_[s]) - 1 /\ Len(recycle_ptr_[s]) \in Nat
    BY <1>1, <1>2, <1>3, QueueTail, Zenon
  <2>2. n + 1 \in DOMAIN recycle_ptr_[s] /\ n \in Nat \ {0}
    BY <1>1, <2>1, QueueTail
  <2>3. recycle_ptr_'[x][n] = recycle_ptr_[s][n + 1]
    <3> DEFINE q == recycle_ptr_[s]
    <3>1. q \in Seq(RecycleEntry) /\ q # <<>> /\ n \in 1 .. Len(q) - 1
      BY <1>1, <2>1, Zenon
    <3>2. recycle_ptr_'[x] = Tail(q)
      BY <1>2, <1>3, Zenon
    <3> HIDE DEF q
    <3>3. Tail(q)[n] = q[n + 1]
      BY <3>1, QueueTail, Zenon
    <3> QED
      BY <3>2, <3>3, Zenon DEF q
  <2> QED
    BY <1>3, <2>2, <2>3, Zenon
<1>4. CASE x # s
  BY <1>1, <1>2, <1>4
<1> QED
  BY <1>3, <1>4, Zenon

---------------------------------------------------------------------------
(* What a step keeps by leaving the right things alone.                    *)

(* A step that moves no block keeps the places of the blocks.              *)
LEMMA PlaceFrame ==
    ASSUME PlaceInv, UNCHANGED <<dict, allocated, leaked, recycle_ptr_, new_block>>,
           \A l \in Keys : Retired(l)' <=> Retired(l)
    PROVE  PlaceInv'
<1>1. LiveKeys' = LiveKeys
  BY Zenon DEF LiveKeys
<1>2. QueuedBlocks' = QueuedBlocks
  BY Zenon DEF QueuedBlocks, Queued
<1>3. NoDoubleFree'
  BY DEF PlaceInv, NoDoubleFree
<1> QED
  BY <1>1, <1>2, <1>3, Zenon DEF PlaceInv

(* A thread whose own part of the table is left alone.                     *)
LEMMA TableFrame ==
    ASSUME TypeOK, NEW u \in Threads, TableInv(u),
           pc'[u] = pc[u], thread_local_entry'[u] = thread_local_entry[u],
           loaded_epoch'[u] = loaded_epoch[u], oldest_call'[u] = oldest_call[u],
           completions'[u] = completions[u],
           thread_local_entry[u] # NoEntry =>
               thread_id_'[thread_local_entry[u]] = thread_id_[thread_local_entry[u]],
           current_epoch_' \in {current_epoch_, current_epoch_ + 1}
    PROVE  TableInv(u)'
  BY EpochsNat DEF TableInv

(* A thread whose own Update is left alone.                                *)
LEMMA UpdateFrame ==
    ASSUME NEW u \in Threads, UpdateInv(u),
           pc'[u] = pc[u], key'[u] = key[u], new_block'[u] = new_block[u],
           pc[u] \in Updating => /\ modify_lock_'[Shard(u)] = modify_lock_[Shard(u)]
                                 /\ dict'[key[u]] = dict[key[u]]
    PROVE  UpdateInv(u)'
  BY Zenon DEF UpdateInv, Shard, Old, Updating

(* Thread t goes to label l.                                               *)
LEMMA PcMoves ==
    ASSUME TypeOK, NEW t \in Threads, NEW l \in PC, pc' = [pc EXCEPT ![t] = l]
    PROVE  /\ pc' \in [Threads -> PC] /\ pc'[t] = l
           /\ \A u \in Threads : u # t => pc'[u] = pc[u]
  BY Zenon DEF TypeOK

(* A step of a GET: it touches neither the blocks nor the epochs, and its  *)
(* thread is not inside an Update.                                         *)
ReadStep(t) ==
    /\ UNCHANGED <<current_epoch_, safe_to_reclaim_epoch_, oldest_call, key, new_block,
                   modify_lock_, recycle_ptr_, dict, allocated, leaked>>
    /\ pc[t] \notin Updating
    /\ \E l \in PC \ Updating : pc' = [pc EXCEPT ![t] = l]

(* A step of a GET keeps what is said of Updates and of blocks.            *)
LEMMA ReadFrame ==
    ASSUME CoreInv, NEW t \in Threads, ReadStep(t)
    PROVE  LockInv' /\ PlaceInv' /\ NoBump
<1>1. PICK l \in PC \ Updating : pc' = [pc EXCEPT ![t] = l]
  BY Zenon DEF ReadStep
<1>2. pc'[t] = l /\ \A u \in Threads : u # t => pc'[u] = pc[u]
  BY <1>1, PcMoves, Zenon DEF CoreInv
<1>3. \A u \in Threads : IF pc[u] \in Updating THEN pc'[u] = pc[u] ELSE pc'[u] \notin Updating
  BY <1>2, Zenon DEF ReadStep
<1>4. LockInv'
  <2> SUFFICES ASSUME NEW u \in Threads PROVE UpdateInv(u)'
    BY Zenon DEF LockInv
  <2>1. UpdateInv(u) /\ UNCHANGED <<key, new_block, modify_lock_, dict>>
    BY Zenon DEF CoreInv, LockInv, ReadStep
  <2> QED
    BY <1>3, <2>1, Zenon DEF UpdateInv, Shard, Old, Updating
<1>5. \A k \in Keys : Retired(k)' <=> Retired(k)
  BY <1>3, Zenon DEF Retired, ReadStep, Updating
<1>6. PlaceInv'
  BY <1>5, PlaceFrame, Zenon DEF CoreInv, ReadStep
<1>7. NoBump
  BY <1>3, PetKVAssumption, Zenon DEF NoBump, MayBump, ReadStep, Updating
<1> QED
  BY <1>4, <1>6, <1>7, Zenon

(* A step of an Update leaves the epochs and the table alone.              *)
UpdateStep(t) ==
    /\ UNCHANGED <<epochVars, completions>>
    /\ pc[t] # "cpop"
    /\ \E l \in {"idle", "insert", "retire", "bump", "drain"} : pc' = [pc EXCEPT ![t] = l]

LEMMA EpochFrame ==
    ASSUME TypeOK, EpochInv, NEW t \in Threads, UpdateStep(t)
    PROVE  EpochInv'
<1>1. UNCHANGED <<current_epoch_, safe_to_reclaim_epoch_, thread_id_, thread_local_entry,
                  loaded_epoch, oldest_call, completions>>
  BY Zenon DEF UpdateStep, epochVars
<1>2. PICK l \in {"idle", "insert", "retire", "bump", "drain"} : pc' = [pc EXCEPT ![t] = l]
  BY Zenon DEF UpdateStep
<1>3. pc'[t] = l /\ \A u \in Threads : u # t => pc'[u] = pc[u]
  BY <1>2, PcMoves, Zenon DEF PC
<1>4. ASSUME NEW u \in Threads PROVE TableInv(u)'
  <2>1. CASE u = t
    BY <1>1, <1>3, <2>1, Zenon DEF EpochInv, TableInv
  <2>2. CASE u # t
    BY <1>1, <1>3, <2>2, TableFrame, Zenon DEF EpochInv
  <2> QED
    BY <2>1, <2>2, Zenon
<1> QED
  BY <1>1, <1>4, Zenon DEF EpochInv

---------------------------------------------------------------------------
(* The steps of a GET.                                                     *)

(* A GET starts: Protect loads the epoch.                                  *)
LEMMA GetStartKeeps ==
    ASSUME CoreInv, NEW t \in Threads, NEW batch \in SUBSET Keys, GetStart(t, batch)
    PROVE  CoreInv' /\ NoBump
<1>1. ReadStep(t)
  BY Zenon DEF ReadStep, Updating, PC, GetStart, At, Goto
<1>2. pc'[t] = "enque" /\ pc' \in [Threads -> PC] /\ \A u \in Threads : u # t => pc'[u] = pc[u]
  BY PcMoves, Zenon DEF CoreInv, GetStart, Goto, PC
<1>3. /\ loaded_epoch' \in [Threads -> Epochs] /\ loaded_epoch'[t] = current_epoch_
      /\ \A u \in Threads : u # t => loaded_epoch'[u] = loaded_epoch[u]
  BY Zenon DEF CoreInv, TypeOK, EpochTypeOK, GetStart, ProtectLoad
<1>4. TypeOK'
  <2>1. todo' \in [Threads -> SUBSET Keys]
    BY Zenon DEF CoreInv, TypeOK, GetStart
  <2> QED
    BY <1>2, <1>3, <2>1, Zenon DEF CoreInv, TypeOK, EpochTypeOK, GetStart
<1>5. ASSUME NEW u \in Threads PROVE TableInv(u)'
  <2>1. UNCHANGED <<current_epoch_, thread_id_, thread_local_entry, oldest_call, completions>>
    BY Zenon DEF GetStart
  <2>2. CASE u = t
    <3>1. t \notin Unprotected /\ completions[t] < MaxCompletions
      BY Zenon DEF GetStart
    <3> QED
      BY <1>2, <1>3, <2>1, <2>2, <3>1, EpochsNat DEF CoreInv, EpochInv, TableInv
  <2>3. CASE u # t
    BY <1>2, <1>3, <2>1, <2>3, TableFrame, Zenon DEF CoreInv, EpochInv
  <2> QED
    BY <2>2, <2>3, Zenon
<1> QED
  BY <1>1, <1>4, <1>5, ReadFrame, Zenon DEF CoreInv, EpochInv, ReadStep

(* An unprotected Get starts.                                              *)
LEMMA GetUnprotectedKeeps ==
    ASSUME CoreInv, NEW t \in Threads, NEW batch \in SUBSET Keys, GetUnprotected(t, batch)
    PROVE  CoreInv' /\ NoBump
<1>1. ReadStep(t)
  BY Zenon DEF ReadStep, Updating, PC, GetUnprotected, At, Goto, epochVars
<1>2. pc'[t] = "lookup" /\ pc' \in [Threads -> PC] /\ \A u \in Threads : u # t => pc'[u] = pc[u]
  BY PcMoves, Zenon DEF CoreInv, GetUnprotected, Goto, PC
<1>3. TypeOK'
  <2>1. todo' \in [Threads -> SUBSET Keys]
    BY Zenon DEF CoreInv, TypeOK, GetUnprotected
  <2> QED
    BY <1>2, <2>1, Zenon DEF CoreInv, TypeOK, EpochTypeOK, GetUnprotected, epochVars
<1>4. ASSUME NEW u \in Threads PROVE TableInv(u)'
  <2>1. UNCHANGED <<current_epoch_, thread_id_, thread_local_entry, loaded_epoch,
                    oldest_call, completions>>
    BY Zenon DEF GetUnprotected, epochVars
  <2>2. CASE u = t
    <3>1. t \in Unprotected
      BY Zenon DEF GetUnprotected
    <3> QED
      BY <1>2, <2>1, <2>2, <3>1, Zenon DEF CoreInv, EpochInv, TableInv
  <2>3. CASE u # t
    BY <1>2, <2>1, <2>3, TableFrame, Zenon DEF CoreInv, EpochInv
  <2> QED
    BY <2>2, <2>3, Zenon
<1> QED
  BY <1>1, <1>3, <1>4, ReadFrame, Zenon DEF CoreInv, EpochInv, ReadStep

(* A first Protect reserves an entry, which nobody else has.               *)
LEMMA GetEntryForThreadKeeps ==
    ASSUME CoreInv, NEW t \in Threads, GetEntryForThread(t)
    PROVE  CoreInv' /\ NoBump
<1>1. pc[t] = "enque" /\ UNCHANGED pc
  BY Zenon DEF GetEntryForThread, At
<1>2. ReadStep(t)
  <2>1. "enque" \in PC \ Updating /\ pc' = [pc EXCEPT ![t] = "enque"]
    BY <1>1, Zenon DEF CoreInv, TypeOK, PC, Updating
  <2> QED
    BY <1>1, <2>1, Zenon DEF ReadStep, GetEntryForThread
<1>3. \/ UNCHANGED <<thread_id_, thread_local_entry>>
      \/ \E i \in Entries :
            /\ thread_id_[i] = NoThread
            /\ thread_id_' = [thread_id_ EXCEPT ![i] = t]
            /\ thread_local_entry' = [thread_local_entry EXCEPT ![t] = i]
  <2>1. CASE NoEntryLeft
    BY <2>1, Zenon DEF GetEntryForThread
  <2>2. CASE ~ NoEntryLeft
    BY <2>2, ProbeInTable, Zenon DEF GetEntryForThread, ReserveEntry, FreeEntry
  <2> QED
    BY <2>1, <2>2, Zenon
<1>4. TypeOK'
  <2>1. /\ thread_id_' \in [Entries -> Threads \cup {NoThread}]
        /\ thread_local_entry' \in [Threads -> Entries \cup {NoEntry}]
    <3>1. /\ thread_id_ \in [Entries -> Threads \cup {NoThread}]
          /\ thread_local_entry \in [Threads -> Entries \cup {NoEntry}]
      BY Zenon DEF CoreInv, TypeOK, EpochTypeOK
    <3>2. CASE UNCHANGED <<thread_id_, thread_local_entry>>
      BY <3>1, <3>2, Zenon
    <3>3. ASSUME NEW i \in Entries,
                 thread_id_' = [thread_id_ EXCEPT ![i] = t],
                 thread_local_entry' = [thread_local_entry EXCEPT ![t] = i]
          PROVE  /\ thread_id_' \in [Entries -> Threads \cup {NoThread}]
                 /\ thread_local_entry' \in [Threads -> Entries \cup {NoEntry}]
      BY <3>1, <3>3, Zenon
    <3> QED
      BY <1>3, <3>2, <3>3, Zenon
  <2>2. fatal' \in BOOLEAN
    BY Zenon DEF CoreInv, TypeOK, GetEntryForThread
  <2> QED
    BY <2>1, <2>2, Zenon DEF CoreInv, TypeOK, EpochTypeOK, GetEntryForThread
<1>5. ASSUME NEW u \in Threads PROVE TableInv(u)'
  <2>1. UNCHANGED <<pc, current_epoch_, loaded_epoch, oldest_call, completions>>
    BY Zenon DEF GetEntryForThread
  <2>2. TableInv(u) /\ TypeOK
    BY Zenon DEF CoreInv, EpochInv
  <2>3. CASE UNCHANGED <<thread_id_, thread_local_entry>>
    BY <2>1, <2>2, <2>3, TableFrame, Zenon
  <2>4. ASSUME NEW i \in Entries, thread_id_[i] = NoThread,
               thread_id_' = [thread_id_ EXCEPT ![i] = t],
               thread_local_entry' = [thread_local_entry EXCEPT ![t] = i]
        PROVE  TableInv(u)'
    <3>1. /\ thread_id_ \in [Entries -> Threads \cup {NoThread}]
          /\ thread_local_entry \in [Threads -> Entries \cup {NoEntry}]
      BY <2>2, Zenon DEF TypeOK, EpochTypeOK
    <3>2. CASE u = t
      <4>1. thread_id_'[thread_local_entry'[u]] = u /\ thread_local_entry'[u] = i /\ i # NoEntry
        BY <2>4, <3>1, <3>2, EpochAssumption DEF Entries, NoEntry
      <4> QED
        BY <2>1, <2>2, <4>1, Zenon DEF TableInv
    <3>3. CASE u # t
      <4>1. thread_local_entry[u] # NoEntry => thread_local_entry[u] # i
        BY <2>2, <2>4, EpochAssumption, Zenon DEF TableInv
      <4>2. /\ thread_local_entry'[u] = thread_local_entry[u]
            /\ thread_local_entry[u] # NoEntry =>
                  thread_id_'[thread_local_entry[u]] = thread_id_[thread_local_entry[u]]
        BY <2>4, <3>1, <3>3, <4>1, Zenon
      <4> QED
        BY <2>1, <2>2, <4>2, TableFrame, Zenon
    <3> QED
      BY <3>2, <3>3, Zenon
  <2> QED
    BY <1>3, <2>3, <2>4, Zenon
<1> QED
  BY <1>2, <1>4, <1>5, ReadFrame, Zenon DEF CoreInv, EpochInv, ReadStep

(* EnqueProtect starts to push.                                            *)
LEMMA PushBeginKeeps ==
    ASSUME CoreInv, NEW t \in Threads, PushBegin(t)
    PROVE  CoreInv' /\ NoBump
<1>1. ReadStep(t)
  BY Zenon DEF ReadStep, Updating, PC, PushBegin, At, Goto
<1>2. /\ pc'[t] = "push" /\ pc' \in [Threads -> PC]
      /\ \A u \in Threads : u # t => pc'[u] = pc[u]
  BY PcMoves, Zenon DEF CoreInv, PushBegin, Goto, PC
<1>3. TypeOK'
  <2>1. deque_busy' \in [Entries -> BOOLEAN]
    BY Zenon DEF CoreInv, TypeOK, EpochTypeOK, PushBegin, TouchDeque
  <2> QED
    BY <1>2, <2>1, Zenon DEF CoreInv, TypeOK, EpochTypeOK, PushBegin
<1>4. ASSUME NEW u \in Threads PROVE TableInv(u)'
  <2>1. UNCHANGED <<current_epoch_, thread_id_, thread_local_entry, loaded_epoch,
                    oldest_call, completions>>
    BY Zenon DEF PushBegin
  <2>2. CASE u = t
    <3>1. pc[t] = "enque" /\ thread_local_entry[t] # NoEntry
      BY Zenon DEF PushBegin, At
    <3> QED
      BY <1>2, <2>1, <2>2, <3>1, Zenon DEF CoreInv, EpochInv, TableInv
  <2>3. CASE u # t
    BY <1>2, <2>1, <2>3, TableFrame, Zenon DEF CoreInv, EpochInv
  <2> QED
    BY <2>2, <2>3, Zenon
<1> QED
  BY <1>1, <1>3, <1>4, ReadFrame, Zenon DEF CoreInv, EpochInv, ReadStep

(* EnqueProtect has pushed.                                                *)
LEMMA PushEndKeeps ==
    ASSUME CoreInv, NEW t \in Threads, PushEnd(t)
    PROVE  CoreInv' /\ NoBump
<1>1. ReadStep(t)
  BY Zenon DEF ReadStep, Updating, PC, PushEnd, At, Goto
<1>2. /\ pc'[t] = "lookup" /\ pc' \in [Threads -> PC]
      /\ \A u \in Threads : u # t => pc'[u] = pc[u]
  BY PcMoves, Zenon DEF CoreInv, PushEnd, Goto, PC
<1>3. TableInv(t) /\ pc[t] = "push"
  BY Zenon DEF CoreInv, EpochInv, PushEnd, At
<1>4. TypeOK'
  <2>1. epoch_list_' \in [Entries -> Seq(Epochs \ {0})]
    <3>1. loaded_epoch[t] \in Epochs \ {0}
      BY <1>3, Zenon DEF CoreInv, TypeOK, EpochTypeOK, TableInv
    <3>2. \A q \in Seq(Epochs \ {0}) : Append(q, loaded_epoch[t]) \in Seq(Epochs \ {0})
      BY <3>1
    <3>3. epoch_list_ \in [Entries -> Seq(Epochs \ {0})]
      BY Zenon DEF CoreInv, TypeOK, EpochTypeOK
    <3> QED
      BY <3>2, <3>3, Zenon DEF PushEnd, EnqueProtect
  <2>2. deque_busy' \in [Entries -> BOOLEAN]
    BY Zenon DEF CoreInv, TypeOK, EpochTypeOK, PushEnd, EnqueProtect
  <2> QED
    BY <1>2, <2>1, <2>2, Zenon DEF CoreInv, TypeOK, EpochTypeOK, PushEnd
<1>5. ASSUME NEW u \in Threads PROVE TableInv(u)'
  <2>1. UNCHANGED <<current_epoch_, thread_id_, thread_local_entry, loaded_epoch,
                    oldest_call, completions>>
    BY Zenon DEF PushEnd
  <2>2. CASE u = t
    BY <1>2, <1>3, <2>1, <2>2, Zenon DEF TableInv
  <2>3. CASE u # t
    BY <1>2, <2>1, <2>3, TableFrame, Zenon DEF CoreInv, EpochInv
  <2> QED
    BY <2>2, <2>3, Zenon
<1> QED
  BY <1>1, <1>4, <1>5, ReadFrame, Zenon DEF CoreInv, EpochInv, ReadStep

(* BatchGet looks one key up.                                              *)
LEMMA LookupKeeps ==
    ASSUME CoreInv, NEW t \in Threads, NEW k \in Keys, Lookup(t, k)
    PROVE  CoreInv' /\ NoBump
<1>1. pc[t] = "lookup" /\ UNCHANGED pc
  BY Zenon DEF Lookup, At
<1>2. ReadStep(t)
  <2>1. "lookup" \in PC \ Updating /\ pc' = [pc EXCEPT ![t] = "lookup"]
    BY <1>1, Zenon DEF CoreInv, TypeOK, PC, Updating
  <2> QED
    BY <1>1, <2>1, Zenon DEF ReadStep, Lookup, epochVars
<1>3. TypeOK'
  <2>1. got' \in [Threads -> [Keys -> Blocks \cup {NoBlock}]]
    BY Zenon DEF CoreInv, TypeOK, Lookup
  <2>2. early' \in [Threads -> SUBSET Keys] /\ todo' \in [Threads -> SUBSET Keys]
    BY ZenonT(40) DEF CoreInv, TypeOK, Lookup
  <2> QED
    BY <2>1, <2>2, Zenon DEF CoreInv, TypeOK, EpochTypeOK, Lookup, epochVars
<1>4. ASSUME NEW u \in Threads PROVE TableInv(u)'
  BY TableFrame, Zenon DEF CoreInv, EpochInv, Lookup, epochVars
<1> QED
  BY <1>2, <1>3, <1>4, ReadFrame, Zenon DEF CoreInv, EpochInv, ReadStep

(* The values are copied and UnProtect starts.                             *)
LEMMA CopyKeeps ==
    ASSUME CoreInv, NEW t \in Threads, Copy(t)
    PROVE  CoreInv' /\ NoBump
<1> DEFINE l == IF t \in Unprotected THEN "idle" ELSE "pop"
<1>1. pc[t] = "lookup" /\ pc' = [pc EXCEPT ![t] = l] /\ l \in PC \ Updating
  BY Zenon DEF Copy, At, Goto, PC, Updating
<1>2. ReadStep(t)
  <2> HIDE DEF l
  <2>1. pc[t] \notin Updating
    BY <1>1, Zenon DEF Updating
  <2> QED
    BY <1>1, <2>1, Zenon DEF ReadStep, Copy
<1>3. /\ pc'[t] = l /\ pc' \in [Threads -> PC]
      /\ \A u \in Threads : u # t => pc'[u] = pc[u]
  <2> HIDE DEF l
  <2> QED
    BY <1>1, PcMoves, Zenon DEF CoreInv
<1>4. TypeOK'
  <2>1. got' \in [Threads -> [Keys -> Blocks \cup {NoBlock}]]
    BY Zenon DEF CoreInv, TypeOK, Copy, NothingGot
  <2>2. early' \in [Threads -> SUBSET Keys]
    BY Zenon DEF CoreInv, TypeOK, Copy
  <2>3. deque_busy' \in [Entries -> BOOLEAN]
    BY Zenon DEF CoreInv, TypeOK, EpochTypeOK, Copy, TouchDeque
  <2> QED
    BY <1>3, <2>1, <2>2, <2>3, Zenon DEF CoreInv, TypeOK, EpochTypeOK, Copy
<1>5. ASSUME NEW u \in Threads PROVE TableInv(u)'
  <2>1. UNCHANGED <<current_epoch_, thread_id_, thread_local_entry, loaded_epoch,
                    oldest_call, completions>>
    BY Zenon DEF Copy
  <2>2. CASE u = t
    BY <1>1, <1>3, <2>1, <2>2, Zenon DEF CoreInv, EpochInv, TableInv
  <2>3. CASE u # t
    BY <1>3, <2>1, <2>3, TableFrame, Zenon DEF CoreInv, EpochInv
  <2> QED
    BY <2>2, <2>3, Zenon
<1> QED
  BY <1>2, <1>4, <1>5, ReadFrame, Zenon DEF CoreInv, EpochInv, ReadStep

(* pop_front leaves a deque of epochs.                                     *)
LEMMA DequeTypes ==
    ASSUME TypeOK, NEW t \in Threads, thread_local_entry[t] # NoEntry, DequeUnProtect(t)
    PROVE  /\ epoch_list_' \in [Entries -> Seq(Epochs \ {0})]
           /\ deque_busy' \in [Entries -> BOOLEAN]
           /\ deque_broken' \in [Entries -> BOOLEAN]
<1> DEFINE i == thread_local_entry[t]
<1>1. i \in Entries /\ epoch_list_ \in [Entries -> Seq(Epochs \ {0})]
  BY Zenon DEF TypeOK, EpochTypeOK
<1>2. deque_busy' \in [Entries -> BOOLEAN] /\ deque_broken' \in [Entries -> BOOLEAN]
  <2>1. deque_busy' \in [Entries -> BOOLEAN]
    BY Zenon DEF TypeOK, EpochTypeOK, DequeUnProtect
  <2>2. deque_broken' \in [Entries -> BOOLEAN]
    BY Zenon DEF TypeOK, EpochTypeOK, DequeUnProtect
  <2> QED
    BY <2>1, <2>2, Zenon
<1>3. CASE epoch_list_[i] = <<>>
  BY <1>1, <1>2, <1>3, Zenon DEF DequeUnProtect
<1>4. CASE epoch_list_[i] # <<>>
  <2>1. epoch_list_' = [epoch_list_ EXCEPT ![i] = Tail(epoch_list_[i])]
    BY <1>4, Zenon DEF DequeUnProtect
  <2>2. Tail(epoch_list_[i]) \in Seq(Epochs \ {0})
    BY <1>1, <1>4
  <2> QED
    BY <1>1, <1>2, <2>1, <2>2, Zenon
<1> QED
  BY <1>3, <1>4, Zenon

(* UnProtect has popped the epoch.                                         *)
LEMMA UnProtectKeeps ==
    ASSUME CoreInv, NEW t \in Threads, UnProtect(t)
    PROVE  CoreInv' /\ NoBump
<1>1. ReadStep(t)
  BY Zenon DEF ReadStep, Updating, PC, UnProtect, At, Goto
<1>2. /\ pc'[t] = "idle" /\ pc' \in [Threads -> PC]
      /\ \A u \in Threads : u # t => pc'[u] = pc[u]
  BY PcMoves, Zenon DEF CoreInv, UnProtect, Goto, PC
<1>3. pc[t] = "pop" /\ DequeUnProtect(t) /\ TypeOK /\ TableInv(t)
  BY Zenon DEF CoreInv, EpochInv, UnProtect, At
<1>4. thread_local_entry[t] # NoEntry
  BY <1>3, Zenon DEF TableInv
<1>5. t \notin Unprotected /\ completions[t] < MaxCompletions
  BY <1>3, Zenon DEF TableInv
<1>6. /\ completions' \in [Threads -> 0 .. MaxCompletions]
      /\ \A u \in Threads : u # t => completions'[u] = completions[u]
  BY <1>3, <1>5, PetKVAssumption DEF TypeOK, UnProtect
<1>7. TypeOK'
  BY <1>2, <1>3, <1>4, <1>6, DequeTypes, Zenon DEF TypeOK, EpochTypeOK, UnProtect
<1>8. ASSUME NEW u \in Threads PROVE TableInv(u)'
  <2>1. UNCHANGED <<current_epoch_, thread_id_, thread_local_entry, loaded_epoch, oldest_call>>
    BY Zenon DEF UnProtect
  <2>2. CASE u = t
    BY <1>2, <1>3, <1>4, <2>1, <2>2, Zenon DEF TableInv
  <2>3. CASE u # t
    BY <1>2, <1>6, <2>1, <2>3, TableFrame, Zenon DEF CoreInv, EpochInv
  <2> QED
    BY <2>2, <2>3, Zenon
<1> QED
  BY <1>1, <1>7, <1>8, ReadFrame, Zenon DEF CoreInv, EpochInv, ReadStep

(* A completion of a scatter list send makes UnProtect start again.        *)
LEMMA PollCompletionKeeps ==
    ASSUME CoreInv, NEW t \in Threads, PollCompletion(t)
    PROVE  CoreInv' /\ NoBump
<1>1. ReadStep(t)
  BY Zenon DEF ReadStep, Updating, PC, PollCompletion, At, Goto
<1>2. /\ pc'[t] = "cpop" /\ pc' \in [Threads -> PC]
      /\ \A u \in Threads : u # t => pc'[u] = pc[u]
  BY PcMoves, Zenon DEF CoreInv, PollCompletion, Goto, PC
<1>3. completions[t] > 0 /\ TableInv(t) /\ TypeOK
  BY Zenon DEF CoreInv, EpochInv, PollCompletion
<1>4. /\ completions' \in [Threads -> 0 .. MaxCompletions]
      /\ \A u \in Threads : u # t => completions'[u] = completions[u]
  BY <1>3, PetKVAssumption DEF TypeOK, PollCompletion
<1>5. TypeOK'
  <2>1. deque_busy' \in [Entries -> BOOLEAN]
    BY <1>3, Zenon DEF TypeOK, EpochTypeOK, PollCompletion, TouchDeque
  <2> QED
    BY <1>2, <1>3, <1>4, <2>1, Zenon DEF TypeOK, EpochTypeOK, PollCompletion
<1>6. ASSUME NEW u \in Threads PROVE TableInv(u)'
  <2>1. UNCHANGED <<current_epoch_, thread_id_, thread_local_entry, loaded_epoch, oldest_call>>
    BY Zenon DEF PollCompletion
  <2>2. CASE u = t
    BY <1>2, <1>3, <2>1, <2>2, Zenon DEF TableInv
  <2>3. CASE u # t
    BY <1>2, <1>4, <2>1, <2>3, TableFrame, Zenon DEF CoreInv, EpochInv
  <2> QED
    BY <2>2, <2>3, Zenon
<1> QED
  BY <1>1, <1>5, <1>6, ReadFrame, Zenon DEF CoreInv, EpochInv, ReadStep

(* The second UnProtect has popped.                                        *)
LEMMA CompletionUnProtectKeeps ==
    ASSUME CoreInv, NEW t \in Threads, CompletionUnProtect(t)
    PROVE  CoreInv' /\ NoBump
<1>1. ReadStep(t)
  BY Zenon DEF ReadStep, Updating, PC, CompletionUnProtect, At, Goto
<1>2. /\ pc'[t] = "idle" /\ pc' \in [Threads -> PC]
      /\ \A u \in Threads : u # t => pc'[u] = pc[u]
  BY PcMoves, Zenon DEF CoreInv, CompletionUnProtect, Goto, PC
<1>3. pc[t] = "cpop" /\ DequeUnProtect(t) /\ TypeOK /\ TableInv(t)
  BY Zenon DEF CoreInv, EpochInv, CompletionUnProtect, At
<1>4. thread_local_entry[t] # NoEntry
  BY <1>3, Zenon DEF TableInv
<1>5. TypeOK'
  BY <1>2, <1>3, <1>4, DequeTypes, Zenon DEF TypeOK, EpochTypeOK, CompletionUnProtect
<1>6. ASSUME NEW u \in Threads PROVE TableInv(u)'
  <2>1. UNCHANGED <<current_epoch_, thread_id_, thread_local_entry, loaded_epoch,
                    oldest_call, completions>>
    BY Zenon DEF CompletionUnProtect
  <2>2. CASE u = t
    BY <1>2, <1>3, <1>4, <2>1, <2>2, Zenon DEF TableInv
  <2>3. CASE u # t
    BY <1>2, <2>1, <2>3, TableFrame, Zenon DEF CoreInv, EpochInv
  <2> QED
    BY <2>2, <2>3, Zenon
<1> QED
  BY <1>1, <1>5, <1>6, ReadFrame, Zenon DEF CoreInv, EpochInv, ReadStep

---------------------------------------------------------------------------
(* The steps of BumpCurrentEpoch, which an Update takes after Retire.      *)

(* An Update that has retired its old block goes on without touching one.  *)
BumpStep(t) ==
    /\ UNCHANGED <<thread_id_, thread_local_entry, loaded_epoch, completions, key,
                   new_block, modify_lock_, recycle_ptr_, dict, allocated, leaked>>
    /\ pc[t] \in {"bump", "scan", "drain"}
    /\ \E l \in {"bump", "scan", "drain"} : pc' = [pc EXCEPT ![t] = l]

(* Such a step keeps what is said of Updates and of blocks.                *)
LEMMA StayFrame ==
    ASSUME CoreInv, NEW t \in Threads, BumpStep(t)
    PROVE  /\ LockInv' /\ PlaceInv'
           /\ pc' \in [Threads -> PC]
           /\ \A u \in Threads : u # t => pc'[u] = pc[u]
<1>1. PICK l \in {"bump", "scan", "drain"} : pc' = [pc EXCEPT ![t] = l]
  BY Zenon DEF BumpStep
<1>2. /\ pc'[t] = l /\ pc' \in [Threads -> PC]
      /\ \A u \in Threads : u # t => pc'[u] = pc[u]
  BY <1>1, PcMoves, Zenon DEF CoreInv, PC
<1>3. LockInv'
  <2> SUFFICES ASSUME NEW u \in Threads PROVE UpdateInv(u)'
    BY Zenon DEF LockInv
  <2>1. UpdateInv(u) /\ UNCHANGED <<key, new_block, modify_lock_, dict>>
    BY Zenon DEF CoreInv, LockInv, BumpStep
  <2>2. CASE u = t
    BY <1>2, <2>1, <2>2, Zenon DEF UpdateInv, Shard, Old, Updating, BumpStep
  <2>3. CASE u # t
    BY <1>2, <2>1, <2>3, UpdateFrame, Zenon
  <2> QED
    BY <2>2, <2>3, Zenon
<1>4. \A k \in Keys : Retired(k)' <=> Retired(k)
  BY <1>2, Zenon DEF Retired, BumpStep
<1>5. PlaceInv'
  BY <1>4, PlaceFrame, Zenon DEF CoreInv, BumpStep
<1> QED
  BY <1>2, <1>3, <1>5, Zenon

(* The fetch_add.  The room that BumpInv keeps is used up by one.          *)
LEMMA BumpKeeps ==
    ASSUME CoreInv, NEW t \in Threads, Bump(t), current_epoch_ < MaxEpoch
    PROVE  /\ CoreInv'
           /\ t \in MayBump /\ MayBump' = MayBump \ {t}
           /\ current_epoch_' = current_epoch_ + 1
<1>1. BumpStep(t)
  BY Zenon DEF BumpStep, Bump, At, Goto
<1>2. TypeOK /\ EpochInv /\ LockInv
  BY Zenon DEF CoreInv
<1>3. pc' = [pc EXCEPT ![t] = "scan"] /\ pc[t] = "bump" /\ pc'[t] = "scan"
  BY <1>2, PcMoves, Zenon DEF Bump, At, Goto, PC
<1>4. /\ current_epoch_' = current_epoch_ + 1 /\ current_epoch_' \in Epochs \ {0}
      /\ oldest_call' \in [Threads -> Epochs] /\ oldest_call'[t] = current_epoch_
      /\ \A u \in Threads : u # t => oldest_call'[u] = oldest_call[u]
  BY <1>2, EpochAssumption DEF TypeOK, EpochTypeOK, Epochs, Bump, BumpFetchAdd
<1>5. scan_index' \in [Threads -> 0 .. MaxThreadNum]
  BY <1>2, EpochAssumption DEF TypeOK, EpochTypeOK, Bump, BumpFetchAdd
<1>6. TypeOK'
  BY <1>1, <1>2, <1>4, <1>5, StayFrame, Zenon DEF TypeOK, EpochTypeOK, Bump
<1>7. safe_to_reclaim_epoch_' < current_epoch_'
  BY <1>2, <1>4, EpochsNat DEF EpochInv, Bump
<1>8. ASSUME NEW u \in Threads PROVE TableInv(u)'
  <2>1. UNCHANGED <<thread_id_, thread_local_entry, loaded_epoch, completions>>
    BY Zenon DEF Bump
  <2>2. CASE u = t
    BY <1>2, <1>3, <1>4, <2>1, <2>2, EpochsNat DEF EpochInv, TableInv
  <2>3. CASE u # t
    BY <1>1, <1>2, <1>4, <2>1, <2>3, StayFrame, TableFrame, Zenon DEF EpochInv
  <2> QED
    BY <2>2, <2>3, Zenon
<1>9. t \in MayBump /\ MayBump' = MayBump \ {t}
  <2>1. t \in Writers /\ pc \in [Threads -> PC]
    BY <1>2, <1>3, Zenon DEF LockInv, UpdateInv, Updating, TypeOK
  <2> QED
    BY <1>3, <2>1, PetKVAssumption, Zenon DEF MayBump
<1> QED
  BY <1>1, <1>4, <1>6, <1>7, <1>8, <1>9, StayFrame, Zenon DEF CoreInv, EpochInv

(* The scan of the table reads one entry.                                  *)
LEMMA ScanKeeps ==
    ASSUME CoreInv, NEW t \in Threads, Scan(t), Readable(scan_index[t]) \subseteq Epochs
    PROVE  CoreInv' /\ NoBump
<1>1. TypeOK /\ EpochInv /\ pc[t] = "scan" /\ UNCHANGED pc
  BY Zenon DEF CoreInv, Scan, At, kvVars
<1>2. BumpStep(t)
  <2>1. pc' = [pc EXCEPT ![t] = "scan"]
    BY <1>1, Zenon DEF TypeOK
  <2> QED
    BY <1>1, <2>1, Zenon DEF BumpStep, Scan, kvVars
<1>3. PICK e \in Readable(scan_index[t]) :
          oldest_call' = [oldest_call EXCEPT ![t] = IF e # 0 /\ e < @ THEN e ELSE @]
  BY Zenon DEF Scan, ScanEntry
<1>4. TableInv(t) /\ e \in Epochs /\ e \in Nat
  BY <1>1, <1>3 DEF EpochInv, Epochs
<1>5. /\ oldest_call' \in [Threads -> Epochs]
      /\ \A u \in Threads : u # t => oldest_call'[u] = oldest_call[u]
  BY <1>1, <1>3, <1>4, Zenon DEF TypeOK, EpochTypeOK
<1>6. 0 < oldest_call'[t] /\ oldest_call'[t] < current_epoch_
  <2>1. \/ oldest_call'[t] = e /\ e # 0 /\ e < oldest_call[t]
        \/ oldest_call'[t] = oldest_call[t]
    BY <1>1, <1>3, Zenon DEF TypeOK, EpochTypeOK
  <2> QED
    BY <1>1, <1>4, <2>1, EpochsNat DEF TableInv
<1>7. TypeOK'
  <2>1. scan_index' \in [Threads -> 0 .. MaxThreadNum]
    BY <1>1, EpochAssumption DEF TypeOK, EpochTypeOK, Scan, ScanEntry
  <2> QED
    BY <1>1, <1>5, <2>1, Zenon DEF TypeOK, EpochTypeOK, Scan, kvVars
<1>8. ASSUME NEW u \in Threads PROVE TableInv(u)'
  <2>1. UNCHANGED <<pc, current_epoch_, thread_id_, thread_local_entry, loaded_epoch, completions>>
    BY Zenon DEF Scan, kvVars
  <2>2. CASE u = t
    BY <1>1, <1>4, <1>6, <2>1, <2>2, Zenon DEF TableInv
  <2>3. CASE u # t
    BY <1>1, <1>5, <2>1, <2>3, TableFrame, Zenon DEF EpochInv
  <2> QED
    BY <2>2, <2>3, Zenon
<1>9. NoBump
  BY Zenon DEF NoBump, MayBump, Scan, kvVars
<1> QED
  BY <1>1, <1>2, <1>7, <1>8, <1>9, StayFrame, Zenon DEF CoreInv, EpochInv, Scan

(* The scan publishes the safe epoch.                                      *)
LEMMA StoreSafeKeeps ==
    ASSUME CoreInv, NEW t \in Threads, StoreSafe(t)
    PROVE  CoreInv' /\ NoBump
<1>1. BumpStep(t)
  BY Zenon DEF BumpStep, StoreSafe, At, Goto
<1>2. TypeOK /\ TableInv(t) /\ pc[t] = "scan" /\ pc' = [pc EXCEPT ![t] = "drain"]
  BY Zenon DEF CoreInv, EpochInv, StoreSafe, At, Goto
<1>3. /\ pc'[t] = "drain" /\ pc' \in [Threads -> PC]
      /\ \A u \in Threads : u # t => pc'[u] = pc[u]
  BY <1>2, PcMoves, Zenon DEF PC
<1>4. safe_to_reclaim_epoch_' \in Epochs /\ safe_to_reclaim_epoch_' < current_epoch_
  <2>1. 0 < oldest_call[t] /\ oldest_call[t] < current_epoch_ /\ oldest_call[t] \in Epochs
    BY <1>2, Zenon DEF TableInv, TypeOK, EpochTypeOK
  <2>2. safe_to_reclaim_epoch_' = oldest_call[t] - 1
    BY Zenon DEF StoreSafe, StoreSafeEpoch
  <2> QED
    BY <1>2, <2>1, <2>2, EpochsNat, EpochAssumption DEF Epochs
<1>5. TypeOK'
  BY <1>2, <1>3, <1>4, Zenon DEF TypeOK, EpochTypeOK, StoreSafe
<1>6. ASSUME NEW u \in Threads PROVE TableInv(u)'
  <2>1. UNCHANGED <<current_epoch_, thread_id_, thread_local_entry, loaded_epoch,
                    oldest_call, completions>>
    BY Zenon DEF StoreSafe
  <2>2. CASE u = t
    BY <1>2, <1>3, <2>1, <2>2, Zenon DEF TableInv
  <2>3. CASE u # t
    BY <1>2, <1>3, <2>1, <2>3, TableFrame, Zenon DEF CoreInv, EpochInv
  <2> QED
    BY <2>2, <2>3, Zenon
<1>7. NoBump
  BY <1>2, <1>3, PetKVAssumption, Zenon DEF NoBump, MayBump, StoreSafe
<1> QED
  BY <1>1, <1>4, <1>5, <1>6, <1>7, StayFrame, Zenon DEF CoreInv, EpochInv, StoreSafe

---------------------------------------------------------------------------
(* The steps of PetKV::Update that move blocks.                            *)

(* Update locks its shard and gets a block, or finds its pool exhausted.   *)
LEMMA UpdateStartKeeps ==
    ASSUME CoreInv, NEW t \in Threads, NEW k \in Keys, UpdateStart(t, k)
    PROVE  /\ CoreInv'
           /\ current_epoch_ + Cardinality(Writers) <= MaxEpoch /\ UNCHANGED current_epoch_
<1> DEFINE s == GetShard[k]
           l == IF dict[k] = NoBlock THEN "insert" ELSE "retire"
<1>1. TypeOK /\ EpochInv /\ LockInv /\ PlaceInv
  BY Zenon DEF CoreInv
<1>2. /\ pc[t] = "idle" /\ modify_lock_[s] = NoThread
      /\ modify_lock_' = [modify_lock_ EXCEPT ![s] = t]
      /\ UNCHANGED <<dict, leaked, recycle_ptr_>> /\ UNCHANGED <<epochVars, completions>>
  BY Zenon DEF UpdateStart, At
<1>3. s \in Shards /\ t \in Writers
  BY PetKVAssumption, Zenon DEF UpdateStart
<1>4. modify_lock_' \in [Shards -> Threads \cup {NoThread}] /\ fatal' \in BOOLEAN
  <2>1. modify_lock_' \in [Shards -> Threads \cup {NoThread}]
    BY <1>1, <1>2, ThreadTypes, Zenon
  <2>2. fatal' \in BOOLEAN
    BY <1>1, Zenon DEF TypeOK, UpdateStart
  <2> QED
    BY <2>1, <2>2, Zenon
<1>5. ASSUME NEW u \in Threads, u # t,
             pc'[u] = pc[u], key'[u] = key[u], new_block'[u] = new_block[u]
      PROVE  UpdateInv(u)'
  <2>1. UpdateInv(u) /\ u # NoThread
    BY <1>1, EpochAssumption, Zenon DEF LockInv
  <2>2. pc[u] \in Updating => modify_lock_'[Shard(u)] = modify_lock_[Shard(u)]
    <3>1. pc[u] \in Updating => Shard(u) # s /\ Shard(u) \in Shards
      BY <1>2, <2>1, PetKVAssumption, Zenon DEF UpdateInv, Shard
    <3> HIDE DEF s
    <3> QED
      BY <1>1, <1>2, <3>1, ThreadTypes, Zenon
  <2> QED
    BY <1>2, <1>5, <2>1, <2>2, UpdateFrame, Zenon
<1>6. CASE FreeBlocks(s) = {}
  <2>1. UNCHANGED <<pc, key, new_block, allocated, mem>>
    BY <1>6, Zenon DEF UpdateStart
  <2>2. UpdateStep(t)
    <3>1. pc' = [pc EXCEPT ![t] = "idle"]
      BY <1>1, <1>2, <2>1, ThreadTypes, Zenon
    <3> QED
      BY <1>2, <3>1, Zenon DEF UpdateStep
  <2>3. TypeOK'
    BY <1>1, <1>4, <2>1, Zenon DEF TypeOK, EpochTypeOK, UpdateStart, epochVars
  <2>4. UpdateInv(t)'
    BY <1>1, <1>2, <2>1, Zenon DEF LockInv, UpdateInv, Updating
  <2>5. LockInv'
    BY <1>5, <2>1, <2>4, Zenon DEF LockInv
  <2>6. \A m \in Keys : Retired(m)' <=> Retired(m)
    BY <2>1, Zenon DEF Retired
  <2>7. PlaceInv'
    BY <1>1, <1>2, <2>1, <2>6, PlaceFrame, Zenon
  <2> QED
    BY <1>1, <1>2, <2>2, <2>3, <2>5, <2>7, EpochFrame, Zenon DEF CoreInv, UpdateStart, epochVars
<1>7. CASE FreeBlocks(s) # {}
  <2>1. PICK b \in FreeBlocks(s) :
            /\ key' = [key EXCEPT ![t] = k]
            /\ new_block' = [new_block EXCEPT ![t] = b]
            /\ allocated' = allocated \cup {b}
            /\ mem' = [mem EXCEPT ![b] = k]
            /\ pc' = [pc EXCEPT ![t] = l]
    BY <1>7, Zenon DEF UpdateStart, Goto
  <2>2. b \in Blocks \ allocated /\ b # NoBlock
    BY PetKVAssumption, Zenon DEF FreeBlocks
  <2>3. /\ pc'[t] = l /\ pc' \in [Threads -> PC] /\ key'[t] = k /\ new_block'[t] = b
        /\ \A u \in Threads : u # t => /\ pc'[u] = pc[u] /\ key'[u] = key[u]
                                       /\ new_block'[u] = new_block[u]
    BY <1>1, <2>1, ThreadTypes, Zenon DEF PC
  <2>4. UpdateStep(t)
    BY <1>2, <2>1, Zenon DEF UpdateStep
  <2>5. TypeOK'
    <3>1. /\ key' \in [Threads -> Keys \cup {NoKey}]
          /\ new_block' \in [Threads -> Blocks \cup {NoBlock}]
          /\ allocated' \in SUBSET Blocks
          /\ mem' \in [Blocks -> Keys \cup {NoKey}]
      BY <1>1, <2>1, <2>2, Zenon DEF TypeOK
    <3> QED
      BY <1>1, <1>4, <2>3, <3>1, Zenon DEF TypeOK, EpochTypeOK, UpdateStart, epochVars
  <2>6. UpdateInv(t)'
    <3>1. Shard(t)' = s /\ Old(t)' = dict[k] /\ modify_lock_'[s] = t
      BY <1>1, <1>2, <1>3, <2>3, ThreadTypes, Zenon DEF Shard, Old
    <3> QED
      BY <1>3, <2>2, <2>3, <3>1, Zenon DEF UpdateInv, Updating
  <2>7. LockInv'
    BY <1>5, <2>3, <2>6, Zenon DEF LockInv
  <2>8. PlaceInv'
    <3>1. b \notin QueuedBlocks /\ b \notin leaked
      BY <1>1, <2>2, QueuedIsAllocated, Zenon DEF PlaceInv
    <3>2. \A m \in Keys : Retired(m)' <=> Retired(m)
      BY <1>2, <2>3, Zenon DEF Retired
    <3>3. LiveKeys' = LiveKeys
      BY <1>2, <3>2, Zenon DEF LiveKeys
    <3>4. QueuedBlocks' = QueuedBlocks
      BY <1>2, Zenon DEF QueuedBlocks, Queued
    <3>5. NoDoubleFree'
      BY <1>1, <1>2, <2>1 DEF PlaceInv, NoDoubleFree
    <3>6. ASSUME NEW u \in Threads, new_block'[u] # NoBlock
          PROVE  /\ new_block'[u] \in allocated' \ (leaked' \cup QueuedBlocks')
                 /\ \A m \in LiveKeys' : dict'[m] # new_block'[u]
                 /\ \A v \in Threads : new_block'[v] = new_block'[u] => v = u
      <4>1. \A v \in Threads \ {t} : new_block[v] # NoBlock => new_block[v] \in allocated
        BY <1>1, Zenon DEF PlaceInv
      <4>2. CASE u = t
        BY <1>1, <1>2, <2>1, <2>2, <2>3, <3>1, <3>3, <3>4, <4>1, <4>2 DEF PlaceInv
      <4>3. CASE u # t
        BY <1>1, <1>2, <2>1, <2>2, <2>3, <3>3, <3>4, <3>6, <4>1, <4>3 DEF PlaceInv
      <4> QED
        BY <4>2, <4>3, Zenon
    <3> QED
      BY <1>1, <1>2, <2>1, <3>3, <3>4, <3>5, <3>6, ZenonT(40) DEF PlaceInv
  <2> QED
    BY <1>1, <1>2, <2>4, <2>5, <2>7, <2>8, EpochFrame, Zenon DEF CoreInv, UpdateStart, epochVars
<1> QED
  BY <1>6, <1>7, Zenon

(* An Update leaves: it drops its lock and its block.  Only its key and    *)
(* other keys of its shard may have changed in the dictionary.             *)
LEMMA UnlockFrame ==
    ASSUME CoreInv, NEW t \in Threads, pc[t] \in Updating, Unlock(t),
           \A m \in Keys : GetShard[m] # Shard(t) => dict'[m] = dict[m],
           UNCHANGED current_epoch_
    PROVE  /\ LockInv' /\ NoBump
           /\ pc' \in [Threads -> PC]
           /\ key' \in [Threads -> Keys \cup {NoKey}]
           /\ new_block' \in [Threads -> Blocks \cup {NoBlock}]
           /\ modify_lock_' \in [Shards -> Threads \cup {NoThread}]
           /\ pc'[t] = "idle" /\ key'[t] = NoKey /\ new_block'[t] = NoBlock
           /\ \A u \in Threads : u # t => /\ pc'[u] = pc[u] /\ key'[u] = key[u]
                                          /\ new_block'[u] = new_block[u]
<1>1. TypeOK /\ LockInv /\ UpdateInv(t)
  BY Zenon DEF CoreInv, LockInv
<1>2. /\ pc' = [pc EXCEPT ![t] = "idle"] /\ key' = [key EXCEPT ![t] = NoKey]
      /\ new_block' = [new_block EXCEPT ![t] = NoBlock]
      /\ modify_lock_' = [modify_lock_ EXCEPT ![Shard(t)] = NoThread]
  BY Zenon DEF Unlock, Goto
<1>3. /\ pc' \in [Threads -> PC]
      /\ key' \in [Threads -> Keys \cup {NoKey}]
      /\ new_block' \in [Threads -> Blocks \cup {NoBlock}]
      /\ pc'[t] = "idle" /\ key'[t] = NoKey /\ new_block'[t] = NoBlock
      /\ \A u \in Threads : u # t => /\ pc'[u] = pc[u] /\ key'[u] = key[u]
                                     /\ new_block'[u] = new_block[u]
  BY <1>1, <1>2, ThreadTypes, Zenon DEF PC
<1>4. modify_lock_' \in [Shards -> Threads \cup {NoThread}]
  BY <1>1, <1>2, ThreadTypes, Zenon
<1>5. ASSUME NEW u \in Threads PROVE UpdateInv(u)'
  <2>1. CASE u = t
    BY <1>3, <2>1, Zenon DEF UpdateInv, Updating
  <2>2. CASE u # t
    <3>1. pc[u] \in Updating => Shard(u) # Shard(t) /\ Shard(u) \in Shards /\ key[u] \in Keys
      BY <1>1, <2>2, OneUpdatePerShard, PetKVAssumption, Zenon DEF LockInv, UpdateInv, Shard
    <3>2. pc[u] \in Updating => /\ modify_lock_'[Shard(u)] = modify_lock_[Shard(u)]
                                /\ dict'[key[u]] = dict[key[u]]
      <4>1. pc[u] \in Updating => modify_lock_'[Shard(u)] = modify_lock_[Shard(u)]
        BY <1>1, <1>2, <3>1, ThreadTypes, Zenon
      <4>2. pc[u] \in Updating => dict'[key[u]] = dict[key[u]]
        BY <3>1, Zenon DEF Shard
      <4> QED
        BY <4>1, <4>2, Zenon
    <3> QED
      BY <1>1, <1>3, <2>2, <3>2, UpdateFrame, Zenon DEF LockInv
  <2> QED
    BY <2>1, <2>2, Zenon
<1>6. NoBump
  BY <1>3, PetKVAssumption, Zenon DEF NoBump, MayBump
<1> QED
  BY <1>3, <1>4, <1>5, <1>6, Zenon DEF LockInv

(* Update points its key at the new block.                                 *)
LEMMA PublishKeeps ==
    ASSUME CoreInv, NEW t \in Threads, Publish(t)
    PROVE  CoreInv' /\ NoBump
<1> DEFINE K == key[t]
           N == new_block[t]
<1>1. TypeOK /\ EpochInv /\ PlaceInv /\ UpdateInv(t)
  BY Zenon DEF CoreInv, LockInv
<1>2. /\ pc[t] = "drain" /\ Unlock(t) /\ dict' = [dict EXCEPT ![K] = N]
      /\ UNCHANGED <<recycle_ptr_, allocated, leaked>> /\ UNCHANGED <<epochVars, completions>>
  BY Zenon DEF Publish, At
<1>3. pc[t] \in Updating /\ K \in Keys /\ N \in Blocks /\ N # NoBlock
  BY <1>1, <1>2, PetKVAssumption, Zenon DEF UpdateInv, Updating
<1>4. /\ \A m \in Keys : GetShard[m] # Shard(t) => dict'[m] = dict[m]
      /\ dict' \in [Keys -> Blocks \cup {NoBlock}]
      /\ \A m \in Keys : dict'[m] = IF m = K THEN N ELSE dict[m]
  BY <1>1, <1>2, <1>3, ThreadTypes, Zenon DEF Shard
<1>5. /\ LockInv' /\ NoBump
      /\ pc' \in [Threads -> PC]
      /\ key' \in [Threads -> Keys \cup {NoKey}]
      /\ new_block' \in [Threads -> Blocks \cup {NoBlock}]
      /\ modify_lock_' \in [Shards -> Threads \cup {NoThread}]
      /\ pc'[t] = "idle" /\ key'[t] = NoKey /\ new_block'[t] = NoBlock
      /\ \A u \in Threads : u # t => /\ pc'[u] = pc[u] /\ key'[u] = key[u]
                                     /\ new_block'[u] = new_block[u]
  <2>1. UNCHANGED current_epoch_
    BY <1>2, Zenon DEF epochVars
  <2> QED
    BY <1>2, <1>3, <1>4, <2>1, UnlockFrame, Zenon
<1>6. TypeOK'
  BY <1>1, <1>4, <1>5, Zenon DEF TypeOK, EpochTypeOK, Publish, epochVars
<1>7. UpdateStep(t)
  BY <1>2, Zenon DEF UpdateStep, Unlock, Goto
<1> HIDE DEF K, N
<1>8. PlaceInv'
  <2>1. \A m \in Keys \ {K} : Retired(m)' <=> Retired(m)
    BY <1>5, PetKVAssumption, Zenon DEF Retired, K
  <2>2. QueuedBlocks' = QueuedBlocks
    BY <1>2, Zenon DEF QueuedBlocks, Queued
  <2>3. NoDoubleFree'
    BY <1>1, <1>2 DEF PlaceInv, NoDoubleFree
  <2>4. /\ N \in allocated \ (leaked \cup QueuedBlocks)
        /\ \A m \in LiveKeys : dict[m] # N
        /\ \A u \in Threads : new_block[u] = N => u = t
    BY <1>1, <1>3, Zenon DEF PlaceInv, N
  <2>5. ASSUME NEW u \in Threads, new_block'[u] # NoBlock
        PROVE  u # t /\ new_block'[u] = new_block[u] /\ new_block[u] # N
    BY <1>5, <2>4, <2>5, Zenon
  <2>6. \A m \in LiveKeys' : dict'[m] = IF m = K THEN N ELSE dict[m]
    BY <1>4, Zenon DEF LiveKeys
  <2>7. \A m \in LiveKeys' : m # K => m \in LiveKeys
    BY <1>4, <2>1, Zenon DEF LiveKeys
  <2> QED
    BY <1>1, <1>2, <1>3, <2>2, <2>3, <2>4, <2>5, <2>6, <2>7 DEF PlaceInv
<1> QED
  BY <1>1, <1>5, <1>6, <1>7, <1>8, EpochFrame, Zenon DEF CoreInv

(* Update inserts a new key, dropping another one if need be.              *)
LEMMA InsertKeeps ==
    ASSUME CoreInv, NEW t \in Threads, Insert(t)
    PROVE  CoreInv' /\ NoBump
<1> DEFINE K == key[t]
           N == new_block[t]
<1>1. TypeOK /\ EpochInv /\ LockInv /\ PlaceInv /\ UpdateInv(t)
  BY Zenon DEF CoreInv, LockInv
<1>2. /\ pc[t] = "insert" /\ Unlock(t)
      /\ UNCHANGED <<recycle_ptr_, allocated>> /\ UNCHANGED <<epochVars, completions>>
  BY Zenon DEF Insert, At
<1>3. pc[t] \in Updating /\ K \in Keys /\ N \in Blocks /\ N # NoBlock
  BY <1>1, <1>2, PetKVAssumption, Zenon DEF UpdateInv, Updating
<1>4. \/ dict' = [dict EXCEPT ![K] = N] /\ UNCHANGED leaked
      \/ \E v \in KeysOf(Shard(t)) : /\ dict' = [dict EXCEPT ![v] = NoBlock, ![K] = N]
                                     /\ leaked' = leaked \cup {dict[v]}
  BY Zenon DEF Insert
<1> HIDE DEF K, N
<1>5. /\ \A m \in Keys : GetShard[m] # Shard(t) => dict'[m] = dict[m]
      /\ dict' \in [Keys -> Blocks \cup {NoBlock}] /\ leaked' \in SUBSET Blocks
  <2>1. GetShard[K] = Shard(t) /\ leaked \in SUBSET Blocks
    BY <1>1, Zenon DEF Shard, K, TypeOK
  <2>2. CASE dict' = [dict EXCEPT ![K] = N] /\ UNCHANGED leaked
    BY <1>1, <1>3, <2>1, <2>2, ThreadTypes, Zenon
  <2>3. ASSUME NEW v \in KeysOf(Shard(t)),
               dict' = [dict EXCEPT ![v] = NoBlock, ![K] = N], leaked' = leaked \cup {dict[v]}
        PROVE  /\ \A m \in Keys : GetShard[m] # Shard(t) => dict'[m] = dict[m]
               /\ dict' \in [Keys -> Blocks \cup {NoBlock}] /\ leaked' \in SUBSET Blocks
    <3>1. v \in Keys /\ GetShard[v] = Shard(t) /\ dict[v] # NoBlock
      BY Zenon DEF KeysOf
    <3> QED
      BY <1>1, <1>3, <2>1, <2>3, <3>1, ThreadTypes, Zenon
  <2> QED
    BY <1>4, <2>2, <2>3, Zenon
<1>6. /\ LockInv' /\ NoBump
      /\ pc' \in [Threads -> PC]
      /\ key' \in [Threads -> Keys \cup {NoKey}]
      /\ new_block' \in [Threads -> Blocks \cup {NoBlock}]
      /\ modify_lock_' \in [Shards -> Threads \cup {NoThread}]
      /\ pc'[t] = "idle" /\ key'[t] = NoKey /\ new_block'[t] = NoBlock
      /\ \A u \in Threads : u # t => /\ pc'[u] = pc[u] /\ key'[u] = key[u]
                                     /\ new_block'[u] = new_block[u]
  <2>1. UNCHANGED current_epoch_
    BY <1>2, Zenon DEF epochVars
  <2> QED
    BY <1>2, <1>3, <1>5, <2>1, UnlockFrame, Zenon
<1>7. TypeOK'
  BY <1>1, <1>5, <1>6, Zenon DEF TypeOK, EpochTypeOK, Insert, epochVars
<1>8. UpdateStep(t)
  BY <1>2, Zenon DEF UpdateStep, Unlock, Goto
<1>9. PlaceInv'
  <2>1. \A m \in Keys : Retired(m)' <=> Retired(m)
    BY <1>2, <1>6, Zenon DEF Retired
  <2>2. QueuedBlocks' = QueuedBlocks
    BY <1>2, Zenon DEF QueuedBlocks, Queued
  <2>3. NoDoubleFree'
    BY <1>1, <1>2 DEF PlaceInv, NoDoubleFree
  <2>4. /\ N \in allocated \ (leaked \cup QueuedBlocks)
        /\ \A m \in LiveKeys : dict[m] # N
        /\ \A u \in Threads : new_block[u] = N => u = t
    BY <1>1, <1>3, Zenon DEF PlaceInv, N
  <2>5. ASSUME NEW u \in Threads, new_block'[u] # NoBlock
        PROVE  u # t /\ new_block'[u] = new_block[u] /\ new_block[u] # N
    BY <1>6, <2>4, <2>5, Zenon
  <2>6. CASE dict' = [dict EXCEPT ![K] = N] /\ UNCHANGED leaked
    <3>1. \A m \in Keys : dict'[m] = IF m = K THEN N ELSE dict[m]
      BY <1>1, <2>6, ThreadTypes, Zenon
    <3>2. \A m \in LiveKeys' : /\ dict'[m] = IF m = K THEN N ELSE dict[m]
                               /\ m # K => m \in LiveKeys
      BY <2>1, <3>1, Zenon DEF LiveKeys
    <3> QED
      BY <1>1, <1>2, <2>2, <2>3, <2>4, <2>5, <2>6, <3>2 DEF PlaceInv
  <2>7. ASSUME NEW v \in KeysOf(Shard(t)),
               dict' = [dict EXCEPT ![v] = NoBlock, ![K] = N], leaked' = leaked \cup {dict[v]}
        PROVE  PlaceInv'
    <3>1. v \in Keys /\ GetShard[v] = Shard(t) /\ dict[v] # NoBlock
      BY Zenon DEF KeysOf
    <3>2. v \in LiveKeys
      <4> SUFFICES ASSUME NEW u \in Threads, key[u] = v, pc[u] \in {"bump", "scan", "drain"}
                   PROVE  FALSE
        BY <3>1, Zenon DEF LiveKeys, Retired
      <4>1. pc[u] \in Updating /\ Shard(u) = Shard(t)
        BY <3>1, Zenon DEF Updating, Shard
      <4>2. u = t
        BY <1>1, <1>3, <4>1, OneUpdatePerShard, Zenon
      <4> QED
        BY <1>2, <4>2, Zenon
    <3>3. dict[v] \in allocated \ (leaked \cup QueuedBlocks) /\ dict[v] # N
      BY <1>1, <2>4, <3>2, Zenon DEF PlaceInv
    <3>4. \A m \in Keys : dict'[m] = IF m = K THEN N ELSE IF m = v THEN NoBlock ELSE dict[m]
      BY <1>1, <2>7, <3>1, ThreadTypes, Zenon
    <3>5. \A m \in LiveKeys' : /\ dict'[m] = IF m = K THEN N ELSE dict[m]
                               /\ m # K => m \in LiveKeys /\ m # v
      BY <2>1, <3>4, Zenon DEF LiveKeys
    <3>6. \A m \in LiveKeys' : m # K => dict[m] # dict[v]
      BY <1>1, <3>2, <3>5, Zenon DEF PlaceInv
    <3>7. leaked' \subseteq allocated' /\ leaked' \cap QueuedBlocks' = {}
      BY <1>1, <1>2, <2>2, <2>7, <3>3, ZenonT(40) DEF PlaceInv
    <3>8. \A m \in LiveKeys' : dict'[m] \in allocated' \ (leaked' \cup QueuedBlocks')
      <4> SUFFICES ASSUME NEW m \in LiveKeys'
                   PROVE  dict'[m] \in allocated' \ (leaked' \cup QueuedBlocks')
        OBVIOUS
      <4>1. CASE m = K
        <5>1. dict'[m] = N
          BY <3>5, <4>1, Zenon
        <5> QED
          BY <1>2, <2>2, <2>4, <2>7, <3>3, <5>1
      <4>2. CASE m # K
        <5>1. dict'[m] = dict[m] /\ m \in LiveKeys /\ dict[m] # dict[v]
          BY <3>5, <3>6, <4>2, Zenon
        <5>2. dict[m] \in allocated \ (leaked \cup QueuedBlocks)
          BY <1>1, <5>1, Zenon DEF PlaceInv
        <5> QED
          BY <1>2, <2>2, <2>7, <5>1, <5>2
      <4> QED
        BY <4>1, <4>2, Zenon
    <3>9. \A l, m \in LiveKeys' : dict'[l] = dict'[m] => l = m
      BY <1>1, <2>4, <3>5, Zenon DEF PlaceInv
    <3>a. ASSUME NEW u \in Threads, new_block'[u] # NoBlock
          PROVE  /\ new_block'[u] \in allocated' \ (leaked' \cup QueuedBlocks')
                 /\ \A m \in LiveKeys' : dict'[m] # new_block'[u]
                 /\ \A w \in Threads : new_block'[w] = new_block'[u] => w = u
      <4>1. u # t /\ new_block'[u] = new_block[u] /\ new_block[u] # N
        BY <2>5, <3>a, Zenon
      <4>2. /\ new_block[u] \in allocated \ (leaked \cup QueuedBlocks)
            /\ \A m \in LiveKeys : dict[m] # new_block[u]
            /\ \A w \in Threads : new_block[w] = new_block[u] => w = u
        BY <1>1, <3>a, <4>1, Zenon DEF PlaceInv
      <4>3. new_block'[u] \in allocated' \ (leaked' \cup QueuedBlocks')
        BY <1>2, <2>2, <2>7, <3>2, <4>1, <4>2, Zenon
      <4>4. \A m \in LiveKeys' : dict'[m] # new_block'[u]
        BY <3>5, <4>1, <4>2, Zenon
      <4>5. \A w \in Threads : new_block'[w] = new_block'[u] => w = u
        BY <2>5, <3>a, <4>1, <4>2, Zenon
      <4> QED
        BY <4>3, <4>4, <4>5, Zenon
    <3> QED
      BY <2>3, <3>7, <3>8, <3>9, <3>a, Zenon DEF PlaceInv
  <2> QED
    BY <1>4, <2>6, <2>7, Zenon
<1> QED
  BY <1>1, <1>6, <1>7, <1>8, <1>9, EpochFrame, Zenon DEF CoreInv

(* Update queues the old block.                                            *)
LEMMA RetireKeeps ==
    ASSUME CoreInv, NEW t \in Threads, Retire(t)
    PROVE  CoreInv' /\ NoBump
<1> DEFINE K == key[t]
           B == dict[K]
           s == GetShard[K]
           e == [epoch |-> current_epoch_, block |-> B]
           c == (recycled_count[s] + 1) % BumpPeriod
           l == IF c = 0 THEN "bump" ELSE "drain"
<1>1. TypeOK /\ EpochInv /\ LockInv /\ PlaceInv /\ UpdateInv(t)
  BY Zenon DEF CoreInv, LockInv
<1>2. /\ pc[t] = "retire" /\ pc' = [pc EXCEPT ![t] = l]
      /\ recycle_ptr_' = [recycle_ptr_ EXCEPT ![s] = Append(@, e)]
      /\ recycled_count' = [recycled_count EXCEPT ![s] = c]
  BY Zenon DEF Retire, At, Goto, Shard, Old
<1>3. /\ UNCHANGED <<epochVars, completions>>
      /\ UNCHANGED <<key, new_block, modify_lock_, dict, allocated, leaked>>
  BY Zenon DEF Retire
<1>4. pc[t] \in Updating /\ K \in Keys /\ B \in Blocks /\ B # NoBlock
  BY <1>1, <1>2, ThreadTypes, Zenon DEF UpdateInv, Updating, Old
<1>5. s \in Shards /\ e \in RecycleEntry /\ e.block = B
  BY <1>1, <1>4, PetKVAssumption, Zenon DEF TypeOK, EpochTypeOK, RecycleEntry
<1>6. c \in 0 .. BumpPeriod - 1 /\ l \in {"bump", "drain"}
  <2>1. recycled_count[s] \in Nat
    BY <1>1, <1>5, PetKVAssumption DEF TypeOK
  <2> HIDE DEF s
  <2> QED
    BY <2>1, PetKVAssumption
<1> HIDE DEF B, s, e, c, l
<1>7. /\ pc'[t] = l /\ pc' \in [Threads -> PC]
      /\ \A u \in Threads : u # t => pc'[u] = pc[u]
  BY <1>1, <1>2, <1>6, PcMoves, Zenon DEF PC
<1>8. TypeOK'
  <2>1. recycle_ptr_' \in [Shards -> Seq(RecycleEntry)]
    BY <1>1, <1>2, <1>5, QueueAppend, ThreadTypes, Zenon
  <2>2. recycled_count' \in [Shards -> 0 .. BumpPeriod - 1]
    BY <1>1, <1>2, <1>6, Zenon DEF TypeOK
  <2> QED
    BY <1>1, <1>7, <2>1, <2>2, Zenon DEF TypeOK, EpochTypeOK, Retire, epochVars
<1>9. UpdateStep(t)
  BY <1>2, <1>3, <1>6, Zenon DEF UpdateStep
<1>10. LockInv'
  <2> SUFFICES ASSUME NEW u \in Threads PROVE UpdateInv(u)'
    BY Zenon DEF LockInv
  <2>1. CASE u = t
    BY <1>1, <1>3, <1>4, <1>6, <1>7, <2>1, Zenon DEF UpdateInv, Updating, Shard
  <2>2. CASE u # t
    BY <1>1, <1>3, <1>7, <2>2, UpdateFrame, Zenon DEF LockInv
  <2> QED
    BY <2>1, <2>2, Zenon
<1>11. NoBump
  BY <1>2, <1>3, <1>7 DEF NoBump, MayBump, epochVars
<1>12. PlaceInv'
  <2>1. K \in LiveKeys
    <3> SUFFICES ASSUME NEW u \in Threads, key[u] = K, pc[u] \in {"bump", "scan", "drain"}
                 PROVE  FALSE
      BY <1>4, Zenon DEF LiveKeys, Retired, B
    <3>1. pc[u] \in Updating /\ Shard(u) = Shard(t)
      BY Zenon DEF Updating, Shard
    <3>2. u = t
      BY <1>1, <1>4, <3>1, OneUpdatePerShard, Zenon
    <3> QED
      BY <1>2, <3>2, Zenon
  <2>2. /\ B \in allocated \ (leaked \cup QueuedBlocks)
        /\ \A m \in LiveKeys : m # K => dict[m] # B
        /\ \A u \in Threads : new_block[u] # NoBlock => new_block[u] # B
    BY <1>1, <1>4, <2>1, Zenon DEF PlaceInv, B
  <2>3. \A m \in LiveKeys' : m \in LiveKeys /\ m # K
    BY <1>2, <1>3, <1>6, <1>7, Zenon DEF LiveKeys, Retired
  <2>4. ASSUME NEW x \in Shards, NEW n \in DOMAIN recycle_ptr_'[x]
        PROVE  IF x = s /\ n = Len(recycle_ptr_[s]) + 1
               THEN recycle_ptr_'[x][n].block = B
               ELSE /\ n \in DOMAIN recycle_ptr_[x]
                    /\ recycle_ptr_'[x][n].block = recycle_ptr_[x][n].block
    <3>1. IF x = s /\ n = Len(recycle_ptr_[s]) + 1
          THEN recycle_ptr_'[x][n] = e
          ELSE n \in DOMAIN recycle_ptr_[x] /\ recycle_ptr_'[x][n] = recycle_ptr_[x][n]
      <4>1. Pushed(s, e)
        BY <1>2, Zenon DEF Pushed
      <4>2. s \in Shards /\ e \in RecycleEntry
        BY <1>5, Zenon
      <4> QED
        BY <1>1, <2>4, <4>1, <4>2, QueueAppended
    <3> QED
      BY <1>5, <3>1, Zenon
  <2>5. QueuedBlocks' \subseteq QueuedBlocks \cup {B}
    BY <2>4, ZenonT(40) DEF QueuedBlocks, Queued
  <2>6. ASSUME NEW x \in Shards, NEW n \in DOMAIN recycle_ptr_'[x]
        PROVE  recycle_ptr_'[x][n].block \in allocated'
    BY <1>1, <1>3, <2>2, <2>4, <2>6 DEF PlaceInv, NoDoubleFree
  <2>7. ASSUME NEW x \in Shards, NEW y \in Shards,
               NEW m \in DOMAIN recycle_ptr_'[x], NEW n \in DOMAIN recycle_ptr_'[y],
               recycle_ptr_'[x][m].block = recycle_ptr_'[y][n].block
        PROVE  x = y /\ m = n
    <3> DEFINE New(z, i) == z = s /\ i = Len(recycle_ptr_[s]) + 1
    <3>1. ASSUME NEW z \in Shards, NEW i \in DOMAIN recycle_ptr_'[z], ~ New(z, i)
          PROVE  /\ i \in DOMAIN recycle_ptr_[z]
                 /\ recycle_ptr_'[z][i].block = recycle_ptr_[z][i].block
      BY <2>4, <3>1, Zenon
    <3>2. ASSUME NEW z \in Shards, NEW i \in DOMAIN recycle_ptr_'[z], ~ New(z, i)
          PROVE  recycle_ptr_'[z][i].block # B
      <4>1. recycle_ptr_[z][i].block \in QueuedBlocks
        BY <1>1, <3>1, <3>2, QueueBlockType, Zenon DEF QueuedBlocks, Queued
      <4> QED
        BY <2>2, <3>1, <3>2, <4>1, Zenon
    <3>3. ASSUME NEW z \in Shards, NEW i \in DOMAIN recycle_ptr_'[z], New(z, i)
          PROVE  recycle_ptr_'[z][i].block = B
      BY <2>4, <3>3, Zenon
    <3>4. CASE New(x, m) /\ New(y, n)
      BY <3>4, Zenon
    <3>5. CASE ~ New(x, m) /\ ~ New(y, n)
      BY <1>1, <2>7, <3>1, <3>5 DEF PlaceInv, NoDoubleFree
    <3>6. CASE New(x, m) /\ ~ New(y, n)
      BY <2>7, <3>2, <3>3, <3>6, Zenon
    <3>7. CASE ~ New(x, m) /\ New(y, n)
      BY <2>7, <3>2, <3>3, <3>7, Zenon
    <3> QED
      BY <3>4, <3>5, <3>6, <3>7, Zenon
  <2>8. NoDoubleFree'
    BY <2>6, <2>7, Zenon DEF NoDoubleFree
  <2> QED
    BY <1>1, <1>3, <2>2, <2>3, <2>5, <2>8 DEF PlaceInv
<1> QED
  BY <1>1, <1>8, <1>9, <1>10, <1>11, <1>12, EpochFrame, Zenon DEF CoreInv

(* Recycle frees the head of its queue.                                    *)
LEMMA FreeHeadKeeps ==
    ASSUME CoreInv, NEW t \in Threads, FreeHead(t)
    PROVE  CoreInv' /\ NoBump
<1> DEFINE s == Shard(t)
           h == recycle_ptr_[s][1].block
<1>1. TypeOK /\ EpochInv /\ LockInv /\ PlaceInv /\ UpdateInv(t)
  BY Zenon DEF CoreInv, LockInv
<1>2. /\ pc[t] = "drain" /\ UNCHANGED <<epochVars, completions>>
      /\ UNCHANGED <<pc, key, new_block, modify_lock_, dict, leaked>>
  BY Zenon DEF FreeHead, At
<1>3. s \in Shards
  BY <1>1, <1>2, PetKVAssumption, Zenon DEF UpdateInv, Updating, Shard
<1>4. Popped(s) /\ allocated' = allocated \ {Head(recycle_ptr_[s]).block}
  BY Zenon DEF FreeHead, HeadIsSafe, Popped
<1> HIDE DEF s
<1>5. recycle_ptr_[s] \in Seq(RecycleEntry) /\ recycle_ptr_[s] # <<>>
  BY <1>1, <1>3, <1>4, ThreadTypes, Zenon DEF Popped
<1>6. 1 \in DOMAIN recycle_ptr_[s] /\ allocated' = allocated \ {h} /\ h \in Blocks
  <2>1. /\ 1 \in DOMAIN recycle_ptr_[s] /\ Head(recycle_ptr_[s]) = recycle_ptr_[s][1]
        /\ Head(recycle_ptr_[s]) \in RecycleEntry
    BY <1>5, QueueTail
  <2> QED
    BY <1>4, <2>1, Zenon DEF RecycleEntry
<1>7. TypeOK'
  <2>1. recycle_ptr_' \in [Shards -> Seq(RecycleEntry)]
    BY <1>1, <1>4, <1>5, QueueTail, ThreadTypes, Zenon DEF Popped
  <2>2. allocated' \in SUBSET Blocks
    BY <1>1, <1>6, Zenon DEF TypeOK
  <2> QED
    BY <1>1, <2>1, <2>2, Zenon DEF TypeOK, EpochTypeOK, FreeHead, epochVars
<1>8. UpdateStep(t)
  <2>1. pc' = [pc EXCEPT ![t] = "drain"]
    BY <1>1, <1>2, ThreadTypes, Zenon
  <2> QED
    BY <1>2, <2>1, Zenon DEF UpdateStep
<1>9. LockInv' /\ NoBump
  <2>1. LockInv'
    BY <1>1, <1>2, UpdateFrame, Zenon DEF LockInv
  <2>2. NoBump
    BY <1>2, Zenon DEF NoBump, MayBump, epochVars
  <2> QED
    BY <2>1, <2>2, Zenon
<1>10. PlaceInv'
  <2>1. ASSUME NEW x \in Shards, NEW n \in DOMAIN recycle_ptr_'[x]
        PROVE  \E m \in DOMAIN recycle_ptr_[x] :
                  /\ n \in Nat \ {0} /\ m = (IF x = s THEN n + 1 ELSE n)
                  /\ recycle_ptr_'[x][n] = recycle_ptr_[x][m]
    BY <1>1, <1>3, <1>4, <2>1, QueuePopped
  <2>2. h \in QueuedBlocks
    BY <1>3, <1>6, Zenon DEF QueuedBlocks, Queued
  <2> HIDE DEF h
  <2>3. ASSUME NEW x \in Shards, NEW n \in DOMAIN recycle_ptr_'[x]
        PROVE  recycle_ptr_'[x][n].block \in allocated'
    <3>1. PICK m \in DOMAIN recycle_ptr_[x] :
              /\ n \in Nat \ {0} /\ m = (IF x = s THEN n + 1 ELSE n)
              /\ recycle_ptr_'[x][n] = recycle_ptr_[x][m]
      BY <2>1, <2>3, Zenon
    <3>2. recycle_ptr_[x][m].block \in allocated
      BY <1>1, Zenon DEF PlaceInv, NoDoubleFree
    <3>3. ~ (x = s /\ m = 1)
      BY <3>1
    <3>4. recycle_ptr_[x][m].block # h
      BY <1>1, <1>3, <1>6, <3>3 DEF PlaceInv, NoDoubleFree, h
    <3> QED
      BY <1>6, <3>1, <3>2, <3>4, Zenon
  <2>4. ASSUME NEW x \in Shards, NEW y \in Shards,
               NEW m \in DOMAIN recycle_ptr_'[x], NEW n \in DOMAIN recycle_ptr_'[y],
               recycle_ptr_'[x][m].block = recycle_ptr_'[y][n].block
        PROVE  x = y /\ m = n
    <3>1. PICK i \in DOMAIN recycle_ptr_[x] :
              /\ m \in Nat \ {0} /\ i = (IF x = s THEN m + 1 ELSE m)
              /\ recycle_ptr_'[x][m] = recycle_ptr_[x][i]
      BY <2>1, <2>4, Zenon
    <3>2. PICK j \in DOMAIN recycle_ptr_[y] :
              /\ n \in Nat \ {0} /\ j = (IF y = s THEN n + 1 ELSE n)
              /\ recycle_ptr_'[y][n] = recycle_ptr_[y][j]
      BY <2>1, <2>4, Zenon
    <3>3. x = y /\ i = j
      BY <1>1, <2>4, <3>1, <3>2 DEF PlaceInv, NoDoubleFree
    <3> QED
      BY <3>1, <3>2, <3>3
  <2>5. NoDoubleFree'
    BY <2>3, <2>4, Zenon DEF NoDoubleFree
  <2>6. QueuedBlocks' \subseteq QueuedBlocks
    BY <2>1 DEF QueuedBlocks, Queued
  <2>7. LiveKeys' = LiveKeys
    BY <1>2, Zenon DEF LiveKeys, Retired
  <2> QED
    BY <1>1, <1>2, <1>6, <2>2, <2>5, <2>6, <2>7 DEF PlaceInv
<1> QED
  BY <1>1, <1>7, <1>8, <1>9, <1>10, EpochFrame, Zenon DEF CoreInv

---------------------------------------------------------------------------
(* Readers.  With one UnProtect per GET (use_sglist = false) the deque of  *)
(* a protected reader holds exactly the epoch it loaded, no thread touches *)
(* the deque of another, and every step keeps the blocks that protected    *)
(* readers found before they were retired.                                 *)

(* A protected reader's deque holds its epoch from the push to the pop.    *)
DequeInv(t) ==
    LET i == thread_local_entry[t] IN
    /\ pc[t] # "cpop" /\ completions[t] = 0
    /\ t \in Unprotected => i = NoEntry
    /\ i # NoEntry =>
          /\ deque_broken[i] = FALSE
          /\ pc[t] \notin {"push", "pop"} => deque_busy[i] = FALSE
          /\ pc[t] \in {"lookup", "pop"} => epoch_list_[i] = <<loaded_epoch[t]>>
          /\ pc[t] \notin {"lookup", "pop"} => epoch_list_[i] = <<>>

Unused(i) == epoch_list_[i] = <<>> /\ deque_busy[i] = FALSE /\ deque_broken[i] = FALSE

ProtectInv ==
    /\ \A t \in Threads : DequeInv(t)
    /\ \A i \in Entries : thread_id_[i] = NoThread => Unused(i)

---------------------------------------------------------------------------
(* The types of what a GET works with.                                     *)
LEMMA ReaderTypes ==
    ASSUME TypeOK
    PROVE  /\ pc \in [Threads -> PC]
           /\ todo \in [Threads -> SUBSET Keys]
           /\ got \in [Threads -> [Keys -> Blocks \cup {NoBlock}]]
           /\ early \in [Threads -> SUBSET Keys]
           /\ loaded_epoch \in [Threads -> Epochs]
           /\ thread_local_entry \in [Threads -> Entries \cup {NoEntry}]
           /\ thread_id_ \in [Entries -> Threads \cup {NoThread}]
  BY Zenon DEF TypeOK, EpochTypeOK

(* The types of the deques.                                                *)
LEMMA DequeTables ==
    ASSUME TypeOK
    PROVE  /\ epoch_list_ \in [Entries -> Seq(Epochs \ {0})]
           /\ deque_busy \in [Entries -> BOOLEAN]
           /\ deque_broken \in [Entries -> BOOLEAN]
  BY Zenon DEF TypeOK, EpochTypeOK

(* Two threads never share an entry of the table.                          *)
LEMMA OwnEntry ==
    ASSUME TypeOK, EpochInv, NEW t \in Threads, NEW u \in Threads, u # t,
           thread_local_entry[u] # NoEntry
    PROVE  /\ thread_local_entry[u] \in Entries
           /\ thread_local_entry[u] # thread_local_entry[t]
  BY ReaderTypes, Zenon DEF EpochInv, TableInv

---------------------------------------------------------------------------
(* The deques.                                                             *)

Quiet == {"idle", "insert", "retire", "bump", "scan", "drain"}

(* A step outside Protect and UnProtect leaves the deques alone.           *)
QuietStep(t) ==
    /\ UNCHANGED <<thread_local_entry, thread_id_, epoch_list_, deque_busy,
                   deque_broken, completions, loaded_epoch>>
    /\ \/ UNCHANGED pc
       \/ pc[t] \in Quiet /\ \E l \in Quiet : pc' = [pc EXCEPT ![t] = l]
       \/ t \in Unprotected /\ \E l \in {"lookup", "idle"} : pc' = [pc EXCEPT ![t] = l]

LEMMA DequeFrame ==
    ASSUME TypeOK, ProtectInv, NEW t \in Threads, QuietStep(t)
    PROVE  ProtectInv'
<1>1. UNCHANGED <<thread_local_entry, thread_id_, epoch_list_, deque_busy,
                  deque_broken, completions, loaded_epoch>>
  BY Zenon DEF QuietStep
<1>2. ASSUME NEW u \in Threads
      PROVE  \/ pc'[u] = pc[u]
             \/ pc[u] \in Quiet /\ pc'[u] \in Quiet
             \/ u \in Unprotected /\ pc'[u] # "cpop"
  BY ReaderTypes, Zenon DEF QuietStep
<1>3. ASSUME NEW u \in Threads PROVE DequeInv(u)'
  <2>1. DequeInv(u)
    BY Zenon DEF ProtectInv
  <2> QED
    BY <1>1, <1>2, <2>1, Zenon DEF DequeInv, Quiet
<1> QED
  BY <1>1, <1>3, Zenon DEF ProtectInv, Unused

(* The actions of an Update, an unprotected Get and the lookups.           *)
LEMMA QuietSteps ==
    ASSUME CoreInv, ProtectInv, NEW t \in Threads,
           \/ \E batch \in SUBSET Keys : GetUnprotected(t, batch)
           \/ \E k \in Keys : Lookup(t, k)
           \/ Insert(t) \/ Retire(t) \/ Bump(t) \/ Scan(t) \/ StoreSafe(t)
           \/ FreeHead(t) \/ Publish(t)
    PROVE  ProtectInv'
<1>1. ASSUME NEW batch \in SUBSET Keys, GetUnprotected(t, batch) PROVE QuietStep(t)
  BY <1>1, Zenon DEF QuietStep, GetUnprotected, At, Goto, epochVars
<1>2. ASSUME NEW k \in Keys, Lookup(t, k) PROVE QuietStep(t)
  BY <1>2, Zenon DEF QuietStep, Lookup, epochVars
<1>3. ASSUME Insert(t) PROVE QuietStep(t)
  BY <1>3, Zenon DEF QuietStep, Quiet, Insert, Unlock, At, Goto, epochVars
<1>4. ASSUME Retire(t) PROVE QuietStep(t)
  BY <1>4, Zenon DEF QuietStep, Quiet, Retire, At, Goto, epochVars
<1>5. ASSUME Bump(t) PROVE QuietStep(t)
  BY <1>5, Zenon DEF QuietStep, Quiet, Bump, At, Goto
<1>6. ASSUME Scan(t) PROVE QuietStep(t)
  BY <1>6, Zenon DEF QuietStep, Scan, kvVars
<1>7. ASSUME StoreSafe(t) PROVE QuietStep(t)
  BY <1>7, Zenon DEF QuietStep, Quiet, StoreSafe, At, Goto
<1>8. ASSUME FreeHead(t) PROVE QuietStep(t)
  BY <1>8, Zenon DEF QuietStep, FreeHead, epochVars
<1>9. ASSUME Publish(t) PROVE QuietStep(t)
  BY <1>9, Zenon DEF QuietStep, Quiet, Publish, Unlock, At, Goto, epochVars
<1>10. QuietStep(t)
  BY <1>1, <1>2, <1>3, <1>4, <1>5, <1>6, <1>7, <1>8, <1>9, Zenon
<1> QED
  BY <1>10, DequeFrame, Zenon DEF CoreInv

(* An Update starts.                                                       *)
LEMMA UpdateStartDeque ==
    ASSUME CoreInv, ProtectInv, NEW t \in Threads, NEW k \in Keys, UpdateStart(t, k)
    PROVE  ProtectInv'
<1>1. QuietStep(t)
  BY Zenon DEF QuietStep, Quiet, UpdateStart, At, Goto, epochVars
<1> QED
  BY <1>1, DequeFrame, Zenon DEF CoreInv

(* Protect loads the epoch.                                                *)
LEMMA GetStartDeque ==
    ASSUME CoreInv, ProtectInv, NEW t \in Threads, NEW batch \in SUBSET Keys,
           GetStart(t, batch)
    PROVE  ProtectInv'
<1>1. /\ UNCHANGED <<thread_local_entry, thread_id_, epoch_list_, deque_busy,
                     deque_broken, completions>>
      /\ pc[t] = "idle" /\ pc' = [pc EXCEPT ![t] = "enque"]
      /\ loaded_epoch' = [loaded_epoch EXCEPT ![t] = current_epoch_]
  BY Zenon DEF GetStart, At, Goto, ProtectLoad
<1>2. ASSUME NEW u \in Threads PROVE DequeInv(u)'
  <2>1. DequeInv(u)
    BY Zenon DEF ProtectInv
  <2>2. CASE u = t
    <3>1. pc'[t] = "enque"
      BY <1>1, ReaderTypes, Zenon DEF CoreInv
    <3> QED
      BY <1>1, <2>1, <2>2, <3>1, Zenon DEF DequeInv
  <2>3. CASE u # t
    <3>1. pc'[u] = pc[u] /\ loaded_epoch'[u] = loaded_epoch[u]
      BY <1>1, <2>3, ReaderTypes, Zenon DEF CoreInv
    <3> QED
      BY <1>1, <2>1, <3>1, Zenon DEF DequeInv
  <2> QED
    BY <2>2, <2>3, Zenon
<1> QED
  BY <1>1, <1>2, Zenon DEF ProtectInv, Unused

(* A thread gets an entry nobody has used yet.                             *)
LEMMA GetEntryDeque ==
    ASSUME CoreInv, ProtectInv, NEW t \in Threads, GetEntryForThread(t)
    PROVE  ProtectInv'
<1>1. /\ UNCHANGED <<pc, completions, loaded_epoch, epoch_list_, deque_busy, deque_broken>>
      /\ pc[t] = "enque" /\ t \notin Unprotected
  BY Zenon DEF GetEntryForThread, At, CoreInv, EpochInv, TableInv
<1>2. CASE UNCHANGED <<thread_id_, thread_local_entry>>
  BY <1>1, <1>2, Zenon DEF ProtectInv, DequeInv, Unused
<1>3. ASSUME NEW i \in Entries,
             /\ thread_id_[i] = NoThread
             /\ thread_id_' = [thread_id_ EXCEPT ![i] = t]
             /\ thread_local_entry' = [thread_local_entry EXCEPT ![t] = i]
      PROVE  ProtectInv'
  <2>1. ASSUME NEW u \in Threads, u # t PROVE DequeInv(u)'
    <3>1. thread_local_entry'[u] = thread_local_entry[u]
      BY <1>3, <2>1, ReaderTypes, Zenon DEF CoreInv
    <3> QED
      BY <3>1, <1>1, Zenon DEF ProtectInv, DequeInv
  <2>2. DequeInv(t)'
    <3>1. thread_local_entry'[t] = i
      BY <1>3, ReaderTypes, Zenon DEF CoreInv
    <3>2. Unused(i) /\ completions[t] = 0
      BY <1>3, Zenon DEF ProtectInv, DequeInv
    <3> QED
      BY <3>1, <3>2, <1>1, Zenon DEF DequeInv, Unused
  <2>3. ASSUME NEW x \in Entries, thread_id_'[x] = NoThread PROVE Unused(x)'
    <3>1. thread_id_[x] = NoThread
      BY <1>3, <2>3, EpochAssumption, ReaderTypes, Zenon DEF CoreInv
    <3> QED
      BY <1>1, <3>1, Zenon DEF ProtectInv, Unused
  <2> QED
    BY <2>1, <2>2, <2>3, Zenon DEF ProtectInv
<1> QED
  <2>1. CASE NoEntryLeft
    BY <2>1, <1>2, Zenon DEF GetEntryForThread
  <2>2. CASE ~ NoEntryLeft
    BY <2>2, <1>3, ProbeInTable, Zenon DEF GetEntryForThread, ReserveEntry, FreeEntry
  <2> QED
    BY <2>1, <2>2, Zenon

(* Protected thread t goes to label l and leaves its deque holding list.   *)
DequeMoves(t, l, busy, list) ==
    /\ t \notin Unprotected /\ thread_local_entry[t] # NoEntry
    /\ pc' = [pc EXCEPT ![t] = l]
    /\ deque_busy' = [deque_busy EXCEPT ![thread_local_entry[t]] = busy]
    /\ epoch_list_' = [epoch_list_ EXCEPT ![thread_local_entry[t]] = list]
    /\ UNCHANGED <<thread_local_entry, thread_id_, deque_broken, completions, loaded_epoch>>

(* Nobody else uses that deque.                                            *)
LEMMA OwnDeque ==
    ASSUME CoreInv, ProtectInv, NEW t \in Threads, NEW l \in PC \ {"cpop"},
           NEW busy \in BOOLEAN, NEW list, DequeMoves(t, l, busy, list),
           l \notin {"push", "pop"} => busy = FALSE,
           list = IF l \in {"lookup", "pop"} THEN <<loaded_epoch[t]>> ELSE <<>>
    PROVE  ProtectInv'
<1> DEFINE i == thread_local_entry[t]
<1>1. TypeOK /\ EpochInv
  BY Zenon DEF CoreInv
<1>2. i \in Entries /\ thread_id_[i] = t /\ t # NoThread
  BY <1>1, ReaderTypes, EpochAssumption, Zenon DEF DequeMoves, EpochInv, TableInv
<1>3. /\ UNCHANGED <<thread_local_entry, thread_id_, deque_broken, completions, loaded_epoch>>
      /\ i # NoEntry /\ t \notin Unprotected
  BY Zenon DEF DequeMoves
<1>4. pc'[t] = l /\ deque_busy'[i] = busy /\ epoch_list_'[i] = list
  BY <1>1, <1>2, ReaderTypes, DequeTables, Zenon DEF DequeMoves
<1>5. ASSUME NEW x \in Entries, x # i
      PROVE  deque_busy'[x] = deque_busy[x] /\ epoch_list_'[x] = epoch_list_[x]
  BY <1>1, <1>5, DequeTables, Zenon DEF DequeMoves
<1>6. \A u \in Threads : DequeInv(u)
  BY Zenon DEF ProtectInv
<1>7. ASSUME NEW u \in Threads PROVE DequeInv(u)'
  <2>1. CASE u = t
    BY <1>3, <1>4, <1>6, <2>1, Zenon DEF DequeInv
  <2>2. CASE u # t
    <3>1. pc'[u] = pc[u]
      BY <1>1, <2>2, ReaderTypes, Zenon DEF DequeMoves
    <3>2. thread_local_entry[u] # NoEntry =>
              thread_local_entry[u] \in Entries /\ thread_local_entry[u] # i
      BY <1>1, <2>2, OwnEntry, Zenon
    <3> HIDE DEF i
    <3> QED
      BY <1>3, <1>5, <1>6, <3>1, <3>2, Zenon DEF DequeInv
  <2> QED
    BY <2>1, <2>2, Zenon
<1>8. ASSUME NEW x \in Entries, thread_id_'[x] = NoThread PROVE Unused(x)'
  <2>1. thread_id_[x] = NoThread /\ x # i
    BY <1>2, <1>3, <1>8, Zenon
  <2>2. Unused(x)
    BY <2>1, Zenon DEF ProtectInv
  <2> HIDE DEF i
  <2> QED
    BY <1>3, <1>5, <2>1, <2>2, Zenon DEF Unused
<1> QED
  BY <1>7, <1>8, Zenon DEF ProtectInv

(* The push begins.                                                        *)
LEMMA PushBeginDeque ==
    ASSUME CoreInv, ProtectInv, NEW t \in Threads, PushBegin(t)
    PROVE  ProtectInv'
<1>1. /\ pc[t] = "enque" /\ t \notin Unprotected /\ thread_local_entry[t] # NoEntry
      /\ epoch_list_[thread_local_entry[t]] = <<>>
  BY Zenon DEF PushBegin, At, CoreInv, EpochInv, TableInv, ProtectInv, DequeInv
<1>2. epoch_list_' = [epoch_list_ EXCEPT ![thread_local_entry[t]] = <<>>]
  BY <1>1, DequeTables, Zenon DEF CoreInv, PushBegin
<1>3. DequeMoves(t, "push", TRUE, <<>>)
  BY <1>1, <1>2, Zenon DEF DequeMoves, PushBegin, Goto, TouchDeque
<1> QED
  BY <1>3, OwnDeque, Zenon DEF PC

(* The push ends: the empty deque holds the loaded epoch.                  *)
LEMMA PushEndDeque ==
    ASSUME CoreInv, ProtectInv, NEW t \in Threads, PushEnd(t)
    PROVE  ProtectInv'
<1>1. /\ pc[t] = "push" /\ t \notin Unprotected /\ thread_local_entry[t] # NoEntry
      /\ epoch_list_[thread_local_entry[t]] = <<>>
  BY Zenon DEF PushEnd, At, CoreInv, EpochInv, TableInv, ProtectInv, DequeInv
<1>2. Append(<<>>, loaded_epoch[t]) = <<loaded_epoch[t]>>
  OBVIOUS
<1>3. epoch_list_' = [epoch_list_ EXCEPT ![thread_local_entry[t]] = <<loaded_epoch[t]>>]
  BY <1>1, <1>2, Zenon DEF PushEnd, EnqueProtect
<1>4. DequeMoves(t, "lookup", FALSE, <<loaded_epoch[t]>>)
  BY <1>1, <1>3, Zenon DEF DequeMoves, PushEnd, Goto, EnqueProtect
<1> QED
  BY <1>4, OwnDeque, Zenon DEF PC

(* The values are copied and the pop begins.                               *)
LEMMA CopyDeque ==
    ASSUME CoreInv, ProtectInv, NEW t \in Threads, Copy(t)
    PROVE  ProtectInv'
<1>1. CASE t \in Unprotected
  <2>1. QuietStep(t)
    BY <1>1, Zenon DEF QuietStep, Copy, Goto
  <2> QED
    BY <2>1, DequeFrame, Zenon DEF CoreInv
<1>2. CASE t \notin Unprotected
  <2>1. /\ pc[t] = "lookup" /\ thread_local_entry[t] # NoEntry
        /\ epoch_list_[thread_local_entry[t]] = <<loaded_epoch[t]>>
    BY <1>2, Zenon DEF Copy, At, CoreInv, EpochInv, TableInv, ProtectInv, DequeInv
  <2>2. epoch_list_' = [epoch_list_ EXCEPT ![thread_local_entry[t]] = <<loaded_epoch[t]>>]
    BY <2>1, DequeTables, Zenon DEF CoreInv, Copy
  <2>3. DequeMoves(t, "pop", TRUE, <<loaded_epoch[t]>>)
    BY <1>2, <2>1, <2>2, Zenon DEF DequeMoves, Copy, Goto, TouchDeque
  <2> QED
    BY <2>3, OwnDeque, Zenon DEF PC
<1> QED
  BY <1>1, <1>2, Zenon

(* The pop ends: the deque is empty again.                                 *)
LEMMA UnProtectDeque ==
    ASSUME CoreInv, ProtectInv, ~ UseSglist, NEW t \in Threads, UnProtect(t)
    PROVE  ProtectInv'
<1>1. /\ pc[t] = "pop" /\ t \notin Unprotected /\ thread_local_entry[t] # NoEntry
      /\ epoch_list_[thread_local_entry[t]] = <<loaded_epoch[t]>>
  BY Zenon DEF UnProtect, At, CoreInv, EpochInv, TableInv, ProtectInv, DequeInv
<1>2. Tail(<<loaded_epoch[t]>>) = <<>> /\ <<loaded_epoch[t]>> # <<>>
  OBVIOUS
<1>3. completions' = completions
  BY Zenon DEF CoreInv, TypeOK, UnProtect
<1>4. /\ epoch_list_' = [epoch_list_ EXCEPT ![thread_local_entry[t]] = <<>>]
      /\ UNCHANGED deque_broken
  BY <1>1, <1>2, Zenon DEF UnProtect, DequeUnProtect
<1>5. DequeMoves(t, "idle", FALSE, <<>>)
  BY <1>1, <1>3, <1>4, Zenon DEF DequeMoves, UnProtect, Goto, DequeUnProtect
<1> QED
  BY <1>5, OwnDeque, Zenon DEF PC

---------------------------------------------------------------------------
(* The blocks of the readers.                                              *)

(* Removal epoch r is out of reach of every safe epoch until t pops: of    *)
(* the published one, and of those that the scans which are already past   *)
(* t's entry will publish.                                                 *)
Covered(t, r) ==
    /\ loaded_epoch[t] <= r
    /\ safe_to_reclaim_epoch_ < r
    /\ \A w \in Threads :
          pc[w] = "scan" /\ scan_index[w] > thread_local_entry[t]
              => oldest_call[w] <= r

Pinned(t, b) ==
    \E s \in Shards : \E n \in DOMAIN recycle_ptr_[s] :
        recycle_ptr_[s][n].block = b /\ Covered(t, recycle_ptr_[s][n].epoch)

(* Why the block t found under k is still there.                           *)
Kept(t, k) ==
    \/ k \in LiveKeys /\ dict[k] = got[t][k]
    \/ got[t][k] \in leaked
    \/ Pinned(t, got[t][k])

EarlyOf(t) ==
    /\ early[t] # {} => pc[t] = "lookup"
    /\ early[t] \cap todo[t] = {}
    /\ \A k \in early[t] : Kept(t, k)

EarlyInv == \A t \in Threads \ Unprotected : EarlyOf(t)

ReaderInv == ProtectInv /\ EarlyInv
---------------------------------------------------------------------------
(* The pointers found early.                                               *)

(* Covered(t, r) after a step, for an r of before the step.                *)
CoveredNext(t, r) ==
    /\ loaded_epoch'[t] <= r
    /\ safe_to_reclaim_epoch_' < r
    /\ \A w \in Threads :
          pc'[w] = "scan" /\ scan_index'[w] > thread_local_entry'[t]
              => oldest_call'[w] <= r

(* A cover lasts while nothing is published and no scan gets past t.       *)
LEMMA CoverFrame ==
    ASSUME NEW u \in Threads, NEW r, Covered(u, r),
           UNCHANGED <<safe_to_reclaim_epoch_, scan_index, oldest_call>>,
           loaded_epoch'[u] = loaded_epoch[u],
           thread_local_entry'[u] = thread_local_entry[u],
           \A w \in Threads : pc'[w] = "scan" => pc[w] = "scan"
    PROVE  CoveredNext(u, r)
  BY Zenon DEF Covered, CoveredNext

(* A pinned block stays pinned if its entry stays queued and covered.      *)
LEMMA PinnedKept ==
    ASSUME NEW u \in Threads, NEW k \in Keys, Pinned(u, got[u][k]),
           got'[u][k] = got[u][k],
           \A x \in Shards : \A n \in DOMAIN recycle_ptr_[x] :
              Covered(u, recycle_ptr_[x][n].epoch) =>
                 /\ \E m \in DOMAIN recycle_ptr_'[x] :
                       recycle_ptr_'[x][m] = recycle_ptr_[x][n]
                 /\ CoveredNext(u, recycle_ptr_[x][n].epoch)
    PROVE  Kept(u, k)'
<1>1. PICK x \in Shards : \E n \in DOMAIN recycle_ptr_[x] :
          recycle_ptr_[x][n].block = got[u][k] /\ Covered(u, recycle_ptr_[x][n].epoch)
  BY Zenon DEF Pinned
<1>2. PICK n \in DOMAIN recycle_ptr_[x] :
          recycle_ptr_[x][n].block = got[u][k] /\ Covered(u, recycle_ptr_[x][n].epoch)
  BY <1>1, Zenon
<1>3. PICK m \in DOMAIN recycle_ptr_'[x] : recycle_ptr_'[x][m] = recycle_ptr_[x][n]
  BY <1>2, Zenon
<1>4. /\ recycle_ptr_'[x][m].block = got'[u][k]
      /\ CoveredNext(u, recycle_ptr_'[x][m].epoch)
  BY <1>2, <1>3, Zenon
<1> QED
  BY <1>4, Zenon DEF Kept, Pinned, Covered, CoveredNext

(* A step that moves no free list, scans nothing and publishes no epoch    *)
(* keeps what a reader has, if a dropped block is leaked.                  *)
LEMMA KeptFrame ==
    ASSUME NEW u \in Threads, NEW k \in Keys, Kept(u, k),
           UNCHANGED <<recycle_ptr_, safe_to_reclaim_epoch_, scan_index, oldest_call>>,
           leaked \subseteq leaked',
           k \in LiveKeys => \/ k \in LiveKeys' /\ dict'[k] = dict[k]
                            \/ dict[k] \in leaked',
           got'[u][k] = got[u][k],
           loaded_epoch'[u] = loaded_epoch[u],
           thread_local_entry'[u] = thread_local_entry[u],
           \A w \in Threads : pc'[w] = "scan" => pc[w] = "scan"
    PROVE  Kept(u, k)'
<1>1. CASE Pinned(u, got[u][k])
  <2>1. ASSUME NEW x \in Shards, NEW n \in DOMAIN recycle_ptr_[x],
               Covered(u, recycle_ptr_[x][n].epoch)
        PROVE  CoveredNext(u, recycle_ptr_[x][n].epoch)
    BY <2>1, CoverFrame, Zenon
  <2> QED
    BY <1>1, <2>1, PinnedKept, Zenon
<1>2. CASE k \in LiveKeys /\ dict[k] = got[u][k]
  BY <1>2, Zenon DEF Kept
<1>3. CASE got[u][k] \in leaked
  BY <1>3, Zenon DEF Kept
<1> QED
  BY <1>1, <1>2, <1>3, Zenon DEF Kept

(* A step on the epochs alone keeps what a reader has if each cover stays. *)
LEMMA CoverKept ==
    ASSUME NEW u \in Threads, NEW k \in Keys, Kept(u, k),
           UNCHANGED <<dict, leaked, recycle_ptr_, got>>,
           LiveKeys \subseteq LiveKeys',
           \A x \in Shards : \A n \in DOMAIN recycle_ptr_[x] :
              Covered(u, recycle_ptr_[x][n].epoch) => CoveredNext(u, recycle_ptr_[x][n].epoch)
    PROVE  Kept(u, k)'
<1>1. CASE Pinned(u, got[u][k])
  BY <1>1, PinnedKept, Zenon
<1>2. CASE k \in LiveKeys /\ dict[k] = got[u][k]
  BY <1>2, Zenon DEF Kept
<1>3. CASE got[u][k] \in leaked
  BY <1>3, Zenon DEF Kept
<1> QED
  BY <1>1, <1>2, <1>3, Zenon DEF Kept

(* A step that moves no block, ends no scan, and whose thread has found    *)
(* nothing afterwards.                                                     *)
CalmStep(t) ==
    /\ UNCHANGED <<dict, leaked, recycle_ptr_, safe_to_reclaim_epoch_, scan_index,
                   oldest_call>>
    /\ \A u \in Threads \ {t} :
          /\ pc'[u] = pc[u] /\ key'[u] = key[u] /\ early'[u] = early[u]
          /\ todo'[u] = todo[u] /\ got'[u] = got[u] /\ loaded_epoch'[u] = loaded_epoch[u]
          /\ thread_local_entry'[u] = thread_local_entry[u]
    /\ pc'[t] \notin {"bump", "scan", "drain"}
    /\ t \notin Unprotected => early'[t] = {}

LEMMA CalmFrame ==
    ASSUME TypeOK, EarlyInv, NEW t \in Threads, CalmStep(t)
    PROVE  EarlyInv'
<1> SUFFICES ASSUME NEW u \in Threads \ Unprotected PROVE EarlyOf(u)'
  BY Zenon DEF EarlyInv
<1>1. CASE u = t
  BY <1>1, Zenon DEF EarlyOf, CalmStep
<1>2. CASE u # t
  <2>1. LiveKeys \subseteq LiveKeys'
    <3>1. \A l \in Keys : Retired(l)' => Retired(l)
      BY Zenon DEF Retired, CalmStep
    <3> QED
      BY <3>1, Zenon DEF LiveKeys, CalmStep
  <2>2. \A w \in Threads : pc'[w] = "scan" => pc[w] = "scan"
    BY Zenon DEF CalmStep
  <2>3. /\ pc'[u] = pc[u] /\ early'[u] = early[u] /\ todo'[u] = todo[u] /\ got'[u] = got[u]
        /\ loaded_epoch'[u] = loaded_epoch[u]
        /\ thread_local_entry'[u] = thread_local_entry[u]
    BY <1>2, Zenon DEF CalmStep
  <2>4. EarlyOf(u) /\ early[u] \subseteq Keys
    BY ReaderTypes, Zenon DEF EarlyInv
  <2>5. ASSUME NEW k \in early[u] PROVE Kept(u, k)'
    <3>1. Kept(u, k) /\ k \in Keys
      BY <2>4, <2>5, Zenon DEF EarlyOf
    <3> QED
      BY <2>1, <2>2, <2>3, <3>1, KeptFrame, Zenon DEF CalmStep
  <2> QED
    BY <2>3, <2>4, <2>5, Zenon DEF EarlyOf
<1> QED
  BY <1>1, <1>2, Zenon

(* A reader that is not looking pointers up has found none.                *)
LEMMA NothingEarly ==
    ASSUME EarlyInv, NEW t \in Threads, pc[t] # "lookup"
    PROVE  t \notin Unprotected => early[t] = {}
  BY Zenon DEF EarlyInv, EarlyOf

(* The steps of a GET other than a lookup, and the start of an Update.     *)
LEMMA GetStartEarly ==
    ASSUME CoreInv, EarlyInv, NEW t \in Threads, NEW batch \in SUBSET Keys,
           GetStart(t, batch)
    PROVE  EarlyInv'
<1>1. TypeOK /\ pc[t] = "idle" /\ UNCHANGED <<key, early, got, thread_local_entry>>
  BY Zenon DEF CoreInv, GetStart, At
<1>2. /\ pc'[t] = "enque"
      /\ \A u \in Threads \ {t} : /\ pc'[u] = pc[u] /\ todo'[u] = todo[u]
                                  /\ loaded_epoch'[u] = loaded_epoch[u]
  BY <1>1, ReaderTypes, Zenon DEF GetStart, Goto, ProtectLoad
<1>3. CalmStep(t)
  BY <1>1, <1>2, NothingEarly, Zenon DEF CalmStep, GetStart
<1> QED
  BY <1>1, <1>3, CalmFrame, Zenon

LEMMA GetUnprotectedEarly ==
    ASSUME CoreInv, EarlyInv, NEW t \in Threads, NEW batch \in SUBSET Keys,
           GetUnprotected(t, batch)
    PROVE  EarlyInv'
<1>1. /\ TypeOK /\ t \in Unprotected
      /\ UNCHANGED <<key, early, got, thread_local_entry, loaded_epoch>>
      /\ UNCHANGED <<dict, leaked, recycle_ptr_, safe_to_reclaim_epoch_, scan_index,
                     oldest_call>>
  BY Zenon DEF CoreInv, GetUnprotected, epochVars
<1>2. /\ pc'[t] = "lookup"
      /\ \A u \in Threads \ {t} : pc'[u] = pc[u] /\ todo'[u] = todo[u]
  BY <1>1, ReaderTypes, Zenon DEF GetUnprotected, Goto
<1>3. CalmStep(t)
  BY <1>1, <1>2, Zenon DEF CalmStep
<1> QED
  BY <1>1, <1>3, CalmFrame, Zenon

LEMMA GetEntryEarly ==
    ASSUME CoreInv, EarlyInv, NEW t \in Threads, GetEntryForThread(t)
    PROVE  EarlyInv'
<1>1. /\ TypeOK /\ pc[t] = "enque"
      /\ UNCHANGED <<pc, key, early, got, todo, loaded_epoch>>
      /\ UNCHANGED <<dict, leaked, recycle_ptr_, safe_to_reclaim_epoch_, scan_index,
                     oldest_call>>
  BY Zenon DEF CoreInv, GetEntryForThread, At
<1>2. \A u \in Threads \ {t} : thread_local_entry'[u] = thread_local_entry[u]
  BY <1>1, ReaderTypes, Zenon DEF GetEntryForThread, ReserveEntry
<1>3. CalmStep(t)
  BY <1>1, <1>2, NothingEarly, Zenon DEF CalmStep
<1> QED
  BY <1>1, <1>3, CalmFrame, Zenon

LEMMA PushEarly ==
    ASSUME CoreInv, EarlyInv, NEW t \in Threads, PushBegin(t) \/ PushEnd(t) \/ UnProtect(t)
    PROVE  EarlyInv'
<1>1. /\ TypeOK /\ pc[t] # "lookup"
      /\ UNCHANGED <<key, early, got, todo, loaded_epoch, thread_local_entry>>
      /\ UNCHANGED <<dict, leaked, recycle_ptr_, safe_to_reclaim_epoch_, scan_index,
                     oldest_call>>
  BY Zenon DEF CoreInv, PushBegin, PushEnd, UnProtect, At
<1>2. pc'[t] \in {"push", "lookup", "idle"} /\ \A u \in Threads \ {t} : pc'[u] = pc[u]
  BY <1>1, ReaderTypes, Zenon DEF PushBegin, PushEnd, UnProtect, Goto
<1>3. CalmStep(t)
  BY <1>1, <1>2, NothingEarly, Zenon DEF CalmStep
<1> QED
  BY <1>1, <1>3, CalmFrame, Zenon

LEMMA CopyEarly ==
    ASSUME CoreInv, EarlyInv, NEW t \in Threads, Copy(t)
    PROVE  EarlyInv'
<1>1. /\ TypeOK /\ UNCHANGED <<key, todo, loaded_epoch, thread_local_entry>>
      /\ UNCHANGED <<dict, leaked, recycle_ptr_, safe_to_reclaim_epoch_, scan_index,
                     oldest_call>>
  BY Zenon DEF CoreInv, Copy
<1>2. /\ early'[t] = {}
      /\ \A u \in Threads \ {t} : early'[u] = early[u] /\ got'[u] = got[u]
  BY <1>1, ReaderTypes, Zenon DEF Copy
<1>3. pc'[t] \in {"pop", "idle"} /\ \A u \in Threads \ {t} : pc'[u] = pc[u]
  BY <1>1, ReaderTypes, Zenon DEF Copy, Goto
<1>4. CalmStep(t)
  BY <1>1, <1>2, <1>3, Zenon DEF CalmStep
<1> QED
  BY <1>1, <1>4, CalmFrame, Zenon

LEMMA UpdateStartEarly ==
    ASSUME CoreInv, EarlyInv, NEW t \in Threads, NEW k \in Keys, UpdateStart(t, k)
    PROVE  EarlyInv'
<1>1. /\ TypeOK /\ pc[t] = "idle"
      /\ UNCHANGED <<early, got, todo, loaded_epoch, thread_local_entry>>
      /\ UNCHANGED <<dict, leaked, recycle_ptr_, safe_to_reclaim_epoch_, scan_index,
                     oldest_call>>
  BY Zenon DEF CoreInv, UpdateStart, At, epochVars
<1>2. /\ pc'[t] \in {"idle", "insert", "retire"}
      /\ \A u \in Threads \ {t} : pc'[u] = pc[u] /\ key'[u] = key[u]
  <2>1. CASE FreeBlocks(GetShard[k]) = {}
    BY <1>1, <2>1, Zenon DEF UpdateStart
  <2>2. CASE FreeBlocks(GetShard[k]) # {}
    <3>1. /\ key' = [key EXCEPT ![t] = k]
          /\ pc' = [pc EXCEPT ![t] = IF dict[k] = NoBlock THEN "insert" ELSE "retire"]
      BY <2>2, Zenon DEF UpdateStart, Goto
    <3> QED
      BY <1>1, <3>1, ThreadTypes, Zenon
  <2> QED
    BY <2>1, <2>2, Zenon
<1>3. CalmStep(t)
  BY <1>1, <1>2, NothingEarly, Zenon DEF CalmStep
<1> QED
  BY <1>1, <1>3, CalmFrame, Zenon

(* A lookup adds a live key to those found early, or none.                 *)
LEMMA LookupEarly ==
    ASSUME CoreInv, EarlyInv, NEW t \in Threads, NEW k \in Keys, Lookup(t, k)
    PROVE  EarlyInv'
<1>1. /\ TypeOK /\ pc[t] = "lookup" /\ k \in todo[t]
      /\ UNCHANGED <<pc, key, dict, leaked, recycle_ptr_>>
      /\ UNCHANGED <<safe_to_reclaim_epoch_, scan_index, oldest_call, loaded_epoch,
                     thread_local_entry>>
  BY Zenon DEF CoreInv, Lookup, At, epochVars
<1>2. /\ todo'[t] = todo[t] \ {k} /\ got'[t][k] = dict[k]
      /\ early'[t] = IF k \in LiveKeys THEN early[t] \cup {k} ELSE early[t]
      /\ \A l \in Keys : l # k => got'[t][l] = got[t][l]
      /\ \A u \in Threads : u # t =>
            todo'[u] = todo[u] /\ got'[u] = got[u] /\ early'[u] = early[u]
  BY <1>1, ReaderTypes, Zenon DEF Lookup, LiveKeys
<1>3. LiveKeys' = LiveKeys
  BY <1>1, Zenon DEF LiveKeys, Retired
<1>4. ASSUME NEW u \in Threads, NEW l \in Keys, Kept(u, l), u # t \/ l # k
      PROVE  Kept(u, l)'
  <2>1. got'[u][l] = got[u][l]
    BY <1>2, <1>4, Zenon
  <2> QED
    BY <1>1, <1>3, <1>4, <2>1, KeptFrame, Zenon
<1>5. ASSUME NEW u \in Threads \ Unprotected PROVE EarlyOf(u)'
  <2>1. EarlyOf(u) /\ early[u] \subseteq Keys
    BY <1>1, ReaderTypes, Zenon DEF EarlyInv
  <2>2. CASE u # t
    <3>1. \A l \in early[u] : Kept(u, l)'
      BY <1>4, <2>1, <2>2, Zenon DEF EarlyOf
    <3> QED
      BY <1>1, <1>2, <2>1, <2>2, <3>1, Zenon DEF EarlyOf
  <2>3. CASE u = t
    <3>1. k \notin early[t]
      BY <1>1, <2>1, <2>3, Zenon DEF EarlyOf
    <3>2. \A l \in early[t] : Kept(t, l)'
      BY <1>4, <2>1, <2>3, <3>1, Zenon DEF EarlyOf
    <3>3. k \in LiveKeys => Kept(t, k)'
      BY <1>1, <1>2, <1>3, Zenon DEF Kept
    <3> QED
      BY <1>1, <1>2, <2>1, <2>3, <3>1, <3>2, <3>3, ZenonT(40) DEF EarlyOf
  <2> QED
    BY <2>2, <2>3, Zenon
<1> QED
  BY <1>5, Zenon DEF EarlyInv

(* A step of an Update has to keep what the others found.                  *)
LEMMA UpdateEarly ==
    ASSUME TypeOK, EarlyInv, NEW t \in Threads, pc[t] \in Updating,
           UNCHANGED <<early, todo, got>>,
           \A u \in Threads : u # t => pc'[u] = pc[u],
           \A u \in Threads \ Unprotected : \A k \in Keys :
              pc[u] = "lookup" /\ Kept(u, k) => Kept(u, k)'
    PROVE  EarlyInv'
<1> SUFFICES ASSUME NEW u \in Threads \ Unprotected PROVE EarlyOf(u)'
  BY Zenon DEF EarlyInv
<1>1. EarlyOf(u) /\ early[u] \subseteq Keys
  BY ReaderTypes, Zenon DEF EarlyInv
<1>2. CASE u = t
  <2>1. early[u] = {}
    BY <1>1, <1>2, Zenon DEF EarlyOf, Updating
  <2> QED
    BY <2>1, Zenon DEF EarlyOf
<1>3. CASE u # t
  <2>1. ASSUME NEW k \in early[u] PROVE Kept(u, k)'
    BY <1>1, <1>3, <2>1, Zenon DEF EarlyOf
  <2> QED
    BY <1>1, <1>3, <2>1, Zenon DEF EarlyOf
<1> QED
  BY <1>2, <1>3, Zenon

(* An Update that leaves: its key was not live, other keys it dropped are  *)
(* leaked.                                                                 *)
LEMMA LeaveEarly ==
    ASSUME CoreInv, EarlyInv, NEW t \in Threads, pc[t] \in Updating, Unlock(t),
           UNCHANGED <<epochVars, todo, got, early, recycle_ptr_>>,
           key[t] \notin LiveKeys, leaked \subseteq leaked',
           \A k \in Keys : k # key[t] => dict'[k] = dict[k] \/ dict[k] \in leaked'
    PROVE  EarlyInv'
<1>1. /\ TypeOK /\ UNCHANGED <<todo, got, early, recycle_ptr_>>
      /\ UNCHANGED <<safe_to_reclaim_epoch_, scan_index, oldest_call, loaded_epoch,
                     thread_local_entry>>
  BY Zenon DEF CoreInv, epochVars
<1>2. /\ pc'[t] = "idle"
      /\ \A u \in Threads : u # t => pc'[u] = pc[u] /\ key'[u] = key[u]
  BY <1>1, ThreadTypes, Zenon DEF Unlock, Goto
<1>3. \A w \in Threads : pc'[w] = "scan" => pc[w] = "scan"
  BY <1>2, Zenon
<1>4. \A k \in Keys : Retired(k)' => Retired(k)
  BY <1>2, Zenon DEF Retired
<1>5. ASSUME NEW u \in Threads, NEW k \in Keys, Kept(u, k) PROVE Kept(u, k)'
  <2>1. k \in LiveKeys => \/ k \in LiveKeys' /\ dict'[k] = dict[k]
                          \/ dict[k] \in leaked'
    BY <1>4, Zenon DEF LiveKeys
  <2> QED
    BY <1>1, <1>3, <1>5, <2>1, KeptFrame, Zenon
<1> QED
  BY <1>1, <1>2, <1>5, UpdateEarly, Zenon

(* Insert may drop a key: its block is leaked, never freed.                *)
LEMMA InsertEarly ==
    ASSUME CoreInv, EarlyInv, NEW t \in Threads, Insert(t)
    PROVE  EarlyInv'
<1>1. /\ TypeOK /\ pc[t] = "insert" /\ pc[t] \in Updating /\ Unlock(t)
      /\ UNCHANGED <<epochVars, todo, got, early, recycle_ptr_>>
  BY Zenon DEF CoreInv, Insert, At, Updating
<1>2. key[t] \notin LiveKeys
  BY <1>1, Zenon DEF CoreInv, LockInv, UpdateInv, Old, LiveKeys
<1>3. /\ leaked \subseteq leaked'
      /\ \A k \in Keys : k # key[t] => dict'[k] = dict[k] \/ dict[k] \in leaked'
  BY <1>1, ThreadTypes, Zenon DEF Insert
<1> QED
  BY <1>1, <1>2, <1>3, LeaveEarly, Zenon

(* The Update publishes: its key was retired, so nobody relied on it.      *)
LEMMA PublishEarly ==
    ASSUME CoreInv, EarlyInv, NEW t \in Threads, Publish(t)
    PROVE  EarlyInv'
<1>1. /\ TypeOK /\ pc[t] = "drain" /\ pc[t] \in Updating /\ Unlock(t)
      /\ UNCHANGED <<epochVars, todo, got, early, recycle_ptr_>> /\ UNCHANGED leaked
  BY Zenon DEF CoreInv, Publish, At, Updating
<1>2. key[t] \notin LiveKeys
  BY <1>1, Zenon DEF LiveKeys, Retired
<1>3. \A k \in Keys : k # key[t] => dict'[k] = dict[k]
  BY <1>1, ThreadTypes, Zenon DEF Publish
<1> QED
  BY <1>1, <1>2, <1>3, LeaveEarly, Zenon

(* No scan that is running can publish the current epoch.                  *)
LEMMA NowCovered ==
    ASSUME TypeOK, EpochInv, NEW u \in Threads
    PROVE  Covered(u, current_epoch_)
  BY EpochsNat DEF EpochInv, TableInv, Covered

(* The retired block is queued under the current epoch.                    *)
LEMMA RetireEarly ==
    ASSUME CoreInv, EarlyInv, NEW t \in Threads, Retire(t)
    PROVE  EarlyInv'
<1> DEFINE K == key[t]
           B == dict[K]
           s == GetShard[K]
           e == [epoch |-> current_epoch_, block |-> B]
<1>1. TypeOK /\ EpochInv /\ UpdateInv(t)
  BY Zenon DEF CoreInv, LockInv
<1>2. /\ pc[t] = "retire" /\ pc[t] \in Updating
      /\ UNCHANGED <<key, todo, got, early, dict, leaked>>
      /\ UNCHANGED <<safe_to_reclaim_epoch_, scan_index, oldest_call, loaded_epoch,
                     thread_local_entry>>
  BY Zenon DEF Retire, At, Updating, epochVars
<1>3. Pushed(s, e)
  BY Zenon DEF Pushed, Retire, Shard, Old
<1>4. PICK l \in {"bump", "drain"} : pc' = [pc EXCEPT ![t] = l]
  BY Zenon DEF Retire, Goto
<1>5. /\ pc'[t] = l /\ \A u \in Threads : u # t => pc'[u] = pc[u]
      /\ \A w \in Threads : pc'[w] = "scan" => pc[w] = "scan"
  BY <1>1, <1>4, ThreadTypes, Zenon
<1>6. K \in Keys /\ s \in Shards /\ B \in Blocks /\ current_epoch_ \in Epochs
  <2>1. K \in Keys /\ B # NoBlock /\ current_epoch_ \in Epochs
    BY <1>1, <1>2, Zenon DEF UpdateInv, Updating, Old, TypeOK, EpochTypeOK
  <2> QED
    BY <1>1, <2>1, ThreadTypes, PetKVAssumption, Zenon
<1>7. e \in RecycleEntry /\ e.block = B /\ e.epoch = current_epoch_
  BY <1>6, Zenon DEF RecycleEntry
<1>8. \A k \in Keys : k # K /\ k \in LiveKeys => k \in LiveKeys'
  BY <1>2, <1>5, Zenon DEF LiveKeys, Retired
<1> HIDE DEF K, B, s, e
<1>9. ASSUME NEW x \in Shards, NEW n \in DOMAIN recycle_ptr_[x]
      PROVE  n \in DOMAIN recycle_ptr_'[x] /\ recycle_ptr_'[x][n] = recycle_ptr_[x][n]
  <2>1. recycle_ptr_ \in [Shards -> Seq(RecycleEntry)] /\ recycle_ptr_[x] \in Seq(RecycleEntry)
    BY <1>1, ThreadTypes, Zenon
  <2>2. CASE x = s
    <3>1. recycle_ptr_'[x] = Append(recycle_ptr_[x], e)
      BY <1>3, <2>1, <2>2, Zenon DEF Pushed
    <3> QED
      BY <1>7, <2>1, <3>1, QueueAppend
  <2>3. CASE x # s
    BY <1>3, <2>1, <2>3, Zenon DEF Pushed
  <2> QED
    BY <2>2, <2>3, Zenon
<1>10. PICK n \in DOMAIN recycle_ptr_'[s] : recycle_ptr_'[s][n] = e
  <2>1. recycle_ptr_ \in [Shards -> Seq(RecycleEntry)] /\ recycle_ptr_[s] \in Seq(RecycleEntry)
    BY <1>1, <1>6, ThreadTypes, Zenon
  <2>2. recycle_ptr_'[s] = Append(recycle_ptr_[s], e)
    BY <1>3, <1>6, <2>1, Zenon DEF Pushed
  <2>3. Len(recycle_ptr_[s]) + 1 \in DOMAIN Append(recycle_ptr_[s], e)
    BY <1>7, <2>1, QueueAppend
  <2> QED
    BY <1>7, <2>1, <2>2, <2>3, QueueAppend
<1>11. ASSUME NEW u \in Threads, NEW r, Covered(u, r) PROVE CoveredNext(u, r)
  BY <1>2, <1>5, <1>11, CoverFrame, Zenon
<1>12. ASSUME NEW u \in Threads, NEW k \in Keys, Kept(u, k) PROVE Kept(u, k)'
  <2>1. CASE k \in LiveKeys /\ dict[k] = got[u][k] /\ k # K
    BY <1>2, <1>8, <2>1, Zenon DEF Kept
  <2>2. CASE dict[k] = got[u][k] /\ k = K
    <3>1. CoveredNext(u, current_epoch_)
      BY <1>1, <1>11, NowCovered, Zenon
    <3>2. recycle_ptr_'[s][n].block = got'[u][k] /\ CoveredNext(u, recycle_ptr_'[s][n].epoch)
      BY <1>2, <1>7, <1>10, <2>2, <3>1, Zenon DEF B
    <3> QED
      BY <1>6, <3>2, Zenon DEF Kept, Pinned, Covered, CoveredNext
  <2>3. CASE got[u][k] \in leaked
    BY <1>2, <2>3, Zenon DEF Kept
  <2>4. CASE Pinned(u, got[u][k])
    BY <1>2, <1>9, <1>11, <2>4, PinnedKept, Zenon
  <2> QED
    BY <1>12, <2>1, <2>2, <2>3, <2>4, Zenon DEF Kept
<1> QED
  BY <1>1, <1>2, <1>5, <1>12, UpdateEarly, Zenon

(* A step of BumpCurrentEpoch has to keep the covers.                      *)
LEMMA EpochStepEarly ==
    ASSUME TypeOK, EarlyInv, NEW t \in Threads, pc[t] \in {"bump", "scan"},
           UNCHANGED <<key, todo, got, early, dict, leaked, recycle_ptr_>>,
           \A u \in Threads : u # t => pc'[u] = pc[u],
           \A u \in Threads \ Unprotected : \A r \in Nat :
              pc[u] = "lookup" /\ Covered(u, r) => CoveredNext(u, r)
    PROVE  EarlyInv'
<1>1. \A k \in Keys : Retired(k)' => Retired(k)
  BY Zenon DEF Retired
<1>2. LiveKeys \subseteq LiveKeys'
  BY <1>1, Zenon DEF LiveKeys
<1>3. \A x \in Shards : \A n \in DOMAIN recycle_ptr_[x] : recycle_ptr_[x][n].epoch \in Nat
  BY QueueBlockType, EpochAssumption DEF Epochs
<1>4. \A u \in Threads \ Unprotected : \A k \in Keys :
          pc[u] = "lookup" /\ Kept(u, k) => Kept(u, k)'
  BY <1>2, <1>3, CoverKept, Zenon
<1> QED
  BY <1>4, UpdateEarly, Zenon DEF Updating

(* A new scan starts at entry 0: it is past nobody's entry.                *)
LEMMA BumpEarly ==
    ASSUME CoreInv, EarlyInv, NEW t \in Threads, Bump(t)
    PROVE  EarlyInv'
<1>1. /\ TypeOK /\ pc[t] = "bump"
      /\ UNCHANGED <<key, todo, got, early, dict, leaked, recycle_ptr_>>
      /\ UNCHANGED <<safe_to_reclaim_epoch_, thread_local_entry, loaded_epoch>>
  BY Zenon DEF CoreInv, Bump, At
<1>2. /\ scan_index'[t] = 0
      /\ \A u \in Threads : u # t => /\ pc'[u] = pc[u] /\ scan_index'[u] = scan_index[u]
                                     /\ oldest_call'[u] = oldest_call[u]
  BY <1>1, Zenon DEF TypeOK, EpochTypeOK, Bump, Goto, BumpFetchAdd
<1>3. ASSUME NEW u \in Threads, NEW r \in Nat, Covered(u, r) PROVE CoveredNext(u, r)
  <2>1. thread_local_entry[u] \in Nat
    BY <1>1, ReaderTypes, EpochAssumption DEF Entries, NoEntry
  <2>2. ~ (scan_index'[t] > thread_local_entry'[u])
    BY <1>1, <1>2, <2>1
  <2> QED
    BY <1>1, <1>2, <1>3, <2>2, Zenon DEF Covered, CoveredNext
<1> QED
  BY <1>1, <1>2, <1>3, EpochStepEarly, Zenon

(* A finished scan has passed every entry: what it publishes is too old.   *)
LEMMA StoreSafeEarly ==
    ASSUME CoreInv, EarlyInv, NEW t \in Threads, StoreSafe(t)
    PROVE  EarlyInv'
<1>1. /\ TypeOK /\ EpochInv /\ pc[t] = "scan" /\ scan_index[t] = MaxThreadNum
      /\ safe_to_reclaim_epoch_' = oldest_call[t] - 1
      /\ UNCHANGED <<key, todo, got, early, dict, leaked, recycle_ptr_>>
      /\ UNCHANGED <<oldest_call, scan_index, thread_local_entry, loaded_epoch>>
  BY Zenon DEF CoreInv, StoreSafe, At, StoreSafeEpoch
<1>2. pc'[t] = "drain" /\ \A u \in Threads : u # t => pc'[u] = pc[u]
  BY <1>1, ThreadTypes, Zenon DEF StoreSafe, Goto
<1>3. ASSUME NEW u \in Threads \ Unprotected, NEW r \in Nat, pc[u] = "lookup", Covered(u, r)
      PROVE  CoveredNext(u, r)
  <2>1. thread_local_entry[u] \in Entries
    BY <1>1, <1>3, ReaderTypes, Zenon DEF EpochInv, TableInv
  <2>2. scan_index[t] > thread_local_entry[u]
    BY <1>1, <2>1, EpochAssumption DEF Entries
  <2>3. safe_to_reclaim_epoch_' < r
    BY <1>1, <1>3, <2>2, EpochsNat DEF Covered
  <2> QED
    BY <1>1, <1>2, <1>3, <2>3, Zenon DEF Covered, CoveredNext
<1> QED
  BY <1>1, <1>2, <1>3, EpochStepEarly, Zenon

(* MinEpoch of a deque of one.                                             *)
LEMMA MinEpochOne ==
    ASSUME NEW e \in Nat
    PROVE  MinEpoch(<<e>>) = e
<1> DEFINE q == <<e>>
<1>1. q # <<>> /\ DOMAIN q = {1} /\ q[1] = e
  OBVIOUS
<1>2. {q[m] : m \in DOMAIN q} = {e}
  BY <1>1, Zenon
<1> HIDE DEF q
<1>3. MinEpoch(q) = e
  BY <1>1, <1>2 DEF MinEpoch
<1> QED
  BY <1>3, Zenon DEF q

(* A scan that passes a reader's entry takes the reader's epoch with it.   *)
LEMMA ScanEarly ==
    ASSUME CoreInv, ProtectInv, EarlyInv, NEW t \in Threads, Scan(t),
           Readable(scan_index[t]) \subseteq Epochs
    PROVE  EarlyInv'
<1>1. /\ TypeOK /\ EpochInv /\ pc[t] = "scan"
      /\ UNCHANGED <<key, todo, got, early, dict, leaked, recycle_ptr_, pc>>
      /\ UNCHANGED <<safe_to_reclaim_epoch_, thread_local_entry, loaded_epoch>>
  BY Zenon DEF CoreInv, Scan, At, kvVars
<1>2. PICK e \in Readable(scan_index[t]) :
          oldest_call' = [oldest_call EXCEPT ![t] = IF e # 0 /\ e < @ THEN e ELSE @]
  BY Zenon DEF Scan, ScanEntry
<1>3. e \in Nat /\ oldest_call[t] \in Nat /\ scan_index[t] \in Nat
  BY <1>1, <1>2, EpochsNat, EpochAssumption DEF Epochs
<1>4. /\ oldest_call'[t] = IF e # 0 /\ e < oldest_call[t] THEN e ELSE oldest_call[t]
      /\ scan_index'[t] = scan_index[t] + 1
      /\ \A w \in Threads : w # t => /\ scan_index'[w] = scan_index[w]
                                     /\ oldest_call'[w] = oldest_call[w]
  BY <1>1, <1>2, Zenon DEF TypeOK, EpochTypeOK, Scan, ScanEntry
<1>5. ASSUME NEW u \in Threads \ Unprotected, NEW r \in Nat, pc[u] = "lookup", Covered(u, r)
      PROVE  CoveredNext(u, r)
  <2> DEFINE i == thread_local_entry[u]
  <2>1. i # NoEntry /\ i \in Nat /\ loaded_epoch[u] # 0
    <3>1. i # NoEntry /\ loaded_epoch[u] # 0
      BY <1>1, <1>5, Zenon DEF EpochInv, TableInv
    <3>2. i \in Entries
      BY <1>1, <3>1, ReaderTypes, Zenon
    <3> QED
      BY <3>1, <3>2, EpochAssumption DEF Entries
  <2>2. loaded_epoch[u] <= r /\ loaded_epoch[u] \in Nat
    BY <1>1, <1>5, EpochsNat, Zenon DEF Covered
  <2>3. CASE i = scan_index[t]
    <3>1. /\ deque_broken[i] = FALSE /\ deque_busy[i] = FALSE
          /\ epoch_list_[i] = <<loaded_epoch[u]>>
      BY <1>5, <2>1, Zenon DEF ProtectInv, DequeInv
    <3>2. e = loaded_epoch[u]
      BY <1>2, <2>2, <2>3, <3>1, MinEpochOne, Zenon DEF Readable
    <3>3. oldest_call'[t] <= r
      BY <1>3, <1>4, <2>1, <2>2, <3>2
    <3> QED
      BY <1>1, <1>4, <1>5, <3>3, Zenon DEF Covered, CoveredNext
  <2>4. CASE i # scan_index[t]
    <3>1. scan_index'[t] > i => scan_index[t] > i
      BY <1>3, <1>4, <2>1, <2>4
    <3>2. scan_index'[t] > i => oldest_call[t] <= r
      BY <1>1, <1>5, <3>1, Zenon DEF Covered
    <3>3. scan_index'[t] > i => oldest_call'[t] <= r
      BY <1>3, <1>4, <3>2
    <3> QED
      BY <1>1, <1>4, <1>5, <3>3, Zenon DEF Covered, CoveredNext
  <2> QED
    BY <2>3, <2>4, Zenon
<1> QED
  BY <1>1, <1>5, EpochStepEarly, Zenon

(* A covered entry is not freed.                                           *)
LEMMA FreeHeadEarly ==
    ASSUME CoreInv, EarlyInv, NEW t \in Threads, FreeHead(t)
    PROVE  EarlyInv'
<1> DEFINE s == Shard(t)
<1>1. /\ TypeOK /\ EpochInv /\ UpdateInv(t) /\ pc[t] = "drain" /\ pc[t] \in Updating
      /\ UNCHANGED <<pc, key, todo, got, early, dict, leaked>>
      /\ UNCHANGED <<safe_to_reclaim_epoch_, scan_index, oldest_call, loaded_epoch,
                     thread_local_entry>>
  BY Zenon DEF CoreInv, LockInv, FreeHead, At, Updating, epochVars
<1>2. /\ Popped(s) /\ s \in Shards
      /\ Head(recycle_ptr_[s]).epoch <= safe_to_reclaim_epoch_
  BY <1>1, PetKVAssumption, Zenon DEF FreeHead, HeadIsSafe, IsSafeToReclaim, UpdateInv, Shard, Popped
<1> HIDE DEF s
<1>3. /\ recycle_ptr_ \in [Shards -> Seq(RecycleEntry)]
      /\ recycle_ptr_[s] \in Seq(RecycleEntry) /\ recycle_ptr_[s] # <<>>
  BY <1>1, <1>2, ThreadTypes, Zenon DEF Popped
<1>4. ASSUME NEW u \in Threads, NEW x \in Shards, NEW n \in DOMAIN recycle_ptr_[x],
             Covered(u, recycle_ptr_[x][n].epoch)
      PROVE  \E m \in DOMAIN recycle_ptr_'[x] : recycle_ptr_'[x][m] = recycle_ptr_[x][n]
  <2>1. CASE x = s
    <3>1. Head(recycle_ptr_[s]) = recycle_ptr_[s][1]
      BY <1>3, QueueTail, Zenon
    <3>2. recycle_ptr_[s][n].epoch \in Nat /\ safe_to_reclaim_epoch_ \in Nat
      BY <1>1, <1>2, <2>1, QueueBlockType, EpochsNat, EpochAssumption DEF Epochs
    <3>3. n # 1
      BY <1>2, <1>4, <2>1, <3>1, <3>2 DEF Covered
    <3>4. n \in 1 .. Len(recycle_ptr_[s]) /\ Len(recycle_ptr_[s]) \in Nat
      BY <1>3, <2>1, QueueTail, Zenon
    <3>5. n - 1 \in 1 .. Len(recycle_ptr_[s]) - 1 /\ (n - 1) + 1 = n
      BY <3>3, <3>4
    <3>6. recycle_ptr_'[s] = Tail(recycle_ptr_[s])
      BY <1>2, <1>3, Zenon DEF Popped
    <3>7. /\ n - 1 \in DOMAIN Tail(recycle_ptr_[s])
          /\ Tail(recycle_ptr_[s])[n - 1] = recycle_ptr_[s][n]
      BY <1>3, <3>5, QueueTail, Zenon
    <3> QED
      BY <2>1, <3>6, <3>7, Zenon
  <2>2. CASE x # s
    BY <1>2, <1>3, <2>2, Zenon DEF Popped
  <2> QED
    BY <2>1, <2>2, Zenon
<1>5. ASSUME NEW u \in Threads, NEW r, Covered(u, r) PROVE CoveredNext(u, r)
  BY <1>1, <1>5, CoverFrame, Zenon
<1>6. LiveKeys' = LiveKeys
  BY <1>1, Zenon DEF LiveKeys, Retired
<1>7. ASSUME NEW u \in Threads, NEW k \in Keys, Kept(u, k) PROVE Kept(u, k)'
  <2>1. CASE Pinned(u, got[u][k])
    BY <1>1, <1>4, <1>5, <2>1, PinnedKept
  <2>2. CASE k \in LiveKeys /\ dict[k] = got[u][k]
    BY <1>1, <1>6, <2>2, Zenon DEF Kept
  <2>3. CASE got[u][k] \in leaked
    BY <1>1, <2>3, Zenon DEF Kept
  <2> QED
    BY <1>7, <2>1, <2>2, <2>3, Zenon DEF Kept
<1> QED
  BY <1>1, <1>7, UpdateEarly, Zenon

---------------------------------------------------------------------------
(* ReaderInv holds initially.                                              *)
LEMMA InitReader ==
    ASSUME Init
    PROVE  ReaderInv
  BY EpochAssumption, Zenon DEF Init, EpochInit, ReaderInv, ProtectInv, DequeInv, Unused,
     EarlyInv, EarlyOf

(* A step that changes nothing.                                            *)
LEMMA StutterReader ==
    ASSUME TypeOK, ReaderInv, UNCHANGED vars
    PROVE  ReaderInv'
<1>1. UNCHANGED <<epochVars, kvVars>>
  BY Zenon DEF vars
<1>2. ProtectInv'
  BY <1>1, Zenon DEF epochVars, kvVars, ReaderInv, ProtectInv, DequeInv, Unused
<1>3. \A b, u : Pinned(u, b)' = Pinned(u, b)
  BY <1>1, ZenonT(40) DEF epochVars, kvVars, Pinned, Covered
<1>4. LiveKeys' = LiveKeys
  BY <1>1, Zenon DEF kvVars, LiveKeys, Retired
<1>5. EarlyInv'
  BY <1>1, <1>3, <1>4, Zenon DEF kvVars, ReaderInv, EarlyInv, EarlyOf, Kept
<1> QED
  BY <1>2, <1>5, Zenon DEF ReaderInv

(* Nothing is polled where nothing is posted.                              *)
LEMMA NothingToPoll ==
    ASSUME NEW t \in Threads, completions[t] = 0
    PROVE  ~ PollCompletion(t)
  BY DEF PollCompletion

(* Every step keeps ReaderInv when a GET calls UnProtect once.             *)
LEMMA StepReader ==
    ASSUME CoreInv, ReaderInv, ~ UseSglist, NEW t \in Threads, Step(t),
           Scan(t) => Readable(scan_index[t]) \subseteq Epochs
    PROVE  ReaderInv'
<1> SUFFICES ProtectInv' /\ EarlyInv'
  BY Zenon DEF ReaderInv
<1>0. ProtectInv /\ EarlyInv
  BY Zenon DEF ReaderInv
<1>1. ASSUME NEW batch \in SUBSET Keys, GetStart(t, batch) PROVE ProtectInv' /\ EarlyInv'
  BY <1>0, <1>1, GetStartDeque, GetStartEarly, Zenon
<1>2. ASSUME NEW batch \in SUBSET Keys, GetUnprotected(t, batch) PROVE ProtectInv' /\ EarlyInv'
  BY <1>0, <1>2, QuietSteps, GetUnprotectedEarly, Zenon
<1>3. CASE GetEntryForThread(t)
  BY <1>0, <1>3, GetEntryDeque, GetEntryEarly, Zenon
<1>4. CASE PushBegin(t)
  BY <1>0, <1>4, PushBeginDeque, PushEarly, Zenon
<1>5. CASE PushEnd(t)
  BY <1>0, <1>5, PushEndDeque, PushEarly, Zenon
<1>6. ASSUME NEW k \in Keys, Lookup(t, k) PROVE ProtectInv' /\ EarlyInv'
  BY <1>0, <1>6, QuietSteps, LookupEarly, Zenon
<1>7. CASE Copy(t)
  BY <1>0, <1>7, CopyDeque, CopyEarly, Zenon
<1>8. CASE UnProtect(t)
  BY <1>0, <1>8, UnProtectDeque, PushEarly, Zenon
<1>9. ~ PollCompletion(t) /\ ~ CompletionUnProtect(t)
  <2>1. completions[t] = 0 /\ pc[t] # "cpop"
    BY <1>0, Zenon DEF ProtectInv, DequeInv
  <2>2. ~ CompletionUnProtect(t)
    BY <2>1, Zenon DEF CompletionUnProtect, At
  <2>3. ~ PollCompletion(t)
    BY <2>1, NothingToPoll, Zenon
  <2> QED
    BY <2>2, <2>3, Zenon
<1>10. ASSUME NEW k \in Keys, UpdateStart(t, k) PROVE ProtectInv' /\ EarlyInv'
  BY <1>0, <1>10, UpdateStartDeque, UpdateStartEarly, Zenon
<1>11. CASE Insert(t)
  BY <1>0, <1>11, QuietSteps, InsertEarly, Zenon
<1>12. CASE Retire(t)
  BY <1>0, <1>12, QuietSteps, RetireEarly, Zenon
<1>13. CASE Bump(t)
  BY <1>0, <1>13, QuietSteps, BumpEarly, Zenon
<1>14. CASE Scan(t)
  BY <1>0, <1>14, QuietSteps, ScanEarly, Zenon
<1>15. CASE StoreSafe(t)
  BY <1>0, <1>15, QuietSteps, StoreSafeEarly, Zenon
<1>16. CASE FreeHead(t)
  BY <1>0, <1>16, QuietSteps, FreeHeadEarly, Zenon
<1>17. CASE Publish(t)
  BY <1>0, <1>17, QuietSteps, PublishEarly, Zenon
<1> QED
  BY <1>1, <1>2, <1>3, <1>4, <1>5, <1>6, <1>7, <1>8, <1>9, <1>10, <1>11, <1>12, <1>13,
     <1>14, <1>15, <1>16, <1>17, Zenon DEF Step

(* What a reader found early and what keeps it are allocated blocks.       *)
LEMMA KeptIsAllocated ==
    ASSUME PlaceInv, EarlyInv
    PROVE  EarlyReadersSafe
<1> SUFFICES ASSUME NEW t \in Threads \ Unprotected, NEW k \in early[t]
             PROVE  got[t][k] \in allocated
  BY Zenon DEF EarlyReadersSafe
<1>1. Kept(t, k)
  BY Zenon DEF EarlyInv, EarlyOf
<1> QED
  BY <1>1, Zenon DEF Kept, Pinned, PlaceInv, NoDoubleFree

===========================================================================
