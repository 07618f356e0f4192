---------------------------- MODULE PetKVProofs ----------------------------
(***************************************************************************)
(* What holds of PetKV for every number of threads, keys, blocks, shards   *)
(* and epochs: the count of the epochs, the order of the free lists, the   *)
(* account of the blocks, and the theorems, from the steps of              *)
(* PetKVInvariant.                                                         *)
(***************************************************************************)
EXTENDS PetKVInvariant, FiniteSetTheorems, WellFoundedInduction, TLAPS

(* A non-empty set of naturals has a least element.                        *)
LEMMA LeastNatural ==
    ASSUME NEW S \in SUBSET Nat, S # {}
    PROVE  \E e \in S : \A f \in S : e <= f
<1>1. PICK e \in S : \A f \in S : <<f, e>> \notin OpToRel(<, Nat)
  BY NatLessThanWellFounded, WFMin, Zenon
<1>2. \A f \in S : ~ (f < e)
  BY <1>1, Zenon DEF OpToRel
<1> QED
  BY <1>2

(* The limit is wide so that a busy machine does not matter.               *)
USE SMTT(60)

(* Only finitely many writers can still bump.                              *)
LEMMA MayBumpFinite == IsFiniteSet(MayBump) /\ Cardinality(MayBump) \in Nat
<1>1. IsFiniteSet(Writers) /\ MayBump \subseteq Writers
  BY PetKVAssumption, Zenon DEF MayBump
<1>2. IsFiniteSet(MayBump)
  BY <1>1, FS_Subset, Zenon
<1> QED
  BY <1>2, FS_CardinalityType, Zenon

(* The numbers that BumpInv compares.                                      *)
LEMMA BumpTypes ==
    ASSUME TypeOK
    PROVE  current_epoch_ \in Nat /\ MaxEpoch \in Nat
  BY EpochsNat, EpochAssumption

(* A step that bumps nothing leaves room for the others.                   *)
LEMMA BumpFrame ==
    ASSUME TypeOK, BumpInv, NoBump
    PROVE  BumpInv'
<1>1. Cardinality(MayBump') <= Cardinality(MayBump) /\ IsFiniteSet(MayBump')
  BY MayBumpFinite, FS_Subset, Zenon DEF NoBump
<1>2. Cardinality(MayBump') \in Nat
  BY <1>1, FS_CardinalityType, Zenon
<1> QED
  BY <1>1, <1>2, BumpTypes, MayBumpFinite DEF BumpInv, NoBump

(* An Update starts only while there is room for every writer.             *)
LEMMA UpdateStartRoom ==
    ASSUME TypeOK, current_epoch_ + Cardinality(Writers) <= MaxEpoch,
           UNCHANGED current_epoch_
    PROVE  BumpInv'
<1>1. IsFiniteSet(Writers) /\ MayBump' \subseteq Writers
  BY PetKVAssumption, Zenon DEF MayBump
<1>2. Cardinality(MayBump') <= Cardinality(Writers) /\ IsFiniteSet(MayBump')
  BY <1>1, FS_Subset, Zenon
<1>3. Cardinality(MayBump') \in Nat /\ Cardinality(Writers) \in Nat
  BY <1>1, <1>2, FS_CardinalityType, Zenon
<1> QED
  BY <1>2, <1>3, BumpTypes DEF BumpInv

(* A writer that may bump has room for it.                                 *)
LEMMA BumpRoom ==
    ASSUME TypeOK, BumpInv, NEW t \in MayBump
    PROVE  /\ current_epoch_ < MaxEpoch
           /\ Cardinality(MayBump \ {t}) = Cardinality(MayBump) - 1
<1>1. Cardinality(MayBump \ {t}) = Cardinality(MayBump) - 1
  BY MayBumpFinite, FS_RemoveElement, Zenon
<1>2. IsFiniteSet(MayBump \ {t})
  BY MayBumpFinite, FS_Subset, Zenon
<1>3. Cardinality(MayBump \ {t}) \in Nat
  BY <1>2, FS_CardinalityType, Zenon
<1> QED
  BY <1>1, <1>3, BumpTypes, MayBumpFinite DEF BumpInv

---------------------------------------------------------------------------
(* MinEpoch of a deque that is not empty is one of its epochs.             *)
LEMMA MinEpochType ==
    ASSUME NEW q \in Seq(Epochs \ {0}), q # <<>>
    PROVE  MinEpoch(q) \in Epochs
<1> DEFINE S == {q[n] : n \in DOMAIN q}
<1>1. \A n \in DOMAIN q : q[n] \in Epochs
  OBVIOUS
<1>2. 1 \in DOMAIN q
  OBVIOUS
<1>3. S \in SUBSET Nat /\ S # {}
  BY <1>1, <1>2 DEF Epochs
<1>4. \E e \in S : \A f \in S : e <= f
  BY <1>3, LeastNatural, Zenon
<1>5. \E e \in S : \A n \in DOMAIN q : e <= q[n]
  BY <1>4, Zenon
<1>6. MinEpoch(q) \in S
  BY <1>5, Zenon DEF MinEpoch
<1> QED
  BY <1>1, <1>6, Zenon

(* A scan reads an epoch, or 0.                                            *)
LEMMA ReadableEpochs ==
    ASSUME TypeOK, NEW t \in Threads, Scan(t)
    PROVE  Readable(scan_index[t]) \subseteq Epochs
<1> DEFINE i == scan_index[t]
<1>1. i \in Entries
  BY ScanInTable, Zenon DEF Scan, ScanEntry
<1> HIDE DEF i
<1>2. epoch_list_[i] \in Seq(Epochs \ {0})
  BY <1>1, DequeTables, Zenon
<1>3. epoch_list_[i] # <<>> => MinEpoch(epoch_list_[i]) \in Epochs
  BY <1>2, MinEpochType, Zenon
<1>4. MinEpoch(<<>>) = 0 /\ 0 \in Epochs
  BY EpochAssumption DEF MinEpoch, Epochs
<1>5. Readable(i) \subseteq Epochs
  BY <1>3, <1>4, Zenon DEF Readable
<1> QED
  BY <1>5 DEF i

---------------------------------------------------------------------------
(* An empty store satisfies the invariant.                                 *)
LEMMA InitKV == ASSUME Init PROVE KVInv
<1>1. EpochTypeOK
  BY EpochAssumption DEF Init, EpochInit, EpochTypeOK, Epochs, Entries, NoEntry
<1>2. TypeOK
  <2>1. /\ recycle_ptr_ \in [Shards -> Seq(RecycleEntry)]
        /\ recycled_count \in [Shards -> 0 .. BumpPeriod - 1]
        /\ completions \in [Threads -> 0 .. MaxCompletions]
    BY PetKVAssumption DEF Init
  <2>2. fatal \in BOOLEAN
    BY Zenon DEF Init
  <2> QED
    BY <1>1, <2>1, <2>2 DEF Init, TypeOK, PC, NothingGot
<1>3. BumpInv
  <2>1. MayBump = {}
    BY PetKVAssumption DEF Init, MayBump
  <2> QED
    BY <2>1, FS_EmptySet, EpochAssumption DEF BumpInv, Init, EpochInit
<1>4. EpochInv
  BY EpochAssumption DEF Init, EpochInit, EpochInv, TableInv
<1>5. LockInv
  BY Zenon DEF Init, LockInv, UpdateInv, Updating
<1>6. PlaceInv
  BY DEF Init, PlaceInv, NoDoubleFree, QueuedBlocks, Queued, LiveKeys
<1> QED
  BY <1>2, <1>3, <1>4, <1>5, <1>6, Zenon DEF KVInv, CoreInv

(* A step that changes nothing.                                            *)
LEMMA StutterKV ==
    ASSUME KVInv, UNCHANGED vars
    PROVE  KVInv'
<1>1. UNCHANGED <<epochVars, kvVars>> /\ CoreInv /\ BumpInv
  BY Zenon DEF vars, KVInv
<1>2. TypeOK'
  BY <1>1, Zenon DEF CoreInv, TypeOK, EpochTypeOK, epochVars, kvVars
<1>3. BumpInv'
  BY <1>1, Zenon DEF BumpInv, MayBump, epochVars, kvVars
<1>4. EpochInv'
  BY <1>1, Zenon DEF CoreInv, EpochInv, TableInv, epochVars, kvVars
<1>5. LockInv'
  BY <1>1, Zenon DEF CoreInv, LockInv, UpdateInv, Shard, Old, epochVars, kvVars
<1>6. PlaceInv'
  BY <1>1, PlaceFrame, Zenon DEF CoreInv, Retired, epochVars, kvVars
<1> QED
  BY <1>2, <1>3, <1>4, <1>5, <1>6, Zenon DEF KVInv, CoreInv

(* Every step of a thread keeps the invariant.                             *)
LEMMA StepKV ==
    ASSUME KVInv, NEW t \in Threads, Step(t)
    PROVE  KVInv'
<1>0. CoreInv /\ BumpInv /\ TypeOK
  BY Zenon DEF KVInv, CoreInv
<1>1. ASSUME CoreInv' /\ NoBump PROVE KVInv'
  BY <1>0, <1>1, BumpFrame, Zenon DEF KVInv
<1>2. ASSUME NEW batch \in SUBSET Keys, GetStart(t, batch) \/ GetUnprotected(t, batch)
      PROVE  KVInv'
  BY <1>0, <1>1, <1>2, GetStartKeeps, GetUnprotectedKeeps, Zenon
<1>3. CASE GetEntryForThread(t) \/ PushBegin(t) \/ PushEnd(t)
  BY <1>0, <1>1, <1>3, GetEntryForThreadKeeps, PushBeginKeeps, PushEndKeeps, Zenon
<1>4. ASSUME NEW k \in Keys, Lookup(t, k) PROVE KVInv'
  BY <1>0, <1>1, <1>4, LookupKeeps, Zenon
<1>5. CASE Copy(t) \/ UnProtect(t) \/ PollCompletion(t) \/ CompletionUnProtect(t)
  BY <1>0, <1>1, <1>5, CopyKeeps, UnProtectKeeps, PollCompletionKeeps,
     CompletionUnProtectKeeps, Zenon
<1>6. ASSUME NEW k \in Keys, UpdateStart(t, k) PROVE KVInv'
  BY <1>0, <1>6, UpdateStartKeeps, UpdateStartRoom, Zenon DEF KVInv
<1>7. CASE Insert(t) \/ Retire(t)
  BY <1>0, <1>1, <1>7, InsertKeeps, RetireKeeps, Zenon
<1>8. CASE Bump(t)
  <2>1. t \in MayBump
    BY <1>0, <1>8, Zenon DEF CoreInv, LockInv, UpdateInv, Updating, MayBump, Bump, At
  <2>2. current_epoch_ < MaxEpoch /\ Cardinality(MayBump \ {t}) = Cardinality(MayBump) - 1
    BY <1>0, <2>1, BumpRoom, Zenon
  <2>3. CoreInv' /\ MayBump' = MayBump \ {t} /\ current_epoch_' = current_epoch_ + 1
    BY <1>0, <1>8, <2>2, BumpKeeps, Zenon
  <2>4. BumpInv'
    BY <1>0, <2>2, <2>3, BumpTypes, MayBumpFinite DEF BumpInv
  <2> QED
    BY <2>3, <2>4, Zenon DEF KVInv
<1>9. CASE Scan(t)
  BY <1>0, <1>1, <1>9, ReadableEpochs, ScanKeeps, Zenon
<1>10. CASE StoreSafe(t) \/ FreeHead(t) \/ Publish(t)
  BY <1>0, <1>1, <1>10, StoreSafeKeeps, FreeHeadKeeps, PublishKeeps, Zenon
<1> QED
  BY <1>2, <1>3, <1>4, <1>5, <1>6, <1>7, <1>8, <1>9, <1>10, Zenon DEF Step

(* Every step keeps the invariant.                                         *)
LEMMA NextKV == KVInv /\ [Next]_vars => KVInv'
  BY StutterKV, StepKV, Zenon DEF Next, Aborted

(* The invariant holds in every reachable state.                           *)
LEMMA KVInvariant == Spec => []KVInv
<1>1. Init => KVInv
  BY InitKV, Zenon
<1> QED
  BY <1>1, NextKV, PTL DEF Spec

(* The variables of the store and of the epoch manager keep their types;   *)
(* in particular BumpCurrentEpoch never publishes an epoch below 0.        *)
THEOREM KVTypes == Spec => []TypeOK
<1>1. KVInv => TypeOK
  BY Zenon DEF KVInv, CoreInv
<1> QED
  BY <1>1, KVInvariant, PTL

(* No block is queued twice, or queued and already free: ShmEpochRecycle   *)
(* never frees a block a second time (malloc.h:90-105), whatever the       *)
(* readers do with their epochs.                                           *)
THEOREM KVNoDoubleFree == Spec => []NoDoubleFree
<1>1. KVInv => NoDoubleFree
  BY Zenon DEF KVInv, CoreInv, PlaceInv
<1> QED
  BY <1>1, KVInvariant, PTL

(* Every step keeps what the readers rely on.                              *)
LEMMA NextReader ==
    ASSUME ~ UseSglist, KVInv, ReaderInv, [Next]_vars
    PROVE  ReaderInv'
<1>1. CoreInv /\ TypeOK
  BY Zenon DEF KVInv, CoreInv
<1>2. CASE UNCHANGED vars
  BY <1>1, <1>2, StutterReader, Zenon
<1>3. ASSUME NEW t \in Threads, Step(t) PROVE ReaderInv'
  BY <1>1, <1>3, ReadableEpochs, StepReader, Zenon
<1> QED
  BY <1>2, <1>3, Zenon DEF Next, Aborted

(* With one UnProtect per GET, a block that a protected reader found       *)
(* before it was retired is not freed until the reader has copied it       *)
(* (epoch_manager.h ComputeNewSafe, malloc.h Recycle).                     *)
THEOREM EarlyReadersTheorem ==
    ASSUME ~ UseSglist
    PROVE  Spec => []EarlyReadersSafe
<1>1. Init => ReaderInv
  BY InitReader, Zenon
<1>2. KVInv /\ ReaderInv /\ [Next]_vars => ReaderInv'
  BY NextReader, Zenon
<1>3. KVInv /\ ReaderInv => EarlyReadersSafe
  BY KeptIsAllocated, Zenon DEF KVInv, CoreInv, ReaderInv
<1> QED
  BY <1>1, <1>2, <1>3, KVInvariant, PTL DEF Spec

---------------------------------------------------------------------------
(* The order of the free lists.                                            *)

(* No block is queued under an epoch that has not begun.                   *)
QueuePast ==
    \A s \in Shards : \A n \in DOMAIN recycle_ptr_[s] :
        recycle_ptr_[s][n].epoch <= current_epoch_

OrderInv == QueueOrdered /\ QueuePast

Ordered(q) == \A n \in 1 .. Len(q) - 1 : q[n].epoch <= q[n + 1].epoch

(* Appending an entry of the latest epoch.                                 *)
LEMMA AppendOrdered ==
    ASSUME NEW q \in Seq(RecycleEntry), NEW e \in RecycleEntry, Ordered(q),
           \A m \in DOMAIN q : q[m].epoch <= e.epoch
    PROVE  Ordered(Append(q, e))
<1> DEFINE r == Append(q, e)
<1>1. /\ Len(q) \in Nat /\ DOMAIN q = 1 .. Len(q) /\ Len(r) = Len(q) + 1
      /\ \A m \in 1 .. Len(q) : r[m] = q[m]
      /\ r[Len(q) + 1] = e
  OBVIOUS
<1> HIDE DEF r
<1> SUFFICES ASSUME NEW n \in 1 .. Len(r) - 1
             PROVE  r[n].epoch <= r[n + 1].epoch
  BY Zenon DEF Ordered, r
<1>2. CASE n = Len(q)
  <2>1. n \in DOMAIN q /\ r[n] = q[n] /\ r[n + 1] = e
    BY <1>1, <1>2
  <2> QED
    BY <2>1, Zenon
<1>3. CASE n # Len(q)
  <2>1. n \in 1 .. Len(q) - 1 /\ n \in 1 .. Len(q) /\ n + 1 \in 1 .. Len(q)
    <3>1. Len(q) \in Nat /\ Len(r) = Len(q) + 1
      BY <1>1, Zenon
    <3> QED
      BY <1>3, <3>1
  <2>2. r[n] = q[n] /\ r[n + 1] = q[n + 1] /\ q[n].epoch <= q[n + 1].epoch
    BY <1>1, <2>1, Zenon DEF Ordered
  <2> QED
    BY <2>2, Zenon
<1> QED
  BY <1>2, <1>3, Zenon

(* Dropping the head.                                                      *)
LEMMA TailOrdered ==
    ASSUME NEW q \in Seq(RecycleEntry), q # <<>>, Ordered(q)
    PROVE  Ordered(Tail(q))
<1> DEFINE r == Tail(q)
<1>1. /\ Len(q) \in Nat \ {0} /\ Len(r) = Len(q) - 1
      /\ \A m \in 1 .. Len(q) - 1 : r[m] = q[m + 1]
  OBVIOUS
<1> HIDE DEF r
<1> SUFFICES ASSUME NEW n \in 1 .. Len(r) - 1
             PROVE  r[n].epoch <= r[n + 1].epoch
  BY Zenon DEF Ordered, r
<1>2. n + 1 \in 1 .. Len(q) - 1 /\ n \in 1 .. Len(q) - 1
  BY <1>1
<1>3. r[n] = q[n + 1] /\ r[n + 1] = q[(n + 1) + 1]
  BY <1>1, <1>2, Zenon
<1> QED
  BY <1>2, <1>3, Zenon DEF Ordered

(* A step that leaves the free lists alone and takes no epoch back.        *)
LEMMA OrderFrame ==
    ASSUME TypeOK, OrderInv, UNCHANGED recycle_ptr_,
           current_epoch_' \in {current_epoch_, current_epoch_ + 1}
    PROVE  OrderInv'
<1>1. QueueOrdered'
  BY DEF OrderInv, QueueOrdered
<1>2. ASSUME NEW s \in Shards, NEW n \in DOMAIN recycle_ptr_[s]
      PROVE  recycle_ptr_[s][n].epoch <= current_epoch_'
  <2> DEFINE e == recycle_ptr_[s][n].epoch
  <2>1. e <= current_epoch_ /\ e \in Epochs
    BY <1>2, QueueBlockType, Zenon DEF OrderInv, QueuePast
  <2> HIDE DEF e
  <2>2. e <= current_epoch_'
    BY <2>1, EpochsNat DEF Epochs
  <2> QED
    BY <2>2 DEF e
<1> QED
  BY <1>1, <1>2, Zenon DEF OrderInv, QueuePast

(* Recycle queues behind every older epoch.                                *)
LEMMA RetireOrder ==
    ASSUME CoreInv, OrderInv, NEW t \in Threads, Retire(t)
    PROVE  OrderInv'
<1> DEFINE s == Shard(t)
           e == [epoch |-> current_epoch_, block |-> Old(t)]
<1>1. TypeOK /\ UpdateInv(t) /\ UNCHANGED current_epoch_ /\ pc[t] = "retire"
  BY Zenon DEF CoreInv, LockInv, Retire, At, epochVars
<1>2. s \in Shards /\ e \in RecycleEntry /\ e.epoch = current_epoch_
  BY <1>1, PetKVAssumption, ThreadTypes, Zenon
     DEF UpdateInv, Updating, Shard, Old, TypeOK, EpochTypeOK, RecycleEntry
<1>3. Pushed(s, e)
  BY Zenon DEF Retire, Pushed
<1> HIDE DEF s, e
<1>4. ASSUME NEW x \in Shards, NEW n \in DOMAIN recycle_ptr_'[x]
      PROVE  recycle_ptr_'[x][n].epoch <= current_epoch_
  <2>1. CASE recycle_ptr_'[x][n] = e
    BY <1>1, <1>2, <2>1, EpochsNat
  <2>2. CASE n \in DOMAIN recycle_ptr_[x] /\ recycle_ptr_'[x][n] = recycle_ptr_[x][n]
    BY <2>2, Zenon DEF OrderInv, QueuePast
  <2> QED
    BY <1>1, <1>2, <1>3, <1>4, <2>1, <2>2, QueueAppended
<1>5. ASSUME NEW x \in Shards PROVE Ordered(recycle_ptr_'[x])
  <2>1. /\ recycle_ptr_[x] \in Seq(RecycleEntry)
        /\ recycle_ptr_'[x] = IF x = s THEN Append(recycle_ptr_[x], e) ELSE recycle_ptr_[x]
    BY <1>1, <1>2, <1>3, <1>5, ThreadTypes, Zenon DEF Pushed
  <2>2. Ordered(recycle_ptr_[x])
    BY <1>5, Zenon DEF OrderInv, QueueOrdered, Ordered
  <2>3. \A m \in DOMAIN recycle_ptr_[x] : recycle_ptr_[x][m].epoch <= e.epoch
    BY <1>2, <1>5, Zenon DEF OrderInv, QueuePast
  <2>4. Ordered(Append(recycle_ptr_[x], e))
    BY <1>2, <2>1, <2>2, <2>3, AppendOrdered, Zenon
  <2> QED
    BY <2>1, <2>2, <2>4, Zenon
<1> QED
  BY <1>1, <1>4, <1>5, Zenon DEF OrderInv, QueueOrdered, QueuePast, Ordered

(* A list that loses its head stays ordered.                               *)
LEMMA FreeHeadOrder ==
    ASSUME CoreInv, OrderInv, NEW t \in Threads, FreeHead(t)
    PROVE  OrderInv'
<1> DEFINE s == Shard(t)
<1>1. TypeOK /\ UpdateInv(t) /\ UNCHANGED current_epoch_ /\ pc[t] = "drain"
  BY Zenon DEF CoreInv, LockInv, FreeHead, At, epochVars
<1>2. s \in Shards
  BY <1>1, PetKVAssumption, Zenon DEF UpdateInv, Updating, Shard
<1>3. Popped(s)
  BY Zenon DEF FreeHead, HeadIsSafe, Popped
<1> HIDE DEF s
<1>4. ASSUME NEW x \in Shards, NEW n \in DOMAIN recycle_ptr_'[x]
      PROVE  recycle_ptr_'[x][n].epoch <= current_epoch_
  <2>1. \E m \in DOMAIN recycle_ptr_[x] : recycle_ptr_'[x][n] = recycle_ptr_[x][m]
    BY <1>1, <1>2, <1>3, <1>4, QueuePopped
  <2> QED
    BY <1>4, <2>1, Zenon DEF OrderInv, QueuePast
<1>5. ASSUME NEW x \in Shards PROVE Ordered(recycle_ptr_'[x])
  <2>1. /\ recycle_ptr_[x] \in Seq(RecycleEntry)
        /\ recycle_ptr_'[x] = IF x = s THEN Tail(recycle_ptr_[x]) ELSE recycle_ptr_[x]
        /\ x = s => recycle_ptr_[x] # <<>>
    BY <1>1, <1>2, <1>3, <1>5, ThreadTypes, Zenon DEF Popped
  <2>2. Ordered(recycle_ptr_[x])
    BY <1>5, Zenon DEF OrderInv, QueueOrdered, Ordered
  <2>3. x = s => Ordered(Tail(recycle_ptr_[x]))
    BY <2>1, <2>2, TailOrdered, Zenon
  <2> QED
    BY <2>1, <2>2, <2>3, Zenon
<1> QED
  BY <1>1, <1>4, <1>5, Zenon DEF OrderInv, QueueOrdered, QueuePast, Ordered

(* Every step keeps the free lists in order.                               *)
LEMMA NextOrder ==
    ASSUME KVInv, OrderInv, [Next]_vars
    PROVE  OrderInv'
<1>1. CoreInv /\ TypeOK
  BY Zenon DEF KVInv, CoreInv
<1>2. CASE UNCHANGED vars
  BY <1>1, <1>2, OrderFrame, Zenon DEF vars, epochVars, kvVars
<1>3. ASSUME NEW t \in Threads, Step(t) PROVE OrderInv'
  <2>1. CASE Retire(t)
    BY <1>1, <1>3, <2>1, RetireOrder, Zenon
  <2>2. CASE FreeHead(t)
    BY <1>1, <1>3, <2>2, FreeHeadOrder, Zenon
  <2>3. CASE Bump(t)
    BY <1>1, <2>3, OrderFrame, Zenon DEF Bump, BumpFetchAdd
  <2>4. CASE UNCHANGED <<current_epoch_, recycle_ptr_>>
    BY <1>1, <2>4, OrderFrame, Zenon
  <2>5. Retire(t) \/ FreeHead(t) \/ Bump(t) \/ UNCHANGED <<current_epoch_, recycle_ptr_>>
    BY <1>3, Zenon DEF Step, GetStart, GetUnprotected, GetEntryForThread, PushBegin,
       PushEnd, Lookup, Copy, UnProtect, PollCompletion, CompletionUnProtect,
       UpdateStart, Insert, Scan, StoreSafe, Publish, epochVars, kvVars
  <2> QED
    BY <2>1, <2>2, <2>3, <2>4, <2>5, Zenon
<1> QED
  BY <1>2, <1>3, Zenon DEF Next, Aborted

(* ShmEpochRecycle's free lists are ordered by epoch, so the loop that     *)
(* stops at the first unsafe head leaves no block that could be freed      *)
(* (malloc.h:99), however bumps and Updates of the shards interleave.      *)
THEOREM KVQueueOrdered == Spec => []QueueOrdered
<1>1. Init => OrderInv
  BY DEF Init, OrderInv, QueueOrdered, QueuePast
<1>2. KVInv /\ OrderInv /\ [Next]_vars => OrderInv'
  BY NextOrder, Zenon
<1>3. OrderInv => QueueOrdered
  BY Zenon DEF OrderInv
<1> QED
  BY <1>1, <1>2, <1>3, KVInvariant, PTL DEF Spec

---------------------------------------------------------------------------
(* The account of the blocks.                                              *)

(* A block in use is under a key whose block is not retired, on a free     *)
(* list, or new.  A retired key's block does not count: it may be free     *)
(* already, and in use elsewhere.                                          *)
Accounted(b) ==
    \/ \E k \in LiveKeys : dict[k] = b
    \/ Queued(b)
    \/ \E t \in Threads : new_block[t] = b

AccountInv == \A b \in allocated \ leaked : Accounted(b)

(* A step that moves no block.                                             *)
LEMMA AccountFrame ==
    ASSUME AccountInv, UNCHANGED <<dict, allocated, leaked, recycle_ptr_, new_block>>,
           \A l \in Keys : Retired(l)' <=> Retired(l)
    PROVE  AccountInv'
<1>1. LiveKeys' = LiveKeys
  BY Zenon DEF LiveKeys
<1>2. ASSUME NEW b PROVE Queued(b)' <=> Queued(b)
  BY Zenon DEF Queued
<1> QED
  BY <1>1, <1>2, Zenon DEF AccountInv, Accounted

(* The thread of an Update is the only one working on its key's shard.     *)
LEMMA NotRetiredByOthers ==
    ASSUME CoreInv, NEW t \in Threads, pc[t] \in {"insert", "retire"},
           NEW k \in Keys, GetShard[k] = Shard(t)
    PROVE  ~ Retired(k)
<1> SUFFICES ASSUME NEW u \in Threads, key[u] = k, pc[u] \in {"bump", "scan", "drain"}
             PROVE  FALSE
  BY Zenon DEF Retired
<1>1. Shard(u) = Shard(t) /\ pc[u] \in Updating /\ pc[t] \in Updating
  BY Zenon DEF Shard, Updating
<1>2. u = t
  BY <1>1, OneUpdatePerShard, Zenon DEF CoreInv
<1> QED
  BY <1>2, Zenon

(* After an unlock the key of the Update is live, and no other key has     *)
(* changed.                                                                *)
LEMMA UnlockedKeys ==
    ASSUME CoreInv, NEW t \in Threads, pc[t] \in {"insert", "drain"}, Unlock(t)
    PROVE  /\ \A k \in Keys : k = key[t] => ~ Retired(k)'
           /\ \A k \in Keys : Retired(k)' => Retired(k)
           /\ \A u \in Threads : u # t => new_block'[u] = new_block[u]
<1>1. /\ pc \in [Threads -> PC] /\ key \in [Threads -> Keys \cup {NoKey}]
      /\ new_block \in [Threads -> Blocks \cup {NoBlock}]
  BY ThreadTypes, Zenon DEF CoreInv
<1>2. /\ pc'[t] = "idle" /\ key'[t] = NoKey
      /\ \A u \in Threads : u # t => /\ pc'[u] = pc[u] /\ key'[u] = key[u]
                                     /\ new_block'[u] = new_block[u]
  BY <1>1, Zenon DEF Unlock, Goto
<1>3. \A k \in Keys : Retired(k)' => Retired(k)
  BY <1>2, Zenon DEF Retired
<1>4. ASSUME NEW u \in Threads, key'[u] = key[t], pc'[u] \in {"bump", "scan", "drain"}
      PROVE  FALSE
  <2>1. u # t /\ key[u] = key[t] /\ pc[u] \in Updating /\ pc[t] \in Updating
    BY <1>2, <1>4, Zenon DEF Updating
  <2> QED
    BY <2>1, OneUpdatePerShard, Zenon DEF CoreInv, Shard
<1> QED
  BY <1>2, <1>3, <1>4, Zenon DEF Retired

(* The new block of an Update that starts is accounted for.                *)
LEMMA UpdateStartAccount ==
    ASSUME CoreInv, AccountInv, NEW t \in Threads, NEW k \in Keys, UpdateStart(t, k)
    PROVE  AccountInv'
<1>1. pc[t] = "idle" /\ UNCHANGED <<recycle_ptr_, dict, leaked>>
  BY Zenon DEF UpdateStart, At
<1>2. CASE UNCHANGED <<pc, key, new_block, allocated>>
  BY <1>1, <1>2, AccountFrame, Zenon DEF Retired
<1>3. ASSUME NEW b \in Blocks,
             key' = [key EXCEPT ![t] = k], new_block' = [new_block EXCEPT ![t] = b],
             allocated' = allocated \cup {b},
             Goto(t, IF dict[k] = NoBlock THEN "insert" ELSE "retire")
      PROVE  AccountInv'
  <2>1. new_block[t] = NoBlock /\ NoBlock \notin allocated
    BY <1>1, PetKVAssumption, Zenon DEF CoreInv, LockInv, UpdateInv, Updating, TypeOK
  <2>2. /\ pc'[t] \in {"insert", "retire"} /\ new_block'[t] = b
        /\ \A u \in Threads : u # t => /\ pc'[u] = pc[u] /\ key'[u] = key[u]
                                       /\ new_block'[u] = new_block[u]
    BY <1>3, ThreadTypes, Zenon DEF CoreInv, Goto
  <2>3. LiveKeys' = LiveKeys
    <3>1. \A m \in Keys : Retired(m)' <=> Retired(m)
      BY <1>1, <2>2, Zenon DEF Retired
    <3> QED
      BY <1>1, <3>1, Zenon DEF LiveKeys
  <2>4. ASSUME NEW c \in allocated \ leaked PROVE Accounted(c)'
    <3>1. \A u \in Threads : new_block[u] = c => new_block'[u] = c
      BY <2>1, <2>2, <2>4, Zenon
    <3>2. Accounted(c)
      BY ONLY AccountInv, <2>4, Zenon DEF AccountInv
    <3>3. Queued(c) => Queued(c)'
      BY ONLY <1>1, Zenon DEF Queued
    <3>4. dict' = dict
      BY <1>1
    <3> QED
      BY ONLY <2>3, <3>1, <3>2, <3>3, <3>4, Zenon DEF Accounted
  <2>5. Accounted(b)'
    BY <2>2, Zenon DEF Accounted
  <2> QED
    BY <1>1, <1>3, <2>4, <2>5, Zenon DEF AccountInv
<1> QED
  BY <1>2, <1>3, Zenon DEF UpdateStart, FreeBlocks

(* Insert puts the new block in the dictionary; the block of the key it    *)
(* drops is leaked.                                                        *)
LEMMA InsertAccount ==
    ASSUME CoreInv, AccountInv, NEW t \in Threads, Insert(t)
    PROVE  AccountInv'
<1> DEFINE K == key[t]
           N == new_block[t]
<1>1. pc[t] = "insert" /\ Unlock(t) /\ UNCHANGED <<recycle_ptr_, allocated>>
  BY Zenon DEF Insert, At
<1>2. K \in Keys /\ N # NoBlock /\ dict[K] = NoBlock /\ NoBlock \notin allocated
  BY <1>1, PetKVAssumption, ZenonT(40) DEF CoreInv, LockInv, UpdateInv, Updating, Old, TypeOK
<1>3. PICK v \in Keys \cup {NoKey} :
          /\ \A m \in Keys : dict'[m] = IF m = K THEN N ELSE IF m = v THEN NoBlock ELSE dict[m]
          /\ leaked' = IF v = NoKey THEN leaked ELSE leaked \cup {dict[v]}
  <2>1. CASE dict' = [dict EXCEPT ![K] = N] /\ UNCHANGED leaked
    BY <2>1, ThreadTypes, PetKVAssumption, Zenon DEF CoreInv
  <2>2. ASSUME NEW v \in KeysOf(Shard(t)),
               dict' = [dict EXCEPT ![v] = NoBlock, ![K] = N],
               leaked' = leaked \cup {dict[v]}
        PROVE  /\ v \in Keys
               /\ \A m \in Keys : dict'[m] = IF m = K THEN N ELSE IF m = v THEN NoBlock ELSE dict[m]
    BY <2>2, ThreadTypes, ZenonT(40) DEF CoreInv, KeysOf
  <2> QED
    BY <2>1, <2>2, PetKVAssumption, Zenon DEF Insert
<1>4. /\ \A m \in Keys : m = K => ~ Retired(m)'
      /\ \A m \in Keys : Retired(m)' => Retired(m)
      /\ \A u \in Threads : u # t => new_block'[u] = new_block[u]
  BY <1>1, UnlockedKeys, Zenon
<1> HIDE DEF K, N
<1>5. SUFFICES ASSUME NEW b \in allocated, b \notin leaked' PROVE Accounted(b)'
  BY <1>1, Zenon DEF AccountInv
<1>6. Accounted(b)
  BY <1>3, <1>5, Zenon DEF AccountInv
<1>7. CASE b = N
  BY <1>2, <1>3, <1>4, <1>7, Zenon DEF Accounted, LiveKeys
<1>8. CASE \E m \in LiveKeys : dict[m] = b
  <2>1. PICK m \in LiveKeys : dict[m] = b
    BY <1>8, Zenon
  <2>2. m \in Keys /\ m # K /\ m # v /\ b # NoBlock /\ ~ Retired(m)
    BY <1>2, <1>3, <1>5, <2>1, PetKVAssumption, Zenon DEF LiveKeys
  <2>3. m \in LiveKeys' /\ dict'[m] = b
    BY <1>3, <1>4, <2>1, <2>2, Zenon DEF LiveKeys
  <2> QED
    BY <2>3, Zenon DEF Accounted
<1>9. CASE Queued(b)
  BY <1>1, <1>9, Zenon DEF Accounted, Queued
<1>10. CASE b # N /\ \E u \in Threads : new_block[u] = b
  BY <1>4, <1>10, Zenon DEF Accounted, N
<1> QED
  BY <1>6, <1>7, <1>8, <1>9, <1>10, Zenon DEF Accounted

(* Publish puts the new block in the dictionary; the old one was on a free *)
(* list or is free.                                                        *)
LEMMA PublishAccount ==
    ASSUME CoreInv, AccountInv, NEW t \in Threads, Publish(t)
    PROVE  AccountInv'
<1> DEFINE K == key[t]
           N == new_block[t]
<1>1. /\ pc[t] = "drain" /\ Unlock(t) /\ dict' = [dict EXCEPT ![K] = N]
      /\ UNCHANGED <<recycle_ptr_, allocated, leaked>>
  BY Zenon DEF Publish, At
<1>2. K \in Keys /\ N # NoBlock /\ Retired(K)
  BY <1>1, PetKVAssumption, ZenonT(40) DEF CoreInv, LockInv, UpdateInv, Updating, Retired
<1>3. \A m \in Keys : dict'[m] = IF m = K THEN N ELSE dict[m]
  BY <1>1, ThreadTypes, Zenon DEF CoreInv
<1>4. /\ \A m \in Keys : m = K => ~ Retired(m)'
      /\ \A m \in Keys : Retired(m)' => Retired(m)
      /\ \A u \in Threads : u # t => new_block'[u] = new_block[u]
  BY <1>1, UnlockedKeys, Zenon
<1> HIDE DEF K, N
<1>5. SUFFICES ASSUME NEW b \in allocated \ leaked PROVE Accounted(b)'
  BY <1>1, Zenon DEF AccountInv
<1>6. Accounted(b)
  BY <1>5, Zenon DEF AccountInv
<1>7. CASE b = N
  BY <1>2, <1>3, <1>4, <1>7, Zenon DEF Accounted, LiveKeys
<1>8. CASE \E m \in LiveKeys : dict[m] = b
  BY <1>2, <1>3, <1>4, <1>8, Zenon DEF Accounted, LiveKeys
<1>9. CASE Queued(b)
  BY <1>1, <1>9, Zenon DEF Accounted, Queued
<1>10. CASE b # N /\ \E u \in Threads : new_block[u] = b
  BY <1>4, <1>10, Zenon DEF Accounted, N
<1> QED
  BY <1>6, <1>7, <1>8, <1>9, <1>10, Zenon DEF Accounted

(* Recycle moves the old block from the dictionary to a free list.         *)
LEMMA RetireAccount ==
    ASSUME CoreInv, AccountInv, NEW t \in Threads, Retire(t)
    PROVE  AccountInv'
<1> DEFINE K == key[t]
           s == Shard(t)
           e == [epoch |-> current_epoch_, block |-> dict[K]]
<1>1. /\ pc[t] = "retire" /\ Pushed(s, e)
      /\ UNCHANGED <<key, new_block, dict, allocated, leaked>>
  BY Zenon DEF Retire, At, Pushed, Old
<1>2. s \in Shards /\ e \in RecycleEntry /\ e.block = dict[K] /\ K \in Keys
  <2>1. K \in Keys /\ s \in Shards /\ dict[K] # NoBlock /\ TypeOK
    BY <1>1, PetKVAssumption, Zenon DEF CoreInv, LockInv, UpdateInv, Updating, Shard, Old
  <2>2. dict[K] \in Blocks /\ current_epoch_ \in Epochs
    BY <2>1, ThreadTypes, Zenon DEF TypeOK, EpochTypeOK
  <2> QED
    BY <2>1, <2>2, Zenon DEF RecycleEntry
<1>3. \A u \in Threads : u # t => pc'[u] = pc[u]
  BY ThreadTypes, Zenon DEF CoreInv, Retire, Goto
<1> HIDE DEF s, e
<1>4. /\ DOMAIN recycle_ptr_' = Shards
      /\ \E n \in DOMAIN recycle_ptr_'[s] : recycle_ptr_'[s][n] = e
      /\ \A x \in Shards : \A n \in DOMAIN recycle_ptr_[x] :
            n \in DOMAIN recycle_ptr_'[x] /\ recycle_ptr_'[x][n] = recycle_ptr_[x][n]
  <2>1. recycle_ptr_ \in [Shards -> Seq(RecycleEntry)] /\ recycle_ptr_[s] \in Seq(RecycleEntry)
    BY <1>2, ThreadTypes, Zenon DEF CoreInv
  <2>2. \A x \in Shards : recycle_ptr_'[x] = IF x = s THEN Append(recycle_ptr_[s], e)
                                                      ELSE recycle_ptr_[x]
    BY <1>1, <2>1, Zenon DEF Pushed
  <2>3. /\ \E n \in DOMAIN Append(recycle_ptr_[s], e) : Append(recycle_ptr_[s], e)[n] = e
        /\ \A n \in DOMAIN recycle_ptr_[s] : /\ n \in DOMAIN Append(recycle_ptr_[s], e)
                                             /\ Append(recycle_ptr_[s], e)[n] = recycle_ptr_[s][n]
    <3> DEFINE q == recycle_ptr_[s]
    <3>1. q \in Seq(RecycleEntry)
      BY <2>1, Zenon
    <3> HIDE DEF q
    <3>2. /\ DOMAIN q = 1 .. Len(q) /\ Len(q) \in Nat /\ DOMAIN Append(q, e) = 1 .. Len(q) + 1
          /\ \A n \in 1 .. Len(q) : Append(q, e)[n] = q[n]
          /\ Append(q, e)[Len(q) + 1] = e
      BY <1>2, <3>1, QueueAppend, Zenon
    <3>3. Len(q) + 1 \in DOMAIN Append(q, e) /\ DOMAIN q \subseteq DOMAIN Append(q, e)
      BY <3>2
    <3>4. /\ \E n \in DOMAIN Append(q, e) : Append(q, e)[n] = e
          /\ \A n \in DOMAIN q : n \in DOMAIN Append(q, e) /\ Append(q, e)[n] = q[n]
      BY <3>2, <3>3, Zenon
    <3> QED
      BY <3>4 DEF q
  <2> QED
    BY <1>1, <1>2, <2>1, <2>2, <2>3, Zenon DEF Pushed
<1>5. ASSUME NEW b, Queued(b) PROVE Queued(b)'
  <2>0. PICK x \in Shards : \E n \in DOMAIN recycle_ptr_[x] : recycle_ptr_[x][n].block = b
    BY <1>5, Zenon DEF Queued
  <2>1. PICK n \in DOMAIN recycle_ptr_[x] : recycle_ptr_[x][n].block = b
    BY <2>0, Zenon
  <2>2. n \in DOMAIN recycle_ptr_'[x] /\ recycle_ptr_'[x][n] = recycle_ptr_[x][n]
    BY <1>4, Zenon
  <2> QED
    BY <2>1, <2>2, Zenon DEF Queued
<1>6. ASSUME NEW b, b = dict[K] PROVE Queued(b)'
  <2>1. PICK n \in DOMAIN recycle_ptr_'[s] : recycle_ptr_'[s][n] = e
    BY <1>4, Zenon
  <2>2. recycle_ptr_'[s][n].block = b
    BY <1>2, <1>6, <2>1, Zenon
  <2> QED
    BY <1>2, <2>2, Zenon DEF Queued
<1>7. \A m \in Keys : m # K => (Retired(m)' => Retired(m))
  BY <1>1, <1>3, Zenon DEF Retired
<1> HIDE DEF K
<1>8. SUFFICES ASSUME NEW b \in allocated \ leaked PROVE Accounted(b)'
  BY <1>1, Zenon DEF AccountInv
<1>9. Accounted(b)
  BY <1>8, Zenon DEF AccountInv
<1>10. CASE \E m \in LiveKeys : dict[m] = b
  <2>1. PICK m \in LiveKeys : dict[m] = b
    BY <1>10, Zenon
  <2>2. CASE m = K
    <3>1. Queued(b)'
      BY <1>6, <2>1, <2>2, Zenon
    <3> QED
      BY <3>1, Zenon DEF Accounted
  <2>3. CASE m # K
    BY <1>1, <1>7, <2>1, <2>3, Zenon DEF Accounted, LiveKeys
  <2> QED
    BY <2>2, <2>3, Zenon
<1>11. CASE Queued(b)
  BY <1>5, <1>11, Zenon DEF Accounted
<1>12. CASE \E u \in Threads : new_block[u] = b
  BY <1>1, <1>12, Zenon DEF Accounted
<1> QED
  BY <1>9, <1>10, <1>11, <1>12, Zenon DEF Accounted

(* Recycle frees the block it takes off a free list, and no other.         *)
LEMMA FreeHeadAccount ==
    ASSUME CoreInv, AccountInv, NEW t \in Threads, FreeHead(t)
    PROVE  AccountInv'
<1> DEFINE s == Shard(t)
           h == recycle_ptr_[s][1].block
<1>1. pc[t] = "drain" /\ UNCHANGED <<pc, key, new_block, dict, leaked>>
  BY Zenon DEF FreeHead, At
<1>2. s \in Shards
  BY <1>1, PetKVAssumption, Zenon DEF CoreInv, LockInv, UpdateInv, Updating, Shard
<1>3. Popped(s) /\ allocated' = allocated \ {Head(recycle_ptr_[s]).block}
  BY Zenon DEF FreeHead, HeadIsSafe, Popped
<1> HIDE DEF s
<1>4. recycle_ptr_ \in [Shards -> Seq(RecycleEntry)] /\ recycle_ptr_[s] \in Seq(RecycleEntry)
  BY <1>2, ThreadTypes, Zenon DEF CoreInv
<1>5. allocated' = allocated \ {h}
  <2>1. Head(recycle_ptr_[s]) = recycle_ptr_[s][1]
    BY <1>3, <1>4, QueueTail, Zenon DEF Popped
  <2> QED
    BY <1>3, <2>1, Zenon
<1>6. \A x \in Shards : recycle_ptr_'[x] = IF x = s THEN Tail(recycle_ptr_[s]) ELSE recycle_ptr_[x]
  BY <1>3, <1>4, Zenon DEF Popped
<1>7. \A n \in DOMAIN recycle_ptr_[s] :
          n = 1 \/ \E m \in DOMAIN Tail(recycle_ptr_[s]) :
                      Tail(recycle_ptr_[s])[m] = recycle_ptr_[s][n]
  <2> DEFINE q == recycle_ptr_[s]
  <2>1. q \in Seq(RecycleEntry) /\ q # <<>>
    BY <1>3, <1>4, Zenon DEF Popped
  <2> HIDE DEF q
  <2>2. /\ DOMAIN q = 1 .. Len(q) /\ Len(q) \in Nat \ {0} /\ DOMAIN Tail(q) = 1 .. Len(q) - 1
        /\ \A n \in 1 .. Len(q) - 1 : Tail(q)[n] = q[n + 1]
    BY <2>1, QueueTail, Zenon
  <2>3. ASSUME NEW n \in DOMAIN q, n # 1
        PROVE  \E m \in DOMAIN Tail(q) : Tail(q)[m] = q[n]
    <3>1. n - 1 \in 1 .. Len(q) - 1 /\ (n - 1) + 1 = n
      BY <2>2, <2>3
    <3> QED
      BY <2>2, <3>1, Zenon
  <2>4. \A n \in DOMAIN q : n = 1 \/ \E m \in DOMAIN Tail(q) : Tail(q)[m] = q[n]
    BY <2>3, Zenon
  <2> QED
    BY <2>4 DEF q
<1> HIDE DEF h
<1>8. ASSUME NEW b, Queued(b), b # h PROVE Queued(b)'
  <2>1. PICK x \in Shards : \E n \in DOMAIN recycle_ptr_[x] : recycle_ptr_[x][n].block = b
    BY <1>8, Zenon DEF Queued
  <2>2. CASE x = s
    <3>1. PICK n \in DOMAIN recycle_ptr_[s] : recycle_ptr_[s][n].block = b
      BY <2>1, <2>2, Zenon
    <3>2. n # 1
      BY <1>8, <3>1, Zenon DEF h
    <3>3. PICK m \in DOMAIN Tail(recycle_ptr_[s]) :
              Tail(recycle_ptr_[s])[m] = recycle_ptr_[s][n]
      BY <1>7, <3>2, Zenon
    <3>4. m \in DOMAIN recycle_ptr_'[s] /\ recycle_ptr_'[s][m].block = b
      BY <1>2, <1>6, <3>1, <3>3, Zenon
    <3> QED
      BY <1>2, <3>4, Zenon DEF Queued
  <2>3. CASE x # s
    BY <1>6, <2>1, <2>3, Zenon DEF Queued
  <2> QED
    BY <2>2, <2>3, Zenon
<1>9. LiveKeys' = LiveKeys
  BY <1>1, Zenon DEF LiveKeys, Retired
<1> QED
  BY <1>1, <1>5, <1>8, <1>9, Zenon DEF AccountInv, Accounted

(* A step of a GET, of the scan or of the bump moves no block.             *)
LEMMA OtherFrame ==
    ASSUME CoreInv, NEW t \in Threads, Step(t),
           \A k \in Keys : ~ UpdateStart(t, k),
           ~ Insert(t), ~ Retire(t), ~ FreeHead(t), ~ Publish(t)
    PROVE  /\ UNCHANGED <<dict, allocated, leaked, recycle_ptr_, new_block, key, mem>>
           /\ \A k \in Keys : Retired(k)' <=> Retired(k)
<1>1. UNCHANGED <<dict, allocated, leaked, recycle_ptr_, new_block, key, mem>>
  BY Zenon DEF Step, GetStart, GetUnprotected, GetEntryForThread, PushBegin,
     PushEnd, Lookup, Copy, UnProtect, PollCompletion, CompletionUnProtect,
     Bump, Scan, StoreSafe, kvVars
<1>2. \/ UNCHANGED pc
      \/ \E l \in PC : /\ pc' = [pc EXCEPT ![t] = l]
                       /\ l \in {"bump", "scan", "drain"} <=> pc[t] \in {"bump", "scan", "drain"}
  BY Zenon DEF Step, GetStart, GetUnprotected, GetEntryForThread, PushBegin,
     PushEnd, Lookup, Copy, UnProtect, PollCompletion, CompletionUnProtect,
     Bump, Scan, StoreSafe, kvVars, At, Goto, PC
<1>3. \A u \in Threads : pc'[u] \in {"bump", "scan", "drain"} <=> pc[u] \in {"bump", "scan", "drain"}
  <2>1. CASE UNCHANGED pc
    BY <2>1, Zenon
  <2>2. ASSUME NEW l \in PC, pc' = [pc EXCEPT ![t] = l],
               l \in {"bump", "scan", "drain"} <=> pc[t] \in {"bump", "scan", "drain"},
               NEW u \in Threads
        PROVE  pc'[u] \in {"bump", "scan", "drain"} <=> pc[u] \in {"bump", "scan", "drain"}
    <3>1. pc'[t] = l /\ (u # t => pc'[u] = pc[u])
      BY <2>2, PcMoves, Zenon DEF CoreInv
    <3>2. CASE u = t
      BY <2>2, <3>1, <3>2, Zenon
    <3>3. CASE u # t
      BY <3>1, <3>3, Zenon
    <3> QED
      BY <3>2, <3>3, Zenon
  <2> QED
    BY <1>2, <2>1, <2>2, Zenon
<1>4. \A k \in Keys : Retired(k)' <=> Retired(k)
  BY <1>1, <1>3, Zenon DEF Retired
<1> QED
  BY <1>1, <1>4, Zenon

(* Every step keeps the account.                                           *)
LEMMA NextAccount ==
    ASSUME KVInv, AccountInv, [Next]_vars
    PROVE  AccountInv'
<1>1. CoreInv
  BY Zenon DEF KVInv
<1>2. CASE UNCHANGED vars
  BY <1>2, AccountFrame, Zenon DEF vars, kvVars, Retired
<1>3. ASSUME NEW t \in Threads, Step(t) PROVE AccountInv'
  BY <1>1, <1>3, UpdateStartAccount, InsertAccount, RetireAccount, FreeHeadAccount,
     PublishAccount, OtherFrame, AccountFrame, Zenon
<1> QED
  BY <1>2, <1>3, Zenon DEF Next, Aborted

(* Only a forced eviction loses a block: every other allocated block is in *)
(* the dictionary, on a free list or held by an Update in progress         *)
(* (pet_kv.cc:113-142), for any interleaving of the shards' Updates.       *)
THEOREM KVBlocksAccounted == Spec => []BlocksAccounted
<1>1. Init => AccountInv
  BY Zenon DEF Init, AccountInv
<1>2. KVInv /\ AccountInv /\ [Next]_vars => AccountInv'
  BY NextAccount, Zenon
<1>3. AccountInv => BlocksAccounted
  BY Zenon DEF AccountInv, Accounted, BlocksAccounted, LiveKeys
<1> QED
  BY <1>1, <1>2, <1>3, KVInvariant, PTL DEF Spec

---------------------------------------------------------------------------
(* The value behind an entry of the dictionary.                            *)

MemInv ==
    /\ \A k \in LiveKeys : mem[dict[k]] = k
    /\ \A t \in Threads : new_block[t] # NoBlock => mem[new_block[t]] = key[t]

(* A step that moves no pointer and writes no value keeps MemInv.          *)
LEMMA MemFrame ==
    ASSUME MemInv, UNCHANGED <<dict, mem, new_block, key>>,
           \A k \in Keys : Retired(k) => Retired(k)'
    PROVE  MemInv'
<1>1. LiveKeys' \subseteq LiveKeys
  BY Zenon DEF LiveKeys
<1> QED
  BY <1>1, Zenon DEF MemInv

(* An Update that starts writes its value to a free block, which is no     *)
(* live entry's and no other Update's.                                     *)
LEMMA UpdateStartMem ==
    ASSUME CoreInv, MemInv, NEW t \in Threads, NEW k \in Keys, UpdateStart(t, k)
    PROVE  MemInv'
<1>1. pc[t] = "idle" /\ dict' = dict
  BY Zenon DEF UpdateStart, At
<1>2. CASE UNCHANGED <<pc, key, new_block, mem>>
  BY <1>1, <1>2, MemFrame, Zenon DEF Retired
<1>3. ASSUME NEW b \in Blocks, b \notin allocated,
             key' = [key EXCEPT ![t] = k], new_block' = [new_block EXCEPT ![t] = b],
             mem' = [mem EXCEPT ![b] = k],
             Goto(t, IF dict[k] = NoBlock THEN "insert" ELSE "retire")
      PROVE  MemInv'
  <2>1. /\ key'[t] = k /\ new_block'[t] = b
        /\ \A u \in Threads : u # t => /\ pc'[u] = pc[u] /\ key'[u] = key[u]
                                       /\ new_block'[u] = new_block[u]
    BY <1>3, ThreadTypes, Zenon DEF CoreInv, Goto
  <2>2. mem'[b] = k /\ \A c \in allocated : mem'[c] = mem[c]
    BY <1>3, Zenon DEF CoreInv, TypeOK
  <2>3. LiveKeys' \subseteq LiveKeys
    BY <1>1, <2>1, Zenon DEF LiveKeys, Retired
  <2>4. \A m \in LiveKeys' : mem'[dict'[m]] = m
    BY <1>1, <2>2, <2>3, Zenon DEF MemInv, CoreInv, PlaceInv
  <2>5. ASSUME NEW u \in Threads, new_block'[u] # NoBlock
        PROVE  mem'[new_block'[u]] = key'[u]
    <3>1. CASE u = t
      BY <2>1, <2>2, <3>1, Zenon
    <3>2. CASE u # t
      <4>1. new_block'[u] = new_block[u] /\ key'[u] = key[u] /\ new_block[u] # NoBlock
        BY <2>1, <2>5, <3>2, Zenon
      <4>2. new_block[u] \in allocated
        BY <4>1, Zenon DEF CoreInv, PlaceInv
      <4>3. mem'[new_block[u]] = key[u]
        BY <2>2, <4>1, <4>2, Zenon DEF MemInv
      <4> QED
        BY <4>1, <4>3, Zenon
    <3> QED
      BY <3>1, <3>2, Zenon
  <2> QED
    BY <2>4, <2>5, Zenon DEF MemInv
<1> QED
  BY <1>2, <1>3, Zenon DEF UpdateStart, FreeBlocks

(* An Update that leaves has put its block, which holds its value, under   *)
(* its key; an entry it has dropped is none any more.                      *)
LEMMA LeaveMem ==
    ASSUME CoreInv, MemInv, NEW t \in Threads, Insert(t) \/ Publish(t)
    PROVE  MemInv'
<1> DEFINE K == key[t]
           N == new_block[t]
<1>1. pc[t] \in {"insert", "drain"} /\ Unlock(t) /\ mem' = mem
  BY Zenon DEF Insert, Publish, At
<1>2. K \in Keys /\ N # NoBlock /\ mem[N] = K
  BY <1>1, PetKVAssumption, ZenonT(40) DEF CoreInv, LockInv, UpdateInv, Updating, MemInv
<1>3. dict'[K] = N
  <2>1. CASE dict' = [dict EXCEPT ![K] = N]
    BY <1>2, <2>1, ThreadTypes, Zenon DEF CoreInv
  <2>2. ASSUME NEW v \in Keys, dict' = [dict EXCEPT ![v] = NoBlock, ![K] = N]
        PROVE  dict'[K] = N
    BY <1>2, <2>2, ThreadTypes, Zenon DEF CoreInv
  <2> QED
    BY <2>1, <2>2, Zenon DEF Insert, Publish, KeysOf
<1>4. \A m \in Keys : m # K => dict'[m] \in {dict[m], NoBlock}
  <2>1. CASE dict' = [dict EXCEPT ![K] = N]
    BY <1>2, <2>1, ThreadTypes, Zenon DEF CoreInv
  <2>2. ASSUME NEW v \in Keys, dict' = [dict EXCEPT ![v] = NoBlock, ![K] = N],
               NEW m \in Keys, m # K
        PROVE  dict'[m] = IF m = v THEN NoBlock ELSE dict[m]
    BY <1>2, <2>2, ThreadTypes, Zenon DEF CoreInv
  <2> QED
    BY <2>1, <2>2, Zenon DEF Insert, Publish, KeysOf
<1>5. \A u \in Threads : /\ u # t => new_block'[u] = new_block[u] /\ key'[u] = key[u]
                         /\ u = t => new_block'[u] = NoBlock
  BY <1>1, ThreadTypes, Zenon DEF CoreInv, Unlock
<1>6. ASSUME NEW m \in Keys, m # K, Retired(m) PROVE Retired(m)'
  <2>1. \A u \in Threads : u # t => pc'[u] = pc[u] /\ key'[u] = key[u]
    BY <1>1, ThreadTypes, Zenon DEF CoreInv, Unlock, Goto
  <2> QED
    BY <1>6, <2>1, Zenon DEF Retired
<1> HIDE DEF K, N
<1>7. ASSUME NEW m \in LiveKeys' PROVE mem'[dict'[m]] = m
  <2>1. m \in Keys /\ dict'[m] # NoBlock /\ ~ Retired(m)'
    BY Zenon DEF LiveKeys
  <2>2. CASE m = K
    BY <1>1, <1>2, <1>3, <2>1, <2>2, Zenon
  <2>3. CASE m # K
    <3>1. dict'[m] = dict[m] /\ m \in LiveKeys
      BY <1>4, <1>6, <2>1, <2>3, Zenon DEF LiveKeys
    <3> QED
      BY <1>1, <3>1, Zenon DEF MemInv
  <2> QED
    BY <2>2, <2>3, Zenon
<1>8. ASSUME NEW u \in Threads, new_block'[u] # NoBlock
      PROVE  mem'[new_block'[u]] = key'[u]
  BY <1>1, <1>5, <1>8, Zenon DEF MemInv
<1> QED
  BY <1>7, <1>8, Zenon DEF MemInv

(* Every step keeps MemInv.                                                *)
LEMMA NextMem ==
    ASSUME KVInv, MemInv, [Next]_vars
    PROVE  MemInv'
<1>1. CoreInv
  BY Zenon DEF KVInv
<1>2. CASE UNCHANGED vars
  BY <1>2, MemFrame, Zenon DEF vars, kvVars, Retired
<1>3. ASSUME NEW t \in Threads, Retire(t) PROVE MemInv'
  <2>1. UNCHANGED <<dict, mem, new_block, key>> /\ pc[t] = "retire"
    BY <1>3, Zenon DEF Retire, At
  <2>2. \A u \in Threads : u # t => pc'[u] = pc[u]
    BY <1>1, <1>3, ThreadTypes, Zenon DEF CoreInv, Retire, Goto
  <2> QED
    BY <2>1, <2>2, MemFrame, Zenon DEF Retired
<1>4. ASSUME NEW t \in Threads, FreeHead(t) PROVE MemInv'
  BY <1>4, MemFrame, Zenon DEF FreeHead, Retired
<1>5. ASSUME NEW t \in Threads, Step(t) PROVE MemInv'
  BY <1>1, <1>3, <1>4, <1>5, UpdateStartMem, LeaveMem, OtherFrame, MemFrame, Zenon
<1> QED
  BY <1>2, <1>5, Zenon DEF Next, Aborted

(* An entry of the dictionary that no Update is replacing leads to the     *)
(* value of its own key, in a block that is allocated and on no free list  *)
(* (pet_kv.cc:113-142, malloc.h:90-105), for any number of shards that     *)
(* share the epoch and any interleaving of their Updates.                  *)
THEOREM KVLiveEntriesSound == Spec => []LiveEntriesSound
<1>1. Init => MemInv
  BY Zenon DEF Init, MemInv, LiveKeys
<1>2. KVInv /\ MemInv /\ [Next]_vars => MemInv'
  BY NextMem, Zenon
<1>3. KVInv /\ MemInv => LiveEntriesSound
  <2> SUFFICES ASSUME KVInv, MemInv, NEW k \in Keys, dict[k] # NoBlock, ~ Retired(k)
               PROVE  mem[dict[k]] = k /\ dict[k] \in allocated /\ ~ Queued(dict[k])
    BY Zenon DEF LiveEntriesSound
  <2>1. k \in LiveKeys /\ dict[k] \in Blocks
    BY ThreadTypes, Zenon DEF KVInv, CoreInv, LiveKeys
  <2>2. dict[k] \in allocated \ (leaked \cup QueuedBlocks)
    BY <2>1, Zenon DEF KVInv, CoreInv, PlaceInv
  <2> QED
    BY <2>1, <2>2, Zenon DEF MemInv, QueuedBlocks
<1> QED
  BY <1>1, <1>2, <1>3, KVInvariant, PTL DEF Spec

============================================================================
