------------------------- MODULE PetHashOperations -------------------------
(***************************************************************************)
(* What each operation of PetHash on one key does to the invariant of      *)
(* PetHashInvariant, to the counts and to the map.                         *)
(***************************************************************************)
EXTENDS PetHashInvariant

USE SMTT(60)

(* The map after a step that only touches the keys of K.                   *)
KeepsOthers(K) == \A x \in Keys \ K : Get(x)' = Get(x)

LEMMA SetExistingStep ==
    ASSUME CountingFacts, HashInv, NEW k \in Keys, NEW v \in Values, SetExisting(k, v)
    PROVE  HashInv' /\ Tracked /\ Get(k)' = v /\ KeepsOthers({k})
<1>1. PICK p \in Occupied(slot) :
         /\ KeyAt(slot, p) = k /\ p = <<Where(k), SlotOf(k, Where(k))>>
         /\ \A q \in Occupied(slot) : KeyAt(slot, q) = k => q = p
  BY StoredPlace DEF SetExisting
<1>2. p \in Places /\ p[1] \in Chunks /\ p[2] \in Slots
  BY DEF Occupied, Places
<1>3. val' = [val EXCEPT ![p[1]][p[2]] = v]
  BY <1>1 DEF SetExisting
<1>4. /\ slot' = slot /\ chunk_size' = chunk_size /\ size_' = size_
      /\ overflow_count_' = overflow_count_ /\ fatal' = fatal
  BY DEF SetExisting
<1>5. /\ val' \in [Chunks -> [Slots -> Values \cup {NoValue}]]
      /\ val'[p[1]][p[2]] = v
      /\ \A q \in Places : q # p => val'[q[1]][q[2]] = val[q[1]][q[2]]
  <2>1. val \in [Chunks -> [Slots -> Values \cup {NoValue}]]
    BY InvParts
  <2> QED
    BY <1>2, <1>3, <2>1 DEF Places
<1>6. Tracked
  BY <1>4, Zenon DEF Tracked
<1>7. HashInv'
  <2>1. \A q \in Occupied(slot') : val'[q[1]][q[2]] \in Values
    BY <1>4, <1>5, InvParts DEF Occupied
  <2>2. OverflowEnough'
    BY <1>6, TrackedCounts
  <2> QED
    BY <1>4, <1>5, <2>1, <2>2, InvParts, Assemble, Zenon
<1>8. Get(k)' = v
  BY <1>1, <1>2, <1>4, <1>5, <1>7, MappedAreNext DEF Mapped
<1>9. ASSUME NEW x \in Keys, x # k PROVE Get(x)' = Get(x)
  <2>1. CASE \E q \in Places : KeyAt(slot, q) = x
    <3>1. PICK q \in Places : KeyAt(slot, q) = x
      BY <2>1
    <3>2. val'[q[1]][q[2]] = val[q[1]][q[2]]
      BY <3>1, <1>1, <1>5, <1>9, Zenon
    <3>3. Get(x) = val[q[1]][q[2]]
      BY <3>1, MappedAre DEF Mapped
    <3>4. Get(x)' = val'[q[1]][q[2]]
      BY <3>1, <1>4, <1>7, MappedAreNext DEF Mapped
    <3> QED
      BY <3>2, <3>3, <3>4
  <2>2. CASE \A q \in Places : KeyAt(slot, q) # x
    BY <2>2, <1>4, <1>7, MappedAre, MappedAreNext, Zenon DEF Mapped
  <2> QED
    BY <2>1, <2>2
<1> QED
  BY <1>6, <1>7, <1>8, <1>9 DEF KeepsOthers

(* A key whose value came along keeps it.                                  *)
LEMMA MapKept ==
    ASSUME CountingFacts, HashInv, HashInv', NEW x \in Keys,
           \A q \in Places : KeyAt(slot, q) = x =>
               \E r \in Places : /\ KeyAt(slot', r) = x
                                 /\ val'[r[1]][r[2]] = val[q[1]][q[2]],
           (\A q \in Places : KeyAt(slot, q) # x) => \A q \in Places : KeyAt(slot', q) # x
    PROVE  Get(x)' = Get(x)
<1>1. Mapped /\ Mapped'
  BY MappedAre, MappedAreNext
<1>2. CASE \E q \in Places : KeyAt(slot, q) = x
  <2>1. PICK q \in Places : KeyAt(slot, q) = x
    BY <1>2
  <2>2. PICK r \in Places : KeyAt(slot', r) = x /\ val'[r[1]][r[2]] = val[q[1]][q[2]]
    BY <2>1
  <2>3. Get(x) = val[q[1]][q[2]]
    BY <1>1, <2>1 DEF Mapped
  <2>4. Get(x)' = val'[r[1]][r[2]]
    BY <1>1, <2>2 DEF Mapped
  <2> QED
    BY <2>2, <2>3, <2>4
<1>3. CASE \A q \in Places : KeyAt(slot, q) # x
  <2>1. Get(x) = NoValue
    BY <1>1, <1>3 DEF Mapped
  <2>2. Get(x)' = NoValue
    BY <1>1, <1>3 DEF Mapped
  <2> QED
    BY <2>1, <2>2
<1> QED
  BY <1>2, <1>3

(* PutAt writes one slot.                                                  *)
LEMMA PutAtWrites ==
    ASSUME HashInv, NEW c \in Chunks, NEW s \in Slots, NEW k \in Keys, NEW v \in Values,
           NEW p, p = <<c, s>>, PutAt(c, s, k, v),
           \A q \in Occupied(slot) : q # p => KeyAt(slot, q) # k
    PROVE  /\ p \in Places /\ slot' = Written(slot, p, k)
           /\ slot' \in Tables /\ val' \in [Chunks -> [Slots -> Values \cup {NoValue}]]
           /\ KeyAt(slot', p) = k /\ val'[p[1]][p[2]] = v
           /\ \A q \in Places : q # p => /\ KeyAt(slot', q) = KeyAt(slot, q)
                                         /\ val'[q[1]][q[2]] = val[q[1]][q[2]]
           /\ Unique(slot') /\ \A q \in Occupied(slot') : val'[q[1]][q[2]] \in Values
<1>1. TypeOK /\ StoredOnce
  BY Zenon DEF HashInv
<1> QED
  BY <1>1, PutAtKeeps

LEMMA InsertStep ==
    ASSUME CountingFacts, HashInv, NEW k \in Keys, NEW v \in Values, Insert(k, v)
    PROVE  HashInv' /\ Tracked /\ Get(k)' = v /\ KeepsOthers({k})
<1> DEFINE At(i) == Pos(k, i)
<1>1. PICK i \in Chunks :
         /\ ~ Exists(k)
         /\ HasRoom(At(i))
         /\ PutAt(At(i), FirstFree(At(i)), k, v)
         /\ chunk_size' = [chunk_size EXCEPT ![At(i)] = @ + 1]
         /\ overflow_count_' = Incremented(Passed(k, i))
         /\ size_' = size_ + 1
         /\ fatal' = fatal
  BY Zenon DEF Insert
<1> DEFINE c == At(i)
           s == FirstFree(c)
           p == <<c, s>>
<1>2. c \in Chunks
  BY Chain, HashAssumption DEF Chunks
<1>3. s \in Slots /\ slot[c][s] = NoKey
  BY <1>1, <1>2, FreeSlot
<1>4. \A q \in Places : KeyAt(slot, q) # k
  BY <1>1, MissedKey
<1>5. \A d \in Chunks : Passes(k, c, d) <=> d \in Passed(k, i)
  BY PassedChunks
<1> HIDE DEF c, s
<1>6. /\ p \in Places /\ slot' = Written(slot, p, k)
      /\ slot' \in Tables /\ val' \in [Chunks -> [Slots -> Values \cup {NoValue}]]
      /\ KeyAt(slot', p) = k /\ val'[p[1]][p[2]] = v
      /\ \A q \in Places : q # p => /\ KeyAt(slot', q) = KeyAt(slot, q)
                                    /\ val'[q[1]][q[2]] = val[q[1]][q[2]]
      /\ Unique(slot') /\ \A q \in Occupied(slot') : val'[q[1]][q[2]] \in Values
  <2>1. \A q \in Occupied(slot) : q # p => KeyAt(slot, q) # k
    BY <1>4 DEF Occupied
  <2>2. PutAt(c, s, k, v)
    BY <1>1 DEF c, s
  <2> QED
    BY <1>2, <1>3, <2>1, <2>2, PutAtWrites
<1>7. p[1] = c /\ KeyAt(slot, p) = NoKey /\ k # NoKey
  BY <1>3, HashAssumption DEF KeyAt
<1> HIDE DEF p
<1>8. /\ Cardinality(Occupied(slot')) = Cardinality(Occupied(slot)) + 1
      /\ \A d \in Chunks : Cardinality(StoredIn(slot', d)) =
            IF d = c THEN Cardinality(StoredIn(slot, d)) + 1
            ELSE Cardinality(StoredIn(slot, d))
      /\ \A d \in Chunks : Cardinality(PassingIn(slot', d)) =
            IF d \in Passed(k, i) THEN Cardinality(PassingIn(slot, d)) + 1
            ELSE Cardinality(PassingIn(slot, d))
  BY <1>5, <1>6, <1>7, InvParts, WriteCounts, FiniteTable DEF Bit
<1>9. Tracked
  <2>1. ASSUME NEW d \in Chunks
        PROVE  overflow_count_'[d] = IF d \in Passed(k, i) THEN IncOverflow(overflow_count_[d])
                                     ELSE overflow_count_[d]
    BY <1>1 DEF Incremented
  <2> QED
    BY <2>1, <1>8 DEF Tracked
<1>10. HashInv'
  <2>1. OverflowEnough' /\ \A d \in Chunks : overflow_count_'[d] \in 0 .. MaxOverflow
    BY <1>9, TrackedCounts
  <2>2. overflow_count_' \in [Chunks -> 0 .. MaxOverflow]
    BY <1>1, <2>1 DEF Incremented
  <2>3. chunk_size' = [d \in Chunks |-> Cardinality(StoredIn(slot', d))]
    <3>1. chunk_size' = [chunk_size EXCEPT ![c] = @ + 1]
      BY <1>1 DEF c
    <3>2. chunk_size = [d \in Chunks |-> Cardinality(StoredIn(slot, d))]
      BY InvParts
    <3>3. chunk_size' = [d \in Chunks |-> IF d = c THEN chunk_size[d] + 1 ELSE chunk_size[d]]
      BY <3>1, <3>2
    <3>4. \A d \in Chunks : (IF d = c THEN chunk_size[d] + 1 ELSE chunk_size[d])
                              = Cardinality(StoredIn(slot', d))
      BY <1>8, <3>2
    <3> QED
      BY <3>3, <3>4, Zenon
  <2>4. size_' = Cardinality(Occupied(slot')) /\ fatal' \in BOOLEAN
    BY <1>1, <1>8, InvParts
  <2> QED
    BY <1>6, <2>1, <2>2, <2>3, <2>4, Assemble, Zenon
<1>11. Get(k)' = v
  BY <1>6, <1>10, MappedAreNext DEF Mapped
<1>12. ASSUME NEW x \in Keys, x # k PROVE Get(x)' = Get(x)
  <2>1. \A q \in Places : KeyAt(slot, q) = x =>
           q # p /\ KeyAt(slot', q) = x /\ val'[q[1]][q[2]] = val[q[1]][q[2]]
    <3>1. x # NoKey
      BY HashAssumption
    <3> QED
      BY <1>6, <1>7, <3>1, Zenon
  <2>2. (\A q \in Places : KeyAt(slot, q) # x) => \A q \in Places : KeyAt(slot', q) # x
    BY <1>6, <1>12
  <2> QED
    BY <1>10, <2>1, <2>2, MapKept
<1> QED
  BY <1>9, <1>10, <1>11, <1>12 DEF KeepsOthers

LEMMA DeleteStep ==
    ASSUME CountingFacts, HashInv, NEW k \in Keys, Delete(k)
    PROVE  HashInv' /\ Tracked /\ Get(k)' = NoValue /\ KeepsOthers({k})
<1>1. PICK p \in Occupied(slot) :
         /\ KeyAt(slot, p) = k /\ p = <<Where(k), SlotOf(k, Where(k))>>
         /\ \A q \in Occupied(slot) : KeyAt(slot, q) = k => q = p
         /\ \A c \in Chunks : Passes(k, p[1], c) <=> c \in Passed(k, Distance(k))
  BY StoredPlace DEF Delete
<1>2. p \in Places /\ p[1] \in Chunks /\ p[2] \in Slots
  BY DEF Occupied, Places
<1>3. /\ slot' = Written(slot, p, NoKey)
      /\ chunk_size' = [chunk_size EXCEPT ![p[1]] = @ - 1]
      /\ overflow_count_' = Decremented(Passed(k, Distance(k)))
      /\ size_' = size_ - 1 /\ val' = val /\ fatal' = fatal
  BY <1>1 DEF Delete, Written
<1>4. /\ slot \in Tables /\ val \in [Chunks -> [Slots -> Values \cup {NoValue}]]
      /\ Unique(slot) /\ \A q \in Occupied(slot) : val[q[1]][q[2]] \in Values
      /\ chunk_size = [c \in Chunks |-> Cardinality(StoredIn(slot, c))]
      /\ size_ = Cardinality(Occupied(slot)) /\ fatal \in BOOLEAN
  BY InvParts
<1>5. /\ slot' \in Tables /\ KeyAt(slot', p) = NoKey /\ k # NoKey
      /\ \A q \in Places : q # p => KeyAt(slot', q) = KeyAt(slot, q)
  BY <1>2, <1>3, <1>4, WriteOne, HashAssumption
<1>6. Unique(slot') /\ \A q \in Occupied(slot') : val'[q[1]][q[2]] \in Values
  <2>1. Unique(slot')
    BY <1>2, <1>3, <1>4, WriteUnique
  <2>2. \A q \in Occupied(slot') : q \in Occupied(slot)
    BY <1>5 DEF Occupied
  <2> QED
    BY <1>3, <1>4, <2>1, <2>2, Zenon
<1>7. /\ Cardinality(Occupied(slot')) = Cardinality(Occupied(slot)) - 1
      /\ \A d \in Chunks : Cardinality(StoredIn(slot', d)) =
            IF d = p[1] THEN Cardinality(StoredIn(slot, d)) - 1
            ELSE Cardinality(StoredIn(slot, d))
      /\ \A d \in Chunks : Cardinality(PassingIn(slot', d)) =
            IF d \in Passed(k, Distance(k)) THEN Cardinality(PassingIn(slot, d)) - 1
            ELSE Cardinality(PassingIn(slot, d))
      /\ \A d \in Chunks : d \in Passed(k, Distance(k)) =>
            Cardinality(PassingIn(slot, d)) >= 1
  <2> DEFINE n == slot'
  <2>1. n = Written(slot, p, NoKey)
    BY <1>3
  <2> HIDE DEF n
  <2>2. /\ Cardinality(Occupied(n)) =
              Cardinality(Occupied(slot)) - Bit(k # NoKey) + Bit(NoKey # NoKey)
        /\ \A c \in Chunks : Cardinality(StoredIn(n, c)) =
              IF c = p[1]
              THEN Cardinality(StoredIn(slot, c)) - Bit(k # NoKey) + Bit(NoKey # NoKey)
              ELSE Cardinality(StoredIn(slot, c))
        /\ \A c \in Chunks : Cardinality(PassingIn(n, c)) =
              Cardinality(PassingIn(slot, c))
              - Bit(k # NoKey /\ Passes(k, p[1], c))
              + Bit(NoKey # NoKey /\ Passes(NoKey, p[1], c))
        /\ \A c \in Chunks : k # NoKey /\ Passes(k, p[1], c) =>
              Cardinality(PassingIn(slot, c)) >= 1
    BY ONLY CountingFacts, <1>1, <1>2, <1>4, <2>1, WriteCounts
  <2> QED
    BY ONLY CountingFacts, <1>1, <1>5, <2>2, FiniteTable DEF Bit, n
<1>8. Tracked
  BY <1>3, <1>7, DecrementedAt DEF Tracked
<1>9. HashInv'
  <2>1. OverflowEnough' /\ \A d \in Chunks : overflow_count_'[d] \in 0 .. MaxOverflow
    BY <1>8, TrackedCounts
  <2>2. overflow_count_' \in [Chunks -> 0 .. MaxOverflow]
    <3>1. overflow_count_' = [c \in Chunks |-> overflow_count_'[c]]
      BY <1>3, DecrementedAt
    <3> QED
      BY <2>1, <3>1
  <2>3. chunk_size' = [d \in Chunks |-> Cardinality(StoredIn(slot', d))]
    <3>1. chunk_size' = [d \in Chunks |-> IF d = p[1] THEN chunk_size[d] - 1 ELSE chunk_size[d]]
      BY <1>2, <1>3, <1>4
    <3>2. \A d \in Chunks : (IF d = p[1] THEN chunk_size[d] - 1 ELSE chunk_size[d])
                              = Cardinality(StoredIn(slot', d))
      BY <1>4, <1>7
    <3> QED
      BY <3>1, <3>2, Zenon
  <2>4. size_' = Cardinality(Occupied(slot'))
    BY <1>3, <1>4, <1>7
  <2>5. val' \in [Chunks -> [Slots -> Values \cup {NoValue}]] /\ fatal' \in BOOLEAN
    BY <1>3, <1>4
  <2> QED
    BY <1>5, <1>6, <2>1, <2>2, <2>3, <2>4, <2>5, Assemble, Zenon
<1>10. Get(k)' = NoValue
  <2>1. \A q \in Places : KeyAt(slot', q) # k
    BY <1>1, <1>5, Zenon DEF Occupied
  <2> QED
    BY <1>9, <2>1, MappedAreNext DEF Mapped
<1>11. ASSUME NEW x \in Keys, x # k PROVE Get(x)' = Get(x)
  <2>1. \A q \in Places : KeyAt(slot, q) = x =>
           KeyAt(slot', q) = x /\ val'[q[1]][q[2]] = val[q[1]][q[2]]
    BY <1>1, <1>3, <1>5, <1>11, Zenon
  <2>2. (\A q \in Places : KeyAt(slot, q) # x) => \A q \in Places : KeyAt(slot', q) # x
    <3>1. x # NoKey
      BY HashAssumption
    <3> QED
      BY <1>5, <3>1, Zenon
  <2> QED
    BY <1>9, <2>1, <2>2, MapKept
<1> QED
  BY <1>8, <1>9, <1>10, <1>11 DEF KeepsOthers

(* Aborting touches nothing but fatal.                                     *)
LEMMA AbortStep ==
    ASSUME CountingFacts, HashInv, fatal' \in BOOLEAN, UNCHANGED table
    PROVE  HashInv' /\ Tracked /\ KeepsOthers({})
<1>1. /\ slot' = slot /\ val' = val /\ chunk_size' = chunk_size
      /\ overflow_count_' = overflow_count_ /\ size_' = size_
  BY DEF table
<1>2. Tracked
  BY <1>1, Zenon DEF Tracked
<1>3. HashInv'
  <2>1. OverflowEnough'
    BY <1>2, TrackedCounts
  <2> QED
    BY <1>1, <2>1, InvParts, Assemble, Zenon
<1>4. ASSUME NEW x \in Keys PROVE Get(x)' = Get(x)
  BY <1>1, <1>3, MapKept, Zenon
<1> QED
  BY <1>2, <1>3, <1>4 DEF KeepsOthers

(* Eviction: the key in the victim's slot gives way to k.                  *)
Evicts(k, v, victim) ==
    /\ fatal' = fatal /\ Get(k) = NoValue /\ Get(k)' = v
    /\ victim # k /\ Get(victim) # NoValue /\ Get(victim)' = NoValue
    /\ KeepsOthers({k, victim})

LEMMA InsertFullStep ==
    ASSUME CountingFacts, HashInv, NEW k \in Keys, NEW v \in Values, NEW force_insert \in BOOLEAN,
           InsertFull(k, v, force_insert)
    PROVE  /\ HashInv' /\ Tracked
           /\ \/ fatal' = TRUE /\ KeepsOthers({})
              \/ \E victim \in Keys : Evicts(k, v, victim)
<1>1. CASE ~ (force_insert /\ ChunkNum > 1)
  <2>1. fatal' = TRUE /\ UNCHANGED table
    BY <1>1 DEF InsertFull
  <2>2. fatal' \in BOOLEAN
    BY <2>1
  <2>3. HashInv' /\ Tracked /\ KeepsOthers({})
    BY <2>1, <2>2, AbortStep, Zenon
  <2> QED
    BY <2>1, <2>3, Zenon
<1>2. CASE force_insert /\ ChunkNum > 1
  <2> DEFINE c == Home[k]
             s == Sign[k] % kMaxSize
             victim == slot[c][s]
             p == <<c, s>>
  <2>1. /\ ~ Exists(k) /\ ~ HasRoom(c)
        /\ PutAt(c, s, k, v)
        /\ overflow_count_' = Decremented(Passed(victim, Distance(victim)))
        /\ chunk_size' = chunk_size /\ size_' = size_ /\ fatal' = fatal
    BY <1>2, Zenon DEF InsertFull
  <2>2. c \in Chunks /\ s \in Slots
    <3>1. c \in Chunks /\ Sign[k] \in Int /\ kMaxSize \in Nat \ {0}
      BY HashAssumption
    <3>2. \A a \in Int : a % kMaxSize \in 0 .. kMaxSize - 1
      BY <3>1, ModDiv
    <3> QED
      BY <3>1, <3>2, Zenon DEF Slots
  <2>3. victim \in Keys /\ victim # NoKey /\ k # NoKey
    <3>1. victim \in Keys
      BY <2>1, <2>2, FreeSlot, Zenon
    <3> QED
      BY <3>1, HashAssumption, Zenon
  <2>4. \A d \in Chunks : ~ Passes(k, c, d)
    <3>1. Pos(k, 0) = c /\ 0 \in Chunks
      BY Chain, HashAssumption DEF Chunks
    <3>2. \A d : d \notin Passed(k, 0)
      BY DEF Passed
    <3> QED
      BY <3>1, <3>2, PassedChunks
  <2> HIDE DEF c, s
  <2>5. p \in Places /\ p[1] = c /\ p[2] = s /\ KeyAt(slot, p) = victim
    BY <2>2 DEF Places, KeyAt
  <2> HIDE DEF p, victim
  <2>6. \A q \in Places : KeyAt(slot, q) # k
    BY <2>1, MissedKey
  <2>7. victim # k
    BY <2>5, <2>6
  <2>8. p \in Occupied(slot) /\ p \in AllStored /\ AtSlot(p) = victim
    BY <2>3, <2>5, OfSlot DEF Occupied
  <2>9. Exists(victim)
    BY <2>3, <2>8, LookupsWork DEF Lookups
  <2>10. /\ \A q \in Occupied(slot) : KeyAt(slot, q) = victim => q = p
         /\ \A d \in Chunks : Passes(victim, c, d) <=> d \in Passed(victim, Distance(victim))
    <3>1. PICK r \in Occupied(slot) :
             /\ KeyAt(slot, r) = victim
             /\ \A q \in Occupied(slot) : KeyAt(slot, q) = victim => q = r
             /\ \A d \in Chunks : Passes(victim, r[1], d) <=> d \in Passed(victim, Distance(victim))
      BY <2>3, <2>9, StoredPlace
    <3>2. r = p
      BY <3>1, <2>5, <2>8
    <3> QED
      BY <3>1, <3>2, <2>5
  <2>11. /\ slot' = Written(slot, p, k)
         /\ slot' \in Tables /\ val' \in [Chunks -> [Slots -> Values \cup {NoValue}]]
         /\ KeyAt(slot', p) = k /\ val'[p[1]][p[2]] = v
         /\ \A q \in Places : q # p => /\ KeyAt(slot', q) = KeyAt(slot, q)
                                       /\ val'[q[1]][q[2]] = val[q[1]][q[2]]
         /\ Unique(slot') /\ \A q \in Occupied(slot') : val'[q[1]][q[2]] \in Values
    <3>1. \A q \in Occupied(slot) : q # p => KeyAt(slot, q) # k
      BY <2>6 DEF Occupied
    <3>2. p = <<c, s>>
      BY DEF p
    <3> QED
      BY <2>1, <2>2, <3>1, <3>2, PutAtWrites
  <2>12. /\ Cardinality(Occupied(slot')) = Cardinality(Occupied(slot))
         /\ \A d \in Chunks : Cardinality(StoredIn(slot', d)) = Cardinality(StoredIn(slot, d))
         /\ \A d \in Chunks : Cardinality(PassingIn(slot', d)) =
               IF d \in Passed(victim, Distance(victim)) THEN Cardinality(PassingIn(slot, d)) - 1
               ELSE Cardinality(PassingIn(slot, d))
         /\ \A d \in Chunks : d \in Passed(victim, Distance(victim)) =>
               Cardinality(PassingIn(slot, d)) >= 1
    BY <2>3, <2>4, <2>5, <2>10, <2>11, InvParts, WriteCounts, FiniteTable DEF Bit
  <2>13. Tracked
    BY <2>1, <2>12, DecrementedAt DEF Tracked
  <2>14. HashInv'
    <3>1. OverflowEnough' /\ \A d \in Chunks : overflow_count_'[d] \in 0 .. MaxOverflow
      BY <2>13, TrackedCounts
    <3>2. overflow_count_' \in [Chunks -> 0 .. MaxOverflow]
      <4>1. overflow_count_' = [d \in Chunks |-> overflow_count_'[d]]
        BY <2>1, DecrementedAt
      <4> QED
        BY <3>1, <4>1
    <3>3. chunk_size' = [d \in Chunks |-> Cardinality(StoredIn(slot', d))]
      <4>1. chunk_size = [d \in Chunks |-> Cardinality(StoredIn(slot, d))]
        BY InvParts
      <4> QED
        BY <2>1, <2>12, <4>1, Zenon
    <3>4. size_' = Cardinality(Occupied(slot')) /\ fatal' \in BOOLEAN
      BY <2>1, <2>12, InvParts
    <3> QED
      BY <2>11, <3>1, <3>2, <3>3, <3>4, Assemble, Zenon
  <2>15. Get(k)' = v /\ Get(k) = NoValue
    BY <2>5, <2>6, <2>11, <2>14, MappedAre, MappedAreNext DEF Mapped
  <2>16. Get(victim) # NoValue
    <3>1. Get(victim) = val[p[1]][p[2]]
      BY <2>3, <2>5, MappedAre DEF Mapped
    <3> QED
      BY <3>1, <2>8, InvParts, HashAssumption
  <2>17. \A x \in Keys : x = victim => Get(x)' = NoValue
    <3> SUFFICES ASSUME NEW x \in Keys, x = victim PROVE Get(x)' = NoValue
      OBVIOUS
    <3>1. \A q \in Places : KeyAt(slot', q) # x
      BY <2>3, <2>7, <2>10, <2>11, Zenon DEF Occupied
    <3> QED
      BY <3>1, <2>14, MappedAreNext DEF Mapped
  <2>18. ASSUME NEW x \in Keys, x # k, x # victim PROVE Get(x)' = Get(x)
    <3>1. \A q \in Places : KeyAt(slot, q) = x =>
             KeyAt(slot', q) = x /\ val'[q[1]][q[2]] = val[q[1]][q[2]]
      BY <2>5, <2>11, <2>18, Zenon
    <3>2. (\A q \in Places : KeyAt(slot, q) # x) => \A q \in Places : KeyAt(slot', q) # x
      BY <2>11, <2>18, Zenon
    <3> QED
      BY <2>14, <3>1, <3>2, MapKept
  <2>19. PICK w \in Keys : w = victim
    BY <2>3
  <2>20. /\ w # k /\ Get(w) # NoValue /\ Get(w)' = NoValue /\ KeepsOthers({k, w})
    BY <2>7, <2>16, <2>17, <2>18, <2>19 DEF KeepsOthers
  <2>21. Evicts(k, v, w)
    BY <2>1, <2>15, <2>20 DEF Evicts
  <2> QED
    BY <2>13, <2>14, <2>21, Zenon
<1> QED
  BY <1>1, <1>2, Zenon

(* A restart: the table passes Valid, and Reload recomputes every count.   *)
LEMMA RestartStep ==
    ASSUME CountingFacts, HashInv, Restart
    PROVE  HashInv' /\ OverflowExact' /\ fatal' = fatal /\ KeepsOthers({})
<1>1. Reload
  BY InvValid, Zenon DEF Restart
<1>2. slot' = slot /\ val' = val /\ fatal' = fatal
  BY <1>1 DEF Reload
<1>3. /\ chunk_size' = [c \in Chunks |-> Cardinality(StoredIn(slot', c))]
      /\ size_' = Cardinality(Occupied(slot'))
  BY <1>1, <1>2, OfSlot, Zenon DEF Reload
<1>4. /\ overflow_count_' \in [Chunks -> 0 .. MaxOverflow]
      /\ \A c \in Chunks :
            /\ overflow_count_'[c] # MaxOverflow =>
                  overflow_count_'[c] = Cardinality(PassingIn(slot', c))
            /\ \/ overflow_count_'[c] = MaxOverflow
               \/ overflow_count_'[c] >= Cardinality(PassingIn(slot', c))
  <2>1. \A c \in Chunks : PassingSlots(c) = PassingIn(slot', c)
    BY <1>2, OfSlot, Zenon
  <2>2. overflow_count_' = [c \in Chunks |-> SaturatedCount(Cardinality(PassingIn(slot', c)))]
    BY <1>1, <2>1, Zenon DEF Reload
  <2>3. \A c \in Chunks : Cardinality(PassingIn(slot', c)) \in Nat
    BY FiniteTable, Zenon
  <2> QED
    BY <2>2, <2>3, HashAssumption DEF SaturatedCount
<1>5. OverflowExact' /\ OverflowEnough'
  BY <1>4, OfSlotNext, Zenon DEF OverflowExact, OverflowEnough
<1>6. HashInv'
  BY <1>2, <1>3, <1>4, <1>5, InvParts, Assemble, Zenon
<1>7. ASSUME NEW x \in Keys PROVE Get(x)' = Get(x)
  BY <1>2, <1>6, MapKept, Zenon
<1> QED
  BY <1>2, <1>5, <1>6, <1>7 DEF KeepsOthers

(* The empty table.                                                        *)
LEMMA HashInit ==
    ASSUME CountingFacts, Init
    PROVE  HashInv /\ \A k \in Keys : Get(k) = NoValue
<1>1. HashInv /\ \A p \in Places : KeyAt(slot, p) = NoKey
  <2>1. EmptyTable(slot, val, chunk_size, overflow_count_, size_) /\ fatal \in BOOLEAN
    BY Zenon DEF Init
  <2> QED
    BY <2>1, EmptyInv, Zenon
<1> QED
  BY <1>1, MappedAre, HashAssumption DEF Mapped
============================================================================
