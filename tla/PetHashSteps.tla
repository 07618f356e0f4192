--------------------------- MODULE PetHashSteps ---------------------------
(***************************************************************************)
(* What a step of PetHash and of PetHashMigration does to the invariant of *)
(* PetHashInvariant and to the map, for tables of every size.  A swap      *)
(* writes three slots; the rest collects the operations.                   *)
(***************************************************************************)
EXTENDS PetHashOperations, PetHashMigration

USE SMTT(60)

---------------------------------------------------------------------------
(* A swap.                                                                 *)

(* Going round all the chunks once leads back.                             *)
LEMMA ChainPeriod ==
    ASSUME NEW k \in Keys, NEW j \in Nat
    PROVE  Pos(k, j + ChunkNum) = Pos(k, j)
<1>1. Home[k] \in Int /\ ProbeDelta(k) \in Int /\ ChunkNum \in Nat \ {0}
  BY HashAssumption DEF ProbeDelta, Chunks
<1> DEFINE D == ProbeDelta(k)
           a == Home[k] + j * D
           q == a \div ChunkNum
           r == a % ChunkNum
<1>2. a \in Int /\ D \in Int
  BY <1>1
<1>3. Home[k] + (j + ChunkNum) * D = a + ChunkNum * D
  BY <1>1
<1> HIDE DEF a, D
<1>4. q \in Int /\ r \in 0 .. ChunkNum - 1 /\ a = ChunkNum * q + r
  BY <1>1, <1>2, ModDiv, Zenon
<1> HIDE DEF q
<1>5. a + ChunkNum * D = ChunkNum * (q + D) + r
  BY <1>1, <1>2, <1>4
<1>6. (ChunkNum * (q + D) + r) % ChunkNum = r
  <2>1. q + D \in Int
    BY <1>2, <1>4
  <2> HIDE DEF r
  <2> QED
    BY <1>1, <1>4, <2>1, ModUnique
<1> QED
  BY <1>3, <1>5, <1>6 DEF Pos, a, D

(* From a chunk of its chain, w tries the chunks that follow on the chain. *)
LEMMA FurtherOn ==
    ASSUME NEW w \in Keys, NEW m \in Nat, NEW j \in Nat
    PROVE  (Pos(w, m) + j * ProbeDelta(w)) % ChunkNum = Pos(w, m + j)
<1>1. Home[w] \in Int /\ ProbeDelta(w) \in Int /\ ChunkNum \in Nat \ {0}
  BY HashAssumption DEF ProbeDelta, Chunks
<1> DEFINE D == ProbeDelta(w)
           a == Home[w] + m * D
           b == j * D
<1>2. a \in Int /\ b \in Int
  BY <1>1
<1>3. a + b = Home[w] + (m + j) * D
  BY <1>1
<1> HIDE DEF a, b
<1>4. ((a % ChunkNum) + b) % ChunkNum = (a + b) % ChunkNum
  BY <1>1, <1>2, ModAdd, Zenon
<1> QED
  BY <1>3, <1>4 DEF Pos, a, b

(* Where the victim lands, its chain has passed no chunk that does not     *)
(* count it: it passed those before its old chunk, which counted it, and   *)
(* those it tried on the way, which count it now.                          *)
LEMMA VictimChain ==
    ASSUME NEW w \in Keys, NEW home \in Chunks, NEW i \in 1 .. ChunkNum, NEW c \in Chunks,
           NEW d, d = (home + i * ProbeDelta(w)) % ChunkNum, Passes(w, d, c)
    PROVE  \/ Passes(w, home, c)
           \/ \E j \in 0 .. i - 1 : c = (home + j * ProbeDelta(w)) % ChunkNum
<1>1. ChunkNum \in Nat \ {0}
  BY HashAssumption
<1>2. PICK m \in Chunks : Pos(w, m) = home
  BY Chain
<1>3. m \in Nat /\ m < ChunkNum /\ i \in Nat /\ i >= 1 /\ i <= ChunkNum
  BY <1>1, <1>2 DEF Chunks
<1>4. \A j \in Nat : (home + j * ProbeDelta(w)) % ChunkNum = Pos(w, m + j)
  BY <1>2, <1>3, FurtherOn
<1>5. PICK x \in Chunks, y \in Chunks : y < x /\ Pos(w, x) = d /\ Pos(w, y) = c
  BY DEF Passes
<1>6. x \in Nat /\ y \in Nat
  BY <1>1, <1>5 DEF Chunks
<1>7. d = Pos(w, m + i)
  BY <1>3, <1>4
<1>8. ASSUME y < m PROVE Passes(w, home, c)
  BY <1>2, <1>5, <1>8 DEF Passes
<1>9. CASE m + i < ChunkNum
  <2>1. m + i \in Chunks
    BY <1>1, <1>3, <1>9 DEF Chunks
  <2>2. x = m + i
    BY <1>5, <1>7, <2>1, Chain
  <2>3. CASE y < m
    BY <1>8, <2>3
  <2>4. CASE ~ (y < m)
    <3>1. y - m \in Nat /\ y - m \in 0 .. i - 1 /\ m + (y - m) = y
      BY <1>3, <1>5, <1>6, <2>2, <2>4
    <3>2. (home + (y - m) * ProbeDelta(w)) % ChunkNum = Pos(w, m + (y - m))
      BY <1>4, <3>1
    <3>3. c = (home + (y - m) * ProbeDelta(w)) % ChunkNum
      BY <1>5, <3>1, <3>2
    <3> QED
      BY <3>1, <3>3
  <2> QED
    BY <2>3, <2>4
<1>10. CASE ~ (m + i < ChunkNum)
  <2> DEFINE z == m + i - ChunkNum
  <2>1. z \in Nat /\ z <= m /\ z \in Chunks /\ z + ChunkNum = m + i
    BY <1>1, <1>3, <1>10 DEF Chunks
  <2> HIDE DEF z
  <2>2. Pos(w, z + ChunkNum) = Pos(w, z)
    BY <2>1, ChainPeriod
  <2>3. x = z
    BY <1>5, <1>7, <2>1, <2>2, Chain
  <2>4. y < m
    BY <1>3, <1>5, <1>6, <2>1, <2>3
  <2> QED
    BY <1>8, <2>4
<1> QED
  BY <1>9, <1>10

(* The three writes of a swap: the victim to its new place dp, the hot key *)
(* to the victim's old place hp, nothing to the hot key's old place kp.    *)
Rewritten(sl, n, k, w, dp, hp, kp) ==
    /\ n \in Tables /\ Unique(n)
    /\ KeyAt(n, dp) = w /\ KeyAt(n, hp) = k /\ KeyAt(n, kp) = NoKey
    /\ \A q \in Places : q \notin {dp, hp, kp} => KeyAt(n, q) = KeyAt(sl, q)
    /\ Cardinality(Occupied(n)) = Cardinality(Occupied(sl))
    /\ \A c \in Chunks : Cardinality(StoredIn(n, c)) =
          Cardinality(StoredIn(sl, c)) + Bit(c = dp[1]) - Bit(c = kp[1])
    /\ \A c \in Chunks : Cardinality(PassingIn(n, c)) =
          Cardinality(PassingIn(sl, c))
          + Bit(Passes(w, dp[1], c)) - Bit(Passes(w, hp[1], c))
          + Bit(Passes(k, hp[1], c)) - Bit(Passes(k, kp[1], c))

LEMMA ThreeWrites ==
    ASSUME CountingFacts, NEW sl \in Tables, Unique(sl),
           NEW dp \in Places, NEW hp \in Places, NEW kp \in Places,
           dp # hp, dp # kp, hp # kp,
           NEW w \in Keys, NEW k \in Keys, KeyAt(sl, dp) = NoKey,
           KeyAt(sl, hp) = w, KeyAt(sl, kp) = k,
           NEW n, n = Written(Written(Written(sl, dp, w), hp, k), kp, NoKey)
    PROVE  Rewritten(sl, n, k, w, dp, hp, kp)
<1> DEFINE a == Written(sl, dp, w)
           b == Written(a, hp, k)
<1>1. w # NoKey /\ k # NoKey
  BY ONLY HashAssumption, w \in Keys, k \in Keys, Zenon
<1>2. /\ a \in Tables /\ KeyAt(a, dp) = w
      /\ \A q \in Places : q # dp => KeyAt(a, q) = KeyAt(sl, q)
  <2>1. a = Written(sl, dp, w)
    OBVIOUS
  <2> HIDE DEF a
  <2> QED
    BY <2>1, WriteOne
<1>3. /\ Cardinality(Occupied(a)) = Cardinality(Occupied(sl)) + 1
      /\ \A c \in Chunks : Cardinality(StoredIn(a, c)) =
            Cardinality(StoredIn(sl, c)) + Bit(c = dp[1])
      /\ \A c \in Chunks : Cardinality(PassingIn(a, c)) =
            Cardinality(PassingIn(sl, c)) + Bit(Passes(w, dp[1], c))
  <2> HIDE DEF a
  <2>1. a = Written(sl, dp, w)
    BY DEF a
  <2> QED
    BY <1>1, <2>1, WriteCounts, FiniteTable DEF Bit
<1> HIDE DEF a
<1>4. /\ b \in Tables /\ KeyAt(b, hp) = k
      /\ \A q \in Places : q # hp => KeyAt(b, q) = KeyAt(a, q)
  BY <1>2, WriteOne
<1>5. /\ Cardinality(Occupied(b)) = Cardinality(Occupied(a))
      /\ \A c \in Chunks : Cardinality(StoredIn(b, c)) = Cardinality(StoredIn(a, c))
      /\ \A c \in Chunks : Cardinality(PassingIn(b, c)) =
            Cardinality(PassingIn(a, c)) - Bit(Passes(w, hp[1], c)) + Bit(Passes(k, hp[1], c))
  <2>1. KeyAt(a, hp) = w
    BY <1>2
  <2>2. b = Written(a, hp, k)
    OBVIOUS
  <2> HIDE DEF b
  <2> QED
    BY <1>1, <1>2, <2>1, <2>2, WriteCounts, FiniteTable DEF Bit
<1>6. n = Written(b, kp, NoKey)
  BY DEF a
<1> HIDE DEF b
<1>7. /\ n \in Tables /\ KeyAt(n, kp) = NoKey
      /\ \A q \in Places : q # kp => KeyAt(n, q) = KeyAt(b, q)
  BY <1>4, <1>6, WriteOne
<1>8. /\ Cardinality(Occupied(n)) = Cardinality(Occupied(b)) - 1
      /\ \A c \in Chunks : Cardinality(StoredIn(n, c)) =
            Cardinality(StoredIn(b, c)) - Bit(c = kp[1])
      /\ \A c \in Chunks : Cardinality(PassingIn(n, c)) =
            Cardinality(PassingIn(b, c)) - Bit(Passes(k, kp[1], c))
  <2>1. KeyAt(b, kp) = k
    BY <1>2, <1>4
  <2> QED
    BY <1>1, <1>4, <1>6, <2>1, WriteCounts, FiniteTable DEF Bit
<1>9. /\ KeyAt(n, dp) = w /\ KeyAt(n, hp) = k /\ KeyAt(n, kp) = NoKey
      /\ \A q \in Places : q \notin {dp, hp, kp} => KeyAt(n, q) = KeyAt(sl, q)
  BY <1>2, <1>4, <1>7
<1>10. Unique(n)
  <2> DEFINE Old(q) == IF q = dp THEN hp ELSE IF q = hp THEN kp ELSE q
  <2>1. ASSUME NEW q \in Occupied(n)
        PROVE  q \in Places /\ q # kp /\ Old(q) \in Occupied(sl) /\ KeyAt(n, q) = KeyAt(sl, Old(q))
    BY <1>1, <1>9 DEF Occupied
  <2>2. ASSUME NEW q \in Occupied(n), NEW r \in Occupied(n), KeyAt(n, q) = KeyAt(n, r)
        PROVE  q = r
    <3>1. Old(q) = Old(r)
      BY <2>1, <2>2 DEF Unique
    <3>2. q # kp /\ r # kp /\ KeyAt(n, q) # NoKey /\ KeyAt(n, r) # NoKey
      BY <2>1 DEF Occupied
    <3>3. q \in Places /\ r \in Places
      BY <2>1
    <3>4. \A t \in Occupied(n) : t \notin {dp, hp, kp} => KeyAt(sl, t) # w /\ KeyAt(sl, t) # k
      BY <1>1, <1>9 DEF Unique, Occupied
    <3> QED
      BY <2>2, <1>1, <1>9, <3>1, <3>2, <3>3, <3>4
  <2> QED
    BY <2>2 DEF Unique
<1>11. \A c \in Chunks : Cardinality(StoredIn(n, c)) =
          Cardinality(StoredIn(sl, c)) + Bit(c = dp[1]) - Bit(c = kp[1])
  BY <1>3, <1>5, <1>8, FiniteTable DEF Bit
<1>12. \A c \in Chunks : Cardinality(PassingIn(n, c)) =
          Cardinality(PassingIn(sl, c))
          + Bit(Passes(w, dp[1], c)) - Bit(Passes(w, hp[1], c))
          + Bit(Passes(k, hp[1], c)) - Bit(Passes(k, kp[1], c))
  BY <1>3, <1>5, <1>8, FiniteTable DEF Bit
<1>13. Cardinality(Occupied(n)) = Cardinality(Occupied(sl))
  BY <1>3, <1>5, <1>8, FiniteTable
<1> QED
  BY <1>7, <1>9, <1>10, <1>11, <1>12, <1>13, Zenon DEF Rewritten

(* The counts of a swap: what the victim's way adds covers what its new    *)
(* place needs, and what the hot key gives back is no more than it had.    *)
LEMMA SwapCount ==
    ASSUME NEW n \in 0 .. MaxOverflow, NEW m \in Nat,
           n = MaxOverflow \/ n >= m,
           NEW lands \in BOOLEAN, NEW left \in BOOLEAN, NEW tried \in BOOLEAN,
           NEW hot \in BOOLEAN, lands => left \/ tried,
           NEW l, l = m + Bit(lands) - Bit(left) - Bit(hot), l \in Nat,
           NEW grown, grown = IF tried THEN IncOverflow(n) ELSE n,
           NEW r, r = IF hot THEN DecOverflow(grown) ELSE grown
    PROVE  r \in 0 .. MaxOverflow /\ (r = MaxOverflow \/ r >= l)
<1>1. MaxOverflow \in Nat \ {0}
  BY HashAssumption
<1>2. /\ grown \in 0 .. MaxOverflow
      /\ grown = MaxOverflow \/ grown >= m + Bit(lands) - Bit(left)
  BY <1>1, Counters DEF Bit
<1> QED
  BY <1>1, <1>2, Counters DEF Bit

(* ... the values move with the keys ...                                   *)
ValueTables == [Chunks -> [Slots -> Values \cup {NoValue}]]

LEMMA MovedValues ==
    ASSUME val \in ValueTables,
           NEW dp \in Places, NEW hp \in Places, NEW kp \in Places, dp # hp,
           val' = Written(Written(val, dp, KeyAt(val, hp)), hp, KeyAt(val, kp))
    PROVE  /\ val' \in ValueTables
           /\ KeyAt(val', dp) = KeyAt(val, hp) /\ KeyAt(val', hp) = KeyAt(val, kp)
           /\ \A q \in Places : q \notin {dp, hp} => KeyAt(val', q) = KeyAt(val, q)
<1>1. ASSUME NEW x \in ValueTables, NEW p \in Places, NEW b \in Values \cup {NoValue},
             NEW y, y = Written(x, p, b)
      PROVE  y \in ValueTables /\ KeyAt(y, p) = b /\ \A q \in Places : q # p => KeyAt(y, q) = KeyAt(x, q)
  BY ONLY <1>1, SMTT(60) DEF ValueTables, Written, KeyAt, Places
<1>2. KeyAt(val, hp) \in Values \cup {NoValue} /\ KeyAt(val, kp) \in Values \cup {NoValue}
  BY DEF KeyAt, Places, ValueTables
<1> DEFINE a == Written(val, dp, KeyAt(val, hp))
<1>3. /\ a \in ValueTables /\ KeyAt(a, dp) = KeyAt(val, hp)
      /\ \A q \in Places : q # dp => KeyAt(a, q) = KeyAt(val, q)
  BY ONLY <1>1, <1>2, val \in ValueTables, dp \in Places, SMTT(60)
<1>4. val' = Written(a, hp, KeyAt(val, kp))
  BY Zenon
<1> HIDE DEF a
<1>5. /\ val' \in ValueTables /\ KeyAt(val', hp) = KeyAt(val, kp)
      /\ \A q \in Places : q # hp => KeyAt(val', q) = KeyAt(a, q)
  BY ONLY <1>1, <1>2, <1>3, <1>4, hp \in Places, SMTT(60)
<1> QED
  BY <1>3, <1>5, Zenon

(* ... and one key moves from chunk e to chunk d, which may be e.          *)
LEMMA MovedSizes ==
    ASSUME chunk_size \in [Chunks -> Nat], NEW d \in Chunks, NEW e \in Chunks,
           chunk_size' = OneMoved(e, d)
    PROVE  chunk_size' = [c \in Chunks |-> chunk_size[c] + Bit(c = d) - Bit(c = e)]
<1>1. CASE e = d
  BY <1>1 DEF OneMoved, Bit
<1>2. CASE e # d
  <2> DEFINE a == [chunk_size EXCEPT ![d] = @ + 1]
  <2>1. chunk_size' = [a EXCEPT ![e] = @ - 1]
    BY <1>2 DEF OneMoved
  <2>2. a = [c \in Chunks |-> chunk_size[c] + Bit(c = d)]
    <3>1. ASSUME NEW c \in Chunks PROVE a[c] = chunk_size[c] + Bit(c = d)
      BY DEF Bit
    <3>2. a \in [Chunks -> Nat]
      OBVIOUS
    <3> HIDE DEF a
    <3>3. a = [c \in Chunks |-> a[c]]
      BY <3>2
    <3> QED
      BY <3>1, <3>3, Zenon
  <2> HIDE DEF a
  <2>3. chunk_size' = [c \in Chunks |-> a[c] - Bit(c = e)]
    BY <2>1, <2>2 DEF Bit
  <2> QED
    BY <2>2, <2>3 DEF Bit
<1> QED
  BY <1>1, <1>2

(* What the swap of k with w, the key at the head of its home chunk, writes: *)
(* w at slot f of chunk d, k at the head of home, and nothing where k was;   *)
(* the chunks of `tried' gain an overflow and those of `hot' lose one.       *)
Swaps(k, w, home, d, f, kp, tried, hot) ==
    /\ kp \in Occupied(slot) /\ KeyAt(slot, kp) = k /\ kp[1] # home
    /\ slot[home][0] = w /\ slot[d][f] = NoKey /\ d # home
    /\ slot' = [slot EXCEPT ![d][f] = w, ![home][0] = k, ![kp[1]][kp[2]] = NoKey]
    /\ val' = [val EXCEPT ![d][f] = val[home][0], ![home][0] = val[kp[1]][kp[2]]]
    /\ chunk_size' = OneMoved(kp[1], d)
    /\ size_' = size_ /\ fatal' = fatal
    /\ overflow_count_' = [c \in Chunks |-> overflow_count_'[c]]
    /\ \A c \in Chunks : overflow_count_'[c] =
          IF c \in hot
          THEN DecOverflow(IF c \in tried THEN IncOverflow(overflow_count_[c])
                           ELSE overflow_count_[c])
          ELSE IF c \in tried THEN IncOverflow(overflow_count_[c])
               ELSE overflow_count_[c]
    /\ \A c \in Chunks : Passes(k, kp[1], c) <=> c \in hot
    /\ \A c \in Chunks : ~ Passes(k, home, c)
    /\ \A c \in Chunks : Passes(w, d, c) => Passes(w, home, c) \/ c \in tried

(* What that does to the places of the table: w is at dp and k at hp, and no *)
(* other key moved.                                                          *)
Moved(k, w, dp, hp, kp) ==
    /\ dp \in Places /\ hp \in Places /\ kp \in Places /\ dp # hp /\ dp # kp /\ hp # kp
    /\ KeyAt(slot, dp) = NoKey /\ KeyAt(slot, hp) = w /\ KeyAt(slot, kp) = k
    /\ Rewritten(slot, slot', k, w, dp, hp, kp)

LEMMA SwapMoves ==
    ASSUME CountingFacts, HashInv, NEW k \in Keys, NEW w \in Keys,
           NEW home \in Chunks, NEW d \in Chunks, NEW f \in Slots, NEW kp,
           NEW tried, NEW hot, Swaps(k, w, home, d, f, kp, tried, hot),
           NEW dp, dp = <<d, f>>, NEW hp, hp = <<home, 0>>
    PROVE  Moved(k, w, dp, hp, kp)
<1>1. /\ kp \in Occupied(slot) /\ KeyAt(slot, kp) = k
      /\ slot[home][0] = w /\ slot[d][f] = NoKey /\ d # home /\ kp[1] # home
  BY Zenon DEF Swaps
<1>2. 0 \in Slots /\ k # NoKey /\ w # NoKey
  <2>1. 0 \in Slots
    BY HashAssumption DEF Slots
  <2> QED
    BY <2>1, HashAssumption, Zenon
<1>3. /\ dp \in Places /\ dp[1] = d /\ dp[2] = f
      /\ hp \in Places /\ hp[1] = home /\ hp[2] = 0
      /\ kp \in Places /\ kp[1] \in Chunks /\ kp[2] \in Slots
      /\ KeyAt(slot, dp) = NoKey /\ KeyAt(slot, hp) = w
  BY <1>1, <1>2 DEF Places, KeyAt, Occupied
<1>4. dp # hp /\ dp # kp /\ hp # kp
  BY <1>1, <1>2, <1>3
<1>5. slot \in Tables /\ Unique(slot)
  BY InvParts
<1>6. slot' = Written(Written(Written(slot, dp, w), hp, k), kp, NoKey)
  <2> DEFINE a == [slot EXCEPT ![d][f] = w]
             b == [a EXCEPT ![home][0] = k]
  <2>1. slot' = [b EXCEPT ![kp[1]][kp[2]] = NoKey]
    BY DEF Swaps
  <2>2. a = Written(slot, dp, w) /\ b = Written(a, hp, k)
    BY <1>3 DEF Written
  <2> HIDE DEF a, b
  <2> QED
    BY <2>1, <2>2 DEF Written
<1>7. Rewritten(slot, slot', k, w, dp, hp, kp)
  BY <1>1, <1>3, <1>4, <1>5, <1>6, ThreeWrites, Zenon
<1> QED
  BY <1>1, <1>3, <1>4, <1>7, Zenon DEF Moved

(* The values move with their keys, ...                                    *)
Carried(dp, hp, kp) ==
    /\ val' \in ValueTables
    /\ val'[dp[1]][dp[2]] = val[hp[1]][hp[2]] /\ val'[hp[1]][hp[2]] = val[kp[1]][kp[2]]
    /\ \A q \in Places : q \notin {dp, hp} => val'[q[1]][q[2]] = val[q[1]][q[2]]

LEMMA SwapCarries ==
    ASSUME CountingFacts, HashInv, NEW k, NEW w, NEW home, NEW d, NEW f, NEW kp,
           NEW tried, NEW hot, Swaps(k, w, home, d, f, kp, tried, hot),
           NEW dp, dp = <<d, f>>, NEW hp, hp = <<home, 0>>, Moved(k, w, dp, hp, kp)
    PROVE  Carried(dp, hp, kp)
<1>1. dp \in Places /\ hp \in Places /\ kp \in Places /\ dp # hp
  BY Zenon DEF Moved
<1>2. val' = [val EXCEPT ![d][f] = val[home][0], ![home][0] = val[kp[1]][kp[2]]]
  BY Zenon DEF Swaps
<1>3. val' = Written(Written(val, dp, KeyAt(val, hp)), hp, KeyAt(val, kp))
  <2>1. dp[1] = d /\ dp[2] = f /\ hp[1] = home /\ hp[2] = 0
    OBVIOUS
  <2> QED
    BY <1>2, <2>1 DEF Written, KeyAt
<1>4. val \in ValueTables
  BY InvParts DEF ValueTables
<1>5. /\ val' \in ValueTables
      /\ KeyAt(val', dp) = KeyAt(val, hp) /\ KeyAt(val', hp) = KeyAt(val, kp)
      /\ \A q \in Places : q \notin {dp, hp} => KeyAt(val', q) = KeyAt(val, q)
  BY <1>1, <1>3, <1>4, MovedValues, Zenon
<1> QED
  BY <1>5, Zenon DEF Carried, KeyAt

(* ... every occupied place holds a value, ...                             *)
LEMMA SwapValues ==
    ASSUME CountingFacts, HashInv, NEW k \in Keys, NEW w \in Keys,
           NEW dp, NEW hp, NEW kp, Moved(k, w, dp, hp, kp), Carried(dp, hp, kp),
           NEW q \in Occupied(slot')
    PROVE  val'[q[1]][q[2]] \in Values
<1>1. k # NoKey /\ w # NoKey
  BY HashAssumption
<1>2. \A r \in Occupied(slot) : val[r[1]][r[2]] \in Values
  BY InvParts
<1>3. q \in Places /\ KeyAt(slot', q) # NoKey
  BY DEF Occupied
<1>4. hp \in Occupied(slot) /\ kp \in Occupied(slot)
  BY <1>1, Zenon DEF Moved, Occupied
<1>5. CASE q \in {dp, hp}
  BY <1>2, <1>4, <1>5, Zenon DEF Carried
<1>6. CASE q \notin {dp, hp}
  <2>1. q # kp
    BY <1>3, Zenon DEF Moved, Rewritten
  <2>2. q \notin {dp, hp, kp}
    BY <1>6, <2>1, Zenon
  <2>3. q \in Occupied(slot)
    BY <1>3, <2>2, Zenon DEF Moved, Rewritten, Occupied
  <2> QED
    BY <1>2, <1>3, <1>6, <2>3, Zenon DEF Carried
<1> QED
  BY <1>5, <1>6, Zenon

(* ... the sizes of the chunks are counted, ...                            *)
LEMMA SwapSizes ==
    ASSUME CountingFacts, HashInv, NEW k, NEW w, NEW d \in Chunks, NEW dp, NEW hp,
           NEW kp, dp[1] = d, kp[1] \in Chunks,
           chunk_size' = OneMoved(kp[1], d), Moved(k, w, dp, hp, kp)
    PROVE  chunk_size' = [c \in Chunks |-> Cardinality(StoredIn(slot', c))]
<1>1. chunk_size = [c \in Chunks |-> Cardinality(StoredIn(slot, c))]
  BY InvParts
<1>2. chunk_size \in [Chunks -> Nat]
  BY <1>1, InvParts, FiniteTable
<1>3. chunk_size' = [c \in Chunks |-> chunk_size[c] + Bit(c = d) - Bit(c = kp[1])]
  BY <1>2, MovedSizes, Zenon
<1>4. \A c \in Chunks : chunk_size[c] + Bit(c = d) - Bit(c = kp[1])
                          = Cardinality(StoredIn(slot', c))
  <2>1. \A c \in Chunks : Cardinality(StoredIn(slot', c)) =
           Cardinality(StoredIn(slot, c)) + Bit(c = dp[1]) - Bit(c = kp[1])
    BY Zenon DEF Moved, Rewritten
  <2> QED
    BY <1>1, <2>1
<1> QED
  BY <1>3, <1>4, Zenon

(* ... and the overflow counts still cover the keys that pass.             *)
LEMMA SwapOverflow ==
    ASSUME CountingFacts, HashInv, NEW k, NEW w, NEW home, NEW d, NEW f, NEW kp,
           NEW tried, NEW hot, Swaps(k, w, home, d, f, kp, tried, hot),
           NEW dp, NEW hp, dp[1] = d, hp[1] = home, Moved(k, w, dp, hp, kp),
           NEW c \in Chunks
    PROVE  /\ overflow_count_'[c] \in 0 .. MaxOverflow
           /\ \/ overflow_count_'[c] = MaxOverflow
              \/ overflow_count_'[c] >= Cardinality(PassingIn(slot', c))
<1> DEFINE n == overflow_count_[c]
           m == Cardinality(PassingIn(slot, c))
           l == Cardinality(PassingIn(slot', c))
           lands == Passes(w, d, c)
           left == Passes(w, home, c)
           isTried == c \in tried
           isHot == c \in hot
           grown == IF isTried THEN IncOverflow(n) ELSE n
<1>1. n \in 0 .. MaxOverflow /\ m \in Nat /\ l \in Nat
  <2>1. slot' \in Tables
    BY Zenon DEF Moved, Rewritten
  <2> QED
    BY <2>1, InvParts, FiniteTable
<1>2. n = MaxOverflow \/ n >= m
  BY OfSlot, Zenon DEF HashInv, OverflowEnough
<1>3. (Passes(k, kp[1], c) <=> c \in hot) /\ ~ Passes(k, home, c)
  BY Zenon DEF Swaps
<1>4. l = m + Bit(lands) - Bit(left) + Bit(Passes(k, home, c)) - Bit(Passes(k, kp[1], c))
  BY Zenon DEF Moved, Rewritten
<1>5. l = m + Bit(lands) - Bit(left) - Bit(isHot)
  BY <1>1, <1>3, <1>4 DEF Bit
<1>6. overflow_count_'[c] = IF isHot THEN DecOverflow(grown) ELSE grown
  BY Zenon DEF Swaps
<1>7. lands => left \/ isTried
  BY Zenon DEF Swaps
<1>8. lands \in BOOLEAN /\ left \in BOOLEAN /\ isTried \in BOOLEAN /\ isHot \in BOOLEAN
  BY DEF Passes
<1> HIDE DEF n, m, l, lands, left, isTried, isHot
<1>9. overflow_count_'[c] \in 0 .. MaxOverflow
         /\ (overflow_count_'[c] = MaxOverflow \/ overflow_count_'[c] >= l)
  BY <1>1, <1>2, <1>5, <1>6, <1>7, <1>8, SwapCount
<1> QED
  BY <1>9 DEF l

(* A swap leaves every key its value.                                      *)
LEMMA MovedContents ==
    ASSUME CountingFacts, HashInv, HashInv', NEW k \in Keys, NEW w \in Keys,
           NEW dp, NEW hp, NEW kp, Moved(k, w, dp, hp, kp), Carried(dp, hp, kp)
    PROVE  \A x \in Keys : Get(x)' = Get(x)
<1>1. /\ dp \in Places /\ hp \in Places /\ kp \in Places
      /\ KeyAt(slot, dp) = NoKey /\ KeyAt(slot, hp) = w /\ KeyAt(slot, kp) = k
      /\ KeyAt(slot', dp) = w /\ KeyAt(slot', hp) = k /\ KeyAt(slot', kp) = NoKey
      /\ \A q \in Places : q \notin {dp, hp, kp} => KeyAt(slot', q) = KeyAt(slot, q)
  BY Zenon DEF Moved, Rewritten
<1>2. /\ val'[dp[1]][dp[2]] = val[hp[1]][hp[2]] /\ val'[hp[1]][hp[2]] = val[kp[1]][kp[2]]
      /\ \A q \in Places : q \notin {dp, hp} => val'[q[1]][q[2]] = val[q[1]][q[2]]
  BY Zenon DEF Carried
<1> SUFFICES ASSUME NEW x \in Keys PROVE Get(x)' = Get(x)
  OBVIOUS
<1>3. x # NoKey
  BY HashAssumption, Zenon
<1>4. ASSUME NEW q \in Places, KeyAt(slot, q) = x
      PROVE  \E r \in Places : KeyAt(slot', r) = x /\ val'[r[1]][r[2]] = val[q[1]][q[2]]
  <2>1. CASE q = hp
    BY <1>1, <1>2, <1>4, <2>1, Zenon
  <2>2. CASE q = kp
    BY <1>1, <1>2, <1>4, <2>2, Zenon
  <2>3. CASE q \notin {dp, hp, kp}
    <3>1. q \notin {dp, hp}
      BY <2>3, Zenon
    <3> QED
      BY <1>1, <1>2, <1>4, <2>3, <3>1, Zenon
  <2>4. q # dp
    BY <1>1, <1>3, <1>4, Zenon
  <2> QED
    BY <2>1, <2>2, <2>3, <2>4, Zenon
<1>5. ASSUME \A q \in Places : KeyAt(slot, q) # x, NEW q \in Places
      PROVE  KeyAt(slot', q) # x
  <2>1. CASE q \in {dp, hp, kp}
    BY <1>1, <1>3, <1>5, <2>1, Zenon
  <2>2. CASE q \notin {dp, hp, kp}
    BY <1>1, <1>5, <2>2, Zenon
  <2> QED
    BY <2>1, <2>2, Zenon
<1> QED
  BY <1>4, <1>5, MapKept

(* Such a swap keeps the invariant and what every key reads.               *)
LEMMA SwapEffect ==
    ASSUME CountingFacts, HashInv, NEW k \in Keys, NEW w \in Keys,
           NEW home \in Chunks, NEW d \in Chunks, NEW f \in Slots, NEW kp,
           NEW tried, NEW hot, Swaps(k, w, home, d, f, kp, tried, hot)
    PROVE  HashInv' /\ \A x \in Keys : Get(x)' = Get(x)
<1> DEFINE hp == <<home, 0>>
           dp == <<d, f>>
<1>1. Moved(k, w, dp, hp, kp)
  BY SwapMoves, Zenon
<1>2. Carried(dp, hp, kp)
  BY <1>1, SwapCarries, Zenon
<1>3. \A q \in Occupied(slot') : val'[q[1]][q[2]] \in Values
  BY <1>1, <1>2, SwapValues, Zenon
<1>4. dp[1] = d /\ hp[1] = home
  OBVIOUS
<1> HIDE DEF dp, hp
<1>5. kp[1] \in Chunks
  BY <1>1, Zenon DEF Moved, Places
<1>6. chunk_size' = [c \in Chunks |-> Cardinality(StoredIn(slot', c))]
  <2>1. chunk_size' = OneMoved(kp[1], d)
    BY Zenon DEF Swaps
  <2> QED
    BY <1>1, <1>4, <1>5, <2>1, SwapSizes, Zenon
<1>7. \A c \in Chunks :
         /\ overflow_count_'[c] \in 0 .. MaxOverflow
         /\ \/ overflow_count_'[c] = MaxOverflow
            \/ overflow_count_'[c] >= Cardinality(PassingIn(slot', c))
  BY <1>1, <1>4, SwapOverflow, Zenon
<1>8. HashInv'
  <2>1. OverflowEnough'
    BY <1>7, OfSlotNext, Zenon DEF OverflowEnough
  <2>2. overflow_count_' \in [Chunks -> 0 .. MaxOverflow]
    <3>1. overflow_count_' = [c \in Chunks |-> overflow_count_'[c]]
      BY Zenon DEF Swaps
    <3> QED
      BY <1>7, <3>1
  <2>3. size_' = Cardinality(Occupied(slot')) /\ fatal' \in BOOLEAN
    <3>1. size_' = size_ /\ fatal' = fatal
      BY Zenon DEF Swaps
    <3>2. size_ = Cardinality(Occupied(slot)) /\ fatal \in BOOLEAN
      BY InvParts
    <3>3. Cardinality(Occupied(slot')) = Cardinality(Occupied(slot))
      BY <1>1, Zenon DEF Moved, Rewritten
    <3> QED
      BY <3>1, <3>2, <3>3, Zenon
  <2>4. slot' \in Tables /\ Unique(slot')
    BY <1>1, Zenon DEF Moved, Rewritten
  <2>5. val' \in [Chunks -> [Slots -> Values \cup {NoValue}]]
    BY <1>2, Zenon DEF Carried, ValueTables
  <2> QED
    BY <1>3, <1>6, <2>1, <2>2, <2>3, <2>4, <2>5, Assemble, Zenon
<1> QED
  BY <1>1, <1>2, <1>8, MovedContents, Zenon

(* A key at home passes no chunk, ...                                      *)
LEMMA HomePassesNone ==
    ASSUME NEW k \in Keys, NEW c \in Chunks
    PROVE  ~ Passes(k, Home[k], c)
<1>1. Pos(k, 0) = Home[k] /\ 0 \in Chunks
  BY Chain, HashAssumption DEF Chunks
<1>2. \A x : x \notin Passed(k, 0)
  BY DEF Passed
<1> QED
  BY <1>1, <1>2, PassedChunks

(* ... and where the victim lands there is a free slot.                    *)
LEMMA VictimLanding ==
    ASSUME CountingFacts, HashInv, NEW k \in Keys, ~ HasRoom(Home[k]),
           NEW i \in 1 .. ChunkNum, VictimLandsAt(k, i),
           NEW w, w = Victim(k), NEW d, d = VictimStep(k, i)
    PROVE  /\ w \in Keys /\ slot[Home[k]][0] = w
           /\ d \in Chunks /\ d # Home[k]
           /\ FirstFree(d) \in Slots /\ slot[d][FirstFree(d)] = NoKey
           /\ \A c \in Chunks : Passes(w, d, c)
                 => Passes(w, Home[k], c) \/ c \in VictimPassed(k, i)
<1>1. Home[k] \in Chunks /\ 0 \in Slots
  BY HashAssumption DEF Slots
<1>2. w \in Keys
  BY <1>1, FreeSlot, HashAssumption DEF Victim
<1>3. d \in Chunks /\ d = (Home[k] + i * ProbeDelta(w)) % ChunkNum
  <2>1. Home[k] + i * ProbeDelta(w) \in Int /\ ChunkNum \in Nat \ {0}
    BY <1>1, <1>2, HashAssumption DEF ProbeDelta, Chunks
  <2>2. \A a \in Int : a % ChunkNum \in Chunks
    BY <2>1, ModDiv DEF Chunks
  <2> QED
    BY <2>1, <2>2 DEF VictimStep
<1>4. HasRoom(d)
  BY DEF VictimLandsAt
<1>5. FirstFree(d) \in Slots /\ slot[d][FirstFree(d)] = NoKey
  BY <1>3, <1>4, FreeSlot
<1>6. \A c : c \in VictimPassed(k, i) <=>
         \E j \in 0 .. i - 1 : c = (Home[k] + j * ProbeDelta(w)) % ChunkNum
  BY DEF VictimPassed, VictimStep
<1>7. \A c \in Chunks : Passes(w, d, c)
         => Passes(w, Home[k], c) \/ c \in VictimPassed(k, i)
  <2> SUFFICES ASSUME NEW c \in Chunks, Passes(w, d, c)
               PROVE  Passes(w, Home[k], c) \/ c \in VictimPassed(k, i)
    OBVIOUS
  <2>1. \/ Passes(w, Home[k], c)
        \/ \E j \in 0 .. i - 1 : c = (Home[k] + j * ProbeDelta(w)) % ChunkNum
    <3> DEFINE home == Home[k]
    <3>1. home \in Chunks /\ d = (home + i * ProbeDelta(w)) % ChunkNum
      BY <1>1, <1>3, Zenon
    <3> HIDE DEF home
    <3>2. \/ Passes(w, home, c)
          \/ \E j \in 0 .. i - 1 : c = (home + j * ProbeDelta(w)) % ChunkNum
      BY <1>2, <3>1, VictimChain
    <3> QED
      BY <3>2, Zenon DEF home
  <2> QED
    BY <1>6, <2>1, Zenon
<1>8. slot[Home[k]][0] = w
  BY DEF Victim
<1> QED
  BY <1>2, <1>3, <1>4, <1>5, <1>7, <1>8, Zenon

(* MigrateToVictimSlot is such a swap, or it aborts.                       *)
LEMMA SwapStep ==
    ASSUME CountingFacts, HashInv, NEW k \in Keys, MigrateToVictimSlot(k)
    PROVE  HashInv' /\ KeepsOthers({}) /\ (fatal' = TRUE \/ fatal' = fatal)
<1>1. CASE Full /\ ~ HasRoom(VictimStep(k, 1))
  <2>1. fatal' = TRUE /\ UNCHANGED table
    BY <1>1 DEF MigrateToVictimSlot
  <2>2. fatal' \in BOOLEAN
    BY <2>1
  <2>3. HashInv' /\ KeepsOthers({})
    BY <2>1, <2>2, AbortStep, Zenon
  <2> QED
    BY <2>1, <2>3, Zenon
<1>2. CASE ~ (Full /\ ~ HasRoom(VictimStep(k, 1)))
  <2> DEFINE home == Home[k]
             w == Victim(k)
  <2>1. Exists(k) /\ Where(k) # home /\ ~ HasRoom(home)
    BY DEF MigrateToVictimSlot, Displaced
  <2>2. PICK kp \in Occupied(slot) :
           /\ KeyAt(slot, kp) = k /\ kp = <<Where(k), SlotOf(k, Where(k))>>
           /\ \A c \in Chunks : Passes(k, kp[1], c) <=> c \in Passed(k, Distance(k))
    BY <2>1, StoredPlace
  <2>3. kp[1] = Where(k) /\ kp[2] = SlotOf(k, Where(k))
    BY <2>2
  <2> DEFINE Lands(i) ==
        LET d == VictimStep(k, i) IN
        /\ VictimLandsAt(k, i)
        /\ slot' = [slot EXCEPT ![d][FirstFree(d)] = w, ![home][0] = k,
                                ![kp[1]][kp[2]] = NoKey]
        /\ val' = [val EXCEPT ![d][FirstFree(d)] = val[home][0],
                              ![home][0] = val[kp[1]][kp[2]]]
        /\ chunk_size' = OneMoved(kp[1], d)
        /\ overflow_count_' = [c \in Chunks |->
                IF c \in HotPassed(k) THEN DecOverflow(Incremented(VictimPassed(k, i))[c])
                ELSE Incremented(VictimPassed(k, i))[c]]
        /\ size_' = size_ /\ fatal' = fatal
  <2>4. PICK i \in 1 .. ChunkNum : Lands(i)
    BY <1>2, <2>3, Zenon DEF MigrateToVictimSlot
  <2> DEFINE d == VictimStep(k, i)
             f == FirstFree(d)
  <2>5. /\ w \in Keys /\ slot[home][0] = w
        /\ d \in Chunks /\ d # home
        /\ f \in Slots /\ slot[d][f] = NoKey
        /\ \A c \in Chunks : Passes(w, d, c)
              => Passes(w, home, c) \/ c \in VictimPassed(k, i)
    BY <2>1, <2>4, VictimLanding, Zenon
  <2>6. /\ slot' = [slot EXCEPT ![d][f] = w, ![home][0] = k, ![kp[1]][kp[2]] = NoKey]
        /\ val' = [val EXCEPT ![d][f] = val[home][0], ![home][0] = val[kp[1]][kp[2]]]
        /\ chunk_size' = OneMoved(kp[1], d)
        /\ size_' = size_ /\ fatal' = fatal
    BY <2>4, Zenon
  <2>7. ASSUME NEW c \in Chunks
        PROVE  overflow_count_'[c] =
                  IF c \in HotPassed(k)
                  THEN DecOverflow(IF c \in VictimPassed(k, i)
                                   THEN IncOverflow(overflow_count_[c])
                                   ELSE overflow_count_[c])
                  ELSE IF c \in VictimPassed(k, i) THEN IncOverflow(overflow_count_[c])
                       ELSE overflow_count_[c]
    BY <2>4 DEF Incremented
  <2>8. overflow_count_' = [c \in Chunks |-> overflow_count_'[c]]
    BY <2>4
  <2>9. \A c \in Chunks : Passes(k, kp[1], c) <=> c \in HotPassed(k)
    BY <2>2, Zenon DEF HotPassed
  <2>10. \A c \in Chunks : ~ Passes(k, home, c)
    BY HomePassesNone, Zenon
  <2>11. home \in Chunks
    BY HashAssumption
  <2> HIDE DEF w, d, f, home, Lands
  <2>12. Swaps(k, w, home, d, f, kp, VictimPassed(k, i), HotPassed(k))
    BY <2>1, <2>2, <2>3, <2>5, <2>6, <2>7, <2>8, <2>9, <2>10, Zenon DEF Swaps
  <2>13. HashInv' /\ \A x \in Keys : Get(x)' = Get(x)
    BY <2>5, <2>11, <2>12, SwapEffect, Zenon
  <2> QED
    BY <2>6, <2>13, Zenon DEF KeepsOthers
<1> QED
  BY <1>1, <1>2, Zenon

---------------------------------------------------------------------------
(* The theorems.                                                           *)

(* What an operation may do, in terms of the map.                          *)
Writes(k, v) == fatal' = fatal /\ Get(k)' = v /\ KeepsOthers({k})
MapStep ==
    \/ \E k \in Keys, v \in Values : Writes(k, v)
    \/ \E k \in Keys, v \in Values : \E victim \in Keys : Evicts(k, v, victim)
    \/ \E k \in Keys : Writes(k, NoValue)
    \/ fatal' = TRUE /\ KeepsOthers({})

(* ... and what the operations do to it, the invariant and the counts.     *)
LEMMA NextStep ==
    ASSUME CountingFacts, HashInv, Next
    PROVE  /\ HashInv' /\ (OverflowExact => OverflowExact')
           /\ \/ fatal' = fatal /\ KeepsOthers({})
              \/ ~ fatal /\ MapStep
<1>1. ASSUME ~ fatal, NEW k \in Keys, NEW v \in Values, NEW is_force \in BOOLEAN,
             Set(k, v, is_force)
      PROVE  HashInv' /\ (OverflowExact => OverflowExact') /\ MapStep
  <2>1. ASSUME SetExisting(k, v) \/ Insert(k, v)
        PROVE  HashInv' /\ (OverflowExact => OverflowExact') /\ MapStep
    <3>1. HashInv' /\ Tracked /\ Get(k)' = v /\ KeepsOthers({k})
      BY <2>1, SetExistingStep, InsertStep, Zenon
    <3>2. fatal' = fatal
      BY <2>1 DEF SetExisting, Insert
    <3>3. OverflowExact => OverflowExact'
      BY <3>1, TrackedCounts, Zenon
    <3>4. Writes(k, v)
      BY <3>1, <3>2, Zenon DEF Writes
    <3> QED
      BY <3>1, <3>3, <3>4, Zenon DEF MapStep
  <2>2. ASSUME InsertFull(k, v, is_force)
        PROVE  HashInv' /\ (OverflowExact => OverflowExact') /\ MapStep
    <3>1. /\ HashInv' /\ Tracked
          /\ \/ fatal' = TRUE /\ KeepsOthers({})
             \/ \E victim \in Keys : Evicts(k, v, victim)
      BY <2>2, InsertFullStep, Zenon
    <3>2. OverflowExact => OverflowExact'
      BY <3>1, TrackedCounts, Zenon
    <3> QED
      BY <3>1, <3>2, Zenon DEF MapStep
  <2> QED
    BY <1>1, <2>1, <2>2, Zenon DEF Set
<1>2. ASSUME ~ fatal, NEW k \in Keys, Delete(k)
      PROVE  HashInv' /\ (OverflowExact => OverflowExact') /\ MapStep
  <2>1. HashInv' /\ Tracked /\ Get(k)' = NoValue /\ KeepsOthers({k})
    BY <1>2, DeleteStep, Zenon
  <2>2. fatal' = fatal
    BY <1>2 DEF Delete
  <2>3. OverflowExact => OverflowExact'
    BY <2>1, TrackedCounts, Zenon
  <2>4. Writes(k, NoValue)
    BY <2>1, <2>2, Zenon DEF Writes
  <2> QED
    BY <2>1, <2>3, <2>4, Zenon DEF MapStep
<1>3. ASSUME Restart
      PROVE  HashInv' /\ OverflowExact' /\ fatal' = fatal /\ KeepsOthers({})
  BY <1>3, RestartStep, Zenon
<1>4. ASSUME Aborted
      PROVE  /\ HashInv' /\ (OverflowExact => OverflowExact')
             /\ fatal' = fatal /\ KeepsOthers({})
  <2>1. UNCHANGED table /\ fatal' = fatal
    BY <1>4 DEF Aborted, vars, table
  <2>2. fatal' \in BOOLEAN
    BY <2>1, InvParts
  <2>3. HashInv' /\ Tracked /\ KeepsOthers({})
    BY <2>1, <2>2, AbortStep, Zenon
  <2> QED
    BY <2>1, <2>3, TrackedCounts, Zenon
<1>5. CASE Aborted
  BY <1>4, <1>5, Zenon
<1>6. CASE ~ fatal /\ Restart
  BY <1>3, <1>6, Zenon
<1>7. CASE ~ fatal /\ \E k \in Keys : Delete(k)
  BY <1>2, <1>7, Zenon
<1>8. CASE ~ fatal /\ \E k \in Keys, v \in Values, is_force \in BOOLEAN : Set(k, v, is_force)
  BY <1>1, <1>8, Zenon
<1> QED
  BY <1>5, <1>6, <1>7, <1>8, Zenon DEF Next

(* A swap leaves the map as it is.                                         *)
LEMMA SwapHotKeyStep ==
    ASSUME CountingFacts, HashInv, SwapHotKey
    PROVE  HashInv' /\ ~ fatal /\ KeepsOthers({}) /\ (fatal' = TRUE \/ fatal' = fatal)
<1>1. PICK k \in Keys : MigrateToVictimSlot(k)
  BY DEF SwapHotKey
<1>2. ~ fatal
  BY DEF SwapHotKey
<1> QED
  BY <1>1, <1>2, SwapStep, Zenon

(* Standing still.                                                         *)
LEMMA HashStutter ==
    ASSUME CountingFacts, HashInv, UNCHANGED vars
    PROVE  /\ HashInv' /\ (OverflowExact => OverflowExact')
           /\ fatal' = fatal /\ KeepsOthers({})
<1>1. UNCHANGED table /\ fatal' = fatal
  BY DEF vars, table
<1>2. fatal' \in BOOLEAN
  BY <1>1, InvParts
<1>3. HashInv' /\ Tracked /\ KeepsOthers({})
  BY <1>1, <1>2, AbortStep, Zenon
<1> QED
  BY <1>1, <1>3, TrackedCounts, Zenon
============================================================================
