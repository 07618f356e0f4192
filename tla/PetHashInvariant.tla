------------------------- MODULE PetHashInvariant -------------------------
(***************************************************************************)
(* The inductive invariant of PetHash, and what it says of lookups, of     *)
(* Valid and of the contents.                                              *)
(*                                                                         *)
(* A lookup of a stored key reaches it because every chunk its chain       *)
(* passed counts it.  The invariant therefore counts: a chunk's            *)
(* overflow_count_ is at its maximum or at least the number of occupied    *)
(* slots whose key's chain passed the chunk.  The lemmas of the first part *)
(* say how these numbers change when one slot is written; every operation  *)
(* writes one slot, a swap three.                                          *)
(***************************************************************************)
EXTENDS PetHash, CountingFacts, TLAPS

USE SMTT(60)

---------------------------------------------------------------------------
(* What the hypothesis CountingFacts says, one fact at a time.             *)
LEMMA SizeNatural ==
    ASSUME CountingFacts, NEW S, IsFiniteSet(S)
    PROVE  Cardinality(S) \in Nat /\ (Cardinality(S) = 0 <=> S = {})
  BY Zenon DEF CountingFacts, SizesAreNatural

(* The empty set.                                                          *)
LEMMA EmptySize ==
    ASSUME CountingFacts
    PROVE  IsFiniteSet({}) /\ Cardinality({}) = 0
  BY Zenon DEF CountingFacts, SizesAreNatural

(* Subsets.                                                                *)
LEMMA SubsetSize ==
    ASSUME CountingFacts, NEW S, IsFiniteSet(S), NEW T \in SUBSET S
    PROVE  /\ IsFiniteSet(T)
           /\ Cardinality(T) <= Cardinality(S)
           /\ Cardinality(S) = Cardinality(T) => S = T
  BY Zenon DEF CountingFacts, SubsetsAreSmaller

(* One element more.                                                       *)
LEMMA AddedSize ==
    ASSUME CountingFacts, NEW S, NEW x, IsFiniteSet(S)
    PROVE  /\ IsFiniteSet(S \cup {x})
           /\ Cardinality(S \cup {x}) = IF x \in S THEN Cardinality(S) ELSE Cardinality(S) + 1
  BY Zenon DEF CountingFacts, ElementsCountOne

(* One element less.                                                       *)
LEMMA RemovedSize ==
    ASSUME CountingFacts, NEW S, NEW x, IsFiniteSet(S)
    PROVE  /\ IsFiniteSet(S \ {x})
           /\ Cardinality(S \ {x}) = IF x \in S THEN Cardinality(S) - 1 ELSE Cardinality(S)
  BY Zenon DEF CountingFacts, ElementsCountOne

(* The numbers below n.                                                    *)
LEMMA RangeSize ==
    ASSUME CountingFacts, NEW n \in Nat
    PROVE  IsFiniteSet(0 .. n - 1) /\ Cardinality(0 .. n - 1) = n
  BY Zenon DEF CountingFacts, RangesCount

(* The image of a one-to-one map.                                          *)
LEMMA BijectionSize ==
    ASSUME CountingFacts, NEW S, NEW T, IsFiniteSet(S), ExistsBijection(S, T)
    PROVE  IsFiniteSet(T) /\ Cardinality(T) = Cardinality(S)
  BY Zenon DEF CountingFacts, BijectionsKeepSize

(* The smallest of some numbers.                                           *)
LEMMA LeastNatural ==
    ASSUME CountingFacts, NEW S \in SUBSET Nat, S # {}
    PROVE  \E e \in S : \A f \in S : e <= f
  BY Zenon DEF CountingFacts, LeastNaturals

---------------------------------------------------------------------------
(* Arithmetic: the remainder that probing and the counters use.            *)

(* What % and \div are.                                                    *)
LEMMA ModDiv ==
    ASSUME NEW a \in Int, NEW m \in Nat \ {0}
    PROVE  /\ a % m \in 0 .. m - 1
           /\ a \div m \in Int
           /\ a = m * (a \div m) + (a % m)
OBVIOUS

(* A multiple of m within m of 0 is 0.                                     *)
LEMMA SmallMultiple ==
    ASSUME NEW m \in Nat \ {0}, NEW q \in Int, NEW r \in Int,
           -m < r, r < m, m * q = r
    PROVE  q = 0
<1>1. CASE q >= 1
  <2>1. m * q >= m
    BY <1>1
  <2> QED
    BY <2>1
<1>2. CASE q <= -1
  <2>1. m * q <= -m
    BY <1>2
  <2> QED
    BY <2>1
<1> QED
  BY <1>1, <1>2

(* The remainder of a number written as a multiple and a small rest.       *)
LEMMA ModUnique ==
    ASSUME NEW m \in Nat \ {0}, NEW q \in Int, NEW r \in 0 .. m - 1
    PROVE  (m * q + r) % m = r
<1> DEFINE a == m * q + r
           d == a \div m
           e == a % m
<1>1. a \in Int
  OBVIOUS
<1>2. d \in Int /\ e \in 0 .. m - 1 /\ m * q + r = m * d + e
  BY ONLY <1>1, m \in Nat \ {0}, ModDiv
<1> HIDE DEF d, e
<1>3. m * (q - d) = m * q - m * d
  BY <1>2
<1>4. m * (q - d) = e - r
  BY <1>2, <1>3
<1>5. q - d = 0
  BY <1>4, <1>2, SmallMultiple
<1>6. e = r
  BY <1>4, <1>5, <1>2
<1> QED
  BY <1>6 DEF e

(* Taking the remainder early does not matter.                             *)
LEMMA ModAdd ==
    ASSUME NEW a \in Int, NEW b \in Int, NEW m \in Nat \ {0}
    PROVE  ((a % m) + b) % m = (a + b) % m
<1> DEFINE q  == a \div m
           r  == a % m
           q1 == (r + b) \div m
           r1 == (r + b) % m
<1>1. q \in Int /\ r \in 0 .. m - 1 /\ a = m * q + r
  BY ModDiv
<1>2. q1 \in Int /\ r1 \in 0 .. m - 1 /\ r + b = m * q1 + r1
  BY <1>1, ModDiv
<1> HIDE DEF q, r, q1, r1
<1>3. a + b = m * (q + q1) + r1
  BY <1>1, <1>2
<1>4. (m * (q + q1) + r1) % m = r1
  <2>1. q + q1 \in Int
    BY <1>1, <1>2
  <2> QED
    BY <1>2, <2>1, ModUnique, Zenon
<1> QED
  BY ONLY <1>3, <1>4, SMTT(60) DEF r1, r

---------------------------------------------------------------------------
(* Counting.                                                               *)

Bit(b) == IF b THEN 1 ELSE 0

(* Two sets that differ at most in x differ in size by x's membership.     *)
LEMMA CountChange ==
    ASSUME CountingFacts, NEW S, NEW T, NEW x, IsFiniteSet(S), S \ {x} = T \ {x}
    PROVE  /\ IsFiniteSet(T)
           /\ Cardinality(S) \in Nat /\ Cardinality(T) \in Nat
           /\ Cardinality(T) = Cardinality(S) - Bit(x \in S) + Bit(x \in T)
           /\ Cardinality(S) >= Bit(x \in S)
<1>1. /\ IsFiniteSet(S \ {x})
      /\ Cardinality(S \ {x}) = Cardinality(S) - Bit(x \in S)
  BY RemovedSize, SizeNatural DEF Bit
<1>2. /\ IsFiniteSet(T)
      /\ Cardinality(T) = Cardinality(S \ {x}) + Bit(x \in T)
  <2>1. CASE x \in T
    <3>1. T = (S \ {x}) \cup {x}
      BY <2>1
    <3> QED
      BY <2>1, <3>1, <1>1, AddedSize DEF Bit
  <2>2. CASE x \notin T
    <3>1. T = S \ {x}
      BY <2>2
    <3> QED
      BY <2>2, <3>1, <1>1, SizeNatural DEF Bit
  <2> QED
    BY <2>1, <2>2
<1>3. /\ Cardinality(S) \in Nat /\ Cardinality(T) \in Nat
      /\ Cardinality(S \ {x}) \in Nat
  BY <1>1, <1>2, SizeNatural
<1> QED
  BY <1>1, <1>2, <1>3 DEF Bit

---------------------------------------------------------------------------
(* Sums over a set, as FiniteSetsExt computes them.                        *)

(* The sum of n over the subsets of C, as the equation that its definition *)
(* by recursion solves.                                                    *)
Pick(T) == CHOOSE x \in T : TRUE
Sums(C, n, f) == [T \in SUBSET C |-> IF T = {} THEN 0
                                      ELSE n[Pick(T)] + f[T \ {Pick(T)}]]

(* The pairs of A whose first element is in T.                             *)
Within(A, T) == {p \in A : p[1] \in T}
CountOf(C, A) == [T \in SUBSET C |-> Cardinality(Within(A, T))]

(* The equation has one solution: two that differ differ on a smallest set *)
(* T.                                                                      *)
LEMMA OneSum ==
    ASSUME CountingFacts, NEW C, IsFiniteSet(C), NEW n, NEW f, f = Sums(C, n, f),
           NEW g, g = Sums(C, n, g)
    PROVE  f[C] = g[C]
<1> DEFINE Wrong == {T \in SUBSET C : f[T] # g[T]}
           Sizes == {m \in Nat : \E T \in Wrong : Cardinality(T) = m}
<1> SUFFICES ASSUME Wrong # {} PROVE FALSE
  OBVIOUS
<1>1. \A T \in SUBSET C : IsFiniteSet(T) /\ Cardinality(T) \in Nat
  BY SubsetSize, SizeNatural
<1>2. Sizes # {} /\ Sizes \in SUBSET Nat
  BY <1>1
<1> HIDE DEF Sizes
<1>3. PICK m \in Sizes : \A l \in Sizes : m <= l
  BY <1>2, LeastNatural
<1>4. PICK T \in Wrong : Cardinality(T) = m
  BY DEF Sizes
<1>5. T \in SUBSET C /\ f[T] # g[T]
  OBVIOUS
<1> HIDE DEF Wrong
<1>6. T # {}
  <2> SUFFICES ASSUME T = {} PROVE FALSE
    OBVIOUS
  <2>1. f[T] = 0 /\ g[T] = 0
    BY <1>5 DEF Sums
  <2> QED
    BY <2>1, <1>5
<1> DEFINE x == Pick(T)
           U == T \ {x}
<1>7. x \in T /\ U \in SUBSET C
  BY <1>5, <1>6 DEF Pick
<1>8. f[T] = n[x] + f[U] /\ g[T] = n[x] + g[U]
  <2>1. \A h : Sums(C, n, h)[T] = n[x] + h[U]
    BY <1>5, <1>6 DEF Sums
  <2> HIDE DEF x, U
  <2> QED
    BY <2>1, Zenon
<1> HIDE DEF x
<1>9. U \in Wrong
  BY <1>5, <1>7, <1>8 DEF Wrong
<1>10. Cardinality(U) = Cardinality(T) - 1
  BY <1>1, <1>5, <1>7, RemovedSize
<1> HIDE DEF U
<1>11. Cardinality(U) \in Sizes
  BY <1>1, <1>7, <1>9 DEF Sizes
<1> QED
  BY <1>1, <1>3, <1>4, <1>5, <1>10, <1>11

(* Counting the pairs of A by their first element solves it.               *)
LEMMA CountsAreSum ==
    ASSUME CountingFacts, NEW C, NEW A, IsFiniteSet(A),
           NEW n, \A c \in C : n[c] = Cardinality(Within(A, {c}))
    PROVE  CountOf(C, A) = Sums(C, n, CountOf(C, A))
<1> DEFINE f == CountOf(C, A)
<1>1. \A T : IsFiniteSet(Within(A, T)) /\ Cardinality(Within(A, T)) \in Nat
  <2>1. \A T : Within(A, T) \in SUBSET A
    BY DEF Within
  <2> QED
    BY <2>1, SubsetSize, SizeNatural
<1>2. ASSUME NEW T \in SUBSET C, NEW x \in T
      PROVE  Cardinality(Within(A, T)) = n[x] + Cardinality(Within(A, T \ {x}))
  <2> DEFINE P == Within(A, {x})
             Q == Within(A, T \ {x})
  <2>1. Within(A, T) = P \cup Q /\ P \cap Q = {}
    BY DEF Within
  <2>3. Cardinality(P) = n[x]
    OBVIOUS
  <2>4. /\ IsFiniteSet(P) /\ Cardinality(P) \in Nat
        /\ IsFiniteSet(Q) /\ Cardinality(Q) \in Nat
    BY <1>1
  <2> HIDE DEF P, Q
  <2>5. Cardinality(P \cup Q) = Cardinality(P) + Cardinality(Q)
    <3>1. Cardinality(P \cap Q) = 0
      BY ONLY CountingFacts, <2>1, EmptySize, SizeNatural, Zenon
    <3>2. Cardinality(P \cup Q) = Cardinality(P) + Cardinality(Q) - Cardinality(P \cap Q)
      BY ONLY CountingFacts, <2>4, Zenon DEF CountingFacts, UnionsAdd
    <3> QED
      BY ONLY <2>4, <3>1, <3>2
  <2> QED
    BY ONLY <2>1, <2>3, <2>5 DEF Q
<1>3. f = [T \in SUBSET C |-> f[T]] /\ \A T \in SUBSET C : f[T] = Cardinality(Within(A, T))
  BY DEF CountOf
<1> HIDE DEF f
<1>4. ASSUME NEW T \in SUBSET C
      PROVE  f[T] = IF T = {} THEN 0 ELSE n[Pick(T)] + f[T \ {Pick(T)}]
  <2>1. CASE T = {}
    <3>1. Within(A, T) = {}
      BY <2>1 DEF Within
    <3>2. f[T] = Cardinality(Within(A, T))
      BY <1>3, Zenon
    <3>3. f[T] = 0
      BY ONLY CountingFacts, <3>1, <3>2, EmptySize, SizeNatural
    <3> QED
      BY ONLY <2>1, <3>3
  <2>2. CASE T # {}
    <3> DEFINE x == Pick(T)
               U == T \ {x}
    <3>1. x \in T /\ U \in SUBSET C
      BY <2>2 DEF Pick
    <3>2. f[T] = Cardinality(Within(A, T)) /\ f[U] = Cardinality(Within(A, U))
      BY <3>1, <1>3, Zenon
    <3>3. Cardinality(Within(A, T)) = n[x] + Cardinality(Within(A, U))
      BY <3>1, <1>2
    <3>4. f[T] = n[x] + f[U]
      BY <3>2, <3>3
    <3> QED
      BY <2>2, <3>4
  <2> QED
    BY <2>1, <2>2
<1>5. f = Sums(C, n, f)
  BY ONLY <1>3, <1>4, Zenon DEF Sums
<1> QED
  BY <1>5, Zenon DEF f

---------------------------------------------------------------------------
(* Functions.                                                              *)

\* A function changed at one point, written out argument by argument.
LEMMA FunctionBut ==
  ASSUME NEW D, NEW f, f = [x \in D |-> f[x]], NEW k \in D, NEW v
  PROVE  [f EXCEPT ![k] = v] = [x \in D |-> IF x = k THEN v ELSE f[x]]
  OBVIOUS

\* A table changed in one cell.
LEMMA TableBut ==
  ASSUME NEW D, NEW E, NEW R, NEW f \in [D -> [E -> R]],
         NEW i \in D, NEW j \in E, NEW v \in R,
         NEW g, g = [f EXCEPT ![i][j] = v]
  PROVE  /\ g \in [D -> [E -> R]] /\ g[i][j] = v
         /\ \A d \in D, e \in E : d # i \/ e # j => g[d][e] = f[d][e]
  OBVIOUS

\* A function changed at two points, the second change winning.
LEMMA FunctionButTwo ==
  ASSUME NEW D, NEW f, f = [x \in D |-> f[x]], NEW j \in D, NEW k \in D, NEW u, NEW v
  PROVE  [f EXCEPT ![j] = u, ![k] = v] =
           [x \in D |-> IF x = k THEN v ELSE IF x = j THEN u ELSE f[x]]
  OBVIOUS

---------------------------------------------------------------------------
(* Writing one slot.  The operators take the slots as a parameter, for the *)
(* tables between the three writes of a swap.                              *)

Places == Chunks \X Slots
Tables == [Chunks -> [Slots -> Keys \cup {NoKey}]]

KeyAt(sl, p)     == sl[p[1]][p[2]]
Written(sl, p, b) == [sl EXCEPT ![p[1]][p[2]] = b]

(* The chain of k passes chunk c on its way to chunk e.                    *)
Passes(k, e, c) == \E i, j \in Chunks : j < i /\ Pos(k, i) = e /\ Pos(k, j) = c

Occupied(sl)      == {p \in Places : KeyAt(sl, p) # NoKey}
StoredIn(sl, c)   == {s \in Slots : sl[c][s] # NoKey}
PassingIn(sl, c)  == {p \in Occupied(sl) : Passes(KeyAt(sl, p), p[1], c)}
Unique(sl)        == \A p, q \in Occupied(sl) : KeyAt(sl, p) = KeyAt(sl, q) => p = q

(* The operators of PetHash are these ones, of the variable slot.          *)
LEMMA OfSlot ==
    /\ AllStored = Occupied(slot)
    /\ \A c \in Chunks : Stored(c) = StoredIn(slot, c)
    /\ \A c \in Chunks : PassingSlots(c) = PassingIn(slot, c)
    /\ \A p : AtSlot(p) = KeyAt(slot, p)
  BY DEF AllStored, Occupied, AtSlot, KeyAt, Places, Stored, StoredIn,
         PassingSlots, PassingIn, Passes

(* ... in the next state as well.                                          *)
LEMMA OfSlotNext ==
    /\ AllStored' = Occupied(slot')
    /\ \A c \in Chunks : Stored(c)' = StoredIn(slot', c)
    /\ \A c \in Chunks : PassingSlots(c)' = PassingIn(slot', c)
    /\ \A p : AtSlot(p)' = KeyAt(slot', p)
  BY DEF AllStored, Occupied, AtSlot, KeyAt, Places, Stored, StoredIn,
         PassingSlots, PassingIn, Passes

(* There are finitely many places, so all these sets can be counted.       *)
LEMMA FiniteTable ==
    ASSUME CountingFacts
    PROVE  /\ IsFiniteSet(Chunks) /\ IsFiniteSet(Slots)
           /\ Cardinality(Chunks) = ChunkNum /\ Cardinality(Slots) = kMaxSize
           /\ IsFiniteSet(Places) /\ Cardinality(Places) = ChunkNum * kMaxSize
           /\ \A sl : IsFiniteSet(Occupied(sl)) /\ Cardinality(Occupied(sl)) \in Nat
           /\ \A sl, c : IsFiniteSet(StoredIn(sl, c)) /\ Cardinality(StoredIn(sl, c)) \in Nat
           /\ \A sl, c : IsFiniteSet(PassingIn(sl, c)) /\ Cardinality(PassingIn(sl, c)) \in Nat
<1>1. /\ IsFiniteSet(Chunks) /\ IsFiniteSet(Slots)
      /\ Cardinality(Chunks) = ChunkNum /\ Cardinality(Slots) = kMaxSize
  BY HashAssumption, RangeSize DEF Chunks, Slots
<1>2. IsFiniteSet(Places) /\ Cardinality(Places) = ChunkNum * kMaxSize
  BY <1>1, CountingFacts DEF CountingFacts, ProductsMultiply, Places
<1>3. \A sl : Occupied(sl) \in SUBSET Places
  BY DEF Occupied
<1>4. \A sl, c : StoredIn(sl, c) \in SUBSET Slots
  BY DEF StoredIn
<1>5. \A sl, c : PassingIn(sl, c) \in SUBSET Places
  BY <1>3 DEF PassingIn
<1> QED
  BY <1>1, <1>2, <1>3, <1>4, <1>5, SubsetSize, SizeNatural

(* What a write leaves alone.                                              *)
LEMMA WriteOne ==
    ASSUME NEW sl \in Tables, NEW p \in Places, NEW b \in Keys \cup {NoKey}
    PROVE  /\ Written(sl, p, b) \in Tables
           /\ KeyAt(Written(sl, p, b), p) = b
           /\ \A q \in Places : q # p => KeyAt(Written(sl, p, b), q) = KeyAt(sl, q)
           /\ \A c \in Chunks : c # p[1] => Written(sl, p, b)[c] = sl[c]
           /\ \A s \in Slots : s # p[2] => Written(sl, p, b)[p[1]][s] = sl[p[1]][s]
  BY DEF Tables, Places, Written, KeyAt

(* How the counts change when b is written over what p held.               *)
LEMMA WriteCounts ==
    ASSUME CountingFacts, NEW sl \in Tables, NEW p \in Places, NEW b \in Keys \cup {NoKey},
           NEW n, n = Written(sl, p, b), NEW a, a = KeyAt(sl, p)
    PROVE  /\ Cardinality(Occupied(n)) =
                  Cardinality(Occupied(sl)) - Bit(a # NoKey) + Bit(b # NoKey)
           /\ \A c \in Chunks : Cardinality(StoredIn(n, c)) =
                  IF c = p[1]
                  THEN Cardinality(StoredIn(sl, c)) - Bit(a # NoKey) + Bit(b # NoKey)
                  ELSE Cardinality(StoredIn(sl, c))
           /\ \A c \in Chunks : Cardinality(PassingIn(n, c)) =
                  Cardinality(PassingIn(sl, c))
                  - Bit(a # NoKey /\ Passes(a, p[1], c))
                  + Bit(b # NoKey /\ Passes(b, p[1], c))
           /\ \A c \in Chunks : a # NoKey /\ Passes(a, p[1], c) =>
                  Cardinality(PassingIn(sl, c)) >= 1
           /\ a # NoKey => /\ Cardinality(Occupied(sl)) >= 1
                           /\ Cardinality(StoredIn(sl, p[1])) >= 1
<1>1. /\ KeyAt(n, p) = b
      /\ \A q \in Places : q # p => KeyAt(n, q) = KeyAt(sl, q)
      /\ \A c \in Chunks : c # p[1] => n[c] = sl[c]
      /\ \A s \in Slots : s # p[2] => n[p[1]][s] = sl[p[1]][s]
      /\ p \in Places /\ p[1] \in Chunks /\ p[2] \in Slots
  BY WriteOne DEF Places
<1>2. Occupied(sl) \ {p} = Occupied(n) \ {p}
  BY <1>1 DEF Occupied
<1>3. (p \in Occupied(sl) <=> a # NoKey) /\ (p \in Occupied(n) <=> b # NoKey)
  BY <1>1 DEF Occupied
<1>4. /\ Cardinality(Occupied(n)) =
             Cardinality(Occupied(sl)) - Bit(a # NoKey) + Bit(b # NoKey)
      /\ a # NoKey => Cardinality(Occupied(sl)) >= 1
  BY <1>2, <1>3, CountChange, FiniteTable DEF Bit
<1>5. ASSUME NEW c \in Chunks
      PROVE  /\ Cardinality(StoredIn(n, c)) =
                IF c = p[1]
                THEN Cardinality(StoredIn(sl, c)) - Bit(a # NoKey) + Bit(b # NoKey)
                ELSE Cardinality(StoredIn(sl, c))
             /\ c = p[1] /\ a # NoKey => Cardinality(StoredIn(sl, c)) >= 1
  <2>1. CASE c = p[1]
    <3>1. StoredIn(sl, c) \ {p[2]} = StoredIn(n, c) \ {p[2]}
      BY <1>1, <2>1 DEF StoredIn
    <3>2. /\ p[2] \in StoredIn(sl, c) <=> a # NoKey
          /\ p[2] \in StoredIn(n, c) <=> b # NoKey
      BY <1>1, <2>1 DEF StoredIn, KeyAt
    <3> QED
      BY <2>1, <3>1, <3>2, CountChange, FiniteTable DEF Bit
  <2>2. CASE c # p[1]
    <3>1. StoredIn(sl, c) = StoredIn(n, c)
      BY <1>1, <2>2 DEF StoredIn
    <3> QED
      BY <2>2, <3>1
  <2> QED
    BY <2>1, <2>2
<1>6. ASSUME NEW c \in Chunks
      PROVE  /\ Cardinality(PassingIn(n, c)) =
                  Cardinality(PassingIn(sl, c))
                  - Bit(a # NoKey /\ Passes(a, p[1], c))
                  + Bit(b # NoKey /\ Passes(b, p[1], c))
             /\ a # NoKey /\ Passes(a, p[1], c) => Cardinality(PassingIn(sl, c)) >= 1
  <2>1. PassingIn(sl, c) \ {p} = PassingIn(n, c) \ {p}
    BY <1>1 DEF PassingIn, Occupied
  <2>2. /\ p \in PassingIn(sl, c) <=> a # NoKey /\ Passes(a, p[1], c)
        /\ p \in PassingIn(n, c) <=> b # NoKey /\ Passes(b, p[1], c)
    BY <1>1, <1>3 DEF PassingIn
  <2> QED
    BY <2>1, <2>2, CountChange, FiniteTable DEF Bit
<1> QED
  BY <1>1, <1>4, <1>5, <1>6

---------------------------------------------------------------------------
(* The invariant.                                                          *)

(* The size of every chunk and of the table is what is stored in them.     *)
SizesExact ==
    /\ \A c \in Chunks : chunk_size[c] = Cardinality(Stored(c))
    /\ size_ = Cardinality(AllStored)

(* A chunk counts at least the keys whose chain passed it, or is stuck.    *)
OverflowEnough ==
    \A c \in Chunks : \/ overflow_count_[c] = MaxOverflow
                      \/ overflow_count_[c] >= Cardinality(PassingSlots(c))

(* A key is stored once, and with a value.                                 *)
StoredOnce == Unique(slot) /\ \A p \in AllStored : val[p[1]][p[2]] \in Values

HashInv == TypeOK /\ SizesExact /\ OverflowEnough /\ StoredOnce

---------------------------------------------------------------------------
(* Probing.                                                                *)

(* A chain visits every chunk, and each once in ChunkNum steps.            *)
LEMMA Chain ==
    ASSUME NEW k \in Keys
    PROVE  /\ \A i \in Nat : Pos(k, i) \in Chunks
           /\ \A i, j \in Chunks : Pos(k, i) = Pos(k, j) => i = j
           /\ \A c \in Chunks : \E i \in Chunks : Pos(k, i) = c
           /\ Pos(k, 0) = Home[k] /\ Home[k] \in Chunks
<1>1. Home[k] \in Chunks /\ Sign[k] \in Nat /\ ChunkNum \in Nat \ {0}
  BY HashAssumption
<1>2. \A i \in Nat : Home[k] + i * ProbeDelta(k) \in Int
  BY <1>1 DEF ProbeDelta, Chunks
<1>3. \A i \in Nat : Pos(k, i) \in Chunks
  <2> SUFFICES ASSUME NEW i \in Nat PROVE Pos(k, i) \in Chunks
    OBVIOUS
  <2> DEFINE a == Home[k] + i * ProbeDelta(k)
  <2>1. a \in Int
    BY <1>2
  <2> HIDE DEF a
  <2>2. a % ChunkNum \in 0 .. ChunkNum - 1
    BY <1>1, <2>1, ModDiv
  <2> QED
    BY <2>2 DEF Pos, Chunks, a
<1>4. Pos(k, 0) = Home[k]
  <2>1. Home[k] + 0 * ProbeDelta(k) = ChunkNum * 0 + Home[k]
    BY <1>1 DEF ProbeDelta, Chunks
  <2>2. (ChunkNum * 0 + Home[k]) % ChunkNum = Home[k]
    BY <1>1, ModUnique DEF Chunks
  <2> QED
    BY <2>1, <2>2 DEF Pos
<1> QED
  BY <1>1, <1>3, <1>4, HashAssumption

(* The chunks passed on the way to the i-th are the first i of the chain.  *)
LEMMA PassedChunks ==
    ASSUME NEW k \in Keys, NEW i \in Chunks, NEW c
    PROVE  Passes(k, Pos(k, i), c) <=> c \in Passed(k, i)
<1>1. i \in Nat /\ i < ChunkNum /\ 0 .. i - 1 \subseteq Chunks
  BY HashAssumption DEF Chunks
<1>2. ASSUME Passes(k, Pos(k, i), c) PROVE c \in Passed(k, i)
  <2>1. PICK m \in Chunks, j \in Chunks : j < m /\ Pos(k, m) = Pos(k, i) /\ Pos(k, j) = c
    BY <1>2 DEF Passes
  <2>2. m = i
    BY <2>1, Chain
  <2>3. j \in 0 .. i - 1
    BY <2>1, <2>2, <1>1 DEF Chunks
  <2> QED
    BY <2>1, <2>3 DEF Passed
<1>3. ASSUME c \in Passed(k, i) PROVE Passes(k, Pos(k, i), c)
  <2>1. PICK j \in 0 .. i - 1 : c = Pos(k, j)
    BY <1>3 DEF Passed
  <2>2. j \in Chunks /\ j < i
    BY <2>1, <1>1
  <2> QED
    BY <2>1, <2>2 DEF Passes
<1> QED
  BY <1>2, <1>3

(* A lookup that finds a key finds it where it is stored.                  *)
LEMMA FoundPlace ==
    ASSUME StoredOnce, NEW k \in Keys, Exists(k)
    PROVE  \E p \in AllStored :
              /\ AtSlot(p) = k
              /\ Distance(k) \in Chunks
              /\ Where(k) = p[1]
              /\ SlotOf(k, p[1]) = p[2]
              /\ Get(k) = val[p[1]][p[2]]
<1>1. Distance(k) \in Chunks /\ FoundAt(k, Distance(k))
  BY DEF Exists, Distance
<1>2. Where(k) \in Chunks /\ In(k, Where(k))
  BY <1>1, Chain, HashAssumption DEF FoundAt, Where, Chunks
<1>3. PICK s \in Slots : slot[Where(k)][s] = k
  BY <1>2 DEF In
<1> DEFINE p == <<Where(k), s>>
<1>4. p \in AllStored /\ AtSlot(p) = k /\ p[1] = Where(k) /\ p[2] = s
  BY <1>2, <1>3, HashAssumption DEF AllStored, AtSlot
<1>5. SlotOf(k, p[1]) = p[2]
  <2>1. \A r \in Slots : slot[p[1]][r] = k => r = p[2]
    <3> SUFFICES ASSUME NEW r \in Slots, slot[p[1]][r] = k PROVE r = p[2]
      OBVIOUS
    <3>1. <<p[1], r>> \in AllStored /\ AtSlot(<<p[1], r>>) = k
      BY <1>2, <1>4, HashAssumption DEF AllStored, AtSlot
    <3>2. <<p[1], r>> = p
      BY <1>4, <3>1, OfSlot DEF StoredOnce, Unique
    <3> QED
      BY <3>2
  <2>2. slot[p[1]][p[2]] = k
    BY <1>3, <1>4
  <2>3. \A r \in 0 .. p[2] - 1 : slot[p[1]][r] # k
    BY <2>1, <1>4, HashAssumption DEF Slots
  <2> QED
    BY <2>1, <2>2, <2>3, <1>4 DEF SlotOf
<1>6. Get(k) = val[p[1]][p[2]]
  BY <1>4, <1>5 DEF Get
<1> QED
  BY <1>1, <1>4, <1>5, <1>6

(* A stored key is found if the chunks that its chain passes count.        *)
LEMMA CountedKeyFound ==
    ASSUME StoredOnce, NEW p \in AllStored, NEW k \in Keys, AtSlot(p) = k,
           \A c \in Chunks : Passes(k, p[1], c) => overflow_count_[c] # 0
    PROVE  Exists(k)
<1>1. p[1] \in Chunks /\ p[2] \in Slots
  BY DEF AllStored
<1>2. \A c \in Chunks : In(k, c) => c = p[1]
  <2> SUFFICES ASSUME NEW c \in Chunks, In(k, c) PROVE c = p[1]
    OBVIOUS
  <2>1. PICK s \in Slots : slot[c][s] = k
    BY DEF In
  <2>2. <<c, s>> \in AllStored /\ AtSlot(<<c, s>>) = k
    BY <2>1, HashAssumption DEF AllStored, AtSlot
  <2>3. <<c, s>> = p
    BY <2>2, OfSlot DEF StoredOnce, Unique
  <2> QED
    BY <2>3
<1>3. In(k, p[1])
  BY <1>1 DEF In, AtSlot
<1>4. PICK i \in Chunks : Pos(k, i) = p[1]
  BY <1>1, Chain
<1>5. ASSUME NEW j \in 0 .. i - 1
      PROVE  ~ In(k, Pos(k, j)) /\ overflow_count_[Pos(k, j)] # 0
  <2>1. j \in Chunks /\ j < i /\ j # i /\ j \in Nat
    BY HashAssumption DEF Chunks
  <2>2. Pos(k, j) \in Chunks /\ Pos(k, j) # p[1]
    BY <2>1, <1>4, Chain
  <2>3. Passes(k, p[1], Pos(k, j))
    BY <2>1, <1>4 DEF Passes
  <2> QED
    BY <2>2, <2>3, <1>2
<1> QED
  BY <1>3, <1>4, <1>5 DEF Exists, FoundAt, Reaches

(* What a lookup does when the counts are enough: it finds the keys that   *)
(* are stored, where they are stored, and no others.                       *)
Lookups ==
    \A k \in Keys :
        /\ Exists(k) => \E p \in AllStored : AtSlot(p) = k
        /\ \A p \in AllStored : AtSlot(p) = k =>
              /\ Exists(k)
              /\ Distance(k) \in Chunks
              /\ Where(k) = p[1]
              /\ SlotOf(k, p[1]) = p[2]
              /\ Get(k) = val[p[1]][p[2]]

LEMMA LookupsFind ==
    ASSUME CountingFacts
    PROVE  StoredOnce /\ OverflowEnough => Lookups
<1> SUFFICES ASSUME StoredOnce, OverflowEnough, NEW k \in Keys
             PROVE  /\ Exists(k) => \E p \in AllStored : AtSlot(p) = k
                    /\ \A p \in AllStored : AtSlot(p) = k =>
                          /\ Exists(k)
                          /\ Distance(k) \in Chunks
                          /\ Where(k) = p[1]
                          /\ SlotOf(k, p[1]) = p[2]
                          /\ Get(k) = val[p[1]][p[2]]
  BY DEF Lookups
<1>1. ASSUME NEW p \in AllStored, AtSlot(p) = k
      PROVE  /\ Exists(k)
             /\ Distance(k) \in Chunks
             /\ Where(k) = p[1]
             /\ SlotOf(k, p[1]) = p[2]
             /\ Get(k) = val[p[1]][p[2]]
  <2>1. ASSUME NEW c \in Chunks, Passes(k, p[1], c) PROVE overflow_count_[c] # 0
    <3>1. p \in PassingSlots(c)
      BY <1>1, <2>1 DEF PassingSlots, Passes
    <3>2. Cardinality(PassingSlots(c)) \in Nat \ {0}
      BY <3>1, OfSlot, FiniteTable, EmptySize, SizeNatural
    <3>3. \/ overflow_count_[c] = MaxOverflow
          \/ overflow_count_[c] >= Cardinality(PassingSlots(c))
      BY Zenon DEF OverflowEnough
    <3> QED
      BY <3>2, <3>3, HashAssumption
  <2>2. Exists(k)
    BY <1>1, <2>1, CountedKeyFound
  <2>3. PICK q \in AllStored : /\ AtSlot(q) = k
                               /\ Distance(k) \in Chunks
                               /\ Where(k) = q[1]
                               /\ SlotOf(k, q[1]) = q[2]
                               /\ Get(k) = val[q[1]][q[2]]
    BY <2>2, FoundPlace
  <2>4. q = p
    BY <1>1, <2>3, OfSlot DEF StoredOnce, Unique
  <2> QED
    BY <2>2, <2>3, <2>4
<1> QED
  BY <1>1, FoundPlace

LEMMA LookupsWork ==
    ASSUME CountingFacts
    PROVE  HashInv => Lookups
  BY LookupsFind DEF HashInv

LEMMA LookupsWorkNext ==
    ASSUME CountingFacts
    PROVE  HashInv' => Lookups'
  BY LookupsWork, PTL

---------------------------------------------------------------------------
(* Valid.                                                                  *)

(* The stored slots of one chunk, as places.                               *)
LEMMA StoredInChunk ==
    ASSUME CountingFacts, NEW sl, NEW c \in Chunks
    PROVE  Cardinality(StoredIn(sl, c)) = Cardinality(Within(Occupied(sl), {c}))
<1> DEFINE S == StoredIn(sl, c)
           T == Within(Occupied(sl), {c})
           f == [s \in S |-> <<c, s>>]
<1>1. f \in Bijection(S, T)
  <2>1. f \in [S -> T]
    BY DEF Within, StoredIn, Occupied, Places, KeyAt
  <2>2. \A s, r \in S : f[s] = f[r] => s = r
    OBVIOUS
  <2>3. \A p \in T : \E s \in S : f[s] = p
    <3> SUFFICES ASSUME NEW p \in T PROVE \E s \in S : f[s] = p
      OBVIOUS
    <3>1. p[2] \in S /\ p = <<c, p[2]>>
      BY DEF Within, StoredIn, Occupied, Places, KeyAt
    <3>2. f[p[2]] = p
      BY <3>1
    <3> QED
      BY <3>1, <3>2
  <2> HIDE DEF f, S, T
  <2> QED
    BY <2>1, <2>2, <2>3 DEF Bijection, Injection, Surjection, IsInjective
<1>2. ExistsBijection(S, T)
  BY <1>1 DEF ExistsBijection
<1> HIDE DEF S, T
<1>3. Cardinality(T) = Cardinality(S)
  BY <1>2, FiniteTable, BijectionSize DEF S
<1> QED
  BY <1>3 DEF S, T

(* A table of the invariant passes Valid.                                  *)
LEMMA InvValid ==
    ASSUME CountingFacts
    PROVE  HashInv => Valid
<1> SUFFICES ASSUME HashInv PROVE Valid
  OBVIOUS
<1>1. \A p \in AllStored : AtSlot(p) \in Keys
  BY DEF AllStored, AtSlot, HashInv, TypeOK
<1>2. \A p \in AllStored : Exists(AtSlot(p))
  BY <1>1, LookupsWork DEF Lookups
<1>3. size_ = Cardinality(AllStored)
  BY DEF HashInv, SizesExact
<1>4. size_ <= ChunkNum * kMaxSize
  <2>1. AllStored \in SUBSET Places
    BY DEF AllStored, Places
  <2> QED
    BY <1>3, <2>1, FiniteTable, SubsetSize
<1>5. size_ = MapThenSumSet(LAMBDA c : chunk_size[c], Chunks)
  <2>1. IsFiniteSet(Chunks) /\ IsFiniteSet(AllStored)
    BY FiniteTable, OfSlot
  <2>2. \A p \in AllStored : p[1] \in Chunks
    BY DEF AllStored
  <2>3. \A c \in Chunks : chunk_size[c] = Cardinality(Within(AllStored, {c}))
    <3> SUFFICES ASSUME NEW c \in Chunks
                 PROVE  chunk_size[c] = Cardinality(Within(AllStored, {c}))
      OBVIOUS
    <3>1. chunk_size[c] = Cardinality(StoredIn(slot, c))
      BY OfSlot, Zenon DEF HashInv, SizesExact
    <3>2. Cardinality(StoredIn(slot, c)) = Cardinality(Within(Occupied(slot), {c}))
      BY StoredInChunk, Zenon
    <3> QED
      BY <3>1, <3>2, OfSlot, Zenon
  <2> DEFINE count == CountOf(Chunks, AllStored)
             iter  == CHOOSE f : f = Sums(Chunks, chunk_size, f)
  <2>4. count = Sums(Chunks, chunk_size, count)
    BY <2>1, <2>3, CountsAreSum, Zenon
  <2>5. count[Chunks] = Cardinality(AllStored)
    <3>1. Within(AllStored, Chunks) = AllStored
      BY <2>2 DEF Within
    <3> QED
      BY <3>1 DEF CountOf
  <2>6. iter[Chunks] = count[Chunks]
    <3> HIDE DEF count
    <3>1. iter = Sums(Chunks, chunk_size, iter)
      BY <2>4
    <3> HIDE DEF iter
    <3> QED
      BY <2>1, <2>4, <3>1, OneSum
  <2>7. MapThenSumSet(LAMBDA c : chunk_size[c], Chunks) = iter[Chunks]
    BY DEF MapThenSumSet, MapThenFoldSet, Sums, Pick
  <2> HIDE DEF iter, count
  <2> QED
    BY <1>3, <2>5, <2>6, <2>7
<1> QED
  BY <1>2, <1>3, <1>4, <1>5 DEF Valid

---------------------------------------------------------------------------
(* What a step has to show.                                                *)

(* The contents, as the map of KVMap: the value beside a stored key, and   *)
(* NoValue for the others.                                                 *)
Mapped ==
    \A k \in Keys :
        /\ \A p \in Places : KeyAt(slot, p) = k => Get(k) = val[p[1]][p[2]]
        /\ (\A p \in Places : KeyAt(slot, p) # k) => Get(k) = NoValue

LEMMA MappedAre ==
    ASSUME CountingFacts
    PROVE  HashInv => Mapped
<1> SUFFICES ASSUME HashInv, NEW k \in Keys
             PROVE  /\ \A p \in Places : KeyAt(slot, p) = k => Get(k) = val[p[1]][p[2]]
                    /\ (\A p \in Places : KeyAt(slot, p) # k) => Get(k) = NoValue
  BY DEF Mapped
<1>1. AllStored = Occupied(slot) /\ \A p : AtSlot(p) = KeyAt(slot, p)
  BY OfSlot
<1>2. k # NoKey
  BY HashAssumption
<1>3. ASSUME NEW p \in Places, KeyAt(slot, p) = k PROVE Get(k) = val[p[1]][p[2]]
  <2>1. p \in AllStored /\ AtSlot(p) = k
    BY <1>1, <1>2, <1>3 DEF Occupied
  <2> QED
    BY <2>1, LookupsWork DEF Lookups
<1>4. ASSUME \A p \in Places : KeyAt(slot, p) # k PROVE Get(k) = NoValue
  <2>1. ~ Exists(k)
    BY <1>1, <1>4, LookupsWork DEF Lookups, Occupied
  <2> QED
    BY <2>1 DEF Get
<1> QED
  BY <1>3, <1>4

LEMMA MappedAreNext ==
    ASSUME CountingFacts
    PROVE  HashInv' => Mapped'
  BY MappedAre, PTL

(* The counters: what they count up to, and that they do count.            *)
LEMMA Counters ==
    ASSUME NEW n \in 0 .. MaxOverflow
    PROVE  /\ IncOverflow(n) \in 0 .. MaxOverflow /\ DecOverflow(n) \in 0 .. MaxOverflow
           /\ n # MaxOverflow => IncOverflow(n) = n + 1
           /\ n # MaxOverflow /\ n # 0 => DecOverflow(n) = n - 1
           /\ n = MaxOverflow => IncOverflow(n) = n /\ DecOverflow(n) = n
<1>1. MaxOverflow \in Nat \ {0}
  BY HashAssumption
<1>2. (n + MaxOverflow) % (MaxOverflow + 1) \in 0 .. MaxOverflow
  BY <1>1, ModDiv
<1>3. n # 0 => (n + MaxOverflow) % (MaxOverflow + 1) = n - 1
  <2> SUFFICES ASSUME n # 0 PROVE (n + MaxOverflow) % (MaxOverflow + 1) = n - 1
    OBVIOUS
  <2> DEFINE m == MaxOverflow + 1
             r == n - 1
  <2>1. n + MaxOverflow = m * 1 + r /\ m \in Nat \ {0} /\ r \in 0 .. m - 1 /\ 1 \in Int
    BY <1>1
  <2> HIDE DEF m, r
  <2>2. (m * 1 + r) % m = r
    BY <2>1, ModUnique
  <2> QED
    BY <2>1, <2>2 DEF m, r
<1> QED
  BY <1>1, <1>2, <1>3 DEF IncOverflow, DecOverflow

(* A step counts the keys that pass a chunk up and down as they come and   *)
(* go.                                                                     *)
Tracked ==
    \A c \in Chunks :
        \/ /\ overflow_count_'[c] = overflow_count_[c]
           /\ Cardinality(PassingIn(slot', c)) = Cardinality(PassingIn(slot, c))
        \/ /\ overflow_count_'[c] = IncOverflow(overflow_count_[c])
           /\ Cardinality(PassingIn(slot', c)) = Cardinality(PassingIn(slot, c)) + 1
        \/ /\ overflow_count_'[c] = DecOverflow(overflow_count_[c])
           /\ Cardinality(PassingIn(slot, c)) >= 1
           /\ Cardinality(PassingIn(slot', c)) = Cardinality(PassingIn(slot, c)) - 1

LEMMA TrackedCounts ==
    ASSUME CountingFacts, HashInv, Tracked
    PROVE  /\ \A c \in Chunks : overflow_count_'[c] \in 0 .. MaxOverflow
           /\ OverflowEnough'
           /\ OverflowExact => OverflowExact'
<1>1. \A c \in Chunks : /\ PassingSlots(c) = PassingIn(slot, c)
                        /\ PassingSlots(c)' = PassingIn(slot', c)
  BY OfSlot, OfSlotNext, Zenon
<1>2. \A c \in Chunks : /\ Cardinality(PassingIn(slot, c)) \in Nat
                        /\ Cardinality(PassingIn(slot', c)) \in Nat
  BY FiniteTable, Zenon
<1>3. ASSUME NEW c \in Chunks
      PROVE  /\ overflow_count_[c] \in 0 .. MaxOverflow
             /\ \/ overflow_count_[c] = MaxOverflow
                \/ overflow_count_[c] >= Cardinality(PassingIn(slot, c))
  <2>1. overflow_count_[c] \in 0 .. MaxOverflow
    BY DEF HashInv, TypeOK
  <2>2. \/ overflow_count_[c] = MaxOverflow
        \/ overflow_count_[c] >= Cardinality(PassingIn(slot, c))
    BY <1>1, Zenon DEF HashInv, OverflowEnough
  <2> QED
    BY <2>1, <2>2
<1>4. ASSUME NEW c \in Chunks
      PROVE  /\ overflow_count_'[c] \in 0 .. MaxOverflow
             /\ \/ overflow_count_'[c] = MaxOverflow
                \/ overflow_count_'[c] >= Cardinality(PassingIn(slot', c))
             /\ (overflow_count_[c] # MaxOverflow =>
                    overflow_count_[c] = Cardinality(PassingIn(slot, c)))
                => (overflow_count_'[c] # MaxOverflow =>
                    overflow_count_'[c] = Cardinality(PassingIn(slot', c)))
  BY <1>2, <1>3, Counters, HashAssumption DEF Tracked
<1>5. OverflowEnough'
  BY <1>1, <1>4, Zenon DEF OverflowEnough
<1>6. ASSUME OverflowExact PROVE OverflowExact'
  <2>1. \A c \in Chunks : overflow_count_[c] # MaxOverflow =>
            overflow_count_[c] = Cardinality(PassingIn(slot, c))
    BY <1>1, <1>6, Zenon DEF OverflowExact
  <2>2. \A c \in Chunks : overflow_count_'[c] # MaxOverflow =>
            overflow_count_'[c] = Cardinality(PassingIn(slot', c))
    BY <2>1, <1>4
  <2> QED
    BY <1>1, <2>2, Zenon DEF OverflowExact
<1> QED
  BY <1>4, <1>5, <1>6

(* The sizes that the invariant gives a chunk and the table fit their type. *)
LEMMA SizesTyped ==
    ASSUME CountingFacts, NEW sl
    PROVE  /\ \A c \in Chunks : Cardinality(StoredIn(sl, c)) \in 0 .. kMaxSize
           /\ Cardinality(Occupied(sl)) \in 0 .. ChunkNum * kMaxSize
<1>1. Occupied(sl) \in SUBSET Places /\ \A c : StoredIn(sl, c) \in SUBSET Slots
  BY DEF Occupied, StoredIn
<1>2. \A c : Cardinality(StoredIn(sl, c)) <= kMaxSize
  BY <1>1, FiniteTable, SubsetSize
<1>3. Cardinality(Occupied(sl)) <= ChunkNum * kMaxSize
  BY <1>1, FiniteTable, SubsetSize
<1> QED
  BY <1>2, <1>3, FiniteTable, HashAssumption

(* The invariant after a step, from its parts.                             *)
LEMMA Assemble ==
    ASSUME CountingFacts, slot' \in Tables, val' \in [Chunks -> [Slots -> Values \cup {NoValue}]],
           fatal' \in BOOLEAN,
           Unique(slot'), \A p \in Occupied(slot') : val'[p[1]][p[2]] \in Values,
           chunk_size' = [c \in Chunks |-> Cardinality(StoredIn(slot', c))],
           size_' = Cardinality(Occupied(slot')),
           overflow_count_' \in [Chunks -> 0 .. MaxOverflow], OverflowEnough'
    PROVE  HashInv'
<1>1. StoredOnce'
  BY OfSlotNext, Zenon DEF StoredOnce
<1>2. SizesExact'
  <2>1. \A c \in Chunks : chunk_size'[c] = Cardinality(StoredIn(slot', c))
    OBVIOUS
  <2> QED
    BY <2>1, OfSlotNext, Zenon DEF SizesExact
<1>3. TypeOK'
  <2>1. chunk_size' \in [Chunks -> 0 .. kMaxSize] /\ size_' \in 0 .. ChunkNum * kMaxSize
    BY SizesTyped
  <2> QED
    BY <2>1, Zenon DEF TypeOK, Tables
<1> QED
  BY <1>1, <1>2, <1>3 DEF HashInv

(* A key that is nowhere else can be written without storing it twice.     *)
LEMMA WriteUnique ==
    ASSUME NEW sl \in Tables, Unique(sl), NEW p \in Places, NEW b \in Keys \cup {NoKey},
           b # NoKey => \A q \in Occupied(sl) : q # p => KeyAt(sl, q) # b
    PROVE  Unique(Written(sl, p, b))
<1> DEFINE n == Written(sl, p, b)
<1>0. n = Written(sl, p, b)
  OBVIOUS
<1> HIDE DEF n
<1>1. KeyAt(n, p) = b /\ \A q \in Places : q # p => KeyAt(n, q) = KeyAt(sl, q)
  BY <1>0, WriteOne
<1>2. ASSUME NEW q \in Occupied(n), NEW r \in Occupied(n), KeyAt(n, q) = KeyAt(n, r)
      PROVE  q = r
  <2>1. q \in Places /\ r \in Places /\ KeyAt(n, q) # NoKey
    BY DEF Occupied
  <2> QED
    BY <1>1, <1>2, <2>1, Zenon DEF Unique, Occupied
<1>3. Unique(n)
  BY <1>2, Zenon DEF Unique
<1> QED
  BY <1>3 DEF n

(* A chunk that is not full has a first free slot.                         *)
LEMMA FreeInChunk ==
    ASSUME CountingFacts, NEW c \in Chunks, Cardinality(StoredIn(slot, c)) < kMaxSize
    PROVE  FirstFree(c) \in Slots /\ slot[c][FirstFree(c)] = NoKey
<1>1. Cardinality(Slots) = kMaxSize /\ kMaxSize \in Nat
  BY FiniteTable, HashAssumption
<1> DEFINE F == {s \in Slots : slot[c][s] = NoKey}
<1>2. StoredIn(slot, c) # Slots
  BY <1>1, FiniteTable
<1>3. F # {} /\ F \in SUBSET Nat
  BY <1>1, <1>2 DEF StoredIn, Slots
<1> HIDE DEF F
<1>4. PICK s \in F : \A f \in F : s <= f
  BY <1>3, LeastNatural
<1>5. s \in Slots /\ slot[c][s] = NoKey /\ \A r \in 0 .. s - 1 : slot[c][r] # NoKey
  BY <1>1, <1>3, <1>4 DEF F, Slots
<1> QED
  BY <1>5 DEF FirstFree

(* A chunk with room has a first free slot; a full one has none free.      *)
LEMMA FreeSlot ==
    ASSUME CountingFacts, HashInv, NEW c \in Chunks
    PROVE  /\ HasRoom(c) => FirstFree(c) \in Slots /\ slot[c][FirstFree(c)] = NoKey
           /\ ~ HasRoom(c) => \A s \in Slots : slot[c][s] \in Keys
<1>1. /\ chunk_size[c] = Cardinality(StoredIn(slot, c))
      /\ StoredIn(slot, c) \in SUBSET Slots
      /\ chunk_size[c] \in 0 .. kMaxSize
  <2>1. chunk_size[c] = Cardinality(StoredIn(slot, c))
    BY OfSlot, Zenon DEF HashInv, SizesExact
  <2> QED
    BY <2>1 DEF StoredIn, HashInv, TypeOK
<1>2. IsFiniteSet(Slots) /\ Cardinality(Slots) = kMaxSize /\ kMaxSize \in Nat
  BY FiniteTable, HashAssumption
<1>3. ASSUME HasRoom(c)
      PROVE  FirstFree(c) \in Slots /\ slot[c][FirstFree(c)] = NoKey
  <2>1. Cardinality(StoredIn(slot, c)) < kMaxSize
    BY <1>1, <1>2, <1>3 DEF HasRoom
  <2> QED
    BY <2>1, FreeInChunk
<1>4. ASSUME ~ HasRoom(c), NEW s \in Slots PROVE slot[c][s] \in Keys
  <2>1. chunk_size[c] = kMaxSize
    BY <1>1, <1>2, <1>4 DEF HasRoom
  <2>2. StoredIn(slot, c) = Slots
    BY <1>1, <1>2, <2>1, SubsetSize, Zenon
  <2>3. slot[c][s] # NoKey
    BY <2>2 DEF StoredIn
  <2> QED
    BY <2>3 DEF HashInv, TypeOK
<1> QED
  BY <1>3, <1>4

(* The same sets, said of an invariant state.                              *)
LEMMA InvParts ==
    ASSUME HashInv
    PROVE  /\ slot \in Tables /\ val \in [Chunks -> [Slots -> Values \cup {NoValue}]]
           /\ Unique(slot) /\ \A p \in Occupied(slot) : val[p[1]][p[2]] \in Values
           /\ chunk_size = [c \in Chunks |-> Cardinality(StoredIn(slot, c))]
           /\ size_ = Cardinality(Occupied(slot))
           /\ overflow_count_ \in [Chunks -> 0 .. MaxOverflow]
           /\ fatal \in BOOLEAN
<1>1. \A c \in Chunks : chunk_size[c] = Cardinality(StoredIn(slot, c))
  BY OfSlot, Zenon DEF HashInv, SizesExact
<1>2. chunk_size \in [Chunks -> 0 .. kMaxSize]
  BY DEF HashInv, TypeOK
<1>3. chunk_size = [c \in Chunks |-> Cardinality(StoredIn(slot, c))]
  BY <1>1, <1>2
<1> QED
  BY <1>3, OfSlot, Zenon DEF HashInv, TypeOK, Tables, SizesExact, StoredOnce

(* Where a stored key is, in terms of places.                              *)
LEMMA StoredPlace ==
    ASSUME CountingFacts, HashInv, NEW k \in Keys, Exists(k)
    PROVE  \E p \in Occupied(slot) :
              /\ KeyAt(slot, p) = k /\ p = <<Where(k), SlotOf(k, Where(k))>>
              /\ Distance(k) \in Chunks /\ Pos(k, Distance(k)) = p[1]
              /\ \A q \in Occupied(slot) : KeyAt(slot, q) = k => q = p
              /\ \A c \in Chunks : Passes(k, p[1], c) <=> c \in Passed(k, Distance(k))
<1>1. PICK p \in AllStored : AtSlot(p) = k
  BY LookupsWork DEF Lookups
<1>2. Distance(k) \in Chunks /\ Where(k) = p[1] /\ SlotOf(k, p[1]) = p[2]
  BY <1>1, LookupsWork DEF Lookups
<1>3. p = <<p[1], p[2]>>
  BY DEF AllStored
<1>4. Pos(k, Distance(k)) = p[1]
  BY <1>2 DEF Where
<1>5. \A q \in Occupied(slot) : KeyAt(slot, q) = k => q = p
  BY <1>1, OfSlot, InvParts, Zenon DEF Unique
<1>6. \A c \in Chunks : Passes(k, p[1], c) <=> c \in Passed(k, Distance(k))
  BY <1>2, <1>4, PassedChunks
<1>7. p \in Occupied(slot) /\ KeyAt(slot, p) = k
  BY <1>1, OfSlot, Zenon
<1>8. p = <<Where(k), SlotOf(k, Where(k))>>
  BY <1>2, <1>3
<1> QED
  BY <1>2, <1>4, <1>5, <1>6, <1>7, <1>8

(* A key that a lookup misses is not in the table.                         *)
LEMMA MissedKey ==
    ASSUME CountingFacts, HashInv, NEW k \in Keys, ~ Exists(k)
    PROVE  \A p \in Places : KeyAt(slot, p) # k
<1> SUFFICES ASSUME NEW p \in Places, KeyAt(slot, p) = k PROVE FALSE
  OBVIOUS
<1>1. p \in AllStored /\ AtSlot(p) = k
  BY HashAssumption, OfSlot DEF Occupied
<1> QED
  BY <1>1, LookupsWork DEF Lookups

(* PutAt writes one slot.                                                  *)
LEMMA PutAtKeeps ==
    ASSUME TypeOK, StoredOnce, NEW c \in Chunks, NEW s \in Slots, NEW k \in Keys, NEW v \in Values,
           NEW p, p = <<c, s>>, PutAt(c, s, k, v),
           \A q \in Occupied(slot) : q # p => KeyAt(slot, q) # k
    PROVE  /\ p \in Places /\ slot' = Written(slot, p, k)
           /\ slot' \in Tables /\ val' \in [Chunks -> [Slots -> Values \cup {NoValue}]]
           /\ KeyAt(slot', p) = k /\ val'[p[1]][p[2]] = v
           /\ \A q \in Places : q # p => /\ KeyAt(slot', q) = KeyAt(slot, q)
                                         /\ val'[q[1]][q[2]] = val[q[1]][q[2]]
           /\ Unique(slot') /\ \A q \in Occupied(slot') : val'[q[1]][q[2]] \in Values
<1>1. p \in Places /\ p[1] = c /\ p[2] = s
  BY DEF Places
<1>2. slot' = Written(slot, p, k)
  BY <1>1 DEF PutAt, Written
<1>3. /\ slot \in Tables /\ val \in [Chunks -> [Slots -> Values \cup {NoValue}]]
      /\ Unique(slot) /\ \A q \in Occupied(slot) : val[q[1]][q[2]] \in Values
  BY OfSlot, Zenon DEF TypeOK, Tables, StoredOnce
<1>4. /\ slot' \in Tables /\ KeyAt(slot', p) = k
      /\ \A q \in Places : q # p => KeyAt(slot', q) = KeyAt(slot, q)
  BY <1>1, <1>2, <1>3, WriteOne
<1>5. /\ val' \in [Chunks -> [Slots -> Values \cup {NoValue}]] /\ val'[p[1]][p[2]] = v
      /\ \A q \in Places : q # p => val'[q[1]][q[2]] = val[q[1]][q[2]]
  BY <1>1, <1>3 DEF PutAt, Places
<1>6. Unique(slot')
  BY <1>1, <1>2, <1>3, WriteUnique
<1>7. \A q \in Occupied(slot') : val'[q[1]][q[2]] \in Values
  BY <1>3, <1>4, <1>5 DEF Occupied
<1> QED
  BY <1>1, <1>2, <1>4, <1>5, <1>6, <1>7

(* A step that takes the chain of one key off the counts.                  *)
LEMMA DecrementedAt ==
    ASSUME NEW cs, overflow_count_' = Decremented(cs)
    PROVE  /\ overflow_count_' = [c \in Chunks |-> overflow_count_'[c]]
           /\ \A c \in Chunks : overflow_count_'[c] =
                  IF c \in cs THEN DecOverflow(overflow_count_[c]) ELSE overflow_count_[c]
  BY DEF Decremented

(* The empty table.                                                        *)
LEMMA EmptyInv ==
    ASSUME CountingFacts
    PROVE  EmptyTable(slot, val, chunk_size, overflow_count_, size_) /\ fatal \in BOOLEAN =>
               HashInv /\ \A p \in Places : KeyAt(slot, p) = NoKey
<1> SUFFICES ASSUME EmptyTable(slot, val, chunk_size, overflow_count_, size_), fatal \in BOOLEAN
             PROVE  HashInv /\ \A p \in Places : KeyAt(slot, p) = NoKey
  OBVIOUS
<1>1. /\ slot = [c \in Chunks |-> [s \in Slots |-> NoKey]]
      /\ val = [c \in Chunks |-> [s \in Slots |-> NoValue]]
      /\ chunk_size = [c \in Chunks |-> 0]
      /\ overflow_count_ = [c \in Chunks |-> 0]
      /\ size_ = 0 /\ fatal \in BOOLEAN
  BY DEF EmptyTable
<1>2. Occupied(slot) = {} /\ \A p \in Places : KeyAt(slot, p) = NoKey
  BY <1>1 DEF Occupied, Places, KeyAt
<1>3. \A c \in Chunks : StoredIn(slot, c) = {} /\ PassingIn(slot, c) = {}
  BY <1>1, <1>2 DEF StoredIn, PassingIn
<1>4. TypeOK
  <2>1. 0 \in 0 .. kMaxSize /\ 0 \in 0 .. MaxOverflow /\ 0 \in 0 .. ChunkNum * kMaxSize
    <3>1. ChunkNum \in Nat /\ kMaxSize \in Nat /\ MaxOverflow \in Nat
      BY HashAssumption
    <3>2. ChunkNum * kMaxSize \in Nat
      BY <3>1
    <3> QED
      BY <3>1, <3>2
  <2>2. /\ slot \in [Chunks -> [Slots -> Keys \cup {NoKey}]]
        /\ val \in [Chunks -> [Slots -> Values \cup {NoValue}]]
    BY <1>1
  <2>3. chunk_size \in [Chunks -> 0 .. kMaxSize] /\ overflow_count_ \in [Chunks -> 0 .. MaxOverflow]
    BY <1>1, <2>1
  <2>4. size_ \in 0 .. ChunkNum * kMaxSize /\ fatal \in BOOLEAN
    BY <1>1, <2>1, Zenon
  <2> QED
    BY <2>2, <2>3, <2>4, Zenon DEF TypeOK
<1>5. SizesExact
  <2>1. \A c \in Chunks : Stored(c) = {}
    BY <1>3, OfSlot, Zenon
  <2>2. AllStored = {}
    BY <1>2, OfSlot, Zenon
  <2>3. \A c \in Chunks : chunk_size[c] = 0
    BY <1>1
  <2> QED
    BY <1>1, <2>1, <2>2, <2>3, EmptySize, SizeNatural, Zenon DEF SizesExact
<1>6. OverflowEnough
  <2>1. \A c \in Chunks : PassingSlots(c) = {}
    BY <1>3, OfSlot, Zenon
  <2>2. \A c \in Chunks : Cardinality(PassingSlots(c)) = 0
    BY <2>1, EmptySize, SizeNatural, Zenon
  <2> QED
    BY <1>1, <2>2 DEF OverflowEnough
<1>7. StoredOnce
  <2>1. AllStored = {}
    BY <1>2, OfSlot, Zenon
  <2> QED
    BY <1>2, <2>1 DEF StoredOnce, Unique
<1>8. HashInv
  BY <1>4, <1>5, <1>6, <1>7 DEF HashInv
<1> QED
  BY <1>2, <1>8
===========================================================================
