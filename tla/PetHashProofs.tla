--------------------------- MODULE PetHashProofs ---------------------------
(***************************************************************************)
(* The theorems about PetHash with its swaps of hot keys.  HashInv of      *)
(* PetHashInvariant holds in every reachable state (PetHashSteps has one   *)
(* lemma for each operation), and the properties follow from it and from   *)
(* what the lemmas of the operations say of the contents.                  *)
(***************************************************************************)
EXTENDS PetHashSteps, FiniteSetTheorems, WellFoundedInduction

(* The library has all of CountingFacts.                                   *)
LEMMA CountingHolds == CountingFacts
<1>1. IsFiniteSet({}) /\ SizesAreNatural
  BY FS_EmptySet, FS_CardinalityType, Zenon DEF SizesAreNatural
<1>2. SubsetsAreSmaller
  BY FS_Subset, Zenon DEF SubsetsAreSmaller
<1>3. ElementsCountOne
  BY FS_AddElement, FS_RemoveElement, Zenon DEF ElementsCountOne
<1>4. UnionsAdd
  BY FS_Union, Zenon DEF UnionsAdd
<1>5. ProductsMultiply
  BY FS_Product, Zenon DEF ProductsMultiply
<1>6. RangesCount
  BY FS_Interval DEF RangesCount
<1>7. BijectionsKeepSize
  BY FS_Bijection, Zenon DEF BijectionsKeepSize
<1>8. LeastNaturals
  <2> SUFFICES ASSUME NEW S \in SUBSET Nat, S # {}
               PROVE  \E e \in S : \A f \in S : e <= f
    BY DEF LeastNaturals
  <2>1. PICK e \in S : \A f \in S : <<f, e>> \notin OpToRel(<, Nat)
    BY NatLessThanWellFounded, WFMin, Zenon
  <2>2. \A f \in S : ~ (f < e)
    BY <2>1, Zenon DEF OpToRel
  <2> QED
    BY <2>2
<1> QED
  BY <1>1, <1>2, <1>3, <1>4, <1>5, <1>6, <1>7, <1>8, Zenon DEF CountingFacts

(* The invariant.                                                          *)
LEMMA HashInvariant == SwapSpec => []HashInv
<1>1. Init => HashInv
  BY CountingHolds, HashInit, Zenon
<1>2. HashInv /\ [SwapNext]_vars => HashInv'
  BY CountingHolds, NextStep, SwapHotKeyStep, HashStutter, Zenon DEF SwapNext
<1> QED
  BY <1>1, <1>2, PTL DEF SwapSpec

(* Types: chunk_size and overflow_count_ stay within what their fields     *)
(* hold, and size_ within the slots of the file, whatever the operations   *)
(* (pet_hash.h:87-92, 161-197).                                            *)
THEOREM HashTypes == SwapSpec => []TypeOK
<1>1. HashInv => TypeOK
  BY DEF HashInv
<1> QED
  BY <1>1, HashInvariant, PTL

(* No chain is cut, for every number of chunks and slots, every placement  *)
(* of the keys and every bound of the counters, after any operations,      *)
(* evictions, swaps and restarts (pet_hash.h:365).                         *)
THEOREM HashFindsStoredKeys == SwapSpec => []StoredKeysFound
<1>1. HashInv => StoredKeysFound
  <2> SUFFICES ASSUME HashInv, NEW p \in AllStored
               PROVE  Exists(AtSlot(p)) /\ Where(AtSlot(p)) = p[1]
    BY DEF StoredKeysFound
  <2>1. AtSlot(p) \in Keys
    BY DEF AllStored, AtSlot, HashInv, TypeOK
  <2> QED
    BY CountingHolds, <2>1, LookupsWork DEF Lookups
<1> QED
  BY <1>1, HashInvariant, PTL

(* Every table that completed operations leave behind passes Valid, so a   *)
(* restart never wipes one (pet_kv.cc:67-69).                              *)
THEOREM HashAlwaysValid == SwapSpec => []AlwaysValid
<1>1. HashInv => AlwaysValid
  BY CountingHolds, InvValid DEF AlwaysValid
<1> QED
  BY <1>1, HashInvariant, PTL

(* Counts that are exact stay exact through everything but a swap          *)
(* (pet_hash.h:87-92, 199-239).                                            *)
THEOREM HashCountsStayExact == SwapSpec => CountsStayExact
<1>1. HashInv /\ [SwapNext]_vars => [OverflowExact /\ ~ SwapHotKey => OverflowExact']_vars
  BY CountingHolds, NextStep, Zenon DEF SwapNext
<1> QED
  BY <1>1, HashInvariant, PTL DEF SwapSpec, CountsStayExact

(* A swap moves keys between chunks and changes nothing that Get returns   *)
(* (pet_hash.h:437-489).                                                   *)
THEOREM HashSwapKeepsContents == SwapSpec => SwapKeepsContents
<1>1. HashInv /\ [SwapNext]_vars =>
         [SwapHotKey => \A k \in Keys : Get(k)' = Get(k)]_vars
  <2> SUFFICES ASSUME HashInv, SwapHotKey PROVE \A k \in Keys : Get(k)' = Get(k)
    OBVIOUS
  <2>1. KeepsOthers({})
    BY CountingHolds, SwapHotKeyStep, Zenon
  <2> QED
    BY <2>1 DEF KeepsOthers
<1> QED
  BY <1>1, HashInvariant, PTL DEF SwapSpec, SwapKeepsContents

(* The table is a map: Get returns what the last Set of a key stored, and  *)
(* no operation, eviction, swap or restart changes another key's value,    *)
(* but for the one key that an eviction drops.                             *)
THEOREM HashImplementsMap == SwapSpec => ImplementsMap
<1> DEFINE M == [k \in Keys |-> Get(k)]
<1>1. Init => Map!MapInit
  <2> SUFFICES ASSUME Init PROVE Map!MapInit
    OBVIOUS
  <2>1. \A k \in Keys : Get(k) = NoValue
    BY CountingHolds, HashInit, Zenon
  <2>2. M = [k \in Keys |-> NoValue]
    BY <2>1, Zenon
  <2>3. fatal = FALSE
    BY DEF Init
  <2> QED
    BY <2>2, <2>3, Zenon DEF Map!MapInit
<1>2. ASSUME HashInv, [SwapNext]_vars PROVE [Map!MapNext]_<<M, fatal>>
  <2>1. ASSUME KeepsOthers({}) PROVE M' = M
    BY <2>1, Zenon DEF KeepsOthers
  <2>2. CASE fatal' = fatal /\ KeepsOthers({})
    BY <2>1, <2>2
  <2>3. CASE ~ fatal /\ fatal' = TRUE /\ KeepsOthers({})
    <3>1. Map!Abort
      BY <2>1, <2>3 DEF Map!Abort
    <3> QED
      BY <2>3, <3>1, Zenon DEF Map!MapNext
  <2>4. ASSUME ~ fatal, NEW k \in Keys, NEW v \in Values \cup {NoValue}, Writes(k, v)
        PROVE  Map!MapNext
    <3>1. M' = [M EXCEPT ![k] = v] /\ fatal' = fatal
      <4>1. fatal' = fatal /\ Get(k)' = v /\ \A x \in Keys \ {k} : Get(x)' = Get(x)
        BY <2>4, Zenon DEF Writes, KeepsOthers
      <4>2. \A x \in Keys : Get(x)' = IF x = k THEN v ELSE Get(x)
        BY <4>1
      <4>3. M' = [x \in Keys |-> IF x = k THEN v ELSE Get(x)]
        BY <4>2, Zenon
      <4>4. [M EXCEPT ![k] = v] = [x \in Keys |-> IF x = k THEN v ELSE Get(x)]
        <5>1. M = [x \in Keys |-> M[x]]
          BY Zenon
        <5>2. [M EXCEPT ![k] = v] = [x \in Keys |-> IF x = k THEN v ELSE M[x]]
          <6> HIDE DEF M
          <6> QED
            BY <5>1, FunctionBut, Zenon
        <5>3. \A x \in Keys : M[x] = Get(x)
          BY Zenon
        <5> HIDE DEF M
        <5> QED
          BY <5>2, <5>3, Zenon
      <4> QED
        BY <4>1, <4>3, <4>4, Zenon
    <3>2. CASE v \in Values
      <4>1. Map!Put(k, v)
        BY <3>1, Zenon DEF Map!Put
      <4> QED
        BY <2>4, <3>2, <4>1, Zenon DEF Map!MapNext
    <3>3. CASE v = NoValue
      <4>1. Map!Remove(k)
        BY <3>1, <3>3, Zenon DEF Map!Remove
      <4> QED
        BY <2>4, <4>1, Zenon DEF Map!MapNext
    <3> QED
      BY <3>2, <3>3
  <2>5. ASSUME ~ fatal, NEW k \in Keys, NEW v \in Values, NEW victim \in Keys,
               Evicts(k, v, victim)
        PROVE  Map!MapNext
    <3>1. /\ M[k] = NoValue /\ victim # k /\ M[victim] # NoValue
          /\ M' = [M EXCEPT ![victim] = NoValue, ![k] = v] /\ fatal' = fatal
      <4>1. /\ fatal' = fatal /\ Get(k) = NoValue /\ Get(k)' = v
            /\ victim # k /\ Get(victim) # NoValue /\ Get(victim)' = NoValue
            /\ \A x \in Keys \ {k, victim} : Get(x)' = Get(x)
        BY <2>5, Zenon DEF Evicts, KeepsOthers
      <4>2. \A x \in Keys : Get(x)' = IF x = k THEN v ELSE IF x = victim THEN NoValue ELSE Get(x)
        BY <4>1
      <4>3. M' = [x \in Keys |-> IF x = k THEN v ELSE IF x = victim THEN NoValue ELSE Get(x)]
        BY <4>2, Zenon
      <4>4. [M EXCEPT ![victim] = NoValue, ![k] = v] =
              [x \in Keys |-> IF x = k THEN v ELSE IF x = victim THEN NoValue ELSE Get(x)]
        <5>1. M = [x \in Keys |-> M[x]]
          BY Zenon
        <5>2. [M EXCEPT ![victim] = NoValue, ![k] = v] =
                [x \in Keys |-> IF x = k THEN v ELSE IF x = victim THEN NoValue ELSE M[x]]
          <6> HIDE DEF M
          <6> QED
            BY <5>1, FunctionButTwo, Zenon
        <5>3. \A x \in Keys : M[x] = Get(x)
          BY Zenon
        <5> HIDE DEF M
        <5> QED
          BY <5>2, <5>3, Zenon
      <4>5. M[k] = NoValue /\ M[victim] # NoValue
        BY <4>1
      <4> QED
        BY <4>1, <4>3, <4>4, <4>5, Zenon
    <3>2. Map!PutDropping(k, v, victim)
      BY <3>1, Zenon DEF Map!PutDropping
    <3> QED
      BY <2>5, <3>2, Zenon DEF Map!MapNext
  <2>6. CASE ~ fatal /\ MapStep
    BY <2>3, <2>4, <2>5, <2>6, Zenon DEF MapStep
  <2>7. CASE Next
    BY CountingHolds, <1>2, <2>2, <2>6, <2>7, NextStep, Zenon
  <2>8. CASE SwapHotKey
    BY CountingHolds, <1>2, <2>2, <2>3, <2>8, SwapHotKeyStep, Zenon
  <2>9. CASE UNCHANGED vars
    BY CountingHolds, <1>2, <2>2, <2>9, HashStutter, Zenon
  <2> QED
    BY <1>2, <2>7, <2>8, <2>9, Zenon DEF SwapNext
<1> QED
  BY <1>1, <1>2, HashInvariant, PTL DEF SwapSpec, ImplementsMap, Map!MapSpec
============================================================================
