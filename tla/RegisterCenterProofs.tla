------------------------ MODULE RegisterCenterProofs ------------------------
(***************************************************************************)
(* FoundAreasKept for any number of shards, files, sizes and restarts.     *)
(***************************************************************************)
EXTENDS RegisterCenter, TLAPS

Names == {<<s, n>> : s \in Shards, n \in Nat \ {0}}
Items == [name : Names, offset : Nat, size : Nat \ {0}]

(* The invariant: an area that is open ends before the end of the used     *)
(* space, so that nothing appended from there on can touch it.  A name is  *)
(* in the table once, so that the area found for it is the only one.       *)
RInv ==
    /\ mmMeta_ \subseteq Items
    /\ mmap_addr \in Nat
    /\ opened \in [Shards -> Nat]
    /\ \A s \in Shards : opened[s] <= Len(FileSizes[s])
    /\ \A a, b \in mmMeta_ : a.name = b.name => a = b
    /\ \A a \in mmMeta_ : IsOpen(a.name) => a.offset + a.size <= mmap_addr
    /\ overlay # "found"

(* Rounding a size up to a multiple of Align does not make it smaller.     *)
LEMMA AlignedBound ==
    ASSUME NEW size \in Nat \ {0}
    PROVE  Aligned(size) \in Nat /\ size <= Aligned(size)
<1> DEFINE n == size + Align - 1
           q == n \div Align
           r == n % Align
<1>1. Align \in Nat /\ Align > 0
  BY RegisterAssumption
<1>2. n \in Nat
  BY <1>1
<1>3. q \in Nat /\ r \in Nat /\ r < Align /\ n = Align * q + r
  BY <1>1, <1>2, Z3
<1>4. q * Align \in Nat /\ q * Align = Align * q
  BY <1>1, <1>3, Z3
<1>5. q * Align >= n - (Align - 1)
  BY <1>1, <1>2, <1>3, <1>4, Z3
<1> QED BY <1>1, <1>4, <1>5 DEF Aligned

(* The name of the next file of a shard is a name nothing open has.        *)
LEMMA NextFile ==
    ASSUME RInv, NEW s \in Shards, ~ AllOpened(s)
    PROVE  /\ File(s) \in Names
           /\ SizeOf(File(s)) \in Nat \ {0}
           /\ opened[s] + 1 <= Len(FileSizes[s])
           /\ \A name \in Names :
                IsOpen(name)' /\ opened' = [opened EXCEPT ![s] = @ + 1]
                    => IsOpen(name) \/ name = File(s)
<1>1. opened[s] \in Nat
  BY DEF RInv
<1>2. File(s) \in Names
  BY <1>1 DEF File, Names
<1>3. opened[s] + 1 <= Len(FileSizes[s]) /\ SizeOf(File(s)) \in Nat \ {0}
  <2>1. FileSizes[s] \in Seq(Nat \ {0}) /\ Len(FileSizes[s]) \in Nat
    BY RegisterAssumption
  <2>2. opened[s] + 1 \in 1 .. Len(FileSizes[s])
    BY <1>1, <2>1 DEF RInv, AllOpened
  <2>3. FileSizes[s][opened[s] + 1] \in Nat \ {0}
    BY <2>1, <2>2
  <2>4. SizeOf(File(s)) = FileSizes[s][opened[s] + 1]
    BY DEF SizeOf, File
  <2> QED BY <2>2, <2>3, <2>4
<1>4. ASSUME NEW name \in Names, IsOpen(name)',
             opened' = [opened EXCEPT ![s] = @ + 1]
      PROVE  IsOpen(name) \/ name = File(s)
  <2>1. PICK t \in Shards, n \in Nat \ {0} : name = <<t, n>>
    BY DEF Names
  <2>2. CASE t = s
    BY <1>1, <1>4, <2>1, <2>2 DEF RInv, IsOpen, File
  <2>3. CASE t # s
    BY <1>4, <2>1, <2>3 DEF RInv, IsOpen
  <2> QED BY <2>2, <2>3
<1> QED BY <1>2, <1>3, <1>4

(* A restart opens nothing: every name counts from 1.                      *)
LEMMA RestartStep ==
    ASSUME RInv, MapDevice
    PROVE  RInv'
<1>1. ASSUME NEW a \in mmMeta_ PROVE ~ IsOpen(a.name)'
  <2>1. PICK t \in Shards, n \in Nat \ {0} : a.name = <<t, n>>
    BY <1>1 DEF RInv, Items, Names
  <2> QED BY <2>1 DEF MapDevice, IsOpen
<1>2. \A t \in Shards : Len(FileSizes[t]) \in Nat
  BY RegisterAssumption
<1> QED BY <1>1, <1>2 DEF RInv, MapDevice

(* A new area starts where every open area has ended.                      *)
LEMMA AppendStep ==
    ASSUME RInv, NEW s \in Shards, AppendRegister(s)
    PROVE  RInv'
<1> DEFINE size == SizeOf(File(s))
           new == [name |-> File(s), offset |-> mmap_addr, size |-> size]
<1>1. /\ ~ AllOpened(s)
      /\ \A item \in mmMeta_ : item.name # File(s)
      /\ mmMeta_' = mmMeta_ \cup {new}
      /\ mmap_addr' = mmap_addr + Aligned(size)
      /\ opened' = [opened EXCEPT ![s] = @ + 1]
  BY DEF AppendRegister, FindIfExists
<1>2. /\ File(s) \in Names
      /\ size \in Nat \ {0}
      /\ \A name \in Names : IsOpen(name)' => IsOpen(name) \/ name = File(s)
  BY <1>1, NextFile
<1>3. Aligned(size) \in Nat /\ size <= Aligned(size)
  BY <1>2, AlignedBound
<1>4. new \in Items
  BY <1>2 DEF RInv, Items
<1>5. mmMeta_' \subseteq Items
  BY <1>1, <1>4 DEF RInv
<1>6. mmap_addr' \in Nat /\ mmap_addr <= mmap_addr'
  BY <1>1, <1>3 DEF RInv
<1>7. opened' \in [Shards -> Nat] /\ \A t \in Shards : opened'[t] <= Len(FileSizes[t])
  BY <1>1, NextFile DEF RInv
<1>8. \A a, b \in mmMeta_' : a.name = b.name => a = b
  BY <1>1 DEF RInv
<1>9. ASSUME NEW a \in mmMeta_', IsOpen(a.name)'
      PROVE  a.offset + a.size <= mmap_addr'
  <2>1. CASE a = new
    BY <1>1, <1>2, <1>3, <2>1 DEF RInv
  <2>2. CASE a \in mmMeta_
    <3>1. a.name \in Names /\ a.offset \in Nat /\ a.size \in Nat
      BY <2>2 DEF RInv, Items
    <3>2. IsOpen(a.name)
      BY <1>1, <1>2, <1>9, <2>2, <3>1
    <3> QED BY <1>6, <2>2, <3>1, <3>2 DEF RInv
  <2> QED BY <1>1, <2>1, <2>2
<1>10. ASSUME NEW item \in mmMeta_, Overlaps(item, mmap_addr, size), IsOpen(item.name)
       PROVE  FALSE
  <2>1. item.offset \in Nat /\ item.size \in Nat
    BY DEF RInv, Items
  <2> QED BY <1>10, <2>1 DEF RInv, Overlaps
<1>11. overlay' # "found"
  BY <1>10 DEF AppendRegister, RInv
<1> QED BY <1>5, <1>6, <1>7, <1>8, <1>9, <1>11 DEF RInv

(* An area that is found again moves the end of the used space behind it.  *)
LEMMA ExistingStep ==
    ASSUME RInv, NEW s \in Shards, UseExisting(s)
    PROVE  RInv'
<1>1. PICK item \in mmMeta_ : item.name = File(s) /\ mmap_addr' = EndBehind(item)
  BY DEF UseExisting, FindIfExists
<1>2. /\ ~ AllOpened(s)
      /\ opened' = [opened EXCEPT ![s] = @ + 1]
      /\ mmMeta_' = mmMeta_ /\ overlay' = overlay
  BY DEF UseExisting
<1>3. item.offset \in Nat /\ item.size \in Nat
  BY DEF RInv, Items
<1>4. /\ mmap_addr' \in Nat
      /\ mmap_addr <= mmap_addr'
      /\ item.offset + item.size <= mmap_addr'
  BY <1>1, <1>3 DEF RInv, EndBehind
<1>5. opened' \in [Shards -> Nat] /\ \A t \in Shards : opened'[t] <= Len(FileSizes[t])
  BY <1>2, NextFile DEF RInv
<1>6. ASSUME NEW a \in mmMeta_, IsOpen(a.name)'
      PROVE  a.offset + a.size <= mmap_addr'
  <2>1. a.name \in Names /\ a.offset \in Nat /\ a.size \in Nat
    BY DEF RInv, Items
  <2>2. CASE a.name = File(s)
    BY <1>1, <1>4, <2>2 DEF RInv
  <2>3. CASE IsOpen(a.name)
    BY <1>4, <2>1, <2>3 DEF RInv
  <2> QED BY <1>2, <1>6, <2>1, <2>2, <2>3, NextFile
<1> QED BY <1>2, <1>4, <1>5, <1>6 DEF RInv

(* Whatever the order in which the shards' threads register their files,   *)
(* and however often the process restarts in between, append_register      *)
(* never clears an area that Register has handed out since the start       *)
(* (shm_file.h:58-77, 116-138).                                            *)
THEOREM FoundAreasAreKept == RegisterSpec => []FoundAreasKept
<1>1. RegisterInit => RInv
  <2>1. \A t \in Shards : Len(FileSizes[t]) \in Nat
    BY RegisterAssumption
  <2> QED BY <2>1 DEF RegisterInit, RInv
<1>2. RInv /\ [RegisterNext]_registerVars => RInv'
  <2> SUFFICES ASSUME RInv, [RegisterNext]_registerVars PROVE RInv'
    OBVIOUS
  <2>1. CASE MapDevice
    BY <2>1, RestartStep
  <2>2. ASSUME NEW s \in Shards, Register(s) PROVE RInv'
    BY <2>2, AppendStep, ExistingStep DEF Register
  <2>3. CASE UNCHANGED registerVars
    BY <2>3 DEF RInv, registerVars, IsOpen
  <2> QED BY <2>1, <2>2, <2>3 DEF RegisterNext
<1>3. RInv => FoundAreasKept
  BY DEF RInv, FoundAreasKept
<1> QED BY <1>1, <1>2, <1>3, PTL DEF RegisterSpec
=============================================================================
