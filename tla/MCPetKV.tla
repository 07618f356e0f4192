------------------------------ MODULE MCPetKV ------------------------------
(* Small instances of PetKV for TLC.                                       *)
EXTENDS PetKV, TLC

CONSTANTS w1, w2, r1, r2, r3, k1, k2, b1, b2, b3, b4, s1, s2

MCStartIndex == [t \in Threads |-> 0]
OneShardOfKey == [k \in Keys |-> s1]
OneShardPool == [b \in Blocks |-> s1]
TwoShardsOfKey == [k \in Keys |-> IF k = k1 THEN s1 ELSE s2]
TwoShardsPool == [b \in Blocks |-> IF b \in {b1, b2} THEN s1 ELSE s2]

OneShardSymmetry == Permutations(Keys) \cup Permutations(Blocks)
EpochReaderSymmetry == OneShardSymmetry \cup Permutations({r1, r2})
BlockSymmetry == Permutations({b1, b2}) \cup Permutations({b3, b4})
===========================================================================
