-------------------------- MODULE MCPetKVRecovery --------------------------
(* Small instances of PetKVRecovery for TLC.                               *)
EXTENDS PetKVRecovery

CONSTANTS k0, k1, k2, k3, b1, b2, b3, d1, d2, s1, s2

(* Two one-slot chunks; all keys are at home in the first one.             *)
HomeOf == [k \in Keys |-> 0]
SignOf == [k \in Keys |-> 0]

(* The store has a value file and a dictionary file, the other shard one.  *)
Sizes == [s \in Shards |-> IF s = s1 THEN <<3, 2>> ELSE <<3>>]

Swaps == Permutations(ClientKeys) \cup Permutations(Values) \cup Permutations(Data)
===========================================================================
