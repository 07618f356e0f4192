------------------------ MODULE MCPetHashMigration ------------------------
(* Small instances of PetHashMigration for TLC.                            *)
EXTENDS PetHashMigration, TLC

CONSTANTS k1, k2, k3, k4, k5

(* Two pairs of keys with the same home chunk and different steps, and a   *)
(* key of the next chunk.                                                  *)
HomeOf4 == [k \in Keys |-> IF k = k5 THEN 1 ELSE 0]
SignOf4 == [k \in Keys |-> IF k \in {k1, k2} THEN 0 ELSE 1]

TwinKeys == Permutations({k1, k2}) \cup Permutations({k3, k4})
===========================================================================
