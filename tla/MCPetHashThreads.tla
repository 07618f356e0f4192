------------------------- MODULE MCPetHashThreads -------------------------
(* A small instance of PetHashThreads for TLC.                             *)
EXTENDS PetHashThreads, TLC

CONSTANTS k1, k2, k3

(* Two keys with the same home and the same chain, one with another step.  *)
HomeOf3 == [k \in Keys |-> 0]
SignOf3 == [k \in Keys |-> IF k = k3 THEN 1 ELSE 0]

WriterSymmetry == Permutations(Writers)
===========================================================================
