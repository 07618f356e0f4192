------------------------ MODULE MCPersistMemoryPool ------------------------
(* Small instances of PersistMemoryPool for TLC.                           *)
EXTENDS PersistMemoryPool, TLC

CONSTANTS t1, t2, t3, c1, c2, c3, small, large

OneSize == [s \in Sizes |-> 2]
TwoSizes == [s \in Sizes |-> IF s = small THEN 2 ELSE 1]

PoolSymmetry == Permutations(Threads) \cup Permutations(Chunks)
=============================================================================
