------------------------------- MODULE KVMap -------------------------------
(***************************************************************************)
(* What the dictionary of a store promises: a map from keys to values.     *)
(* Put of a key may drop one other key when the table is at its load limit *)
(* (force_insert), a table at its limit may refuse by aborting, and a      *)
(* restart that finds a consistent table changes nothing.                  *)
(***************************************************************************)
CONSTANTS Keys, Values, NoValue

VARIABLES map,      \* key -> value, NoValue when absent
          aborted   \* the process has died in LOG(FATAL)

MapInit == map = [k \in Keys |-> NoValue] /\ aborted = FALSE

Put(k, v) == map' = [map EXCEPT ![k] = v] /\ UNCHANGED aborted

PutDropping(k, v, victim) ==
    /\ map[k] = NoValue
    /\ victim # k /\ map[victim] # NoValue
    /\ map' = [map EXCEPT ![victim] = NoValue, ![k] = v]
    /\ UNCHANGED aborted

Remove(k) == map' = [map EXCEPT ![k] = NoValue] /\ UNCHANGED aborted

Abort == aborted' = TRUE /\ UNCHANGED map

MapNext ==
    /\ ~ aborted
    /\ \/ \E k \in Keys, v \in Values : Put(k, v)
       \/ \E k, victim \in Keys, v \in Values : PutDropping(k, v, victim)
       \/ \E k \in Keys : Remove(k)
       \/ Abort

MapSpec == MapInit /\ [][MapNext]_<<map, aborted>>
===========================================================================
