------------------------- MODULE PetHashMigration -------------------------
(***************************************************************************)
(* PetHash::HotnessAwareMigration, one hot key per action, between the     *)
(* operations of PetHash and with nothing else running.                    *)
(***************************************************************************)
EXTENDS PetHash

(* A hot key that is stored away from its home chunk.                      *)
Displaced(k) == Exists(k) /\ Where(k) # Home[k]

(* The chunk sizes after one slot of `to' is filled, one of `from' freed.   *)
OneMoved(from, to) ==
    IF from = to THEN chunk_size
    ELSE [chunk_size EXCEPT ![to] = @ + 1, ![from] = @ - 1]

(* Case 1: the home chunk has an empty slot.                               *)
MigrateToFreeSlot(k) ==
    LET home == Home[k]
        current == Where(k)
        id == SlotOf(k, current) IN
    /\ Displaced(k)
    /\ HasRoom(home)
    /\ slot' = [slot EXCEPT ![home][FirstFree(home)] = k, ![current][id] = NoKey]
    /\ val' = [val EXCEPT ![home][FirstFree(home)] = val[current][id]]
    /\ chunk_size' = OneMoved(current, home)
    /\ overflow_count_' = Decremented({current})
    /\ UNCHANGED <<size_, fatal>>

(* Case 2: slot 0 of the full home chunk is the victim.  It moves on along *)
(* its own chain to the first chunk with room.                             *)
Victim(k) == slot[Home[k]][0]

(* The i-th chunk the victim tries; the 0th is the one it leaves.          *)
VictimStep(k, i) == (Home[k] + i * ProbeDelta(Victim(k))) % ChunkNum

VictimLandsAt(k, i) ==
    HasRoom(VictimStep(k, i)) /\ \A j \in 1 .. i - 1 : ~ HasRoom(VictimStep(k, j))

(* A faulty variant: the chunk the victim leaves is not counted.           *)
VictimPassedNotHome(k, i) == {VictimStep(k, j) : j \in 1 .. i - 1}

(* The chunks that count the victim, and that stop counting the hot key.   *)
VictimPassed(k, i) == {VictimStep(k, j) : j \in 0 .. i - 1}
HotPassed(k) == Passed(k, Distance(k))

(* The hot key takes the victim's slot.  A full table met on the victim's  *)
(* way is LOG(FATAL).                                                      *)
MigrateToVictimSlot(k) ==
    LET home == Home[k]
        current == Where(k)
        id == SlotOf(k, current) IN
    /\ Displaced(k)
    /\ ~ HasRoom(home)
    /\ IF Full /\ ~ HasRoom(VictimStep(k, 1))
       THEN fatal' = TRUE /\ UNCHANGED table
       ELSE \E i \in 1 .. ChunkNum :
            LET d == VictimStep(k, i)
                grown == Incremented(VictimPassed(k, i)) IN
            /\ VictimLandsAt(k, i)
            /\ slot' = [slot EXCEPT ![d][FirstFree(d)] = Victim(k),
                                    ![home][0] = k, ![current][id] = NoKey]
            /\ val' = [val EXCEPT ![d][FirstFree(d)] = val[home][0],
                                  ![home][0] = val[current][id]]
            /\ chunk_size' = OneMoved(current, d)
            /\ overflow_count_' = [c \in Chunks |->
                    IF c \in HotPassed(k) THEN DecOverflow(grown[c])
                    ELSE grown[c]]
            /\ UNCHANGED <<size_, fatal>>

SwapHotKey == ~ fatal /\ \E k \in Keys : MigrateToVictimSlot(k)

MoveHotKey == ~ fatal /\ \E k \in Keys : MigrateToFreeSlot(k)

SwapNext == Next \/ SwapHotKey

MigrationNext == SwapNext \/ MoveHotKey

(* Migrations that always swap with a victim, and all migrations.          *)
SwapSpec      == Init /\ [][SwapNext]_vars
MigrationSpec == Init /\ [][MigrationNext]_vars

---------------------------------------------------------------------------
(* A swap rearranges the chunks and changes nothing that Get returns, even *)
(* when the victim itself was away from its home (pet_hash.h:437-489).     *)
SwapKeepsContents ==
    [][SwapHotKey => \A k \in Keys : Get(k)' = Get(k)]_vars

(* Set, Delete, eviction and Restart keep exact overflow counts exact.  A  *)
(* swap need not: a victim that is away from its home counts every chunk   *)
(* it tries from there on, also when it ends in its home chunk, so counts  *)
(* can be too high until the next Reload, never too low (pet_hash.h:87-92, *)
(* 199-239, 453-478).                                                      *)
CountsStayExact ==
    [][OverflowExact /\ ~ SwapHotKey => OverflowExact']_vars

(* The HotnessMigration test: after any number of migrations every key     *)
(* that is in the table is found (persist_pet_hash_test.cc:174).           *)
MigratedKeysFound == \A p \in AllStored : Exists(AtSlot(p))
===========================================================================
