--------------------------- MODULE PetHashThreads ---------------------------
(***************************************************************************)
(* PetHash (src/pet_kv/pet_hash.h) used by several threads at once, as its *)
(* multi-threaded tests do: writers call Set while readers call Get, then  *)
(* one thread migrates hot keys while readers call Get.  Writers hold the  *)
(* lock of the chunk they work on; readers and the migration's changes to  *)
(* the hot key's own chunks are not locked.                                *)
(*                                                                         *)
(* A slot is three words: the tag (0 for a free slot), the key and the     *)
(* value.  A reader loads a slot's key and value only after it has seen    *)
(* the key's tag, so Insert's stores of key and value, which both come     *)
(* before its store of the tag, are one step.                              *)
(***************************************************************************)
EXTENDS PetHash

CONSTANTS Writers, Readers, NoTag, NoThread

VARIABLES tag,        \* chunk -> slot -> tags_[slot]
          migrating,  \* chunk -> is_migrating
          lock,       \* chunk -> the thread that holds lock_
          phase,      \* "set": writers run, "migrate": the migration runs
          th,         \* thread -> its call of GetInternal and of Set
          mig         \* the migration under way

hash == <<slot, val, chunk_size, overflow_count_, size_, fatal, tag, migrating, lock>>
allVars == <<hash, phase, th, mig>>

Threads == Writers \cup Readers
Idle == [pc |-> "idle", key |-> NoKey, i |-> 0, touch |-> FALSE, mask |-> {},
         s |-> 0, result |-> NoValue, present |-> FALSE, moved |-> FALSE]
AtRest == [pc |-> "rest", key |-> NoKey, victim |-> NoKey, far |-> 0, id |-> 0, i |-> 0]

ThreadsInit ==
    /\ Init
    /\ tag = [c \in Chunks |-> [s \in Slots |-> NoTag]]
    /\ migrating = [c \in Chunks |-> FALSE]
    /\ lock = [c \in Chunks |-> NoThread]
    /\ phase = "set"
    /\ th = [t \in Threads |-> Idle]
    /\ mig = AtRest

Chunk(t) == Pos(th[t].key, th[t].i)

---------------------------------------------------------------------------
(* GetInternal, one load at a time.  Two facts are recorded about a call:  *)
(* its key was in the table when it began, and its key was moved by a      *)
(* migration while it ran.                                                 *)

Published(k) == \E c \in Chunks, s \in Slots : slot[c][s] = k /\ tag[c][s] = Sign[k]

Call(t) ==
    /\ th[t].pc = "idle"
    /\ t \in Writers => phase = "set"
    /\ \E k \in Keys : th' = [th EXCEPT ![t] =
           [Idle EXCEPT !.pc = "flag", !.key = k, !.present = Published(k),
                        !.moved = k \in {mig.key, mig.victim}]]
    /\ UNCHANGED <<hash, phase, mig>>

ReadFlag(t) ==
    /\ th[t].pc = "flag"
    /\ th' = [th EXCEPT ![t].touch = @ \/ migrating[Chunk(t)], ![t].pc = "tags"]

MatchTag(t) ==
    /\ th[t].pc = "tags"
    /\ th' = [th EXCEPT ![t].mask = {s \in Slots : tag[Chunk(t)][s] = Sign[th[t].key]},
                        ![t].pc = "match"]

(* A faulty variant: a slot with the right tag is taken for the key's.     *)
TagIsEnough(t, s) == slot[Chunk(t)][s] \in Keys

SlotHolds(t, s) == slot[Chunk(t)][s] = th[t].key

MatchKey(t) ==
    LET s == Min(th[t].mask) IN
    /\ th[t].pc = "match"
    /\ th[t].mask # {}
    /\ th' = IF SlotHolds(t, s) THEN [th EXCEPT ![t].s = s, ![t].pc = "value"]
             ELSE [th EXCEPT ![t].mask = @ \ {s}]

ReadValue(t) ==
    /\ th[t].pc = "value"
    /\ th' = [th EXCEPT ![t].result = val[Chunk(t)][th[t].s], ![t].pc = "found"]

(* The chain goes on where the overflow count is not 0.  At its end a call *)
(* that met a migrating chunk starts again.                                *)
NextChunk(t) ==
    LET r == th[t] IN
    /\ r.pc = "match"
    /\ r.mask = {}
    /\ th' = [th EXCEPT ![t] =
           IF overflow_count_[Chunk(t)] # 0 /\ r.i + 1 < ChunkNum
           THEN [r EXCEPT !.i = @ + 1, !.pc = "flag"]
           ELSE IF r.touch THEN [r EXCEPT !.i = 0, !.touch = FALSE, !.pc = "flag"]
           ELSE [r EXCEPT !.i = 0, !.pc = "missed"]]

GetInternal(t) ==
    /\ ReadFlag(t) \/ MatchTag(t) \/ MatchKey(t) \/ ReadValue(t) \/ NextChunk(t)
    /\ UNCHANGED <<hash, phase, mig>>

(* Get returns.                                                            *)
Return(t) ==
    /\ t \in Readers
    /\ th[t].pc \in {"found", "missed"}
    /\ th' = [th EXCEPT ![t] = Idle]
    /\ UNCHANGED <<hash, phase, mig>>

---------------------------------------------------------------------------
(* Set.                                                                    *)

(* The key was found: its value is overwritten in place.                   *)
Overwrite(t) ==
    /\ t \in Writers
    /\ th[t].pc = "found"
    /\ val' = [val EXCEPT ![Chunk(t)][th[t].s] = th[t].key]
    /\ th' = [th EXCEPT ![t] = Idle]
    /\ UNCHANGED <<slot, chunk_size, overflow_count_, size_, fatal, tag, migrating, lock,
                   phase, mig>>

Turn(t) == t \in Writers /\ th[t].pc = "missed" /\ lock[Chunk(t)] = NoThread
Here(t) == {s \in Slots : tag[Chunk(t)][s] = Sign[th[t].key] /\ slot[Chunk(t)][s] = th[t].key}

(* A faulty variant: the chunk is not searched again under its lock.       *)
NoResearch(t) == {}

FoundAgain(t) == Here(t)

(* A turn of Insert's loop.  The chunk is locked and searched again: the   *)
(* key may have been inserted meanwhile.                                   *)
UpdateInChunk(t) ==
    /\ Turn(t)
    /\ FoundAgain(t) # {}
    /\ val' = [val EXCEPT ![Chunk(t)][Min(Here(t))] = th[t].key]
    /\ th' = [th EXCEPT ![t] = Idle]
    /\ UNCHANGED <<slot, chunk_size, overflow_count_, size_, fatal, tag, migrating, lock,
                   phase, mig>>

(* A chunk with room takes the key; F14Chunk::Insert counts it first.      *)
TakeSlot(t) ==
    /\ Turn(t)
    /\ FoundAgain(t) = {}
    /\ HasRoom(Chunk(t))
    /\ lock' = [lock EXCEPT ![Chunk(t)] = t]
    /\ chunk_size' = [chunk_size EXCEPT ![Chunk(t)] = @ + 1]
    /\ th' = [th EXCEPT ![t].pc = "put", ![t].s = Min({s \in Slots : tag[Chunk(t)][s] = NoTag})]
    /\ UNCHANGED <<slot, val, overflow_count_, size_, fatal, tag, migrating, phase, mig>>

(* A full chunk is passed and counts it, or the table is full.             *)
PassChunk(t) ==
    /\ Turn(t)
    /\ FoundAgain(t) = {}
    /\ ~ HasRoom(Chunk(t))
    /\ IF Full
       THEN fatal' = TRUE /\ UNCHANGED <<overflow_count_, th>>
       ELSE /\ overflow_count_' = Incremented({Chunk(t)})
            /\ th' = [th EXCEPT ![t].i = @ + 1]
            /\ UNCHANGED fatal
    /\ UNCHANGED <<slot, val, chunk_size, size_, tag, migrating, lock, phase, mig>>

PutEntry(t) ==
    /\ th[t].pc = "put"
    /\ PutAt(Chunk(t), th[t].s, th[t].key, th[t].key)
    /\ th' = [th EXCEPT ![t].pc = "tag"]
    /\ UNCHANGED <<chunk_size, overflow_count_, size_, fatal, tag, migrating, lock, phase, mig>>

PutTag(t) ==
    /\ th[t].pc = "tag"
    /\ tag' = [tag EXCEPT ![Chunk(t)][th[t].s] = Sign[th[t].key]]
    /\ size_' = size_ + 1
    /\ lock' = [lock EXCEPT ![Chunk(t)] = NoThread]
    /\ th' = [th EXCEPT ![t] = Idle]
    /\ UNCHANGED <<slot, val, chunk_size, overflow_count_, fatal, migrating, phase, mig>>

SetStep(t) == \/ Overwrite(t) \/ UpdateInChunk(t) \/ TakeSlot(t) \/ PassChunk(t)
              \/ PutEntry(t) \/ PutTag(t)

---------------------------------------------------------------------------
(* HotnessAwareMigration of a key whose home chunk is full.                *)

(* The writers are done.                                                   *)
EndOfSets ==
    /\ phase = "set"
    /\ \A t \in Writers : th[t].pc = "idle"
    /\ phase' = "migrate"
    /\ UNCHANGED <<hash, th, mig>>

HotHome == Home[mig.key]
Current == Pos(mig.key, mig.far)
VictimChunk == (HotHome + mig.i * ProbeDelta(mig.victim)) % ChunkNum

Migrate(k) ==
    /\ phase = "migrate"
    /\ mig.pc = "rest"
    /\ Exists(k) /\ Where(k) # Home[k] /\ ~ HasRoom(Home[k])
    /\ mig' = [pc |-> "flags", key |-> k, victim |-> slot[Home[k]][0],
               far |-> Distance(k), id |-> SlotOf(k, Where(k)), i |-> Distance(k)]
    /\ th' = [t \in Threads |-> [th[t] EXCEPT !.moved =
                  @ \/ th[t].key \in {k, slot[Home[k]][0]}]]
    /\ UNCHANGED <<hash, phase>>

(* The chunks from the current one back to the home chunk are marked.      *)
MarkChunk ==
    /\ mig.pc = "flags"
    /\ migrating' = [migrating EXCEPT ![Pos(mig.key, mig.i)] = TRUE]
    /\ mig' = IF mig.i = 0 THEN [mig EXCEPT !.pc = "seek", !.i = 1] ELSE [mig EXCEPT !.i = @ - 1]
    /\ UNCHANGED <<slot, val, chunk_size, overflow_count_, size_, fatal, tag, lock, phase, th>>

(* The victim's chain, from the chunk after the hot key's home.            *)
PassVictim ==
    /\ mig.pc = "seek"
    /\ ~ HasRoom(VictimChunk)
    /\ IF Full THEN fatal' = TRUE /\ UNCHANGED <<overflow_count_, mig>>
       ELSE /\ overflow_count_' = Incremented({VictimChunk})
            /\ mig' = [mig EXCEPT !.i = @ + 1]
            /\ UNCHANGED fatal
    /\ UNCHANGED <<slot, val, chunk_size, size_, tag, migrating, lock, phase, th>>

PutVictim ==
    /\ mig.pc = "seek"
    /\ HasRoom(VictimChunk)
    /\ PutAt(VictimChunk, FirstFree(VictimChunk), mig.victim, val[HotHome][0])
    /\ chunk_size' = [chunk_size EXCEPT ![VictimChunk] = @ + 1]
    /\ mig' = [mig EXCEPT !.pc = "vtag"]
    /\ UNCHANGED <<overflow_count_, size_, fatal, tag, migrating, lock, phase, th>>

TagVictim ==
    /\ mig.pc = "vtag"
    /\ tag' = [tag EXCEPT ![VictimChunk][SlotOf(mig.victim, VictimChunk)] = Sign[mig.victim]]
    /\ mig' = [mig EXCEPT !.pc = "key"]
    /\ UNCHANGED <<slot, val, chunk_size, overflow_count_, size_, fatal, migrating, lock, phase, th>>

(* The hot key replaces the victim: its key, its value, its tag.           *)
ReplaceKey ==
    /\ mig.pc = "key"
    /\ overflow_count_' = Incremented({HotHome})
    /\ slot' = [slot EXCEPT ![HotHome][0] = mig.key]
    /\ mig' = [mig EXCEPT !.pc = "val"]
    /\ UNCHANGED <<val, chunk_size, size_, fatal, tag, migrating, lock, phase, th>>

ReplaceValue ==
    /\ mig.pc = "val"
    /\ val' = [val EXCEPT ![HotHome][0] = val[Current][mig.id]]
    /\ mig' = [mig EXCEPT !.pc = "tag"]
    /\ UNCHANGED <<slot, chunk_size, overflow_count_, size_, fatal, tag, migrating, lock, phase, th>>

ReplaceTag ==
    /\ mig.pc = "tag"
    /\ tag' = [tag EXCEPT ![HotHome][0] = Sign[mig.key]]
    /\ mig' = [mig EXCEPT !.pc = "untag"]
    /\ UNCHANGED <<slot, val, chunk_size, overflow_count_, size_, fatal, migrating, lock, phase, th>>

(* F14Chunk::Delete of the old slot.                                       *)
ClearTag ==
    /\ mig.pc = "untag"
    /\ tag' = [tag EXCEPT ![Current][mig.id] = NoTag]
    /\ mig' = [mig EXCEPT !.pc = "clear"]
    /\ UNCHANGED <<slot, val, chunk_size, overflow_count_, size_, fatal, migrating, lock, phase, th>>

ClearKey ==
    /\ mig.pc = "clear"
    /\ slot' = [slot EXCEPT ![Current][mig.id] = NoKey]
    /\ chunk_size' = [chunk_size EXCEPT ![Current] = @ - 1]
    /\ mig' = [mig EXCEPT !.pc = "unflag", !.i = mig.far]
    /\ UNCHANGED <<val, overflow_count_, size_, fatal, tag, migrating, lock, phase, th>>

(* A faulty variant: the count of the chunk the key leaves drops as well.  *)
AlsoCurrent == {Pos(mig.key, mig.i)}

NoLongerPassed == {Pos(mig.key, mig.i)} \ {Current}

(* The marks go, from the current chunk back to the home chunk, and with   *)
(* them the counts of the hot key.                                         *)
UnmarkChunk ==
    /\ mig.pc = "unflag"
    /\ migrating' = [migrating EXCEPT ![Pos(mig.key, mig.i)] = FALSE]
    /\ overflow_count_' = Decremented(NoLongerPassed)
    /\ mig' = IF mig.i = 0 THEN AtRest ELSE [mig EXCEPT !.i = @ - 1]
    /\ UNCHANGED <<slot, val, chunk_size, size_, fatal, tag, lock, phase, th>>

MigrationStep ==
    \/ MarkChunk \/ PassVictim \/ PutVictim \/ TagVictim \/ ReplaceKey \/ ReplaceValue
    \/ ReplaceTag \/ ClearTag \/ ClearKey \/ UnmarkChunk

ThreadsNext ==
    /\ ~ fatal
    /\ \/ \E t \in Threads : Call(t) \/ GetInternal(t)
       \/ \E t \in Readers : Return(t)
       \/ \E t \in Writers : SetStep(t)
       \/ EndOfSets
       \/ \E k \in Keys : Migrate(k)
       \/ MigrationStep

ThreadsSpec == ThreadsInit /\ [][ThreadsNext]_allVars

---------------------------------------------------------------------------
(* Properties.                                                             *)

(* The Multithread test: what Get finds under a key is the key's own value *)
(* although the slot is read without a lock while others write it, unless  *)
(* a migration was moving the key (persist_pet_hash_test.cc:141,           *)
(* pet_hash.h:353-363).                                                    *)
ReadsOwnValue ==
    \A t \in Threads : th[t].pc = "found" /\ ~ th[t].moved => th[t].result = th[t].key

(* A key that was in the table when a lookup began is not missed, whatever *)
(* the writers insert and whichever other keys a migration moves: no count *)
(* along the key's chain drops to 0 for a moment (pet_hash.h:365,          *)
(* 477-489).                                                               *)
PresentKeysFound ==
    \A t \in Threads :
        th[t].pc = "missed" /\ th[t].i = 0 /\ ~ th[t].moved => ~ th[t].present

(* When no Set and no migration is under way, every key is stored once, is *)
(* found where it is stored, and the table is valid: two threads that set  *)
(* the same new key do not both insert it (persist_pet_hash_test.cc:157-   *)
(* 164, pet_hash.h:529-540).                                               *)
QuietTableSound ==
    (~ fatal /\ mig.pc = "rest" /\ \A t \in Writers : th[t].pc = "idle") =>
        /\ StoredKeysFound
        /\ Valid
        /\ \A p, q \in AllStored : AtSlot(p) = AtSlot(q) => p = q
===========================================================================
