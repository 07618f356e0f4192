--------------------------- MODULE RegisterCenter ---------------------------
(***************************************************************************)
(* PMMmapRegisterCenter of src/memory/shm_file.h: named areas of one DAX   *)
(* device.  The names, offsets and sizes are persistent, the end of the    *)
(* used space is not: a restarted process finds it again only as it        *)
(* registers the old names.  The shards of a store register their files    *)
(* from threads of their own (PetMultiKV::LoadShard).                      *)
(*                                                                         *)
(* A size does not change between two starts, so ReInitialize is left out. *)
(***************************************************************************)
EXTENDS Integers, Sequences

CONSTANTS Shards,
          FileSizes,   \* shard -> the sizes of its files, in their order
          Align        \* 2 MB in the code

ASSUME RegisterAssumption ==
    /\ Align \in Nat \ {0}
    /\ FileSizes \in [Shards -> Seq(Nat \ {0})]

VARIABLES mmMeta_,     \* the persistent table of areas, as a set
          mmap_addr,   \* shmfile_mmap_addr_, from the start of the data
          opened,      \* shard -> files it has registered since the start
          overlay      \* history: what appended areas have overlaid

registerVars == <<mmMeta_, mmap_addr, opened, overlay>>

File(s) == <<s, opened[s] + 1>>
SizeOf(name) == FileSizes[name[1]][name[2]]
AllOpened(s) == opened[s] = Len(FileSizes[s])
IsOpen(name) == name[2] <= opened[name[1]]

RegisterInit ==
    /\ mmMeta_ = {}
    /\ mmap_addr = 0
    /\ opened = [s \in Shards |-> 0]
    /\ overlay = "none"

(* A new process: the constructor maps the device and starts at its front. *)
MapDevice ==
    /\ mmap_addr' = 0
    /\ opened' = [s \in Shards |-> 0]
    /\ UNCHANGED <<mmMeta_, overlay>>

FindIfExists(name) == {item \in mmMeta_ : item.name = name}

Overlaps(item, offset, size) ==
    offset < item.offset + item.size /\ item.offset < offset + size

Aligned(size) == ((size + Align - 1) \div Align) * Align

(* append_register clears the area it hands out.                           *)
AppendRegister(s) ==
    LET size == SizeOf(File(s))
        hit == {item \in mmMeta_ : Overlaps(item, mmap_addr, size)} IN
    /\ ~ AllOpened(s)
    /\ FindIfExists(File(s)) = {}
    /\ mmMeta_' = mmMeta_ \cup {[name |-> File(s), offset |-> mmap_addr, size |-> size]}
    /\ mmap_addr' = mmap_addr + Aligned(size)
    /\ opened' = [opened EXCEPT ![s] = @ + 1]
    /\ overlay' = IF \E item \in hit : IsOpen(item.name) THEN "found"
                  ELSE IF hit # {} THEN "missed"
                  ELSE overlay

(* A faulty variant: the end of the used space stays where it was.         *)
EndStays(item) == mmap_addr

EndBehind(item) ==
    IF mmap_addr < item.offset + item.size THEN item.offset + item.size ELSE mmap_addr

UseExisting(s) ==
    /\ ~ AllOpened(s)
    /\ \E item \in FindIfExists(File(s)) : mmap_addr' = EndBehind(item)
    /\ opened' = [opened EXCEPT ![s] = @ + 1]
    /\ UNCHANGED <<mmMeta_, overlay>>

Register(s) == AppendRegister(s) \/ UseExisting(s)

(* The center by itself: registrations in any order, and restarts.         *)
RegisterNext == MapDevice \/ \E s \in Shards : Register(s)

RegisterSpec == RegisterInit /\ [][RegisterNext]_registerVars

---------------------------------------------------------------------------
(* A new area never overlays an area that was found again since the start  *)
(* (shm_file.h:58-77).  It may overlay one that another shard's thread has *)
(* not asked for yet, after a death during the very first start.           *)
FoundAreasKept == overlay # "found"
=============================================================================
