------------------------------ MODULE FatCache ------------------------------
(***************************************************************************)
(* The write-back cache of FAT sectors in fat.c: FatMap with its valid and  *)
(* dirty bitmaps, loadSector with its prefetching and its fallback to the   *)
(* other FAT copies, the one-sector shortcut of getAddress, and fat_write.  *)
(* The content of a sector is one abstract value.                           *)
(***************************************************************************)
EXTENDS Naturals

CONSTANTS
    FatLen,         \* fat_len: sectors in one copy of the FAT
    SectPerEntry,   \* SECT_PER_ENTRY: sectors covered by one FatMap_t
    NumFat,         \* num_fat: copies of the FAT
    PrimaryFat,     \* primaryFat: the active copy
    WriteAllFats,   \* writeAllFats: are the copies mirrors of each other?
    Batch,          \* batchmode
    Values,         \* contents of a FAT sector
    BadChoices      \* the sets of unreadable <<copy, sector>> pairs considered

ASSUME FatCacheAssumption ==
    /\ FatLen \in Nat \ {0} /\ SectPerEntry \in Nat \ {0}
    /\ NumFat \in Nat \ {0} /\ PrimaryFat \in 0..NumFat-1
    /\ WriteAllFats \in BOOLEAN /\ Batch \in BOOLEAN
    /\ Values # {}
    /\ BadChoices \subseteq SUBSET ((0..NumFat-1) \X (0..FatLen-1))

Sectors == 0..FatLen-1
Copies  == 0..NumFat-1
Slots   == {s \div SectPerEntry : s \in Sectors}
Modes   == {"READ", "WRITE"}

VARIABLES
    disk,       \* disk[c][s]: sector s of FAT copy c
    bad,        \* the <<c, s>> that cannot be read
    data,       \* FatMap[].data
    valid,      \* FatMap[].valid, as a set of sectors
    dirty,      \* FatMap[].dirty, as a set of sectors
    fatDirty,   \* fat_dirty
    fatError,   \* fat_error # 0
    last,       \* {} or {[nr, mode]}: lastFatSectorNr, lastFatAccessMode
    pc,         \* "idle", "writing" (in fat_write), "stopped" (process gone)
    pass,       \* fat_write: index i of the copy being written
    next,       \* fat_write: index j of the next sector
    image       \* history variable: disk after the last complete fat_write

cache == <<data, valid, dirty, fatDirty, last>>
vars  == <<disk, bad, cache, fatError, pc, pass, next, image>>

-----------------------------------------------------------------------------
(* Reading from the disk                                                    *)

SlotOf(s) == s \div SectPerEntry

\* The copy that loadSector tries at its i-th attempt, and that fat_write
\* writes in its i-th pass.
Dupe(i) == (i + PrimaryFat) % NumFat

Readable(c, s) == <<c, s>> \notin bad
Good(s) == \E i \in Copies : Readable(Dupe(i), s)

\* The copy that supplies sector s: the first readable one.
Source(s) ==
    Dupe(CHOOSE i \in Copies : /\ Readable(Dupe(i), s)
                               /\ \A j \in 0..i-1 : ~Readable(Dupe(j), s))

\* Sector s as a fresh read finds it, with the primary copy preferred.
OnDisk(s) == disk[Source(s)][s]

SlotEmpty(s) == \A t \in valid : SlotOf(t) # SlotOf(s)

\* Sectors delivered by one fatReadSector starting at s: as many sectors of an
\* empty slot as the layer below grants, exactly one in a slot in use.
Run(s, burst) ==
    IF SlotEmpty(s)
    THEN {t \in Sectors : /\ s <= t /\ t < s + burst[SlotOf(s)]
                          /\ SlotOf(t) = SlotOf(s)
                          /\ \A u \in s..t : Readable(Source(s), u)}
    ELSE {s}

\* Sectors on which loadSector(s, mode, 0) calls loadSector, itself included:
\* after the first load into an empty slot it prefetches the next sector, and
\* in batch mode everything that follows.
Called(s, burst) ==
    IF s \in valid \/ ~SlotEmpty(s) THEN {s}
    ELSE IF Batch THEN {t \in Sectors : s <= t /\ t < s + 1024}
    ELSE IF Run(s, burst) = {s} THEN {s, s+1} \cap Sectors
    ELSE {s}

\* The first readable sector of each slot these calls reach: only there can
\* one read bring a run of sectors.
Heads(s, burst) ==
    {t \in Called(s, burst) :
        Good(t) /\ \A u \in s..t-1 : SlotOf(u) = SlotOf(t) => ~Good(u)}

\* The sectors that these calls bring into the cache, and the copy each of
\* them comes from.
Read(s, burst) ==
    {t \in Called(s, burst) : Good(t)} \cup UNION {Run(h, burst) : h \in Heads(s, burst)}
Fetched_again(s, burst) == IF s \in valid THEN {} ELSE Read(s, burst)
Fetched(s, burst) == IF s \in valid THEN {} ELSE Read(s, burst) \ valid

FetchedFrom(t, s, burst) ==
    IF \E h \in Heads(s, burst) : t \in Run(h, burst)
    THEN Source(CHOOSE h \in Heads(s, burst) : t \in Run(h, burst))
    ELSE Source(t)

-----------------------------------------------------------------------------
(* getAddress                                                               *)

\* getAddress answers from its one-sector memory; nothing is marked dirty.
Hit_anyMode(s, mode) == \E l \in last : l.nr = s
Hit(s, mode) == \E l \in last : l.nr = s /\ (mode = "READ" \/ l.mode = "WRITE")

LoadFails(s, mode) == ~Hit(s, mode) /\ s \notin valid /\ ~Good(s)

\* The effect of loadSector(s, mode, 0) on the bitmaps, and of getAddress on
\* its memory.
Load(s, mode, burst) ==
    /\ valid' = valid \cup Fetched(s, burst)
    /\ dirty' = IF mode = "WRITE" THEN dirty \cup (Called(s, burst) \cap valid') ELSE dirty
    /\ fatDirty' = (fatDirty \/ mode = "WRITE")
    /\ last' = {[nr |-> s, mode |-> mode]}

\* FatMap[].data after it.
LoadedData(s, burst) ==
    [t \in Sectors |-> IF t \in Fetched(s, burst)
                       THEN disk[FetchedFrom(t, s, burst)][t]
                       ELSE data[t]]

Bursts == [Slots -> 1..SectPerEntry]

\* fat_decode through getAddress(READ).  An entry out of range makes
\* fatDecode raise fat_error; which entries are is left open (err).
Decode(s, burst, err) ==
    /\ pc = "idle"
    /\ ~LoadFails(s, "READ")
    /\ IF Hit(s, "READ") THEN UNCHANGED cache
       ELSE Load(s, "READ", burst) /\ data' = LoadedData(s, burst)
    /\ fatError' = (fatError \/ err)
    /\ UNCHANGED <<disk, bad, pc, pass, next, image>>

\* fat_encode through getAddress(WRITE).
Encode(s, v, burst) ==
    /\ pc = "idle"
    /\ ~LoadFails(s, "WRITE")
    /\ IF Hit(s, "WRITE")
       THEN /\ data' = [data EXCEPT ![s] = v]
            /\ UNCHANGED <<valid, dirty, fatDirty, last>>
       ELSE /\ Load(s, "WRITE", burst)
            /\ data' = [LoadedData(s, burst) EXCEPT ![s] = v]
    /\ UNCHANGED <<disk, bad, fatError, pc, pass, next, image>>

\* fat_encode on a sector no copy of which can be read: the address is 0 and
\* the store through it kills the process.
EncodeFault(s) ==
    /\ pc = "idle" /\ LoadFails(s, "WRITE")
    /\ pc' = "stopped"
    /\ UNCHANGED <<disk, bad, cache, fatError, pass, next, image>>

-----------------------------------------------------------------------------
(* fat_write                                                                *)

Dups == IF fatError THEN 1 ELSE NumFat

StartWrite ==
    /\ pc = "idle" /\ fatDirty
    /\ pc' = "writing" /\ pass' = 0 /\ next' = 0
    /\ UNCHANGED <<disk, bad, cache, fatError, image>>

\* fatWriteSector leaves every copy but number 0 alone unless the copies are
\* mirrors; its test is on the number of the copy, after the rotation.
Skipped(c) == c # 0 /\ ~WriteAllFats

\* The dirty bit is cleared in the last pass.
Clears_first == pass = 0
Clears == pass = Dups - 1

\* What one fatWriteSector does to the disk.
Stored_everywhere(s) == [c \in Copies |-> [disk[c] EXCEPT ![s] = data[s]]]
Stored(s) == [disk EXCEPT ![Dupe(pass)][s] = data[s]]

After_same(s) == s
After(s) == s + 1

\* The next dirty sector of the current copy.  A write makes an unreadable
\* sector readable.
WriteSector(s) ==
    /\ pc = "writing"
    /\ s \in dirty /\ s >= next /\ \A t \in dirty : t >= next => s <= t
    /\ IF Skipped(Dupe(pass)) THEN UNCHANGED <<disk, bad>>
       ELSE disk' = Stored(s) /\ bad' = bad \ {<<Dupe(pass), s>>}
    /\ dirty' = IF Clears THEN dirty \ {s} ELSE dirty
    /\ next' = After(s)
    /\ UNCHANGED <<data, valid, fatDirty, last, fatError, pc, pass, image>>

MorePasses_one == pass < Dups
MorePasses == pass < Dups - 1

NextPass ==
    /\ pc = "writing" /\ MorePasses /\ \A s \in dirty : s < next
    /\ pass' = pass + 1 /\ next' = 0
    /\ UNCHANGED <<disk, bad, cache, fatError, pc, image>>

\* The shortcut must forget that its sector was open for writing: the next
\* store has to mark it dirty again.
ModeReset_none == last
ModeReset == {[nr |-> l.nr, mode |-> "READ"] : l \in last}

EndWrite ==
    /\ pc = "writing" /\ pass = Dups - 1 /\ \A s \in dirty : s < next
    /\ pc' = "idle" /\ fatDirty' = FALSE
    /\ last' = ModeReset
    /\ image' = disk
    /\ pass' = 0 /\ next' = 0
    /\ UNCHANGED <<disk, bad, data, valid, dirty, fatError>>

\* A write of fat_write that fails ends the process there (exit(1)).
WriteFails ==
    /\ pc = "writing" /\ ~Skipped(Dupe(pass)) /\ \E s \in dirty : s >= next
    /\ pc' = "stopped"
    /\ UNCHANGED <<disk, bad, cache, fatError, pass, next, image>>

-----------------------------------------------------------------------------
(* fat_read starts with an empty cache.  The copies of a mirrored FAT agree,*)
(* those of a FAT without mirroring need not.                              *)

Init ==
    /\ disk \in [Copies -> [Sectors -> Values]]
    /\ WriteAllFats => \A c \in Copies : disk[c] = disk[0]
    /\ bad \in BadChoices
    /\ data \in [Sectors -> {CHOOSE v \in Values : TRUE}]
    /\ valid = {} /\ dirty = {} /\ fatDirty = FALSE /\ fatError = FALSE
    /\ last = {}
    /\ pc = "idle" /\ pass = 0 /\ next = 0 /\ image = disk

Flush == StartWrite \/ (\E s \in Sectors : WriteSector(s)) \/ NextPass \/ EndWrite

Next ==
    \/ \E s \in Sectors, burst \in Bursts, err \in BOOLEAN : Decode(s, burst, err)
    \/ \E s \in Sectors, v \in Values, burst \in Bursts : Encode(s, v, burst)
    \/ \E s \in Sectors : EncodeFault(s)
    \/ Flush
    \/ WriteFails

Spec == Init /\ [][Next]_vars

\* fat_write is a loop that nothing but the end of the process interrupts.
FairSpec == Spec /\ WF_vars(Flush /\ pc = "writing")

-----------------------------------------------------------------------------
(* Properties                                                               *)

TypeOK ==
    /\ disk \in [Copies -> [Sectors -> Values]]
    /\ bad \subseteq Copies \X Sectors
    /\ data \in [Sectors -> Values]
    /\ valid \subseteq Sectors /\ dirty \subseteq Sectors
    /\ fatDirty \in BOOLEAN /\ fatError \in BOOLEAN
    /\ \/ last = {}
       \/ \E s \in Sectors, m \in Modes : last = {[nr |-> s, mode |-> m]}
    /\ pc \in {"idle", "writing", "stopped"}
    /\ pass \in Copies /\ next \in 0..FatLen
    /\ image \in [Copies -> [Sectors -> Values]]

\* Nothing is lost by the one-sector shortcut of getAddress: between two
\* fat_writes a sector it would hand out for writing is already marked dirty,
\* and fat_dirty announces every dirty sector (fat_write returns at once
\* without it).
DirtyAnnounced ==
    /\ dirty \subseteq valid
    /\ dirty # {} => fatDirty
    /\ pc = "idle" => \A l \in last : l.mode = "WRITE" => l.nr \in dirty

\* A cached sector that is not marked dirty holds what a fresh read of the
\* disk would return, whichever copy it was fetched from and whatever was
\* prefetched with it.
CacheCoherent ==
    \A s \in valid \ dirty : data[s] = OnDisk(s)

\* After a fat_write without FAT errors all copies of a mirrored FAT are equal.
MirrorsAgree ==
    pc = "idle" /\ ~fatDirty /\ ~fatError /\ WriteAllFats =>
        \A c \in Copies : disk[c] = disk[0]

\* Wherever a fat_write is interrupted, some copy is whole: either untouched
\* or completely written.  This is what a second copy is for.
WholeCopy ==
    \E c \in Copies :
        \/ disk[c] = image[c]
        \/ \A s \in Sectors :
              disk[c][s] = IF s \in valid THEN data[s] ELSE image[c][s]

\* Without mirroring, the copies other than the active one are never written.
InactiveUntouched ==
    [][\A c \in Copies \ {PrimaryFat} : disk'[c] = disk[c]]_vars

\* The table the rest of mtools sees: the cached sectors, and the disk for the
\* others.  Reads, prefetching and fat_write never change it, and a sector on
\* disk only changes to the table's value.  (A sector that nobody can read has
\* the filler of FatMap[].data.)
Stable(s) == IF Good(s) THEN OnDisk(s) ELSE data[s]
Logical == [s \in Sectors |-> IF s \in valid THEN data[s] ELSE Stable(s)]
Abstract == INSTANCE FatTable WITH
    TableSectors <- Sectors, TableValues <- Values,
    table <- Logical, stored <- [s \in Sectors |-> Stable(s)]
ImplementsTable == Abstract!TableSpec

\* A fat_write that was begun ends, unless the process does.
WriteEnds == pc = "writing" ~> pc # "writing"

\* "Write the FAT table to the disk": once fat_write has returned, a fresh
\* read finds the table.
FlushedIsStored ==
    pc = "idle" /\ ~fatDirty => \A s \in Sectors : Good(s) => OnDisk(s) = Logical[s]
=============================================================================
