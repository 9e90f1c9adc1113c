------------------------------ MODULE FsLayout ------------------------------
(***************************************************************************)
(* The layout of a FAT filesystem: mformat.c's arithmetic that finds a FAT  *)
(* length, a cluster size and a number of FAT bits for a disk, init.c's and *)
(* fat.c's that derive the same numbers from a boot sector.                 *)
(*                                                                         *)
(* A layout is a record: fat_bits, cluster_size, dir_len (in sectors),      *)
(* fat_len, fat_start, num_fat, num_clus, and backupBoot.                   *)
(***************************************************************************)
EXTENDS Integers

CONSTANT SectorSize         \* bytes per sector

ASSUME SectorSizeAssumption == SectorSize \in {512, 1024, 2048, 4096}

FAT12 == 4085               \* 0xff5
FAT16 == 65525              \* 0xfff5
FAT32 == 268435445          \* 0xffffff5

TopByte == 255
TopWord == 65535
Bytes == 0..TopByte         \* uint8_t
Words == 0..TopWord         \* uint16_t
Word(n) == n % 65536        \* the conversion to uint16_t
Least(m, n) == IF m < n THEN m ELSE n

ClusStart(fs) == fs.fat_start + fs.fat_len * fs.num_fat + fs.dir_len

\* calc_num_clus: the caller has tot > ClusStart(fs).
WithClusters(fs, tot) ==
    [fs EXCEPT !.num_clus = (tot - ClusStart(fs)) \div fs.cluster_size]

\* set_fat: the number of clusters decides, unless the FAT length is in bigFat.
BitsOf(fs, haveBigFatLen) ==
    IF haveBigFatLen THEN 32
    ELSE IF fs.num_clus < FAT12 THEN 12
    ELSE IF fs.num_clus < FAT16 THEN 16
    ELSE 32

\* The number from which an entry is not a cluster (last_fat).
LastFat(bits) == IF bits = 12 THEN 4086 ELSE IF bits = 16 THEN 65526 ELSE 268435446

ClustersFitIntoFat(fs) ==
    ((fs.num_clus + 2) * (fs.fat_bits \div 4) - 1) \div (SectorSize * 2) < fs.fat_len

\* FAT_SIZE of msdos.h, with which a FAT that is read is judged.
NeededFatSize(fs) ==
    (((fs.num_clus + 2) * (fs.fat_bits \div 4) - 1) \div (SectorSize * 2)) + 1

\* The two first entries of a FAT have no cluster: as many sectors as would
\* be theirs are added to what the FAT must describe.
\* Mutant: they are forgotten.
ReservedEntries_none(fs) == 0
ReservedEntries(fs) == 2 * fs.cluster_size

(***************************************************************************)
(* calc_fat_len: [fit, len].  -2: no room for the header; 1: more sectors   *)
(* than a 12 bit FAT can ever describe.                                     *)
(***************************************************************************)
CalcFatLen(fs, tot) ==
    LET nybbles == fs.fat_bits \div 4
        start == ClusStart([fs EXCEPT !.fat_len = 0])
        left  == tot - start
        odd   == left % 2 = 1 /\ fs.num_fat % 2 = 0 /\ fs.cluster_size % 2 = 0
        rem   == IF odd THEN left - 1 ELSE left
        full  == fs.cluster_size * SectorSize * 2 + fs.num_fat * nybbles
        den   == IF nybbles = 3 THEN full ELSE full \div nybbles
        num   == (rem + ReservedEntries(fs)) * (IF nybbles = 3 THEN nybbles ELSE 1)
        corr  == IF rem > den THEN 1 ELSE 0
    IN  IF tot < start THEN [fit |-> -2, len |-> 0]
        ELSE IF nybbles = 3 /\ rem > 256 * FAT12 THEN [fit |-> 1, len |-> 0]
        ELSE [fit |-> 0, len |-> (num - corr * den - 1) \div den + 1 + corr]

MinClus(bits) == IF bits = 12 THEN 1 ELSE IF bits = 16 THEN 4096 ELSE FAT16
MaxClus(bits) == IF bits = 12 THEN FAT12 ELSE IF bits = 16 THEN FAT16 ELSE FAT32

(***************************************************************************)
(* How a layout with too many clusters is padded: the root directory grows  *)
(* towards 32 sectors, the FATs or the reserved sectors take the rest.      *)
(* "may" is the set of what the search may change.  The subtractions are of *)
(* unsigned 16 bit numbers.                                                 *)
(***************************************************************************)
Waste(fs, tot) == tot - ClusStart(fs) - MaxClus(fs.fat_bits) * fs.cluster_size + 1

DirShrink(waste, fatGrow, nfat, dirGrow) == Least(Word(waste - fatGrow * nfat), dirGrow)

Padded(fs, tot, may) ==
    LET waste == Word(Waste(fs, tot))
        grow  == IF "root_size" \in may THEN Least(32 - fs.dir_len, waste) ELSE 0
        rest  == waste - grow
        fatGrow == (rest + fs.num_fat - 1) \div fs.num_fat
    IN  IF "fat_len" \in may /\ ("boot_size" \notin may \/ fs.fat_bits = 12)
        THEN [fs EXCEPT !.fat_len = @ + fatGrow,
                        !.dir_len = @ + grow - DirShrink(rest, fatGrow, fs.num_fat, grow)]
        ELSE [fs EXCEPT !.fat_start = IF "boot_size" \in may THEN Word(@ + rest) ELSE @,
                        !.dir_len = @ + grow]

\* What a layout is, when its FAT length is settled: the result of one pass
\* of try_cluster_size's loop.  2: the given FAT length is too short.
Judge(fs, tot, may) ==
    IF tot <= ClusStart(fs) THEN -2
    ELSE LET g == WithClusters(fs, tot)
         IN  IF g.num_clus < MinClus(fs.fat_bits) THEN -1
             ELSE IF "fat_len" \notin may /\ (g.num_clus >= FAT32 \/ ~ClustersFitIntoFat(g))
             THEN 2
             ELSE IF g.num_clus < MaxClus(fs.fat_bits) THEN 0 ELSE 1

Counted(fs, tot) == IF tot > ClusStart(fs) THEN WithClusters(fs, tot) ELSE fs

(***************************************************************************)
(* The layouts of the floppies DOS knew before boot sectors described them. *)
(***************************************************************************)
OldDos(tracks, sectors, heads, fat_len, dir_len, cluster_size, media) ==
    [tracks |-> tracks, sectors |-> sectors, heads |-> heads, fat_len |-> fat_len,
     dir_len |-> dir_len, cluster_size |-> cluster_size, media |-> media]

OldDosTable ==
    { OldDos(40,  9, 1, 2,  4, 1, 252), OldDos(40,  9, 2, 2,  7, 2, 253),
      OldDos(40,  8, 1, 1,  4, 1, 254), OldDos(40,  8, 2, 1,  7, 2, 255),
      OldDos(80,  9, 2, 3,  7, 2, 249), OldDos(80, 15, 2, 7, 14, 1, 249),
      OldDos(80, 18, 2, 9, 14, 1, 240), OldDos(80, 36, 2, 9, 15, 2, 240),
      OldDos(80,  8, 2, 2,  7, 2, 251), OldDos(80,  8, 1, 2,  7, 2, 250),
      OldDos(80,  9, 1, 2,  7, 2, 248) }

OldDosByParams(dev, fs) ==
    { p \in OldDosTable :
        /\ p.sectors = dev.sectors /\ p.tracks = dev.tracks /\ p.heads = dev.heads
        /\ fs.dir_len \in {0, p.dir_len}
        /\ fs.cluster_size \in {0, p.cluster_size} }
=============================================================================
