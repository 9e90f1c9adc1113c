------------------------------- MODULE Format -------------------------------
(***************************************************************************)
(* mformat: one run of the command, from the description of the drive it    *)
(* picks to the boot sector it writes, and then the next command's reading  *)
(* of that boot sector.  The arithmetic is in FsLayout; here is the search  *)
(* that calls it, which changes one parameter after the other until a       *)
(* layout fits.                                                            *)
(***************************************************************************)
EXTENDS FsLayout, Sequences, FiniteSets

CONSTANT Requests       \* what the command line and the configuration ask for

(***************************************************************************)
(* A request: devs, the descriptions of the drive letter in their order,    *)
(* with what the options -t, -h, -s and -H put in place of theirs; total    *)
(* (-T), create (-C), fat32 (-F), cluster_size (-c), dir_len (-r), fat_len  *)
(* (-L), fat_start (-R), backupBoot (-K) and num_fat (-d); 0 where an       *)
(* option is not given.                                                    *)
(***************************************************************************)
Descriptions ==
    [fat_bits : {0, 12, 16, 32, -12, -16, -32}, heads : Words \ {0}, sectors : Words \ {0},
     tracks : Nat, hidden : Nat]
IsRequest(r) ==
    /\ r.devs \in Seq(Descriptions) /\ r.devs # <<>>
    /\ r.total \in Nat /\ r.create \in BOOLEAN /\ r.fat32 \in BOOLEAN
    /\ r.total # 0 => r.tracksOption = 0        \* only one of -t and -T
    /\ r.cluster_size \in Bytes /\ r.dir_len \in Words
    /\ r.fat_len \in Nat /\ r.fat_start \in Words /\ r.num_fat \in Bytes \ {0}
    /\ r.backupBoot \in Words \ {1}

ASSUME RequestsAssumption == \A r \in Requests : IsRequest(r)

VARIABLES
    req,        \* the request of this run
    pc,         \* "device", "start", "search", "judge", "adjust", "boot",
                \* "read", "done", "failed" (an error message), "abort" (an assert)
    d,          \* the description looked at
    tot,        \* tot_sectors, 0 as long as it is unknown
    fs,         \* the layout
    descr,      \* the media descriptor of the boot sector
    mayPad,     \* may_pad
    savedDir,   \* saved_dir_len
    fit, waste, \* what the last try_cluster_size returned, and padded
    boot,       \* the boot sector on disk
    seen        \* what the next command makes of it

vars == <<req, pc, d, tot, fs, descr, mayPad, savedDir, fit, waste, boot, seen>>
searchVars == <<fs, descr, mayPad, savedDir, fit, waste>>

NoBoot == [secsiz |-> 0]
Refused == [fat_bits |-> 0]

dev == req.devs[d]
Abs(n) == IF n < 0 THEN -n ELSE n

-----------------------------------------------------------------------------
(* The description of the drive                                             *)

\* chs_to_totsectors
ChsSectors(v) ==
    LET track == v.heads * v.sectors
        all   == v.tracks * track
        part  == v.hidden % track
    IN  IF all > part THEN all - part ELSE all

NewLayout(r) ==
    [fat_bits |-> 0, cluster_size |-> r.cluster_size, dir_len |-> r.dir_len,
     fat_len |-> r.fat_len, fat_start |-> r.fat_start, num_fat |-> r.num_fat,
     num_clus |-> 0, backupBoot |-> r.backupBoot]

Init ==
    /\ req \in Requests
    /\ pc = "device" /\ d = 1 /\ tot = req.total
    /\ fs = NewLayout(req)
    /\ descr = 0 /\ mayPad = FALSE /\ savedDir = 0 /\ fit = 0 /\ waste = 0
    /\ boot = NoBoot /\ seen = Refused

NextDevice ==
    /\ d' = d + 1
    /\ IF d < Len(req.devs) THEN pc' = "device" ELSE pc' = "failed"

\* The image or device of a description cannot be opened.
OpenFails ==
    /\ pc = "device"
    /\ NextDevice
    /\ UNCHANGED <<req, tot, searchVars, boot, seen>>

\* It can: the size is settled before the test read, which may fail still.
TotAfterOpen == IF tot # 0 THEN tot ELSE ChsSectors(dev)

TestReadFails ==
    /\ pc = "device" /\ ~req.create
    /\ tot' = TotAfterOpen
    /\ NextDevice
    /\ UNCHANGED <<req, searchVars, boot, seen>>

OpenWorks ==
    /\ pc = "device"
    /\ tot' = TotAfterOpen
    /\ pc' = IF tot' = 0 THEN "failed" ELSE "start"     \* Disk size not known
    /\ UNCHANGED <<req, d, searchVars, boot, seen>>

-----------------------------------------------------------------------------
(* calc_fs_parameters                                                       *)

\* What the search may change: whatever the user has not fixed.
May ==
    { p \in {"boot_size", "cluster_size", "root_size", "fat_len", "fat_bits"} :
        CASE p = "boot_size"    -> req.fat_start = 0
          [] p = "cluster_size" -> req.cluster_size = 0
          [] p = "root_size"    -> req.dir_len = 0
          [] p = "fat_len"      -> req.fat_len = 0
          [] p = "fat_bits"     -> dev.fat_bits = 0 /\ ~req.fat32 }

Conflict == req.fat32 /\ dev.fat_bits \notin {0, 32}
KnownFloppies ==
    IF /\ "fat_bits" \in May \/ Abs(dev.fat_bits) = 12
       /\ req.fat_start \in {0, 1}
    THEN OldDosByParams(dev, fs)
    ELSE {}

\* check_fs_params_and_set_fat: its assertions, and the bits it settles for.
FilledUp(f) ==
    /\ tot >= ClusStart(f) + f.num_clus * f.cluster_size
    /\ tot <= ClusStart(f) + f.num_clus * f.cluster_size + f.cluster_size - 1
ParamsAsserted(f) ==
    /\ (f.fat_bits = 32) = (f.dir_len = 0)
    /\ FilledUp(f)
    /\ ClustersFitIntoFat(f)
    /\ BitsOf(f, f.fat_bits = 32) = f.fat_bits

\* A floppy DOS knew: the table gives its layout.
StartKnown ==
    /\ pc = "start" /\ ~Conflict
    /\ \E p \in KnownFloppies :
        LET f == [fs EXCEPT !.fat_start = 1, !.cluster_size = p.cluster_size,
                            !.dir_len = p.dir_len, !.fat_len = p.fat_len, !.fat_bits = 12]
        IN  /\ fs' = Counted(f, tot)
            /\ pc' = IF tot > ClusStart(f) /\ ParamsAsserted(fs') THEN "boot" ELSE "abort"
            /\ descr' = p.media
    /\ UNCHANGED <<req, d, tot, mayPad, savedDir, fit, waste, boot, seen>>

FirstBits == IF req.fat32 THEN 32 ELSE IF dev.fat_bits = 0 THEN 12 ELSE Abs(dev.fat_bits)
FirstCluster ==
    IF tot < 2400 /\ dev.heads = 2 THEN 2
    ELSE IF "fat_len" \in May /\ FirstBits = 32 THEN 8 ELSE 1
FirstDir ==
    IF tot < 1200 THEN (IF dev.heads = 1 THEN 4 ELSE 7)
    ELSE IF tot <= 3840 THEN 14 ELSE IF tot <= 7680 THEN 15 ELSE 32

StartSearch ==
    /\ pc = "start" /\ ~Conflict /\ KnownFloppies = {}
    /\ descr' = IF dev.hidden # 0 \/ tot % (dev.sectors * dev.heads) # 0 THEN 248 ELSE 240
    /\ fs' = [fs EXCEPT !.fat_bits = FirstBits,
                        !.cluster_size = IF @ = 0 THEN FirstCluster ELSE @,
                        !.dir_len = IF @ = 0 THEN FirstDir ELSE @]
    /\ savedDir' = fs'.dir_len
    /\ pc' = "search"
    /\ UNCHANGED <<req, d, tot, mayPad, fit, waste, boot, seen>>

StartRefused ==
    /\ pc = "start" /\ Conflict
    /\ pc' = "failed"
    /\ UNCHANGED <<req, d, tot, searchVars, boot, seen>>

\* Microsoft's cluster sizes for big disks, for FAT32.
BigDisk == 16777216     \* sectors
Fat32Cluster(cs) ==
    IF tot >= 4 * BigDisk THEN 64 ELSE IF tot >= 2 * BigDisk THEN 32
    ELSE IF tot >= BigDisk THEN 16 ELSE cs

\* The top of the loop: reserved sectors and root directory for these bits.
Prepared(f) ==
    [f EXCEPT
        !.fat_start = IF "boot_size" \notin May THEN @ ELSE IF f.fat_bits = 32 THEN 32 ELSE 1,
        !.dir_len = IF f.fat_bits = 32 THEN 0 ELSE IF @ = 0 THEN savedDir ELSE @,
        !.cluster_size = IF f.fat_bits = 32 /\ {"cluster_size", "fat_len"} \subseteq May
                         THEN Fat32Cluster(@) ELSE @]

(***************************************************************************)
(* try_cluster_size, in three kinds of step: the length of the FAT is       *)
(* computed, the layout judged, and if that is allowed once padded and      *)
(* judged again.                                                           *)
(***************************************************************************)
SizeFat ==
    /\ pc = "search"
    /\ LET f == Prepared(fs)
           c == IF "fat_len" \in May THEN CalcFatLen(f, tot) ELSE [fit |-> 0, len |-> f.fat_len]
       IN  /\ fs' = [f EXCEPT !.fat_len = c.len]
           /\ fit' = c.fit
           /\ pc' = IF c.fit = 0 THEN "judge" ELSE "adjust"
    /\ waste' = 0
    /\ UNCHANGED <<req, d, tot, descr, mayPad, savedDir, boot, seen>>

MustPad == Judge(fs, tot, May) = 1 /\ mayPad /\ waste = 0

JudgeLayout ==
    /\ pc = "judge" /\ ~MustPad
    /\ fit' = Judge(fs, tot, May)
    /\ fs' = Counted(fs, tot)
    /\ pc' = "adjust"
    /\ UNCHANGED <<req, d, tot, descr, mayPad, savedDir, waste, boot, seen>>

PadLayout ==
    /\ pc = "judge" /\ MustPad
    /\ waste' = Waste(fs, tot)
    /\ IF waste' > 65535 THEN pc' = "abort" /\ fs' = fs
       ELSE pc' = "judge" /\ fs' = Padded(fs, tot, May)
    /\ UNCHANGED <<req, d, tot, descr, mayPad, savedDir, fit, boot, seen>>

-----------------------------------------------------------------------------
(* What try_cluster_size said decides the next guess                        *)

CanHalve == {"cluster_size", "fat_len"} \subseteq May /\ fs.cluster_size > 1
\* A FAT32 that was asked for stays one, however few its clusters.
TooFewAccepted == req.fat32 \/ ("fat_bits" \notin May /\ fs.fat_bits = 32)
\* Mutant: may_pad is not looked at.
CanRaise_padded ==
    /\ "fat_bits" \in May
    /\ \/ fs.fat_bits = 12 /\ ("cluster_size" \notin May \/ fs.cluster_size >= 8)
       \/ fs.fat_bits = 16 /\ ("cluster_size" \notin May \/ fs.cluster_size >= 64)
CanRaise ==
    /\ "fat_bits" \in May /\ ~mayPad
    /\ \/ fs.fat_bits = 12 /\ ("cluster_size" \notin May \/ fs.cluster_size >= 8)
       \/ fs.fat_bits = 16 /\ ("cluster_size" \notin May \/ fs.cluster_size >= 64)
CanDouble == "cluster_size" \in May /\ fs.cluster_size < 128
CanGoBack == {"fat_bits", "root_size"} \subseteq May /\ fs.fat_bits = 16

Accepts == fit = 0 \/ (fit = -1 /\ ~CanHalve /\ TooFewAccepted)

\* fat32_specific_init
WantedBackup(f) ==
    IF f.backupBoot # 0 THEN f.backupBoot
    ELSE IF f.fat_start <= 6 THEN f.fat_start - 1 ELSE 6
\* Mutant: the copy may be where the FAT starts.
BackupBoot_onFat(f) == IF f.fat_start < WantedBackup(f) THEN 0 ELSE WantedBackup(f)
BackupBoot(f) == IF f.fat_start <= WantedBackup(f) THEN 0 ELSE WantedBackup(f)

Accept ==
    /\ pc = "adjust" /\ Accepts
    /\ fs' = IF fs.fat_bits = 32 THEN [fs EXCEPT !.backupBoot = BackupBoot(fs)] ELSE fs
    /\ pc' = IF ~ParamsAsserted(fs) THEN "abort"
             ELSE IF fs.fat_bits = 32 /\ fs.fat_start < 3 THEN "failed" ELSE "boot"
    /\ UNCHANGED <<req, d, tot, descr, mayPad, savedDir, fit, waste, boot, seen>>

Guess(f) ==
    /\ fs' = f /\ pc' = "search"
    /\ UNCHANGED <<req, d, tot, descr, savedDir, fit, waste, boot, seen>>

HalveCluster ==
    /\ pc = "adjust" /\ fit = -1 /\ CanHalve
    /\ Guess([fs EXCEPT !.cluster_size = @ \div 2])
    /\ UNCHANGED mayPad

\* Too few clusters for these bits although there were too many for fewer.
LowerBits ==
    /\ pc = "adjust" /\ fit = -1 /\ ~CanHalve /\ ~TooFewAccepted
    /\ "fat_bits" \in May /\ fs.fat_bits # 12
    /\ Guess([fs EXCEPT !.fat_bits = IF @ = 16 THEN 12 ELSE 16])
    /\ mayPad' = TRUE

RaiseBits ==
    /\ pc = "adjust" /\ fit = 1 /\ CanRaise
    /\ Guess([fs EXCEPT
                !.fat_bits = IF @ = 12 THEN 16 ELSE 32,
                !.cluster_size = IF "cluster_size" \notin May THEN @
                                 ELSE IF fs.fat_bits = 16 /\ "fat_len" \in May THEN 8 ELSE 1])
    /\ UNCHANGED mayPad

DoubleCluster ==
    /\ pc = "adjust" /\ fit > 0 /\ ~(fit = 1 /\ CanRaise) /\ CanDouble
    /\ Guess([fs EXCEPT !.cluster_size = @ * 2])
    /\ UNCHANGED mayPad

BackTo12 ==
    /\ pc = "adjust" /\ fit = 2 /\ ~CanDouble /\ CanGoBack
    /\ Guess([fs EXCEPT !.fat_bits = 12])
    /\ mayPad' = TRUE

GiveUp ==
    /\ pc = "adjust"
    /\ \/ fit = -2
       \/ fit = -1 /\ ~CanHalve /\ ~TooFewAccepted /\ ("fat_bits" \notin May \/ fs.fat_bits = 12)
       \/ fit = 1 /\ ~CanRaise /\ ~CanDouble
       \/ fit = 2 /\ ~CanDouble /\ ~CanGoBack
    /\ pc' = "failed"
    /\ UNCHANGED <<req, d, tot, searchVars, boot, seen>>

-----------------------------------------------------------------------------
(* The boot sector, written and read                                        *)

Short == tot <= 65535 /\ dev.hidden <= 65535

BootOf(f) ==
    [secsiz |-> SectorSize, clsiz |-> f.cluster_size % 256,
     nrsvsect |-> f.fat_start, nfat |-> f.num_fat,
     dirents |-> IF f.fat_bits = 32 THEN 0 ELSE Word(f.dir_len * (SectorSize \div 32)),
     psect |-> IF Short THEN tot ELSE 0, bigsect |-> IF Short THEN 0 ELSE tot,
     fatlen |-> IF f.fat_bits = 32 THEN 0 ELSE Word(f.fat_len),
     bigFat |-> IF f.fat_bits = 32 THEN f.fat_len ELSE 0,
     backupBoot |-> IF f.fat_bits = 32 THEN f.backupBoot ELSE 0,
     descr |-> descr]

WriteBoot ==
    /\ pc = "boot"
    /\ boot' = BootOf(fs)
    /\ pc' = "read"
    /\ UNCHANGED <<req, d, tot, searchVars, seen>>

\* parseFsParams, for a boot sector that describes its disk.
SectorsOf(b) == IF b.psect # 0 THEN b.psect ELSE b.bigsect
Parsed(b) ==
    LET f == [fat_bits |-> 0, cluster_size |-> b.clsiz,
              dir_len |-> (b.dirents * 32) \div b.secsiz,
              fat_len |-> IF b.fatlen # 0 THEN b.fatlen ELSE b.bigFat,
              fat_start |-> b.nrsvsect, num_fat |-> b.nfat, num_clus |-> 0,
              backupBoot |-> IF b.fatlen # 0 THEN 0 ELSE b.backupBoot]
        g == Counted(f, SectorsOf(b))
    IN  IF SectorsOf(b) <= ClusStart(f) THEN Refused
        ELSE [g EXCEPT !.fat_bits = BitsOf(g, b.fatlen = 0)]

\* check_fat: the FAT must be long enough, and its clusters not too many.
\* Mutant: its last entry is one further.
FatRefused_three(f) ==
    f.fat_len < NeededFatSize([f EXCEPT !.num_clus = @ + 1]) \/ f.num_clus + 1 >= LastFat(f.fat_bits)
FatRefused(f) == f.fat_len < NeededFatSize(f) \/ f.num_clus + 1 >= LastFat(f.fat_bits)

ReadBoot ==
    /\ pc = "read"
    /\ LET f == Parsed(boot)
       IN  seen' = IF f = Refused \/ (f # Refused /\ FatRefused(f)) THEN Refused ELSE f
    /\ pc' = "done"
    /\ UNCHANGED <<req, d, tot, searchVars, boot>>

Search ==
    \/ SizeFat \/ JudgeLayout \/ PadLayout
    \/ Accept \/ HalveCluster \/ LowerBits \/ RaiseBits \/ DoubleCluster
    \/ BackTo12 \/ GiveUp
Next ==
    \/ OpenFails \/ TestReadFails \/ OpenWorks
    \/ StartKnown \/ StartSearch \/ StartRefused
    \/ Search
    \/ WriteBoot \/ ReadBoot

Spec == Init /\ [][Next]_vars
FairSpec == Spec /\ WF_vars(Next)

-----------------------------------------------------------------------------
(* Properties                                                               *)

Laid == pc \in {"boot", "read", "done"}

EveryClusterInFat == (fs.num_clus + 2) * (fs.fat_bits \div 4) <= fs.fat_len * SectorSize * 2
ReservedEnough ==
    /\ fs.fat_start >= 1
    /\ fs.fat_bits = 32 => fs.fat_start > 1 /\ fs.backupBoot \in {0} \cup 2..fs.fat_start-1

\* The next command reads the disk as the one mformat wrote: same sizes, same
\* FAT bits, same clusters, and its checks of the FAT let it pass (init.c:
\* parseFsParams; fat.c: check_fat; mformat.c: mformat).  On a FAT12 or
\* FAT16 a FAT of more than 65535 sectors (-L) does not fit its field, nor does a
\* root directory of more than 65535 entries (-r).
FitsFields ==
    fs.fat_bits = 32 \/ (fs.fat_len <= 65535 /\ fs.dir_len * (SectorSize \div 32) <= 65535)
Same(f) == [f EXCEPT !.backupBoot = IF f.fat_bits = 32 THEN @ ELSE 0]
ReadBackSame == pc = "done" /\ FitsFields => seen = Same(fs)

\* No assertion of the search can fail as long as it is free to choose the
\* length of the FAT and each description has its own size (mformat.c:
\* check_fs_params_and_set_fat, try_cluster_size).  With -L given, FAT32 is
\* accepted without a look at its length; the layouts of known floppies are not
\* looked at before calc_num_clus asserts that they leave room, which with -T or
\* many FATs (-d) they may not.
OwnSize == tot = IF req.total # 0 THEN req.total ELSE ChsSectors(dev)
KnownSize ==
    \A p \in KnownFloppies : req.total = 0 /\ tot > 1 + p.fat_len * req.num_fat + p.dir_len
AssertsHold == pc = "abort" => "fat_len" \notin May \/ ~OwnSize \/ ~KnownSize

\* The layout chosen is one a filesystem can live in: every cluster has an
\* entry in the FAT, the clusters end where the disk does but for less than a
\* cluster, and the sectors in front of the FAT hold the boot sector, and on
\* FAT32 the info sector (1) and the copy of the boot sector beside it
\* (mformat.c: try_cluster_size, calc_fs_parameters, fat32_specific_init).  No
\* assertion ends the process before.
LayoutSound == AssertsHold /\ (Laid => EveryClusterInFat /\ FilledUp(fs) /\ ReservedEnough)

\* The search ends: the guesses never come round (mformat.c: may_pad is
\* what keeps calc_fs_parameters from changing the bits up and down for ever).
SearchEnds == <>(pc \in {"done", "failed", "abort"})

\* Padding makes the clusters few enough, as the comment on it promises
\* (mformat.c, before bwaste).
PaddingSuffices ==
    pc = "adjust" /\ "fat_len" \in May /\ waste \in 1..65535 => fit # 1

\* Every description of a drive letter is tried on its own: the disk is laid
\* out with the size of the description that fits, or the one of -T.
SizeFromDescription == pc = "start" => OwnSize
=============================================================================
