------------------------------ MODULE FatAlloc ------------------------------
(***************************************************************************)
(* Clusters, chains and space accounting: fat.c above the encoding, the     *)
(* File_t streams of file.c that extend chains, fat_free.c, reservations    *)
(* (init.c), and the way mcopy and mdel use them.  One command after the    *)
(* other runs on the disk; what it changed in the FAT reaches the disk with *)
(* fat_write (whose inside is FatCache).                                    *)
(***************************************************************************)
EXTENDS Integers, FiniteSets, Functions

CONSTANTS
    NumClus,    \* num_clus: data clusters, numbered from 2
    ClusSize,   \* bytes per cluster
    FatKinds,   \* the kinds of FAT considered: 12, 16 or 32 bits
    Batch,      \* batchmode
    Files,      \* the files the commands work on
    NoFile,     \* none of them
    MaxSize,    \* bound: no file grows beyond this many bytes
    Events      \* what else may happen: "reserve", "delete",
                \* "abort", "crash", "fail" (a write below)

Clusters == 2..NumClus+1
FatRange == 0..NumClus+1
EndFat   == NumClus + 2     \* any entry from last_fat upwards
Unknown  == -1              \* MAX32 in freeSpace and last
NoPos    == 65535           \* PreviousRelCluNr of a stream just opened

ASSUME FatAllocAssumption ==
    /\ NumClus \in Nat \ {0} /\ ClusSize \in Nat \ {0} /\ MaxSize \in Nat
    /\ NumClus + 2 < NoPos
    /\ FatKinds \subseteq {12, 16, 32} /\ Batch \in BOOLEAN
    /\ Events \subseteq {"reserve", "delete", "abort", "crash", "fail"}
    /\ IsFiniteSet(Files) /\ NoFile \notin Files

VARIABLES
    fatBits,    \* Fs_t.fat_bits
    \* the Fs_t of the running command
    fat,        \* the FAT in memory, entries 0 and 1 included
    fatDirty,   \* fat_dirty
    fatError,   \* fat_error # 0
    freeSpace,  \* freeSpace
    last,       \* last
    preFs,      \* Fs_t.preallocatedClusters
    gotSignal,  \* got_signal
    \* the disk
    storedFat,  \* the FAT on disk
    storedFree, \* the count of the FAT32 info sector
    storedLast, \* its position
    present,    \* the files that have a directory entry
    start,      \* start cluster in the directory entry
    fsize,      \* size in the directory entry
    content,    \* which <<file, index>> a cluster was last written for
    \* the File_t streams
    open,       \* files with an open stream
    first,      \* FirstAbsCluNr
    prevRel,    \* PreviousRelCluNr
    prevAbs,    \* PreviousAbsCluNr
    size,       \* FileSize; for a closed file, what its last stream had written
    preSize,    \* preallocatedSize
    pre,        \* File_t.preallocatedClusters
    \* the call in progress
    pc,         \* "idle", "map", "write", "full" (ENOSPC), "failed" (EIO),
                \* "delete", "abort", "info", "stopped" (exit), "refused" (check_fat)
    cf,         \* its file
    where, len, \* the bytes to write
    cur, abs    \* CurCluNr and AbsCluNr of normal_map; fat of fat_free

fsVars     == <<fat, fatDirty, freeSpace, last>>
diskVars   == <<fatBits, storedFat, storedFree, storedLast>>
entryVars  == <<present, start, fsize>>
posVars    == <<prevRel, prevAbs>>
streamVars == <<open, first, posVars, size, preSize, pre>>
callVars   == <<cf, where, len, cur, abs>>
CallOver   == cf' = NoFile /\ where' = 0 /\ len' = 0 /\ cur' = 0 /\ abs' = 0
vars == <<fsVars, fatError, preFs, gotSignal, diskVars, entryVars, content,
          streamVars, pc, callVars>>

-----------------------------------------------------------------------------
(* fat.c                                                                    *)

Free == {c \in Clusters : fat[c] = 0}
LeastOf(S) == CHOOSE c \in S : \A d \in S : c <= d

\* Where get_next_free_cluster starts: after the cluster it found last time,
\* or after the hint.
SearchFrom(hint) ==
    LET l == IF last # Unknown THEN last ELSE hint
    IN  IF l < 2 \/ l >= NumClus + 1 THEN 1 ELSE l

\* get_next_free_cluster: the first free cluster after that one, cyclically;
\* 1 if there is none.
NextFree_beyond(hint) ==
    LET above == {c \in Free \cup {NumClus + 2} : c > SearchFrom(hint)}
    IN  LeastOf(above)
NextFree(hint) ==
    LET above == {c \in Free : c > SearchFrom(hint)}
    IN  IF above # {} THEN LeastOf(above)
        ELSE IF Free # {} THEN LeastOf(Free) ELSE 1

Less == IF freeSpace = Unknown THEN Unknown ELSE freeSpace - 1
More_none == freeSpace
More == IF freeSpace = Unknown THEN Unknown ELSE freeSpace + 1

\* fatAllocate(new, end_fat) and fatAppend(pos, new), after
\* get_next_free_cluster has recorded new in last.
Allocated(new) == [fat EXCEPT ![new] = EndFat]
Appended_noEnd(pos, new) == [fat EXCEPT ![pos] = new]
Appended(pos, new) == [fat EXCEPT ![pos] = new, ![new] = EndFat]

\* fatDecode of an entry.  FAT12 refuses the entries below 2, returning 1.
Decode_unchecked(c) == fat[c]
Decode(c) == IF fatBits = 12 /\ c < 2 THEN 1 ELSE fat[c]

\* getfreeMinClusters, when it is not the reason that freeSpace becomes known.
FreeCounted == IF Batch /\ freeSpace = Unknown THEN Cardinality(Free) ELSE freeSpace
EnoughFree(n) ==
    IF FreeCounted # Unknown THEN FreeCounted >= n ELSE Cardinality(Free) >= n

\* check_fat rejects a FAT in which one of the entries from 3 to num_clus-1
\* points beyond num_clus.
CheckFat(f) == \A c \in 3..NumClus-1 : f[c] = EndFat \/ f[c] \in {0} \cup 2..NumClus

-----------------------------------------------------------------------------
(* Reservations: recalcPreallocSize, fsPreallocateClusters                  *)

ToClusters(n) == (n + ClusSize - 1) \div ClusSize

\* The clusters that stream f needs beyond those it has, when its size is n
\* and it expects to grow to m.
NeededPrealloc(n, m) ==
    IF ToClusters(m) < ToClusters(n) THEN 0 ELSE ToClusters(m) - ToClusters(n)

\* recalcPreallocSize: more clusters are granted, refused (the stream keeps
\* what it has), or given back.
Recalc(f, n, m) ==
    LET more == NeededPrealloc(n, m) - pre[f]
    IN  IF more > 0
        THEN /\ freeSpace' = FreeCounted
             /\ IF EnoughFree(more)
                THEN /\ preFs' = preFs + more
                     /\ pre' = [pre EXCEPT ![f] = @ + more]
                     /\ UNCHANGED gotSignal
                ELSE gotSignal' = TRUE /\ UNCHANGED <<preFs, pre>>
        ELSE /\ preFs' = preFs + more
             /\ pre' = [pre EXCEPT ![f] = @ + more]
             /\ UNCHANGED <<freeSpace, gotSignal>>

\* pre_allocate_file
PreAllocate(f, n) ==
    /\ "reserve" \in Events
    /\ pc = "idle" /\ f \in open
    /\ n > size[f] /\ n > preSize[f]
    /\ preSize' = [preSize EXCEPT ![f] = n]
    /\ Recalc(f, size[f], n)
    /\ UNCHANGED <<fat, fatDirty, last, fatError, diskVars, entryVars, content,
                   open, first, posVars, size, pc, callVars>>

-----------------------------------------------------------------------------
(* Opening streams                                                          *)

OpenStream(f, cluster, n) ==
    /\ open' = open \cup {f}
    /\ first' = [first EXCEPT ![f] = cluster]
    /\ size' = [size EXCEPT ![f] = n]
    /\ prevRel' = [prevRel EXCEPT ![f] = NoPos]
    /\ prevAbs' = [prevAbs EXCEPT ![f] = 0]
    /\ preSize' = [preSize EXCEPT ![f] = 0]
    /\ pre' = [pre EXCEPT ![f] = 0]

\* writeit: will a file of n bytes fit?  Then open a new one.  (A source of
\* unknown size announces n = 0.)
Create(f, n) ==
    /\ pc = "idle" /\ f \notin open \cup present /\ ~gotSignal /\ ~fatError
    /\ freeSpace' = FreeCounted
    /\ IF EnoughFree(ToClusters(n))
       THEN OpenStream(f, 0, 0) /\ UNCHANGED gotSignal
       ELSE gotSignal' = TRUE /\ UNCHANGED streamVars
    /\ UNCHANGED <<fat, fatDirty, last, fatError, preFs, diskVars, entryVars,
                   content, pc, callVars>>

\* OpenFileByDirentry on an existing file that will grow: a directory, never a
\* file cut short by CloseShort.
Open(f) ==
    /\ pc = "idle" /\ f \in present \ open
    /\ fsize[f] = size[f]
    /\ OpenStream(f, start[f], fsize[f])
    /\ UNCHANGED <<fsVars, fatError, preFs, gotSignal, diskVars, entryVars,
                   content, pc, callVars>>

-----------------------------------------------------------------------------
(* write_file and normal_map                                                *)

Rel(w) == w \div ClusSize
Offset(w) == w % ClusSize
Target(w, n) == Rel(w) + ((Offset(w) + n - 1) \div ClusSize)

\* normal_map resumes from the remembered position unless it must go back.
Resumes(f, w) == Rel(w) >= prevRel[f]

\* Entering normal_map to write n bytes at w.  An empty file gets its first
\* cluster; without one the call fails with ENOSPC.
BeginWrite(f, w, n) ==
    /\ pc = "idle" /\ f \in open
    /\ w <= size[f] /\ w + n <= MaxSize
    /\ cf' = f /\ where' = w /\ len' = n
    /\ IF first[f] # 0
       THEN /\ cur' = IF Resumes(f, w) THEN prevRel[f] ELSE 0
            /\ abs' = IF Resumes(f, w) THEN prevAbs[f] ELSE first[f]
            /\ pc' = "map"
            /\ UNCHANGED <<fsVars, first>>
       ELSE LET new == NextFree(1) IN
            IF new = 1
            THEN pc' = "full" /\ UNCHANGED <<fsVars, first, cur, abs>>
            ELSE /\ last' = new
                 /\ fat' = Allocated(new) /\ fatDirty' = TRUE
                 /\ freeSpace' = Less
                 /\ first' = [first EXCEPT ![f] = new]
                 /\ cur' = 0 /\ abs' = new
                 /\ pc' = "map"
    /\ UNCHANGED <<fatError, preFs, gotSignal, diskVars, entryVars, content,
                   open, posVars, size, preSize, pre>>

AtStart == cur = Rel(where)
AtTarget == cur = Target(where, len)

\* "we have reached the beginning of our zone.  Save coordinates"
Remember_last ==
    IF AtTarget
    THEN /\ prevRel' = [prevRel EXCEPT ![cf] = Rel(where)]
         /\ prevAbs' = [prevAbs EXCEPT ![cf] = abs]
    ELSE UNCHANGED posVars
Remember ==
    IF AtStart
    THEN /\ prevRel' = [prevRel EXCEPT ![cf] = cur]
         /\ prevAbs' = [prevAbs EXCEPT ![cf] = abs]
    ELSE UNCHANGED posVars

\* The zone ends before a cluster that does not follow its predecessor.
Breaks(new) == cur >= Rel(where) /\ new # abs + 1

\* One iteration of the loop of normal_map.  "if at end, and writing, extend
\* it"; an entry that is free or in error ends the process; without a free
\* cluster the call fails with ENOSPC.
MapStep ==
    LET old  == Decode(abs)
        grow == ~AtTarget /\ old = EndFat
        new  == IF grow THEN NextFree(abs) ELSE old
    IN  /\ pc = "map"
        /\ Remember
        /\ IF grow /\ new # 1
           THEN /\ last' = new
                /\ fat' = Appended(abs, new) /\ fatDirty' = TRUE
                /\ freeSpace' = Less
           ELSE UNCHANGED fsVars
        /\ IF old \in {0, 1} THEN pc' = "stopped" /\ UNCHANGED <<cur, abs>>
           ELSE IF grow /\ new = 1 THEN pc' = "full" /\ UNCHANGED <<cur, abs>>
           ELSE IF AtTarget \/ Breaks(new) THEN pc' = "write" /\ UNCHANGED <<cur, abs>>
           ELSE cur' = cur + 1 /\ abs' = new /\ UNCHANGED pc
        /\ UNCHANGED <<fatError, preFs, gotSignal, diskVars, entryVars, content,
                       open, first, size, preSize, pre, cf, where, len>>

\* What the zone from where to the end of cluster cur holds.
ZoneBytes_whole == (1 + cur - Rel(where)) * ClusSize
ZoneBytes == (1 + cur - Rel(where)) * ClusSize - Offset(where)
Grown_always(k) == size[cf] + k
Grown(k) == IF where + k > size[cf] THEN where + k ELSE size[cf]

\* k bytes of the zone are written (the layer below may take fewer than it is
\* given); FileSize and the reservation follow.  PreviousAbsCluNr is the cluster
\* of the first byte.
WriteBack(k) ==
    LET base  == prevAbs[cf]
        count == Target(where, k) - Rel(where) + 1
    IN  /\ pc = "write" /\ k <= len /\ k <= ZoneBytes
        /\ content' = [c \in Clusters |-> IF base <= c /\ c < base + count
                                          THEN <<cf, Rel(where) + c - base>>
                                          ELSE content[c]]
        /\ size' = [size EXCEPT ![cf] = Grown(k)]
        /\ Recalc(cf, Grown(k), preSize[cf])
        /\ pc' = "idle" /\ CallOver
        /\ UNCHANGED <<fat, fatDirty, last, fatError, diskVars, entryVars, open,
                       first, posVars, preSize>>

\* The layer below takes nothing.  The clusters that were appended stay.
WriteError ==
    /\ "fail" \in Events
    /\ pc = "write" /\ pc' = "failed"
    /\ UNCHANGED <<fsVars, fatError, preFs, gotSignal, diskVars, entryVars,
                   content, streamVars, callVars>>

-----------------------------------------------------------------------------
(* Closing streams                                                          *)

CloseStream_keeps(f) ==
    /\ open' = open \ {f}
    /\ pre' = [pre EXCEPT ![f] = 0]
    /\ preSize' = [preSize EXCEPT ![f] = 0]
    /\ first' = [first EXCEPT ![f] = 0]
    /\ prevRel' = [prevRel EXCEPT ![f] = NoPos]
    /\ prevAbs' = [prevAbs EXCEPT ![f] = 0]
    /\ UNCHANGED <<size, preFs>>
CloseStream(f) ==
    /\ open' = open \ {f}
    /\ preFs' = preFs - pre[f]
    /\ pre' = [pre EXCEPT ![f] = 0]
    /\ preSize' = [preSize EXCEPT ![f] = 0]
    /\ first' = [first EXCEPT ![f] = 0]
    /\ prevRel' = [prevRel EXCEPT ![f] = NoPos]
    /\ prevAbs' = [prevAbs EXCEPT ![f] = 0]
    /\ UNCHANGED size

SetEntry(f, cluster, n) ==
    /\ present' = present \cup {f}
    /\ start' = [start EXCEPT ![f] = cluster]
    /\ fsize' = [fsize EXCEPT ![f] = n]

\* The end of writeit after a copy that went well, or of a directory that grew
\* (flush_file).
Close(f) ==
    /\ pc = "idle" /\ f \in open
    /\ CloseStream(f) /\ SetEntry(f, first[f], size[f])
    /\ UNCHANGED <<fsVars, fatError, gotSignal, diskVars, content, pc, callVars>>

\* The end of writeit after a write that ran out of space, or failed: copyfile
\* returns the length n of the chunk it was writing, and writeit takes it for
\* the size of the file.
CloseShort(f, n) ==
    /\ pc \in {"full", "failed"} /\ f = cf /\ f \notin present
    /\ len <= n /\ n <= size[f] + len
    /\ CloseStream(f) /\ SetEntry(f, first[f], n)
    /\ gotSignal' = (gotSignal \/ pc = "full") /\ pc' = "idle"
    /\ CallOver
    /\ UNCHANGED <<fsVars, fatError, diskVars, content>>

\* The buffer of a directory that cannot grow drops what it wanted to write.
DropWrite ==
    /\ pc \in {"full", "failed"} /\ cf \in present
    /\ pc' = "idle" /\ CallOver
    /\ UNCHANGED <<fsVars, fatError, preFs, gotSignal, diskVars, entryVars,
                   content, streamVars>>

\* The end of writeit after a read error or a signal: closing the target
\* writes its entry (flush_file), then fat_free removes the chain.
CloseFailed(f) ==
    /\ "abort" \in Events
    /\ pc = "idle" /\ f \in open \ present
    /\ CloseStream(f) /\ SetEntry(f, first[f], 0)
    /\ IF first[f] = 0 THEN UNCHANGED <<pc, callVars>>
       ELSE /\ pc' = "abort" /\ cf' = f /\ cur' = first[f]
            /\ UNCHANGED <<where, len, abs>>
    /\ UNCHANGED <<fsVars, fatError, gotSignal, diskVars, content>>
-----------------------------------------------------------------------------
(* fat_free                                                                 *)

RemoveEntry(f) ==
    /\ present' = present \ {f}
    /\ start' = [start EXCEPT ![f] = 0]
    /\ fsize' = [fsize EXCEPT ![f] = 0]
    /\ size' = [size EXCEPT ![f] = 0]

\* fat_free returns; a deletion then wipes the entry.
FreeReturns ==
    /\ pc' = "idle" /\ CallOver
    /\ IF pc = "delete" THEN RemoveEntry(cf) ELSE UNCHANGED <<entryVars, size>>

\* mdel, or mcopy over an existing file: the chain, then the entry.
Delete(f) ==
    /\ "delete" \in Events
    /\ pc = "idle" /\ f \in present \ open /\ ~gotSignal
    /\ IF start[f] = 0
       THEN RemoveEntry(f) /\ UNCHANGED <<pc, callVars>>
       ELSE /\ pc' = "delete" /\ cf' = f /\ cur' = start[f]
            /\ UNCHANGED <<entryVars, size, where, len, abs>>
    /\ UNCHANGED <<fsVars, fatError, preFs, gotSignal, diskVars, content, open,
                   first, posVars, preSize, pre>>

\* fatDecode, before fatDeallocate.
Successor == Decode(cur)

\* fat_free has cleared entry 0, and follows it to itself for ever: a second file
\* is deleted whose first cluster was free already.  FAT12 refuses that entry.
\* (A bound: the model stops there.)
Circling == pc \in {"delete", "abort"} /\ cur = 0 /\ fat[0] = 0 /\ fatBits # 12

\* One cluster: its successor is read, then it is marked free.
FreeStep ==
    LET next == Successor
    IN  /\ pc \in {"delete", "abort"} /\ ~fatError /\ ~Circling
        /\ fatError' = (next = 1)
        /\ fat' = [fat EXCEPT ![cur] = 0] /\ fatDirty' = TRUE
        /\ freeSpace' = More
        /\ IF next = EndFat
           THEN FreeReturns
           ELSE cur' = next /\ UNCHANGED <<pc, entryVars, size, cf, where, len, abs>>
        /\ content' = [c \in Clusters |-> IF c = cur THEN <<NoFile, 0>> ELSE content[c]]
        /\ UNCHANGED <<last, preFs, gotSignal, diskVars, open, first, posVars,
                       preSize, pre>>

\* A FAT error ends it early.
FreeStops ==
    /\ pc \in {"delete", "abort"} /\ fatError
    /\ FreeReturns
    /\ UNCHANGED <<fsVars, fatError, preFs, gotSignal, diskVars, content, open,
                   first, posVars, preSize, pre>>

-----------------------------------------------------------------------------
(* From one command to the next                                             *)

\* getfree, for mdir or in batch mode.
GetFree ==
    /\ pc = "idle" /\ freeSpace \in {Unknown, 0}
    /\ freeSpace' = Cardinality(Free)
    /\ UNCHANGED <<fat, fatDirty, last, fatError, preFs, gotSignal, diskVars,
                   entryVars, content, streamVars, pc, callVars>>

\* fat_write when the filesystem is closed (mmd also flushes in between, which
\* only a crash can tell): the FAT, then the info sector of a
\* FAT32.
FatWrite ==
    /\ pc = "idle" /\ fatDirty /\ (open = {} \/ "crash" \in Events)
    /\ storedFat' = fat
    /\ IF fatBits = 32 THEN pc' = "info" /\ UNCHANGED fatDirty
       ELSE fatDirty' = FALSE /\ UNCHANGED pc
    /\ UNCHANGED <<fat, freeSpace, last, fatError, preFs, gotSignal, fatBits,
                   storedFree, storedLast, entryVars, content, streamVars, callVars>>

InfoWrite ==
    /\ pc = "info"
    /\ storedFree' = freeSpace /\ storedLast' = last
    /\ fatDirty' = FALSE /\ pc' = "idle"
    /\ UNCHANGED <<fat, freeSpace, last, fatError, preFs, gotSignal, fatBits,
                   storedFat, entryVars, content, streamVars, callVars>>

NoStreams ==
    /\ open' = {}
    /\ first' = [f \in Files |-> 0]
    /\ size' = [f \in Files |-> IF f \notin present THEN 0
                               ELSE IF f \in open THEN fsize[f] ELSE size[f]]
    /\ prevRel' = [f \in Files |-> NoPos] /\ prevAbs' = [f \in Files |-> 0]
    /\ preSize' = [f \in Files |-> 0] /\ pre' = [f \in Files |-> 0]

\* fat_read, with the sanity check that may refuse the disk.
FatRead ==
    /\ fat' = storedFat /\ fatDirty' = FALSE /\ fatError' = FALSE
    /\ freeSpace' = IF fatBits = 32 THEN storedFree ELSE Unknown
    /\ last' = IF fatBits = 32 THEN storedLast ELSE Unknown
    /\ preFs' = 0 /\ gotSignal' = FALSE
    /\ NoStreams
    /\ pc' = IF CheckFat(storedFat) THEN "idle" ELSE "refused"
    /\ CallOver
    /\ UNCHANGED <<diskVars, entryVars, content>>

\* The next command, once the last one has closed and flushed everything.
NextCommand == pc = "idle" /\ open = {} /\ ~fatDirty /\ FatRead

\* The process dies (a signal, exit(1)), and another command is run.
Crash == "crash" \in Events /\ pc # "refused" /\ FatRead

-----------------------------------------------------------------------------

\* A disk without files.
Init ==
    /\ fatBits \in FatKinds
    /\ fat = [c \in FatRange |-> IF c < 2 THEN EndFat ELSE 0]
    /\ storedFat = fat /\ fatDirty = FALSE /\ fatError = FALSE
    /\ storedFree \in IF fatBits = 32 THEN {Unknown, NumClus} ELSE {Unknown}
    /\ storedLast = Unknown
    /\ freeSpace = storedFree /\ last = Unknown /\ preFs = 0 /\ gotSignal = FALSE
    /\ present = {} /\ start = [f \in Files |-> 0] /\ fsize = [f \in Files |-> 0]
    /\ content = [c \in Clusters |-> <<NoFile, 0>>]
    /\ open = {} /\ first = [f \in Files |-> 0] /\ size = [f \in Files |-> 0]
    /\ prevRel = [f \in Files |-> NoPos] /\ prevAbs = [f \in Files |-> 0]
    /\ preSize = [f \in Files |-> 0] /\ pre = [f \in Files |-> 0]
    /\ pc = "idle" /\ cf = NoFile
    /\ where = 0 /\ len = 0 /\ cur = 0 /\ abs = 0

\* The steps of a call that has begun.
CallStep ==
    \/ MapStep
    \/ \E k \in 1..MaxSize : WriteBack(k)
    \/ WriteError
    \/ FreeStep
    \/ FreeStops
    \/ InfoWrite

Next ==
    \/ \E f \in Files, n \in 0..MaxSize : Create(f, n)
    \/ \E f \in Files : Open(f)
    \/ \E f \in Files, n \in 1..MaxSize : PreAllocate(f, n)
    \/ \E f \in Files, w \in 0..MaxSize, n \in 1..MaxSize : BeginWrite(f, w, n)
    \/ CallStep
    \/ \E f \in Files : Close(f)
    \/ \E f \in Files, n \in 1..MaxSize : CloseShort(f, n)
    \/ DropWrite
    \/ \E f \in Files : CloseFailed(f)
    \/ \E f \in Files : Delete(f)
    \/ GetFree
    \/ FatWrite
    \/ NextCommand
    \/ Crash

Spec == Init /\ [][Next]_vars
FairSpec == Spec /\ WF_vars(CallStep)

-----------------------------------------------------------------------------
(* Properties                                                               *)

TypeOK ==
    /\ fatBits \in {12, 16, 32}
    /\ fat \in [FatRange -> FatRange \cup {EndFat}]
    /\ storedFat \in [FatRange -> FatRange \cup {EndFat}]
    /\ fatDirty \in BOOLEAN /\ fatError \in BOOLEAN /\ gotSignal \in BOOLEAN
    /\ freeSpace \in Int /\ storedFree \in Int /\ preFs \in Int
    /\ {last, storedLast} \subseteq Clusters \cup {Unknown}
    /\ present \subseteq Files /\ open \subseteq Files
    /\ start \in [Files -> FatRange] /\ first \in [Files -> FatRange]
    /\ fsize \in [Files -> Nat] /\ size \in [Files -> Nat]
    /\ content \in [Clusters -> (Files \cup {NoFile}) \X Nat]
    /\ prevRel \in [Files -> Nat] /\ prevAbs \in [Files -> FatRange]
    /\ preSize \in [Files -> Nat] /\ pre \in [Files -> Nat]
    /\ pc \in {"idle", "map", "write", "full", "failed", "delete", "abort",
               "info", "stopped", "refused"}
    /\ cf \in Files \cup {NoFile}
    /\ where \in Nat /\ len \in Nat /\ cur \in Nat /\ abs \in FatRange

\* The first cluster of the chain that belongs to f, as long as it has one.
Head(f) ==
    IF pc = "delete" /\ f = cf THEN cur
    ELSE IF f \in open THEN first[f]
    ELSE IF f \in present THEN start[f]
    ELSE 0

\* Every cluster has one owner: links lead to clusters in use, no two of them
\* to the same, no file starts inside another's chain or at a free cluster.
ChainsDisjoint ==
    /\ \A c \in Clusters : fat[c] \in Clusters => fat[fat[c]] # 0
    /\ \A c, d \in Clusters : fat[c] = fat[d] /\ fat[c] \in Clusters => c = d
    /\ \A f \in Files : Head(f) # 0 =>
          /\ Head(f) \in Clusters /\ fat[Head(f)] # 0
          /\ \A c \in Clusters : fat[c] # Head(f)
          /\ \A g \in Files : Head(g) = Head(f) => g = f

\* The running count of free clusters, once known, is the number of free
\* entries of the FAT, at every step of every call.
FreeSpaceExact == freeSpace # Unknown => freeSpace = Cardinality(Free)

\* What the filesystem has promised is what its streams have asked for.
ReservationsCounted == preFs = SumFunction(pre)

\* The cluster n links after c; 0 beyond the end of the chain.
Nth(c, n) ==
    LET nth[i \in 0..NumClus] ==
            IF i = 0 THEN c
            ELSE IF nth[i-1] \in Clusters THEN fat[nth[i-1]] ELSE 0
    IN  nth[n]
ChainLength(c) == Cardinality({i \in 0..NumClus : Nth(c, i) \in Clusters})

\* The position a stream remembers is in its chain, where it says.
PositionRight ==
    \A f \in open : prevRel[f] # NoPos => prevAbs[f] = Nth(first[f], prevRel[f])

\* A file keeps what was written to it, whatever the other files do: cluster i
\* of its chain was last written for it, at its index i.
Holds(f, head, n) ==
    \A i \in 0..NumClus :
        i < ToClusters(n) /\ Nth(head, i) \in Clusters => content[Nth(head, i)] = <<f, i>>
ContentIntact ==
    \A f \in Files :
        IF f \in open THEN Holds(f, first[f], size[f])
        ELSE f \in present /\ ~(pc = "delete" /\ f = cf) => Holds(f, start[f], size[f])

\* A stream has the clusters for the bytes it counts.
SizeCovered ==
    \A f \in open : size[f] <= ClusSize * ChainLength(first[f])

\* What an open stream knows of its file is true of the chain on the disk.
StreamsRight == TypeOK /\ PositionRight /\ SizeCovered

\* Every call ends: no chain leads normal_map or fat_free in a circle, but for
\* the one of cluster 0.
Calling == pc \in {"map", "write", "delete", "abort", "info"}
CallEnds == Calling ~> ~Calling \/ Circling

\* "-1 if not enough clusters could be found": reservations that were granted
\* can be used.
ReservationHonoured == preFs <= Cardinality(Free)

\* The size in a directory entry counts only bytes that were written.
EntrySizeRight == \A f \in present \ open : fsize[f] <= size[f]

\* A copy that failed leaves no entry behind that refers to free clusters.
NoDanglingEntry ==
    \A f \in present : pc = "idle" /\ start[f] # 0 => fat[start[f]] # 0

\* Deleting files never touches the reserved first entry of the FAT.
ReservedEntryIntact == fat[0] # 0

\* A FAT that the commands have written passes their own sanity check.
NeverRefused == pc # "refused"
=============================================================================
