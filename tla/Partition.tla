------------------------------ MODULE Partition ------------------------------
(***************************************************************************)
(* The BIOS partition table: the four primary entries of the first sector, *)
(* the mpartition command that edits them, and the partition stream        *)
(* through which a file system inside one of them is read and written,     *)
(* down to the image under the layers of its drive.                        *)
(*                                                                         *)
(* Sector numbers are the 32-bit fields of the table and wrap at Wrap; the *)
(* cylinder, head and sector of an entry's two ends are kept as the table  *)
(* keeps them, in 10, 8 and 6 bits.  A command reads the sector, edits its *)
(* copy and either gives up or writes the copy back in one sector write:   *)
(* it is one step.                                                         *)
(***************************************************************************)
EXTENDS Integers, FiniteSets, Sequences, Layers

CONSTANTS
    Wrap,        \* 2^32
    Drives,      \* images with their layers, as [raw, map, offset]
    Tables,      \* tables a disk may come with, as [table, signed]
    Commands,    \* commands a user may give, see Options
    Limits,      \* largest sector number the platform addresses
    Spans,       \* [start, len, op] of the transfers tried; op: "read", "data" or "zeros"
    MaxCommands  \* bound on the number of commands

Numbers == 1..4
None == -1

\* The fields of an entry are unsigned: two of 32 bits, an end in 10, 8 and 6.
Ends    == [cyl : 0..1023, head : 0..255, sector : 0..63]
Entries == [type : 0..255, active : BOOLEAN, begin : 0..Wrap-1, nr : 0..Wrap-1,
            start : Ends, end : Ends]
ASSUME WrapAssumption == Wrap \in Nat /\ Wrap > 65536
ASSUME TablesAssumption ==
    \A f \in Tables : f.table \in [Numbers -> Entries] /\ f.signed \in BOOLEAN
ASSUME DrivesAssumption ==
    \A d \in Drives : /\ d.raw \in Nat /\ d.offset \in Nat /\ d.map \in Seq(Items)
                      /\ Seen(d) \in Unmapped..Wrap-1

VARIABLES
    drive,   \* the image and the layers over it
    disk,    \* size of the disk seen above them, 0 when it cannot be told
    table,   \* the four entries
    signed,  \* 0xaa55 at the end of the sector
    geom,    \* the geometry each entry was created with; own: not the user's
    last,    \* what the last command that wrote the table was asked for
    stream,  \* an open partition stream
    touched, \* the sectors its last transfer reached, on the disk and in the image
    commands
vars == <<drive, disk, table, signed, geom, last, stream, touched, commands>>

NoChs == [cyl |-> 0, head |-> 0, sector |-> 0]
Empty == [type |-> 0, active |-> FALSE, begin |-> 0, nr |-> 0,
          start |-> NoChs, end |-> NoChs]

End(p) == (p.begin + p.nr) % Wrap
Present(t) == {i \in Numbers : t[i].type # 0}
Actives(t) == {i \in Present(t) : t[i].active}

-----------------------------------------------------------------------------
(* Checks on a table. *)

Overlaps(p, begin, end) ==
    /\ p.type # 0
    /\ end > p.begin
    /\ begin < End(p) \/ End(p) < p.begin

\* Mutant: the last entry is left out.
FindOverlap_short(t, until, begin, end) ==
    {i \in 1..(until - 1) : Overlaps(t[i], begin, end)}
FindOverlap(t, until, begin, end) ==
    {i \in 1..until : Overlaps(t[i], begin, end)}

Inconsistent(t) ==
    \E i \in Present(t) : FindOverlap(t, i - 1, t[i].begin, End(t[i])) # {}

-----------------------------------------------------------------------------
(* Geometry. *)

\* What the program makes up when the description leaves something open.  The
\* sizes with a whole number of 40-track sides are taken for floppies.
Floppy(d, tot) ==
    LET Shape(tracks, heads) ==
            [tracks |-> tracks, heads |-> heads,
             sectors |-> tot \div (heads * tracks)]
    IN  CASE tot <= 540 -> Shape(40, 1)
          [] tot > 540 /\ tot <= 1080 ->
                IF d.heads = 1 THEN Shape(80, 1) ELSE Shape(40, 2)
          [] OTHER -> Shape(80, 2)

HeadsFor(tot) ==
    CASE tot < 16 * 63 * 1024 -> 16
      [] tot >= 16 * 63 * 1024 /\ tot < 32 * 63 * 1024 -> 32
      [] tot >= 32 * 63 * 1024 /\ tot < 64 * 63 * 1024 -> 64
      [] tot >= 64 * 63 * 1024 /\ tot < 128 * 63 * 1024 -> 128
      [] OTHER -> 255

LbaGeometry(d, tot) ==
    LET f == IF tot <= 8640 /\ tot % 40 = 0 THEN Floppy(d, tot) ELSE d
        g == IF f.sectors = 0 \/ f.heads = 0
             THEN [f EXCEPT !.sectors = 63, !.heads = HeadsFor(tot)]
             ELSE f
        cylinder == g.heads * g.sectors
    IN  IF (d.heads # 0 /\ d.sectors # 0 /\ d.tracks # 0) \/ tot = 0
        THEN d
        ELSE IF g.tracks = 0
             THEN [g EXCEPT !.tracks = (tot + cylinder - 1) \div cylinder]
             ELSE g

\* The geometry the image is opened with, and the one a command works with.
Opened(o, tot) ==
    LET Given(a, b) == IF a # 0 THEN a ELSE b
    IN  LbaGeometry([tracks  |-> Given(o.geom.tracks, o.drive.tracks),
                     heads   |-> Given(o.geom.heads, o.drive.heads),
                     sectors |-> Given(o.geom.sectors, o.drive.sectors)], tot)

HalfGeometry(g) == (g.heads = 0) # (g.sectors = 0)

Geometry(o, tot) ==
    LET g == Opened(o, tot)
    IN  IF g.heads = 0 /\ g.sectors = 0
        THEN [g EXCEPT !.heads = 64, !.sectors = 32]
        ELSE g

\* Mutant: sectors are counted from 0.
SetOffset_zero(offset, g) ==
    LET cyl == offset \div (g.sectors * g.heads)
    IN  [cyl |-> IF cyl > 1023 THEN 1023 ELSE cyl,
         head |-> (offset \div g.sectors) % g.heads, sector |-> (offset % g.sectors) % 64]
SetOffset(offset, g) ==
    LET track == offset \div g.sectors
        cyl   == track \div g.heads
    IN  [cyl |-> IF cyl > 1023 THEN 1023 ELSE cyl,
         head |-> track % g.heads,
         sector |-> ((offset % g.sectors) + 1) % 64]

\* The sector a cylinder, head and sector stand for.
Address(c, g) == (c.cyl * g.heads + c.head) * g.sectors + c.sector - 1

TypeFor(begin, end, g, fatBits) ==
    LET bits == IF fatBits # 0 THEN fatBits
                ELSE IF end - begin < 4096 THEN 12 ELSE 16
    IN  CASE bits = 32 -> 12
          [] bits # 32 /\ end < 65536 ->
                CASE bits = 12 -> 1 [] bits = 16 -> 4 [] OTHER -> 0
          [] bits # 32 /\ end >= 65536 ->
                IF end < g.sectors * g.heads * 1024 THEN 6 ELSE 14

-----------------------------------------------------------------------------
(* One mpartition command: its options and the description of its drive.  act *)
(* is 1 for -a and -1 for -d.                                                 *)

Options ==
    [part   : Numbers,
     init   : BOOLEAN, remove : BOOLEAN, create : BOOLEAN, force : BOOLEAN,
     act    : {-1, 0, 1},
     type   : 0..255,                   \* 0: none asked for
     begin  : Nat \union {None},
     length : Nat \union {None},
     geom   : [tracks : Nat, heads : Nat, sectors : Nat],      \* 0: not given
     drive  : [tracks : Nat, heads : Nat, sectors : Nat, fatBits : {0, 12, 16, 32}]]
ASSUME CommandsAssumption == Commands \subseteq Options
ASSUME SpansAssumption ==
    Spans \subseteq [start : Nat, len : Nat, op : {"read", "data", "zeros"}]

Unset == [tracks |-> 0, heads |-> 0, sectors |-> 0]
Undescribed(d) == d.heads = 0 /\ d.sectors = 0
NoGeometry == [heads |-> 1, sectors |-> 1, own |-> FALSE]

Dirty(o) == o.init \/ o.remove \/ o.create \/ o.act # 0

Removed(t, o) == IF o.remove THEN [t EXCEPT ![o.part] = Empty] ELSE t
Extended(p) == p.type % 64 = 5

\* A new entry goes between its neighbours by number, when nothing else was
\* asked for; the first one leaves a track for the boot record.
BeginOf(t, o, g) ==
    LET before == {i \in Present(t) : i < o.part}
        after  == End(t[CHOOSE i \in before : \A j \in before : j <= i])
        placed == IF before = {} THEN 0 ELSE after
    IN  IF o.begin # None THEN o.begin
        ELSE IF placed # 0 THEN placed ELSE g.sectors

CylinderSize(g) == (g.heads * g.sectors) % 65536

\* Mutant: the end of the disk is rounded up to a cylinder.
EndOf_up(t, o, g, begin) ==
    LET behind == {i \in Present(t) : i > o.part}
    IN  CASE o.length # None -> (begin + o.length) % Wrap
          [] o.length = None /\ behind # {} ->
                t[CHOOSE i \in behind : \A j \in behind : i <= j].begin
          [] OTHER -> disk + CylinderSize(g) - (disk % CylinderSize(g))
EndOf(t, o, g, begin) ==
    LET behind == {i \in Present(t) : i > o.part}
    IN  CASE o.length # None -> (begin + o.length) % Wrap
          [] o.length = None /\ behind # {} ->
                t[CHOOSE i \in behind : \A j \in behind : i <= j].begin
          [] OTHER -> disk - (disk % CylinderSize(g))

SizeKnown(t, o) ==
    \/ o.length # None
    \/ disk # 0
    \/ \E i \in Present(t) : i > o.part

NewEntry(t, o, g) ==
    LET begin == BeginOf(t, o, g)
        end   == EndOf(t, o, g, begin)
    IN  [type   |-> IF o.type # 0 THEN o.type
                    ELSE TypeFor(begin, end, g, o.drive.fatBits),
         active |-> Actives(t) = {},
         begin  |-> begin,
         nr     |-> end - begin,
         start  |-> SetOffset(begin, g),
         end    |-> SetOffset(end - 1, g)]

CanCreate(t, o, g) ==
    LET begin == BeginOf(t, o, g)
        end   == EndOf(t, o, g, begin)
    IN  /\ CylinderSize(g) # 0      \* the program divides by it
        /\ SizeKnown(t, o)
        /\ begin < end
        /\ FindOverlap(t, 4, begin, end) = {}
        /\ g.heads <= 255 /\ g.sectors <= 255

Activated(t, o) ==
    IF o.act # 0 /\ t[o.part].type # 0
    THEN [t EXCEPT ![o.part].active = (o.act = 1)]
    ELSE t

Mpartition(o) ==
    LET read  == IF o.init THEN [i \in Numbers |-> Empty] ELSE table
        rest  == Removed(read, o)
        g     == Geometry(o, disk)
        built == IF o.create THEN [rest EXCEPT ![o.part] = NewEntry(rest, o, g)]
                 ELSE rest
        final == Activated(built, o)
        doubt == \/ ~signed /\ ~o.init
                 \/ o.remove /\ Extended(read[o.part])
                 \/ Inconsistent(final)
        works == /\ ~HalfGeometry(Opened(o, disk))
                 /\ o.create => CanCreate(rest, o, g)
                 /\ ~doubt \/ o.force
                 /\ Dirty(o)
    IN  /\ commands < MaxCommands
        /\ stream = <<>>
        /\ Below(drive, 0, 1).type = "data"
        /\ works                       \* otherwise nothing is written
        /\ commands' = commands + 1
        /\ table' = final
        /\ signed' = (signed \/ o.init)
        /\ geom' = [i \in Numbers |->
                       IF i = o.part /\ o.create
                       THEN [heads |-> g.heads, sectors |-> g.sectors,
                             own |-> o.geom = Unset /\ o.type = 0 /\ Undescribed(o.drive)]
                       ELSE IF o.init \/ (i = o.part /\ o.remove)
                            THEN NoGeometry ELSE geom[i]]
        /\ last' = [create |-> o.create, force |-> o.force, active |-> o.act = 1,
                    part |-> o.part, plain |-> o.begin = None /\ o.length = None]
        /\ UNCHANGED <<drive, disk, stream, touched>>

-----------------------------------------------------------------------------
(* The partition stream. maxSize is the size the layers below can address. *)

OpenPartition(i, maxSector) ==
    /\ stream = <<>>
    /\ Opens(drive, maxSector)
    /\ signed
    /\ table[i].type # 0
    /\ table[i].begin <= maxSector - drive.offset
    /\ stream' = <<[part |-> i, offset |-> table[i].begin, size |-> table[i].nr]>>
    /\ UNCHANGED <<drive, disk, table, signed, geom, last, touched, commands>>

\* Mutant: only the start of a transfer is looked at.
LimitSize_start(s, start, len) == IF start > s.size THEN None ELSE len
\* A transfer that starts inside the partition is cut at its end; one that
\* starts behind it fails.
LimitSize(s, start, len) ==
    IF start > s.size THEN None
    ELSE IF len > s.size - start THEN s.size - start ELSE len

Untouched == [from |-> 0, to |-> 0, part |-> 0, ok |-> FALSE, raw |-> 0, stored |-> FALSE]

\* One call of partition_pread or partition_pwrite: what the layers below cut
\* off is the caller's next call.  (A bound: one transfer each time the stream is
\* opened, as none depends on another.)
Transfer(start, len, op) ==
    /\ stream # <<>> /\ touched = Untouched
    /\ LET s == stream[1]
           n == LimitSize(s, start, len)
           piece == Below(drive, s.offset + start, n)
       IN  touched' = IF n = None \/ ~Accepts(piece, op) THEN [Untouched EXCEPT !.part = s.part]
                      ELSE [from |-> s.offset + start, to |-> s.offset + start + piece.len,
                            part |-> s.part, ok |-> TRUE,
                            raw |-> piece.at, stored |-> piece.type = "data"]
    /\ UNCHANGED <<drive, disk, table, signed, geom, last, stream, commands>>

ClosePartition ==
    /\ stream # <<>>
    /\ stream' = <<>>
    /\ touched' = Untouched
    /\ UNCHANGED <<drive, disk, table, signed, geom, last, commands>>

Init ==
    /\ drive \in Drives /\ Seen(drive) # Unmapped
    /\ disk = Seen(drive)
    /\ \E f \in Tables :          \* what reads as zeros has no signature
          /\ table = f.table /\ signed = f.signed
          /\ f.signed => Below(drive, 0, 1).type = "data"
    /\ geom = [i \in Numbers |-> NoGeometry]
    /\ last = [create |-> FALSE, force |-> FALSE, active |-> FALSE,
               part |-> 1, plain |-> FALSE]
    /\ stream = <<>>
    /\ touched = Untouched
    /\ commands = 0

Next ==
    \/ \E o \in Commands : Mpartition(o)
    \/ \E i \in Numbers, m \in Limits : OpenPartition(i, m)
    \/ \E s \in Spans : Transfer(s.start, s.len, s.op)
    \/ ClosePartition

Spec == Init /\ [][Next]_vars

-----------------------------------------------------------------------------
(* Properties. *)

Apart(p, q) == p.begin + p.nr <= q.begin \/ q.begin + q.nr <= p.begin
AllApart(t) == \A i, j \in Present(t) : i # j => Apart(t[i], t[j])
Inside(p) == p.begin + p.nr <= disk
RunsOut(p) == p.begin + p.nr >= Wrap

\* mpartition never leaves two partitions that share a sector, whatever table
\* the disk came with, unless it was told to go ahead (-f); and even then the
\* partition it has just created shares none.  (The disk may have come with an
\* entry that runs past the last sector number, and only for such an entry the
\* code does not see what it shares with an entry of a lower number.)  Nor does
\* it, unless told to (-a), turn a table with at most one active partition into
\* one with two.
StaysApart ==
    /\ \A i, j \in Present(table') :
          i < j => \/ Apart(table'[i], table'[j])
                   \/ /\ last'.force \/ RunsOut(table'[j])
                      /\ last'.create => last'.part \notin {i, j}
    /\ last'.active \/ Cardinality(Actives(table')) <= 1
       \/ Cardinality(Actives(table')) <= Cardinality(Actives(table))

\* A partition created without a place or a size (no -b, no -l) on a disk whose
\* other partitions lie inside it lies inside it too, and leaves the sector of
\* the partition table alone.
PlainFits ==
    /\ last'.create /\ last'.plain
    /\ disk # 0 /\ \A i \in Present(table) : Inside(table[i])
    => Inside(table'[last'.part]) /\ table'[last'.part].begin > 0

\* What one mpartition command may do to a table.
KeepsTableSound == [][commands' > commands => StaysApart /\ PlainFits]_vars

\* A partition on the disk, marked with a type whose users address it by cylinder,
\* head and sector, and created with the geometry the program worked out itself,
\* can be addressed so: both ends of the entry lead back to its first and last sector.
ChsAgrees ==
    \A i \in Present(table) :
        /\ geom[i].own
        /\ table[i].type \in {1, 4, 6}
        /\ disk # 0 => Inside(table[i])
        =>
            /\ Address(table[i].start, geom[i]) = table[i].begin
            /\ Address(table[i].end, geom[i]) = table[i].begin + table[i].nr - 1

\* What is written through a partition never reaches another partition, nor the
\* partition table (unless the partition was made to begin there, -b 0).
KeepsToPartition ==
    touched.from < touched.to /\ AllApart(table) =>
        /\ touched.from = 0 => table[touched.part].begin = 0
        /\ \A j \in Present(table) \ {touched.part} :
              \/ touched.to <= table[j].begin
              \/ table[j].begin + table[j].nr <= touched.from

\* The stretches of the image a data map without "pos" leaves out; what comes
\* before item k is as long as its data and skip items.
Before(items) ==
    LET sum[k \in 0..Len(items)] ==
            IF k = 0 THEN 0
            ELSE sum[k - 1] + (IF items[k].type = "zero" THEN 0 ELSE items[k].len)
    IN sum
LeftOut(items) ==
    {[from |-> Before(items)[i - 1], to |-> Before(items)[i]] :
        i \in {i \in DOMAIN items : items[i].type = "skip"}}

FitsImage(d) == Before(d.map)[Len(d.map)] <= d.raw

\* In the image, too, a transfer stays out of what the drive's offset and data map
\* leave out, out of the partition table, and (in a partition on the disk, under a
\* map that names no more than there is: nothing compares the two) inside.
KeepsToImage ==
    LET end == touched.raw + (touched.to - touched.from)
        straight == \A i \in DOMAIN drive.map : drive.map[i].type # "pos"
    IN touched.stored /\ touched.from < touched.to /\ straight =>
            /\ \A gap \in LeftOut(drive.map) : end <= gap.from \/ gap.to <= touched.raw
            /\ drive.map = <<>> => touched.raw >= drive.offset
            /\ touched.from > 0 => ~(touched.raw <= Below(drive, 0, 1).at /\ Below(drive, 0, 1).at < end)
            /\ disk # 0 /\ Inside(table[touched.part]) /\ FitsImage(drive) => end <= drive.raw

TransfersKeepOut == touched.ok => KeepsToPartition /\ KeepsToImage

=============================================================================
