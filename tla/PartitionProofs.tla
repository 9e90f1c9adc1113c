--------------------------- MODULE PartitionProofs ---------------------------
(***************************************************************************)
(* Proofs about Partition, for every table a disk may come with, every      *)
(* image below the layers, every command and any number of them.            *)
(***************************************************************************)
EXTENDS Partition, FiniteSetTheorems, SequenceTheorems, WellFoundedInduction, TLAPS

-----------------------------------------------------------------------------
(* Geometry                                                                 *)

Shapes == [tracks : Nat, heads : Nat, sectors : Nat]

\* The floppies' geometries: with at least one sector per track the whole of the
\* disk is reached by cylinders below 1024.
LEMMA FloppyShape ==
    ASSUME NEW d \in Shapes, NEW tot \in Nat
    PROVE  /\ Floppy(d, tot) \in Shapes
           /\ d.heads = 0 /\ tot > 0 /\ tot <= 8640 /\ tot % 40 = 0 =>
                 /\ Floppy(d, tot).heads \in 1..2
                 /\ Floppy(d, tot).sectors \in 1..54
                 /\ tot <= 1024 * (Floppy(d, tot).heads * Floppy(d, tot).sectors)
  <1>1. CASE tot <= 540
    <2>1. Floppy(d, tot) = [tracks |-> 40, heads |-> 1, sectors |-> tot \div 40]
      BY <1>1 DEF Floppy
    <2>2. tot \div 40 \in Nat
      OBVIOUS
    <2>3. tot > 0 /\ tot % 40 = 0 =>
             tot \div 40 \in 1..54 /\ tot <= 1024 * (1 * (tot \div 40))
      BY <1>1
    <2> QED BY <2>1, <2>2, <2>3 DEF Shapes
  <1>2. CASE tot > 540 /\ tot <= 1080
    <2>1. CASE d.heads = 1
      <3>1. Floppy(d, tot) = [tracks |-> 80, heads |-> 1, sectors |-> tot \div 80]
        BY <1>2, <2>1 DEF Floppy
      <3>2. tot \div 80 \in Nat
        OBVIOUS
      <3> QED BY <2>1, <3>1, <3>2 DEF Shapes
    <2>2. CASE d.heads # 1
      <3>1. Floppy(d, tot) = [tracks |-> 40, heads |-> 2, sectors |-> tot \div 80]
        BY <1>2, <2>2 DEF Floppy
      <3>2. tot \div 80 \in 1..54 /\ tot <= 1024 * (2 * (tot \div 80))
        BY <1>2
      <3> QED BY <3>1, <3>2 DEF Shapes
    <2> QED BY <2>1, <2>2
  <1>3. CASE tot > 1080
    <2>1. Floppy(d, tot) = [tracks |-> 80, heads |-> 2, sectors |-> tot \div 160]
      BY <1>3 DEF Floppy
    <2>2. tot \div 160 \in Nat
      OBVIOUS
    <2>3. tot <= 8640 => tot \div 160 \in 1..54 /\ tot <= 1024 * (2 * (tot \div 160))
      BY <1>3
    <2> QED BY <2>1, <2>2, <2>3 DEF Shapes
  <1> QED BY <1>1, <1>2, <1>3

\* The number of heads that is made up is one a cylinder can have.
LEMMA HeadsForRange ==
    ASSUME NEW tot \in Nat PROVE HeadsFor(tot) \in 16..255
  BY DEF HeadsFor

\* Heads and sectors a command works with.  When neither the user nor the drive's
\* description gives any, they are such that 63 sectors are enough for a track and
\* either the disk is reached by cylinders below 1024 or the first 64K sectors are.
LEMMA LbaShape ==
    ASSUME NEW d \in Shapes, NEW tot \in Nat
    PROVE  /\ LbaGeometry(d, tot) \in Shapes
           /\ d.heads = 0 /\ d.sectors = 0 /\ tot > 0 =>
                LET g == LbaGeometry(d, tot)
                IN  /\ g.heads >= 1 /\ g.sectors \in 1..63
                    /\ tot <= 1024 * (g.heads * g.sectors) \/ g.heads * g.sectors >= 64
  <1> DEFINE f == IF tot <= 8640 /\ tot % 40 = 0 THEN Floppy(d, tot) ELSE d
             g == IF f.sectors = 0 \/ f.heads = 0
                  THEN [f EXCEPT !.sectors = 63, !.heads = HeadsFor(tot)]
                  ELSE f
             cylinder == g.heads * g.sectors
  <1>1. f \in Shapes
    <2>1. CASE tot <= 8640 /\ tot % 40 = 0
      <3>1. Floppy(d, tot) \in Shapes
        BY FloppyShape
      <3> QED BY <2>1, <3>1
    <2>2. CASE ~(tot <= 8640 /\ tot % 40 = 0)
      BY <2>2
    <2> HIDE DEF f
    <2> QED BY <2>1, <2>2
  <1>2. g \in Shapes
    <2> HIDE DEF f
    <2>1. CASE f.sectors = 0 \/ f.heads = 0
      <3>1. HeadsFor(tot) \in Nat
        BY HeadsForRange
      <3>2. [f EXCEPT !.sectors = 63, !.heads = HeadsFor(tot)] \in Shapes
        BY <1>1, <3>1 DEF Shapes
      <3> QED BY <2>1, <3>2
    <2>2. CASE ~(f.sectors = 0 \/ f.heads = 0)
      BY <1>1, <2>2
    <2> QED BY <2>1, <2>2
  <1>3. LbaGeometry(d, tot) = IF (d.heads # 0 /\ d.sectors # 0 /\ d.tracks # 0) \/ tot = 0
                              THEN d
                              ELSE IF g.tracks = 0
                                   THEN [g EXCEPT !.tracks = (tot + cylinder - 1) \div cylinder]
                                   ELSE g
    BY DEF LbaGeometry
  <1>4. \/ LbaGeometry(d, tot) = d /\ ((d.heads # 0 /\ d.sectors # 0) \/ tot = 0)
        \/ /\ LbaGeometry(d, tot).heads = g.heads
           /\ LbaGeometry(d, tot).sectors = g.sectors
    <2> HIDE DEF g, cylinder
    <2> QED BY <1>2, <1>3 DEF Shapes
  <1>0. g.heads # 0 /\ g.sectors # 0
    <2>1. HeadsFor(tot) # 0
      BY HeadsForRange
    <2> HIDE DEF f
    <2> QED BY <1>1, <2>1 DEF Shapes
  <1>5. ASSUME d.heads = 0, d.sectors = 0, tot > 0
        PROVE  /\ g.heads \in Nat /\ g.heads >= 1 /\ g.sectors \in 1..63
               /\ tot <= 1024 * (g.heads * g.sectors) \/ g.heads * g.sectors >= 64
    <2>1. CASE tot <= 8640 /\ tot % 40 = 0
      <3>1. f.heads \in 1..2 /\ f.sectors \in 1..54 /\ tot <= 1024 * (f.heads * f.sectors)
        BY <1>5, <2>1, FloppyShape
      <3>2. g = f
        <4> HIDE DEF f
        <4> QED BY <3>1
      <3> HIDE DEF f, g
      <3> QED BY <3>1, <3>2
    <2>2. CASE ~(tot <= 8640 /\ tot % 40 = 0)
      <3>1. g.sectors = 63 /\ g.heads = HeadsFor(tot)
        BY <1>5, <2>2 DEF Shapes
      <3>2. HeadsFor(tot) \in 16..255
        BY HeadsForRange
      <3> HIDE DEF g
      <3> QED BY <3>1, <3>2
    <2> QED BY <2>1, <2>2
  <1> HIDE DEF f, g, cylinder
  <1>6. LbaGeometry(d, tot) \in Shapes
    <2>1. g.heads \in Nat /\ g.sectors \in Nat /\ g.heads # 0 /\ g.sectors # 0
      BY <1>2, <1>0 DEF Shapes
    <2>2. (tot + cylinder - 1) \div cylinder \in Nat
      <3>1. \A a, b \in Nat : a # 0 /\ b # 0 => a * b \in Nat /\ a * b > 0
        OBVIOUS
      <3>2. cylinder \in Nat /\ cylinder > 0
        BY <2>1, <3>1 DEF cylinder
      <3>3. \A c \in Nat : c > 0 => (tot + c - 1) \div c \in Nat
        OBVIOUS
      <3> QED BY <3>2, <3>3
    <2> QED BY <1>2, <1>3, <2>2 DEF Shapes
  <1>7. CASE d.heads = 0 /\ d.sectors = 0 /\ tot > 0
    <2>1. LbaGeometry(d, tot).heads = g.heads /\ LbaGeometry(d, tot).sectors = g.sectors
      BY <1>4, <1>7
    <2> QED BY <1>5, <1>6, <1>7, <2>1
  <1> QED BY <1>6, <1>7

\* The geometry of a command: when it makes up its own, the end of the disk is below
\* cylinder 1024 or a cylinder is large.
LEMMA GeometryShape ==
    ASSUME NEW o \in Options, NEW tot \in Nat
    PROVE  /\ Geometry(o, tot).heads \in Nat
           /\ Geometry(o, tot).sectors \in Nat
           /\ o.geom = Unset /\ Undescribed(o.drive) =>
                LET g == Geometry(o, tot)
                IN  /\ g.heads >= 1 /\ g.sectors \in 1..63
                    /\ (tot > 0 /\ tot <= 1024 * (g.heads * g.sectors)) \/ g.heads * g.sectors >= 64
  <1> DEFINE given == [tracks  |-> IF o.geom.tracks # 0 THEN o.geom.tracks ELSE o.drive.tracks,
                       heads   |-> IF o.geom.heads # 0 THEN o.geom.heads ELSE o.drive.heads,
                       sectors |-> IF o.geom.sectors # 0 THEN o.geom.sectors ELSE o.drive.sectors]
             g == LbaGeometry(given, tot)
  <1>1. given \in Shapes
    BY DEF Options, Shapes
  <1>2. Opened(o, tot) = g
    BY DEF Opened
  <1>3. o.geom = Unset /\ Undescribed(o.drive) => given.heads = 0 /\ given.sectors = 0
    BY DEF Unset, Undescribed
  <1>4. g.heads \in Nat /\ g.sectors \in Nat
    <2> HIDE DEF given
    <2> QED BY <1>1, LbaShape DEF Shapes
  <1>5. tot = 0 => g = given
    <2> HIDE DEF given
    <2> QED BY DEF LbaGeometry
  <1>6. /\ tot > 0 /\ o.geom = Unset /\ Undescribed(o.drive) =>
             /\ g.heads >= 1 /\ g.sectors \in 1..63
             /\ tot <= 1024 * (g.heads * g.sectors) \/ g.heads * g.sectors >= 64
    <2> HIDE DEF given
    <2> QED BY <1>1, <1>3, LbaShape
  <1>7. Geometry(o, tot) = IF g.heads = 0 /\ g.sectors = 0
                           THEN [g EXCEPT !.heads = 64, !.sectors = 32] ELSE g
    BY <1>2 DEF Geometry
  <1>8. \E t : g = [tracks |-> t, heads |-> g.heads, sectors |-> g.sectors]
    <2> HIDE DEF given
    <2> QED BY <1>1, LbaShape DEF Shapes
  <1> HIDE DEF given, g
  <1>9. CASE g.heads = 0 /\ g.sectors = 0
    <2>1. Geometry(o, tot).heads = 64 /\ Geometry(o, tot).sectors = 32
      BY <1>7, <1>8, <1>9
    <2> QED BY <2>1
  <1>10. CASE ~(g.heads = 0 /\ g.sectors = 0)
    <2>1. Geometry(o, tot) = g
      BY <1>7, <1>10
    <2>2. o.geom = Unset /\ Undescribed(o.drive) => tot > 0
      BY <1>3, <1>5, <1>10
    <2> QED BY <1>4, <1>6, <2>1, <2>2
  <1> QED BY <1>9, <1>10

-----------------------------------------------------------------------------
(* Cylinders, heads and sectors                                             *)

\* Division leaves a remainder.
LEMMA Division ==
    ASSUME NEW x \in Nat, NEW n \in Nat, n > 0
    PROVE  /\ x \div n \in Nat /\ x % n \in 0..n-1
           /\ x = (x \div n) * n + (x % n)
  OBVIOUS

\* A number below a product has its quotient below the first factor.
LEMMA QuotientBelow ==
    ASSUME NEW x \in Nat, NEW n \in Nat, NEW m \in Nat, n > 0, x < m * n
    PROVE  x \div n < m
  <1>1. x \div n \in Nat /\ x = (x \div n) * n + (x % n) /\ x % n \in 0..n-1
    BY Division
  <1>2. ASSUME NEW q \in Nat, q >= m PROVE q * n >= m * n
    BY <1>2
  <1> QED BY <1>1, <1>2

\* The cylinder, head and sector of an offset fit the fields of an entry.
LEMMA OffsetFits ==
    ASSUME NEW x \in Nat, NEW g, g.heads \in 1..255, g.sectors \in 1..255
    PROVE  SetOffset(x, g) \in Ends
  <1> DEFINE track == x \div g.sectors  cyl == track \div g.heads
  <1>1. track \in Nat /\ x % g.sectors \in 0..254
    <2>1. \A n \in 1..255 : x \div n \in Nat /\ x % n \in 0..254
      OBVIOUS
    <2> QED BY <2>1
  <1>2. cyl \in Nat /\ track % g.heads \in 0..255
    <2> HIDE DEF track
    <2>1. \A n \in 1..255 : track \div n \in Nat /\ track % n \in 0..255
      BY <1>1
    <2> QED BY <2>1
  <1>3. ((x % g.sectors) + 1) % 64 \in 0..63
    BY <1>1
  <1>4. SetOffset(x, g) = [cyl |-> IF cyl > 1023 THEN 1023 ELSE cyl,
                           head |-> track % g.heads,
                           sector |-> ((x % g.sectors) + 1) % 64]
    BY DEF SetOffset
  <1> HIDE DEF track, cyl
  <1> QED BY <1>2, <1>3, <1>4 DEF Ends

\* They lead back to the offset when the cylinder is below 1024 and the sectors
\* of a track fit six bits.
LEMMA OffsetReadBack ==
    ASSUME NEW x \in Nat, NEW h \in Nat, NEW s \in 1..63, h >= 1, x < 1024 * (h * s),
           NEW g, g.heads = h, g.sectors = s
    PROVE  Address(SetOffset(x, g), g) = x
  <1> DEFINE track == x \div s  cyl == track \div h
  <1>1. /\ track \in Nat /\ x % s \in 0..s-1 /\ x = track * s + (x % s)
    BY Division
  <1> HIDE DEF track
  <1>2. cyl \in Nat /\ track % h \in Nat /\ track = cyl * h + (track % h)
    BY <1>1, Division
  <1>3. cyl < 1024
    <2>1. 1024 * (h * s) = (1024 * h) * s
      OBVIOUS
    <2>2. 1024 * h \in Nat
      OBVIOUS
    <2>3. track < 1024 * h
      BY <2>1, <2>2, QuotientBelow DEF track
    <2> QED BY <1>1, <2>3, QuotientBelow
  <1>4. ((x % s) + 1) % 64 = (x % s) + 1
    <2>1. \A r \in 0..62 : (r + 1) % 64 = r + 1
      OBVIOUS
    <2>2. x % s \in 0..62
      BY <1>1
    <2> QED BY <2>1, <2>2
  <1>5. SetOffset(x, g) = [cyl |-> IF cyl > 1023 THEN 1023 ELSE cyl,
                           head |-> track % h,
                           sector |-> ((x % s) + 1) % 64]
    BY DEF SetOffset, track
  <1> HIDE DEF cyl
  <1>6. SetOffset(x, g) = [cyl |-> cyl, head |-> track % h, sector |-> (x % s) + 1]
    BY <1>2, <1>3, <1>4, <1>5
  <1>7. Address(SetOffset(x, g), g) = (cyl * h + (track % h)) * s + ((x % s) + 1) - 1
    BY <1>6 DEF Address
  <1>8. Address(SetOffset(x, g), g) = track * s + ((x % s) + 1) - 1
    BY <1>2, <1>7
  <1>9. track * s \in Nat
    BY <1>1
  <1> QED BY <1>1, <1>8, <1>9

\* A sector below cylinder 1024 is found again from its cylinder, head and sector.
LEMMA OffsetRead ==
    ASSUME NEW x \in Nat, NEW g, g.heads \in Nat, g.heads >= 1, g.sectors \in 1..63,
           x < 1024 * (g.heads * g.sectors)
    PROVE  Address(SetOffset(x, g), g) = x
  <1>1. PICK h \in Nat, s \in 1..63 : g.heads = h /\ g.sectors = s
    OBVIOUS
  <1>2. h >= 1 /\ x < 1024 * (h * s) /\ g.heads = h /\ g.sectors = s
    BY <1>1
  <1> DEFINE goal == Address(SetOffset(x, g), g) = x
  <1>3. goal
    BY <1>2, OffsetReadBack
  <1> QED BY <1>3

-----------------------------------------------------------------------------
(* Entries and their ends                                                   *)

\* The end of an entry, which may have wrapped around.
LEMMA EndIs ==
    ASSUME NEW p \in Entries
    PROVE  /\ End(p) \in 0..Wrap-1
           /\ p.begin + p.nr < Wrap => End(p) = p.begin + p.nr
           /\ p.begin + p.nr >= Wrap => End(p) < p.begin
  <1>1. \A b, n \in 0..Wrap-1 :
           /\ (b + n) % Wrap \in 0..Wrap-1
           /\ b + n < Wrap => (b + n) % Wrap = b + n
           /\ b + n >= Wrap => (b + n) % Wrap < b
    <2> SUFFICES ASSUME NEW b \in 0..Wrap-1, NEW n \in 0..Wrap-1
                 PROVE  /\ (b + n) % Wrap \in 0..Wrap-1
                        /\ b + n < Wrap => (b + n) % Wrap = b + n
                        /\ b + n >= Wrap => (b + n) % Wrap < b
      OBVIOUS
    <2>1. Wrap \in Nat /\ Wrap > 0 /\ b \in Nat /\ n \in Nat
      BY WrapAssumption
    <2>2. (b + n) % Wrap \in 0..Wrap-1
      BY <2>1
    <2>3. b + n < Wrap => (b + n) % Wrap = b + n
      BY <2>1
    <2>4. b + n >= Wrap => (b + n) % Wrap = b + n - Wrap
      BY <2>1
    <2> QED BY <2>1, <2>2, <2>3, <2>4
  <1>2. p.begin \in 0..Wrap-1 /\ p.nr \in 0..Wrap-1
    BY DEF Entries
  <1> QED BY <1>1, <1>2 DEF End

\* What overlapCheck lets pass shares no sector with the entry, whether or not
\* the entry itself runs past the last sector number.
LEMMA NoOverlap ==
    ASSUME NEW p \in Entries, p.type # 0, NEW begin \in 0..Wrap-1, NEW end \in 0..Wrap-1,
           ~Overlaps(p, begin, end)
    PROVE  end <= p.begin \/ p.begin + p.nr <= begin
  <1>1. p.begin \in Nat /\ p.nr \in Nat /\ End(p) \in Nat /\ begin \in Nat /\ end \in Nat
    BY EndIs, WrapAssumption DEF Entries
  <1>2. end <= p.begin \/ (~(begin < End(p)) /\ ~(End(p) < p.begin))
    BY <1>1 DEF Overlaps
  <1>3. ~(End(p) < p.begin) => End(p) = p.begin + p.nr
    BY <1>1, EndIs, WrapAssumption
  <1> QED BY <1>1, <1>2, <1>3

\* Some entries have a first and a last one.
LEMMA FirstAndLast ==
    ASSUME NEW S \in SUBSET Numbers, S # {}
    PROVE  /\ \E i \in S : \A j \in S : j <= i
           /\ \E i \in S : \A j \in S : i <= j
  <1>1. \A i \in S : i = 1 \/ i = 2 \/ i = 3 \/ i = 4
    BY DEF Numbers
  <1>2. \E i \in S : \A j \in S : j <= i
    <2>1. CASE 4 \in S
      BY <1>1, <2>1
    <2>2. CASE 4 \notin S /\ 3 \in S
      BY <1>1, <2>2
    <2>3. CASE 4 \notin S /\ 3 \notin S /\ 2 \in S
      BY <1>1, <2>3
    <2>4. CASE 4 \notin S /\ 3 \notin S /\ 2 \notin S
      BY <1>1, <2>4
    <2> QED BY <2>1, <2>2, <2>3, <2>4
  <1>3. \E i \in S : \A j \in S : i <= j
    <2>1. CASE 1 \in S
      BY <1>1, <2>1
    <2>2. CASE 1 \notin S /\ 2 \in S
      BY <1>1, <2>2
    <2>3. CASE 1 \notin S /\ 2 \notin S /\ 3 \in S
      BY <1>1, <2>3
    <2>4. CASE 1 \notin S /\ 2 \notin S /\ 3 \notin S
      BY <1>1, <2>4
    <2> QED BY <2>1, <2>2, <2>3, <2>4
  <1> QED BY <1>2, <1>3

-----------------------------------------------------------------------------
(* Creating an entry                                                        *)

Sized(g) == g.heads \in Nat /\ g.sectors \in Nat

\* Where a new entry begins: behind its neighbour, or one track into the disk.
LEMMA BeginRange ==
    ASSUME NEW t \in [Numbers -> Entries], NEW o \in Options, NEW g, Sized(g)
    PROVE  /\ BeginOf(t, o, g) \in Nat
           /\ o.begin = None /\ g.sectors # 0 => BeginOf(t, o, g) > 0
  <1> DEFINE before == {i \in Present(t) : i < o.part}
             after == End(t[CHOOSE i \in before : \A j \in before : j <= i])
             placed == IF before = {} THEN 0 ELSE after
  <1>1. placed \in Nat
    <2>1. CASE before = {}
      BY <2>1
    <2>2. CASE before # {}
      <3>1. before \in SUBSET Numbers
        BY DEF Present
      <3>2. \E i \in before : \A j \in before : j <= i
        BY <2>2, <3>1, FirstAndLast
      <3> DEFINE c == CHOOSE i \in before : \A j \in before : j <= i
      <3>3. c \in before
        BY <3>2
      <3>4. t[c] \in Entries
        BY <3>1, <3>3
      <3> HIDE DEF c
      <3>5. End(t[c]) \in Nat
        BY <3>4, EndIs, WrapAssumption
      <3> QED BY <2>2, <3>5 DEF c
    <2> QED BY <2>1, <2>2
  <1>2. BeginOf(t, o, g) = IF o.begin # None THEN o.begin
                           ELSE IF placed # 0 THEN placed ELSE g.sectors
    BY DEF BeginOf
  <1>3. o.begin \in Nat \union {None} /\ g.sectors \in Nat
    BY DEF Options, Sized
  <1> HIDE DEF placed
  <1> QED BY <1>1, <1>2, <1>3 DEF None

\* A command without -l never goes beyond the disk, as long as the entries that
\* are there do not either; with -l the end is again a sector number.
LEMMA EndRange ==
    ASSUME NEW t \in [Numbers -> Entries], NEW o \in Options, NEW g, Sized(g),
           disk \in 0..Wrap-1, CylinderSize(g) # 0, NEW begin \in Nat
    PROVE  /\ EndOf(t, o, g, begin) \in 0..Wrap-1
           /\ o.length = None /\ (\A i \in Present(t) : Inside(t[i])) =>
                 EndOf(t, o, g, begin) <= disk
  <1> DEFINE behind == {i \in Present(t) : i > o.part}
             next == t[CHOOSE i \in behind : \A j \in behind : i <= j].begin
             e == EndOf(t, o, g, begin)
  <1>0. disk \in Nat /\ Wrap \in Nat /\ Wrap > 0
    BY WrapAssumption
  <1>1. CASE o.length # None
    <2>1. e = (begin + o.length) % Wrap /\ o.length \in Nat
      BY <1>1 DEF EndOf, Options
    <2>2. (begin + o.length) % Wrap \in 0..Wrap-1
      BY <1>0, <2>1
    <2> QED BY <1>1, <2>1, <2>2
  <1>2. CASE o.length = None /\ behind # {}
    <2>1. e = next
      BY <1>2 DEF EndOf
    <2>2. behind \in SUBSET Numbers
      BY DEF Present
    <2>3. \E i \in behind : \A j \in behind : i <= j
      BY <1>2, <2>2, FirstAndLast
    <2> DEFINE c == CHOOSE i \in behind : \A j \in behind : i <= j
    <2>4. c \in behind
      BY <2>3
    <2>5. c \in Present(t) /\ t[c] \in Entries
      BY <2>2, <2>4
    <2>6. e = t[c].begin
      BY <2>1
    <2> HIDE DEF c, e
    <2>7. t[c].begin \in 0..Wrap-1 /\ t[c].nr \in Nat
      BY <2>5, WrapAssumption DEF Entries
    <2>8. Inside(t[c]) => t[c].begin <= disk
      BY <1>0, <2>7 DEF Inside
    <2> QED BY <2>5, <2>6, <2>7, <2>8 DEF e
  <1>3. CASE o.length = None /\ behind = {}
    <2>1. e = disk - (disk % CylinderSize(g))
      BY <1>3 DEF EndOf
    <2>2. CylinderSize(g) \in Nat /\ CylinderSize(g) > 0
      <3>1. g.heads * g.sectors \in Nat
        BY DEF Sized
      <3>2. \A n \in Nat : n % 65536 \in Nat
        OBVIOUS
      <3>3. CylinderSize(g) \in Nat
        BY <3>1, <3>2 DEF CylinderSize
      <3> QED BY <3>3
    <2>3. \A c \in Nat : c > 0 => disk % c \in Nat /\ disk % c <= disk
      BY <1>0
    <2> HIDE DEF e
    <2> QED BY <1>0, <2>1, <2>2, <2>3 DEF e
  <1> QED BY <1>1, <1>2, <1>3

\* The entry that setBeginEnd makes.
LEMMA Created ==
    ASSUME NEW t \in [Numbers -> Entries], NEW o \in Options, NEW g, Sized(g),
           disk \in 0..Wrap-1, CanCreate(t, o, g)
    PROVE  \E begin \in 0..Wrap-1, end \in 0..Wrap-1 :
             /\ begin = BeginOf(t, o, g) /\ end = EndOf(t, o, g, begin) /\ begin < end
             /\ CylinderSize(g) # 0 /\ g.heads \in 1..255 /\ g.sectors \in 1..255
             /\ FindOverlap(t, 4, begin, end) = {}
             /\ NewEntry(t, o, g) =
                   [type   |-> IF o.type # 0 THEN o.type
                               ELSE TypeFor(begin, end, g, o.drive.fatBits),
                    active |-> Actives(t) = {}, begin |-> begin, nr |-> end - begin,
                    start  |-> SetOffset(begin, g), end |-> SetOffset(end - 1, g)]
  <1> DEFINE begin == BeginOf(t, o, g)
             end   == EndOf(t, o, g, begin)
  <1>1. /\ CylinderSize(g) # 0 /\ begin < end /\ g.heads <= 255 /\ g.sectors <= 255
        /\ FindOverlap(t, 4, begin, end) = {}
    BY DEF CanCreate
  <1>2. begin \in Nat
    BY BeginRange
  <1>3. end \in 0..Wrap-1
    <2> HIDE DEF begin
    <2> QED BY <1>1, <1>2, EndRange
  <1>4. g.heads \in 1..255 /\ g.sectors \in 1..255
    <2>1. g.heads # 0 /\ g.sectors # 0
      BY <1>1 DEF CylinderSize, Sized
    <2> QED BY <1>1, <2>1 DEF Sized
  <1>5. NewEntry(t, o, g) =
                   [type   |-> IF o.type # 0 THEN o.type
                               ELSE TypeFor(begin, end, g, o.drive.fatBits),
                    active |-> Actives(t) = {}, begin |-> begin, nr |-> end - begin,
                    start  |-> SetOffset(begin, g), end |-> SetOffset(end - 1, g)]
    BY DEF NewEntry
  <1>6. begin \in 0..Wrap-1
    <2> HIDE DEF begin, end
    <2> QED BY <1>1, <1>2, <1>3, WrapAssumption
  <1>7. begin = BeginOf(t, o, g) /\ end = EndOf(t, o, g, begin)
    OBVIOUS
  <1> HIDE DEF begin, end
  <1> QED BY <1>1, <1>3, <1>4, <1>5, <1>6, <1>7

\* It is a well-formed entry that ends before the last sector number.
LEMMA CreatedEntry ==
    ASSUME NEW t \in [Numbers -> Entries], NEW o \in Options, NEW g, Sized(g),
           disk \in 0..Wrap-1, CanCreate(t, o, g)
    PROVE  NewEntry(t, o, g) \in Entries /\ ~RunsOut(NewEntry(t, o, g))
  <1> DEFINE p == NewEntry(t, o, g)
  <1>1. PICK begin \in 0..Wrap-1, end \in 0..Wrap-1 :
             /\ begin < end /\ g.heads \in 1..255 /\ g.sectors \in 1..255
             /\ p = [type   |-> IF o.type # 0 THEN o.type
                                ELSE TypeFor(begin, end, g, o.drive.fatBits),
                     active |-> Actives(t) = {}, begin |-> begin, nr |-> end - begin,
                     start  |-> SetOffset(begin, g), end |-> SetOffset(end - 1, g)]
    BY Created
  <1> HIDE DEF p
  <1>2. begin \in Nat /\ end \in Nat /\ Wrap \in Nat /\ end - 1 \in Nat
    BY <1>1, WrapAssumption
  <1>3. end - begin \in 0..Wrap-1 /\ begin + (end - begin) < Wrap
    BY <1>1, <1>2
  <1>4. SetOffset(begin, g) \in Ends /\ SetOffset(end - 1, g) \in Ends
    BY <1>1, <1>2, OffsetFits
  <1>5. TypeFor(begin, end, g, o.drive.fatBits) \in 0..255
    <2>1. o.drive.fatBits \in {0, 12, 16, 32}
      BY DEF Options
    <2>2. \A e \in Nat : \A b \in {0, 12, 16, 32} : TypeFor(begin, e, g, b) \in {1, 4, 6, 12, 14}
      BY <1>2 DEF TypeFor
    <2> QED BY <1>2, <2>1, <2>2
  <1>6. (IF o.type # 0 THEN o.type ELSE TypeFor(begin, end, g, o.drive.fatBits)) \in 0..255
    BY <1>5 DEF Options
  <1>7. (Actives(t) = {}) \in BOOLEAN
    OBVIOUS
  <1>8. p \in Entries
    BY <1>1, <1>3, <1>4, <1>6, <1>7 DEF Entries
  <1>9. p.begin = begin /\ p.nr = end - begin
    BY <1>1
  <1>10. ~RunsOut(p)
    BY <1>2, <1>3, <1>9 DEF RunsOut
  <1> QED BY <1>8, <1>10 DEF p

-----------------------------------------------------------------------------
(* One command                                                              *)

Typed ==
    /\ disk \in 0..Wrap-1
    /\ table \in [Numbers -> Entries]
    /\ signed \in BOOLEAN /\ commands \in Nat
    /\ geom \in [Numbers -> [heads : Nat, sectors : Nat, own : BOOLEAN]]

\* The table after -I and -r, after -c, and as it is written.
Rest(o)  == Removed(IF o.init THEN [i \in Numbers |-> Empty] ELSE table, o)
Built(o) == IF o.create
            THEN [Rest(o) EXCEPT ![o.part] = NewEntry(Rest(o), o, Geometry(o, disk))]
            ELSE Rest(o)

\* What a command that writes the table has done to it and has made sure of before.
LEMMA CommandIs ==
    ASSUME NEW o \in Commands, Mpartition(o)
    PROVE  /\ o \in Options
           /\ table' = Activated(Built(o), o)
           /\ o.create => CanCreate(Rest(o), o, Geometry(o, disk))
           /\ Inconsistent(table') => o.force
           /\ commands' = commands + 1
           /\ last' = [create |-> o.create, force |-> o.force, active |-> o.act = 1,
                       part |-> o.part, plain |-> o.begin = None /\ o.length = None]
           /\ stream = <<>>
           /\ UNCHANGED <<drive, disk, stream, touched>>
  <1>1. o \in Options
    BY CommandsAssumption
  <1>2. table' = Activated(Built(o), o)
    BY DEF Mpartition, Built, Rest
  <1>3. o.create => CanCreate(Rest(o), o, Geometry(o, disk))
    BY DEF Mpartition, Rest
  <1>4. Inconsistent(Activated(Built(o), o)) => o.force
    BY DEF Mpartition, Built, Rest
  <1>5. Inconsistent(table') => o.force
    BY <1>2, <1>4
  <1>6. /\ commands' = commands + 1
        /\ last' = [create |-> o.create, force |-> o.force, active |-> o.act = 1,
                    part |-> o.part, plain |-> o.begin = None /\ o.length = None]
        /\ stream = <<>>
        /\ UNCHANGED <<drive, disk, stream, touched>>
    BY DEF Mpartition
  <1> QED BY <1>1, <1>2, <1>3, <1>5, <1>6

\* An unused entry is one.
LEMMA EmptyIsEntry == Empty \in Entries /\ Empty.type = 0
  BY WrapAssumption DEF Empty, Entries, NoChs, Ends

\* What -I and -r leave are entries of the table, and nothing is added.
LEMMA RestIs ==
    ASSUME Typed, NEW o \in Options
    PROVE  /\ Rest(o) \in [Numbers -> Entries]
           /\ \A i \in Present(Rest(o)) : Rest(o)[i] = table[i] /\ i \in Present(table)
           /\ \A i \in Present(Rest(o)) : ~o.init /\ ~(o.remove /\ i = o.part)
           /\ Actives(Rest(o)) \subseteq Actives(table)
  <1> DEFINE read == IF o.init THEN [i \in Numbers |-> Empty] ELSE table
  <1>1. read \in [Numbers -> Entries]
    BY EmptyIsEntry DEF Typed
  <1>2. \A i \in Numbers : read[i] = Empty \/ (read[i] = table[i] /\ ~o.init)
    OBVIOUS
  <1>3. Rest(o) = IF o.remove THEN [read EXCEPT ![o.part] = Empty] ELSE read
    BY DEF Rest, Removed
  <1> HIDE DEF read
  <1>4. o.part \in Numbers
    BY DEF Options
  <1>5. Rest(o) \in [Numbers -> Entries]
    BY <1>1, <1>3, <1>4, EmptyIsEntry
  <1>6. \A i \in Numbers : \/ Rest(o)[i] = Empty
                           \/ Rest(o)[i] = table[i] /\ ~o.init /\ ~(o.remove /\ i = o.part)
    BY <1>1, <1>2, <1>3, <1>4
  <1>7. \A i \in Present(Rest(o)) : /\ Rest(o)[i] = table[i] /\ i \in Present(table)
                                    /\ ~o.init /\ ~(o.remove /\ i = o.part)
    BY <1>6, EmptyIsEntry DEF Present
  <1> QED BY <1>5, <1>7 DEF Actives

\* -a and -d change nothing but the mark.
LEMMA ActivatedIs ==
    ASSUME NEW t \in [Numbers -> Entries], NEW o \in Options
    PROVE  /\ Activated(t, o) \in [Numbers -> Entries]
           /\ \A i \in Numbers :
                 /\ Activated(t, o)[i].type = t[i].type
                 /\ Activated(t, o)[i].begin = t[i].begin
                 /\ Activated(t, o)[i].nr = t[i].nr
                 /\ Activated(t, o)[i].start = t[i].start
                 /\ Activated(t, o)[i].end = t[i].end
           /\ Present(Activated(t, o)) = Present(t)
           /\ o.act # 1 => Actives(Activated(t, o)) \subseteq Actives(t)
  <1> DEFINE a == Activated(t, o)
  <1>0. o.part \in Numbers
    BY DEF Options
  <1>1. CASE o.act # 0 /\ t[o.part].type # 0
    <2>1. a = [t EXCEPT ![o.part] = [t[o.part] EXCEPT !.active = (o.act = 1)]]
      BY <1>1 DEF Activated
    <2>2. t[o.part] \in Entries
      BY <1>0
    <2>3. [t[o.part] EXCEPT !.active = (o.act = 1)] \in Entries
      BY <2>2 DEF Entries
    <2> DEFINE p == [t[o.part] EXCEPT !.active = (o.act = 1)]
    <2>4. /\ p.type = t[o.part].type /\ p.begin = t[o.part].begin /\ p.nr = t[o.part].nr
          /\ p.start = t[o.part].start /\ p.end = t[o.part].end /\ p.active = (o.act = 1)
      BY <2>2 DEF Entries
    <2> HIDE DEF p, a
    <2>5. a = [t EXCEPT ![o.part] = p] /\ p \in Entries
      BY <2>1, <2>3 DEF p
    <2>6. /\ a \in [Numbers -> Entries] /\ a[o.part] = p
          /\ \A i \in Numbers \ {o.part} : a[i] = t[i]
      BY <1>0, <2>5
    <2>7. Present(a) = Present(t)
      BY <2>4, <2>6 DEF Present
    <2>8. o.act # 1 => Actives(a) \subseteq Actives(t)
      BY <2>4, <2>6, <2>7 DEF Actives, Present
    <2>9. \A i \in Numbers : /\ a[i].type = t[i].type /\ a[i].begin = t[i].begin
                             /\ a[i].nr = t[i].nr /\ a[i].start = t[i].start
                             /\ a[i].end = t[i].end
      BY <2>4, <2>6
    <2> QED BY <2>6, <2>7, <2>8, <2>9 DEF a
  <1>2. CASE ~(o.act # 0 /\ t[o.part].type # 0)
    BY <1>2 DEF Activated
  <1> QED BY <1>1, <1>2

\* The table that a command has built, before -a and -d.
LEMMA BuiltIs ==
    ASSUME Typed, NEW o \in Options, o.create => CanCreate(Rest(o), o, Geometry(o, disk))
    PROVE  /\ Built(o) \in [Numbers -> Entries]
           /\ \A i \in Numbers : ~(o.create /\ i = o.part) => Built(o)[i] = Rest(o)[i]
           /\ o.create => Built(o)[o.part] = NewEntry(Rest(o), o, Geometry(o, disk))
  <1>1. Rest(o) \in [Numbers -> Entries] /\ o.part \in Numbers
    BY RestIs DEF Options
  <1>2. Sized(Geometry(o, disk)) /\ disk \in 0..Wrap-1
    BY GeometryShape, WrapAssumption DEF Sized, Typed
  <1>3. o.create => NewEntry(Rest(o), o, Geometry(o, disk)) \in Entries
    BY <1>1, <1>2, CreatedEntry
  <1> QED BY <1>1, <1>3 DEF Built

\* The new entry shares no sector with those that stay.
LEMMA CreatedApart ==
    ASSUME Typed, NEW o \in Options, o.create, CanCreate(Rest(o), o, Geometry(o, disk)),
           NEW k \in Present(Rest(o))
    PROVE  LET p == NewEntry(Rest(o), o, Geometry(o, disk))
           IN  Apart(Rest(o)[k], p) /\ Apart(p, Rest(o)[k])
  <1> DEFINE g == Geometry(o, disk)
             p == NewEntry(Rest(o), o, g)
  <1>1. Rest(o) \in [Numbers -> Entries] /\ k \in Numbers /\ Rest(o)[k] \in Entries
        /\ Rest(o)[k].type # 0
    BY RestIs DEF Present
  <1>2. Sized(g) /\ disk \in 0..Wrap-1
    BY GeometryShape, WrapAssumption DEF Sized, Typed
  <1>3. PICK begin \in 0..Wrap-1, end \in 0..Wrap-1 :
           /\ begin < end /\ FindOverlap(Rest(o), 4, begin, end) = {}
           /\ p.begin = begin /\ p.nr = end - begin
    <2> HIDE DEF g
    <2> QED BY <1>1, <1>2, Created DEF g
  <1> HIDE DEF p, g
  <1>4. ~Overlaps(Rest(o)[k], begin, end)
    BY <1>1, <1>3 DEF FindOverlap, Numbers
  <1>5. end <= Rest(o)[k].begin \/ Rest(o)[k].begin + Rest(o)[k].nr <= begin
    BY <1>1, <1>4, NoOverlap
  <1>6. begin + (end - begin) = end
    BY <1>3, WrapAssumption
  <1> QED BY <1>3, <1>5, <1>6 DEF Apart, p, g

\* What consistencyCheck accepts: an entry that does not run past the last
\* sector number shares no sector with one of a lower number.
LEMMA ConsistentApart ==
    ASSUME NEW t \in [Numbers -> Entries], ~Inconsistent(t),
           NEW i \in Present(t), NEW j \in Present(t), i < j
    PROVE  Apart(t[i], t[j]) \/ RunsOut(t[j])
  <1>1. /\ i \in Numbers /\ j \in Numbers /\ t[i] \in Entries /\ t[j] \in Entries
        /\ t[i].type # 0
    BY DEF Present
  <1>2. FindOverlap(t, j - 1, t[j].begin, End(t[j])) = {}
    BY DEF Inconsistent
  <1>3. i \in 1..(j - 1)
    BY <1>1 DEF Numbers
  <1>4. ~Overlaps(t[i], t[j].begin, End(t[j]))
    BY <1>2, <1>3 DEF FindOverlap
  <1>5. t[j].begin \in 0..Wrap-1 /\ t[j].nr \in 0..Wrap-1 /\ End(t[j]) \in 0..Wrap-1
    BY <1>1, EndIs DEF Entries
  <1>6. End(t[j]) <= t[i].begin \/ t[i].begin + t[i].nr <= t[j].begin
    BY <1>1, <1>4, <1>5, NoOverlap
  <1>7. t[j].begin + t[j].nr < Wrap \/ RunsOut(t[j])
    BY <1>5, WrapAssumption DEF RunsOut
  <1>8. t[j].begin + t[j].nr < Wrap => End(t[j]) = t[j].begin + t[j].nr
    BY <1>1, EndIs
  <1> QED BY <1>6, <1>7, <1>8 DEF Apart

\* No command leaves partitions that share a sector unless it was told to go ahead.
LEMMA CommandKeepsApart ==
    ASSUME Typed, NEW o \in Commands, Mpartition(o)
    PROVE  StaysApart
  <1> DEFINE g == Geometry(o, disk)
             t == Built(o)
  <1>1. /\ o \in Options /\ table' = Activated(t, o)
        /\ o.create => CanCreate(Rest(o), o, g)
        /\ Inconsistent(table') => o.force
        /\ last'.force = o.force /\ last'.create = o.create
        /\ last'.part = o.part /\ last'.active = (o.act = 1)
    BY CommandIs
  <1>2. /\ t \in [Numbers -> Entries]
        /\ \A i \in Numbers : ~(o.create /\ i = o.part) => t[i] = Rest(o)[i]
        /\ o.create => t[o.part] = NewEntry(Rest(o), o, g)
    BY <1>1, BuiltIs
  <1>3. Rest(o) \in [Numbers -> Entries] /\ o.part \in Numbers
    BY <1>1, RestIs DEF Options
  <1>4. disk \in 0..Wrap-1 /\ Sized(g)
    BY <1>1, GeometryShape, WrapAssumption DEF Sized, Typed
  <1> HIDE DEF t, g
  <1>5. /\ table' \in [Numbers -> Entries] /\ Present(table') = Present(t)
        /\ \A i \in Numbers : /\ table'[i].begin = t[i].begin /\ table'[i].nr = t[i].nr
        /\ o.act # 1 => Actives(table') \subseteq Actives(t)
    BY <1>1, <1>2, ActivatedIs
  <1>6. ASSUME NEW i \in Present(table'), NEW j \in Present(table'), i < j
        PROVE  \/ Apart(table'[i], table'[j])
               \/ /\ last'.force \/ RunsOut(table'[j])
                  /\ last'.create => last'.part \notin {i, j}
    <2>1. i \in Numbers /\ j \in Numbers /\ i # j /\ i \in Present(t) /\ j \in Present(t)
      BY <1>5, <1>6 DEF Present, Numbers
    <2>2. Apart(table'[i], table'[j]) <=> Apart(t[i], t[j])
      BY <1>5, <2>1 DEF Apart
    <2>3. CASE o.create /\ o.part = i
      <3>1. t[j] = Rest(o)[j] /\ j \in Present(Rest(o))
        BY <1>2, <2>1, <2>3 DEF Present
      <3> QED BY <1>1, <1>2, <2>2, <2>3, <3>1, CreatedApart DEF g
    <2>4. CASE o.create /\ o.part = j
      <3>1. t[i] = Rest(o)[i] /\ i \in Present(Rest(o))
        BY <1>2, <2>1, <2>4 DEF Present
      <3> QED BY <1>1, <1>2, <2>2, <2>4, <3>1, CreatedApart DEF g
    <2>5. CASE ~(o.create /\ o.part \in {i, j})
      <3>1. CASE o.force
        BY <1>1, <2>5, <3>1
      <3>2. CASE ~o.force
        <4>1. Apart(table'[i], table'[j]) \/ RunsOut(table'[j])
          BY <1>1, <1>5, <1>6, <3>2, ConsistentApart
        <4> QED BY <1>1, <2>5, <4>1
      <3> QED BY <3>1, <3>2
    <2> QED BY <2>3, <2>4, <2>5
  <1>7. ASSUME o.act # 1
        PROVE  \/ Cardinality(Actives(table')) <= 1
               \/ Cardinality(Actives(table')) <= Cardinality(Actives(table))
    <2>0. ASSUME NEW S \in SUBSET Numbers PROVE IsFiniteSet(S) /\ Cardinality(S) \in Nat
      <3>1. IsFiniteSet(Numbers)
        <4>1. 1 \in Int /\ 4 \in Int
          OBVIOUS
        <4>2. IsFiniteSet(1..4)
          BY <4>1, FS_Interval, Zenon
        <4> QED BY <4>2 DEF Numbers
      <3>2. IsFiniteSet(S)
        BY <3>1, FS_Subset
      <3> QED BY <3>2, FS_CardinalityType
    <2>1. /\ Actives(t) \in SUBSET Numbers /\ Actives(table) \in SUBSET Numbers
          /\ Actives(table') \in SUBSET Numbers /\ Actives(table') \subseteq Actives(t)
      BY <1>5, <1>7 DEF Actives, Present
    <2>2. Actives(Rest(o)) \subseteq Actives(table)
      BY <1>1, RestIs
    <2>3. CASE Actives(t) \subseteq Actives(Rest(o))
      <3>1. Actives(table') \subseteq Actives(table)
        BY <2>1, <2>2, <2>3
      <3>2. Cardinality(Actives(table')) <= Cardinality(Actives(table))
        BY <2>0, <2>1, <3>1, FS_Subset
      <3> QED BY <3>2
    <2>4. CASE ~(Actives(t) \subseteq Actives(Rest(o)))
      <3>1. PICK i \in Actives(t) : i \notin Actives(Rest(o))
        BY <2>4
      <3>2. i \in Numbers /\ t[i].type # 0 /\ t[i].active
        BY <3>1 DEF Actives, Present
      <3>3. o.create /\ i = o.part
        BY <1>2, <3>1, <3>2 DEF Actives, Present
      <3>4. t[o.part].active = (Actives(Rest(o)) = {})
        BY <1>1, <1>2, <1>3, <1>4, <3>3, Created
      <3>5. Actives(Rest(o)) = {}
        BY <3>2, <3>3, <3>4
      <3>6. Actives(t) \subseteq {o.part}
        BY <1>2, <3>5 DEF Actives, Present
      <3>7. Actives(table') \subseteq {o.part}
        BY <2>1, <3>6
      <3>8. Cardinality({o.part}) = 1 /\ IsFiniteSet({o.part})
        BY FS_Singleton
      <3>9. Cardinality(Actives(table')) <= 1
        BY <3>7, <3>8, FS_Subset
      <3> QED BY <3>9
    <2> QED BY <2>3, <2>4
  <1> QED BY <1>1, <1>6, <1>7 DEF StaysApart

\* A partition created where nothing was said about its place fits the disk.
LEMMA CommandFits ==
    ASSUME Typed, NEW o \in Commands, Mpartition(o)
    PROVE  PlainFits
  <1> DEFINE g == Geometry(o, disk)
             p == NewEntry(Rest(o), o, g)
  <1>1. /\ o \in Options /\ table' = Activated(Built(o), o) /\ disk' = disk
        /\ o.create => CanCreate(Rest(o), o, g)
        /\ last'.create = o.create /\ last'.part = o.part
        /\ last'.plain = (o.begin = None /\ o.length = None)
    BY CommandIs
  <1> SUFFICES ASSUME o.create, o.begin = None, o.length = None,
                      \A i \in Present(table) : Inside(table[i])
               PROVE  Inside(table'[o.part]) /\ table'[o.part].begin > 0
    BY <1>1 DEF PlainFits
  <1>2. Built(o) \in [Numbers -> Entries] /\ Built(o)[o.part] = p /\ o.part \in Numbers
    BY <1>1, BuiltIs DEF Options
  <1>3. table'[o.part].begin = p.begin /\ table'[o.part].nr = p.nr
    <2> HIDE DEF p
    <2> QED BY <1>1, <1>2, ActivatedIs
  <1>4. /\ Rest(o) \in [Numbers -> Entries]
        /\ \A i \in Present(Rest(o)) : Inside(Rest(o)[i])
    BY <1>1, RestIs
  <1>5. Sized(g) /\ disk \in 0..Wrap-1
    BY <1>1, GeometryShape, WrapAssumption DEF Sized, Typed
  <1>6. PICK begin \in 0..Wrap-1, end \in 0..Wrap-1 :
           /\ begin = BeginOf(Rest(o), o, g) /\ end = EndOf(Rest(o), o, g, begin)
           /\ begin < end /\ CylinderSize(g) # 0 /\ g.sectors \in 1..255
           /\ p.begin = begin /\ p.nr = end - begin
    <2> HIDE DEF g
    <2> QED BY <1>1, <1>4, <1>5, Created DEF g
  <1> HIDE DEF g, p
  <1>7. begin > 0
    BY <1>1, <1>4, <1>5, <1>6, BeginRange
  <1>8. begin \in Nat /\ end \in Nat /\ end <= disk
    <2>1. begin \in Nat
      BY <1>6, WrapAssumption
    <2> QED BY <1>1, <1>4, <1>5, <1>6, <2>1, EndRange, WrapAssumption
  <1>9. begin + (end - begin) <= disk
    BY <1>5, <1>8, WrapAssumption
  <1> QED BY <1>3, <1>6, <1>7, <1>9 DEF Inside

-----------------------------------------------------------------------------
(* Cylinder, head and sector of an entry's ends                             *)

\* What is kept about the geometry of an entry that the program worked out: both
\* ends were converted with it, a track has at most 63 sectors, and a partition
\* of a type with cylinders ends below cylinder 1024 (if the disk's size is known,
\* and the partition lies inside).
ChsRight(p, g) ==
    /\ g.heads \in Nat /\ g.heads >= 1 /\ g.sectors \in 1..63
    /\ p.nr > 0
    /\ p.start = SetOffset(p.begin, g) /\ p.end = SetOffset(p.begin + p.nr - 1, g)
    /\ p.type \in {1, 4, 6} /\ (disk # 0 => Inside(p)) =>
          p.begin + p.nr <= 1024 * (g.heads * g.sectors)
ChsKept == \A i \in Present(table) : geom[i].own => ChsRight(table[i], geom[i])

PartitionInv == Typed /\ ChsKept

\* An entry made without a given geometry and type has its ends right.
LEMMA CreatedChs ==
    ASSUME NEW t \in [Numbers -> Entries], NEW o \in Options, disk \in 0..Wrap-1,
           CanCreate(t, o, Geometry(o, disk)),
           o.geom = Unset, o.type = 0, Undescribed(o.drive),
           NEW own
    PROVE  ChsRight(NewEntry(t, o, Geometry(o, disk)),
                    [heads |-> Geometry(o, disk).heads, sectors |-> Geometry(o, disk).sectors,
                     own |-> own])
  <1> DEFINE g == Geometry(o, disk)
             p == NewEntry(t, o, g)
             q == [heads |-> g.heads, sectors |-> g.sectors, own |-> own]
  <1>0. disk \in Nat /\ Wrap \in Nat
    BY WrapAssumption
  <1>1. /\ g.heads \in Nat /\ g.heads >= 1 /\ g.sectors \in 1..63
        /\ \/ disk > 0 /\ disk <= 1024 * (g.heads * g.sectors)
           \/ g.heads * g.sectors >= 64
    BY <1>0, GeometryShape
  <1>2. Sized(g)
    BY <1>1 DEF Sized
  <1>3. PICK begin \in 0..Wrap-1, end \in 0..Wrap-1 :
           /\ begin < end
           /\ p = [type   |-> IF o.type # 0 THEN o.type
                              ELSE TypeFor(begin, end, g, o.drive.fatBits),
                   active |-> Actives(t) = {}, begin |-> begin, nr |-> end - begin,
                   start  |-> SetOffset(begin, g), end |-> SetOffset(end - 1, g)]
    <2> HIDE DEF g
    <2> QED BY <1>2, Created DEF g
  <1> HIDE DEF p, g
  <1>4. /\ begin \in Nat /\ end \in Nat /\ begin < end
        /\ p.begin = begin /\ p.nr = end - begin
        /\ p.start = SetOffset(begin, g) /\ p.end = SetOffset(end - 1, g)
        /\ p.type = TypeFor(begin, end, g, o.drive.fatBits)
    BY <1>0, <1>3
  <1>5. p.nr > 0 /\ begin + (end - begin) = end
    BY <1>4
  <1>6. \A x : SetOffset(x, q) = SetOffset(x, g)
    BY DEF SetOffset
  <1>7. p.start = SetOffset(p.begin, q) /\ p.end = SetOffset(p.begin + p.nr - 1, q)
    BY <1>4, <1>5, <1>6
  <1>8. ASSUME p.type \in {1, 4, 6}, disk # 0 => Inside(p)
        PROVE  p.begin + p.nr <= 1024 * (g.heads * g.sectors)
    <2> DEFINE n == g.heads * g.sectors
    <2>0. n \in Nat
      BY <1>1
    <2>00. g.sectors * g.heads * 1024 = 1024 * n
      BY <1>1
    <2> HIDE DEF n
    <2>1. end < 65536 \/ end < 1024 * n
      <3>1. ASSUME NEW b \in {0, 12, 16, 32}, NEW e \in Nat, TypeFor(begin, e, g, b) \in {1, 4, 6},
                   e >= 65536
            PROVE  e < g.sectors * g.heads * 1024
        <4>1. b # 32
          BY <3>1 DEF TypeFor
        <4> DEFINE top == g.sectors * g.heads * 1024
        <4>2. TypeFor(begin, e, g, b) = IF e < top THEN 6 ELSE 14
          <5>1. CASE b # 0
            <6>1. ~(b = 32) /\ ~(e < 65536)
              BY <3>1, <4>1
            <6> HIDE DEF top
            <6> QED BY <3>1, <4>1, <5>1 DEF TypeFor, top
          <5>2. CASE b = 0
            BY <1>4, <3>1, <5>2 DEF TypeFor
          <5> QED BY <5>1, <5>2
        <4> HIDE DEF top
        <4> QED BY <3>1, <4>2 DEF top
      <3>2. o.drive.fatBits \in {0, 12, 16, 32}
        BY DEF Options
      <3>3. end >= 65536 => end < g.sectors * g.heads * 1024
        BY <1>4, <1>8, <3>1, <3>2
      <3> QED BY <1>4, <2>00, <3>3
    <2>2. p.begin + p.nr = end
      BY <1>4, <1>5
    <2>3. disk # 0 => end <= disk
      BY <1>8, <2>2 DEF Inside
    <2>4. (disk > 0 /\ disk <= 1024 * n) \/ n >= 64
      BY <1>1 DEF n
    <2>5. end <= 1024 * n
      BY <1>0, <1>4, <2>0, <2>1, <2>3, <2>4
    <2> QED BY <2>2, <2>5 DEF n
  <1>9. q.heads = g.heads /\ q.sectors = g.sectors
    OBVIOUS
  <1> HIDE DEF q
  <1> QED BY <1>1, <1>5, <1>4, <1>7, <1>8, <1>9 DEF ChsRight, p, q, g

\* Before the first command nothing has been promised.
LEMMA InitPartition == Init => PartitionInv
  <1> SUFFICES ASSUME Init PROVE PartitionInv
    OBVIOUS
  <1>1. disk \in 0..Wrap-1
    <2>1. drive \in Drives /\ disk = Seen(drive) /\ Seen(drive) # Unmapped
      BY DEF Init
    <2>2. disk \in Unmapped..Wrap-1 /\ disk # Unmapped
      BY <2>1, DrivesAssumption
    <2> QED BY <2>2, WrapAssumption DEF Unmapped
  <1>2. table \in [Numbers -> Entries] /\ signed \in BOOLEAN
    BY TablesAssumption DEF Init
  <1>3. geom = [i \in Numbers |-> NoGeometry] /\ commands = 0
    BY DEF Init
  <1>4. NoGeometry \in [heads : Nat, sectors : Nat, own : BOOLEAN] /\ ~NoGeometry.own
    BY DEF NoGeometry
  <1>5. geom \in [Numbers -> [heads : Nat, sectors : Nat, own : BOOLEAN]]
        /\ \A i \in Numbers : ~geom[i].own
    BY <1>3, <1>4
  <1> QED BY <1>1, <1>2, <1>3, <1>5 DEF PartitionInv, Typed, ChsKept, Present

\* A command keeps the fields in their ranges and the ends of the entries right.
LEMMA CommandKeepsInv ==
    ASSUME PartitionInv, NEW o \in Commands, Mpartition(o)
    PROVE  PartitionInv'
  <1> DEFINE g == Geometry(o, disk)
             t == Built(o)
             own == o.geom = Unset /\ o.type = 0 /\ Undescribed(o.drive)
             q == [heads |-> g.heads, sectors |-> g.sectors, own |-> own]
  <1>1. /\ o \in Options /\ table' = Activated(t, o) /\ disk' = disk
        /\ o.create => CanCreate(Rest(o), o, g)
    BY CommandIs
  <1>2. Typed /\ ChsKept /\ disk \in 0..Wrap-1
    BY DEF PartitionInv, Typed
  <1>3. /\ t \in [Numbers -> Entries] /\ o.part \in Numbers
        /\ \A i \in Numbers : ~(o.create /\ i = o.part) => t[i] = Rest(o)[i]
        /\ o.create => t[o.part] = NewEntry(Rest(o), o, g)
    BY <1>1, <1>2, BuiltIs DEF Options
  <1>4. geom' = [i \in Numbers |->
                    IF i = o.part /\ o.create THEN q
                    ELSE IF o.init \/ (i = o.part /\ o.remove) THEN NoGeometry ELSE geom[i]]
    BY DEF Mpartition
  <1>5. /\ table' \in [Numbers -> Entries] /\ Present(table') = Present(t)
        /\ \A i \in Numbers : /\ table'[i].type = t[i].type
                              /\ table'[i].begin = t[i].begin /\ table'[i].nr = t[i].nr
                              /\ table'[i].start = t[i].start /\ table'[i].end = t[i].end
    <2> HIDE DEF t
    <2> QED BY <1>1, <1>3, ActivatedIs
  <1>6. g.heads \in Nat /\ g.sectors \in Nat
    BY <1>1, <1>2, GeometryShape, WrapAssumption
  <1>7. q \in [heads : Nat, sectors : Nat, own : BOOLEAN]
        /\ NoGeometry \in [heads : Nat, sectors : Nat, own : BOOLEAN] /\ ~NoGeometry.own
        /\ q.own = own
    <2>1. own \in BOOLEAN
      OBVIOUS
    <2> HIDE DEF g, own
    <2> QED BY <1>6, <2>1 DEF NoGeometry
  <1>8. Rest(o) \in [Numbers -> Entries]
        /\ \A i \in Present(Rest(o)) : /\ Rest(o)[i] = table[i] /\ i \in Present(table)
                                       /\ ~o.init /\ ~(o.remove /\ i = o.part)
    BY <1>1, <1>2, RestIs
  <1> HIDE DEF t, q, g
  <1>9. Typed'
    <2>1. signed' \in BOOLEAN /\ commands' \in Nat
      BY <1>2, CommandIs DEF Mpartition, Typed
    <2>2. geom' \in [Numbers -> [heads : Nat, sectors : Nat, own : BOOLEAN]]
      BY <1>2, <1>4, <1>7 DEF Typed
    <2> QED BY <1>1, <1>2, <1>5, <2>1, <2>2 DEF Typed
  <1>10. ASSUME NEW i \in Present(table)', geom'[i].own
         PROVE  ChsRight(t[i], geom'[i])
    <2>1. i \in Numbers /\ i \in Present(t) /\ t[i].type # 0
      BY <1>5, <1>10 DEF Present
    <2>2. CASE i = o.part /\ o.create
      <3>1. geom'[i] = q /\ own
        BY <1>4, <1>7, <1>10, <2>1, <2>2
      <3>2. ChsRight(NewEntry(Rest(o), o, g), q)
        BY <1>1, <1>2, <1>8, <2>2, <3>1, CreatedChs DEF q, g
      <3> QED BY <1>3, <2>2, <3>1, <3>2
    <2>3. CASE ~(i = o.part /\ o.create)
      <3>1. t[i] = Rest(o)[i] /\ i \in Present(Rest(o))
        BY <1>3, <2>1, <2>3 DEF Present
      <3>2. t[i] = table[i] /\ i \in Present(table) /\ ~o.init /\ ~(o.remove /\ i = o.part)
        BY <1>8, <3>1
      <3>3. geom'[i] = geom[i]
        BY <1>4, <2>1, <2>3, <3>2
      <3> QED BY <1>2, <1>10, <3>2, <3>3 DEF ChsKept
    <2> QED BY <2>2, <2>3
  <1>11. ChsKept'
    <2> SUFFICES ASSUME NEW i \in Present(table)', geom'[i].own
                 PROVE  ChsRight(table[i], geom[i])'
      BY DEF ChsKept
    <2>1. ChsRight(t[i], geom'[i]) /\ i \in Numbers
      BY <1>10 DEF Present
    <2> QED BY <1>1, <1>5, <2>1 DEF ChsRight, Inside, SetOffset
  <1> QED BY <1>9, <1>11 DEF PartitionInv

\* Every step keeps the invariant of the table.
LEMMA NextPartition == PartitionInv /\ [Next]_vars => PartitionInv'
  <1> SUFFICES ASSUME PartitionInv, [Next]_vars PROVE PartitionInv'
    OBVIOUS
  <1>1. ASSUME NEW o \in Commands, Mpartition(o) PROVE PartitionInv'
    BY <1>1, CommandKeepsInv
  <1>2. CASE UNCHANGED <<disk, table, signed, geom, commands>>
    BY <1>2 DEF PartitionInv, Typed, ChsKept, ChsRight, Present, Inside, SetOffset
  <1> QED
    BY <1>1, <1>2 DEF Next, OpenPartition, Transfer, ClosePartition, vars

\* Whatever table and disk a command finds, it leaves no two partitions that share
\* a sector unless told to (or unless an entry of the table it found wraps), turns
\* no table with one active partition into one with two unless told to, and places
\* a partition inside the disk when it may choose the place.
THEOREM TableStaysSound == Spec => KeepsTableSound
  <1> DEFINE Sound == commands' > commands => StaysApart /\ PlainFits
  <1>1. PartitionInv /\ [Next]_vars => [Sound]_vars
    <2> SUFFICES ASSUME PartitionInv, Next, commands' > commands PROVE StaysApart /\ PlainFits
      BY DEF Sound, vars
    <2>0. commands \in Nat
      BY DEF PartitionInv, Typed
    <2>1. PICK o \in Commands : Mpartition(o)
      BY <2>0 DEF Next, OpenPartition, Transfer, ClosePartition
    <2> QED BY <2>1, CommandKeepsApart, CommandFits DEF PartitionInv
  <1>2. Spec => [][Sound]_vars
    BY <1>1, InitPartition, NextPartition, PTL DEF Spec
  <1> QED BY <1>2 DEF KeepsTableSound

\* A partition with a type addressed by cylinder, head and sector, created with a
\* geometry of the program's own, can be addressed so.
THEOREM ChsLeadsBack == Spec => []ChsAgrees
  <1>1. PartitionInv => ChsAgrees
    <2> SUFFICES ASSUME PartitionInv, NEW i \in Present(table), geom[i].own,
                        table[i].type \in {1, 4, 6}, disk # 0 => Inside(table[i])
                 PROVE  /\ Address(table[i].start, geom[i]) = table[i].begin
                        /\ Address(table[i].end, geom[i]) = table[i].begin + table[i].nr - 1
      BY DEF ChsAgrees
    <2> DEFINE p == table[i]  g == geom[i]
    <2>1. ChsRight(p, g) /\ p \in Entries
      BY DEF PartitionInv, ChsKept, Typed, Present
    <2>2. p.begin \in Nat /\ p.nr \in Nat
      BY <2>1, WrapAssumption DEF Entries
    <2> HIDE DEF p, g
    <2>3. /\ g.heads \in Nat /\ g.heads >= 1 /\ g.sectors \in 1..63 /\ p.nr > 0
          /\ p.start = SetOffset(p.begin, g) /\ p.end = SetOffset(p.begin + p.nr - 1, g)
          /\ p.begin + p.nr <= 1024 * (g.heads * g.sectors)
      BY <2>1 DEF ChsRight, p, g
    <2>4. 1024 * (g.heads * g.sectors) \in Nat
      BY <2>3
    <2>5. /\ p.begin + p.nr - 1 \in Nat
          /\ p.begin < 1024 * (g.heads * g.sectors)
          /\ p.begin + p.nr - 1 < 1024 * (g.heads * g.sectors)
      BY <2>2, <2>3, <2>4
    <2>6. Address(SetOffset(p.begin, g), g) = p.begin
      BY <2>2, <2>3, <2>5, OffsetRead
    <2>7. Address(SetOffset(p.begin + p.nr - 1, g), g) = p.begin + p.nr - 1
      BY <2>2, <2>3, <2>5, OffsetRead
    <2> QED BY <2>3, <2>6, <2>7 DEF p, g
  <1> QED BY <1>1, InitPartition, NextPartition, PTL DEF Spec

-----------------------------------------------------------------------------
(* The data map: what process_map computes                                  *)

\* Counting up reaches every number.
LEMMA Counting ==
    ASSUME NEW T, 0 \in T, \A n \in Nat : n \in T => n + 1 \in T
    PROVE  \A n \in Nat : n \in T
  <1> DEFINE Missed == {n \in Nat : n \notin T}
  <1> SUFFICES ASSUME Missed # {} PROVE FALSE
    OBVIOUS
  <1>1. PICK i \in Missed : \A j \in Missed : <<j, i>> \notin OpToRel(<, Nat)
    BY WFMin, NatLessThanWellFounded
  <1>2. i \in Nat /\ i \notin T /\ i # 0
    OBVIOUS
  <1>3. i - 1 \in Nat /\ (i - 1) + 1 = i /\ i - 1 < i
    BY <1>2
  <1>4. i - 1 \notin T
    BY <1>2, <1>3
  <1>5. i - 1 \in Missed
    BY <1>3, <1>4
  <1>6. <<i - 1, i>> \in OpToRel(<, Nat)
    BY <1>2, <1>3 DEF OpToRel
  <1> QED BY <1>1, <1>5, <1>6

Start == [pieces |-> <<>>, remapped |-> 0, orig |-> 0]
Trailing == [type |-> "data", len |-> 0]
IsRun(f, all, m) ==
    f = [k \in 0..m |-> IF k = 0 THEN Start ELSE Mapped(f[k - 1], all[k])]

\* The items can be gone through one after the other.
LEMMA RunExists ==
    ASSUME NEW all PROVE \A m \in Nat : \E f : IsRun(f, all, m)
  <1> DEFINE T == {m \in Nat : \E f : IsRun(f, all, m)}
  <1>1. 0 \in T
    <2> DEFINE f == [k \in 0..0 |-> Start]
    <2>1. \A k \in 0..0 : k = 0
      OBVIOUS
    <2>2. IsRun(f, all, 0)
      BY <2>1 DEF IsRun
    <2> QED BY <2>2
  <1>2. ASSUME NEW m \in Nat, m \in T PROVE m + 1 \in T
    <2>1. PICK f : IsRun(f, all, m)
      BY <1>2
    <2> DEFINE h == [k \in 0..m+1 |-> IF k = m + 1 THEN Mapped(f[m], all[m + 1]) ELSE f[k]]
    <2>2. ASSUME NEW k \in 0..m+1
          PROVE  h[k] = IF k = 0 THEN Start ELSE Mapped(h[k - 1], all[k])
      <3>1. CASE k = 0
        <4>1. h[k] = f[0] /\ f[0] = Start
          BY <2>1, <3>1 DEF IsRun
        <4> QED BY <3>1, <4>1
      <3>2. CASE k = m + 1
        <4>1. h[k] = Mapped(f[m], all[k]) /\ k - 1 = m /\ m \in 0..m+1 /\ m # m + 1 /\ k # 0
          BY <3>2
        <4>2. h[m] = f[m]
          BY <4>1
        <4> QED BY <4>1, <4>2
      <3>3. CASE k # 0 /\ k # m + 1
        <4>1. k \in 0..m /\ k - 1 \in 0..m /\ k - 1 \in 0..m+1 /\ k - 1 # m + 1
          BY <3>3
        <4>2. h[k] = f[k] /\ h[k - 1] = f[k - 1]
          BY <3>3, <4>1
        <4>3. f[k] = Mapped(f[k - 1], all[k])
          BY <2>1, <3>3, <4>1 DEF IsRun
        <4> QED BY <3>3, <4>2, <4>3
      <3> QED BY <3>1, <3>2, <3>3
    <2>3. h = [k \in 0..m+1 |-> h[k]]
      OBVIOUS
    <2> HIDE DEF h
    <2>4. IsRun(h, all, m + 1)
      BY <2>2, <2>3 DEF IsRun
    <2> QED BY <2>4
  <1> HIDE DEF T
  <1>3. \A m \in Nat : m \in T
    BY <1>1, <1>2, Counting
  <1> QED BY <1>3 DEF T

\* What process_map returns, and what it holds after each item.
LEMMA ProcessIs ==
    ASSUME NEW items \in Seq(Items)
    PROVE  \E f : /\ f[0] = Start
                  /\ \A k \in 1..Len(items) : f[k] = Mapped(f[k - 1], items[k])
                  /\ ProcessMap(items) = Mapped(f[Len(items)], Trailing)
  <1> DEFINE all == Append(items, Trailing)
             g == CHOOSE f : IsRun(f, all, Len(all))
  <1>1. /\ Len(items) \in Nat /\ Len(all) = Len(items) + 1
        /\ \A k \in 1..Len(items) : all[k] = items[k]
        /\ all[Len(items) + 1] = Trailing
    OBVIOUS
  <1>2. ProcessMap(items) = g[Len(all)]
    BY DEF ProcessMap, IsRun, Start, Trailing
  <1>3. IsRun(g, all, Len(all))
    <2> HIDE DEF all
    <2>1. \E f : IsRun(f, all, Len(all))
      BY <1>1, RunExists
    <2> QED BY <2>1
  <1> HIDE DEF g, all
  <1>4. \A k \in 0..Len(items)+1 : g[k] = IF k = 0 THEN Start ELSE Mapped(g[k - 1], all[k])
    BY <1>1, <1>3 DEF IsRun
  <1>5. g[0] = Start
    BY <1>1, <1>4
  <1>6. \A k \in 1..Len(items) : g[k] = Mapped(g[k - 1], items[k])
    BY <1>1, <1>4
  <1>7. g[Len(items) + 1] = Mapped(g[Len(items)], Trailing)
    <2>1. Len(items) + 1 \in 0..Len(items)+1 /\ Len(items) + 1 # 0
          /\ (Len(items) + 1) - 1 = Len(items)
      BY <1>1
    <2> QED BY <1>1, <1>4, <2>1
  <1> QED BY <1>1, <1>2, <1>5, <1>6, <1>7

\* A map without "pos" goes through the image from front to back.
Straight(items) == \A i \in DOMAIN items : items[i].type # "pos"

Pieces == [orig : Nat, remapped : Nat, type : {"data", "zero"}]

\* Where piece i ends above, and where the image goes on behind it.
Upto(x, i) == IF i < Len(x.pieces) THEN x.pieces[i + 1].remapped ELSE x.remapped
Past(x, i) == IF x.pieces[i].type = "data"
              THEN x.pieces[i].orig + (Upto(x, i) - x.pieces[i].remapped)
              ELSE x.pieces[i].orig

\* The pieces follow each other without a gap above, and in order below.
Laid(x) ==
    /\ x.orig \in Nat /\ x.remapped \in Nat /\ x.pieces \in Seq(Pieces)
    /\ IF x.pieces = <<>> THEN x.remapped = 0 ELSE x.pieces[1].remapped = 0
    /\ \A i \in 1..Len(x.pieces) :
          x.pieces[i].remapped <= Upto(x, i) /\ Upto(x, i) <= x.remapped /\ Past(x, i) <= x.orig
    /\ \A i, j \in 1..Len(x.pieces) : i < j =>
          Upto(x, i) <= x.pieces[j].remapped /\ Past(x, i) <= x.pieces[j].orig

\* What a piece holds of the image ends before a gap or begins behind it.
ClearOf(x, from, to) ==
    /\ to <= x.orig
    /\ \A i \in 1..Len(x.pieces) :
          x.pieces[i].type = "data" => Past(x, i) <= from \/ to <= x.pieces[i].orig

\* The map begins without pieces.
LEMMA StartLaid == Laid(Start)
  <1>1. Start.pieces = <<>> /\ Start.orig = 0 /\ Start.remapped = 0 /\ Len(Start.pieces) = 0
    BY DEF Start
  <1>2. Start.pieces \in Seq(Pieces)
    BY <1>1
  <1>3. 1..Len(Start.pieces) = {}
    BY <1>1
  <1> QED BY <1>1, <1>2, <1>3 DEF Laid

\* The numbers of a layout are not negative, and each piece ends within it.
LEMMA LaidRange ==
    ASSUME NEW x, Laid(x)
    PROVE  /\ x.orig \in Nat /\ x.remapped \in Nat /\ x.pieces \in Seq(Pieces)
           /\ Len(x.pieces) \in Nat
           /\ \A i \in 1..Len(x.pieces) :
                 /\ x.pieces[i] \in Pieces
                 /\ x.pieces[i].remapped \in Nat /\ x.pieces[i].orig \in Nat
                 /\ Upto(x, i) \in Nat /\ Past(x, i) \in Nat
                 /\ x.pieces[i].remapped <= Upto(x, i) /\ Upto(x, i) <= x.remapped
                 /\ x.pieces[i].orig <= Past(x, i) /\ Past(x, i) <= x.orig
  <1>1. x.orig \in Nat /\ x.remapped \in Nat /\ x.pieces \in Seq(Pieces)
    BY DEF Laid
  <1>2. Len(x.pieces) \in Nat /\ \A i \in 1..Len(x.pieces) : x.pieces[i] \in Pieces
    BY <1>1
  <1> SUFFICES ASSUME NEW i \in 1..Len(x.pieces)
               PROVE  /\ x.pieces[i] \in Pieces
                      /\ x.pieces[i].remapped \in Nat /\ x.pieces[i].orig \in Nat
                      /\ Upto(x, i) \in Nat /\ Past(x, i) \in Nat
                      /\ x.pieces[i].remapped <= Upto(x, i) /\ Upto(x, i) <= x.remapped
                      /\ x.pieces[i].orig <= Past(x, i) /\ Past(x, i) <= x.orig
    BY <1>1, <1>2
  <1>3. x.pieces[i] \in Pieces /\ x.pieces[i].remapped \in Nat /\ x.pieces[i].orig \in Nat
    BY <1>2 DEF Pieces
  <1>4. /\ x.pieces[i].remapped <= Upto(x, i) /\ Upto(x, i) <= x.remapped
        /\ Past(x, i) <= x.orig
    BY DEF Laid
  <1>5. Upto(x, i) \in Nat
    <2>1. CASE i < Len(x.pieces)
      <3>1. i + 1 \in 1..Len(x.pieces)
        BY <1>2, <2>1
      <3>2. x.pieces[i + 1] \in Pieces
        BY <1>2, <3>1
      <3> QED BY <2>1, <3>2 DEF Upto, Pieces
    <2>2. CASE ~(i < Len(x.pieces))
      BY <1>1, <2>2 DEF Upto
    <2> QED BY <2>1, <2>2
  <1>6. Past(x, i) \in Nat /\ x.pieces[i].orig <= Past(x, i)
    BY <1>3, <1>4, <1>5 DEF Past
  <1> QED BY <1>3, <1>4, <1>5, <1>6

\* A skip item only moves on in the image.
LEMMA SkipLaid ==
    ASSUME NEW x, Laid(x), NEW len \in Nat, NEW y,
           y.pieces = x.pieces, y.remapped = x.remapped, y.orig = x.orig + len
    PROVE  /\ Laid(y) /\ ClearOf(y, x.orig, y.orig)
           /\ \A from, to \in Nat : ClearOf(x, from, to) => ClearOf(y, from, to)
  <1>1. \A i : Upto(y, i) = Upto(x, i) /\ Past(y, i) = Past(x, i)
    BY DEF Upto, Past
  <1>3. \A i \in 1..Len(x.pieces) : Past(x, i) \in Nat /\ Past(x, i) <= x.orig
    BY LaidRange
  <1>4. y.orig \in Nat /\ x.orig \in Nat /\ x.orig <= y.orig
    BY DEF Laid
  <1>5. \A i \in 1..Len(x.pieces) : Past(x, i) <= x.orig
    BY <1>3
  <1>6. \A i \in 1..Len(x.pieces) : Past(x, i) <= y.orig
    <2> SUFFICES ASSUME NEW i \in 1..Len(x.pieces) PROVE Past(x, i) <= y.orig
      OBVIOUS
    <2>1. Past(x, i) \in Nat /\ Past(x, i) <= x.orig
      BY <1>3
    <2> QED BY <1>4, <2>1
  <1>7. Laid(y)
    BY <1>1, <1>4, <1>6 DEF Laid
  <1>8. ClearOf(y, x.orig, y.orig)
    BY <1>1, <1>4, <1>5 DEF ClearOf
  <1>9. ASSUME NEW from \in Nat, NEW to \in Nat, ClearOf(x, from, to) PROVE ClearOf(y, from, to)
    BY <1>1, <1>4, <1>9 DEF ClearOf
  <1> QED BY <1>7, <1>8, <1>9

\* An item that is seen adds a piece.
LEMMA PieceLaid ==
    ASSUME NEW x, Laid(x), NEW len \in Nat, NEW type \in {"data", "zero"}, NEW y,
           y.pieces = Append(x.pieces, [orig |-> x.orig, remapped |-> x.remapped, type |-> type]),
           y.remapped = x.remapped + len,
           y.orig = x.orig + (IF type = "zero" THEN 0 ELSE len)
    PROVE  /\ Laid(y)
           /\ \A from, to \in Nat : ClearOf(x, from, to) => ClearOf(y, from, to)
  <1> DEFINE n == Len(x.pieces)
             piece == [orig |-> x.orig, remapped |-> x.remapped, type |-> type]
  <1>1. /\ n \in Nat /\ x.pieces \in Seq(Pieces) /\ x.orig \in Nat /\ x.remapped \in Nat
        /\ y.remapped \in Nat /\ y.orig \in Nat /\ piece \in Pieces
        /\ x.remapped <= y.remapped /\ x.orig <= y.orig
    BY DEF Laid, Pieces
  <1>2. /\ y.pieces \in Seq(Pieces) /\ Len(y.pieces) = n + 1 /\ y.pieces[n + 1] = piece
        /\ \A i \in 1..n : y.pieces[i] = x.pieces[i]
        /\ y.pieces # <<>>
    <2> HIDE DEF piece
    <2>1. y.pieces = Append(x.pieces, piece)
      BY DEF piece
    <2>2. Len(y.pieces) = n + 1 /\ y.pieces \in Seq(Pieces)
      BY <1>1, <2>1, AppendProperties
    <2>3. y.pieces[n + 1] = piece /\ \A i \in 1..n : y.pieces[i] = x.pieces[i]
      BY <1>1, <2>1, AppendProperties
    <2>4. y.pieces # <<>>
      BY <1>1, <2>1, AppendProperties
    <2> QED BY <2>2, <2>3, <2>4
  <1>3. piece.remapped = x.remapped /\ piece.orig = x.orig /\ piece.type = type
    OBVIOUS
  <1> HIDE DEF n, piece
  <1>4. \A i \in 1..n : Upto(y, i) = Upto(x, i) /\ Past(y, i) = Past(x, i)
    <2> SUFFICES ASSUME NEW i \in 1..n PROVE Upto(y, i) = Upto(x, i) /\ Past(y, i) = Past(x, i)
      OBVIOUS
    <2>1. CASE i < n
      <3>1. i + 1 \in 1..n /\ i < n + 1
        BY <1>1, <2>1
      <3> QED BY <1>2, <2>1, <3>1 DEF Upto, Past, n
    <2>2. CASE i = n
      <3>1. i + 1 = n + 1 /\ i < n + 1 /\ ~(i < n)
        BY <1>1, <2>2
      <3>2. Upto(y, i) = x.remapped
        BY <1>2, <1>3, <3>1 DEF Upto
      <3>3. Upto(x, i) = x.remapped
        BY <3>1 DEF Upto, n
      <3> QED BY <1>2, <3>2, <3>3 DEF Past
    <2> QED BY <1>1, <2>1, <2>2
  <1>5. Upto(y, n + 1) = y.remapped
    BY <1>1, <1>2 DEF Upto
  <1>6. Past(y, n + 1) = y.orig
    <2>1. type = "data" => Past(y, n + 1) = x.orig + (y.remapped - x.remapped)
      BY <1>2, <1>3, <1>5 DEF Past
    <2>2. type = "zero" => Past(y, n + 1) = x.orig
      BY <1>2, <1>3 DEF Past
    <2> QED BY <1>1, <2>1, <2>2
  <1>7. \A i \in 1..n : /\ x.pieces[i].remapped \in Nat /\ x.pieces[i].orig \in Nat
                        /\ Upto(x, i) \in Nat /\ Past(x, i) \in Nat
                        /\ x.pieces[i].remapped <= Upto(x, i) /\ Upto(x, i) <= x.remapped
                        /\ Past(x, i) <= x.orig
    BY LaidRange DEF n
  <1>8. \A i, j \in 1..n : i < j =>
           Upto(x, i) <= x.pieces[j].remapped /\ Past(x, i) <= x.pieces[j].orig
    BY DEF Laid, n
  <1>9. \A i \in 1..n+1 : i \in 1..n \/ i = n + 1
    BY <1>1
  <1>10. y.pieces[1].remapped = 0
    <2>1. CASE n = 0
      <3>1. x.pieces = <<>>
        BY <1>1, <2>1 DEF n
      <3> QED BY <1>2, <1>3, <2>1, <3>1 DEF Laid
    <2>2. CASE n # 0
      <3>1. x.pieces # <<>> /\ 1 \in 1..n
        BY <1>1, <2>2 DEF n
      <3> QED BY <1>2, <3>1 DEF Laid
    <2> QED BY <2>1, <2>2
  <1>11. ASSUME NEW i \in 1..n+1
         PROVE  y.pieces[i].remapped <= Upto(y, i) /\ Upto(y, i) <= y.remapped /\ Past(y, i) <= y.orig
    <2>1. CASE i \in 1..n
      <3>1. y.pieces[i] = x.pieces[i] /\ Upto(y, i) = Upto(x, i) /\ Past(y, i) = Past(x, i)
        BY <1>2, <1>4, <2>1
      <3>2. /\ Upto(x, i) \in Nat /\ Past(x, i) \in Nat
            /\ x.pieces[i].remapped <= Upto(x, i) /\ Upto(x, i) <= x.remapped
            /\ Past(x, i) <= x.orig
        BY <1>7, <2>1
      <3>3. Upto(x, i) <= y.remapped /\ Past(x, i) <= y.orig
        BY <1>1, <3>2
      <3> QED BY <3>1, <3>2, <3>3
    <2>2. CASE i = n + 1
      BY <1>1, <1>2, <1>3, <1>5, <1>6, <2>2
    <2> QED BY <1>9, <2>1, <2>2
  <1>12. ASSUME NEW i \in 1..n+1, NEW j \in 1..n+1, i < j
         PROVE  Upto(y, i) <= y.pieces[j].remapped /\ Past(y, i) <= y.pieces[j].orig
    <2>1. i \in 1..n
      BY <1>1, <1>12
    <2>2. CASE j \in 1..n
      BY <1>2, <1>4, <1>8, <1>12, <2>1, <2>2
    <2>3. CASE j = n + 1
      BY <1>2, <1>3, <1>4, <1>7, <2>1, <2>3
    <2> QED BY <1>9, <2>2, <2>3
  <1>13. Laid(y)
    BY <1>1, <1>2, <1>10, <1>11, <1>12 DEF Laid
  <1>14. ASSUME NEW from \in Nat, NEW to \in Nat, ClearOf(x, from, to) PROVE ClearOf(y, from, to)
    <2>1. to <= x.orig /\ to <= y.orig
      BY <1>1, <1>14 DEF ClearOf
    <2>2. ASSUME NEW i \in 1..n+1, y.pieces[i].type = "data"
          PROVE  Past(y, i) <= from \/ to <= y.pieces[i].orig
      <3>1. CASE i \in 1..n
        BY <1>2, <1>4, <1>14, <2>2, <3>1 DEF ClearOf, n
      <3>2. CASE i = n + 1
        BY <1>2, <1>3, <2>1, <3>2
      <3> QED BY <1>9, <3>1, <3>2
    <2> QED BY <1>2, <2>1, <2>2 DEF ClearOf
  <1> QED BY <1>13, <1>14

\* How much of the image the items before each one cover.
Width(item) == IF item.type = "zero" THEN 0 ELSE item.len
IsSum(f, items, m) ==
    f = [k \in 0..m |-> IF k = 0 THEN 0 ELSE f[k - 1] + Width(items[k])]

\* The widths of the items before each one can be added up.
LEMMA SumExists ==
    ASSUME NEW items PROVE \A m \in Nat : \E f : IsSum(f, items, m)
  <1> DEFINE T == {m \in Nat : \E f : IsSum(f, items, m)}
  <1>1. 0 \in T
    <2> DEFINE f == [k \in 0..0 |-> 0]
    <2>1. \A k \in 0..0 : k = 0
      OBVIOUS
    <2>2. IsSum(f, items, 0)
      BY <2>1 DEF IsSum
    <2> QED BY <2>2
  <1>2. ASSUME NEW m \in Nat, m \in T PROVE m + 1 \in T
    <2>1. PICK f : IsSum(f, items, m)
      BY <1>2
    <2> DEFINE h == [k \in 0..m+1 |-> IF k = m + 1 THEN f[m] + Width(items[m + 1]) ELSE f[k]]
    <2>2. ASSUME NEW k \in 0..m+1
          PROVE  h[k] = IF k = 0 THEN 0 ELSE h[k - 1] + Width(items[k])
      <3>1. CASE k = 0
        <4>1. h[k] = f[0] /\ f[0] = 0
          BY <2>1, <3>1 DEF IsSum
        <4> QED BY <3>1, <4>1
      <3>2. CASE k = m + 1
        <4>1. h[k] = f[m] + Width(items[k]) /\ k - 1 = m /\ m \in 0..m+1 /\ m # m + 1 /\ k # 0
          BY <3>2
        <4>2. h[m] = f[m]
          BY <4>1
        <4> QED BY <4>1, <4>2
      <3>3. CASE k # 0 /\ k # m + 1
        <4>1. k \in 0..m /\ k - 1 \in 0..m /\ k - 1 \in 0..m+1 /\ k - 1 # m + 1
          BY <3>3
        <4>2. h[k] = f[k] /\ h[k - 1] = f[k - 1]
          BY <3>3, <4>1
        <4>3. f[k] = f[k - 1] + Width(items[k])
          BY <2>1, <3>3, <4>1 DEF IsSum
        <4> QED BY <3>3, <4>2, <4>3
      <3> QED BY <3>1, <3>2, <3>3
    <2>3. h = [k \in 0..m+1 |-> h[k]]
      OBVIOUS
    <2> HIDE DEF h
    <2>4. IsSum(h, items, m + 1)
      BY <2>2, <2>3 DEF IsSum
    <2> QED BY <2>4
  <1> HIDE DEF T
  <1>3. \A m \in Nat : m \in T
    BY <1>1, <1>2, Counting
  <1> QED BY <1>3 DEF T

\* ... one by one.
LEMMA BeforeIs ==
    ASSUME NEW items \in Seq(Items)
    PROVE  /\ Before(items)[0] = 0
           /\ \A k \in 1..Len(items) : Before(items)[k] = Before(items)[k - 1] + Width(items[k])
  <1> DEFINE b == CHOOSE f : IsSum(f, items, Len(items))
  <1>1. Before(items) = b
    BY DEF Before, IsSum, Width
  <1>2. Len(items) \in Nat
    OBVIOUS
  <1>3. \E f : IsSum(f, items, Len(items))
    BY <1>2, SumExists
  <1>4. IsSum(b, items, Len(items))
    BY <1>3
  <1> HIDE DEF b
  <1>5. b[0] = 0 /\ \A k \in 1..Len(items) : b[k] = b[k - 1] + Width(items[k])
    BY <1>2, <1>4 DEF IsSum
  <1> QED BY <1>1, <1>5

\* An item is a type and a number.
LEMMA ItemIs ==
    ASSUME NEW items \in Seq(Items), NEW k \in 1..Len(items)
    PROVE  /\ items[k].len \in Nat /\ Width(items[k]) \in Nat
           /\ items[k].type \in {"data", "skip", "zero", "pos"}
  <1>1. items[k] \in Items
    OBVIOUS
  <1>2. items[k].len \in Nat /\ items[k].type \in {"data", "skip", "zero", "pos"}
    BY <1>1 DEF Items
  <1> QED BY <1>2 DEF Width

\* A layout as a record.
Shaped(x) == x = [pieces |-> x.pieces, remapped |-> x.remapped, orig |-> x.orig]

\* What Mapped does with each kind of item.
LEMMA MappedIs ==
    ASSUME NEW x, Shaped(x), NEW item
    PROVE  LET y == Mapped(x, item) IN
           /\ Shaped(y)
           /\ item.type = "pos" =>
                 y.pieces = x.pieces /\ y.remapped = x.remapped /\ y.orig = item.len
           /\ item.type = "skip" =>
                 y.pieces = x.pieces /\ y.remapped = x.remapped + 0 /\ y.orig = x.orig + item.len
           /\ item.type \in {"data", "zero"} =>
                 /\ y.pieces = Append(x.pieces, [orig |-> x.orig, remapped |-> x.remapped,
                                                 type |-> item.type])
                 /\ y.remapped = x.remapped + item.len
                 /\ y.orig = x.orig + Width(item)
  <1> DEFINE y == Mapped(x, item)
             piece == [orig |-> x.orig, remapped |-> x.remapped, type |-> item.type]
  <1>1. CASE item.type = "pos"
    <2>1. y = [x EXCEPT !.orig = item.len]
      BY <1>1 DEF Mapped
    <2>2. [x EXCEPT !.orig = item.len]
          = [pieces |-> x.pieces, remapped |-> x.remapped, orig |-> item.len]
      BY DEF Shaped
    <2> HIDE DEF y
    <2>3. y.pieces = x.pieces /\ y.remapped = x.remapped /\ y.orig = item.len
      BY <2>1, <2>2
    <2>4. Shaped(y)
      BY <2>1, <2>2, <2>3 DEF Shaped
    <2> QED BY <1>1, <2>3, <2>4 DEF y
  <1>2. CASE item.type # "pos"
    <2>1. y = [pieces   |-> IF item.type \in {"data", "zero"} THEN Append(x.pieces, piece)
                            ELSE x.pieces,
               remapped |-> x.remapped + (IF item.type \in {"data", "zero"} THEN item.len ELSE 0),
               orig     |-> x.orig + (IF item.type = "zero" THEN 0 ELSE item.len)]
      BY <1>2 DEF Mapped
    <2> HIDE DEF y, piece
    <2>2. Shaped(y)
      BY <2>1 DEF Shaped
    <2>3. item.type = "skip" =>
             y.pieces = x.pieces /\ y.remapped = x.remapped + 0 /\ y.orig = x.orig + item.len
      BY <2>1
    <2>4. item.type \in {"data", "zero"} =>
             y.pieces = Append(x.pieces, piece) /\ y.remapped = x.remapped + item.len
             /\ y.orig = x.orig + Width(item)
      BY <2>1 DEF Width
    <2> QED BY <1>2, <2>2, <2>3, <2>4 DEF y, piece
  <1> QED BY <1>1, <1>2

\* What any map leaves behind, "pos" or not.
Held(x) == Shaped(x) /\ x.orig \in Nat /\ x.remapped \in Nat /\ x.pieces \in Seq(Pieces)

\* A map without pieces is one.
LEMMA StartHeld == Held(Start)
  <1>1. /\ Start.pieces = <<>> /\ Start.orig = 0 /\ Start.remapped = 0
        /\ Start = [pieces |-> <<>>, remapped |-> 0, orig |-> 0]
    BY DEF Start
  <1>2. Start.pieces \in Seq(Pieces)
    BY <1>1
  <1> QED BY <1>1, <1>2 DEF Held, Shaped

\* Each item leaves a map, whatever its kind.
LEMMA MappedHeld ==
    ASSUME NEW x, Held(x), NEW item, item.len \in Nat,
           item.type \in {"data", "skip", "zero", "pos"}
    PROVE  Held(Mapped(x, item))
  <1> DEFINE y == Mapped(x, item)
             piece == [orig |-> x.orig, remapped |-> x.remapped, type |-> item.type]
  <1> SUFFICES Held(y)
    OBVIOUS
  <1>1. Shaped(x) /\ x.orig \in Nat /\ x.remapped \in Nat /\ x.pieces \in Seq(Pieces)
    BY DEF Held
  <1>2. /\ Shaped(y)
        /\ item.type = "pos" =>
              y.pieces = x.pieces /\ y.remapped = x.remapped /\ y.orig = item.len
        /\ item.type = "skip" =>
              y.pieces = x.pieces /\ y.remapped = x.remapped + 0 /\ y.orig = x.orig + item.len
        /\ item.type \in {"data", "zero"} =>
              /\ y.pieces = Append(x.pieces, piece) /\ y.remapped = x.remapped + item.len
              /\ y.orig = x.orig + Width(item)
    BY <1>1, MappedIs
  <1> HIDE DEF y, piece
  <1>3. Width(item) \in Nat
    BY DEF Width
  <1>4. CASE item.type = "pos"
    BY <1>1, <1>2, <1>4 DEF Held
  <1>5. CASE item.type = "skip"
    BY <1>1, <1>2, <1>5 DEF Held
  <1>6. CASE item.type \in {"data", "zero"}
    <2>1. piece \in Pieces
      BY <1>1, <1>6 DEF Pieces, piece
    <2>2. y.pieces \in Seq(Pieces)
      BY <1>1, <1>2, <1>6, <2>1, AppendProperties
    <2> QED BY <1>1, <1>2, <1>3, <1>6, <2>2 DEF Held
  <1> QED BY <1>4, <1>5, <1>6

\* Every map leaves a sequence of at least one piece.
LEMMA MapHeld ==
    ASSUME NEW items \in Seq(Items)
    PROVE  Held(ProcessMap(items)) /\ ProcessMap(items).pieces # <<>>
  <1>1. PICK f : /\ f[0] = Start
                 /\ \A k \in 1..Len(items) : f[k] = Mapped(f[k - 1], items[k])
                 /\ ProcessMap(items) = Mapped(f[Len(items)], Trailing)
    BY ProcessIs
  <1> DEFINE T == {k \in Nat : k <= Len(items) => Held(f[k])}
  <1>2. Len(items) \in Nat
    OBVIOUS
  <1>3. 0 \in T
    BY <1>1, StartHeld
  <1>4. ASSUME NEW k \in Nat, k \in T PROVE k + 1 \in T
    <2> SUFFICES ASSUME k + 1 <= Len(items) PROVE Held(f[k + 1])
      OBVIOUS
    <2>1. Held(f[k]) /\ k + 1 \in 1..Len(items) /\ (k + 1) - 1 = k
      BY <1>2, <1>4
    <2>2. f[k + 1] = Mapped(f[k], items[k + 1])
      BY <1>1, <2>1
    <2>3. items[k + 1].len \in Nat /\ items[k + 1].type \in {"data", "skip", "zero", "pos"}
      BY <2>1, ItemIs
    <2> QED BY <2>1, <2>2, <2>3, MappedHeld
  <1>5. \A k \in Nat : k \in T
    <2> HIDE DEF T
    <2> QED BY <1>3, <1>4, Counting
  <1>6. Held(f[Len(items)])
    BY <1>2, <1>5
  <1>7. Trailing.len \in Nat /\ Trailing.type = "data"
    BY DEF Trailing
  <1>8. Held(ProcessMap(items))
    BY <1>1, <1>6, <1>7, MappedHeld
  <1>9. ProcessMap(items).pieces # <<>>
    <2> DEFINE x == f[Len(items)]
               piece == [orig |-> x.orig, remapped |-> x.remapped, type |-> Trailing.type]
    <2>1. Shaped(x) /\ x.pieces \in Seq(Pieces) /\ x.orig \in Nat /\ x.remapped \in Nat
      BY <1>6 DEF Held
    <2> HIDE DEF x
    <2>2. Mapped(x, Trailing).pieces = Append(x.pieces, piece)
      BY <1>7, <2>1, MappedIs
    <2>3. piece \in Pieces
      BY <1>7, <2>1 DEF Pieces
    <2> HIDE DEF piece
    <2>4. Append(x.pieces, piece) # <<>>
      BY <2>1, <2>3, AppendProperties
    <2> QED BY <1>1, <2>2, <2>4 DEF x
  <1> QED BY <1>8, <1>9

\* The whole of a straight map: its pieces are laid out in order, what it leaves
\* out is clear of them, and the last one is data and begins where the items end.
LEMMA MapLaid ==
    ASSUME NEW items \in Seq(Items), Straight(items)
    PROVE  LET y == ProcessMap(items)
               b == Before(items)
               n == Len(y.pieces)
           IN /\ Laid(y) /\ n \in Nat /\ n >= 1
              /\ y.orig = b[Len(items)] /\ y.remapped = y.pieces[n].remapped
              /\ y.pieces[n].orig = y.orig /\ y.pieces[n].type = "data"
              /\ \A i \in 1..Len(items) : items[i].type = "skip" =>
                    b[i - 1] \in Nat /\ b[i] \in Nat /\ ClearOf(y, b[i - 1], b[i])
  <1> DEFINE b == Before(items)
             y == ProcessMap(items)
             Gap(x, i) == b[i - 1] \in Nat /\ b[i] \in Nat /\ ClearOf(x, b[i - 1], b[i])
  <1>1. PICK f : /\ f[0] = Start
                 /\ \A k \in 1..Len(items) : f[k] = Mapped(f[k - 1], items[k])
                 /\ y = Mapped(f[Len(items)], Trailing)
    BY ProcessIs
  <1> DEFINE Good(k) == /\ Laid(f[k]) /\ Shaped(f[k]) /\ f[k].orig = b[k]
                        /\ \A i \in 1..k : items[i].type = "skip" => Gap(f[k], i)
             T == {k \in Nat : k <= Len(items) => Good(k)}
  <1>2. Len(items) \in Nat
    OBVIOUS
  <1>3. 0 \in T
    <2>1. f[0].orig = b[0]
      BY <1>1, BeforeIs DEF Start
    <2>2. Laid(f[0]) /\ Shaped(f[0])
      BY <1>1, StartLaid, StartHeld DEF Held
    <2>3. 1..0 = {}
      OBVIOUS
    <2> QED BY <2>1, <2>2, <2>3
  <1>4. ASSUME NEW k \in Nat, k \in T PROVE k + 1 \in T
    <2> SUFFICES ASSUME k + 1 <= Len(items) PROVE Good(k + 1)
      OBVIOUS
    <2> DEFINE item == items[k + 1]  x == f[k]  z == f[k + 1]
    <2>1. Good(k) /\ k + 1 \in 1..Len(items) /\ (k + 1) - 1 = k
      BY <1>2, <1>4
    <2>2. z = Mapped(x, item)
      BY <1>1, <2>1
    <2>3. item.len \in Nat /\ item.type \in {"data", "skip", "zero", "pos"} /\ Width(item) \in Nat
      BY <2>1, ItemIs
    <2>4. item.type # "pos"
      BY <2>1 DEF Straight
    <2>5. b[k + 1] = b[k] + Width(item)
      BY <2>1, BeforeIs
    <2>6. Laid(x) /\ Shaped(x) /\ x.orig = b[k] /\ x.orig \in Nat /\ x.remapped \in Nat
      BY <2>1 DEF Laid
    <2>7. \A i \in 1..k : items[i].type = "skip" => Gap(x, i)
      BY <2>1
    <2>8. \A i \in 1..k+1 : i \in 1..k \/ i = k + 1
      OBVIOUS
    <2> HIDE DEF item, x, z, b
    <2>9. /\ Shaped(z)
          /\ item.type = "skip" =>
                z.pieces = x.pieces /\ z.remapped = x.remapped + 0 /\ z.orig = x.orig + item.len
          /\ item.type \in {"data", "zero"} =>
                /\ z.pieces = Append(x.pieces, [orig |-> x.orig, remapped |-> x.remapped,
                                                type |-> item.type])
                /\ z.remapped = x.remapped + item.len
                /\ z.orig = x.orig + Width(item)
      BY <2>2, <2>6, MappedIs
    <2>10. CASE item.type = "skip"
      <3>1. z.pieces = x.pieces /\ z.remapped = x.remapped /\ z.orig = x.orig + item.len
        BY <2>6, <2>9, <2>10
      <3>2. /\ Laid(z) /\ ClearOf(z, x.orig, z.orig)
            /\ \A from, to \in Nat : ClearOf(x, from, to) => ClearOf(z, from, to)
        BY <2>3, <2>6, <3>1, SkipLaid
      <3>3. z.orig = b[k + 1] /\ z.orig \in Nat
        BY <2>3, <2>5, <2>6, <2>10, <3>1 DEF Width
      <3>4. ASSUME NEW i \in 1..k+1, items[i].type = "skip" PROVE Gap(z, i)
        <4>1. CASE i \in 1..k
          BY <2>7, <3>2, <3>4, <4>1
        <4>2. CASE i = k + 1
          <5>1. i - 1 = k
            BY <4>2
          <5> QED BY <2>6, <3>2, <3>3, <4>2, <5>1
        <4> QED BY <2>8, <4>1, <4>2
      <3> QED BY <2>9, <3>2, <3>3, <3>4 DEF z
    <2>11. CASE item.type \in {"data", "zero"}
      <3>1. /\ z.pieces = Append(x.pieces, [orig |-> x.orig, remapped |-> x.remapped,
                                            type |-> item.type])
            /\ z.remapped = x.remapped + item.len
            /\ z.orig = x.orig + (IF item.type = "zero" THEN 0 ELSE item.len)
        BY <2>9, <2>11 DEF Width
      <3>2. /\ Laid(z)
            /\ \A from, to \in Nat : ClearOf(x, from, to) => ClearOf(z, from, to)
        BY <2>3, <2>6, <2>11, <3>1, PieceLaid
      <3>3. z.orig = b[k + 1]
        BY <2>5, <2>6, <2>9, <2>11
      <3>4. ASSUME NEW i \in 1..k+1, items[i].type = "skip" PROVE Gap(z, i)
        <4>1. i # k + 1
          BY <2>11, <3>4 DEF item
        <4>2. i \in 1..k
          BY <2>8, <4>1
        <4> QED BY <2>7, <3>2, <3>4, <4>2
      <3> QED BY <2>9, <3>2, <3>3, <3>4 DEF z
    <2> QED BY <2>3, <2>4, <2>10, <2>11
  <1>5. \A k \in Nat : k \in T
    <2> HIDE DEF T
    <2> QED BY <1>3, <1>4, Counting
  <1>6. Good(Len(items))
    BY <1>2, <1>5
  <1> DEFINE x == f[Len(items)]
             piece == [orig |-> x.orig, remapped |-> x.remapped, type |-> "data"]
  <1>7. /\ Laid(x) /\ Shaped(x) /\ x.orig = b[Len(items)]
        /\ \A i \in 1..Len(items) : items[i].type = "skip" => Gap(x, i)
    BY <1>6
  <1>8. x.orig \in Nat /\ x.remapped \in Nat /\ x.pieces \in Seq(Pieces)
    BY <1>7 DEF Laid
  <1>9. y = Mapped(x, Trailing) /\ Trailing.type = "data" /\ Trailing.len = 0 /\ Width(Trailing) = 0
    BY <1>1 DEF Trailing, Width
  <1> HIDE DEF x, y, b, T
  <1>10. y.pieces = Append(x.pieces, piece) /\ y.remapped = x.remapped + 0 /\ y.orig = x.orig + 0
    BY <1>7, <1>9, MappedIs
  <1>11. piece \in Pieces /\ piece.orig = x.orig /\ piece.remapped = x.remapped /\ piece.type = "data"
    BY <1>8 DEF Pieces
  <1>12. Laid(y) /\ \A from, to \in Nat : ClearOf(x, from, to) => ClearOf(y, from, to)
    <2>1. "data" \in {"data", "zero"} /\ 0 \in Nat
      OBVIOUS
    <2>2. y.orig = x.orig + (IF "data" = "zero" THEN 0 ELSE 0)
      BY <1>10
    <2> QED BY <1>7, <1>10, <2>1, <2>2, PieceLaid
  <1>13. /\ Len(y.pieces) = Len(x.pieces) + 1 /\ Len(x.pieces) \in Nat
         /\ y.pieces[Len(x.pieces) + 1] = piece
    <2> HIDE DEF piece
    <2> QED BY <1>8, <1>10, <1>11, AppendProperties
  <1> HIDE DEF piece
  <1>14. /\ Len(y.pieces) \in Nat /\ Len(y.pieces) >= 1
         /\ y.pieces[Len(y.pieces)] = piece
    BY <1>13
  <1>15. y.orig = x.orig /\ y.remapped = x.remapped
    BY <1>8, <1>10
  <1>16. \A i \in 1..Len(items) : items[i].type = "skip" => Gap(y, i)
    BY <1>7, <1>12
  <1> QED BY <1>7, <1>11, <1>12, <1>14, <1>15, <1>16 DEF y, b

-----------------------------------------------------------------------------
(* The data map: where a transfer gets to                                   *)

\* Some numbers have a least one.
LEMMA Least ==
    ASSUME NEW S, S \subseteq Nat, S # {} PROVE \E i \in S : \A j \in S : i <= j
  <1>1. PICK i \in S : \A j \in S : <<j, i>> \notin OpToRel(<, Nat)
    BY WFMin, NatLessThanWellFounded
  <1>2. ASSUME NEW j \in S PROVE i <= j
    <2>1. i \in Nat /\ j \in Nat
      OBVIOUS
    <2>2. ~(j < i)
      BY <1>1, <2>1 DEF OpToRel
    <2> QED BY <2>1, <2>2
  <1> QED BY <1>2

\* The piece a transfer begins in: the first that ends behind its start, or the last.
LEMMA RemapIs ==
    ASSUME NEW p \in Seq(Pieces), p # <<>>, NEW start \in Nat, NEW len \in Nat
    PROVE  \E i \in 1..Len(p) :
              LET r == Remap(p, start, len)
              IN /\ r.type = p[i].type /\ r.at = start - p[i].remapped + p[i].orig
                 /\ r.len \in Int /\ r.len <= len
                 /\ i < Len(p) =>
                       start < p[i + 1].remapped /\ start + r.len <= p[i + 1].remapped
                 /\ \A k \in 1..Len(p) - 1 : k < i => ~(start < p[k + 1].remapped)
  <1> DEFINE later == {k \in 1..Len(p) - 1 : start < p[k + 1].remapped}
             i == CHOOSE k \in later \cup {Len(p)} : \A j \in later : k <= j
             r == Remap(p, start, len)
  <1>1. Len(p) \in Nat /\ Len(p) >= 1
    OBVIOUS
  <1>2. later \subseteq Nat /\ \A k \in later : k <= Len(p)
    BY <1>1
  <1>3. \E k \in later \cup {Len(p)} : \A j \in later : k <= j
    <2>1. CASE later = {}
      BY <2>1
    <2>2. CASE later # {}
      <3> HIDE DEF later
      <3> QED BY <1>2, <2>2, Least
    <2> QED BY <2>1, <2>2
  <1>4. i \in later \cup {Len(p)} /\ \A j \in later : i <= j
    <2> HIDE DEF later
    <2> QED BY <1>3
  <1>5. r = [type |-> p[i].type, at |-> start - p[i].remapped + p[i].orig,
             len |-> IF i \in later THEN Limited(len, p[i + 1].remapped - start) ELSE len]
    BY DEF Remap
  <1>6. i \in 1..Len(p) /\ (i \in later <=> i < Len(p))
    <2>1. i \in later => i \in 1..Len(p) /\ i < Len(p)
      <3> HIDE DEF i
      <3> QED BY <1>1
    <2>2. i \notin later => i = Len(p)
      BY <1>4
    <2> HIDE DEF i, later
    <2> QED BY <1>1, <2>1, <2>2
  <1>7. \A k \in 1..Len(p) - 1 : k < i => ~(start < p[k + 1].remapped)
    <2> SUFFICES ASSUME NEW k \in 1..Len(p) - 1, k < i, start < p[k + 1].remapped PROVE FALSE
      OBVIOUS
    <2>1. k \in later
      OBVIOUS
    <2> HIDE DEF i, later
    <2>2. i <= k
      BY <1>4, <2>1
    <2> QED BY <1>1, <1>6, <2>2
  <1>8. i < Len(p) => start < p[i + 1].remapped
    <2> SUFFICES ASSUME i \in later PROVE start < p[i + 1].remapped
      BY <1>6
    <2> HIDE DEF i
    <2> QED OBVIOUS
  <1> HIDE DEF i, later, r
  <1>9. r.type = p[i].type /\ r.at = start - p[i].remapped + p[i].orig
        /\ r.len = IF i \in later THEN Limited(len, p[i + 1].remapped - start) ELSE len
    BY <1>5
  <1>10. CASE i < Len(p)
    <2>1. i + 1 \in 1..Len(p)
      BY <1>1, <1>6, <1>10
    <2>2. p[i + 1] \in Pieces
      BY <2>1
    <2>3. p[i + 1].remapped \in Nat
      BY <2>2 DEF Pieces
    <2>4. r.len = Limited(len, p[i + 1].remapped - start)
      BY <1>6, <1>9, <1>10
    <2>5. r.len \in Int /\ r.len <= len /\ start + r.len <= p[i + 1].remapped
      BY <2>3, <2>4 DEF Limited
    <2> QED BY <1>6, <1>7, <1>8, <1>9, <1>10, <2>5 DEF r
  <1>11. CASE ~(i < Len(p))
    <2>1. r.len \in Int /\ r.len <= len
      BY <1>6, <1>9, <1>11
    <2> QED BY <1>6, <1>7, <1>9, <1>11, <2>1 DEF r
  <1> QED BY <1>10, <1>11

\* A straight map: a transfer begins inside the piece it is in, and in a data
\* piece that is not the last one ends inside it.
InPiece(y, i, start, r) ==
    /\ i \in 1..Len(y.pieces)
    /\ r.type = y.pieces[i].type /\ r.at = start - y.pieces[i].remapped + y.pieces[i].orig
    /\ r.len \in Int /\ r.at \in Nat /\ y.pieces[i].orig <= r.at
    /\ y.pieces[i].remapped <= start
    /\ i < Len(y.pieces) =>
          /\ start < y.pieces[i + 1].remapped
          /\ r.type = "data" => r.at < Past(y, i) /\ r.at + r.len <= Past(y, i)

\* A position in the disk as it is seen lies in one of the pieces.
LEMMA PlaceIs ==
    ASSUME NEW y, Laid(y), y.pieces # <<>>, NEW start \in Nat, NEW len \in Nat
    PROVE  \E i \in 1..Len(y.pieces) : InPiece(y, i, start, Remap(y.pieces, start, len))
  <1> DEFINE p == y.pieces
             r == Remap(p, start, len)
  <1>1. p \in Seq(Pieces) /\ Len(p) \in Nat
    BY LaidRange
  <1>2. PICK i \in 1..Len(p) :
              /\ r.type = p[i].type /\ r.at = start - p[i].remapped + p[i].orig
              /\ r.len \in Int /\ r.len <= len
              /\ i < Len(p) =>
                    start < p[i + 1].remapped /\ start + r.len <= p[i + 1].remapped
              /\ \A k \in 1..Len(p) - 1 : k < i => ~(start < p[k + 1].remapped)
    BY <1>1, RemapIs
  <1> HIDE DEF r
  <1>3. p[i].remapped \in Nat /\ p[i].orig \in Nat /\ Upto(y, i) \in Nat
    BY LaidRange
  <1>4. p[i].remapped <= start
    <2>1. CASE i = 1
      <3>1. p[1].remapped = 0
        BY DEF Laid
      <3> QED BY <2>1, <3>1
    <2>2. CASE i # 1
      <3>1. i - 1 \in 1..Len(p) - 1 /\ i - 1 < i /\ (i - 1) + 1 = i
        BY <1>1, <2>2
      <3>2. ~(start < p[i].remapped)
        BY <1>2, <3>1
      <3> QED BY <1>3, <3>2
    <2> QED BY <2>1, <2>2
  <1>5. r.at \in Nat /\ p[i].orig <= r.at
    BY <1>2, <1>3, <1>4
  <1>6. ASSUME i < Len(p), r.type = "data" PROVE r.at < Past(y, i) /\ r.at + r.len <= Past(y, i)
    <2>1. Past(y, i) = p[i].orig + (Upto(y, i) - p[i].remapped)
      BY <1>2, <1>6 DEF Past
    <2>2. Upto(y, i) = p[i + 1].remapped
      BY <1>6 DEF Upto
    <2>3. start < Upto(y, i) /\ start + r.len <= Upto(y, i)
      BY <1>2, <1>6, <2>2
    <2>4. r.at = start - p[i].remapped + p[i].orig /\ r.len \in Int
      BY <1>2
    <2> DEFINE m == p[i].remapped  o == p[i].orig  u == Upto(y, i)
    <2>5. m \in Nat /\ o \in Nat /\ u \in Nat /\ start < u /\ start + r.len <= u
          /\ r.at = start - m + o /\ r.len \in Int /\ Past(y, i) = o + (u - m)
      BY <1>3, <2>1, <2>3, <2>4
    <2> HIDE DEF m, o, u
    <2> QED BY <2>5
  <1>7. InPiece(y, i, start, r)
    BY <1>2, <1>4, <1>5, <1>6 DEF InPiece
  <1> QED BY <1>7 DEF r

\* What is clear of every piece is clear of every transfer.
LEMMA StaysClear ==
    ASSUME NEW y, Laid(y), NEW i, NEW start \in Nat, NEW r, InPiece(y, i, start, r),
           r.type = "data", y.pieces[Len(y.pieces)].orig = y.orig,
           NEW from \in Nat, NEW to \in Nat, ClearOf(y, from, to)
    PROVE  r.at + r.len <= from \/ to <= r.at
  <1>1. i \in 1..Len(y.pieces) /\ Len(y.pieces) \in Nat
        /\ y.pieces[i].orig \in Nat /\ y.orig \in Nat /\ Past(y, i) \in Nat
    BY LaidRange DEF InPiece
  <1>2. r.at \in Nat /\ r.len \in Int /\ y.pieces[i].orig <= r.at /\ y.pieces[i].type = "data"
    BY DEF InPiece
  <1>3. CASE i = Len(y.pieces)
    <2>1. to <= y.orig
      BY DEF ClearOf
    <2> QED BY <1>1, <1>2, <1>3, <2>1
  <1>4. CASE i # Len(y.pieces)
    <2>1. i < Len(y.pieces)
      BY <1>1, <1>4
    <2>2. r.at + r.len <= Past(y, i)
      BY <2>1 DEF InPiece
    <2>3. Past(y, i) <= from \/ to <= y.pieces[i].orig
      BY <1>1, <1>2 DEF ClearOf
    <2> QED BY <1>1, <1>2, <2>2, <2>3
  <1> QED BY <1>3, <1>4

\* What lies further up lies further down in the image.
LEMMA FrontToBack ==
    ASSUME NEW y, Laid(y), NEW i, NEW j, NEW start \in Nat, NEW behind \in Nat, start < behind,
           NEW r, InPiece(y, i, start, r), r.type = "data",
           NEW q, InPiece(y, j, behind, q), q.type = "data"
    PROVE  r.at < q.at
  <1>1. i \in 1..Len(y.pieces) /\ j \in 1..Len(y.pieces) /\ Len(y.pieces) \in Nat
    BY LaidRange DEF InPiece
  <1>2. /\ y.pieces[i].orig \in Nat /\ y.pieces[i].remapped \in Nat /\ Past(y, i) \in Nat
        /\ y.pieces[j].orig \in Nat /\ y.pieces[j].remapped \in Nat
    BY <1>1, LaidRange
  <1>3. /\ r.at \in Nat /\ r.at = start - y.pieces[i].remapped + y.pieces[i].orig
        /\ q.at \in Nat /\ q.at = behind - y.pieces[j].remapped + y.pieces[j].orig
        /\ y.pieces[j].orig <= q.at /\ y.pieces[i].remapped <= start
    BY DEF InPiece
  <1>4. CASE i = j
    BY <1>2, <1>3, <1>4
  <1>5. CASE i < j
    <2>1. i < Len(y.pieces)
      BY <1>1, <1>5
    <2>2. r.at < Past(y, i)
      BY <2>1 DEF InPiece
    <2>3. Past(y, i) <= y.pieces[j].orig
      BY <1>1, <1>5 DEF Laid
    <2> QED BY <1>2, <1>3, <2>2, <2>3
  <1>6. CASE j < i
    <2>1. j < Len(y.pieces) /\ j + 1 \in 1..Len(y.pieces) /\ (j + 1 = i \/ j + 1 < i)
      BY <1>1, <1>6
    <2>2. behind < y.pieces[j + 1].remapped
      BY <2>1 DEF InPiece
    <2>3. y.pieces[j + 1].remapped \in Nat /\ y.pieces[j + 1].remapped <= Upto(y, j + 1)
          /\ Upto(y, j + 1) \in Nat
      BY <2>1, LaidRange
    <2>4. j + 1 < i => Upto(y, j + 1) <= y.pieces[i].remapped
      BY <1>1, <2>1 DEF Laid
    <2>5. y.pieces[j + 1].remapped <= y.pieces[i].remapped
      BY <1>2, <2>1, <2>3, <2>4
    <2> QED BY <1>2, <1>3, <2>2, <2>3, <2>5
  <1> QED BY <1>1, <1>4, <1>5, <1>6

-----------------------------------------------------------------------------
(* Transfers                                                                *)

\* What a drive's layers show of its image.
LEMMA SeenIs ==
    ASSUME NEW d \in Drives, Seen(d) # Unmapped, Seen(d) # 0, NetOffset(d.map) \in Int
    PROVE  Seen(d) + d.offset + NetOffset(d.map) = d.raw
  <1> DEFINE net == NetOffset(d.map)
             mapped == Adjusted(d.raw, net)
  <1>1. d.raw \in Nat /\ d.offset \in Nat
    BY DrivesAssumption
  <1>2. /\ mapped # Unmapped /\ Seen(d) = Adjusted(mapped, d.offset)
    BY DEF Seen
  <1> HIDE DEF net, mapped
  <1>3. mapped # 0 /\ Seen(d) = mapped - d.offset
    BY <1>2 DEF Adjusted
  <1>4. mapped = d.raw - net
    BY <1>2, <1>3 DEF Adjusted, mapped
  <1>5. net \in Int
    BY DEF net
  <1> QED BY <1>1, <1>3, <1>4, <1>5 DEF net

\* Without a map there is one piece, the whole image.
LEMMA NoMap ==
    ProcessMap(<<>>).pieces = <<[orig |-> 0, remapped |-> 0, type |-> "data"]>>
  <1> DEFINE piece == [orig |-> 0, remapped |-> 0, type |-> "data"]
  <1>1. <<>> \in Seq(Items) /\ Len(<<>>) = 0
    OBVIOUS
  <1>2. ProcessMap(<<>>) = Mapped(Start, Trailing)
    BY <1>1, ProcessIs
  <1>3. Shaped(Start) /\ Start.pieces = <<>> /\ Start.orig = 0 /\ Start.remapped = 0
    BY DEF Start, Shaped
  <1>4. Trailing.type = "data"
    BY DEF Trailing
  <1>5. Mapped(Start, Trailing).pieces
        = Append(Start.pieces, [orig |-> Start.orig, remapped |-> Start.remapped,
                                type |-> Trailing.type])
    BY <1>3, <1>4, MappedIs
  <1>6. ProcessMap(<<>>).pieces = Append(<<>>, piece)
    BY <1>2, <1>3, <1>4, <1>5
  <1> HIDE DEF piece
  <1>7. Append(<<>>, piece) = <<piece>>
    OBVIOUS
  <1> QED BY <1>6, <1>7 DEF piece

\* The layers give a transfer no more than it asked for.
LEMMA BelowShort ==
    ASSUME NEW d \in Drives, NEW start \in Nat, NEW len \in Nat
    PROVE  Below(d, start, len).len \in Int /\ Below(d, start, len).len <= len
  <1> DEFINE y == ProcessMap(d.map)
  <1>1. d.offset \in Nat /\ d.map \in Seq(Items)
    BY DrivesAssumption
  <1>2. y.pieces \in Seq(Pieces) /\ y.pieces # <<>>
    BY <1>1, MapHeld DEF Held
  <1>3. Below(d, start, len) = Remap(y.pieces, start + d.offset, len) /\ start + d.offset \in Nat
    BY <1>1 DEF Below
  <1> DEFINE at == start + d.offset  r == Remap(y.pieces, at, len)
  <1> HIDE DEF y, at
  <1>4. at \in Nat /\ Below(d, start, len) = r
    BY <1>3 DEF at
  <1>5. r.len \in Int /\ r.len <= len
    BY <1>2, <1>4, RemapIs
  <1> QED BY <1>4, <1>5

\* Of the gaps of a straight map, every transfer stays clear; it stays behind an
\* offset when there is no map, and behind whatever lies before it; and it ends
\* inside the image when what is seen of the disk does.
LEMMA BelowKeepsOut ==
    ASSUME NEW d \in Drives, Straight(d.map), NEW start \in Nat, NEW len \in Nat,
           Below(d, start, len).type = "data"
    PROVE  LET r == Below(d, start, len) IN
           /\ r.at \in Nat
           /\ \A gap \in LeftOut(d.map) : r.at + r.len <= gap.from \/ gap.to <= r.at
           /\ d.map = <<>> => r.at >= d.offset
           /\ start > 0 /\ Below(d, 0, 1).type = "data" => Below(d, 0, 1).at < r.at
           /\ Seen(d) \notin {0, Unmapped} /\ start + r.len <= Seen(d) /\ FitsImage(d) =>
                 r.at + r.len <= d.raw
  <1> DEFINE y == ProcessMap(d.map)
             b == Before(d.map)
             n == Len(y.pieces)
             r == Below(d, start, len)
             first == Below(d, 0, 1)
  <1>1. d.offset \in Nat /\ d.map \in Seq(Items) /\ d.raw \in Nat /\ start + d.offset \in Nat
    BY DrivesAssumption
  <1>2. /\ Laid(y) /\ n \in Nat /\ n >= 1
        /\ y.orig = b[Len(d.map)] /\ y.remapped = y.pieces[n].remapped
        /\ y.pieces[n].orig = y.orig /\ y.pieces[n].type = "data"
        /\ \A i \in 1..Len(d.map) : d.map[i].type = "skip" =>
              b[i - 1] \in Nat /\ b[i] \in Nat /\ ClearOf(y, b[i - 1], b[i])
    BY <1>1, MapLaid
  <1>3. y.pieces # <<>>
    BY <1>1, MapHeld
  <1>4. r = Remap(y.pieces, start + d.offset, len) /\ first = Remap(y.pieces, d.offset, 1)
    BY <1>1 DEF Below
  <1>5. NetOffset(d.map) = y.orig - y.remapped
    BY DEF NetOffset
  <1>6. FitsImage(d) => y.orig <= d.raw
    BY <1>2 DEF FitsImage
  <1>7. LeftOut(d.map) = {[from |-> b[i - 1], to |-> b[i]] :
                            i \in {i \in DOMAIN d.map : d.map[i].type = "skip"}}
        /\ DOMAIN d.map = 1..Len(d.map)
    BY <1>1 DEF LeftOut
  <1> HIDE DEF y, b, r, first
  <1>8. PICK i \in 1..n : InPiece(y, i, start + d.offset, r)
    BY <1>1, <1>2, <1>3, <1>4, PlaceIs
  <1>9. PICK j \in 1..n : InPiece(y, j, d.offset, first)
    BY <1>1, <1>2, <1>3, <1>4, PlaceIs
  <1>10. r.at \in Nat /\ r.len \in Int /\ r.type = "data"
    BY <1>8 DEF InPiece, r
  <1>11. ASSUME NEW gap \in LeftOut(d.map) PROVE r.at + r.len <= gap.from \/ gap.to <= r.at
    <2>1. PICK k \in 1..Len(d.map) : d.map[k].type = "skip" /\ gap = [from |-> b[k - 1], to |-> b[k]]
      BY <1>7
    <2>2. b[k - 1] \in Nat /\ b[k] \in Nat /\ ClearOf(y, b[k - 1], b[k])
      BY <1>2, <2>1
    <2>3. y.pieces[Len(y.pieces)].orig = y.orig
      BY <1>2
    <2>4. r.at + r.len <= b[k - 1] \/ b[k] <= r.at
      BY <1>1, <1>2, <1>8, <1>10, <2>2, <2>3, StaysClear
    <2> QED BY <2>1, <2>4
  <1>12. ASSUME d.map = <<>> PROVE r.at >= d.offset
    <2>1. y.pieces = <<[orig |-> 0, remapped |-> 0, type |-> "data"]>>
      BY <1>12, NoMap DEF y
    <2>2. i = 1 /\ y.pieces[1].orig = 0 /\ y.pieces[1].remapped = 0
      BY <1>8, <2>1 DEF InPiece
    <2>3. r.at = (start + d.offset) - y.pieces[i].remapped + y.pieces[i].orig
      BY <1>8 DEF InPiece
    <2> QED BY <1>1, <2>2, <2>3
  <1>13. ASSUME start > 0, first.type = "data" PROVE first.at < r.at
    <2>1. d.offset < start + d.offset
      BY <1>1, <1>13
    <2> QED BY <1>1, <1>2, <1>8, <1>9, <1>10, <1>13, <2>1, FrontToBack
  <1>14. ASSUME Seen(d) \notin {0, Unmapped}, start + r.len <= Seen(d), y.orig <= d.raw
         PROVE  r.at + r.len <= d.raw
    <2>1. y.orig \in Nat /\ y.remapped \in Nat /\ Past(y, i) \in Nat /\ Past(y, i) <= y.orig
      BY <1>2, LaidRange
    <2>2. Seen(d) + d.offset + (y.orig - y.remapped) = d.raw
      BY <1>5, <1>14, <2>1, SeenIs
    <2>3. Seen(d) \in Int
      BY <1>14, DrivesAssumption, WrapAssumption DEF Unmapped
    <2>4. CASE i = n
      <3>1. r.at = (start + d.offset) - y.remapped + y.orig
        BY <1>2, <1>8, <2>4 DEF InPiece
      <3> DEFINE seen == Seen(d)  o == y.orig  m == y.remapped  off == d.offset
      <3>2. /\ seen \in Int /\ off \in Nat /\ o \in Nat /\ m \in Nat /\ r.at \in Nat /\ r.len \in Int
            /\ r.at = (start + off) - m + o /\ start + r.len <= seen
            /\ seen + off + (o - m) = d.raw
        BY <1>1, <1>10, <1>14, <2>1, <2>2, <2>3, <3>1
      <3> HIDE DEF seen, o, m, off
      <3> QED BY <1>1, <3>2
    <2>5. CASE i # n
      <3>1. i < n
        BY <1>2, <2>5
      <3>2. r.at + r.len <= Past(y, i)
        BY <1>8, <1>10, <3>1 DEF InPiece
      <3> QED BY <1>1, <1>10, <1>14, <2>1, <3>2
    <2> QED BY <2>4, <2>5
  <1> QED BY <1>6, <1>10, <1>11, <1>12, <1>13, <1>14 DEF r, first

\* An open stream is that of an entry of the table, whose sector is data in the
\* image; and a transfer that went well is one of its transfers.
Part(i) == [part |-> i, offset |-> table[i].begin, size |-> table[i].nr]
Reached(i, start, len) ==
    LET n == LimitSize(Part(i), start, len)
        piece == Below(drive, table[i].begin + start, n)
    IN  /\ n # None
        /\ touched = [from |-> table[i].begin + start,
                      to |-> table[i].begin + start + piece.len, part |-> i, ok |-> TRUE,
                      raw |-> piece.at, stored |-> piece.type = "data"]
StreamInv ==
    /\ drive \in Drives /\ disk = Seen(drive) /\ disk # Unmapped
    /\ signed => Below(drive, 0, 1).type = "data"
    /\ stream = <<>> => touched = Untouched
    /\ stream # <<>> =>
          /\ signed
          /\ \E i \in Present(table) :
                /\ stream = <<Part(i)>>
                /\ touched.ok => \E start, len \in Nat : Reached(i, start, len)

\* Before the first transfer none has arrived anywhere.
LEMMA InitStream == Init => StreamInv
  BY DEF Init, StreamInv

\* A transfer either fails or is one of the stream's.
LEMMA TransferIs ==
    ASSUME NEW i, stream = <<Part(i)>>, NEW start, NEW len, NEW op, Transfer(start, len, op)
    PROVE  touched'.ok => Reached(i, start, len)'
  <1> DEFINE n == LimitSize(Part(i), start, len)
             piece == Below(drive, table[i].begin + start, n)
             reached == [from |-> table[i].begin + start,
                         to |-> table[i].begin + start + piece.len, part |-> i, ok |-> TRUE,
                         raw |-> piece.at, stored |-> piece.type = "data"]
  <1>1. stream[1] = Part(i) /\ Part(i).offset = table[i].begin /\ Part(i).part = i
    BY DEF Part
  <1>2. touched' = IF n = None \/ ~Accepts(piece, op) THEN [Untouched EXCEPT !.part = i]
                   ELSE reached
    BY <1>1 DEF Transfer
  <1>3. drive' = drive /\ table' = table
    BY DEF Transfer
  <1>4. [Untouched EXCEPT !.part = i].ok = FALSE
    BY DEF Untouched
  <1> SUFFICES ASSUME touched'.ok PROVE Reached(i, start, len)'
    OBVIOUS
  <1>5. n # None /\ touched' = reached
    BY <1>2, <1>4
  <1>6. Part(i)' = Part(i)
    BY <1>3 DEF Part
  <1> QED BY <1>3, <1>5, <1>6 DEF Reached

\* Every step keeps what is known of the last transfer.
LEMMA NextStream == StreamInv /\ [Next]_vars => StreamInv'
  <1> SUFFICES ASSUME StreamInv, [Next]_vars PROVE StreamInv'
    OBVIOUS
  <1>1. ASSUME NEW o \in Commands, Mpartition(o) PROVE StreamInv'
    <2>1. /\ stream = <<>> /\ UNCHANGED <<drive, disk, stream, touched>>
          /\ Below(drive, 0, 1).type = "data"
      BY <1>1 DEF Mpartition
    <2> QED BY <2>1 DEF StreamInv
  <1>2. ASSUME NEW i \in Numbers, NEW m \in Limits, OpenPartition(i, m) PROVE StreamInv'
    <2>1. /\ UNCHANGED <<drive, disk, table, signed, touched>> /\ stream = <<>> /\ signed
          /\ i \in Present(table) /\ stream' = <<Part(i)>>
      BY <1>2 DEF OpenPartition, Present, Part
    <2>2. touched = Untouched /\ ~touched.ok
      BY <2>1 DEF StreamInv, Untouched
    <2>3. Part(i)' = Part(i) /\ Present(table)' = Present(table) /\ ~touched'.ok
      BY <2>1, <2>2 DEF Part, Present
    <2>4. stream' # <<>>
      BY <2>1
    <2> QED BY <2>1, <2>3, <2>4 DEF StreamInv
  <1>3. ASSUME NEW s \in Spans, Transfer(s.start, s.len, s.op) PROVE StreamInv'
    <2>1. UNCHANGED <<drive, disk, table, signed, stream>> /\ stream # <<>>
      BY <1>3 DEF Transfer
    <2>2. PICK i \in Present(table) : stream = <<Part(i)>>
      BY <2>1 DEF StreamInv
    <2>3. s.start \in Nat /\ s.len \in Nat
      BY SpansAssumption
    <2>4. touched'.ok => Reached(i, s.start, s.len)'
      BY <1>3, <2>2, TransferIs
    <2>5. stream' = <<Part(i)'>> /\ i \in Present(table)'
      BY <2>1, <2>2 DEF Part, Present
    <2> QED BY <2>1, <2>3, <2>4, <2>5 DEF StreamInv
  <1>4. CASE ClosePartition
    BY <1>4 DEF ClosePartition, StreamInv
  <1>5. CASE UNCHANGED vars
    BY <1>5 DEF vars, StreamInv, Present, Part, Reached
  <1> QED BY <1>1, <1>2, <1>3, <1>4, <1>5 DEF Next

\* Where in its partition a transfer that went well begins and ends.
LEMMA ReachedIs ==
    ASSUME Typed, drive \in Drives, NEW i \in Present(table), NEW start \in Nat, NEW len \in Nat,
           Reached(i, start, len)
    PROVE  \E n \in Nat :
              LET r == Below(drive, table[i].begin + start, n)
              IN /\ start + n <= table[i].nr /\ r.len \in Int /\ r.len <= n
                 /\ touched = [from |-> table[i].begin + start,
                               to |-> table[i].begin + start + r.len, part |-> i, ok |-> TRUE,
                               raw |-> r.at, stored |-> r.type = "data"]
  <1> DEFINE n == LimitSize(Part(i), start, len)
  <1>1. table[i].begin \in Nat /\ table[i].nr \in Nat
    <2>1. table[i] \in Entries
      BY DEF Typed, Present
    <2> QED BY <2>1, WrapAssumption DEF Entries
  <1>2. Part(i).size = table[i].nr
    BY DEF Part
  <1>3. n # None
        /\ touched = [from |-> table[i].begin + start,
                      to |-> table[i].begin + start + Below(drive, table[i].begin + start, n).len,
                      part |-> i, ok |-> TRUE,
                      raw |-> Below(drive, table[i].begin + start, n).at,
                      stored |-> Below(drive, table[i].begin + start, n).type = "data"]
    BY DEF Reached
  <1>4. n \in Nat /\ start + n <= table[i].nr
    BY <1>1, <1>2, <1>3 DEF LimitSize
  <1> HIDE DEF n
  <1>5. table[i].begin + start \in Nat
    BY <1>1
  <1>6. Below(drive, table[i].begin + start, n).len \in Int
        /\ Below(drive, table[i].begin + start, n).len <= n
    BY <1>4, <1>5, BelowShort
  <1> QED BY <1>3, <1>4, <1>6

\* A transfer through a partition reaches only sectors of that partition, on the
\* disk and in the image, whatever lies between the two.
THEOREM TransfersStayInside == Spec => []TransfersKeepOut
  <1>1. PartitionInv /\ StreamInv => TransfersKeepOut
    <2> SUFFICES ASSUME PartitionInv, StreamInv, touched.ok
                 PROVE  KeepsToPartition /\ KeepsToImage
      BY DEF TransfersKeepOut
    <2>1. Typed /\ drive \in Drives /\ disk = Seen(drive) /\ disk # Unmapped
      BY DEF PartitionInv, StreamInv
    <2>2. stream # <<>>
      BY DEF StreamInv, Untouched
    <2>3. PICK i \in Present(table) : \E start, len \in Nat : Reached(i, start, len)
      BY <2>2 DEF StreamInv
    <2>4. signed /\ Below(drive, 0, 1).type = "data"
      BY <2>2 DEF StreamInv
    <2>5. PICK start \in Nat : \E len \in Nat : Reached(i, start, len)
      BY <2>3
    <2> DEFINE b == table[i].begin  nr == table[i].nr
    <2>6. PICK n \in Nat :
              LET r == Below(drive, b + start, n)
              IN /\ start + n <= nr /\ r.len \in Int /\ r.len <= n
                 /\ touched = [from |-> b + start, to |-> b + start + r.len, part |-> i,
                               ok |-> TRUE, raw |-> r.at, stored |-> r.type = "data"]
      BY <2>1, <2>5, ReachedIs
    <2> DEFINE r == Below(drive, b + start, n)
    <2>7. /\ start + n <= nr /\ r.len \in Int /\ r.len <= n
          /\ touched.from = b + start /\ touched.to = b + start + r.len /\ touched.part = i
          /\ touched.raw = r.at /\ touched.stored = (r.type = "data")
      BY <2>6
    <2>8. b \in Nat /\ nr \in Nat /\ i \in Numbers /\ i \in Present(table)
      <3>1. table[i] \in Entries /\ i \in Numbers
        BY <2>1 DEF Typed, Present
      <3> QED BY <3>1, WrapAssumption DEF Entries
    <2>9. b <= touched.from /\ touched.to <= b + nr
          /\ touched.from \in Int /\ touched.to \in Int
      <3> HIDE DEF r, b, nr
      <3> QED BY <2>7, <2>8
    <2>10. KeepsToPartition
      <3> SUFFICES ASSUME touched.from < touched.to, AllApart(table)
                   PROVE  /\ touched.from = 0 => b = 0
                          /\ \A j \in Present(table) \ {i} :
                                \/ touched.to <= table[j].begin
                                \/ table[j].begin + table[j].nr <= touched.from
        BY <2>7 DEF KeepsToPartition
      <3>1. touched.from = 0 => b = 0
        BY <2>8, <2>9
      <3>2. ASSUME NEW j \in Present(table) \ {i}
            PROVE  touched.to <= table[j].begin \/ table[j].begin + table[j].nr <= touched.from
        <4>1. Apart(table[i], table[j])
          BY <2>8, <3>2 DEF AllApart
        <4>2. table[j].begin \in Nat /\ table[j].nr \in Nat
          <5>1. table[j] \in Entries
            BY <2>1, <3>2 DEF Typed, Present
          <5> QED BY <5>1, WrapAssumption DEF Entries
        <4>3. b + nr <= table[j].begin \/ table[j].begin + table[j].nr <= b
          BY <4>1 DEF Apart
        <4> HIDE DEF b, nr, r
        <4> QED BY <2>8, <2>9, <4>2, <4>3
      <3> QED BY <3>1, <3>2
    <2>11. KeepsToImage
      <3> DEFINE end == touched.raw + (touched.to - touched.from)
                 first == Below(drive, 0, 1)
      <3> SUFFICES ASSUME touched.stored, touched.from < touched.to, Straight(drive.map)
                   PROVE  /\ \A gap \in LeftOut(drive.map) : end <= gap.from \/ gap.to <= touched.raw
                          /\ drive.map = <<>> => touched.raw >= drive.offset
                          /\ touched.from > 0 => ~(touched.raw <= first.at /\ first.at < end)
                          /\ disk # 0 /\ Inside(table[touched.part]) /\ FitsImage(drive) =>
                                end <= drive.raw
        BY DEF KeepsToImage, Straight
      <3>1. b + start \in Nat /\ r.type = "data"
        <4>1. b + start \in Nat
          BY <2>8
        <4>2. touched.stored = (r.type = "data")
          BY <2>7
        <4> HIDE DEF r
        <4>3. r.type = "data"
          BY <4>2, Zenon
        <4> QED BY <4>1, <4>3
      <3>2. /\ r.at \in Nat
            /\ \A gap \in LeftOut(drive.map) : r.at + r.len <= gap.from \/ gap.to <= r.at
            /\ drive.map = <<>> => r.at >= drive.offset
            /\ b + start > 0 /\ first.type = "data" => first.at < r.at
            /\ Seen(drive) \notin {0, Unmapped} /\ b + start + r.len <= Seen(drive) /\ FitsImage(drive) =>
                  r.at + r.len <= drive.raw
        BY <2>1, <3>1, BelowKeepsOut
      <3>3. touched.to - touched.from = r.len /\ end = r.at + r.len
        <4> HIDE DEF r, b
        <4>1. touched.to - touched.from = r.len
          BY <2>7, <2>8
        <4> QED BY <2>7, <4>1
      <3>4. first.at \in Nat
        <4>1. 0 \in Nat /\ 1 \in Nat
          OBVIOUS
        <4> QED BY <2>1, <2>4, <4>1, BelowKeepsOut
      <3>5. ASSUME touched.from > 0 PROVE ~(touched.raw <= first.at /\ first.at < end)
        <4>1. first.at < r.at
          BY <2>4, <2>7, <3>2, <3>5
        <4>2. touched.raw = r.at /\ r.at \in Nat
          BY <2>7, <3>2
        <4> HIDE DEF r, first, end
        <4> QED BY <3>4, <4>1, <4>2
      <3>6. ASSUME disk # 0, Inside(table[touched.part]), FitsImage(drive) PROVE end <= drive.raw
        <4>1. b + nr <= Seen(drive)
          BY <2>1, <2>7, <3>6 DEF Inside
        <4>2. Seen(drive) \in Int
          BY <2>1 DEF Typed
        <4>3. b + start + r.len <= Seen(drive)
          <5> HIDE DEF r, b, nr
          <5> QED BY <2>7, <2>8, <4>1, <4>2
        <4>4. r.at + r.len <= drive.raw
          BY <2>1, <3>2, <3>6, <4>3
        <4> QED BY <3>3, <4>4
      <3> HIDE DEF end, first
      <3> QED BY <2>7, <3>2, <3>3, <3>5, <3>6
    <2> QED BY <2>10, <2>11
  <1> QED BY <1>1, InitPartition, NextPartition, InitStream, NextStream, PTL DEF Spec
=============================================================================
