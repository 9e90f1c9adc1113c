--------------------------- MODULE DiskBufferProofs ---------------------------
(***************************************************************************)
(* Proofs about DiskBuffer, for sectors, cylinders, buffers and streams of *)
(* any size and any bytes: the window is coherent, reads show what was     *)
(* written, and the buffer implements ByteStore.                           *)
(*                                                                         *)
(* The rounding of the code is used through what it guarantees: first come *)
(* the lemmas about it, then one about the end of buf_pwrite, then a step  *)
(* for each action.                                                        *)
(***************************************************************************)
EXTENDS DiskBuffer, TLAPS

(* The bound on positions lies at the end of a cylinder: a window near it  *)
(* is not cut off by the bound of the model.                               *)
BoundAtCylinder == MaxPos % CylinderSize = 0

Aligned(n) == n % SectorSize = 0

(* The messages of the code, by names that the provers can be shown.       *)
ShortFill   == "Short buffer fill"
NothingLeft == "Nothing left"
EndTooBig   == "dirty end too big"
FlushFailed == "flush failed"
Endings     == {"no", "flush failed", "Short buffer fill", "Nothing left", "dirty end too big"}

(* The n bytes of b that stand for the stream low from base on, those from *)
(* lo to hi (the dirty ones) excepted; what readers see of b and low is w. *)
Copies(b, base, n, low, lo, hi) ==
    \A i \in 0..n-1 : ~(lo <= i /\ i < hi) => b[i] = low[base + i]
Shows(b, base, n, low, w) ==
    \A p \in Positions :
        w[p] = IF base <= p /\ p < base + n THEN b[p - base] ELSE low[p]

BlankBehind(low, e) == \A p \in Positions : p >= e => low[p] = Blank

DirtyRight ==
    /\ dirty => /\ Aligned(dirtyPos) /\ Aligned(dirtyEnd)
                /\ dirtyPos < dirtyEnd /\ dirtyEnd <= curSize
    /\ ~dirty => dirtyPos = 0 /\ dirtyEnd = 0

(* The window: it begins at a sector, and ends at one unless the stream    *)
(* below ends there.                                                       *)
WindowRight ==
    /\ CurEnd <= MaxPos /\ Aligned(current)
    /\ Aligned(curSize) \/ CurEnd = extent
    /\ DirtyRight
    /\ Copies(buf, current, curSize, below, dirtyPos, dirtyEnd)
    /\ Shows(buf, current, curSize, below, want)
    /\ BlankBehind(below, extent)

BufferRight ==
    /\ TypeOK /\ NoInternalError
    /\ ~everDirty => ~dirty /\ below = want
    /\ ended = "no" => WindowRight

(* What a step may do to the stream, for ByteStore.                        *)
StepStores ==
    /\ \A p \in Positions : below'[p] \in {below[p], want[p]}
    /\ \/ want' = want
       \/ \E v \in Bytes : \A p \in Positions : want'[p] \in {want[p], v}

-----------------------------------------------------------------------------
(* Multiples and remainders.                                               *)

(* Quotient and remainder.                                                 *)
LEMMA Division ==
  ASSUME NEW n \in Nat, NEW u \in Nat \ {0}
  PROVE  /\ n % u \in Nat /\ n % u < u /\ n % u <= n /\ n \div u \in Nat
         /\ n = u * (n \div u) + (n % u)
  OBVIOUS

(* A position of the window and its cell.                                  *)
LEMMA CellOf ==
  ASSUME NEW p \in Nat, NEW base \in Nat, NEW n \in Nat, base <= p, p < base + n
  PROVE  p - base \in 0..n-1 /\ base + (p - base) = p /\ p - base \in Nat
  OBVIOUS

(* A product is a multiple of its factor.                                  *)
LEMMA ProductIsMultiple ==
  ASSUME NEW q \in Nat, NEW u \in Nat \ {0}
  PROVE  (u * q) % u = 0
  OBVIOUS

(* Sums and differences of multiples, ...                                  *)
LEMMA SumIsMultiple ==
  ASSUME NEW a \in Nat, NEW b \in Nat, NEW u \in Nat \ {0}, a % u = 0, b % u = 0
  PROVE  (a + b) % u = 0 /\ (a >= b => (a - b) % u = 0)
<1> DEFINE p == a \div u
           q == b \div u
<1>1. a = u * p /\ b = u * q /\ p \in Nat /\ q \in Nat
  BY Division
<1> HIDE DEF p, q
<1>2. a + b = u * (p + q) /\ p + q \in Nat
  BY <1>1
<1>3. (a + b) % u = 0
  BY <1>2, ProductIsMultiple
<1>4. ASSUME a >= b PROVE (a - b) % u = 0
  <2>1. p >= q
    BY <1>1, <1>4
  <2>2. a - b = u * (p - q) /\ p - q \in Nat
    BY <1>1, <2>1
  <2> QED BY <2>2, ProductIsMultiple
<1> QED BY <1>3, <1>4

(* ... the next larger one, ...                                            *)
LEMMA NextMultiple ==
  ASSUME NEW a \in Nat, NEW b \in Nat, NEW u \in Nat \ {0}, a % u = 0, b % u = 0, a < b
  PROVE  a + u <= b
<1> DEFINE p == a \div u
           q == b \div u
<1>1. a = u * p /\ b = u * q /\ p \in Nat /\ q \in Nat
  BY Division
<1> HIDE DEF p, q
<1>2. p + 1 <= q
  BY <1>1
<1>3. u * (p + 1) <= u * q
  BY <1>1, <1>2
<1> QED BY <1>1, <1>3

(* ... and multiples of multiples.                                         *)
LEMMA MultipleOfMultiple ==
  ASSUME NEW a \in Nat, NEW b \in Nat \ {0}, NEW u \in Nat \ {0}, a % b = 0, b % u = 0
  PROVE  a % u = 0
<1> DEFINE p == a \div b
           q == b \div u
<1>1. a = b * p /\ b = u * q /\ p \in Nat /\ q \in Nat
  BY Division
<1> HIDE DEF p, q
<1>2. a = u * (q * p) /\ q * p \in Nat
  BY <1>1
<1> QED BY <1>2, ProductIsMultiple

-----------------------------------------------------------------------------
(* What the code's rounding guarantees.                                    *)

(* The sizes: all of them in whole sectors, and so is what the stream      *)
(* below gives at a time.                                                  *)
LEMMA UnitsAre ==
  /\ SectorSize \in Nat \ {0} /\ CylinderSize \in Nat \ {0} /\ Size \in Nat \ {0}
  /\ MaxPos \in Nat /\ Aligned(0) /\ Aligned(CylinderSize) /\ Aligned(Size)
  /\ CylinderSize <= Size /\ \A k \in Nat : k % Granule = 0 => Aligned(k)
<1>1. /\ SectorSize \in Nat \ {0} /\ CylinderSize \in Nat \ {0} /\ Size \in Nat \ {0}
      /\ MaxPos \in Nat /\ Granule \in Nat \ {0} /\ Granule % SectorSize = 0
      /\ CylinderSize % SectorSize = 0 /\ Size % CylinderSize = 0
  BY DiskBufferAssumption
<1>2. Aligned(CylinderSize)
  BY <1>1 DEF Aligned
<1>3. Aligned(Size)
  BY <1>1, MultipleOfMultiple DEF Aligned
<1>4. \A k \in Nat : k % Granule = 0 => Aligned(k)
  BY <1>1, MultipleOfMultiple DEF Aligned
<1>5. 0 % CylinderSize = 0 /\ Aligned(0)
  <2>1. CylinderSize * 0 = 0 /\ SectorSize * 0 = 0
    BY <1>1
  <2> QED BY <1>1, <2>1, ProductIsMultiple DEF Aligned
<1>6. CylinderSize <= Size
  <2>1. 0 + CylinderSize <= Size
    BY <1>1, <1>5, NextMultiple
  <2> QED BY <1>1, <2>1
<1> QED BY <1>1, <1>2, <1>3, <1>4, <1>5, <1>6

(* Of these, the ones most steps need.                                     *)
LEMMA SizesAre == MaxPos \in Nat /\ Size \in Nat \ {0} /\ SectorSize \in Nat \ {0}
  BY UnitsAre

(* Whole sectors are added and taken away.                                 *)
LEMMA AlignedSum ==
  ASSUME NEW a \in Nat, NEW b \in Nat, Aligned(a)
  PROVE  /\ Aligned(b) => Aligned(a + b)
         /\ Aligned(b) /\ a >= b => Aligned(a - b)
         /\ Aligned(a + b) => Aligned(b)
<1>1. SectorSize \in Nat \ {0}
  BY UnitsAre
<1>2. Aligned(b) => Aligned(a + b)
  BY <1>1, SumIsMultiple DEF Aligned
<1>3. Aligned(b) /\ a >= b => Aligned(a - b)
  BY <1>1, SumIsMultiple DEF Aligned
<1>4. ASSUME Aligned(a + b) PROVE Aligned(b)
  <2>1. a + b \in Nat /\ a + b >= a /\ (a + b) - a = b
    OBVIOUS
  <2>2. ((a + b) - a) % SectorSize = 0
    BY <1>1, <1>4, <2>1, SumIsMultiple DEF Aligned
  <2> QED BY <2>1, <2>2 DEF Aligned
<1> QED BY <1>2, <1>3, <1>4

(* Whole sectors that are not none are at least one.                       *)
LEMMA AtLeastOneSector ==
  /\ Aligned(SectorSize)
  /\ \A n \in Nat : Aligned(n) /\ n >= 1 => SectorSize <= n
<1>1. SectorSize \in Nat \ {0} /\ SectorSize * 1 = SectorSize /\ Aligned(0)
  BY UnitsAre
<1>2. Aligned(SectorSize)
  BY <1>1, ProductIsMultiple DEF Aligned
<1>3. ASSUME NEW n \in Nat, Aligned(n), n >= 1 PROVE SectorSize <= n
  <2>1. 0 + SectorSize <= n
    BY <1>1, <1>3, NextMultiple DEF Aligned
  <2> QED BY <1>1, <2>1
<1> QED BY <1>2, <1>3

(* ROUND_DOWN to sectors.                                                  *)
LEMMA RoundDownIs ==
  ASSUME NEW n \in Nat
  PROVE  LET r == RoundDown(n, SectorSize)
         IN  /\ r \in Nat /\ r <= n /\ n < r + SectorSize /\ Aligned(r)
             /\ r = n - (n % SectorSize) /\ n % SectorSize \in Nat
             /\ Aligned(n) => r = n
             /\ \A m \in Nat : Aligned(m) /\ m <= n => m <= r
<1> DEFINE r == RoundDown(n, SectorSize)
<1>1. SectorSize \in Nat \ {0}
  BY UnitsAre
<1>2. /\ n % SectorSize \in Nat /\ n % SectorSize < SectorSize /\ n % SectorSize <= n
      /\ n \div SectorSize \in Nat
      /\ n = SectorSize * (n \div SectorSize) + (n % SectorSize)
  BY <1>1, Division
<1>3. r = n - (n % SectorSize)
  BY DEF RoundDown
<1>4. r \in Nat /\ r <= n /\ n < r + SectorSize
  BY <1>1, <1>2, <1>3
<1>5. Aligned(r)
  <2>1. r = SectorSize * (n \div SectorSize)
    BY <1>1, <1>2, <1>3
  <2> QED BY <1>1, <1>2, <2>1, ProductIsMultiple DEF Aligned
<1>6. Aligned(n) => r = n
  BY <1>3 DEF Aligned
<1> HIDE DEF r
<1>7. ASSUME NEW m \in Nat, Aligned(m), m <= n, r < m PROVE FALSE
  <2>1. r + SectorSize <= m
    BY <1>1, <1>4, <1>5, <1>7, NextMultiple DEF Aligned
  <2> QED BY <1>1, <1>4, <1>7, <2>1
<1>8. \A m \in Nat : Aligned(m) /\ m <= n => m <= r
  BY <1>4, <1>7
<1> QED BY <1>2, <1>3, <1>4, <1>5, <1>6, <1>8 DEF r

(* ROUND_UP to sectors.                                                    *)
LEMMA RoundUpIs ==
  ASSUME NEW n \in Nat
  PROVE  LET r == RoundUp(n, SectorSize)
         IN  /\ r \in Nat /\ n <= r /\ Aligned(r)
             /\ \A m \in Nat : Aligned(m) /\ n <= m => r <= m
<1> DEFINE s == n + SectorSize - 1
           r == RoundDown(s, SectorSize)
<1>1. SectorSize \in Nat \ {0}
  BY UnitsAre
<1>2. s \in Nat
  BY <1>1
<1>3. RoundUp(n, SectorSize) = r
  BY DEF RoundUp
<1>4. r \in Nat /\ r <= s /\ s < r + SectorSize /\ Aligned(r)
  BY <1>2, RoundDownIs
<1> HIDE DEF r
<1>5. n <= r
  BY <1>1, <1>4
<1>6. ASSUME NEW m \in Nat, Aligned(m), n <= m, m < r PROVE FALSE
  <2>1. m + SectorSize <= r
    BY <1>1, <1>4, <1>6, NextMultiple DEF Aligned
  <2> QED BY <1>1, <1>4, <1>6, <2>1
<1>7. \A m \in Nat : Aligned(m) /\ n <= m => r <= m
  BY <1>4, <1>6
<1> QED BY <1>3, <1>4, <1>5, <1>7

(* pos_to_next_full_cyl.                                                   *)
LEMMA ToCylinderEndIs ==
  ASSUME BoundAtCylinder, NEW p \in Nat
  PROVE  /\ ToCylinderEnd(p) \in Nat /\ 1 <= ToCylinderEnd(p) /\ ToCylinderEnd(p) <= CylinderSize
         /\ Aligned(p) => Aligned(ToCylinderEnd(p))
         /\ p < MaxPos => p + ToCylinderEnd(p) <= MaxPos
<1> DEFINE over == p % CylinderSize
           base == p - over
<1>1. CylinderSize \in Nat \ {0} /\ MaxPos \in Nat /\ Aligned(CylinderSize) /\ SectorSize \in Nat \ {0}
  BY UnitsAre
<1>2. /\ over \in Nat /\ over < CylinderSize /\ over <= p /\ p \div CylinderSize \in Nat
      /\ p = CylinderSize * (p \div CylinderSize) + over
  BY <1>1, Division
<1>3. ToCylinderEnd(p) = CylinderSize - over
  BY DEF ToCylinderEnd
<1>4. base \in Nat /\ base % CylinderSize = 0
  <2>1. base = CylinderSize * (p \div CylinderSize)
    BY <1>1, <1>2
  <2> QED BY <1>1, <1>2, <2>1, ProductIsMultiple
<1> HIDE DEF over, base
<1>5. p = base + over
  BY <1>2, <1>4 DEF base
<1>6. Aligned(base)
  BY <1>1, <1>4, MultipleOfMultiple DEF Aligned
<1>7. ASSUME Aligned(p) PROVE Aligned(ToCylinderEnd(p))
  <2>1. Aligned(over)
    BY <1>2, <1>4, <1>5, <1>6, <1>7, AlignedSum
  <2> QED BY <1>1, <1>2, <1>3, <2>1, AlignedSum
<1>8. ASSUME p < MaxPos PROVE p + ToCylinderEnd(p) <= MaxPos
  <2>1. base < MaxPos
    BY <1>1, <1>2, <1>4, <1>5, <1>8
  <2>2. base + CylinderSize <= MaxPos
    BY <1>1, <1>4, <2>1, NextMultiple DEF BoundAtCylinder
  <2> QED BY <1>1, <1>2, <1>3, <1>4, <1>5, <2>2
<1> QED BY <1>1, <1>2, <1>3, <1>7, <1>8

(* The smaller of two numbers.                                             *)
LEMMA LeastIs ==
  ASSUME NEW a \in Int, NEW b \in Int
  PROVE  Least(a, b) \in {a, b} /\ Least(a, b) <= a /\ Least(a, b) <= b
  BY DEF Least

(* What the stream below gives of n bytes at p: it stops at a sector or at *)
(* its end, and gives nothing only behind that.                            *)
LEMMA GivenIs ==
  ASSUME NEW p \in Nat, NEW n \in Nat, NEW e \in Nat, NEW k \in Given(p, n, e)
  PROVE  /\ k \in Nat /\ k <= n /\ (k # 0 => p + k <= e) /\ (k = 0 => p >= e)
         /\ p >= e => k = 0
         /\ Aligned(n) => Aligned(k) \/ p + k = e
<1>1. CASE p >= e
  <2>1. k = 0
    BY <1>1 DEF Given
  <2> QED BY <1>1, <2>1, UnitsAre
<1>2. CASE p < e
  <2>1. e - p \in Nat /\ Least(n, e - p) \in {n, e - p} /\ Least(n, e - p) <= n /\ Least(n, e - p) <= e - p
    BY <1>2, LeastIs
  <2>2. k \in 1..Least(n, e - p) /\ (k % Granule = 0 \/ k = Least(n, e - p))
    BY <1>2 DEF Given
  <2>3. k \in Nat /\ k # 0 /\ k <= Least(n, e - p)
    BY <2>1, <2>2
  <2>4. k % Granule = 0 => Aligned(k)
    BY <2>3, UnitsAre
  <2> QED BY <1>2, <2>1, <2>2, <2>3, <2>4
<1> QED BY <1>1, <1>2

-----------------------------------------------------------------------------
(* Flushing.                                                               *)

(* What the type invariant says, as the steps need it.                     *)
LEMMA ValuesAre ==
  ASSUME BufferRight
  PROVE  /\ below \in [Positions -> Bytes] /\ want \in [Positions -> Bytes]
         /\ buf \in [Cells -> Bytes]
         /\ extent \in Nat /\ extent <= MaxPos /\ current \in Nat /\ current <= MaxPos
         /\ curSize \in Nat /\ curSize <= Size /\ dirtyPos \in Nat /\ dirtyEnd \in Nat
         /\ dirty \in BOOLEAN /\ everDirty \in BOOLEAN /\ Blank \in Bytes
         /\ MaxPos \in Nat /\ Size \in Nat \ {0} /\ SectorSize \in Nat \ {0}
<1>1. MaxPos \in Nat /\ Size \in Nat \ {0} /\ SectorSize \in Nat \ {0}
  BY UnitsAre
<1>2. Blank \in Bytes
  BY DiskBufferAssumption
<1>3. TypeOK
  BY DEF BufferRight
<1>4. extent \in 0..MaxPos /\ current \in 0..MaxPos /\ curSize \in 0..Size
  BY <1>3 DEF TypeOK
<1>5. /\ below \in [Positions -> Bytes] /\ want \in [Positions -> Bytes]
      /\ buf \in [Cells -> Bytes] /\ dirtyPos \in Nat /\ dirtyEnd \in Nat
      /\ dirty \in BOOLEAN /\ everDirty \in BOOLEAN
  BY <1>3 DEF TypeOK
<1> QED BY <1>1, <1>2, <1>4, <1>5

(* k bytes of the dirty range reach the stream below: each is one that was *)
(* written, and the window stays as true as it was.                        *)
LEMMA StoredBelow ==
  ASSUME BufferRight, ended = "no", NEW k \in Nat, k <= dirtyEnd - dirtyPos
  PROVE  /\ Below(k) \in [Positions -> Bytes]
         /\ \A p \in Positions : Below(k)[p] \in {below[p], want[p]}
         /\ \A p \in Positions :
               ~(dirty /\ current + dirtyPos <= p /\ p < current + dirtyEnd) => Below(k)[p] = below[p]
         /\ Extent(k) \in Nat /\ extent <= Extent(k) /\ Extent(k) <= MaxPos
         /\ CurEnd = extent => Extent(k) = extent
         /\ BlankBehind(Below(k), Extent(k))
<1>1. WindowRight
  BY DEF BufferRight
<1>2. /\ CurEnd <= MaxPos /\ CurEnd = current + curSize
      /\ dirty => dirtyPos < dirtyEnd /\ dirtyEnd <= curSize
      /\ Shows(buf, current, curSize, below, want)
      /\ \A p \in Positions : p >= extent => below[p] = Blank
  BY <1>1 DEF WindowRight, DirtyRight, CurEnd, BlankBehind
<1>3. ASSUME NEW p \in Positions
      PROVE  /\ Below(k)[p] \in Bytes /\ Below(k)[p] \in {below[p], want[p]}
             /\ ~(dirty /\ current + dirtyPos <= p /\ p < current + dirtyEnd)
                   => Below(k)[p] = below[p]
             /\ Below(k)[p] # below[p] => dirty /\ p < current + dirtyPos + k
  <2>1. p \in Nat /\ p < MaxPos
    BY ValuesAre DEF Positions
  <2>2. Below(k)[p] = IF dirty /\ dirtyPos <= p - current /\ p - current < dirtyEnd
                         /\ p < current + dirtyPos + k
                      THEN buf[p - current] ELSE below[p]
    <3>1. p - current \in DirtyCells <=> dirtyPos <= p - current /\ p - current < dirtyEnd
      BY <2>1, ValuesAre DEF DirtyCells
    <3> QED BY <3>1 DEF Below
  <2>3. CASE dirty /\ dirtyPos <= p - current /\ p - current < dirtyEnd
             /\ p < current + dirtyPos + k
    <3>1. current <= p /\ p < current + curSize
      BY <1>2, <2>1, <2>3, ValuesAre
    <3>2. want[p] = buf[p - current]
      BY <1>2, <3>1 DEF Shows
    <3> QED BY <2>1, <2>2, <2>3, <3>2, ValuesAre
  <2>4. CASE ~(dirty /\ dirtyPos <= p - current /\ p - current < dirtyEnd
               /\ p < current + dirtyPos + k)
    <3>1. Below(k)[p] = below[p]
      BY <2>2, <2>4
    <3> QED BY <3>1, ValuesAre
  <2> QED BY <2>3, <2>4
<1>4. Below(k) \in [Positions -> Bytes]
  BY <1>3 DEF Below
<1>5. Extent(k) = IF dirty /\ extent < current + dirtyPos + k THEN current + dirtyPos + k ELSE extent
  BY DEF Extent
<1>6. Extent(k) \in Nat /\ extent <= Extent(k) /\ Extent(k) <= MaxPos
      /\ (CurEnd = extent => Extent(k) = extent)
      /\ (dirty => current + dirtyPos + k <= Extent(k))
  BY <1>2, <1>5, ValuesAre
<1>7. ASSUME NEW p \in Positions, p >= Extent(k)
      PROVE  Below(k)[p] = Blank
  <2>1. p \in Nat
    BY ValuesAre DEF Positions
  <2>2. Below(k)[p] = below[p]
    BY <1>3, <1>6, <1>7, <2>1, ValuesAre
  <2>3. p >= extent
    BY <1>6, <1>7, <2>1, ValuesAre
  <2> QED BY <1>2, <2>2, <2>3
<1> QED BY <1>3, <1>4, <1>6, <1>7 DEF BlankBehind

(* All of the dirty range: the stream below is what was written.           *)
LEMMA FlushedIsWanted ==
  ASSUME BufferRight, ended = "no"
  PROVE  /\ Flushed = want
         /\ Extent(dirtyEnd - dirtyPos) \in Nat /\ Extent(dirtyEnd - dirtyPos) <= MaxPos
         /\ CurEnd = extent => Extent(dirtyEnd - dirtyPos) = extent
         /\ BlankBehind(want, Extent(dirtyEnd - dirtyPos))
<1>1. WindowRight
  BY DEF BufferRight
<1>2. /\ CurEnd <= MaxPos /\ CurEnd = current + curSize
      /\ dirty => dirtyPos < dirtyEnd /\ dirtyEnd <= curSize
      /\ ~dirty => dirtyPos = 0 /\ dirtyEnd = 0
      /\ Copies(buf, current, curSize, below, dirtyPos, dirtyEnd)
      /\ Shows(buf, current, curSize, below, want)
  BY <1>1 DEF WindowRight, DirtyRight, CurEnd
<1>3. dirtyEnd - dirtyPos \in Nat /\ dirtyEnd - dirtyPos <= dirtyEnd - dirtyPos
  BY <1>2, ValuesAre
<1>4. /\ Below(dirtyEnd - dirtyPos) \in [Positions -> Bytes]
      /\ Extent(dirtyEnd - dirtyPos) \in Nat /\ Extent(dirtyEnd - dirtyPos) <= MaxPos
      /\ CurEnd = extent => Extent(dirtyEnd - dirtyPos) = extent
      /\ BlankBehind(Below(dirtyEnd - dirtyPos), Extent(dirtyEnd - dirtyPos))
  BY <1>3, StoredBelow
<1>5. ASSUME NEW p \in Positions
      PROVE  Below(dirtyEnd - dirtyPos)[p] = want[p]
  <2>1. p \in Nat /\ p < MaxPos
    BY ValuesAre DEF Positions
  <2>2. Below(dirtyEnd - dirtyPos)[p] =
          IF dirty /\ dirtyPos <= p - current /\ p - current < dirtyEnd
          THEN buf[p - current] ELSE below[p]
    <3>1. p - current \in DirtyCells <=> dirtyPos <= p - current /\ p - current < dirtyEnd
      BY <2>1, ValuesAre DEF DirtyCells
    <3>2. p - current < dirtyEnd => p < current + dirtyPos + (dirtyEnd - dirtyPos)
      BY <2>1, ValuesAre
    <3> QED BY <3>1, <3>2 DEF Below
  <2>3. want[p] = IF current <= p /\ p < current + curSize THEN buf[p - current] ELSE below[p]
    BY <1>2 DEF Shows
  <2>4. CASE dirty /\ dirtyPos <= p - current /\ p - current < dirtyEnd
    <3>1. current <= p /\ p < current + curSize
      BY <1>2, <2>1, <2>4, ValuesAre
    <3> QED BY <2>2, <2>3, <2>4, <3>1
  <2>5. CASE ~(dirty /\ dirtyPos <= p - current /\ p - current < dirtyEnd)
             /\ current <= p /\ p < current + curSize
    <3> DEFINE i == p - current
    <3>a. dirty = TRUE \/ (dirtyPos = 0 /\ dirtyEnd = 0)
      BY <1>2, ValuesAre
    <3>b. current \in Nat /\ curSize \in Nat
      BY ValuesAre
    <3>c. i \in 0..curSize-1 /\ current + i = p /\ i \in Nat
      BY <2>1, <2>5, <3>b, CellOf
    <3>d. ~(dirty /\ dirtyPos <= i /\ i < dirtyEnd)
      BY <2>5
    <3> HIDE DEF i
    <3>1. ~(dirtyPos <= i /\ i < dirtyEnd)
      BY <3>a, <3>c, <3>d
    <3>2. buf[i] = below[current + i]
      BY <1>2, <3>1, <3>c DEF Copies
    <3>3. buf[p - current] = below[p]
      BY <3>c, <3>2 DEF i
    <3> QED BY <2>2, <2>3, <2>5, <3>3
  <2>6. CASE ~(current <= p /\ p < current + curSize)
    <3>1. ~(dirty /\ dirtyPos <= p - current /\ p - current < dirtyEnd)
      BY <1>2, <2>1, <2>6, ValuesAre
    <3> QED BY <2>2, <2>3, <2>6, <3>1
  <2> QED BY <2>4, <2>5, <2>6
<1>6. Flushed = want
  BY <1>4, <1>5, ValuesAre DEF Flushed
<1>7. Below(dirtyEnd - dirtyPos) = want
  BY <1>6 DEF Flushed
<1> QED BY <1>4, <1>6, <1>7

(* The window is about to move: the stream below is what was written.      *)
LEMMA MovedIs ==
  ASSUME BufferRight, ended = "no", NEW start \in Positions, Moved(start)
  PROVE  /\ below' = want /\ below' \in [Positions -> Bytes]
         /\ extent' \in Nat /\ extent' <= MaxPos
         /\ current' = Window(start) /\ current' \in Nat /\ current' <= start
         /\ start < current' + SectorSize /\ Aligned(current') /\ start \in Nat /\ start < MaxPos
         /\ BlankBehind(below', extent')
<1>1. start \in Nat /\ start < MaxPos
  BY ValuesAre DEF Positions
<1>2. below' = Flushed /\ extent' = Extent(dirtyEnd - dirtyPos) /\ current' = Window(start)
  BY DEF Moved
<1>3. /\ Window(start) \in Nat /\ Window(start) <= start /\ start < Window(start) + SectorSize
      /\ Aligned(Window(start))
  BY <1>1, RoundDownIs DEF Window
<1> QED BY <1>1, <1>2, <1>3, FlushedIsWanted, ValuesAre

-----------------------------------------------------------------------------
(* Storing: the new contents of the window and what readers then see.      *)
Overwritten(b, offset, m, v) ==
    [i \in Cells |-> IF offset <= i /\ i < offset + m THEN v ELSE b[i]]
Rewritten(w, at, m, v) == [p \in Positions |-> IF at <= p /\ p < at + m THEN v ELSE w[p]]

(* The window after m bytes at offset are written: inUse bytes of it are in *)
(* use, old were before, and the dirty range has grown from lo..hi to      *)
(* start..end, over what is new.                                           *)
Grown(offset, m, old, inUse, lo, hi, start, end) ==
    /\ offset \in Nat /\ m \in Nat /\ old \in Nat /\ inUse \in Nat
    /\ lo \in Nat /\ hi \in Nat /\ start \in Nat /\ end \in Nat
    /\ offset <= old /\ old <= inUse /\ inUse <= Size /\ offset + m <= inUse
    /\ inUse = old \/ inUse = offset + m
    /\ start <= offset /\ offset + m <= end
    /\ lo < hi => start <= lo /\ hi <= end

(* Such a window is as true as it was, and shows what was written.         *)
LEMMA GrownShows ==
  ASSUME NEW base \in Nat, NEW offset \in Nat, NEW m \in Nat, NEW old \in Nat, NEW inUse \in Nat,
         NEW lo \in Nat, NEW hi \in Nat, NEW start \in Nat, NEW end \in Nat,
         NEW b, NEW low, NEW w, NEW v,
         offset <= old, old <= inUse, inUse <= Size, offset + m <= inUse,
         inUse = old \/ inUse = offset + m,
         start <= offset, offset + m <= end, lo < hi => start <= lo /\ hi <= end,
         Copies(b, base, old, low, lo, hi), Shows(b, base, old, low, w)
  PROVE  /\ Copies(Overwritten(b, offset, m, v), base, inUse, low, start, end)
         /\ Shows(Overwritten(b, offset, m, v), base, inUse, low,
                  Rewritten(w, base + offset, m, v))
<1> DEFINE c == [i \in Cells |-> IF offset <= i /\ i < offset + m THEN v ELSE b[i]]
           x == [p \in Positions |-> IF base + offset <= p /\ p < (base + offset) + m THEN v ELSE w[p]]
<1>1. ASSUME NEW i \in 0..inUse-1
      PROVE  /\ i \in Cells /\ i \in Nat
             /\ ~(offset <= i /\ i < offset + m) => i \in 0..old-1
  BY UnitsAre DEF Cells
<1>2. ASSUME NEW i \in 0..inUse-1, ~(start <= i /\ i < end)
      PROVE  c[i] = low[base + i]
  <2>1. ~(offset <= i /\ i < offset + m) /\ ~(lo <= i /\ i < hi)
    BY <1>1, <1>2
  <2>2. c[i] = b[i] /\ i \in 0..old-1
    BY <1>1, <2>1
  <2> QED BY <2>1, <2>2 DEF Copies
<1>3. ASSUME NEW p \in Positions
      PROVE  x[p] = IF base <= p /\ p < base + inUse THEN c[p - base] ELSE low[p]
  <2>1. p \in Nat
    BY UnitsAre DEF Positions
  <2>2. w[p] = IF base <= p /\ p < base + old THEN b[p - base] ELSE low[p]
    BY DEF Shows
  <2>3. CASE base <= p /\ p < base + inUse
    <3> DEFINE i == p - base
    <3>1. i \in 0..inUse-1 /\ p = base + i
      BY <2>1, <2>3
    <3> HIDE DEF i
    <3>2. i \in Cells /\ i \in Nat /\ (~(offset <= i /\ i < offset + m) => i \in 0..old-1)
      BY <1>1, <3>1
    <3>3. CASE offset <= i /\ i < offset + m
      <4>1. c[i] = v
        BY <3>2, <3>3
      <4>2. base + offset <= p /\ p < (base + offset) + m
        BY <3>1, <3>2, <3>3
      <4> QED BY <2>3, <4>1, <4>2 DEF i
    <3>4. CASE ~(offset <= i /\ i < offset + m)
      <4>1. c[i] = b[i] /\ i \in 0..old-1
        BY <3>2, <3>4
      <4>2. ~(base + offset <= p /\ p < (base + offset) + m) /\ p < base + old
        BY <3>1, <3>2, <3>4, <4>1
      <4>3. x[p] = w[p]
        BY <4>2
      <4>4. w[p] = b[p - base]
        BY <2>2, <2>3, <4>2
      <4> QED BY <2>3, <4>1, <4>3, <4>4 DEF i
    <3> QED BY <3>3, <3>4
  <2>4. CASE ~(base <= p /\ p < base + inUse)
    <3>1. ~(base <= p /\ p < base + old) /\ ~(base + offset <= p /\ p < (base + offset) + m)
      BY <2>1, <2>4
    <3> QED BY <2>2, <2>4, <3>1
  <2> QED BY <2>3, <2>4
<1> HIDE DEF c, x
<1>4. Copies(c, base, inUse, low, start, end) /\ Shows(c, base, inUse, low, x)
  BY <1>2, <1>3 DEF Copies, Shows
<1> QED BY <1>4 DEF c, x, Overwritten, Rewritten

(* The same, by the name of its condition.                                 *)
LEMMA WrittenIs ==
  ASSUME NEW base \in Nat, NEW offset, NEW m, NEW old, NEW inUse, NEW lo, NEW hi, NEW start, NEW end,
         NEW b, NEW low, NEW w, NEW v,
         Grown(offset, m, old, inUse, lo, hi, start, end),
         Copies(b, base, old, low, lo, hi), Shows(b, base, old, low, w)
  PROVE  /\ Copies(Overwritten(b, offset, m, v), base, inUse, low, start, end)
         /\ Shows(Overwritten(b, offset, m, v), base, inUse, low,
                  Rewritten(w, base + offset, m, v))
  BY GrownShows, Zenon DEF Grown

(* A write begins inside the old bytes of the window, or adds n to them.   *)
Begins(offset, n, old, size) ==
    size = old /\ offset < old /\ n >= 1 /\ (Aligned(size) \/ offset + n <= size)
Appends(offset, n, old, size) ==
    old = offset /\ size = old + n /\ (n >= 1 \/ ~Aligned(size))

InUse(offset, n, size) ==
    IF offset + n > size THEN offset + Taken(offset, n, size) ELSE size

(* How much is taken: all, or up to the last whole sector.                 *)
LEMMA TakenIs ==
  ASSUME NEW offset \in Nat, NEW n \in Nat, NEW old \in Nat, NEW size \in Nat,
         old <= size, size <= Size, offset + n <= Size,
         Begins(offset, n, old, size) \/ Appends(offset, n, old, size)
  PROVE  LET m     == Taken(offset, n, size)
             inUse == InUse(offset, n, size)
         IN  /\ m \in Nat /\ m <= n /\ inUse \in Nat /\ offset <= old /\ offset + m <= inUse
             /\ old <= inUse /\ inUse <= Size
             /\ inUse <= size \/ inUse <= offset + n
             /\ inUse = old \/ inUse = offset + m
             /\ \/ m = n /\ inUse = size
                \/ m >= 1 /\ Aligned(inUse) /\ inUse = offset + m
<1> DEFINE m     == Taken(offset, n, size)
           inUse == InUse(offset, n, size)
<1>1. CASE offset + n > size
  <2> DEFINE all == offset + n
             rest == all % SectorSize
             r == RoundDown(all, SectorSize)
  <2>1. size = old /\ offset < old /\ n >= 1 /\ Aligned(size)
    BY <1>1 DEF Begins, Appends
  <2>2. m = n - rest /\ inUse = offset + m
    BY <1>1 DEF Taken, InUse
  <2>3. all \in Nat /\ size <= all /\ all = offset + n
    BY <1>1
  <2> HIDE DEF all
  <2>4. /\ r = all - rest /\ rest \in Nat /\ r <= all /\ Aligned(r) /\ r \in Nat
    BY <2>3, RoundDownIs
  <2>5. size <= r
    BY <2>1, <2>3, RoundDownIs
  <2> HIDE DEF rest, r, m, inUse
  <2>6. inUse = r /\ m = r - offset
    BY <2>2, <2>3, <2>4
  <2>7. m >= 1 /\ m <= n /\ m \in Nat
    BY <2>1, <2>3, <2>4, <2>5, <2>6
  <2>8. inUse <= Size
    BY <2>3, <2>4, <2>6, UnitsAre
  <2> QED BY <2>1, <2>2, <2>3, <2>4, <2>5, <2>6, <2>7, <2>8 DEF m, inUse
<1>2. CASE ~(offset + n > size)
  <2>1. m = n /\ inUse = size
    BY <1>2 DEF Taken, InUse
  <2> HIDE DEF m, inUse
  <2>2. offset <= old /\ (size = old \/ size = offset + n)
    BY DEF Begins, Appends
  <2> QED BY <1>2, <2>1, <2>2 DEF m, inUse
<1> QED BY <1>1, <1>2

(* The dirty range covers what is written and what was dirty, in whole     *)
(* sectors.                                                                *)
LEMMA RangeGrows ==
  ASSUME NEW offset \in Nat, NEW m \in Nat, NEW pending \in BOOLEAN,
         dirtyPos \in Nat, dirtyEnd \in Nat,
         pending => Aligned(dirtyPos) /\ Aligned(dirtyEnd)
  PROVE  LET start == Start(offset, pending)
             end   == End(offset + m, pending)
         IN  /\ start \in Nat /\ Aligned(start) /\ start <= offset
             /\ end \in Nat /\ Aligned(end) /\ offset + m <= end
             /\ pending => start <= dirtyPos /\ dirtyEnd <= end
             /\ \A x \in Nat : Aligned(x) /\ offset + m <= x =>
                   end <= x \/ (pending /\ end = dirtyEnd)
<1> DEFINE start == Start(offset, pending)
           up    == offset + m
           end   == End(up, pending)
           r     == RoundDown(offset, SectorSize)
           s     == RoundUp(up, SectorSize)
<1>1. r \in Nat /\ r <= offset /\ Aligned(r)
  BY RoundDownIs
<1>2. up \in Nat /\ up = offset + m
  OBVIOUS
<1> HIDE DEF up
<1>3. s \in Nat /\ up <= s /\ Aligned(s) /\ \A x \in Nat : Aligned(x) /\ up <= x => s <= x
  BY <1>2, RoundUpIs
<1>4. start = IF pending /\ offset >= dirtyPos THEN dirtyPos ELSE r
  BY DEF Start
<1>5. end = IF pending /\ up <= dirtyEnd THEN dirtyEnd ELSE s
  BY DEF End
<1> HIDE DEF r, s, start, end
<1>6. start \in Nat /\ Aligned(start) /\ start <= offset /\ (pending => start <= dirtyPos)
  BY <1>1, <1>4
<1>7. /\ end \in Nat /\ Aligned(end) /\ up <= end /\ (pending => dirtyEnd <= end)
      /\ \A x \in Nat : Aligned(x) /\ up <= x => end <= x \/ (pending /\ end = dirtyEnd)
  <2>1. CASE pending /\ up <= dirtyEnd
    BY <1>5, <2>1
  <2>2. CASE ~(pending /\ up <= dirtyEnd)
    <3>1. end = s
      BY <1>5, <2>2
    <3> QED BY <1>2, <1>3, <2>2, <3>1
  <2> QED BY <2>1, <2>2
<1> QED BY <1>2, <1>6, <1>7 DEF start, end

(* When the dirty range fits into the window, something was written and    *)
(* the window ends as well as before.                                      *)
LEMMA RangeFits ==
  ASSUME NEW offset \in Nat, NEW n \in Nat, NEW m \in Nat, NEW old \in Nat, NEW size \in Nat,
         NEW inUse \in Nat, NEW start \in Nat, NEW end \in Nat,
         Begins(offset, n, old, size) \/ Appends(offset, n, old, size),
         \/ m = n /\ inUse = size
         \/ m >= 1 /\ Aligned(inUse) /\ inUse = offset + m,
         start <= offset, offset + m <= end, Aligned(end), end <= inUse
  PROVE  m >= 1 /\ start < end /\ (Aligned(inUse) \/ (inUse = size /\ size = old))
<1>1. CASE m >= 1 /\ Aligned(inUse) /\ inUse = offset + m
  BY <1>1
<1>2. CASE m = n /\ inUse = size /\ Begins(offset, n, old, size)
  BY <1>2 DEF Begins
<1>3. CASE m = n /\ inUse = size /\ Appends(offset, n, old, size)
  <2>1. size = offset + m /\ (m >= 1 \/ ~Aligned(size)) /\ inUse = size
    BY <1>3 DEF Appends
  <2>2. end = size
    BY <2>1
  <2>3. Aligned(size)
    BY <2>2
  <2>4. m >= 1
    BY <2>1, <2>3
  <2>5. start < end
    BY <2>1, <2>2, <2>4
  <2> QED BY <2>1, <2>3, <2>4, <2>5
<1> QED BY <1>1, <1>2, <1>3

(* The arguments of the end of buf_pwrite.  The window held old bytes before, of which those *)
(* from lo to hi are dirty; it now has size of them in use.  Either the     *)
(* bytes written begin inside it, or they are added at its end and nothing  *)
(* else is.                                                                 *)
Room(base, at, n, size, pending, old, offset) ==
    /\ current' = base /\ at = base + offset /\ Aligned(base) /\ extent' \in Nat
    /\ base + (offset + n) <= MaxPos /\ base + size <= MaxPos
    /\ old <= size /\ size <= Size /\ offset + n <= Size
    /\ Begins(offset, n, old, size) \/ Appends(offset, n, old, size)
    /\ Aligned(old) \/ base + old = extent'
    /\ pending => /\ Aligned(dirtyPos) /\ Aligned(dirtyEnd)
                  /\ dirtyPos < dirtyEnd /\ dirtyEnd <= old
Held(b, base, pending, old, lo, hi) ==
    /\ b \in [Cells -> Bytes]
    /\ \/ pending /\ lo = dirtyPos /\ hi = dirtyEnd
       \/ ~pending /\ lo = 0 /\ hi = 0
    /\ Copies(b, base, old, below', lo, hi)
    /\ Shows(b, base, old, below', want)
    /\ BlankBehind(below', extent')

(* The window ends before the bound where both of its possible ends do.    *)
LEMMA EndFits ==
  ASSUME NEW base \in Nat, NEW all \in Nat, NEW size \in Nat, NEW inUse \in Nat, NEW max \in Nat,
         inUse <= size \/ inUse <= all, base + all <= max, base + size <= max
  PROVE  base + inUse <= max
  OBVIOUS

(* The offset of a position in the window.                                 *)
LEMMA OffsetIs ==
  ASSUME NEW base \in Nat, NEW offset \in Nat
  PROVE  (base + offset) - base = offset
  OBVIOUS

(* The end of buf_pwrite, in such a window, ...                            *)
Storing(v, base, at, n, b, size, pending, old, lo, hi, offset) ==
    /\ Room(base, at, n, size, pending, old, offset) /\ Held(b, base, pending, old, lo, hi)
    /\ Store(v, at, n, b, size, pending)

(* ... and what comes of it.                                               *)
StoredWell(v, size) ==
    /\ buf' \in [Cells -> Bytes] /\ want' \in [Positions -> Bytes]
    /\ curSize' \in 0..Size /\ dirtyPos' \in Nat /\ dirtyEnd' \in Nat /\ dirty' \in BOOLEAN
    /\ \A p \in Positions : want'[p] \in {want[p], v}
    /\ \/ ended' = "no" /\ WindowRight'
       \/ ended' = EndTooBig /\ ~Aligned(size)

(* What buf_pwrite leaves behind: a right window that shows what was       *)
(* written, or the end of the process because the dirty range, in whole    *)
(* sectors, ends behind the window, which then ends in a sector.           *)
LEMMA StoreRight ==
  ASSUME BufferRight, ended = "no",
         NEW v \in Bytes, NEW base \in Nat, NEW at, NEW n \in Nat, NEW b, NEW size \in Nat,
         NEW pending \in BOOLEAN, NEW old \in Nat, NEW lo \in Nat, NEW hi \in Nat, NEW offset \in Nat,
         Storing(v, base, at, n, b, size, pending, old, lo, hi, offset)
  PROVE  StoredWell(v, size)
<1> DEFINE m      == Taken(offset, n, size)
           inUse  == InUse(offset, n, size)
           start  == Start(offset, pending)
           end    == End(offset + m, pending)
<1>s. /\ Room(base, at, n, size, pending, old, offset) /\ Held(b, base, pending, old, lo, hi)
      /\ Store(v, at, n, b, size, pending)
  BY Zenon DEF Storing
<1>r. /\ old <= size /\ size <= Size /\ offset + n <= Size
      /\ Begins(offset, n, old, size) \/ Appends(offset, n, old, size)
  BY <1>s DEF Room
<1>b. /\ current' = base /\ at = base + offset /\ at - current' = offset
      /\ Aligned(old) \/ base + old = extent'
      /\ pending => /\ Aligned(dirtyPos) /\ Aligned(dirtyEnd)
                    /\ dirtyPos < dirtyEnd /\ dirtyEnd <= old
  BY <1>s, OffsetIs DEF Room
<1>2. /\ buf' = Overwritten(b, offset, m, v) /\ want' = Rewritten(want, at, m, v)
      /\ curSize' = inUse /\ dirtyPos' = start /\ dirtyEnd' = end
  BY <1>s, <1>b, Zenon DEF Store, InUse, Overwritten, Rewritten
<1>a. IF end > inUse THEN dirty' = pending /\ ended' = EndTooBig
      ELSE dirty' = TRUE /\ ended' = "no"
  BY <1>s, <1>b, Zenon DEF Store, InUse, EndTooBig
<1>3. /\ m \in Nat /\ m <= n /\ inUse \in Nat /\ offset <= old /\ offset + m <= inUse
      /\ old <= inUse /\ inUse <= Size
      /\ inUse <= size \/ inUse <= offset + n
      /\ inUse = old \/ inUse = offset + m
      /\ \/ m = n /\ inUse = size
         \/ m >= 1 /\ Aligned(inUse) /\ inUse = offset + m
  BY <1>r, TakenIs
<1> HIDE DEF m, inUse
<1>4. /\ start \in Nat /\ Aligned(start) /\ start <= offset
      /\ end \in Nat /\ Aligned(end) /\ offset + m <= end
      /\ pending => start <= dirtyPos /\ dirtyEnd <= end
      /\ \A x \in Nat : Aligned(x) /\ offset + m <= x =>
             end <= x \/ (pending /\ end = dirtyEnd)
  <2>1. dirtyPos \in Nat /\ dirtyEnd \in Nat /\ (pending => Aligned(dirtyPos) /\ Aligned(dirtyEnd))
    BY <1>b, ValuesAre
  <2> QED BY <1>3, <2>1, RangeGrows
<1> HIDE DEF start, end
<1>5. buf' \in [Cells -> Bytes]
  <2>1. b \in [Cells -> Bytes]
    BY <1>s DEF Held
  <2> QED BY <1>2, <2>1 DEF Overwritten
<1>6. want' \in [Positions -> Bytes] /\ \A p \in Positions : want'[p] \in {want[p], v}
  BY <1>2, ValuesAre DEF Rewritten
<1>7. curSize' \in 0..Size /\ dirtyPos' \in Nat /\ dirtyEnd' \in Nat
  BY <1>2, <1>3, <1>4, SizesAre
<1>8. dirty' \in BOOLEAN
  BY <1>a, Zenon
<1>9. ASSUME end > inUse
      PROVE  ended' = EndTooBig /\ ~Aligned(size)
  <2>1. ended' = EndTooBig
    BY <1>9, <1>a
  <2>2. ASSUME Aligned(inUse) PROVE FALSE
    <3>1. end <= inUse \/ (pending /\ end = dirtyEnd)
      BY <1>3, <1>4, <2>2
    <3> QED BY <1>b, <1>3, <1>4, <1>9, <3>1, ValuesAre
  <2>3. inUse = size \/ Aligned(inUse)
    BY <1>3
  <2> QED BY <2>1, <2>2, <2>3
<1>10. ASSUME ~(end > inUse)
       PROVE  ended' = "no" /\ WindowRight'
  <2>1. ended' = "no" /\ dirty' = TRUE /\ curSize' = inUse /\ dirtyPos' = start /\ dirtyEnd' = end
    BY <1>2, <1>10, <1>a
  <2>2. end <= inUse
    BY <1>3, <1>4, <1>10
  <2>3. m >= 1 /\ start < end /\ (Aligned(inUse) \/ (inUse = size /\ size = old))
    BY <1>r, <1>3, <1>4, <2>2, RangeFits
  <2>4. Aligned(inUse) \/ base + inUse = extent'
    BY <1>b, <2>3
  <2>5. DirtyRight'
    BY <1>4, <2>1, <2>2, <2>3 DEF DirtyRight
  <2>6. lo < hi => start <= lo /\ hi <= end
    <3>1. CASE pending /\ lo = dirtyPos /\ hi = dirtyEnd
      BY <1>4, <3>1
    <3>2. CASE ~pending /\ lo = 0 /\ hi = 0
      BY <3>2
    <3> QED BY <1>s, <3>1, <3>2 DEF Held
  <2>7. /\ Copies(buf', current', inUse, below', start, end)
        /\ Shows(buf', current', inUse, below', want')
    <3>1. Grown(offset, m, old, inUse, lo, hi, start, end)
      BY <1>3, <1>4, <2>6 DEF Grown
    <3>2. Copies(b, base, old, below', lo, hi) /\ Shows(b, base, old, below', want)
      BY <1>s DEF Held
    <3>3. /\ Copies(Overwritten(b, offset, m, v), base, inUse, below', start, end)
          /\ Shows(Overwritten(b, offset, m, v), base, inUse, below',
                   Rewritten(want, base + offset, m, v))
      BY <3>1, <3>2, WrittenIs
    <3> QED BY <1>b, <1>2, <3>3
  <2>8. base + inUse <= MaxPos
    <3>1. base + (offset + n) <= MaxPos /\ base + size <= MaxPos
      BY <1>s DEF Room
    <3>2. offset + n \in Nat /\ inUse \in Nat /\ MaxPos \in Nat /\ (inUse <= size \/ inUse <= offset + n)
      BY <1>3, SizesAre
    <3> QED BY <3>1, <3>2, EndFits
  <2>9. (CurEnd <= MaxPos /\ (Aligned(curSize) \/ CurEnd = extent))'
    BY <1>b, <2>1, <2>4, <2>8 DEF CurEnd
  <2>10. Aligned(current)' /\ BlankBehind(below, extent)'
    BY <1>s DEF Room, Held
  <2> QED BY <2>1, <2>5, <2>7, <2>9, <2>10 DEF WindowRight
<1> QED BY <1>5, <1>6, <1>7, <1>8, <1>9, <1>10, Zenon DEF StoredWell

-----------------------------------------------------------------------------
(* Reading the stream below into the window.                               *)

(* A window that holds what is below shows that.                           *)
LEMMA LoadedIs ==
  ASSUME NEW base \in Nat, NEW n \in Nat, NEW b, NEW low,
         \A i \in 0..n-1 : b[i] = low[base + i]
  PROVE  Copies(b, base, n, low, 0, 0) /\ Shows(b, base, n, low, low)
<1>1. Copies(b, base, n, low, 0, 0)
  BY DEF Copies
<1>2. ASSUME NEW p \in Positions, base <= p, p < base + n
      PROVE  low[p] = b[p - base]
  <2>1. p \in Nat
    BY SizesAre DEF Positions
  <2> DEFINE i == p - base
  <2>2. i \in 0..n-1 /\ base + i = p
    BY <1>2, <2>1, CellOf
  <2> HIDE DEF i
  <2>3. b[i] = low[p]
    BY <2>2
  <2> QED BY <2>3 DEF i
<1>3. Shows(b, base, n, low, low)
  BY <1>2 DEF Shows
<1> QED BY <1>1, <1>3

(* The cells after old, filled with what is below.                         *)
LEMMA ExtendedIs ==
  ASSUME NEW base \in Nat, NEW old \in Nat, NEW k \in Nat, NEW lo \in Nat, NEW hi \in Nat,
         NEW b, NEW f, NEW low, NEW w,
         \A i \in 0..old-1 : f[i] = b[i],
         \A i \in old..old+k-1 : f[i] = low[base + i],
         Copies(b, base, old, low, lo, hi), Shows(b, base, old, low, w)
  PROVE  Copies(f, base, old + k, low, lo, hi) /\ Shows(f, base, old + k, low, w)
<1>1. ASSUME NEW i \in 0..old+k-1
      PROVE  /\ i < old => i \in 0..old-1
             /\ ~(i < old) => i \in old..old+k-1
  OBVIOUS
<1>2. ASSUME NEW i \in 0..old+k-1, ~(lo <= i /\ i < hi)
      PROVE  f[i] = low[base + i]
  <2>1. CASE i < old
    BY <1>1, <1>2, <2>1 DEF Copies
  <2>2. CASE ~(i < old)
    BY <1>1, <2>2
  <2> QED BY <2>1, <2>2
<1>3. ASSUME NEW p \in Positions
      PROVE  w[p] = IF base <= p /\ p < base + (old + k) THEN f[p - base] ELSE low[p]
  <2>1. p \in Nat
    BY SizesAre DEF Positions
  <2>2. w[p] = IF base <= p /\ p < base + old THEN b[p - base] ELSE low[p]
    BY DEF Shows
  <2>3. CASE base <= p /\ p < base + (old + k)
    <3> DEFINE i == p - base
    <3>1. i \in 0..old+k-1 /\ base + i = p /\ i \in Nat
      BY <2>1, <2>3, CellOf
    <3> HIDE DEF i
    <3>2. CASE i < old
      <4>1. p < base + old
        BY <3>1, <3>2
      <4>2. f[i] = b[i]
        BY <1>1, <3>1, <3>2
      <4> QED BY <2>2, <2>3, <4>1, <4>2 DEF i
    <3>3. CASE ~(i < old)
      <4>1. ~(p < base + old)
        BY <3>1, <3>3
      <4>2. f[i] = low[base + i]
        BY <1>1, <3>1, <3>3
      <4>3. f[i] = low[p]
        BY <3>1, <4>2
      <4> QED BY <2>2, <2>3, <4>1, <4>3 DEF i
    <3> QED BY <3>2, <3>3
  <2>4. CASE ~(base <= p /\ p < base + (old + k))
    <3>1. ~(base <= p /\ p < base + old)
      BY <2>1, <2>4
    <3> QED BY <2>2, <2>4, <3>1
  <2> QED BY <2>3, <2>4
<1> QED BY <1>2, <1>3 DEF Copies, Shows

(* What a read from below puts where.                                      *)
LEMMA FilledIs ==
  ASSUME NEW base \in Nat, NEW c \in Nat, NEW k \in Nat, c + k <= Size, base + (c + k) <= MaxPos,
         buf \in [Cells -> Bytes], below' \in [Positions -> Bytes]
  PROVE  /\ Filled(c, k, base) \in [Cells -> Bytes]
         /\ \A i \in 0..c-1 : Filled(c, k, base)[i] = buf[i]
         /\ \A i \in c..c+k-1 : Filled(c, k, base)[i] = below'[base + i]
<1> DEFINE f == Filled(c, k, base)
<1>1. f = [i \in Cells |-> IF c <= i /\ i < c + k THEN below'[base + i] ELSE buf[i]]
  BY DEF Filled
<1>2. ASSUME NEW i \in Cells
      PROVE  (c <= i /\ i < c + k) => base + i \in Positions
  <2>1. i \in Nat
    BY SizesAre DEF Cells
  <2> QED BY <2>1, SizesAre DEF Positions
<1>3. \A i \in 0..c-1 : i \in Cells /\ ~(c <= i)
  BY SizesAre DEF Cells
<1>4. \A i \in c..c+k-1 : i \in Cells /\ c <= i /\ i < c + k
  BY SizesAre DEF Cells
<1> HIDE DEF f
<1>5. f \in [Cells -> Bytes]
  BY <1>1, <1>2
<1>6. \A i \in 0..c-1 : f[i] = buf[i]
  BY <1>1, <1>3
<1>7. \A i \in c..c+k-1 : f[i] = below'[base + i]
  BY <1>1, <1>4
<1> QED BY <1>5, <1>6, <1>7 DEF f

-----------------------------------------------------------------------------
(* The steps.                                                              *)

(* A step that changes nothing.                                            *)
LEMMA Stutter ==
  ASSUME BufferRight, UNCHANGED vars
  PROVE  BufferRight' /\ StepStores
<1> USE DEF vars, lowerVars, dirtyVars
<1>1. TypeOK' /\ NoInternalError'
  BY DEF BufferRight, TypeOK, NoInternalError
<1>2. (~everDirty => ~dirty /\ below = want)'
  BY DEF BufferRight
<1>3. (ended = "no" => WindowRight)'
  BY DEF BufferRight, WindowRight, DirtyRight, CurEnd
<1>4. StepStores
  BY DEF StepStores
<1> QED BY <1>1, <1>2, <1>3, <1>4 DEF BufferRight

(* Adding nothing.                                                         *)
LEMMA PlusZero == ASSUME NEW n \in Nat PROVE n + 0 = n
  OBVIOUS

(* Bounds, for numbers of which little else is known.                      *)
LEMMA Reaches ==
  ASSUME NEW a \in Nat, NEW b \in Nat
  PROVE  /\ a <= b => a \in 0..b
         /\ \A c \in Nat : a <= c /\ c < b => a <= b
  OBVIOUS

(* The window is flushed and moved, and holds only what is below.          *)
LEMMA Restarted ==
  ASSUME BufferRight, ended = "no", NEW start \in Positions, Moved(start), Cleaned,
         want' = want, everDirty' \in BOOLEAN, buf' \in [Cells -> Bytes],
         NEW n \in Nat, curSize' = n, n <= Size, current' + n <= MaxPos,
         Aligned(n) \/ current' + n = extent',
         \A i \in 0..n-1 : buf'[i] = below'[current' + i],
         \/ ended' \in {"no", ShortFill}
         \/ ended' = NothingLeft /\ ~Aligned(extent')
  PROVE  BufferRight' /\ StepStores
<1>1. /\ below' = want /\ below' \in [Positions -> Bytes] /\ want' \in [Positions -> Bytes]
      /\ extent' \in Nat /\ extent' <= MaxPos /\ current' \in Nat /\ current' <= MaxPos
      /\ Aligned(current') /\ BlankBehind(below', extent')
  <2>1. current' <= start /\ start < MaxPos /\ start \in Nat /\ current' \in Nat
    BY MovedIs
  <2>2. current' <= MaxPos
    BY <2>1, SizesAre, Reaches
  <2> QED BY <2>2, MovedIs, ValuesAre
<1>2. dirty' = FALSE /\ dirtyPos' = 0 /\ dirtyEnd' = 0
  BY DEF Cleaned
<1>3. TypeOK'
  <2>1. extent' \in 0..MaxPos /\ current' \in 0..MaxPos /\ curSize' \in 0..Size
    BY <1>1, SizesAre, Reaches
  <2>2. ended' \in Endings
    BY Zenon DEF Endings, ShortFill, NothingLeft
  <2>3. dirty' \in BOOLEAN /\ dirtyPos' \in Nat /\ dirtyEnd' \in Nat
    BY <1>2
  <2> QED BY <1>1, <2>1, <2>2, <2>3 DEF TypeOK, Endings
<1>4. NoInternalError'
  BY Zenon DEF NoInternalError, Aligned, ShortFill, NothingLeft
<1>5. WindowRight'
  <2>1. Copies(buf', current', n, below', 0, 0) /\ Shows(buf', current', n, below', below')
    BY <1>1, LoadedIs
  <2>2. DirtyRight'
    BY <1>2 DEF DirtyRight
  <2> QED BY <1>1, <1>2, <2>1, <2>2 DEF WindowRight, CurEnd
<1>6. StepStores
  BY <1>1 DEF StepStores
<1> QED BY <1>1, <1>2, <1>3, <1>4, <1>5, <1>6 DEF BufferRight

(* buf_pwrite has stored v.                                                *)
LEMMA Stored ==
  ASSUME BufferRight, ended = "no", everDirty' = TRUE, NEW v \in Bytes,
         below' \in [Positions -> Bytes], \A p \in Positions : below'[p] \in {below[p], want[p]},
         extent' \in Nat, extent' <= MaxPos, NEW base \in Nat, current' = base, base <= MaxPos,
         NEW at, NEW n \in Nat, NEW b, NEW size \in Nat, NEW pending \in BOOLEAN,
         NEW old \in Nat, NEW lo \in Nat, NEW hi \in Nat, NEW offset \in Nat,
         Storing(v, base, at, n, b, size, pending, old, lo, hi, offset),
         ~Aligned(size) => ~Aligned(extent')
  PROVE  BufferRight' /\ StepStores
<1>1. /\ buf' \in [Cells -> Bytes] /\ want' \in [Positions -> Bytes]
      /\ curSize' \in 0..Size /\ dirtyPos' \in Nat /\ dirtyEnd' \in Nat /\ dirty' \in BOOLEAN
      /\ \A p \in Positions : want'[p] \in {want[p], v}
      /\ \/ ended' = "no" /\ WindowRight'
         \/ ended' = EndTooBig /\ ~Aligned(size)
  <2>1. /\ v \in Bytes /\ base \in Nat /\ n \in Nat /\ size \in Nat /\ pending \in BOOLEAN
        /\ old \in Nat /\ lo \in Nat /\ hi \in Nat /\ offset \in Nat
        /\ Storing(v, base, at, n, b, size, pending, old, lo, hi, offset)
        /\ BufferRight /\ ended = "no"
    OBVIOUS
  <2>2. StoredWell(v, size)
    BY ONLY <2>1, StoreRight
  <2> QED BY ONLY <2>2, Zenon DEF StoredWell
<1>2. TypeOK'
  <2>1. extent' \in 0..MaxPos /\ current' \in 0..MaxPos
    BY SizesAre, Reaches
  <2>2. ended' \in Endings
    BY <1>1, Zenon DEF Endings, EndTooBig
  <2>3. everDirty' \in BOOLEAN
    OBVIOUS
  <2> QED BY <1>1, <2>1, <2>2, <2>3, Zenon DEF TypeOK, Endings
<1>3. NoInternalError'
  BY <1>1, Zenon DEF NoInternalError, Aligned, EndTooBig
<1>4. StepStores
  BY <1>1 DEF StepStores
<1>5. (~everDirty => ~dirty /\ below = want)'
  OBVIOUS
<1>6. (ended = "no" => WindowRight)'
  <2>1. EndTooBig # "no"
    BY Zenon DEF EndTooBig
  <2> QED BY <1>1, <2>1
<1> QED BY <1>2, <1>3, <1>4, <1>5, <1>6, Zenon DEF BufferRight

(* buf_pread: from the window, at its end, or elsewhere.                   *)
LEMMA ReadRight ==
  ASSUME BoundAtCylinder, BufferRight, NEW start \in Positions, NEW len \in Nat, Read(start, len)
  PROVE  BufferRight' /\ StepStores
<1>a. ended = "no"
  BY DEF Read
<1>w. /\ CurEnd <= MaxPos /\ CurEnd = current + curSize /\ Aligned(current)
      /\ Aligned(curSize) \/ CurEnd = extent
      /\ DirtyRight
      /\ Copies(buf, current, curSize, below, dirtyPos, dirtyEnd)
      /\ Shows(buf, current, curSize, below, want)
      /\ BlankBehind(below, extent)
  BY <1>a DEF BufferRight, WindowRight, CurEnd
<1>1. CASE ReadInside(start)
  BY <1>1, Stutter DEF ReadInside
<1>2. CASE ReadAppend(start, len)
  <2>1. PICK k \in Given(CurEnd, Load(CurEnd, curSize), extent') :
           buf' = Filled(curSize, k, current) /\ curSize' = curSize + k
    BY <1>2 DEF ReadAppend
  <2>2. /\ below' = below /\ extent' = extent /\ current' = current /\ dirty' = dirty
        /\ dirtyPos' = dirtyPos /\ dirtyEnd' = dirtyEnd /\ everDirty' = everDirty
        /\ ended' = "no" /\ want' = want /\ curSize < Size
    BY <1>2, <1>a DEF ReadAppend, AtEnd, lowerVars, dirtyVars
  <2> DEFINE l == Load(CurEnd, curSize)
  <2>3. l \in Nat /\ l <= Size - curSize
    <3>1. CurEnd \in Nat
      BY <1>w, ValuesAre
    <3>2. ToCylinderEnd(CurEnd) \in Nat
      BY <3>1, ToCylinderEndIs
    <3>3. Size - curSize \in Nat
      BY <2>2, ValuesAre
    <3> QED BY <3>2, <3>3, LeastIs DEF Load
  <2>4. k \in Nat /\ k <= l /\ (k # 0 => CurEnd + k <= extent) /\ (Aligned(l) => Aligned(k) \/ CurEnd + k = extent)
        /\ (CurEnd >= extent => k = 0)
    <3>1. CurEnd \in Nat /\ extent' \in Nat
      BY <1>w, <2>2, ValuesAre
    <3>2. k \in Given(CurEnd, l, extent')
      BY <2>1
    <3> HIDE DEF l
    <3>3. /\ k \in Nat /\ k <= l /\ (k # 0 => CurEnd + k <= extent')
          /\ CurEnd >= extent' => k = 0
          /\ Aligned(l) => Aligned(k) \/ CurEnd + k = extent'
      BY <2>3, <3>1, <3>2, GivenIs
    <3> QED BY <3>3, <2>2
  <2>5. Aligned(curSize) => Aligned(l)
    <3> SUFFICES ASSUME Aligned(curSize) PROVE Aligned(l)
      OBVIOUS
    <3>1. CurEnd \in Nat /\ Aligned(CurEnd)
      BY <1>w, AlignedSum, ValuesAre
    <3>2. ToCylinderEnd(CurEnd) \in Nat /\ Aligned(ToCylinderEnd(CurEnd))
      BY <3>1, ToCylinderEndIs
    <3>3. Aligned(Size) /\ Size >= curSize
      BY UnitsAre, ValuesAre
    <3>4. Aligned(Size - curSize) /\ Size - curSize \in Nat
      BY <3>3, AlignedSum, ValuesAre
    <3>5. l \in {ToCylinderEnd(CurEnd), Size - curSize}
      BY <3>2, <3>4, LeastIs DEF Load
    <3> QED BY <3>2, <3>4, <3>5
  <2> HIDE DEF l
  <2>6. curSize + k \in Nat /\ curSize + k <= Size /\ current + (curSize + k) <= MaxPos
    BY <1>w, <2>3, <2>4, ValuesAre
  <2>7. Aligned(curSize + k) \/ current + (curSize + k) = extent
    <3>1. CASE Aligned(curSize)
      <4>1. Aligned(k) \/ CurEnd + k = extent
        BY <2>4, <2>5, <3>1
      <4>2. Aligned(k) => Aligned(curSize + k)
        BY <2>4, <3>1, AlignedSum, ValuesAre
      <4>3. CurEnd + k = current + (curSize + k)
        BY <1>w, <2>4, ValuesAre
      <4> QED BY <4>1, <4>2, <4>3
    <3>2. CASE CurEnd = extent
      <4>1. k = 0
        BY <2>4, <3>2, ValuesAre
      <4> QED BY <1>w, <3>2, <4>1, ValuesAre
    <3> QED BY <1>w, <3>1, <3>2
  <2>8. /\ buf' \in [Cells -> Bytes]
        /\ \A i \in 0..curSize-1 : buf'[i] = buf[i]
        /\ \A i \in curSize..curSize+k-1 : buf'[i] = below[current + i]
    <3>1. below' \in [Positions -> Bytes]
      BY <2>2, ValuesAre
    <3>2. /\ Filled(curSize, k, current) \in [Cells -> Bytes]
          /\ \A i \in 0..curSize-1 : Filled(curSize, k, current)[i] = buf[i]
          /\ \A i \in curSize..curSize+k-1 : Filled(curSize, k, current)[i] = below'[current + i]
      <4>1. current \in Nat /\ curSize \in Nat /\ buf \in [Cells -> Bytes]
        BY ValuesAre
      <4> QED BY <2>4, <2>6, <3>1, <4>1, FilledIs
    <3> QED BY <2>1, <2>2, <3>2
  <2>9. /\ Copies(buf', current, curSize + k, below, dirtyPos, dirtyEnd)
        /\ Shows(buf', current, curSize + k, below, want)
    <3> DEFINE f == buf'
    <3>1. (\A i \in 0..curSize-1 : f[i] = buf[i]) /\ (\A i \in curSize..curSize+k-1 : f[i] = below[current + i])
      BY <2>8
    <3> HIDE DEF f
    <3>2. /\ current \in Nat /\ curSize \in Nat /\ dirtyPos \in Nat /\ dirtyEnd \in Nat /\ k \in Nat
      BY <2>4, ValuesAre
    <3>3. /\ Copies(f, current, curSize + k, below, dirtyPos, dirtyEnd)
          /\ Shows(f, current, curSize + k, below, want)
      BY <1>w, <3>1, <3>2, ExtendedIs
    <3> QED BY <3>3 DEF f
  <2>10. DirtyRight'
    BY <1>w, <2>1, <2>2, <2>4, ValuesAre DEF DirtyRight
  <2>11. WindowRight'
    BY <1>w, <2>1, <2>2, <2>6, <2>7, <2>9, <2>10 DEF WindowRight, CurEnd
  <2>12. TypeOK'
    <3>1. curSize' \in 0..Size
      BY <2>1, <2>6, SizesAre
    <3> QED BY <2>2, <2>8, <3>1 DEF BufferRight, TypeOK
  <2>13. StepStores /\ NoInternalError'
    BY <2>2 DEF StepStores, NoInternalError
  <2>14. (~everDirty => ~dirty /\ below = want)'
    BY <2>2 DEF BufferRight
  <2> QED BY <2>11, <2>12, <2>13, <2>14 DEF BufferRight
<1>3. CASE ReadOutside(start, len)
  <2> DEFINE base == Window(start)
             l == Load(base, 0)
  <2>1. PICK k \in Given(base, l, extent') :
           /\ buf' = Filled(0, k, base) /\ curSize' = k
           /\ ended' = IF base + k < start THEN ShortFill ELSE "no"
    BY <1>3 DEF ReadOutside, ShortFill
  <2>2. Moved(start) /\ Cleaned /\ everDirty' = everDirty /\ want' = want
    BY <1>3 DEF ReadOutside
  <2>3. /\ base \in Nat /\ Aligned(base) /\ base < MaxPos /\ current' = base
        /\ extent' \in Nat /\ below' \in [Positions -> Bytes]
    <3>1. /\ current' = base /\ current' \in Nat /\ current' <= start /\ start \in Nat /\ start < MaxPos
          /\ Aligned(current') /\ extent' \in Nat /\ below' \in [Positions -> Bytes]
      BY <1>a, <2>2, MovedIs
    <3> QED BY <3>1, SizesAre
  <2> HIDE DEF base
  <2>4. l \in Nat /\ l <= Size /\ base + l <= MaxPos /\ Aligned(l)
    <3>1. /\ ToCylinderEnd(base) \in Nat /\ Aligned(ToCylinderEnd(base)) /\ base + ToCylinderEnd(base) <= MaxPos
      BY <2>3, ToCylinderEndIs
    <3>2. Aligned(Size) /\ Size - 0 = Size /\ Size \in Nat
      BY UnitsAre
    <3>3. l \in {ToCylinderEnd(base), Size} /\ l <= Size /\ l <= ToCylinderEnd(base)
      BY <3>1, <3>2, LeastIs DEF Load
    <3> QED BY <2>3, <3>1, <3>2, <3>3, SizesAre
  <2> HIDE DEF l
  <2>5. k \in Nat /\ k <= l /\ (Aligned(k) \/ base + k = extent')
    BY <2>3, <2>4, GivenIs
  <2>6. k <= Size /\ base + k <= MaxPos
    BY <2>3, <2>4, <2>5, SizesAre
  <2>7. buf' \in [Cells -> Bytes] /\ \A i \in 0..k-1 : buf'[i] = below'[base + i]
    <3>1. 0 + k = k /\ 0..0+k-1 = 0..k-1
      BY <2>5
    <3>2. 0 + k <= Size /\ base + (0 + k) <= MaxPos
      BY <2>6, <3>1
    <3>3. /\ Filled(0, k, base) \in [Cells -> Bytes]
          /\ \A i \in 0..0+k-1 : Filled(0, k, base)[i] = below'[base + i]
      BY <2>3, <2>5, <3>2, FilledIs, ValuesAre
    <3> QED BY <2>1, <3>1, <3>3
  <2>8. ended' \in {"no", ShortFill}
    BY <2>1
  <2>9. everDirty' \in BOOLEAN
    BY <2>2, ValuesAre
  <2> QED BY <1>a, <2>1, <2>2, <2>3, <2>5, <2>6, <2>7, <2>8, <2>9, Restarted
<1> QED BY <1>1, <1>2, <1>3 DEF Read

(* buf_pwrite into the window: it takes what fits into it.                 *)
LEMMA WriteInsideRight ==
  ASSUME BufferRight, ended = "no", everDirty' = TRUE, NEW start \in Positions, NEW len \in Nat \ {0},
         start + len <= MaxPos, NEW v \in Bytes, WriteInside(start, len, v)
  PROVE  BufferRight' /\ StepStores
<1> DEFINE offset == start - current
           n      == Least(len, CurEnd - start)
<1>w. /\ CurEnd <= MaxPos /\ CurEnd = current + curSize /\ Aligned(current)
      /\ Aligned(curSize) \/ CurEnd = extent
      /\ DirtyRight
      /\ Copies(buf, current, curSize, below, dirtyPos, dirtyEnd)
      /\ Shows(buf, current, curSize, below, want)
      /\ BlankBehind(below, extent)
  BY DEF BufferRight, WindowRight, CurEnd
<1>1. /\ below' = below /\ extent' = extent /\ current' = current
      /\ current <= start /\ start < CurEnd
      /\ Store(v, start, n, buf, curSize, dirty)
  BY DEF WriteInside, Inside, lowerVars
<1>2. start \in Nat
  BY SizesAre DEF Positions
<1>3. /\ offset \in Nat /\ start = current + offset /\ offset < curSize
      /\ CurEnd - start \in Nat /\ CurEnd - start >= 1 /\ CurEnd - start = curSize - offset
  BY <1>w, <1>1, <1>2, ValuesAre
<1> HIDE DEF offset
<1>4. n \in Nat /\ n >= 1 /\ n <= len /\ n <= CurEnd - start
  BY <1>3, LeastIs
<1> HIDE DEF n
<1>5. offset + n <= curSize
  BY <1>3, <1>4, ValuesAre
<1>6. Begins(offset, n, curSize, curSize)
  BY <1>3, <1>4, <1>5 DEF Begins
<1>7. /\ current + (offset + n) <= MaxPos /\ current + curSize <= MaxPos
      /\ curSize <= curSize /\ curSize <= Size /\ offset + n <= Size
  BY <1>w, <1>3, <1>4, <1>5, ValuesAre
<1>8. dirty => /\ Aligned(dirtyPos) /\ Aligned(dirtyEnd)
               /\ dirtyPos < dirtyEnd /\ dirtyEnd <= curSize
  BY <1>w DEF DirtyRight
<1>9. Room(current, start, n, curSize, dirty, curSize, offset)
  BY <1>w, <1>1, <1>3, <1>6, <1>7, <1>8, ValuesAre DEF Room
<1>10. Held(buf, current, dirty, curSize, dirtyPos, dirtyEnd)
  BY <1>w, <1>1, ValuesAre DEF Held, DirtyRight
<1>11. Storing(v, current, start, n, buf, curSize, dirty, curSize, dirtyPos, dirtyEnd, offset)
  BY <1>1, <1>9, <1>10, Zenon DEF Storing
<1>12. ~Aligned(curSize) => ~Aligned(extent')
  BY <1>w, <1>1, AlignedSum, ValuesAre
<1>13. /\ below' \in [Positions -> Bytes] /\ \A p \in Positions : below'[p] \in {below[p], want[p]}
       /\ extent' \in Nat /\ extent' <= MaxPos /\ current' = current
  BY <1>1, ValuesAre
<1>14. current \in Nat /\ current <= MaxPos /\ curSize \in Nat /\ dirtyPos \in Nat /\ dirtyEnd \in Nat /\ dirty \in BOOLEAN
  BY ValuesAre
<1> QED BY <1>3, <1>4, <1>11, <1>12, <1>13, <1>14, Stored

(* buf_pwrite at the end of the window: whole sectors, without looking at  *)
(* what is below.  Should the window end in a sector, the process ends.    *)
LEMMA WriteAppendRight ==
  ASSUME BufferRight, ended = "no", everDirty' = TRUE, NEW start \in Positions, NEW len \in Nat \ {0},
         start + len <= MaxPos, NEW v \in Bytes, WriteAppend(start, len, v)
  PROVE  BufferRight' /\ StepStores
<1> DEFINE all  == Least(len, Size - curSize)
           n    == RoundDown(all, SectorSize)
           size == curSize + n
<1>w. /\ CurEnd <= MaxPos /\ CurEnd = current + curSize /\ Aligned(current)
      /\ Aligned(curSize) \/ CurEnd = extent
      /\ DirtyRight
      /\ Copies(buf, current, curSize, below, dirtyPos, dirtyEnd)
      /\ Shows(buf, current, curSize, below, want)
      /\ BlankBehind(below, extent)
  BY DEF BufferRight, WindowRight, CurEnd
<1>1. /\ below' = below /\ extent' = extent /\ current' = current
      /\ start = CurEnd /\ curSize < Size /\ len >= SectorSize
      /\ Store(v, start, n, buf, size, dirty)
  BY DEF WriteAppend, AtEnd, lowerVars
<1>2. /\ Size - curSize \in Nat /\ Size - curSize >= 1 /\ all \in {len, Size - curSize}
      /\ all <= len /\ all <= Size - curSize /\ all \in Nat
  BY <1>1, LeastIs, ValuesAre
<1> HIDE DEF all
<1>3. n \in Nat /\ n <= all /\ Aligned(n) /\ \A m \in Nat : Aligned(m) /\ m <= all => m <= n
  BY <1>2, RoundDownIs
<1> HIDE DEF n
<1>4. n >= 1 \/ ~Aligned(size)
  <2>1. CASE Aligned(curSize)
    <3>1. Aligned(Size - curSize)
      BY <1>1, <2>1, UnitsAre, AlignedSum, ValuesAre
    <3>2. SectorSize <= Size - curSize
      BY <1>2, <3>1, AtLeastOneSector
    <3>3. SectorSize \in Nat /\ SectorSize <= all /\ SectorSize >= 1
      BY <1>1, <1>2, <3>2, SizesAre
    <3>4. SectorSize <= n
      BY <1>3, <3>3, AtLeastOneSector
    <3> QED BY <1>3, <3>3, <3>4
  <2>2. CASE ~Aligned(curSize)
    <3>1. size = n + curSize
      BY <1>3, ValuesAre
    <3>2. ~Aligned(size)
      BY <1>3, <2>2, <3>1, AlignedSum, ValuesAre
    <3> QED BY <3>2
  <2> QED BY <2>1, <2>2
<1>5. /\ size \in Nat /\ size = curSize + n /\ size <= Size /\ curSize <= size
      /\ current + size <= MaxPos /\ current + (curSize + n) <= MaxPos
      /\ start = current + curSize
  BY <1>w, <1>1, <1>2, <1>3, ValuesAre
<1>6. ~Aligned(size) => ~Aligned(extent')
  <2>1. ~Aligned(size) => ~Aligned(curSize)
    BY <1>3, <1>5, AlignedSum, ValuesAre
  <2>2. ~Aligned(curSize) => ~Aligned(extent')
    BY <1>w, <1>1, AlignedSum, ValuesAre
  <2> QED BY <2>1, <2>2
<1> HIDE DEF size
<1>7. Appends(curSize, n, curSize, size)
  BY <1>4, <1>5 DEF Appends
<1>8. dirty => /\ Aligned(dirtyPos) /\ Aligned(dirtyEnd)
               /\ dirtyPos < dirtyEnd /\ dirtyEnd <= curSize
  BY <1>w DEF DirtyRight
<1>9. Room(current, start, n, size, dirty, curSize, curSize)
  BY <1>w, <1>1, <1>5, <1>7, <1>8, ValuesAre DEF Room
<1>10. Held(buf, current, dirty, curSize, dirtyPos, dirtyEnd)
  BY <1>w, <1>1, ValuesAre DEF Held, DirtyRight
<1>11. Storing(v, current, start, n, buf, size, dirty, curSize, dirtyPos, dirtyEnd, curSize)
  BY <1>1, <1>9, <1>10, Zenon DEF Storing
<1>13. /\ below' \in [Positions -> Bytes] /\ \A p \in Positions : below'[p] \in {below[p], want[p]}
       /\ extent' \in Nat /\ extent' <= MaxPos /\ current' = current
  BY <1>1, ValuesAre
<1>14. current \in Nat /\ current <= MaxPos /\ curSize \in Nat /\ dirtyPos \in Nat /\ dirtyEnd \in Nat /\ dirty \in BOOLEAN
  BY ValuesAre
<1> QED BY <1>3, <1>5, <1>6, <1>11, <1>13, <1>14, Stored

(* What isInBuffer leaves of a write elsewhere stays within a cylinder of  *)
(* the new window.                                                         *)
LEMMA ToWriteIs ==
  ASSUME BoundAtCylinder, NEW start \in Positions, NEW len \in Nat \ {0}, start + len <= MaxPos,
         NEW base \in Nat, base = Window(start), Aligned(base), NEW offset \in Nat,
         start = base + offset, offset < SectorSize
  PROVE  LET n == ToWrite(start, len)
         IN  /\ n \in Nat /\ n >= 1 /\ n <= len /\ offset + n <= Size
             /\ n <= ToCylinderEnd(base)
             /\ base + (offset + n) <= MaxPos
             /\ ToCylinderEnd(base) \in Nat /\ Aligned(ToCylinderEnd(base))
             /\ offset < ToCylinderEnd(base) /\ ToCylinderEnd(base) <= Size
             /\ base + ToCylinderEnd(base) <= MaxPos
<1> DEFINE rest == ToCylinderEnd(base)
           room == CylinderSize - offset
           n    == ToWrite(start, len)
<1>1. /\ CylinderSize \in Nat \ {0} /\ SectorSize \in Nat \ {0} /\ MaxPos \in Nat /\ Size \in Nat
      /\ CylinderSize <= Size /\ Aligned(0) /\ Aligned(CylinderSize)
  BY UnitsAre
<1>2. start \in Nat /\ start < MaxPos
  BY <1>1 DEF Positions
<1>3. base < MaxPos
  BY <1>1, <1>2
<1>4. rest \in Nat /\ 1 <= rest /\ rest <= CylinderSize /\ Aligned(rest) /\ base + rest <= MaxPos
  BY <1>3, ToCylinderEndIs
<1> HIDE DEF rest
<1>5. SectorSize <= rest
  BY <1>4, AtLeastOneSector
<1>6. SectorSize <= CylinderSize
  <2>1. CylinderSize \in Nat /\ CylinderSize >= 1
    BY <1>1
  <2> QED BY <1>1, <2>1, AtLeastOneSector
<1>7. room \in Nat /\ room >= 1 /\ offset + room = CylinderSize
  BY <1>1, <1>6
<1>8. n = Least(len, Least(room, rest))
  <2>1. (base + offset) - base = offset
    BY OffsetIs
  <2> QED BY <2>1 DEF ToWrite, rest
<1> HIDE DEF room, n
<1>9. Least(room, rest) \in {room, rest} /\ Least(room, rest) <= room /\ Least(room, rest) <= rest
  BY <1>4, <1>7, LeastIs
<1>10. n \in Nat /\ n >= 1 /\ n <= len /\ n <= room /\ n <= rest
  <2>1. Least(room, rest) \in Nat /\ Least(room, rest) >= 1
    BY <1>4, <1>7, <1>9
  <2> QED BY <1>4, <1>7, <1>8, <1>9, <2>1, LeastIs
<1>11. offset + n <= Size /\ base + (offset + n) <= MaxPos /\ offset < rest /\ rest <= Size
  BY <1>1, <1>4, <1>5, <1>7, <1>10
<1> QED BY <1>4, <1>10, <1>11 DEF rest, n

(* A new window, before anything is stored in it.                          *)
LEMMA FreshIs ==
  ASSUME BufferRight, ended = "no", NEW start \in Positions, Moved(start), NEW base, base = Window(start)
  PROVE  /\ base \in Nat /\ Aligned(base) /\ base <= MaxPos /\ base < MaxPos /\ current' = base
         /\ extent' \in Nat /\ extent' <= MaxPos /\ BlankBehind(below', extent')
         /\ below' = want /\ below' \in [Positions -> Bytes]
         /\ \A p \in Positions : below'[p] \in {below[p], want[p]}
         /\ \E offset \in Nat : start = base + offset /\ offset < SectorSize
<1>1. /\ current' = base /\ current' \in Nat /\ current' <= start /\ start < current' + SectorSize
      /\ start \in Nat /\ start < MaxPos
      /\ Aligned(current') /\ extent' \in Nat /\ extent' <= MaxPos /\ BlankBehind(below', extent')
      /\ below' = want /\ below' \in [Positions -> Bytes]
  BY MovedIs
<1>2. base \in Nat /\ Aligned(base) /\ base <= start /\ start < base + SectorSize
  BY <1>1
<1>3. base <= MaxPos /\ base < MaxPos
  BY <1>1, <1>2, SizesAre
<1>4. start - base \in Nat /\ start = base + (start - base) /\ start - base < SectorSize
  BY <1>1, <1>2, SizesAre
<1>5. \A p \in Positions : below'[p] \in {below[p], want[p]}
  BY <1>1
<1> QED BY <1>1, <1>2, <1>3, <1>4, <1>5

(* buf_pwrite of whole sectors at a cylinder, into an empty window.        *)
LEMMA WriteWholeRight ==
  ASSUME BoundAtCylinder, BufferRight, ended = "no", everDirty' = TRUE, NEW start \in Positions,
         NEW len \in Nat \ {0}, start + len <= MaxPos, NEW v \in Bytes, WriteWhole(start, len, v)
  PROVE  BufferRight' /\ StepStores
<1> DEFINE base == Window(start)
           all  == ToWrite(start, len)
           n    == RoundDown(all, SectorSize)
<1>1. /\ start % CylinderSize = 0 /\ all >= SectorSize /\ Moved(start)
      /\ Store(v, start, n, buf, n, FALSE)
  BY DEF WriteWhole, Whole
<1>2. /\ base \in Nat /\ Aligned(base) /\ base <= MaxPos /\ base < MaxPos /\ current' = base
      /\ extent' \in Nat /\ extent' <= MaxPos /\ BlankBehind(below', extent')
      /\ below' = want /\ below' \in [Positions -> Bytes]
      /\ \A p \in Positions : below'[p] \in {below[p], want[p]}
  BY <1>1, FreshIs
<1>3. start \in Nat /\ start = base
  <2>1. start \in Nat
    BY SizesAre DEF Positions
  <2>2. Aligned(start)
    BY <1>1, <2>1, UnitsAre, MultipleOfMultiple DEF Aligned
  <2> QED BY <2>1, <2>2, RoundDownIs DEF Window
<1>4. base = Window(start)
  OBVIOUS
<1> HIDE DEF base
<1>5. all \in Nat /\ all <= Size /\ base + all <= MaxPos
  <2>1. start = base + 0 /\ 0 < SectorSize
    BY <1>2, <1>3, SizesAre
  <2>2. all \in Nat /\ 0 + all <= Size /\ base + (0 + all) <= MaxPos
    BY <1>2, <1>4, <2>1, ToWriteIs
  <2> QED BY <2>2
<1> HIDE DEF all
<1>6. n \in Nat /\ n <= all /\ Aligned(n) /\ n >= 1
  <2>1. n \in Nat /\ n <= all /\ Aligned(n) /\ \A m \in Nat : Aligned(m) /\ m <= all => m <= n
    BY <1>5, RoundDownIs
  <2>2. SectorSize <= n
    BY <1>1, <2>1, AtLeastOneSector, SizesAre
  <2> QED BY <2>1, <2>2, SizesAre
<1> HIDE DEF n
<1>7. Appends(0, n, 0, n)
  BY <1>6 DEF Appends
<1>8. /\ base + (0 + n) <= MaxPos /\ base + n <= MaxPos /\ 0 <= n /\ n <= Size /\ 0 + n <= Size
      /\ start = base + 0
  BY <1>2, <1>3, <1>5, <1>6, SizesAre
<1>9. Room(base, start, n, n, FALSE, 0, 0)
  BY <1>2, <1>7, <1>8, UnitsAre DEF Room
<1>10. Held(buf, base, FALSE, 0, 0, 0)
  <2>1. \A i \in 0..0-1 : buf[i] = want[base + i]
    OBVIOUS
  <2>2. Copies(buf, base, 0, want, 0, 0) /\ Shows(buf, base, 0, want, want)
    BY <1>2, <2>1, LoadedIs
  <2> QED BY <1>2, <2>2, ValuesAre DEF Held
<1>11. Storing(v, base, start, n, buf, n, FALSE, 0, 0, 0, 0)
  BY <1>1, <1>9, <1>10, Zenon DEF Storing
<1>12. FALSE \in BOOLEAN
  OBVIOUS
<1> QED BY <1>2, <1>6, <1>11, <1>12, Stored

(* buf_pwrite elsewhere: the window first takes what is below, or, behind  *)
(* its end, is blank.                                                      *)
LEMMA WriteOutsideRight ==
  ASSUME BoundAtCylinder, BufferRight, ended = "no", everDirty' = TRUE, NEW start \in Positions,
         NEW len \in Nat \ {0}, start + len <= MaxPos, NEW v \in Bytes, WriteOutside(start, len, v)
  PROVE  BufferRight' /\ StepStores
<1> DEFINE base   == Window(start)
           rest   == ToCylinderEnd(base)
           n      == ToWrite(start, len)
           blank  == [i \in Cells |-> IF i < rest THEN Blank ELSE buf[i]]
<1>1. PICK k \in Given(base, rest, extent') :
         LET got == RoundDown(k, SectorSize)
         IN  IF k # 0 /\ got = 0
             THEN /\ buf' = Filled(0, k, base) /\ curSize' = 0
                  /\ Cleaned /\ UNCHANGED want /\ ended' = NothingLeft
             ELSE IF k # 0
             THEN Store(v, start, n, Filled(0, k, base), got, FALSE)
             ELSE Store(v, start, n, blank, rest, FALSE)
  BY DEF WriteOutside, NothingLeft
<1> DEFINE got == RoundDown(k, SectorSize)
<1>2. Moved(start)
  BY DEF WriteOutside
<1>3. /\ base \in Nat /\ Aligned(base) /\ base <= MaxPos /\ base < MaxPos /\ current' = base
      /\ extent' \in Nat /\ extent' <= MaxPos /\ BlankBehind(below', extent')
      /\ below' = want /\ below' \in [Positions -> Bytes]
      /\ \A p \in Positions : below'[p] \in {below[p], want[p]}
      /\ \E offset \in Nat : start = base + offset /\ offset < SectorSize
  BY <1>2, FreshIs
<1>4. PICK offset \in Nat : start = base + offset /\ offset < SectorSize
  BY <1>3
<1>5. base = Window(start)
  OBVIOUS
<1> HIDE DEF base
<1>6. /\ n \in Nat /\ n >= 1 /\ n <= len /\ offset + n <= Size
      /\ base + (offset + n) <= MaxPos
      /\ rest \in Nat /\ Aligned(rest) /\ offset < rest /\ rest <= Size /\ base + rest <= MaxPos
  BY <1>3, <1>4, <1>5, ToWriteIs
<1> HIDE DEF n, rest
<1>7. /\ k \in Nat /\ k <= rest /\ (k = 0 => base >= extent')
      /\ Aligned(k) \/ base + k = extent'
  BY <1>1, <1>3, <1>6, GivenIs
<1>8. /\ got \in Nat /\ got <= k /\ Aligned(got) /\ (Aligned(k) => got = k)
  BY <1>7, RoundDownIs
<1> HIDE DEF got
<1>9. 0 + k = k /\ k <= Size /\ base + k <= MaxPos
  BY <1>3, <1>6, <1>7, SizesAre
<1>10. /\ Filled(0, k, base) \in [Cells -> Bytes]
       /\ \A i \in 0..k-1 : Filled(0, k, base)[i] = below'[base + i]
  <2>1. 0 + k <= Size /\ base + (0 + k) <= MaxPos
    BY <1>9
  <2>2. buf \in [Cells -> Bytes]
    BY ValuesAre
  <2>3. /\ Filled(0, k, base) \in [Cells -> Bytes]
        /\ \A i \in 0..0+k-1 : Filled(0, k, base)[i] = below'[base + i]
    BY <1>3, <1>7, <2>1, <2>2, FilledIs
  <2>4. 0..0+k-1 = 0..k-1
    BY <1>7
  <2> QED BY <2>3, <2>4
(* What is stored into size whole sectors of what is below.                *)
<1>11. ASSUME NEW b \in [Cells -> Bytes], NEW size \in Nat, Aligned(size), offset < size,
              size <= Size, base + size <= MaxPos,
              \A i \in 0..size-1 : b[i] = below'[base + i],
              Store(v, start, n, b, size, FALSE)
       PROVE  BufferRight' /\ StepStores
  <2>1. Begins(offset, n, size, size)
    BY <1>6, <1>11 DEF Begins
  <2>2. Room(base, start, n, size, FALSE, size, offset)
    BY <1>3, <1>4, <1>6, <1>11, <2>1 DEF Room
  <2>3. Copies(b, base, size, below', 0, 0) /\ Shows(b, base, size, below', below')
    BY <1>3, <1>11, LoadedIs
  <2>4. Held(b, base, FALSE, size, 0, 0)
    BY <1>3, <2>3 DEF Held
  <2>5. Storing(v, base, start, n, b, size, FALSE, size, 0, 0, offset)
    BY <1>11, <2>2, <2>4, Zenon DEF Storing
  <2>6. FALSE \in BOOLEAN
    OBVIOUS
  <2> QED BY <1>3, <1>4, <1>6, <1>11, <2>5, <2>6, Stored
<1>12. CASE k # 0 /\ got = 0
  <2>1. /\ buf' = Filled(0, k, base) /\ curSize' = 0 /\ Cleaned /\ want' = want
        /\ ended' = NothingLeft
    BY <1>1, <1>12 DEF got
  <2>2. ~Aligned(extent')
    <3>1. base + k = extent' /\ ~Aligned(k)
      BY <1>7, <1>8, <1>12
    <3> QED BY <1>3, <1>7, <3>1, AlignedSum
  <2>3. buf' \in [Cells -> Bytes]
    BY <1>10, <2>1
  <2>4. /\ 0 <= Size /\ current' + 0 <= MaxPos /\ Aligned(0) /\ 0 \in Nat
        /\ \A i \in 0..0-1 : buf'[i] = below'[current' + i]
    BY <1>3, UnitsAre
  <2>5. everDirty' \in BOOLEAN
    OBVIOUS
  <2> QED BY <1>2, <2>1, <2>2, <2>3, <2>4, <2>5, Restarted
<1>13. CASE k # 0 /\ got # 0
  <2>1. Store(v, start, n, Filled(0, k, base), got, FALSE)
    BY <1>1, <1>13 DEF got
  <2>2. SectorSize <= got
    BY <1>8, <1>13, AtLeastOneSector
  <2>3. offset < got /\ got <= Size /\ base + got <= MaxPos
    <3> HIDE DEF blank
    <3>1. offset < got
      BY <1>4, <1>8, <2>2, SizesAre
    <3>2. got <= Size
      BY <1>7, <1>8, <1>9, SizesAre
    <3>3. base + got <= MaxPos
      BY <1>3, <1>7, <1>8, <1>9, SizesAre, EndFits
    <3> QED BY <3>1, <3>2, <3>3
  <2>4. \A i \in 0..got-1 : i \in 0..k-1
    BY <1>7, <1>8
  <2>5. \A i \in 0..got-1 : Filled(0, k, base)[i] = below'[base + i]
    BY <1>10, <2>4
  <2> QED BY <1>8, <1>10, <1>11, <2>1, <2>3, <2>5
<1>14. CASE k = 0
  <2>1. Store(v, start, n, blank, rest, FALSE)
    BY <1>1, <1>14
  <2>2. blank \in [Cells -> Bytes]
    BY ValuesAre
  <2>3. ASSUME NEW i \in 0..rest-1
        PROVE  blank[i] = below'[base + i]
    <3>1. i \in Nat /\ i < rest /\ i \in Cells /\ base + i \in Positions
      BY <1>3, <1>6, SizesAre DEF Cells, Positions
    <3>2. blank[i] = Blank
      BY <3>1
    <3>3. base + i >= extent'
      BY <1>3, <1>7, <1>14, <3>1
    <3> QED BY <1>3, <3>1, <3>2, <3>3 DEF BlankBehind
  <2> HIDE DEF blank
  <2> QED BY <1>6, <1>11, <2>1, <2>2, <2>3
<1> QED BY <1>12, <1>13, <1>14

(* Whatever fails, the process goes on with an empty window.               *)
LEMMA EmptiedRight ==
  ASSUME BufferRight, ended = "no", NEW start \in Positions, Moved(start), Cleaned, curSize' = 0,
         buf' = buf, ended' = ended, want' = want, everDirty' \in BOOLEAN
  PROVE  BufferRight' /\ StepStores
<1>1. Moved(start) /\ current' \in Nat /\ current' <= MaxPos
  <2>1. current' = Window(start)
    BY MovedIs
  <2> QED BY <2>1, FreshIs
<1>2. buf' \in [Cells -> Bytes] /\ ended' \in {"no", ShortFill}
  BY ValuesAre
<1>3. /\ 0 <= Size /\ current' + 0 <= MaxPos /\ Aligned(0) /\ 0 \in Nat
      /\ \A i \in 0..0-1 : buf'[i] = below'[current' + i]
  <2>1. Aligned(0) /\ 0 <= Size
    BY UnitsAre
  <2>2. current' + 0 <= MaxPos
    BY <1>1, PlusZero
  <2>3. 0..0-1 = {}
    OBVIOUS
  <2> QED BY <2>1, <2>2, <2>3
<1>4. /\ \/ ended' \in {"no", ShortFill}
         \/ ended' = NothingLeft /\ ~Aligned(extent')
      /\ Aligned(0) \/ current' + 0 = extent'
      /\ curSize' = 0 /\ want' = want /\ everDirty' \in BOOLEAN /\ Cleaned
      /\ BufferRight /\ ended = "no"
  BY <1>2, <1>3
<1> QED BY ONLY <1>1, <1>2, <1>3, <1>4, start \in Positions, Restarted

(* The stream below takes k bytes of the dirty range, and the window stays *)
(* as it is.                                                               *)
LEMMA PartlyFlushedRight ==
  ASSUME BufferRight, ended = "no", dirty, NEW k \in Written,
         below' = Below(k), extent' = Extent(k),
         UNCHANGED <<buf, current, curSize, dirty, dirtyPos, dirtyEnd, everDirty, want>>,
         ended' \in {"no", FlushFailed}
  PROVE  BufferRight' /\ StepStores
<1>w. /\ CurEnd <= MaxPos /\ CurEnd = current + curSize /\ Aligned(current)
      /\ Aligned(curSize) \/ CurEnd = extent
      /\ DirtyRight
      /\ Copies(buf, current, curSize, below, dirtyPos, dirtyEnd)
      /\ Shows(buf, current, curSize, below, want)
  BY DEF BufferRight, WindowRight, CurEnd
<1>1. dirtyPos < dirtyEnd /\ dirtyEnd <= curSize
  BY <1>w DEF DirtyRight
<1>2. k \in Nat /\ k <= dirtyEnd - dirtyPos
  BY <1>1, ValuesAre DEF Written
<1> DEFINE low == Below(k)
<1>3. /\ low \in [Positions -> Bytes] /\ below' = low
      /\ \A p \in Positions : low[p] \in {below[p], want[p]}
      /\ \A p \in Positions :
            ~(current + dirtyPos <= p /\ p < current + dirtyEnd) => low[p] = below[p]
      /\ extent' \in Nat /\ extent <= extent' /\ extent' <= MaxPos
      /\ CurEnd = extent => extent' = extent
      /\ BlankBehind(low, extent')
  BY <1>2, StoredBelow
<1> HIDE DEF low
<1>4. Copies(buf, current, curSize, low, dirtyPos, dirtyEnd)
  <2> SUFFICES ASSUME NEW i \in 0..curSize-1, ~(dirtyPos <= i /\ i < dirtyEnd)
               PROVE  buf[i] = low[current + i]
    BY DEF Copies
  <2>1. buf[i] = below[current + i]
    BY <1>w DEF Copies
  <2>2. i \in Nat /\ current + i \in Positions
    BY <1>w, ValuesAre DEF Positions
  <2>3. ~(current + dirtyPos <= current + i /\ current + i < current + dirtyEnd)
    BY <2>2, ValuesAre
  <2> QED BY <1>3, <2>1, <2>2, <2>3
<1>5. Shows(buf, current, curSize, low, want)
  <2> SUFFICES ASSUME NEW p \in Positions
               PROVE  want[p] = IF current <= p /\ p < current + curSize THEN buf[p - current] ELSE low[p]
    BY DEF Shows
  <2>1. want[p] = IF current <= p /\ p < current + curSize THEN buf[p - current] ELSE below[p]
    BY <1>w DEF Shows
  <2>2. CASE ~(current <= p /\ p < current + curSize)
    <3>1. p \in Nat
      BY SizesAre DEF Positions
    <3>2. ~(current + dirtyPos <= p /\ p < current + dirtyEnd)
      BY <1>1, <2>2, <3>1, ValuesAre
    <3> QED BY <1>3, <2>1, <2>2, <3>2
  <2> QED BY <2>1, <2>2
<1>6. WindowRight'
  <2>1. DirtyRight'
    BY <1>w DEF DirtyRight
  <2> QED BY <1>w, <1>3, <1>4, <1>5, <2>1 DEF WindowRight, CurEnd
<1>7. TypeOK'
  <2>1. extent' \in 0..MaxPos
    BY <1>3, SizesAre
  <2>2. ended' \in Endings
    BY Zenon DEF Endings, FlushFailed
  <2> QED BY <1>3, <2>1, <2>2, Zenon DEF BufferRight, TypeOK, Endings
<1>8. NoInternalError'
  BY Zenon DEF NoInternalError, FlushFailed
<1>9. everDirty' = TRUE
  BY ValuesAre DEF BufferRight
<1>10. StepStores
  BY <1>3 DEF StepStores
<1> QED BY <1>6, <1>7, <1>8, <1>9, <1>10, Zenon DEF BufferRight

(* Everything dirty is written, and the window, clean, stays as it is.     *)
LEMMA FlushRight ==
  ASSUME BufferRight, Flush
  PROVE  BufferRight' /\ StepStores
<1>1. /\ ended = "no" /\ below' = Flushed /\ extent' = Extent(dirtyEnd - dirtyPos)
      /\ dirty' = FALSE /\ dirtyPos' = 0 /\ dirtyEnd' = 0 /\ everDirty' = FALSE
      /\ buf' = buf /\ current' = current /\ curSize' = curSize /\ ended' = ended /\ want' = want
  BY DEF Flush, Cleaned, EverDirtyAfter
<1>w. /\ CurEnd <= MaxPos /\ CurEnd = current + curSize /\ Aligned(current)
      /\ Aligned(curSize) \/ CurEnd = extent
      /\ DirtyRight
      /\ Shows(buf, current, curSize, below, want)
  BY <1>1 DEF BufferRight, WindowRight, CurEnd
<1>2. /\ below' = want /\ extent' \in Nat /\ extent' <= MaxPos
      /\ CurEnd = extent => extent' = extent
      /\ BlankBehind(want, extent')
  BY <1>1, FlushedIsWanted
<1>3. \A i \in 0..curSize-1 : buf[i] = want[current + i]
  <2> SUFFICES ASSUME NEW i \in 0..curSize-1 PROVE buf[i] = want[current + i]
    OBVIOUS
  <2>1. /\ i \in Nat /\ current + i \in Positions /\ current <= current + i
        /\ current + i < current + curSize /\ (current + i) - current = i
    BY <1>w, ValuesAre DEF Positions
  <2>2. want[current + i] = buf[(current + i) - current]
    BY <1>w, <2>1 DEF Shows
  <2> QED BY <2>1, <2>2
<1>4. Copies(buf, current, curSize, want, 0, 0) /\ Shows(buf, current, curSize, want, want)
  BY <1>3, LoadedIs, ValuesAre
<1>5. WindowRight'
  <2>1. DirtyRight'
    BY <1>1 DEF DirtyRight
  <2> QED BY <1>1, <1>w, <1>2, <1>4, <2>1 DEF WindowRight, CurEnd
<1>6. TypeOK'
  <2>1. extent' \in 0..MaxPos
    BY <1>2, SizesAre
  <2>2. below' \in [Positions -> Bytes] /\ dirtyPos' \in Nat /\ dirtyEnd' \in Nat
    BY <1>1, <1>2, ValuesAre
  <2>3. dirty' \in BOOLEAN /\ everDirty' \in BOOLEAN
    BY <1>1
  <2> QED BY <1>1, <2>1, <2>2, <2>3, Zenon DEF BufferRight, TypeOK
<1>7. NoInternalError'
  BY <1>1, Zenon DEF NoInternalError
<1>8. StepStores
  BY <1>1, <1>2, ValuesAre DEF StepStores
<1> QED BY <1>1, <1>2, <1>5, <1>6, <1>7, <1>8, Zenon DEF BufferRight

(* A new buffer on a stream that holds what was written.                   *)
LEMMA EmptyRight ==
  ASSUME below' = want', want' \in [Positions -> Bytes], extent' \in Nat, extent' <= MaxPos,
         BlankBehind(below', extent'), ended' = "no",
         buf' = [i \in Cells |-> Blank], current' = 0, curSize' = 0,
         dirty' = FALSE, dirtyPos' = 0, dirtyEnd' = 0, everDirty' \in BOOLEAN
  PROVE  BufferRight'
<1>1. Blank \in Bytes /\ Aligned(0) /\ MaxPos \in Nat /\ Size \in Nat
  BY UnitsAre, DiskBufferAssumption
<1>2. TypeOK'
  <2>1. extent' \in 0..MaxPos /\ current' \in 0..MaxPos /\ curSize' \in 0..Size
    BY <1>1
  <2>2. buf' \in [Cells -> Bytes] /\ dirtyPos' \in Nat /\ dirtyEnd' \in Nat
    BY <1>1
  <2>3. dirty' \in BOOLEAN
    OBVIOUS
  <2> QED BY <2>1, <2>2, <2>3, Zenon DEF TypeOK
<1>3. NoInternalError'
  BY Zenon DEF NoInternalError
<1>4. Copies(buf', 0, 0, below', 0, 0) /\ Shows(buf', 0, 0, below', below')
  <2>1. \A i \in 0..0-1 : buf'[i] = below'[0 + i]
    OBVIOUS
  <2> DEFINE b == buf'
             low == below'
  <2>2. \A i \in 0..0-1 : b[i] = low[0 + i]
    BY <2>1
  <2> HIDE DEF b, low
  <2>3. Copies(b, 0, 0, low, 0, 0) /\ Shows(b, 0, 0, low, low)
    BY <2>2, LoadedIs
  <2> QED BY <2>3 DEF b, low
<1>5. WindowRight'
  <2>1. DirtyRight'
    BY DEF DirtyRight
  <2>2. (CurEnd <= MaxPos /\ Aligned(current) /\ Aligned(curSize))'
    BY <1>1 DEF CurEnd
  <2> QED BY <1>4, <2>1, <2>2 DEF WindowRight
<1> QED BY <1>2, <1>3, <1>5, Zenon DEF BufferRight

(* The last user closes the stream, and another opens it.                  *)
LEMMA CloseRight ==
  ASSUME BufferRight, Close
  PROVE  BufferRight' /\ StepStores
<1>1. ended = "no" /\ ended' = "no" /\ want' = want /\ Empty
  BY DEF Close
<1>2. /\ below' = want /\ extent' \in Nat /\ extent' <= MaxPos /\ BlankBehind(want, extent')
  <2>1. CASE everDirty
    <3>1. below' = Flushed /\ extent' = Extent(dirtyEnd - dirtyPos)
      BY <2>1 DEF Close
    <3> QED BY <1>1, <3>1, FlushedIsWanted
  <2>2. CASE ~everDirty
    <3>1. below' = below /\ extent' = extent
      BY <2>2 DEF Close, lowerVars
    <3>2. below = want /\ BlankBehind(below, extent)
      BY <1>1, <2>2 DEF BufferRight, WindowRight
    <3> QED BY <3>1, <3>2, ValuesAre
  <2> QED BY <2>1, <2>2
<1>3. BufferRight'
  <2>1. /\ buf' = [i \in Cells |-> Blank] /\ current' = 0 /\ curSize' = 0
        /\ dirty' = FALSE /\ dirtyPos' = 0 /\ dirtyEnd' = 0
    BY <1>1 DEF Empty, Cleaned
  <2>2. everDirty' \in BOOLEAN
    BY <1>1 DEF Empty
  <2>3. want' \in [Positions -> Bytes]
    BY <1>1, ValuesAre
  <2> QED BY <1>1, <1>2, <2>1, <2>2, <2>3, EmptyRight
<1>4. StepStores
  BY <1>1, <1>2 DEF StepStores
<1> QED BY <1>3, <1>4

(* All four cases of buf_pwrite.                                           *)
LEMMA WriteRight ==
  ASSUME BoundAtCylinder, BufferRight, NEW start \in Positions, NEW len \in Nat \ {0},
         start + len <= MaxPos, NEW v \in Bytes, Write(start, len, v)
  PROVE  BufferRight' /\ StepStores
<1>1. ended = "no" /\ everDirty' = TRUE
  BY DEF Write
<1>2. CASE WriteInside(start, len, v)
  BY <1>1, <1>2, WriteInsideRight
<1>3. CASE WriteAppend(start, len, v)
  BY <1>1, <1>3, WriteAppendRight
<1>4. CASE WriteWhole(start, len, v)
  BY <1>1, <1>4, WriteWholeRight
<1>5. CASE WriteOutside(start, len, v)
  BY <1>1, <1>5, WriteOutsideRight
<1> QED BY <1>2, <1>3, <1>4, <1>5 DEF Write

-----------------------------------------------------------------------------
(* The theorems.                                                           *)

(* The empty buffer on a blank stream.                                     *)
LEMMA InitRight == Init => BufferRight
<1> SUFFICES ASSUME Init PROVE BufferRight
  OBVIOUS
<1>1. /\ extent \in Extents /\ below = [p \in Positions |-> Blank] /\ want = below
      /\ buf = [i \in Cells |-> Blank] /\ current = 0 /\ curSize = 0
      /\ dirty = FALSE /\ dirtyPos = 0 /\ dirtyEnd = 0 /\ everDirty = FALSE /\ ended = "no"
  BY DEF Init
<1>2. /\ Blank \in Bytes /\ Aligned(0) /\ MaxPos \in Nat /\ Size \in Nat \ {0}
      /\ extent \in 0..MaxPos
  BY <1>1, UnitsAre, DiskBufferAssumption
<1>3. TypeOK
  <2>1. below \in [Positions -> Bytes] /\ want \in [Positions -> Bytes] /\ buf \in [Cells -> Bytes]
    BY <1>1, <1>2
  <2>2. current \in 0..MaxPos /\ curSize \in 0..Size /\ dirtyPos \in Nat /\ dirtyEnd \in Nat
    BY <1>1, <1>2
  <2>3. dirty \in BOOLEAN /\ everDirty \in BOOLEAN
    BY <1>1
  <2> QED BY <1>1, <1>2, <2>1, <2>2, <2>3, Zenon DEF TypeOK
<1>4. NoInternalError
  BY <1>1, Zenon DEF NoInternalError
<1>5. WindowRight
  <2>1. \A i \in 0..0-1 : buf[i] = below[0 + i]
    OBVIOUS
  <2>2. Copies(buf, 0, 0, below, 0, 0) /\ Shows(buf, 0, 0, below, below)
    BY <2>1, LoadedIs
  <2>3. DirtyRight
    BY <1>1 DEF DirtyRight
  <2>4. BlankBehind(below, extent)
    BY <1>1 DEF BlankBehind
  <2>5. CurEnd <= MaxPos
    BY <1>1, <1>2 DEF CurEnd
  <2> QED BY <1>1, <1>2, <2>2, <2>3, <2>4, <2>5 DEF WindowRight
<1> QED BY <1>1, <1>3, <1>4, <1>5, Zenon DEF BufferRight

(* The invariant is inductive, and every step is one that ByteStore        *)
(* allows.                                                                 *)
LEMMA StepRight ==
  ASSUME BoundAtCylinder, BufferRight, [Next]_vars
  PROVE  BufferRight' /\ StepStores
<1>1. CASE UNCHANGED vars
  BY <1>1, Stutter
<1>2. ASSUME NEW start \in Positions, NEW len \in 1..MaxLen, start + len <= MaxPos,
             \/ Read(start, len) \/ ReadFails(start, len) \/ WriteFails(start, len)
             \/ \E v \in Bytes \ {Blank} : Write(start, len, v)
      PROVE  BufferRight' /\ StepStores
  <2>1. len \in Nat \ {0} /\ len \in Nat
    BY DiskBufferAssumption
  <2>2. CASE Read(start, len)
    BY <2>1, <2>2, ReadRight
  <2>3. CASE ReadFails(start, len)
    <3>1. /\ ended = "no" /\ Moved(start) /\ Cleaned /\ curSize' = 0
          /\ buf' = buf /\ everDirty' = everDirty /\ ended' = ended /\ want' = want
      BY <2>3 DEF ReadFails
    <3>2. everDirty' \in BOOLEAN
      BY <3>1, ValuesAre
    <3> QED BY <3>1, <3>2, EmptiedRight
  <2>4. CASE WriteFails(start, len)
    <3>1. /\ ended = "no" /\ Moved(start) /\ Cleaned /\ curSize' = 0
          /\ buf' = buf /\ everDirty' = TRUE /\ ended' = ended /\ want' = want
      BY <2>4 DEF WriteFails
    <3>2. everDirty' \in BOOLEAN
      BY <3>1
    <3> QED BY <3>1, <3>2, EmptiedRight
  <2>5. ASSUME NEW v \in Bytes \ {Blank}, Write(start, len, v)
        PROVE  BufferRight' /\ StepStores
    BY <1>2, <2>1, <2>5, WriteRight
  <2> QED BY <1>2, <2>2, <2>3, <2>4, <2>5
<1>3. CASE Flush
  BY <1>3, FlushRight
<1>4. CASE FlushFails
  <2>1. /\ ended = "no" /\ dirty /\ everDirty' = everDirty
        /\ UNCHANGED <<buf, current, curSize, dirty, dirtyPos, dirtyEnd, ended, want>>
        /\ \E k \in Written : below' = Below(k) /\ extent' = Extent(k)
    BY <1>4, ValuesAre DEF FlushFails, dirtyVars, EverDirtyAfter
  <2> QED BY <2>1, PartlyFlushedRight
<1>5. CASE Close
  BY <1>5, CloseRight
<1>6. CASE CloseFails
  <2>1. /\ ended = "no" /\ dirty /\ ended' = FlushFailed
        /\ UNCHANGED <<buf, current, curSize, dirty, dirtyPos, dirtyEnd, everDirty, want>>
        /\ \E k \in Written : below' = Below(k) /\ extent' = Extent(k)
    BY <1>6 DEF CloseFails, dirtyVars, FlushFailed
  <2> QED BY <2>1, PartlyFlushedRight
<1> QED BY <1>1, <1>2, <1>3, <1>4, <1>5, <1>6 DEF Next

(* What the invariant says to users of the buffer.                         *)
LEMMA RightIsCoherent == BufferRight => WindowCoherent /\ ShowsWritten
<1> SUFFICES ASSUME BufferRight PROVE WindowCoherent /\ ShowsWritten
  OBVIOUS
<1>1. TypeOK /\ NoInternalError
  BY DEF BufferRight
<1>2. ASSUME ended = "no"
      PROVE  /\ \A i \in 0..curSize-1 :
                   ~(dirty /\ i \in DirtyCells) => buf[i] = below[current + i]
             /\ dirty => dirtyPos < dirtyEnd /\ dirtyEnd <= curSize
             /\ View = want
  <2>1. WindowRight
    BY <1>2 DEF BufferRight
  <2>2. /\ DirtyRight /\ Copies(buf, current, curSize, below, dirtyPos, dirtyEnd)
        /\ Shows(buf, current, curSize, below, want)
    BY <2>1 DEF WindowRight
  <2>3. dirty => dirtyPos < dirtyEnd /\ dirtyEnd <= curSize
    BY <2>2 DEF DirtyRight
  <2>4. ASSUME NEW i \in 0..curSize-1, ~(dirty /\ i \in DirtyCells)
        PROVE  buf[i] = below[current + i]
    <3>1. i \in Nat /\ (i \in DirtyCells <=> dirtyPos <= i /\ i < dirtyEnd)
      BY ValuesAre DEF DirtyCells
    <3>2. ~dirty => dirtyPos = 0 /\ dirtyEnd = 0
      BY <2>2 DEF DirtyRight
    <3>3. ~(dirtyPos <= i /\ i < dirtyEnd)
      BY <2>4, <3>1, <3>2
    <3> QED BY <2>2, <3>3 DEF Copies
  <2>5. View = want
    <3>1. want = [p \in Positions |-> want[p]]
      BY ValuesAre
    <3>2. \A p \in Positions : want[p] = IF Inside(p) THEN buf[p - current] ELSE below[p]
      BY <2>2 DEF Shows, Inside, CurEnd
    <3> QED BY <3>1, <3>2 DEF View
  <2> QED BY <2>3, <2>4, <2>5
<1> QED BY <1>1, <1>2 DEF WindowCoherent, RestClean, ShowsWritten

(* The invariant holds.                                                    *)
LEMMA AlwaysRight ==
  ASSUME BoundAtCylinder
  PROVE  Spec => []BufferRight
<1>1. BufferRight /\ [Next]_vars => BufferRight'
  BY StepRight
<1> QED BY <1>1, InitRight, PTL DEF Spec

(* The window is a copy of what is below it but for the dirty range, which *)
(* lies in it, and the checks of buf_pwrite never end the process on a     *)
(* stream of whole sectors.                                                *)
THEOREM WindowStaysCoherent ==
  ASSUME BoundAtCylinder
  PROVE  Spec => []WindowCoherent
<1>1. BufferRight => WindowCoherent
  BY RightIsCoherent
<1> QED BY <1>1, AlwaysRight, PTL

(* Whatever was read, written and flushed, and whatever of it failed, a    *)
(* read delivers what was last written at its place.                       *)
THEOREM AlwaysShowsWritten ==
  ASSUME BoundAtCylinder
  PROVE  Spec => []ShowsWritten
<1>1. BufferRight => ShowsWritten
  BY RightIsCoherent
<1> QED BY <1>1, AlwaysRight, PTL

(* The buffered stream implements an array of bytes over the stream below. *)
THEOREM BufferImplementsStore ==
  ASSUME BoundAtCylinder
  PROVE  Spec => ImplementsStore
<1>1. Init => Abstract!StoreInit
  <2> SUFFICES ASSUME Init PROVE Abstract!StoreInit
    OBVIOUS
  <2>1. want \in [Positions -> Bytes]
    BY InitRight, ValuesAre
  <2>2. below = want /\ (~everDirty) = TRUE
    BY DEF Init
  <2> QED BY <2>1, <2>2 DEF Abstract!StoreInit
<1>2. BufferRight /\ BufferRight' /\ [Next]_vars =>
         [Abstract!StoreNext]_<<want, below, ~everDirty>>
  <2> SUFFICES ASSUME BufferRight, BufferRight', [Next]_vars
               PROVE  Abstract!StoreNext
    OBVIOUS
  <2>1. StepStores
    BY StepRight
  <2>2. Abstract!Saving
    BY <2>1 DEF StepStores, Abstract!Saving
  <2>3. UNCHANGED want \/ \E v \in Bytes : Abstract!StoreWrite(v)
    <3>1. want' \in [Positions -> Bytes]
      BY Zenon DEF BufferRight, TypeOK
    <3>2. CASE want' = want
      BY <3>2
    <3>3. CASE \E v \in Bytes : \A p \in Positions : want'[p] \in {want[p], v}
      BY <3>1, <3>3 DEF Abstract!StoreWrite
    <3> QED BY <2>1, <3>2, <3>3 DEF StepStores
  <2>4. ((~everDirty)' \in BOOLEAN) /\ ((~everDirty)' => below' = want')
    BY Zenon DEF BufferRight
  <2> QED BY <2>2, <2>3, <2>4 DEF Abstract!StoreNext
<1> QED BY <1>1, <1>2, AlwaysRight, PTL DEF Spec, ImplementsStore, Abstract!StoreSpec

=============================================================================
