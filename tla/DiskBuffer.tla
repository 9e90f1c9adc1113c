----------------------------- MODULE DiskBuffer -----------------------------
(***************************************************************************)
(* buffer.c: the buffer between a FAT filesystem and its disk image, and    *)
(* between a directory and its clusters.  It holds one window of the stream *)
(* below, grows the window as it is read or written at its end, and writes  *)
(* back one dirty range of whole sectors.  Positions count bytes; a write   *)
(* stores the same value in all of its bytes.                               *)
(***************************************************************************)
EXTENDS Integers

CONSTANTS
    SectorSize,     \* sectorSize: what the dirty range is rounded to
    CylinderSize,   \* cylinderSize: how far a read goes at once
    Size,           \* size of the buffer
    Granule,        \* the stream below takes and gives multiples of this
    Extents,        \* the lengths it may have at first
    MaxPos,         \* bound: positions in the stream below
    MaxLen,         \* bound: bytes of one read or write
    Bytes,          \* contents of a byte
    Blank           \* the content of a byte never written

ASSUME DiskBufferAssumption ==
    /\ SectorSize \in Nat \ {0} /\ CylinderSize \in Nat \ {0} /\ Size \in Nat \ {0}
    /\ CylinderSize % SectorSize = 0 /\ Size % CylinderSize = 0
    /\ Granule \in Nat \ {0} /\ Granule % SectorSize = 0
    /\ MaxPos \in Nat /\ Extents \subseteq 0..MaxPos /\ MaxLen \in Nat
    /\ Blank \in Bytes

Positions == 0..MaxPos-1
Cells     == 0..Size-1

VARIABLES
    below,      \* the stream below (the disk, or the File_t of a directory)
    extent,     \* its length
    buf,        \* buf
    current,    \* current: position of buf[0]
    curSize,    \* cur_size: bytes of buf in use
    dirty, dirtyPos, dirtyEnd,
    everDirty,  \* ever_dirty
    want,       \* history variable: what the users of the stream wrote
    ended       \* "no", or the message with which the process ended

lowerVars == <<below, extent>>
dirtyVars == <<dirty, dirtyPos, dirtyEnd>>
vars == <<lowerVars, buf, current, curSize, dirtyVars, everDirty, want, ended>>

Least(a, b) == IF a < b THEN a ELSE b
RoundDown(n, unit) == n - (n % unit)
RoundUp(n, unit) == RoundDown(n + unit - 1, unit)
ToCylinderEnd(p) == CylinderSize - (p % CylinderSize)
CurEnd == current + curSize

-----------------------------------------------------------------------------
(* mt_buf_flush: the dirty range goes to the stream below, which may fail    *)
(* after some of it.                                                        *)

DirtyCells == dirtyPos..dirtyEnd-1

\* The stream below after k bytes of the dirty range are written.
Below(k) ==
    [p \in Positions |->
        IF dirty /\ p - current \in DirtyCells /\ p < current + dirtyPos + k
        THEN buf[p - current] ELSE below[p]]
Extent(k) ==
    IF dirty /\ extent < current + dirtyPos + k THEN current + dirtyPos + k ELSE extent

Flushed == Below(dirtyEnd - dirtyPos)

Cleaned == dirty' = FALSE /\ dirtyPos' = 0 /\ dirtyEnd' = 0

EverDirtyAfter_reset(done) == FALSE
EverDirtyAfter(done) == everDirty /\ ~done

\* Error, or a short write: so many bytes got through, and the buffer stays as it
\* is, and dirty.
Written == {k \in 0..dirtyEnd-dirtyPos-1 : k % Granule = 0}

FlushFails ==
    /\ ended = "no" /\ dirty
    /\ \E k \in Written : below' = Below(k) /\ extent' = Extent(k)
    /\ everDirty' = EverDirtyAfter(FALSE)
    /\ UNCHANGED <<buf, current, curSize, dirtyVars, ended, want>>

\* buf_flush
Flush ==
    /\ ended = "no" /\ everDirty
    /\ below' = Flushed /\ extent' = Extent(dirtyEnd - dirtyPos)
    /\ Cleaned
    /\ everDirty' = EverDirtyAfter(TRUE)
    /\ UNCHANGED <<buf, current, curSize, ended, want>>

-----------------------------------------------------------------------------
(* isInBuffer                                                               *)

Inside(start) == current <= start /\ start < CurEnd
AtEnd(start, len) == start = CurEnd /\ curSize < Size /\ len >= SectorSize

\* The window that invalidate_buffer starts for an access at start.
Window(start) == RoundDown(start, SectorSize)

\* invalidate_buffer: the dirty range is flushed before the window moves.
Moved_dropped(start) == UNCHANGED lowerVars /\ current' = Window(start)
Moved(start) ==
    /\ below' = Flushed /\ extent' = Extent(dirtyEnd - dirtyPos)
    /\ current' = Window(start)

\* How many bytes the stream below, of length e, may deliver of n wanted at p:
\* it may stop early, but between sectors only.
Given(p, n, e) ==
    IF p >= e THEN {0}
    ELSE {k \in 1..Least(n, e - p) : k % Granule = 0 \/ k = Least(n, e - p)}

\* buf after k bytes of the stream below, as the flush left it, are read into it
\* at cell c.
Filled(c, k, base) ==
    [i \in Cells |-> IF c <= i /\ i < c + k THEN below'[base + i] ELSE buf[i]]

-----------------------------------------------------------------------------
(* buf_pread.  What it delivers are the bytes of buf at start, up to         *)
(* cur_size.                                                                *)

\* How much is read at p into a buffer with so many bytes in use.
Load_cylinder(p, used) == ToCylinderEnd(p)
Load(p, used) == Least(ToCylinderEnd(p), Size - used)

ReadInside(start) ==
    /\ Inside(start)
    /\ UNCHANGED vars

\* At the end of the window: it is extended up to the end of the cylinder.
ReadAppend(start, len) ==
    /\ ~Inside(start) /\ AtEnd(start, len)
    /\ UNCHANGED lowerVars
    /\ \E k \in Given(CurEnd, Load(CurEnd, curSize), extent') :
          /\ buf' = Filled(curSize, k, current)
          /\ curSize' = curSize + k
    /\ UNCHANGED <<current, dirtyVars, everDirty, ended, want>>

\* Elsewhere: the window is flushed and moved.
ReadOutside(start, len) ==
    LET base == Window(start)
    IN  /\ ~Inside(start) /\ ~AtEnd(start, len)
        /\ Moved(start) /\ Cleaned
        /\ \E k \in Given(base, Load(base, 0), extent') :
              /\ buf' = Filled(0, k, base)
              /\ curSize' = k
              /\ ended' = IF base + k < start THEN "Short buffer fill" ELSE "no"
        /\ UNCHANGED <<everDirty, want>>

Read(start, len) ==
    /\ ended = "no"
    /\ ReadInside(start) \/ ReadAppend(start, len) \/ ReadOutside(start, len)

\* The stream below fails to deliver anything.
ReadFails(start, len) ==
    /\ ended = "no" /\ ~Inside(start) /\ ~AtEnd(start, len)
    /\ Moved(start) /\ Cleaned
    /\ curSize' = 0
    /\ UNCHANGED <<buf, everDirty, ended, want>>

-----------------------------------------------------------------------------
(* buf_pwrite                                                               *)

\* The dirty range when n bytes at offset join it; pending: there is one.
Start_first(offset, pending) ==
    IF pending THEN dirtyPos ELSE RoundDown(offset, SectorSize)
Start(offset, pending) ==
    IF pending /\ offset >= dirtyPos THEN dirtyPos ELSE RoundDown(offset, SectorSize)
End(last, pending) ==
    IF pending /\ last <= dirtyEnd THEN dirtyEnd ELSE RoundUp(last, SectorSize)

\* How many of the n bytes at offset are taken when size bytes are in use:
\* beyond the window, whole sectors.
Taken_all(offset, n, size) == n
Taken(offset, n, size) ==
    IF offset + n > size THEN n - ((offset + n) % SectorSize) ELSE n

\* The end of buf_pwrite at position at: v goes to n bytes of a buffer that
\* held b, size bytes of it in use.
Store(v, at, n, b, size, pending) ==
    LET offset == at - current'
        m     == Taken(offset, n, size)
        inUse == IF offset + n > size THEN offset + m ELSE size
    IN  /\ buf' = [i \in Cells |-> IF offset <= i /\ i < offset + m THEN v ELSE b[i]]
        /\ want' = [p \in Positions |-> IF at <= p /\ p < at + m THEN v ELSE want[p]]
        /\ curSize' = inUse
        /\ dirtyPos' = Start(offset, pending) /\ dirtyEnd' = End(offset + m, pending)
        /\ IF End(offset + m, pending) > inUse
           THEN dirty' = pending /\ ended' = "dirty end too big"
           ELSE dirty' = TRUE /\ UNCHANGED ended

WriteInside(start, len, v) ==
    /\ Inside(start)
    /\ UNCHANGED <<lowerVars, current>>
    /\ Store(v, start, Least(len, CurEnd - start), buf, curSize, dirty)

\* Whole sectors are added to the window; what is below is not read.
WriteAppend(start, len, v) ==
    LET n == RoundDown(Least(len, Size - curSize), SectorSize)
    IN  /\ ~Inside(start) /\ AtEnd(start, len)
        /\ UNCHANGED <<lowerVars, current>>
        /\ Store(v, start, n, buf, curSize + n, dirty)

\* Elsewhere: the window is flushed and moved.  n is what isInBuffer leaves of
\* len.
ToWrite(start, len) ==
    Least(len, Least(CylinderSize - (start - Window(start)), ToCylinderEnd(Window(start))))

\* A write of whole sectors at a cylinder starts an empty window.
Whole(start, n) == start % CylinderSize = 0 /\ n >= SectorSize

WriteWhole(start, len, v) ==
    LET n == RoundDown(ToWrite(start, len), SectorSize)
    IN  /\ ~Inside(start) /\ ~AtEnd(start, len) /\ Whole(start, ToWrite(start, len))
        /\ Moved(start)
        /\ Store(v, start, n, buf, n, FALSE)

\* Any other write reads the rest of the cylinder first; beyond the end of the
\* stream that is blank ("Autoextend size").
WriteOutside(start, len, v) ==
    LET base == Window(start)
        rest == ToCylinderEnd(base)
    IN  /\ ~Inside(start) /\ ~AtEnd(start, len) /\ ~Whole(start, ToWrite(start, len))
        /\ Moved(start)
        /\ \E k \in Given(base, rest, extent') :
              LET got == RoundDown(k, SectorSize)
              IN  IF k # 0 /\ got = 0
                  THEN /\ buf' = Filled(0, k, base) /\ curSize' = 0
                       /\ Cleaned /\ UNCHANGED want /\ ended' = "Nothing left"
                  ELSE IF k # 0
                  THEN Store(v, start, ToWrite(start, len),
                                  Filled(0, k, base), got, FALSE)
                  ELSE Store(v, start, ToWrite(start, len),
                                  [i \in Cells |-> IF i < rest THEN Blank ELSE buf[i]], rest, FALSE)

Write(start, len, v) ==
    /\ ended = "no"
    /\ everDirty' = TRUE
    /\ \/ WriteInside(start, len, v) \/ WriteAppend(start, len, v)
       \/ WriteWhole(start, len, v) \/ WriteOutside(start, len, v)

\* The stream below cannot be read.
WriteFails(start, len) ==
    /\ ended = "no"
    /\ ~Inside(start) /\ ~AtEnd(start, len) /\ ~Whole(start, ToWrite(start, len))
    /\ Moved(start)
    /\ Cleaned /\ curSize' = 0 /\ everDirty' = TRUE
    /\ UNCHANGED <<buf, ended, want>>

-----------------------------------------------------------------------------

\* buf_init
Empty ==
    /\ current' = 0 /\ curSize' = 0 /\ everDirty' = FALSE
    /\ Cleaned
    /\ buf' = [i \in Cells |-> Blank]

\* The last user lets go (free_stream: flush, then free), and another opens the
\* same stream.
Close ==
    /\ ended = "no"
    /\ IF everDirty
       THEN below' = Flushed /\ extent' = Extent(dirtyEnd - dirtyPos)
       ELSE UNCHANGED lowerVars
    /\ Empty
    /\ UNCHANGED <<ended, want>>

\* free_stream frees the buffer although the flush failed: it says so, and what
\* was dirty is lost.
CloseFails ==
    /\ ended = "no" /\ dirty
    /\ ended' = "flush failed"
    /\ \E k \in Written : below' = Below(k) /\ extent' = Extent(k)
    /\ UNCHANGED <<buf, current, curSize, dirtyVars, everDirty, want>>

Init ==
    /\ extent \in Extents
    /\ below = [p \in Positions |-> Blank]
    /\ want = below
    /\ buf = [i \in Cells |-> Blank] /\ current = 0 /\ curSize = 0
    /\ dirty = FALSE /\ dirtyPos = 0 /\ dirtyEnd = 0 /\ everDirty = FALSE
    /\ ended = "no"

Next ==
    \/ \E start \in Positions, len \in 1..MaxLen :
          /\ start + len <= MaxPos
          /\ \/ Read(start, len) \/ ReadFails(start, len) \/ WriteFails(start, len)
             \/ \E v \in Bytes \ {Blank} : Write(start, len, v)
    \/ Flush \/ FlushFails \/ Close \/ CloseFails

Spec == Init /\ [][Next]_vars

-----------------------------------------------------------------------------
(* Properties                                                               *)

TypeOK ==
    /\ below \in [Positions -> Bytes] /\ extent \in 0..MaxPos
    /\ buf \in [Cells -> Bytes] /\ want \in [Positions -> Bytes]
    /\ current \in 0..MaxPos /\ curSize \in 0..Size
    /\ dirty \in BOOLEAN /\ everDirty \in BOOLEAN
    /\ dirtyPos \in Nat /\ dirtyEnd \in Nat
    /\ ended \in {"no", "flush failed", "Short buffer fill", "Nothing left",
                 "dirty end too big"}

\* What the window holds outside the dirty range is what is below: it may be
\* dropped at any time.  The dirty range lies in the window.
RestClean ==
    ended = "no" =>
        /\ \A i \in 0..curSize-1 :
              ~(dirty /\ i \in DirtyCells) => buf[i] = below[current + i]
        /\ dirty => dirtyPos < dirtyEnd /\ dirtyEnd <= curSize

\* The consistency checks of the buffer end the process only on a stream that
\* stops in the middle of a sector: a truncated image.
NoInternalError ==
    ended \in {"Nothing left", "dirty end too big"} => extent % SectorSize # 0

\* The window is a true copy of a part of the stream, and never loses track of
\* which of its bytes are newer than those below.
WindowCoherent == TypeOK /\ RestClean /\ NoInternalError

\* Reads and writes go through the window: what it shows is what was written,
\* wherever the bytes are, however the window was moved, grown or flushed.
View == [p \in Positions |-> IF Inside(p) THEN buf[p - current] ELSE below[p]]
ShowsWritten == ended = "no" => View = want

\* The buffered stream is an array of bytes, the stream below only ever receives
\* bytes of it, and when buf_flush returns at once they are the same.
Abstract == INSTANCE ByteStore WITH
    StorePositions <- Positions, StoreBytes <- Bytes, bytes <- want,
    saved <- below, inStep <- ~everDirty
ImplementsStore == Abstract!StoreSpec
=============================================================================
