\* Two sectors to the cylinder; the stream is two cylinders long, the buffer one.
\* It may be empty, half as long, or cut off in its last sector.
CONSTANTS
    SectorSize = 2
    CylinderSize = 4
    Size = 4
    Granule = 2
    Extents = {0, 4, 7}
    MaxPos = 8
    MaxLen = 3
    Bytes = {Blank, written}
    Blank = Blank
SPECIFICATION Spec
INVARIANTS WindowCoherent ShowsWritten
PROPERTIES ImplementsStore
CHECK_DEADLOCK FALSE
