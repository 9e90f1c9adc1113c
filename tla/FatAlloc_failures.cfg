\* FAT12 and FAT16: copies fail, commands die, what they left is deleted.
CONSTANTS
    NumClus = 2
    ClusSize = 1
    FatKinds = {12, 16}
    Batch = TRUE
    Files = {f, g}
    NoFile = NoFile
    MaxSize = 1
    Events = {"abort", "crash", "delete", "reserve"}
SPECIFICATION FairSpec
INVARIANTS ReservationsCounted
PROPERTIES CallEnds
CHECK_DEADLOCK FALSE
