\* Two mirrored copies, at most one unreadable sector.
CONSTANTS
    FatLen = 3
    SectPerEntry = 2
    NumFat = 2
    PrimaryFat = 0
    WriteAllFats = TRUE
    Batch = FALSE
    Values = {0, 1}
    BadChoices <- SomeBad
SPECIFICATION FairSpec
INVARIANTS TypeOK DirtyAnnounced CacheCoherent MirrorsAgree WholeCopy
PROPERTIES ImplementsTable WriteEnds
CHECK_DEADLOCK FALSE
