\* Two files are created, grow, are deleted and grow again; writes may fail.
CONSTANTS
    NumClus = 3
    ClusSize = 2
    FatKinds = {32}
    Batch = FALSE
    Files = {f, g}
    NoFile = NoFile
    MaxSize = 3
    Events = {"delete", "fail"}
SPECIFICATION Spec
INVARIANTS ChainsDisjoint FreeSpaceExact StreamsRight ContentIntact
CHECK_DEADLOCK FALSE
VIEW WithoutStored
SYMMETRY Swap
