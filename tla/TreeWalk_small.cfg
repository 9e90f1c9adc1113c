CONSTANTS
    Nodes = {1, 2, 3, 4, 5, 6, 7, 8, 9}
    High <- MCHigh
    Bases <- MCBases
    ShortNames <- MCShort
    MaxSlots = 4
    MaxPath = 4
    Disks <- MCDisks
    Commands <- MCCommands
SPECIFICATION FairSpec
INVARIANTS TreeSound ResultRight
PROPERTIES WalkEnds
