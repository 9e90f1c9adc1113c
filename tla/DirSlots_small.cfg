CONSTANTS
    Names <- MCNames
    None = None
    Requested = {"report", "results", "re", "re1"}
    ShortOf <- MCShortOf
    Renamed <- MCRenamed
    Vses <- MCVses
    ClusterSlots = 3
    MaxSlots = 6
    InitialSlots <- MCInitial
    Commands = {"copy", "mmd", "delete", "rename"}
    GhostCommands = {"delete", "mmd"}
    Answers <- MCAnswers
    MaxCalls = 3
SPECIFICATION FairSpec
INVARIANTS CacheFaithful NamesUnique DirectoryRight
PROPERTIES CallEnds
CHECK_DEADLOCK FALSE
