SPECIFICATION FairSpec
CONSTANTS
    Procs = {p1, p2}
    Files = {"fd0", "img"}
    Descriptions <- MCDescriptions
    LockTries = 1
    Environments <- MCEnvironments
INVARIANTS FirstThatFits NothingHeld XdfLocked
PROPERTIES OpeningEnds
