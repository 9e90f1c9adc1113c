SPECIFICATION Spec
CONSTANTS
    Procs = {p1, p2}
    Files = {"fd0", "img"}
    Descriptions <- MCDescriptions
    LockTries = 1
    Environments <- MCEnvironments
INVARIANTS Exclusive
