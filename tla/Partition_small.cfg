SPECIFICATION Spec
CONSTANTS
    Wrap = 1073741824
    Drives <- MCDrives
    Tables <- MCTables
    Commands <- MCCommands
    Limits = {1000, 99999999}
    Spans <- MCSpans
    MaxCommands = 2
INVARIANTS ChsAgrees TransfersKeepOut
PROPERTIES KeepsTableSound
CHECK_DEADLOCK FALSE
