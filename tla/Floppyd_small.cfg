CONSTANTS
    Clients = {c, d}
    Size = 2
    Values = {1}
    Zero = 0
    Unknown = Unknown
    MaxLen = 2
    MaxWhere = 1
    MaxCalls = 4
    OffsetWrap = 4
    MaxOld = 1
SPECIFICATION Spec
INVARIANTS SessionView StoresStay InStep NobodyStuck
SYMMETRY Alike
\* With the calls used up and every session ended, nothing is left to do.
CHECK_DEADLOCK FALSE
