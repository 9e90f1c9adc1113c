CONSTANTS
    SectorSize = 512
    Requests <- MCRequests
SPECIFICATION FairSpec
INVARIANTS LayoutSound ReadBackSame
PROPERTIES SearchEnds
CHECK_DEADLOCK FALSE
