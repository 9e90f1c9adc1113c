CONSTANTS
    Files = {f, g, h}
    Unallocated = Unallocated
    Deleted = Deleted
    Clusters <- MCClusters
    F1 <- MCF
    F2 <- MCF
    Sizes <- MCSizes
    MaxRefs = 2
SPECIFICATION Spec
INVARIANTS OneStream NeverStuck TableExact
SYMMETRY Swap
