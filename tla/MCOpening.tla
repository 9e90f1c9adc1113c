---------------------------- MODULE MCOpening ----------------------------
EXTENDS Opening, TLC

MCDescriptions ==
    <<[file |-> "fd0", xdf |-> TRUE,  tracks |-> TRUE,  nolock |-> FALSE],
      [file |-> "fd0", xdf |-> FALSE, tracks |-> FALSE, nolock |-> FALSE],
      [file |-> "img", xdf |-> FALSE, tracks |-> TRUE,  nolock |-> TRUE]>>
\* The image file needs no geometry, and always has a file system.
MCEnvironments ==
    {[perm |-> p, asks |-> ("fd0" :> a @@ "img" :> "free"), fits |-> <<x, y, TRUE>>] :
        p \in [{"fd0", "img"} -> {"rw", "ro", "none"}],
        a \in {"free", "write", "never"}, x, y \in BOOLEAN}
=============================================================================
