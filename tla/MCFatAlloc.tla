----------------------------- MODULE MCFatAlloc -----------------------------
(***************************************************************************)
(* Instances of FatAlloc for TLC.                                           *)
(***************************************************************************)
EXTENDS FatAlloc, TLC

Swap == Permutations(Files)

\* Without crashes the FAT on disk is only read when it equals the one in
\* memory: states that differ in it alone have the same future.
WithoutStored ==
    <<fatBits, fsVars, fatError, preFs, gotSignal, entryVars, content, streamVars, pc,
      callVars, IF fatDirty THEN fat ELSE storedFat, storedFree>>
=============================================================================
