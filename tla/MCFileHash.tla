----------------------------- MODULE MCFileHash -----------------------------
(* A small table: sizes 5 and 11, keys that collide in it.                    *)
EXTENDS FileHash, TLC

MCClusters == {2, 6, 7}
MCKeys == MCClusters \cup {0, 1}
\* The filesystem's address, which func1 mixes in, is 0.
MCF == [k \in MCKeys |-> k]
MCSizes == <<5, 11>>
Swap == Permutations(Files)
=============================================================================
