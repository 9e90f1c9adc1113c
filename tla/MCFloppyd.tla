------------------------------ MODULE MCFloppyd ------------------------------
(* Two clients, alike.                                                        *)
EXTENDS Floppyd, TLC

Alike == Permutations(Clients)
=============================================================================
