----------------------------- MODULE MCFatCache -----------------------------
(***************************************************************************)
(* Instances of FatCache for TLC.                                           *)
(***************************************************************************)
EXTENDS FatCache

NoBad == {{}}

\* Everything can be read; or one sector of the first copy cannot; or a sector
\* of neither copy.
SomeBad == {{}, {<<0, 0>>}, {<<0, 1>>}, {<<0, 0>>, <<1, 0>>}}
=============================================================================
