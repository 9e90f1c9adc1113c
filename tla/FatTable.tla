------------------------------ MODULE FatTable ------------------------------
(***************************************************************************)
(* What the in-memory FAT promises to the rest of mtools: a table with one  *)
(* value per FAT sector that keeps what was last written to it, and a       *)
(* stored image that only ever receives values of that table.  FatCache    *)
(* shows that the sector cache of fat.c implements it.                      *)
(***************************************************************************)

CONSTANTS
    TableSectors,   \* the sectors of one FAT copy
    TableValues     \* the possible contents of a sector

VARIABLES
    table,          \* the FAT as the running command sees it
    stored          \* the FAT as a later command would read it from disk

TableInit ==
    /\ table \in [TableSectors -> TableValues]
    /\ stored = table

\* fat_encode: one sector of the table takes a new value.
Put(s, v) ==
    /\ table' = [table EXCEPT ![s] = v]
    /\ UNCHANGED stored

\* One sector reaches the disk.
Persist(s) ==
    /\ stored' = [stored EXCEPT ![s] = table[s]]
    /\ UNCHANGED table

TableNext ==
    \E s \in TableSectors : Persist(s) \/ \E v \in TableValues : Put(s, v)

TableSpec == TableInit /\ [][TableNext]_<<table, stored>>
=============================================================================
