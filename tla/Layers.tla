------------------------------- MODULE Layers -------------------------------
(***************************************************************************)
(* The streams that open_image puts between an image file and what is in   *)
(* it: the data map of a drive description (remap.c), its offset           *)
(* (offset.c) and the exchange of the bytes of each pair (swap.c, which    *)
(* leaves every sector where it is).  Positions and sizes are in sectors.  *)
(*                                                                         *)
(* A data map is a sequence of items [type, len]: "data" and "skip" follow *)
(* each other in the image, "data" and "zero" in what is seen above; "pos" *)
(* goes to a position of the image.                                        *)
(***************************************************************************)
EXTENDS Integers, Sequences

Unmapped == -1

Items == [type : {"data", "skip", "zero", "pos"}, len : Nat]

\* process_map: the pieces seen, and how much more the image holds than they do.
\* One item; and all of them, what follows the last being data.
Mapped(x, item) ==
    LET seen == item.type \in {"data", "zero"}
        piece == [orig |-> x.orig, remapped |-> x.remapped, type |-> item.type]
    IN IF item.type = "pos" THEN [x EXCEPT !.orig = item.len]
       ELSE [pieces   |-> IF seen THEN Append(x.pieces, piece) ELSE x.pieces,
             remapped |-> x.remapped + (IF seen THEN item.len ELSE 0),
             orig     |-> x.orig + (IF item.type = "zero" THEN 0 ELSE item.len)]
ProcessMap(items) ==
    LET all == Append(items, [type |-> "data", len |-> 0])
        after[k \in 0..Len(all)] ==
            IF k = 0 THEN [pieces |-> <<>>, remapped |-> 0, orig |-> 0]
            ELSE Mapped(after[k - 1], all[k])
    IN after[Len(all)]
NetOffset(items) == LET x == ProcessMap(items) IN x.orig - x.remapped

\* limitSizeToOffT
Limited(len, most) == IF len > most THEN most ELSE len

\* Where a transfer gets to: it ends where the piece it begins in ends.
\* Mutant: a transfer that begins at the end of a piece belongs to it.
Remap_late(pieces, start, len) ==
    LET later == {k \in 1 .. Len(pieces) - 1 : start <= pieces[k + 1].remapped}
        i == CHOOSE k \in later \cup {Len(pieces)} : \A j \in later : k <= j
    IN [type |-> pieces[i].type,
        at   |-> start - pieces[i].remapped + pieces[i].orig,
        len  |-> IF i \in later THEN Limited(len, pieces[i + 1].remapped + 1 - start) ELSE len]
Remap(pieces, start, len) ==
    LET later == {k \in 1 .. Len(pieces) - 1 : start < pieces[k + 1].remapped}
        i == CHOOSE k \in later \cup {Len(pieces)} : \A j \in later : k <= j
    IN [type |-> pieces[i].type,
        at   |-> start - pieces[i].remapped + pieces[i].orig,
        len  |-> IF i \in later THEN Limited(len, pieces[i + 1].remapped - start) ELSE len]

\* remap_pread and remap_pwrite answer zeros for a zero piece, and take zeros
\* only; "data" says that something else is written.
Accepts(piece, op) == piece.type = "data" \/ op # "data"

\* A drive is [raw, map, offset]: the sectors of the image (0: not known), the data
\* map (<<>>: none) and the offset.
Below(drive, start, len) ==
    Remap(ProcessMap(drive.map).pieces, start + drive.offset, len)

\* adjust_tot_sectors, for the remap and the offset stream in turn.
Adjusted(tot, offset) ==
    IF tot = 0 THEN 0
    ELSE IF offset > 0 /\ tot < offset THEN Unmapped
    ELSE tot - offset
Seen(drive) ==
    LET mapped == Adjusted(drive.raw, NetOffset(drive.map))
    IN IF mapped = Unmapped THEN Unmapped ELSE Adjusted(mapped, drive.offset)

\* OpenOffset and adjust_tot_sectors refuse what starts behind the end.
Opens(drive, maxSector) == drive.offset <= maxSector /\ Seen(drive) # Unmapped

=============================================================================
