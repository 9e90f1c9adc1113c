------------------------------ MODULE MCFormat ------------------------------
(***************************************************************************)
(* Requests for TLC: sizes around the places where the search changes its   *)
(* mind, with each parameter free or fixed.                                *)
(***************************************************************************)
EXTENDS Format, TLC

Geometry(tracks, heads, sectors) ==
    [fat_bits |-> 0, tracks |-> tracks, heads |-> heads, sectors |-> sectors, hidden |-> 0]
Bits(v, n) == [v EXCEPT !.fat_bits = n]
Hd == Geometry(80, 2, 18)       \* 1.44 MB
Dd == Geometry(80, 2, 9)        \* 720 KB
Odd == Geometry(81, 2, 18)      \* no format DOS knew
Image == Geometry(0, 1, 1)        \* an image file, its size given by -T

Plain ==
    [devs |-> <<Image>>, total |-> 0, tracksOption |-> 0, create |-> TRUE, fat32 |-> FALSE,
     cluster_size |-> 0, dir_len |-> 0, fat_len |-> 0, fat_start |-> 0, backupBoot |-> 0,
     num_fat |-> 2]
Fixed(options) == options @@ Plain
Sized(options, sizes) == { [Fixed(options) EXCEPT !.total = t] : t \in sizes }

\* Where FAT12 ends and FAT16 ends for each cluster size, with all else free.
Free == Sized([num_fat |-> 2],
    1..12 \cup 4121..4128 \cup 8224..8230 \cup 16395..16400 \cup 32733..32740
    \cup 66067..66073 \cup {4200000, 4300000, 16777216, 67108864})
OneCluster == Sized([cluster_size |-> 1], 4120..4150 \cup 66065..66075 \cup {66300} \cup 66578..66583)
EightClusters == Sized([cluster_size |-> 8], 32733..32745 \cup 32830..32838)
SmallRoot == Sized([cluster_size |-> 1, dir_len |-> 7, num_fat |-> 1], 4100..4150 \cup {66045})
ManyFats == Sized([cluster_size |-> 4, dir_len |-> 1, fat_start |-> 4, num_fat |-> 3], 16360..16460)
Fat32s ==
    Sized([fat32 |-> TRUE], {30, 34, 35, 60, 5000, 66581, 600000}) \cup
    Sized([fat32 |-> TRUE, fat_start |-> 2], {70000}) \cup
    Sized([fat32 |-> TRUE, fat_start |-> 4], {70000}) \cup
    Sized([fat32 |-> TRUE, fat_start |-> 9, backupBoot |-> 9], {70000}) \cup
    Sized([fat32 |-> TRUE, devs |-> <<Bits(Image, 16)>>], {70000})
Sixteen == Sized([devs |-> <<Bits(Image, 16)>>], {4000, 4145, 4146, 66070, 300000})
Twelve == Sized([devs |-> <<Bits(Image, -12)>>, cluster_size |-> 1], {4100, 4124, 4125})
FixedFat ==
    Sized([fat_len |-> 9], {23, 24, 3103, 3104, 400000, 420000}) \cup
    Sized([fat_len |-> 16, cluster_size |-> 1, fat_start |-> 3], 4100..4160) \cup
    Sized([fat_len |-> 12, cluster_size |-> 1, dir_len |-> 40], 4100..4110) \cup
    Sized([fat_len |-> 66000], {180000}) \cup
    Sized([fat_len |-> 1, cluster_size |-> 1, fat32 |-> TRUE], {4000})
Floppies ==
    { Fixed([devs |-> v, create |-> FALSE]) :
        v \in {<<Hd>>, <<Hd, Dd>>, <<Odd, Hd>>, <<Bits(Hd, 12)>>,
               <<[Hd EXCEPT !.hidden = 5]>>} }
    \cup Sized([devs |-> <<Hd>>], {5, 2000, 20000})
\* A root directory with as many entries as their field can say, and with more;
\* FATs that a floppy has room for, and some that it has not.
Edges ==
    Sized([dir_len |-> 4095], {100000}) \cup Sized([dir_len |-> 4096], {100000})
    \cup { Fixed([devs |-> <<Hd>>, num_fat |-> n]) : n \in {255} }
    \cup { Fixed([devs |-> <<Geometry(40, 1, 9)>>, num_fat |-> n]) : n \in {1, 177, 178} }

MCRequests ==
    Free \cup OneCluster \cup EightClusters \cup SmallRoot \cup ManyFats \cup Fat32s
    \cup Sixteen \cup Twelve \cup FixedFat \cup Floppies \cup Edges
=============================================================================
