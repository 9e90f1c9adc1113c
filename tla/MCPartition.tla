---------------------------- MODULE MCPartition ----------------------------
EXTENDS Partition

Entry(type, active, begin, nr) ==
    [Empty EXCEPT !.type = type, !.active = active, !.begin = begin, !.nr = nr]
Table(a, b, c, d) == <<a, b, c, d>>
None4 == Table(Empty, Empty, Empty, Empty)

MCTables ==
    {[table |-> None4, signed |-> TRUE], [table |-> None4, signed |-> FALSE],
     [table |-> Table(Entry(6, TRUE, 10000, 5000), Empty, Entry(5, FALSE, 2000, 3000), Empty),
      signed |-> TRUE],
     [table |-> Table(Empty, Entry(1, TRUE, 500, 3000), Entry(4, TRUE, 2500, 3000), Empty),
      signed |-> TRUE],
     [table |-> Table(Entry(4, FALSE, 500, 3000), Entry(6, FALSE, 1000, 1073741200), Empty, Empty),
      signed |-> TRUE]}
Whole == [part |-> 1, init |-> FALSE, remove |-> FALSE, create |-> FALSE,
          force |-> FALSE, act |-> 0, type |-> 0, begin |-> None, length |-> None,
          geom |-> Unset, drive |-> [tracks |-> 0, heads |-> 0, sectors |-> 0, fatBits |-> 0]]
MCCommands ==
    UNION {UNION {
        {[Whole EXCEPT !.part = i, !.create = TRUE, !.init = n, !.force = f,
                       !.begin = b, !.length = l] :
            n, f \in BOOLEAN, b \in {None, 0, 2500}, l \in {None, 3000, 70000}},
        {[Whole EXCEPT !.part = i, !.create = TRUE, !.remove = r, !.drive.fatBits = b,
                       !.act = a] :
            r \in BOOLEAN, b \in {0, 32}, a \in {0, 1}},
        {[Whole EXCEPT !.part = i, !.create = TRUE, !.geom.heads = h,
                       !.geom.sectors = s] :
            h \in {16, 256}, s \in {0, 63, 256}},
        {[Whole EXCEPT !.part = i, !.act = a] : a \in {-1, 1}},
        {[Whole EXCEPT !.part = i, !.remove = TRUE, !.force = f] : f \in BOOLEAN}}
    : i \in Numbers}
MCSpans ==
    {[start |-> s, len |-> l, op |-> o] :
        s \in {0, 2999, 3001}, l \in {1, 4000}, o \in {"read", "data"}}

Item(type, len) == [type |-> type, len |-> len]
Drive(raw, map, offset) == [raw |-> raw, map |-> map, offset |-> offset]
\* Images as they are; an offset; a map that skips and fills; one that begins
\* with zeros; one that goes back.
MCDrives ==
    {Drive(n, <<>>, 0) : n \in {0, 720, 9000000}}
    \cup {Drive(20480, <<>>, 17),
          Drive(20480, <<Item("skip", 9), Item("data", 2600), Item("zero", 400), Item("skip", 30),
                         Item("data", 3000), Item("zero", 8)>>, 3),
          Drive(20480, <<Item("zero", 5), Item("data", 9000)>>, 0),
          Drive(20480, <<Item("pos", 5000), Item("data", 4000), Item("pos", 100)>>, 0)}
=============================================================================
