------------------------------ MODULE DirSlots ------------------------------
(***************************************************************************)
(* One directory: its slots on disk (directory.c), the names read from them *)
(* (vfat.c), the cache that remembers which slots are used and free          *)
(* (dirCache.c), and the commands that look up, create, remove and rename    *)
(* entries in it (mk_direntry.c, mdel.c, mmove.c).                           *)
(*                                                                          *)
(* A command opens the directory with an empty cache, makes its calls and   *)
(* closes it.  A name stands for the class of its spellings that differ in   *)
(* case only, and the checksum of a short name for the name.                *)
(***************************************************************************)
EXTENDS Integers, FiniteSets, FiniteSetsExt, SequencesExt

CONSTANTS
    Names,          \* names, long and short
    None,           \* no long name
    Requested,      \* the names commands are given
    ShortOf,        \* ShortOf[n]: n converted to a short name
    Renamed,        \* Renamed[s]: the next short name autorename_short tries
    Vses,           \* Vses[n]: how many long-name slots n takes
    ClusterSlots,   \* slots of a cluster
    MaxSlots,       \* bound: slots when the disk is full
    InitialSlots,   \* the directories there may be at first
    Commands,       \* the commands that are run
    GhostCommands,  \* those run where slots behind the end mark are in use
    Answers,        \* Answers[c]: what c does when a name is taken (-D, the prompt)
    MaxCalls        \* bound: calls in all commands

ASSUME DirSlotsAssumption ==
    /\ ShortOf \in [Names -> Names] /\ Renamed \in [Names -> Names]
    /\ Vses \in [Names -> Nat] /\ None \notin Names /\ Requested \subseteq Names
    /\ \A n \in Names : ShortOf[ShortOf[n]] = ShortOf[n] /\ (Vses[n] = 0 <=> ShortOf[n] = n)
    /\ ClusterSlots \in Nat \ {0} /\ MaxSlots \in Nat /\ MaxCalls \in Nat
    /\ \A c \in Commands : Answers[c] \subseteq
          [primary : {"skip", "overwrite"}, secondary : {"skip", "overwrite", "autorename"}]

VARIABLES
    slots,      \* the directory on disk, a sequence of slots: slots[i+1] is slot i
    cmd,        \* the command that has it open, or "none"
    cache,      \* its dirCache
    call,       \* what the command is doing
    calls,      \* calls made so far
    files       \* history variable: the entries there should be

vars == <<slots, cmd, cache, call, calls, files>>

-----------------------------------------------------------------------------
(* Slots                                                                    *)

End == [kind |-> "end"]     \* ENDMARK
Del == [kind |-> "del"]     \* DELMARK
Main(s) == [kind |-> "main", short |-> s]
Vse(n, i, last, s) == [kind |-> "vse", of |-> n, id |-> i, last |-> last, sum |-> s]

\* The slots write_vfat makes for an entry, the last piece of its name first.
EntrySlots(e) ==
    LET k == IF e.long = None THEN 0 ELSE Vses[e.long]
    IN  [i \in 1..k |-> Vse(e.long, k - i + 1, i = 1, e.short)] \o <<Main(e.short)>>

Size == Len(slots)
Slot(i) == slots[i + 1]

\* The first slot from p on that is not part of a long name.
Stop(p) == Min({q \in p..Size : q = Size \/ Slot(q).kind # "vse"})

\* parse_vses and check_vfat.  The chain of the main slot at m, read from p, are
\* the pieces before it that share a checksum.
Chain(p, m) == {k \in p..m-1 : \A x \in k..m-1 : Slot(x).sum = Slot(m - 1).sum}
Subentries(p, m) ==
    LET chain == Chain(p, m)
        lasts == {k \in chain : Slot(k).last}
        n     == Slot(Max(lasts)).id
    IN  IF lasts # {} /\ Slot(m - 1).sum = Slot(m).short
           /\ 1..n \subseteq {Slot(k).id : k \in chain}
        THEN n ELSE 0
\* A later piece overwrites an earlier one of the same number; what is left may
\* be the name of no file.
LongName(p, m) ==
    LET chain == Chain(p, m)
        n     == Subentries(p, m)
        used  == {Slot(Max({k \in chain : Slot(k).id = i})).of : i \in 1..n}
    IN  IF n = 0 THEN None
        ELSE IF Cardinality(used) = 1 /\ \A x \in used : Vses[x] = n
        THEN CHOOSE x \in used : TRUE
        ELSE "mixed"

\* What any other system reads from the disk.
EndPos == Min({i \in 0..Size : i = Size \/ Slot(i) = End})
MainSlots == {m \in 0..EndPos-1 : Slot(m).kind = "main"}
ReadFrom(m) == Max({0} \cup {i + 1 : i \in {j \in 0..m-1 : Slot(j).kind # "vse"}})
Entry(m) == [long |-> LongName(ReadFrom(m), m), short |-> Slot(m).short]
Shown == {Entry(m) : m \in MainSlots}

Ghosts == \E i \in EndPos..Size-1 : Slot(i) # End

-----------------------------------------------------------------------------
(* The cache: a set of ranges of slots, free, used by an entry, or the end of *)
(* the directory; nrHashed and the names in its bitmaps.                     *)

NoMark == -1
Range_(type, b, e, mark, entry) ==
    [type |-> type, begin |-> b, end |-> e, endMark |-> mark, entry |-> entry]
NoEntry == [long |-> None, short |-> None]

NoCache == [ranges |-> {}, nrHashed |-> 0, names |-> {}]

At(c, p) == {d \in c.ranges : d.begin <= p /\ p < d.end}

\* freeDirCacheRange: what lies in b..e-1 is dropped, or shortened at its
\* beginning.
Cleared(R, b, e) ==
    {d \in R : d.end <= b \/ e <= d.begin}
        \cup {[d EXCEPT !.begin = e] : d \in {x \in R : b < x.end /\ x.begin < e /\ e < x.end}}

\* addFreeEndEntry and mergeFreeSlots: one range with the free ones it touches;
\* what is known of the end mark comes from the last of them.
AddFree(c, b, e, atEnd) ==
    LET R     == Cleared(c.ranges, b, e)
        left  == {d \in R : d.type = "free" /\ d.end = b}
        right == {d \in R : d.type = "free" /\ d.begin = e}
        mark  == IF right # {} THEN (CHOOSE d \in right : TRUE).endMark
                 ELSE IF atEnd THEN b ELSE NoMark
        new   == Range_("free", Min({b} \cup {d.begin : d \in left}),
                        Max({e} \cup {d.end : d \in right}), mark, NoEntry)
    IN  [c EXCEPT !.nrHashed = IF b < @ THEN b ELSE @,
                  !.ranges = IF b = e THEN @ ELSE (R \ (left \cup right)) \cup {new}]

\* addUsedEntry and hashDce
AddUsed(c, b, e, entry) ==
    LET next == b = c.nrHashed
    IN  [ranges |-> Cleared(c.ranges, b, e) \cup {Range_("used", b, e, NoMark, entry)},
         nrHashed |-> IF next THEN e ELSE c.nrHashed,
         names |-> IF next THEN c.names \cup ({entry.long, entry.short} \ {None}) ELSE c.names]

\* Mutant: the end takes a slot more.
AddEnd_wide(c, p) ==
    [c EXCEPT !.ranges = Cleared(@, p, p + 1) \cup {Range_("end", p, p + 2, NoMark, NoEntry)}]

\* addEndEntry
AddEnd(c, p) ==
    [c EXCEPT !.ranges = Cleared(@, p, p + 1) \cup {Range_("end", p, p + 1, NoMark, NoEntry)}]

\* vfat_lookup_loop_common: the cache after the slots from p are read up to the
\* end of the next entry, and the range that is returned.
AfterRead(c, p, forFree) ==
    LET q == Stop(p)
        k == Subentries(p, q)
    IN  IF q = Size \/ (Slot(q) = End /\ forFree)
        THEN AddEnd(AddFree(c, p, Size, q < Size), Size)
        ELSE IF Slot(q) = End THEN AddEnd(c, q)
        ELSE IF Slot(q) = Del THEN AddFree(c, p, q + 1, FALSE)
        ELSE AddUsed(AddFree(c, p, q - k, FALSE), q - k, q + 1,
                     [long |-> LongName(p, q), short |-> Slot(q).short])
ReadRange(c, p, forFree) ==
    LET q == Stop(p)
    IN  CHOOSE d \in c.ranges :
            IF q = Size \/ (Slot(q) = End /\ forFree) THEN d.type = "end" /\ d.begin = Size
            ELSE d.begin <= q /\ q < d.end

\* Mutant: the cache keeps what the slot held.
Freed_kept(c, i) == c

\* dir_write of a slot marked deleted.
Freed(c, i) ==
    IF At(c, i) = {} THEN c
    ELSE LET d == CHOOSE x \in At(c, i) : TRUE IN AddFree(c, d.begin, d.end, FALSE)

-----------------------------------------------------------------------------
Idle == [kind |-> "idle"]

\* wipeEntry: the slots of a long name, b..e-1, then the main slot m; then the
\* call goes on as next.
Wiping(b, e, m, next) ==
    [kind |-> "wipe", todo |-> [i \in 1..(IF b < e THEN e - b ELSE 0) |-> b + i - 1] \o <<m>>,
     next |-> next]
WipeStep ==
    /\ call.kind = "wipe"
    /\ LET i == Head(call.todo)
       IN  /\ slots' = [slots EXCEPT ![i + 1] = Del]
           /\ cache' = Freed(cache, i)
           /\ call' = IF Len(call.todo) = 1 THEN call.next ELSE [call EXCEPT !.todo = Tail(@)]
    /\ UNCHANGED <<cmd, calls, files>>

Open(c) ==
    /\ cmd = "none" /\ calls < MaxCalls
    /\ Ghosts => c \in GhostCommands
    /\ cmd' = c /\ cache' = NoCache
    /\ UNCHANGED <<slots, call, calls, files>>

\* Mutant: the end mark is not written again.
Close_only ==
    /\ cmd # "none" /\ call = Idle /\ cmd' = "none" /\ cache' = NoCache
    /\ UNCHANGED <<slots, call, calls, files>>

\* freeDirCache: the end mark is written again where a new entry covers it.
Close ==
    LET moved == {d \in cache.ranges : d.endMark # NoMark /\ d.endMark < d.begin}
    IN  /\ cmd # "none" /\ call = Idle
        /\ slots' = IF moved = {} THEN slots
                    ELSE [slots EXCEPT ![Min({d.begin : d \in moved}) + 1] = End]
        /\ cmd' = "none" /\ cache' = NoCache
        /\ UNCHANGED <<call, calls, files>>

-----------------------------------------------------------------------------
(* vfat_lookup                                                              *)

Matches(e, n) == n \in {e.long, e.short}

StartFind(n, to) ==
    /\ cmd \in {"delete", "rename"} /\ call = Idle /\ calls < MaxCalls
    /\ cmd = "rename" <=> to # None
    /\ call' = [kind |-> "find", name |-> n, to |-> to, pos |-> 0]
    /\ calls' = calls + 1
    /\ UNCHANGED <<slots, cmd, cache, files>>

\* Mutant: a free range is taken for the end.
FindStep_free ==
    /\ call.kind = "find"
    /\ cache' = IF At(cache, call.pos) # {} THEN cache ELSE AfterRead(cache, call.pos, FALSE)
    /\ \E d \in IF At(cache, call.pos) # {} THEN At(cache, call.pos)
                ELSE {ReadRange(cache', call.pos, FALSE)} :
           call' = IF d.type # "used" THEN [kind |-> "missing", name |-> call.name]
                      ELSE IF Matches(d.entry, call.name)
                      THEN [kind |-> "found", name |-> call.name, to |-> call.to,
                            begin |-> d.begin, main |-> d.end - 1, entry |-> d.entry]
                      ELSE [call EXCEPT !.pos = d.end]
    /\ UNCHANGED <<slots, cmd, calls, files>>

\* One pass of its loop.
FindStep ==
    /\ call.kind = "find"
    /\ cache' = IF At(cache, call.pos) # {} THEN cache ELSE AfterRead(cache, call.pos, FALSE)
    /\ \E d \in IF At(cache, call.pos) # {} THEN At(cache, call.pos)
                ELSE {ReadRange(cache', call.pos, FALSE)} :
           call' = IF d.type = "end" THEN [kind |-> "missing", name |-> call.name]
                      ELSE IF d.type = "used" /\ Matches(d.entry, call.name)
                      THEN [kind |-> "found", name |-> call.name, to |-> call.to,
                            begin |-> d.begin, main |-> d.end - 1, entry |-> d.entry]
                      ELSE [call EXCEPT !.pos = d.end]
    /\ UNCHANGED <<slots, cmd, calls, files>>

Missing ==
    /\ call.kind = "missing" /\ call' = Idle
    /\ UNCHANGED <<slots, cmd, cache, calls, files>>

\* del_entry
Delete ==
    /\ call.kind = "found" /\ cmd = "delete"
    /\ call' = Wiping(call.begin, call.main, call.main, Idle)
    /\ files' = {f \in files : ~Matches(f, call.name)}
    /\ UNCHANGED <<slots, cmd, cache, calls>>

-----------------------------------------------------------------------------
(* mwrite_one: find slots for an entry, deal with names that are taken, write *)

NoSource == [begin |-> 0, main |-> -1, entry |-> NoEntry]

\* Mutant: the names seen before are not compared.
Searching_onwards(n, s, source, asked, expanded) ==
    [kind |-> "search", long |-> n, short |-> s, source |-> source, asked |-> asked,
     expanded |-> expanded, shortMatch |-> -1, freeStart |-> 0, freeEnd |-> 0, got |-> FALSE,
     pos |-> cache.nrHashed]

\* The state in which lookupForInsert starts.
Searching(n, s, source, asked, expanded) ==
    LET long   == Vses[n] > 0
        hashed == cache.nrHashed > 0
    IN  IF source.main < 0 /\ hashed /\ n \notin cache.names
           /\ s \in cache.names /\ long /\ asked.secondary = "autorename"
        THEN [kind |-> "clash", long |-> n, short |-> s, source |-> source, asked |-> asked,
              expanded |-> expanded, primary |-> FALSE, match |-> -2, begin |-> 0]
        ELSE [kind |-> "search", long |-> n, short |-> s, source |-> source, asked |-> asked,
              expanded |-> expanded, shortMatch |-> -1, freeStart |-> 0, freeEnd |-> 0, got |-> FALSE,
              pos |-> IF source.main >= 0 \/ {n, s} \cap cache.names # {}
                      THEN 0 ELSE cache.nrHashed]

Needed == IF Vses[call.long] > 0 THEN Vses[call.long] + 1 ELSE 1

StartCreate(n) ==
    /\ cmd \in {"copy", "mmd"} /\ call = Idle /\ calls < MaxCalls
    /\ \E asked \in Answers[cmd] : call' = Searching(n, ShortOf[n], NoSource, asked, FALSE)
    /\ calls' = calls + 1
    /\ UNCHANGED <<slots, cmd, cache, files>>

StartRename ==
    LET source == [begin |-> call.begin, main |-> call.main, entry |-> call.entry]
    IN  /\ call.kind = "found" /\ cmd = "rename"
        /\ \E asked \in Answers[cmd] :
              call' = Searching(call.to, ShortOf[call.to], source, asked, FALSE)
        /\ UNCHANGED <<slots, cmd, cache, calls, files>>

\* accountFreeSlots
Accounted(s, d) ==
    LET start == IF s.freeEnd # d.begin THEN d.begin ELSE s.freeStart
    IN  IF s.got THEN s
        ELSE [s EXCEPT !.freeStart = start, !.freeEnd = d.end, !.got = d.end - start >= Needed]

Clash(primary, match, begin) ==
    [kind |-> "clash", long |-> call.long, short |-> call.short, source |-> call.source,
     asked |-> call.asked, expanded |-> call.expanded, primary |-> primary, match |-> match,
     begin |-> begin]

\* One pass of the loop of lookupForInsert.
SearchStep ==
    /\ call.kind = "search"
    /\ cache' = IF \E d \in At(cache, call.pos) : d.type # "end" THEN cache
                ELSE AfterRead(cache, call.pos, TRUE)
    /\ \E d \in At(cache', call.pos) :
       LET taken == IF d.type = "free" \/ (d.type = "used" /\ d.end - 1 = call.source.main)
                    THEN Accounted(call, d) ELSE call
       IN  call' = CASE d.type = "used" /\ Matches(d.entry, call.long) ->
                                Clash(TRUE, d.end - 1, d.begin)
                        [] d.type = "end" /\ call.shortMatch >= 0 ->
                                Clash(Vses[call.long] = 0, call.shortMatch, -1)
                        [] d.type = "end" /\ call.shortMatch < 0 ->
                                [call EXCEPT !.kind = IF call.got THEN "write" ELSE "grow", !.pos = d.begin]
                        [] OTHER ->
                                [taken EXCEPT !.pos = d.end,
                                    !.shortMatch = IF d.type = "used" /\ d.entry.short = call.short
                                                   THEN d.end - 1 ELSE @]
    /\ UNCHANGED <<slots, cmd, calls, files>>

\* process_namematch
Answer == IF call.primary THEN call.asked.primary ELSE call.asked.secondary
NoOverwrite == call.match >= 0 /\ call.match = call.source.main

Skip ==
    /\ call.kind = "clash"
    /\ Answer = "skip" \/ (Answer = "overwrite" /\ NoOverwrite)
    /\ call' = Idle
    /\ UNCHANGED <<slots, cmd, cache, calls, files>>

\* Mutant: the name stays as it is.
Autorename_same ==
    /\ call.kind = "clash" /\ Answer = "autorename"
    /\ call' = Searching(call.long, call.short, call.source, call.asked, call.expanded)
    /\ UNCHANGED <<slots, cmd, cache, calls, files>>

Autorename ==
    /\ call.kind = "clash" /\ Answer = "autorename"
    /\ call' = Searching(call.long, Renamed[call.short], call.source, call.asked, call.expanded)
    /\ UNCHANGED <<slots, cmd, cache, calls, files>>

\* The entry in the way is wiped; a second clash of the same kind is skipped.
\* lookupForInsert tells get_slots where the entry begins and ends only when a
\* long name matched: else those variables were never set.
Overwrite ==
    /\ call.kind = "clash" /\ Answer = "overwrite" /\ ~NoOverwrite
    /\ \E b, e \in 0..Size-1 :
          /\ call.begin >= 0 => b = call.begin /\ e = call.match
          /\ call' = Wiping(b, e, call.match,
                        [call EXCEPT !.kind = "again",
                            !.asked = IF call.primary THEN [@ EXCEPT !.primary = "skip"]
                                      ELSE [@ EXCEPT !.secondary = "skip"]])
    /\ files' = {f \in files :
                   ~(IF call.primary THEN Matches(f, call.long) ELSE f.short = call.short)}
    /\ UNCHANGED <<slots, cmd, cache, calls>>

Again ==
    /\ call.kind = "again"
    /\ call' = Searching(call.long, call.short, call.source, call.asked, call.expanded)
    /\ UNCHANGED <<slots, cmd, cache, calls, files>>

\* dir_grow: one cluster of end marks, once for each call.
Grow ==
    /\ call.kind = "grow"
    /\ IF call.expanded \/ Size + ClusterSlots > MaxSlots
       THEN slots' = slots /\ call' = Idle
       ELSE /\ slots' = slots \o [i \in 1..ClusterSlots |-> End]
            /\ call' = Searching(call.long, call.short, call.source, call.asked, TRUE)
    /\ UNCHANGED <<cmd, cache, calls, files>>

\* write_slots calls back.  The callback of mren wipes the old entry.
CallBack ==
    LET s == call.source
        next == [call EXCEPT !.kind = "put"]
    IN  /\ call.kind = "write"
        /\ call' = IF s.main < 0 THEN next ELSE Wiping(s.begin, s.main, s.main, next)
        /\ UNCHANGED <<slots, cmd, cache, calls, files>>

\* write_vfat: the slots of the new entry, then the cache, then its main slot.
NewEntry == [long |-> IF Vses[call.long] > 0 THEN call.long ELSE None, short |-> call.short]
Written(start, new) ==
    [i \in 1..Size |-> IF start < i /\ i <= start + Len(new) THEN new[i - start] ELSE slots[i]]

\* What freeDirCacheRange asserts: no range begins before b and goes on behind it.
Aligned(R, b) == \A d \in R : ~(d.begin < b /\ b < d.end)

Put ==
    LET new == EntrySlots(NewEntry)
        start == call.freeStart
    IN  /\ call.kind = "put" /\ Aligned(cache.ranges, start)
        /\ slots' = Written(start, new)
        /\ cache' = AddUsed(cache, start, start + Len(new), NewEntry)
        /\ files' = (files \ {call.source.entry}) \cup {NewEntry}
        /\ call' = Idle
        /\ UNCHANGED <<cmd, calls>>

\* The assertion fails: accountFreeSlots starts its run anew at a free range that
\* has grown since it was counted, without the source in front of it; then the
\* wiped source joins that range.  The process ends.
PutAborts ==
    /\ call.kind = "put" /\ ~Aligned(cache.ranges, call.freeStart)
    /\ slots' = Written(call.freeStart, Front(EntrySlots(NewEntry)))
    /\ call' = [kind |-> "aborted"]
    /\ UNCHANGED <<cmd, cache, calls, files>>

\* The callback fails: there is no new entry.
WriteFails ==
    /\ call.kind = "write" /\ call' = Idle
    /\ UNCHANGED <<slots, cmd, cache, calls, files>>

-----------------------------------------------------------------------------
Init ==
    /\ slots \in InitialSlots
    /\ files = Shown
    /\ cmd = "none" /\ cache = NoCache /\ call = Idle /\ calls = 0

CallStep ==
    \/ FindStep \/ Missing \/ Delete \/ SearchStep \/ Skip \/ Autorename \/ Overwrite \/ Again
    \/ Grow \/ CallBack \/ WipeStep \/ Put \/ PutAborts \/ WriteFails \/ StartRename

Next ==
    \/ \E c \in Commands : Open(c)
    \/ Close
    \/ \E n \in Requested, to \in Requested \cup {None} : StartFind(n, to)
    \/ \E n \in Requested : StartCreate(n)
    \/ CallStep

Spec == Init /\ [][Next]_vars
FairSpec == Spec /\ WF_vars(CallStep)

-----------------------------------------------------------------------------
(* Properties                                                               *)

EntryType == [long : Names \cup {None, "mixed"}, short : Names]

TypeOK ==
    /\ \A i \in 1..Size : slots[i].kind \in {"end", "del", "main", "vse"}
    /\ cmd \in Commands \cup {"none"}
    /\ \A d \in cache.ranges :
          /\ 0 <= d.begin /\ d.begin < d.end /\ d.end <= Size + 1
          /\ d.type \in {"free", "used", "end"} /\ (d.type = "used" => d.entry \in EntryType)
    /\ call.kind \in {"idle", "find", "found", "missing", "search", "clash", "again", "grow", "write",
                     "put", "wipe", "aborted"}
    /\ files \subseteq EntryType

\* The cache is a faithful reading of the slots: its ranges are disjoint, a used
\* one is an entry as it stands on disk, and no entry is in a free one.
CacheFaithful ==
    \A d \in cache.ranges :
        /\ \A x \in cache.ranges \ {d} : d.end <= x.begin \/ x.end <= d.begin
        /\ d.type = "used" =>
              /\ Slot(d.end - 1).kind = "main"
              /\ SubSeq(slots, d.begin + 1, d.end) = EntrySlots(d.entry)
        /\ d.type = "free" /\ d.endMark = NoMark /\ call.kind # "wipe" =>
              d.begin..d.end-1 \cap MainSlots = {}

\* No two files answer to one name.
NamesUnique ==
    \A f, g \in files : f # g =>
        ({f.long, f.short} \ {None}) \cap ({g.long, g.short} \ {None}) = {}

\* A lookup finds a file exactly if there is one of that name.
LookupRight ==
    /\ call.kind = "missing" => \A f \in files : ~Matches(f, call.name)
    /\ call.kind = "found" => call.entry \in files /\ Matches(call.entry, call.name)

\* When a command is done, the directory shows the files that were created and
\* not removed, under their whole names, and nothing else.
FilesShown ==
    cmd = "none" => Shown = files /\ Cardinality(MainSlots) = Cardinality(files)

\* The directory is what the commands have made of it, to the eye of a lookup
\* in the middle of a command and to anybody else's after it.
DirectoryRight == TypeOK /\ LookupRight /\ FilesShown

\* No entry shows up that no command made: what is behind the end mark stays
\* behind it (NEWS asks for a new end mark after a new last entry).
NothingReappears == cmd = "none" => Shown \subseteq files

\* "The range being cleared is always aligned on the begin of an entry"
\* (dirCache.c, before freeDirCacheRange), which the function asserts.
ClearedAligned == call.kind # "aborted"

\* Every call comes to an end, if only that of the process.
CallEnds == call # Idle ~> call.kind \in {"idle", "aborted"}
=============================================================================
