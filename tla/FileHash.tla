------------------------------ MODULE FileHash ------------------------------
(***************************************************************************)
(* The open files and directories of a filesystem: File_t streams, shared    *)
(* through the hash table of hash.c by their first cluster (file.c).  The    *)
(* table probes, keeps deleted places, moves what it finds behind one, grows *)
(* or is cleaned out when full, and remembers for each stream where it was   *)
(* put, which need no longer be true.                                        *)
(***************************************************************************)
EXTENDS Integers, Sequences, FiniteSets, FiniteSetsExt

CONSTANTS
    Files,          \* the File_t structures there may be at one time
    Unallocated,    \* a place never used
    Deleted,        \* a place whose stream was removed
    Clusters,       \* first clusters of files
    F1, F2,         \* func1 and func2: the hash functions, by key
    Sizes,          \* sizes: what a table may grow to, ascending
    MaxRefs         \* bound: references to one stream

\* getAbsCluNr: the root directory of a FAT12 or FAT16, a file without clusters.
RootKey == 0
NoCluster == 1
Keys == Clusters \cup {RootKey, NoCluster}

ASSUME FileHashAssumption ==
    /\ IsFiniteSet(Files) /\ Unallocated \notin Files /\ Deleted \notin Files
    /\ Unallocated # Deleted
    /\ Clusters \subseteq Nat \ {RootKey, NoCluster}
    /\ F1 \in [Keys -> Nat] /\ F2 \in [Keys -> Nat]
    /\ Sizes \in Seq({n \in Nat : n > 1}) /\ Sizes # <<>>
    /\ MaxRefs \in Nat \ {0}

\* The sizes are primes: no product of smaller numbers is a multiple of one.
ASSUME PrimeSizes ==
    \A s \in Range(Sizes) : \A a, b \in 1..s-1 : (a * b) % s # 0

\* The largest is more than there can be streams.
ASSUME SizesSuffice == \E s \in Range(Sizes) : Cardinality(Files) < s

VARIABLES
    ht,         \* filehash: [size, max, fill, inuse, entries]
    key,        \* getAbsCluNr of a stream
    hint,       \* File_t.hint
    refs,       \* references to it; 0: it is not there
    ended       \* "no", or why the process ended or hangs

vars == <<ht, key, hint, refs, ended>>

-----------------------------------------------------------------------------
(* hash.c                                                                   *)

\* The places where an element of key k may be, in the order they are tried.
Probe(h, k, i) == (F1[k] + i * ((F2[k] % (h.size - 1)) + 1)) % h.size
Tries(h) == 0..h.size-1
TriedAt(h, k, i) == h.entries[Probe(h, k, i)]

\* alloc_ht: 0 if the table cannot be that large.
Roomy(n) == {s \in Range(Sizes) : s > n}
NewSize(n, old) ==
    LET fit == IF Roomy(4 * n) # {} THEN Roomy(4 * n)
               ELSE IF Roomy(2 * n) # {} THEN Roomy(2 * n) ELSE Roomy(n)
    IN  IF fit = {} THEN 0 ELSE Max({Min(fit), old})
Blank(size) ==
    [size |-> size, max |-> ((size * 4) \div 5) - 2, fill |-> 0, inuse |-> 0,
     entries |-> [p \in 0..size-1 |-> Unallocated]]

\* mt_hash_add
Room(h, k) == {i \in Tries(h) : TriedAt(h, k, i) \in {Unallocated, Deleted}}

\* Mutant: the next place is tried after one that is in use.
PlaceFor_next(h, k) ==
    (F1[k] + Min({i \in Tries(h) : h.entries[(F1[k] + i) % h.size] \in {Unallocated, Deleted}}))
        % h.size
PlaceFor(h, k) == Probe(h, k, Min(Room(h, k)))

\* Mutant: a place used again is counted, one never used is not.
Added_reused(h, f, k) ==
    LET p == PlaceFor(h, k)
    IN  [h EXCEPT !.fill = IF h.entries[p] = Deleted THEN @ + 1 ELSE @,
                  !.inuse = @ + 1, !.entries[p] = f]
Added(h, f, k) ==
    LET p == PlaceFor(h, k)
    IN  [h EXCEPT !.fill = IF h.entries[p] = Unallocated THEN @ + 1 ELSE @,
                  !.inuse = @ + 1, !.entries[p] = f]

\* rehash: what is in the table goes into a new one, from the first place on.
Rehashed(h, ks) ==
    LET n == NewSize(((h.inuse + 1) * 4 + h.fill) \div 5, h.size)
        filled[p \in 0..h.size] ==
            IF p = 0 THEN Blank(n)
            ELSE LET e == h.entries[p - 1]
                 IN  IF e \in Files THEN Added(filled[p - 1], e, ks[e]) ELSE filled[p - 1]
    IN  IF n = 0 THEN h ELSE filled[h.size]

\* The table in which hash_add looks for a place.
Ready(h, ks) == IF h.fill >= h.max THEN Rehashed(h, ks) ELSE h

\* mt_hash_lookup, for one of the streams in M, which have key k.
\* Mutant: a search ends at a deleted place.
Stops_deleted(h, k, M) ==
    {i \in Tries(h) : TriedAt(h, k, i) \in M \cup {Unallocated, Deleted}}
Stops(h, k, M) == {i \in Tries(h) : TriedAt(h, k, i) \in M \cup {Unallocated}}
Found(h, k, M) == Stops(h, k, M) # {} /\ TriedAt(h, k, Min(Stops(h, k, M))) \in M
FoundAt(h, k, M) == Probe(h, k, Min(Stops(h, k, M)))
\* Where it is put if there is a deleted place before.
MovedTo(h, k, M) ==
    LET i == Min(Stops(h, k, M))
    IN  Probe(h, k, Min({i} \cup {j \in 0..i-1 : TriedAt(h, k, j) = Deleted}))

\* Mutant: it stays where it was, too.
Moved_copied(h, k, M) ==
    [h EXCEPT !.entries[MovedTo(h, k, M)] = h.entries[FoundAt(h, k, M)]]
Moved(h, k, M) ==
    LET from == FoundAt(h, k, M)
        to   == MovedTo(h, k, M)
    IN  IF from = to THEN h
        ELSE [h EXCEPT !.entries[to] = h.entries[from], !.entries[from] = Deleted]

\* Mutant: only where it was put.
PlaceOf_hint(h, f) ==
    IF hint[f] < h.size /\ h.entries[hint[f]] = f THEN hint[f] ELSE -1
\* hash_remove: where f is; -1 if it is not found.
PlaceOf(h, f) ==
    IF hint[f] < h.size /\ h.entries[hint[f]] = f THEN hint[f]
    ELSE IF Found(h, key[f], {f}) THEN MovedTo(h, key[f], {f}) ELSE -1
Removed(h, f) ==
    LET found == IF hint[f] < h.size /\ h.entries[hint[f]] = f THEN h ELSE Moved(h, key[f], {f})
    IN  [found EXCEPT !.inuse = @ - 1, !.entries[PlaceOf(h, f)] = Deleted]

-----------------------------------------------------------------------------
(* file.c                                                                   *)

\* hash_add of f with key k to h.  It fails, unnoticed, in a table that is full
\* and cannot grow.
Enter(h, f, ks) ==
    LET r == Ready(h, ks)
    IN  /\ key' = ks
        /\ IF r.fill = r.size THEN ht' = r /\ hint' = hint /\ ended' = ended
           ELSE IF Room(r, ks[f]) = {} THEN ht' = r /\ hint' = hint /\ ended' = "hash_add"
           ELSE /\ ht' = Added(r, f, ks[f])
                /\ hint' = [hint EXCEPT ![f] = PlaceFor(r, ks[f])]
                /\ ended' = ended

NewStream(k) ==
    \E f \in Files :
        /\ refs[f] = 0
        /\ Enter(ht, f, [key EXCEPT ![f] = k])
        /\ refs' = [refs EXCEPT ![f] = 1]

Streams == {f \in Files : refs[f] > 0}
OfKey(k) == {f \in Streams : key[f] = k}

\* mt_internalFileOpen of a file or directory that is on disk
Open(k) ==
    /\ ended = "no"
    /\ \/ /\ Found(ht, k, OfKey(k))
          /\ LET f == ht.entries[FoundAt(ht, k, OfKey(k))]
             IN  refs[f] < MaxRefs /\ refs' = [refs EXCEPT ![f] = @ + 1]
          /\ ht' = Moved(ht, k, OfKey(k))
          /\ UNCHANGED <<key, hint, ended>>
       \/ ~Found(ht, k, OfKey(k)) /\ NewStream(k)

\* mt_internalFileOpen of a new one, marked with the illegal cluster 1
OpenNew == ended = "no" /\ NewStream(NoCluster)

\* normal_map: the stream gets its first cluster, a free one.
FirstCluster(f, c) ==
    /\ ended = "no" /\ f \in Streams /\ key[f] = NoCluster /\ OfKey(c) = {}
    /\ IF PlaceOf(ht, f) = -1
       THEN ended' = "hash_remove" /\ UNCHANGED <<ht, key, hint>>
       ELSE Enter(Removed(ht, f), f, [key EXCEPT ![f] = c])
    /\ UNCHANGED refs

\* free_stream and free_file
Close(f) ==
    /\ ended = "no" /\ f \in Streams
    /\ refs' = [refs EXCEPT ![f] = @ - 1]
    /\ IF refs[f] > 1 THEN UNCHANGED <<ht, key, hint, ended>>
       ELSE IF PlaceOf(ht, f) = -1 THEN ended' = "hash_remove" /\ UNCHANGED <<ht, key, hint>>
       ELSE /\ ht' = Removed(ht, f)
            /\ key' = [key EXCEPT ![f] = NoCluster] /\ hint' = [hint EXCEPT ![f] = 0]
            /\ ended' = ended

Init ==
    /\ ht = Blank(Sizes[1])
    /\ key = [f \in Files |-> NoCluster] /\ hint = [f \in Files |-> 0]
    /\ refs = [f \in Files |-> 0]
    /\ ended = "no"

Next ==
    \/ \E k \in Keys : Open(k)
    \/ OpenNew
    \/ \E f \in Files, c \in Clusters : FirstCluster(f, c)
    \/ \E f \in Files : Close(f)

Spec == Init /\ [][Next]_vars

-----------------------------------------------------------------------------
(* Properties                                                               *)

Places == 0..ht.size-1

TypeOK ==
    /\ ht.size \in Range(Sizes) /\ ht.fill \in 0..ht.size /\ ht.inuse \in 0..ht.fill
    /\ ht.entries \in [Places -> Files \cup {Unallocated, Deleted}]
    /\ key \in [Files -> Keys] /\ hint \in [Files -> Nat] /\ refs \in [Files -> 0..MaxRefs]
    /\ ended \in {"no", "hash_add", "hash_remove"}

\* A file or directory has one stream, whoever opens it and whenever: two would
\* buffer and flush the same clusters independently.
OneStream ==
    \A f, g \in Streams : f # g /\ key[f] = key[g] => key[f] = NoCluster

\* Every stream is found when it is closed or changes its key, and a place is
\* found for every new one ("Removing non-existent entry", an endless loop).
NeverStuck == ended = "no"

\* Each stream is in the table once, and the counters that decide when the table
\* is cleaned out count it right.
CountersRight ==
    ended = "no" =>
        /\ ht.inuse = Cardinality(Streams)
        /\ ht.fill = Cardinality({p \in Places : ht.entries[p] # Unallocated})
        /\ \A f \in Files : Cardinality({p \in Places : ht.entries[p] = f}) =
                                IF f \in Streams THEN 1 ELSE 0

\* No place before a stream, in the order of its key, was never used: a search
\* gets there.
OnPath ==
    ended = "no" => \A f \in Streams : \E i \in Tries(ht) :
        /\ TriedAt(ht, key[f], i) = f
        /\ \A j \in 0..i-1 : TriedAt(ht, key[f], j) # Unallocated

\* The table answers for the streams it holds, whatever was added, deleted and
\* moved before.
TableExact == TypeOK /\ CountersRight /\ OnPath
=============================================================================
