----------------------------- MODULE TreeProofs -----------------------------
(***************************************************************************)
(* Proofs about what a drive is used through: the table of its open files  *)
(* and the walk of the commands through its tree.                          *)
(*                                                                         *)
(* FileHash, for any number of streams and of references to them, any hash *)
(* functions and any list of prime sizes the largest of which is enough    *)
(* for all streams: what is in the table is found, counted and unique,     *)
(* however it was filled, emptied, moved in and grown.  Everything rests   *)
(* on one invariant of a table and the set of streams it holds, Sound;     *)
(* each operation of hash.c has a lemma that says what it does to the two. *)
(*                                                                         *)
(* TreeWalk, for any disk that holds a tree, any command line the programs *)
(* let through and any files of the host: between two steps the disk holds *)
(* a tree.  The invariant, WalkInv, is about the loops of the walk as      *)
(* well: what each goes on with after what it has called is still there.   *)
(* StraysInv is about the entries that failed copies leave beside it.      *)
(***************************************************************************)
EXTENDS FileHash, TreeWalk, FiniteSetTheorems, SequenceTheorems, FunctionTheorems, WellFoundedInduction, TLAPS

-----------------------------------------------------------------------------
(* Numbers                                                                  *)

\* Counting up reaches every number.
LEMMA Counting ==
    ASSUME NEW T, 0 \in T, \A n \in Nat : n \in T => n + 1 \in T
    PROVE  \A n \in Nat : n \in T
  <1> DEFINE Missed == {n \in Nat : n \notin T}
  <1> SUFFICES ASSUME Missed # {} PROVE FALSE
    OBVIOUS
  <1>1. PICK i \in Missed : \A j \in Missed : <<j, i>> \notin OpToRel(<, Nat)
    BY WFMin, NatLessThanWellFounded
  <1>2. i \in Nat /\ i \notin T /\ i # 0
    OBVIOUS
  <1>3. i - 1 \in Nat /\ (i - 1) + 1 = i /\ i - 1 < i
    BY <1>2
  <1>4. i - 1 \notin T
    BY <1>2, <1>3
  <1>5. i - 1 \in Missed
    BY <1>3, <1>4
  <1>6. <<i - 1, i>> \in OpToRel(<, Nat)
    BY <1>2, <1>3 DEF OpToRel
  <1> QED BY <1>1, <1>5, <1>6

\* Min finds the least of some numbers, ...
LEMMA MinIs ==
    ASSUME NEW S, S \subseteq Nat, S # {}
    PROVE  Min(S) \in S /\ \A j \in S : Min(S) <= j
  <1>1. PICK i \in S : \A j \in S : <<j, i>> \notin OpToRel(<, Nat)
    BY WFMin, NatLessThanWellFounded
  <1>2. ASSUME NEW j \in S PROVE i <= j
    <2>1. i \in Nat /\ j \in Nat
      OBVIOUS
    <2>2. ~(j < i)
      BY <1>1, <2>1 DEF OpToRel
    <2> QED BY <2>1, <2>2
  <1> QED BY <1>2 DEF Min

\* ... and Max the greater of two.
LEMMA MaxIs ==
    ASSUME NEW a \in Nat, NEW b \in Nat
    PROVE  Max({a, b}) \in {a, b} /\ Max({a, b}) >= a /\ Max({a, b}) >= b
  <1>1. \E x \in {a, b} : \A y \in {a, b} : x >= y
    OBVIOUS
  <1> QED BY <1>1 DEF Max

\* Division leaves a remainder, and only a multiple leaves none.
LEMMA Division ==
    ASSUME NEW x \in Nat, NEW n \in Nat, n > 0
    PROVE  /\ x \div n \in Nat /\ x % n \in 0..n-1
           /\ x = (x \div n) * n + (x % n)
  OBVIOUS

\* A multiple leaves no remainder.
LEMMA Multiple ==
    ASSUME NEW q \in Nat, NEW n \in Nat, n > 0
    PROVE  (q * n) % n = 0
  <1> DEFINE x == q * n  d == x \div n  r == x % n
  <1>1. x \in Nat
    OBVIOUS
  <1>2. d \in Nat /\ r \in 0..n-1 /\ x = d * n + r
    BY <1>1, Division
  <1> HIDE DEF d, r
  <1>3. (q - d) * n = r
    BY <1>2
  <1>4. ASSUME q - d >= 1 PROVE FALSE
    <2>1. (q - d) * n >= n
      BY <1>2, <1>4
    <2> QED BY <1>2, <1>3, <2>1
  <1>5. ASSUME q - d <= -1 PROVE FALSE
    <2>1. (q - d) * n < 0
      BY <1>2, <1>5
    <2> QED BY <1>2, <1>3, <2>1
  <1>6. q - d = 0
    BY <1>2, <1>4, <1>5
  <1> QED BY <1>2, <1>3, <1>6 DEF r

\* Numbers that leave the same remainder differ by a multiple.
LEMMA SameRemainder ==
    ASSUME NEW x \in Nat, NEW d \in Nat, NEW n \in Nat, n > 0, (x + d) % n = x % n
    PROVE  d % n = 0
  <1> DEFINE a == x \div n  b == (x + d) \div n  r == x % n
  <1>1. a \in Nat /\ r \in 0..n-1 /\ x = a * n + r
    BY Division
  <1>2. x + d \in Nat
    OBVIOUS
  <1>3. b \in Nat /\ x + d = b * n + r
    BY <1>2, Division
  <1> HIDE DEF a, b, r
  <1>4. d = b * n - a * n
    BY <1>1, <1>3
  <1>5. d = (b - a) * n
    BY <1>1, <1>3, <1>4
  <1>6. b - a \in Nat
    <2>1. ASSUME b - a <= -1 PROVE FALSE
      <3>1. (b - a) * n < 0
        BY <1>1, <1>3, <2>1
      <3> QED BY <1>5, <3>1
    <2> QED BY <1>1, <1>3, <2>1
  <1> QED BY <1>5, <1>6, Multiple

-----------------------------------------------------------------------------
(* Probing                                                                  *)

\* The sizes of tables are numbers beyond 1.
LEMMA SizeIs ==
    ASSUME NEW s \in Range(Sizes)
    PROVE  s \in Nat /\ s > 1
  <1>1. Sizes \in Seq({n \in Nat : n > 1})
    BY FileHashAssumption
  <1>2. PICK i \in DOMAIN Sizes : s = Sizes[i]
    BY DEF Range
  <1>3. Sizes[i] \in {n \in Nat : n > 1}
    BY <1>1, <1>2
  <1> QED BY <1>2, <1>3

\* A key is looked for at places a fixed step apart, around the table.
LEMMA ProbeIs ==
    ASSUME NEW h, h.size \in Range(Sizes), NEW k \in Keys
    PROVE  \E a \in Nat, step \in 1..h.size-1 :
              \A i \in Nat : /\ Probe(h, k, i) = (a + i * step) % h.size
                             /\ Probe(h, k, i) \in 0..h.size-1
  <1> DEFINE s == h.size  step == (F2[k] % (s - 1)) + 1
  <1>1. s \in Nat /\ s > 1
    BY SizeIs
  <1>2. F1[k] \in Nat /\ F2[k] \in Nat
    BY FileHashAssumption
  <1>3. step \in 1..s-1
    <2>1. s - 1 \in Nat /\ s - 1 > 0
      BY <1>1
    <2> DEFINE m == s - 1
    <2>2. F2[k] % m \in 0..m-1
      <3> HIDE DEF m
      <3>1. m \in Nat /\ m > 0
        BY <2>1 DEF m
      <3> QED BY <1>2, <3>1, Division
    <2> DEFINE r == F2[k] % m
    <2> HIDE DEF r
    <2>3. r + 1 \in 1..s-1
      BY <1>1, <2>2 DEF r
    <2> QED BY <2>3 DEF r
  <1>4. ASSUME NEW i \in Nat
        PROVE  Probe(h, k, i) = (F1[k] + i * step) % s /\ Probe(h, k, i) \in 0..s-1
    <2>1. Probe(h, k, i) = (F1[k] + i * step) % s
      BY DEF Probe
    <2> HIDE DEF step, s
    <2>2. F1[k] + i * step \in Nat
      BY <1>1, <1>2, <1>3
    <2> DEFINE x == F1[k] + i * step
    <2>3. x % s \in 0..s-1
      <3> HIDE DEF x
      <3>1. x \in Nat
        BY <2>2 DEF x
      <3> QED BY <1>1, <3>1, Division
    <2> QED BY <2>1, <2>3
  <1> HIDE DEF step
  <1> QED BY <1>2, <1>3, <1>4

\* No place is tried twice: the size is a prime.
LEMMA NoPlaceTwice ==
    ASSUME NEW h, h.size \in Range(Sizes), NEW k \in Keys,
           NEW i \in Tries(h), NEW j \in Tries(h), i < j
    PROVE  Probe(h, k, i) # Probe(h, k, j)
  <1> DEFINE s == h.size
  <1>1. s \in Nat /\ s > 1
    BY SizeIs
  <1>2. i \in 0..s-1 /\ j \in 0..s-1 /\ j - i \in 1..s-1
    BY <1>1 DEF Tries
  <1>3. PICK a \in Nat, step \in 1..s-1 :
              \A n \in Nat : Probe(h, k, n) = (a + n * step) % s
    BY ProbeIs
  <1>4. ((j - i) * step) % s # 0
    BY <1>2, PrimeSizes
  <1> SUFFICES ASSUME Probe(h, k, i) = Probe(h, k, j) PROVE FALSE
    OBVIOUS
  <1>5. (a + i * step) % s = (a + j * step) % s
    BY <1>1, <1>2, <1>3
  <1> HIDE DEF s
  <1> DEFINE x == a + i * step  d == (j - i) * step
  <1>6. x \in Nat /\ d \in Nat /\ a + j * step = x + d
    <2>1. i \in Nat /\ step \in Nat /\ j \in Nat /\ j - i \in Nat
      BY <1>1, <1>2
    <2>2. x \in Nat /\ d \in Nat
      BY <2>1
    <2>3. (j - i) * step = j * step - i * step
      BY <2>1
    <2> DEFINE u == i * step  v == j * step
    <2>4. u \in Nat /\ v \in Nat
      BY <2>1
    <2>5. a + v = (a + u) + (v - u)
      <3> HIDE DEF u, v
      <3> QED BY <2>4
    <2>6. d = v - u /\ x = a + u /\ a + j * step = a + v
      BY <2>3
    <2> HIDE DEF u, v, x, d
    <2> QED BY <2>2, <2>5, <2>6
  <1>7. (x + d) % s = x % s
    BY <1>5, <1>6
  <1>8. d % s # 0
    BY <1>4
  <1> HIDE DEF x, d
  <1>9. d % s = 0
    <2>1. x \in Nat /\ d \in Nat /\ s \in Nat /\ s > 0
      BY <1>1, <1>6
    <2> QED BY <1>7, <2>1, SameRemainder
  <1> QED BY <1>8, <1>9

\* So every place is tried.
LEMMA EveryPlace ==
    ASSUME NEW h, h.size \in Range(Sizes), NEW k \in Keys, NEW p \in 0..h.size-1
    PROVE  \E i \in Tries(h) : Probe(h, k, i) = p
  <1> DEFINE S == 0..h.size-1
             f == [i \in S |-> Probe(h, k, i)]
  <1>1. h.size \in Nat /\ h.size > 1 /\ Tries(h) = S
    BY SizeIs DEF Tries
  <1>2. \A i \in S : i \in Nat /\ Probe(h, k, i) \in S
    <2>1. \A i \in S : i \in Nat
      BY <1>1
    <2>2. \A i \in Nat : Probe(h, k, i) \in S
      BY ProbeIs
    <2> QED BY <2>1, <2>2
  <1>3. IsFiniteSet(S)
    BY <1>1, FS_Interval
  <1>4. f \in [S -> S]
    BY <1>2
  <1>5. ASSUME NEW i \in S, NEW j \in S, f[i] = f[j] PROVE i = j
    <2>1. Probe(h, k, i) = Probe(h, k, j) /\ i \in Nat /\ j \in Nat
      BY <1>2, <1>5
    <2>2. ~(i < j)
      BY <1>1, <2>1, NoPlaceTwice
    <2>3. ~(j < i)
      BY <1>1, <2>1, NoPlaceTwice
    <2> QED BY <2>1, <2>2, <2>3
  <1>6. f \in Injection(S, S)
    <2> HIDE DEF f
    <2> QED BY <1>4, <1>5 DEF Injection, IsInjective
  <1>7. f \in Surjection(S, S)
    <2> HIDE DEF f, S
    <2> QED BY <1>3, <1>6, FS_Injection
  <1>8. PICK i \in S : f[i] = p
    <2> HIDE DEF f
    <2> QED BY <1>7 DEF Surjection
  <1> QED BY <1>1, <1>8

-----------------------------------------------------------------------------
(* Tables                                                                   *)

PlacesOf(h) == 0..h.size-1
Used(h) == {p \in PlacesOf(h) : h.entries[p] # Unallocated}
Shaped(h) == h = [size |-> h.size, max |-> h.max, fill |-> h.fill, inuse |-> h.inuse,
                  entries |-> h.entries]

\* A search for e, of key k, gets to it.
Reach(h, k, e) ==
    \E i \in Tries(h) : /\ TriedAt(h, k, i) = e
                        /\ \A j \in 0..i-1 : TriedAt(h, k, j) # Unallocated

\* Table h holds the streams E, which have the keys ks, each once, and finds them.
Sound(h, E, ks) ==
    /\ Shaped(h) /\ h.size \in Range(Sizes) /\ h.max \in Int /\ h.max < h.size
    /\ E \subseteq Files /\ ks \in [Files -> Keys]
    /\ h.entries \in [PlacesOf(h) -> E \cup {Unallocated, Deleted}]
    /\ h.fill = Cardinality(Used(h)) /\ h.inuse = Cardinality(E)
    /\ \A p, q \in PlacesOf(h) : h.entries[p] \in E /\ h.entries[p] = h.entries[q] => p = q
    /\ \A f \in E : Reach(h, ks[f], f)

\* Streams are not marks, and there are finitely many.
LEMMA StreamsAreNot ==
    ASSUME NEW E, E \subseteq Files
    PROVE  /\ IsFiniteSet(E) /\ Cardinality(E) \in Nat
           /\ Unallocated \notin E /\ Deleted \notin E /\ Unallocated # Deleted
           /\ Cardinality(E) <= Cardinality(Files) /\ Cardinality(Files) \in Nat
  <1>1. IsFiniteSet(Files) /\ E \in SUBSET Files
    BY FileHashAssumption
  <1>2. IsFiniteSet(E) /\ Cardinality(E) <= Cardinality(Files)
    BY <1>1, FS_Subset
  <1>3. Cardinality(E) \in Nat /\ Cardinality(Files) \in Nat
    BY <1>1, <1>2, FS_CardinalityType
  <1> QED BY <1>1, <1>2, <1>3, FileHashAssumption

\* A table has as many places as its size says, no more of them used than that.
LEMMA PlacesAre ==
    ASSUME NEW h, h.size \in Range(Sizes)
    PROVE  /\ h.size \in Nat /\ h.size > 1 /\ PlacesOf(h) = Tries(h)
           /\ IsFiniteSet(PlacesOf(h)) /\ Cardinality(PlacesOf(h)) = h.size
           /\ IsFiniteSet(Used(h)) /\ Cardinality(Used(h)) \in Nat
           /\ Cardinality(Used(h)) <= h.size
           /\ Cardinality(Used(h)) = h.size => Used(h) = PlacesOf(h)
  <1>1. h.size \in Nat /\ h.size > 1
    BY SizeIs
  <1>2. IsFiniteSet(PlacesOf(h)) /\ Cardinality(PlacesOf(h)) = h.size
    <2>1. 0 \in Int /\ h.size - 1 \in Int
      BY <1>1
    <2>2. IsFiniteSet(0..h.size-1)
          /\ Cardinality(0..h.size-1) = IF 0 > h.size - 1 THEN 0 ELSE (h.size - 1) - 0 + 1
      BY <2>1, FS_Interval
    <2> QED BY <1>1, <2>2 DEF PlacesOf
  <1>3. Used(h) \in SUBSET PlacesOf(h)
    BY DEF Used
  <1>4. /\ IsFiniteSet(Used(h)) /\ Cardinality(Used(h)) <= Cardinality(PlacesOf(h))
        /\ Cardinality(PlacesOf(h)) = Cardinality(Used(h)) => Used(h) = PlacesOf(h)
    BY <1>2, <1>3, FS_Subset
  <1>5. Cardinality(Used(h)) \in Nat
    BY <1>4, FS_CardinalityType
  <1> QED BY <1>1, <1>2, <1>4, <1>5 DEF PlacesOf, Tries

\* Where a search looks.
LEMMA TriedPlace ==
    ASSUME NEW h, h.size \in Range(Sizes), NEW k \in Keys, NEW i \in Nat
    PROVE  Probe(h, k, i) \in PlacesOf(h) /\ TriedAt(h, k, i) = h.entries[Probe(h, k, i)]
  BY ProbeIs DEF PlacesOf, TriedAt

\* A search still gets to a stream that stays where it is while nothing is made
\* unallocated.
LEMMA ReachKept ==
    ASSUME NEW h, NEW g, h.size \in Range(Sizes), g.size = h.size, NEW k \in Keys, NEW e,
           \A p \in PlacesOf(h) : h.entries[p] # Unallocated => g.entries[p] # Unallocated,
           \A p \in PlacesOf(h) : h.entries[p] = e => g.entries[p] = e,
           Reach(h, k, e)
    PROVE  Reach(g, k, e)
  <1>1. PICK i \in Tries(h) : /\ TriedAt(h, k, i) = e
                              /\ \A j \in 0..i-1 : TriedAt(h, k, j) # Unallocated
    BY DEF Reach
  <1>2. Tries(g) = Tries(h) /\ i \in Nat
    BY PlacesAre DEF Tries
  <1>3. ASSUME NEW j \in Nat
        PROVE  /\ TriedAt(h, k, j) = e => TriedAt(g, k, j) = e
               /\ TriedAt(h, k, j) # Unallocated => TriedAt(g, k, j) # Unallocated
    <2>1. Probe(g, k, j) = Probe(h, k, j)
      BY DEF Probe
    <2>2. Probe(h, k, j) \in PlacesOf(h)
      BY TriedPlace
    <2> QED BY <2>1, <2>2 DEF TriedAt
  <1>4. \A j \in 0..i-1 : j \in Nat
    BY <1>2
  <1> QED BY <1>1, <1>2, <1>3, <1>4 DEF Reach

\* The keys of other streams do not matter.
LEMMA KeysKept ==
    ASSUME NEW h, NEW E, NEW ks, Sound(h, E, ks), NEW new \in [Files -> Keys],
           \A f \in E : new[f] = ks[f]
    PROVE  Sound(h, E, new)
  BY DEF Sound

\* A table cannot hold more streams than it has places.
LEMMA AllHeld ==
    ASSUME NEW h, NEW E, NEW ks, Sound(h, E, ks), \A p \in PlacesOf(h) : h.entries[p] \in E
    PROVE  h.size <= Cardinality(E)
  <1>1. h.size \in Range(Sizes) /\ E \subseteq Files /\ DOMAIN h.entries = PlacesOf(h)
        /\ h.entries \in [PlacesOf(h) -> E \cup {Unallocated, Deleted}]
    BY DEF Sound
  <1>2. h.entries \in [PlacesOf(h) -> E]
    BY <1>1
  <1>3. \A p, q \in PlacesOf(h) : h.entries[p] = h.entries[q] => p = q
    BY DEF Sound
  <1>4. h.entries \in Injection(PlacesOf(h), E)
    BY <1>2, <1>3 DEF Injection, IsInjective
  <1>5. Cardinality(PlacesOf(h)) <= Cardinality(E)
    BY <1>1, <1>4, StreamsAreNot, FS_Injection
  <1> QED BY <1>1, <1>5, PlacesAre

\* As long as there are fewer, a search for a place finds one.
LEMMA RoomExists ==
    ASSUME NEW h, NEW E, NEW ks, Sound(h, E, ks), Cardinality(E) < h.size, NEW k \in Keys
    PROVE  Room(h, k) # {}
  <1>1. h.size \in Range(Sizes) /\ E \subseteq Files
        /\ h.entries \in [PlacesOf(h) -> E \cup {Unallocated, Deleted}]
    BY DEF Sound
  <1> SUFFICES ASSUME Room(h, k) = {} PROVE FALSE
    OBVIOUS
  <1>2. ASSUME NEW p \in PlacesOf(h) PROVE h.entries[p] \in E
    <2>1. PICK i \in Tries(h) : Probe(h, k, i) = p
      BY <1>1, EveryPlace DEF PlacesOf
    <2>2. TriedAt(h, k, i) = h.entries[p]
      BY <2>1 DEF TriedAt
    <2>3. TriedAt(h, k, i) \notin {Unallocated, Deleted}
      BY DEF Room
    <2> QED BY <1>1, <2>2, <2>3
  <1>3. h.size <= Cardinality(E)
    BY <1>2, AllHeld
  <1>4. h.size \in Nat /\ Cardinality(E) \in Nat
    BY <1>1, PlacesAre, StreamsAreNot
  <1> QED BY <1>3, <1>4

\* There are no more streams than used places.
LEMMA InuseAtMostFill ==
    ASSUME NEW h, NEW E, NEW ks, Sound(h, E, ks)
    PROVE  Cardinality(E) <= h.fill
  <1> DEFINE at == [f \in E |-> CHOOSE p \in PlacesOf(h) : h.entries[p] = f]
  <1>1. h.size \in Range(Sizes) /\ E \subseteq Files /\ h.fill = Cardinality(Used(h))
        /\ ks \in [Files -> Keys]
    BY DEF Sound
  <1>2. ASSUME NEW f \in E PROVE at[f] \in PlacesOf(h) /\ h.entries[at[f]] = f
    <2>1. Reach(h, ks[f], f) /\ ks[f] \in Keys
      BY <1>1 DEF Sound
    <2>2. PICK i \in Tries(h) : TriedAt(h, ks[f], i) = f
      BY <2>1 DEF Reach
    <2>3. i \in Nat
      BY <1>1, PlacesAre DEF Tries
    <2>4. Probe(h, ks[f], i) \in PlacesOf(h) /\ h.entries[Probe(h, ks[f], i)] = f
      BY <1>1, <2>1, <2>2, <2>3, TriedPlace
    <2>5. at[f] = CHOOSE p \in PlacesOf(h) : h.entries[p] = f
      OBVIOUS
    <2> HIDE DEF at
    <2> QED BY <2>4, <2>5
  <1>3. DOMAIN at = E /\ at = [f \in E |-> at[f]]
    OBVIOUS
  <1> HIDE DEF at
  <1>4. ASSUME NEW f \in E PROVE at[f] \in Used(h)
    <2>1. f # Unallocated
      BY <1>1, StreamsAreNot
    <2> QED BY <1>2, <2>1 DEF Used
  <1>5. at \in [E -> Used(h)]
    BY <1>3, <1>4
  <1>6. \A f, g \in E : at[f] = at[g] => f = g
    BY <1>2
  <1>7. at \in Injection(E, Used(h))
    BY <1>5, <1>6 DEF Injection, IsInjective
  <1>8. IsFiniteSet(Used(h))
    BY <1>1, PlacesAre
  <1> QED BY <1>1, <1>7, <1>8, FS_Injection

-----------------------------------------------------------------------------
(* Operations on a table                                                    *)

\* A place for a new stream: the first one tried that is free.
LEMMA PlaceIs ==
    ASSUME NEW h, h.size \in Range(Sizes), NEW k \in Keys, Room(h, k) # {}
    PROVE  \E i \in Tries(h) :
              /\ PlaceFor(h, k) = Probe(h, k, i) /\ PlaceFor(h, k) \in PlacesOf(h)
              /\ h.entries[PlaceFor(h, k)] \in {Unallocated, Deleted}
              /\ \A j \in 0..i-1 : TriedAt(h, k, j) # Unallocated
  <1> DEFINE i == Min(Room(h, k))
  <1>1. h.size \in Nat /\ \A j \in Tries(h) : j \in Nat
    BY PlacesAre DEF Tries
  <1>2. Room(h, k) \subseteq Tries(h) /\ Room(h, k) \subseteq Nat
    BY <1>1 DEF Room
  <1>3. i \in Room(h, k) /\ \A j \in Room(h, k) : i <= j
    BY <1>2, MinIs
  <1>4. PlaceFor(h, k) = Probe(h, k, i)
    BY DEF PlaceFor
  <1> HIDE DEF i
  <1>5. i \in Tries(h) /\ i \in Nat /\ TriedAt(h, k, i) \in {Unallocated, Deleted}
    BY <1>1, <1>3 DEF Room
  <1>6. ASSUME NEW j \in 0..i-1 PROVE TriedAt(h, k, j) # Unallocated
    <2>1. j \in Nat /\ j < i /\ j \in Tries(h)
      BY <1>1, <1>5 DEF Tries
    <2>2. j \notin Room(h, k)
      BY <1>3, <1>5, <2>1
    <2> QED BY <2>1, <2>2 DEF Room
  <1>7. Probe(h, k, i) \in PlacesOf(h) /\ TriedAt(h, k, i) = h.entries[Probe(h, k, i)]
    BY <1>5, TriedPlace
  <1> QED BY <1>4, <1>5, <1>6, <1>7

\* What mt_hash_add changes.
LEMMA AddedIs ==
    ASSUME NEW h, Shaped(h), NEW f, NEW k
    PROVE  LET g == Added(h, f, k)
               p == PlaceFor(h, k)
           IN /\ Shaped(g) /\ g.size = h.size /\ g.max = h.max
              /\ g.fill = IF h.entries[p] = Unallocated THEN h.fill + 1 ELSE h.fill
              /\ g.inuse = h.inuse + 1
              /\ g.entries = [h.entries EXCEPT ![p] = f]
  <1> DEFINE p == PlaceFor(h, k)
             fill == IF h.entries[p] = Unallocated THEN h.fill + 1 ELSE h.fill
             entries == [h.entries EXCEPT ![p] = f]
             g == [size |-> h.size, max |-> h.max, fill |-> fill, inuse |-> h.inuse + 1,
                   entries |-> entries]
  <1>1. Added(h, f, k) = g
    <2>1. Added(h, f, k) = [h EXCEPT !.fill = fill, !.inuse = h.inuse + 1, !.entries = entries]
      BY DEF Added
    <2> HIDE DEF fill, entries
    <2> QED BY <2>1 DEF Shaped
  <1> HIDE DEF fill, entries
  <1>2. /\ g.size = h.size /\ g.max = h.max /\ g.fill = fill /\ g.inuse = h.inuse + 1
        /\ g.entries = entries
    OBVIOUS
  <1>3. Shaped(g)
    BY DEF Shaped
  <1> HIDE DEF g
  <1> QED BY <1>1, <1>2, <1>3 DEF fill, entries

\* The table then holds one stream more.
LEMMA AddedSound ==
    ASSUME NEW h, NEW E, NEW ks, Sound(h, E, ks), NEW f \in Files, f \notin E,
           Room(h, ks[f]) # {}
    PROVE  LET g == Added(h, f, ks[f])
           IN /\ Sound(g, E \cup {f}, ks) /\ g.size = h.size
              /\ (\A p \in PlacesOf(h) : h.entries[p] # Deleted) =>
                    \A p \in PlacesOf(g) : g.entries[p] # Deleted
  <1> DEFINE k == ks[f]  g == Added(h, f, k)  p == PlaceFor(h, k)
  <1>1. /\ Shaped(h) /\ h.size \in Range(Sizes) /\ h.max \in Int /\ h.max < h.size
        /\ E \subseteq Files /\ ks \in [Files -> Keys] /\ k \in Keys
        /\ h.entries \in [PlacesOf(h) -> E \cup {Unallocated, Deleted}]
        /\ h.fill = Cardinality(Used(h)) /\ h.inuse = Cardinality(E)
    BY DEF Sound
  <1>2. PICK i \in Tries(h) :
              /\ p = Probe(h, k, i) /\ p \in PlacesOf(h)
              /\ h.entries[p] \in {Unallocated, Deleted}
              /\ \A j \in 0..i-1 : TriedAt(h, k, j) # Unallocated
    BY <1>1, PlaceIs
  <1>3. /\ Shaped(g) /\ g.size = h.size /\ g.max = h.max
        /\ g.fill = IF h.entries[p] = Unallocated THEN h.fill + 1 ELSE h.fill
        /\ g.inuse = h.inuse + 1
        /\ g.entries = [h.entries EXCEPT ![p] = f]
    BY <1>1, AddedIs
  <1>4. f # Unallocated /\ f # Deleted /\ Unallocated \notin E /\ Deleted \notin E
        /\ Unallocated # Deleted /\ IsFiniteSet(E) /\ Cardinality(E) \in Nat
    BY <1>1, StreamsAreNot
  <1> HIDE DEF k, g, p
  <1>5. PlacesOf(g) = PlacesOf(h)
    BY <1>3 DEF PlacesOf
  <1>6. \A q \in PlacesOf(h) : g.entries[q] = IF q = p THEN f ELSE h.entries[q]
    BY <1>1, <1>2, <1>3
  <1>7. g.entries \in [PlacesOf(g) -> (E \cup {f}) \cup {Unallocated, Deleted}]
    BY <1>1, <1>3, <1>5
  <1>8. g.inuse = Cardinality(E \cup {f})
    <2>1. Cardinality(E \cup {f}) = Cardinality(E) + 1
      BY <1>4, FS_AddElement
    <2> QED BY <1>1, <1>3, <2>1
  <1>9. g.fill = Cardinality(Used(g))
    <2>1. Used(g) = Used(h) \cup {p}
      BY <1>2, <1>4, <1>5, <1>6 DEF Used
    <2>2. p \in Used(h) <=> h.entries[p] # Unallocated
      BY <1>2 DEF Used
    <2>3. IsFiniteSet(Used(h))
      BY <1>1, PlacesAre
    <2>4. Cardinality(Used(g)) = IF p \in Used(h) THEN Cardinality(Used(h)) ELSE Cardinality(Used(h)) + 1
      BY <2>1, <2>3, FS_AddElement
    <2> QED BY <1>1, <1>3, <2>2, <2>4
  <1>10. ASSUME NEW q \in PlacesOf(g), NEW r \in PlacesOf(g), g.entries[q] \in E \cup {f},
                g.entries[q] = g.entries[r]
         PROVE  q = r
    <2>1. \A x \in PlacesOf(h) : h.entries[x] # f
      BY <1>1, <1>4
    <2>2. CASE g.entries[q] = f
      BY <1>5, <1>6, <1>10, <2>1, <2>2
    <2>3. CASE g.entries[q] # f
      <3>1. q # p /\ r # p
        BY <1>5, <1>6, <1>10, <2>3
      <3>2. h.entries[q] = g.entries[q] /\ h.entries[r] = g.entries[r] /\ g.entries[q] \in E
        BY <1>5, <1>6, <1>10, <2>3, <3>1
      <3> QED BY <1>5, <1>10, <3>2 DEF Sound
    <2> QED BY <2>2, <2>3
  <1>11. ASSUME NEW e \in E PROVE Reach(g, ks[e], e)
    <2>1. Reach(h, ks[e], e) /\ ks[e] \in Keys
      BY <1>1 DEF Sound
    <2>2. \A q \in PlacesOf(h) : h.entries[q] # Unallocated => g.entries[q] # Unallocated
      BY <1>4, <1>6
    <2>3. \A q \in PlacesOf(h) : h.entries[q] = e => g.entries[q] = e
      BY <1>2, <1>4, <1>6
    <2> QED BY <1>1, <1>3, <2>1, <2>2, <2>3, ReachKept
  <1>12. Reach(g, k, f)
    <2>1. Tries(g) = Tries(h) /\ \A j \in Tries(h) : j \in Nat
      BY <1>1, <1>3, PlacesAre DEF Tries
    <2>2. \A j \in Nat : Probe(g, k, j) = Probe(h, k, j)
      BY <1>3 DEF Probe
    <2>3. TriedAt(g, k, i) = f
      BY <1>2, <1>6, <2>1, <2>2 DEF TriedAt
    <2>4. ASSUME NEW j \in 0..i-1 PROVE TriedAt(g, k, j) # Unallocated
      <3>1. i \in Nat /\ j \in Nat
        BY <2>1
      <3>2. Probe(h, k, j) \in PlacesOf(h) /\ TriedAt(h, k, j) = h.entries[Probe(h, k, j)]
        BY <1>1, <3>1, TriedPlace DEF k
      <3>3. TriedAt(g, k, j) = g.entries[Probe(h, k, j)]
        BY <2>2, <3>1 DEF TriedAt
      <3>4. TriedAt(h, k, j) # Unallocated
        BY <1>2
      <3> QED BY <1>4, <1>6, <3>2, <3>3, <3>4
    <2> QED BY <2>1, <2>3, <2>4 DEF Reach
  <1>13. Sound(g, E \cup {f}, ks)
    <2>1. \A e \in E \cup {f} : Reach(g, ks[e], e)
      BY <1>11, <1>12 DEF k
    <2>2. g.size \in Range(Sizes) /\ g.max \in Int /\ g.max < g.size /\ Shaped(g)
          /\ E \cup {f} \subseteq Files
      BY <1>1, <1>3
    <2>3. \A q, r \in PlacesOf(g) :
              g.entries[q] \in E \cup {f} /\ g.entries[q] = g.entries[r] => q = r
      BY <1>10
    <2> QED BY <1>1, <1>7, <1>8, <1>9, <2>1, <2>2, <2>3 DEF Sound
  <1>14. (\A q \in PlacesOf(h) : h.entries[q] # Deleted) =>
            \A q \in PlacesOf(g) : g.entries[q] # Deleted
    BY <1>4, <1>5, <1>6
  <1> QED BY <1>3, <1>13, <1>14 DEF g, k

\* A stream that the table holds is found.
LEMMA HeldIsFound ==
    ASSUME NEW h, NEW E, NEW ks, Sound(h, E, ks), NEW M, NEW e \in M, M \subseteq E
    PROVE  Found(h, ks[e], M)
  <1> DEFINE k == ks[e]
  <1>1. h.size \in Range(Sizes) /\ E \subseteq Files /\ k \in Keys /\ Reach(h, k, e)
    BY DEF Sound
  <1> HIDE DEF k
  <1>2. PICK i \in Tries(h) : /\ TriedAt(h, k, i) = e
                              /\ \A j \in 0..i-1 : TriedAt(h, k, j) # Unallocated
    BY <1>1 DEF Reach
  <1>3. i \in Stops(h, k, M) /\ Stops(h, k, M) \subseteq Nat
    BY <1>1, <1>2, PlacesAre DEF Stops, Tries
  <1> DEFINE n == Min(Stops(h, k, M))
  <1>4. n \in Stops(h, k, M) /\ n <= i
    BY <1>3, MinIs
  <1> HIDE DEF n
  <1>5. i \in Nat /\ n \in Nat
    BY <1>3, <1>4
  <1>6. TriedAt(h, k, n) \in M \cup {Unallocated}
    BY <1>4 DEF Stops
  <1>7. TriedAt(h, k, n) # Unallocated
    <2>1. CASE n = i
      <3>1. e # Unallocated
        BY <1>1, StreamsAreNot
      <3> QED BY <1>2, <2>1, <3>1
    <2>2. CASE n # i
      <3>1. n \in 0..i-1
        BY <1>4, <1>5, <2>2
      <3> QED BY <1>2, <3>1
    <2> QED BY <2>1, <2>2
  <1> QED BY <1>3, <1>6, <1>7 DEF Found, n, k

\* What a search that finds something has found, and where it moves it.
LEMMA FoundIs ==
    ASSUME NEW h, h.size \in Range(Sizes), NEW k \in Keys, NEW M, Unallocated \notin M,
           Found(h, k, M)
    PROVE  /\ FoundAt(h, k, M) \in PlacesOf(h) /\ h.entries[FoundAt(h, k, M)] \in M
           /\ MovedTo(h, k, M) \in PlacesOf(h)
           /\ MovedTo(h, k, M) # FoundAt(h, k, M) => h.entries[MovedTo(h, k, M)] = Deleted
           /\ \E m \in Tries(h) : /\ MovedTo(h, k, M) = Probe(h, k, m)
                                  /\ \A j \in 0..m-1 : TriedAt(h, k, j) # Unallocated
  <1> DEFINE i == Min(Stops(h, k, M))
             J == {j \in 0..i-1 : TriedAt(h, k, j) = Deleted}
             m == Min({i} \cup J)
  <1>1. Stops(h, k, M) # {} /\ TriedAt(h, k, i) \in M
    BY DEF Found
  <1>2. FoundAt(h, k, M) = Probe(h, k, i) /\ MovedTo(h, k, M) = Probe(h, k, m)
    BY DEF FoundAt, MovedTo
  <1>3. h.size \in Nat /\ \A j \in Tries(h) : j \in Nat
    BY PlacesAre DEF Tries
  <1>4. Stops(h, k, M) \subseteq Tries(h) /\ Stops(h, k, M) \subseteq Nat
    BY <1>3 DEF Stops
  <1>5. i \in Stops(h, k, M) /\ \A j \in Stops(h, k, M) : i <= j
    BY <1>1, <1>4, MinIs
  <1> HIDE DEF i
  <1>6. i \in Tries(h) /\ i \in Nat
    BY <1>4, <1>5
  <1>7. ASSUME NEW j \in 0..i-1 PROVE TriedAt(h, k, j) # Unallocated /\ j \in Tries(h)
    <2>1. j \in Nat /\ j < i /\ j \in Tries(h)
      BY <1>3, <1>6 DEF Tries
    <2>2. j \notin Stops(h, k, M)
      BY <1>5, <1>6, <2>1
    <2> QED BY <2>1, <2>2 DEF Stops
  <1>8. m \in {i} \cup J
    <2>1. {i} \cup J \subseteq Nat /\ {i} \cup J # {}
      BY <1>6
    <2> HIDE DEF J
    <2> QED BY <2>1, MinIs
  <1>9. m \in Tries(h) /\ m \in Nat /\ m <= i /\ (m = i \/ TriedAt(h, k, m) = Deleted)
    <2> HIDE DEF m
    <2> QED BY <1>6, <1>7, <1>8
  <1> HIDE DEF m, J
  <1>10. \A j \in 0..m-1 : j \in 0..i-1
    BY <1>6, <1>9
  <1>11. /\ Probe(h, k, i) \in PlacesOf(h) /\ TriedAt(h, k, i) = h.entries[Probe(h, k, i)]
         /\ Probe(h, k, m) \in PlacesOf(h) /\ TriedAt(h, k, m) = h.entries[Probe(h, k, m)]
    BY <1>6, <1>9, TriedPlace
  <1>12. Probe(h, k, m) # Probe(h, k, i) => h.entries[Probe(h, k, m)] = Deleted
    BY <1>9, <1>11
  <1>13. \A j \in 0..m-1 : TriedAt(h, k, j) # Unallocated
    BY <1>7, <1>10
  <1> QED BY <1>1, <1>2, <1>9, <1>11, <1>12, <1>13

\* A search changes where a stream is, not what the table holds.
LEMMA MovedSound ==
    ASSUME NEW h, NEW E, NEW ks, Sound(h, E, ks), NEW k \in Keys, NEW M, M \subseteq E,
           \A e \in M : ks[e] = k, Found(h, k, M)
    PROVE  /\ Sound(Moved(h, k, M), E, ks)
           /\ h.entries[FoundAt(h, k, M)] \in M
           /\ MovedTo(h, k, M) \in PlacesOf(Moved(h, k, M))
           /\ Moved(h, k, M).entries[MovedTo(h, k, M)] = h.entries[FoundAt(h, k, M)]
  <1> DEFINE from == FoundAt(h, k, M)  to == MovedTo(h, k, M)  e == h.entries[from]
             g == Moved(h, k, M)
  <1>1. /\ Shaped(h) /\ h.size \in Range(Sizes) /\ h.max \in Int /\ h.max < h.size
        /\ E \subseteq Files /\ ks \in [Files -> Keys]
        /\ h.entries \in [PlacesOf(h) -> E \cup {Unallocated, Deleted}]
        /\ h.fill = Cardinality(Used(h)) /\ h.inuse = Cardinality(E)
    BY DEF Sound
  <1>2. Unallocated \notin E /\ Deleted \notin E /\ Unallocated # Deleted /\ Unallocated \notin M
    BY <1>1, StreamsAreNot
  <1>3. /\ from \in PlacesOf(h) /\ e \in M /\ to \in PlacesOf(h)
        /\ to # from => h.entries[to] = Deleted
    BY <1>1, <1>2, FoundIs
  <1>4. PICK m \in Tries(h) : to = Probe(h, k, m) /\ \A j \in 0..m-1 : TriedAt(h, k, j) # Unallocated
    BY <1>1, <1>2, FoundIs
  <1>5. CASE from = to
    <2>1. g = h
      BY <1>5 DEF Moved
    <2> HIDE DEF g, from, to
    <2> QED BY <1>3, <1>5, <2>1 DEF e, g, from, to
  <1>6. CASE from # to
    <2> DEFINE entries == [[h.entries EXCEPT ![to] = e] EXCEPT ![from] = Deleted]
               new == [size |-> h.size, max |-> h.max, fill |-> h.fill, inuse |-> h.inuse,
                       entries |-> entries]
    <2>1. g = new
      <3>1. g = [h EXCEPT !.entries[to] = e, !.entries[from] = Deleted]
        BY <1>6 DEF Moved
      <3> HIDE DEF g, from, to, e
      <3> QED BY <3>1, <1>1 DEF Shaped
    <2> HIDE DEF entries, from, to, e, g
    <2>2. new.size = h.size /\ new.max = h.max /\ new.fill = h.fill /\ new.inuse = h.inuse
          /\ new.entries = entries /\ Shaped(new)
      BY DEF Shaped
    <2> HIDE DEF new
    <2>3. g.size = h.size /\ g.max = h.max /\ g.fill = h.fill /\ g.inuse = h.inuse
          /\ g.entries = entries /\ Shaped(g)
      BY <2>1, <2>2
    <2>4. PlacesOf(g) = PlacesOf(h)
      BY <2>3 DEF PlacesOf
    <2>5. \A q \in PlacesOf(h) :
             g.entries[q] = IF q = from THEN Deleted ELSE IF q = to THEN e ELSE h.entries[q]
      BY <1>1, <1>3, <2>3 DEF entries
    <2>6. g.entries \in [PlacesOf(g) -> E \cup {Unallocated, Deleted}]
      BY <1>1, <1>3, <2>3, <2>4 DEF entries
    <2>7. h.entries[to] = Deleted /\ h.entries[from] = e /\ e \in E /\ e \in Files
          /\ e # Deleted /\ e # Unallocated
      BY <1>1, <1>2, <1>3, <1>6 DEF e
    <2>8. \A q \in PlacesOf(h) : h.entries[q] # Unallocated <=> g.entries[q] # Unallocated
      BY <1>2, <2>5, <2>7
    <2>9. Used(g) = Used(h)
      BY <2>4, <2>8 DEF Used
    <2>10. \A p, q \in PlacesOf(h) : h.entries[p] \in E /\ h.entries[p] = h.entries[q] => p = q
      BY DEF Sound
    <2>11. ASSUME NEW p \in PlacesOf(g), NEW q \in PlacesOf(g), g.entries[p] \in E,
                  g.entries[p] = g.entries[q]
           PROVE  p = q
      <3>1. p # from /\ q # from
        BY <1>2, <2>4, <2>5, <2>11
      <3>2. ASSUME NEW r \in PlacesOf(h), r # from PROVE h.entries[r] # e
        BY <1>3, <2>7, <2>10, <3>2
      <3>3. CASE p = to \/ q = to
        BY <2>4, <2>5, <2>11, <3>1, <3>2, <3>3
      <3>4. CASE p # to /\ q # to
        BY <2>4, <2>5, <2>10, <2>11, <3>1, <3>4
      <3> QED BY <3>3, <3>4
    <2>12. ASSUME NEW f \in E PROVE Reach(g, ks[f], f)
      <3>1. Reach(h, ks[f], f) /\ ks[f] \in Keys
        BY <1>1 DEF Sound
      <3>2. CASE f # e
        <4>1. \A q \in PlacesOf(h) : h.entries[q] = f => g.entries[q] = f
          BY <1>2, <2>5, <2>7, <3>2
        <4>2. \A q \in PlacesOf(h) : h.entries[q] # Unallocated => g.entries[q] # Unallocated
          BY <2>8
        <4> QED BY <1>1, <2>3, <3>1, <4>1, <4>2, ReachKept
      <3>3. CASE f = e
        <4>1. ks[f] = k
          BY <1>3, <3>3
        <4>2. Tries(g) = Tries(h) /\ \A j \in Tries(h) : j \in Nat
          BY <1>1, <2>3, PlacesAre DEF Tries
        <4>3. \A j \in Nat : Probe(g, k, j) = Probe(h, k, j)
          BY <2>3 DEF Probe
        <4>4. TriedAt(g, k, m) = f
          BY <1>3, <1>4, <1>6, <2>5, <3>3, <4>2, <4>3 DEF TriedAt
        <4>5. ASSUME NEW j \in 0..m-1 PROVE TriedAt(g, k, j) # Unallocated
          <5>1. m \in Nat /\ j \in Nat
            BY <4>2
          <5>2. Probe(h, k, j) \in PlacesOf(h) /\ TriedAt(h, k, j) = h.entries[Probe(h, k, j)]
            BY <1>1, <5>1, TriedPlace
          <5>3. TriedAt(g, k, j) = g.entries[Probe(h, k, j)]
            BY <4>3, <5>1 DEF TriedAt
          <5>4. TriedAt(h, k, j) # Unallocated
            BY <1>4
          <5> QED BY <2>8, <5>2, <5>3, <5>4
        <4> QED BY <4>1, <4>2, <4>4, <4>5 DEF Reach
      <3> QED BY <3>2, <3>3
    <2>13. Sound(g, E, ks)
      <3>1. \A p, q \in PlacesOf(g) : g.entries[p] \in E /\ g.entries[p] = g.entries[q] => p = q
        BY <2>11
      <3> QED BY <1>1, <2>3, <2>6, <2>9, <2>12, <3>1 DEF Sound
    <2>14. to \in PlacesOf(g) /\ g.entries[to] = e
      BY <1>3, <1>6, <2>4, <2>5
    <2> QED BY <1>3, <2>13, <2>14 DEF g, e, from, to
  <1> QED BY <1>5, <1>6

\* Marking its place as deleted takes a stream out of the table.
LEMMA DroppedSound ==
    ASSUME NEW h, NEW E, NEW ks, Sound(h, E, ks), NEW p \in PlacesOf(h), NEW f \in E,
           h.entries[p] = f
    PROVE  Sound([h EXCEPT !.inuse = @ - 1, !.entries[p] = Deleted], E \ {f}, ks)
  <1> DEFINE entries == [h.entries EXCEPT ![p] = Deleted]
             new == [size |-> h.size, max |-> h.max, fill |-> h.fill, inuse |-> h.inuse - 1,
                     entries |-> entries]
             g == [h EXCEPT !.inuse = @ - 1, !.entries[p] = Deleted]
  <1>1. /\ Shaped(h) /\ h.size \in Range(Sizes) /\ h.max \in Int /\ h.max < h.size
        /\ E \subseteq Files /\ ks \in [Files -> Keys]
        /\ h.entries \in [PlacesOf(h) -> E \cup {Unallocated, Deleted}]
        /\ h.fill = Cardinality(Used(h)) /\ h.inuse = Cardinality(E)
    BY DEF Sound
  <1>2. Unallocated \notin E /\ Deleted \notin E /\ Unallocated # Deleted /\ IsFiniteSet(E)
    BY <1>1, StreamsAreNot
  <1>3. g = new
    <2>1. g = [h EXCEPT !.inuse = h.inuse - 1, !.entries = entries]
      OBVIOUS
    <2> HIDE DEF g, entries
    <2> QED BY <1>1, <2>1 DEF Shaped
  <1> HIDE DEF g, entries
  <1>4. new.size = h.size /\ new.max = h.max /\ new.fill = h.fill /\ new.inuse = h.inuse - 1
        /\ new.entries = entries /\ Shaped(new)
    BY DEF Shaped
  <1> HIDE DEF new
  <1>5. g.size = h.size /\ g.max = h.max /\ g.fill = h.fill /\ g.inuse = h.inuse - 1
        /\ g.entries = entries /\ Shaped(g) /\ PlacesOf(g) = PlacesOf(h)
    BY <1>3, <1>4 DEF PlacesOf
  <1>6. \A q \in PlacesOf(h) : g.entries[q] = IF q = p THEN Deleted ELSE h.entries[q]
    BY <1>1, <1>5 DEF entries
  <1>7. \A q, r \in PlacesOf(h) : h.entries[q] \in E /\ h.entries[q] = h.entries[r] => q = r
    BY DEF Sound
  <1>8. \A q \in PlacesOf(h) : q # p => h.entries[q] # f
    BY <1>7
  <1>9. g.entries \in [PlacesOf(g) -> (E \ {f}) \cup {Unallocated, Deleted}]
    <2>1. g.entries = [q \in PlacesOf(h) |-> g.entries[q]]
      BY <1>1, <1>5 DEF entries
    <2>2. \A q \in PlacesOf(h) : g.entries[q] \in (E \ {f}) \cup {Unallocated, Deleted}
      BY <1>1, <1>6, <1>8
    <2> QED BY <1>5, <2>1, <2>2
  <1>10. g.fill = Cardinality(Used(g))
    <2>1. f # Unallocated
      BY <1>2
    <2>2. Used(g) = Used(h)
      BY <1>2, <1>5, <1>6, <2>1 DEF Used
    <2> QED BY <1>1, <1>5, <2>2
  <1>11. g.inuse = Cardinality(E \ {f})
    <2>1. Cardinality(E \ {f}) = Cardinality(E) - 1
      BY <1>2, FS_RemoveElement
    <2> QED BY <1>1, <1>5, <2>1
  <1>12. \A q, r \in PlacesOf(g) :
            g.entries[q] \in E \ {f} /\ g.entries[q] = g.entries[r] => q = r
    BY <1>2, <1>5, <1>6, <1>7
  <1>13. ASSUME NEW e \in E \ {f} PROVE Reach(g, ks[e], e)
    <2>1. Reach(h, ks[e], e) /\ ks[e] \in Keys
      BY <1>1 DEF Sound
    <2>2. \A q \in PlacesOf(h) : h.entries[q] # Unallocated => g.entries[q] # Unallocated
      BY <1>2, <1>6
    <2>3. \A q \in PlacesOf(h) : h.entries[q] = e => g.entries[q] = e
      BY <1>6
    <2> QED BY <1>1, <1>5, <2>1, <2>2, <2>3, ReachKept
  <1>14. E \ {f} \subseteq Files
    BY <1>1
  <1>15. Sound(g, E \ {f}, ks)
    BY <1>1, <1>5, <1>9, <1>10, <1>11, <1>12, <1>13, <1>14 DEF Sound
  <1> QED BY <1>15 DEF g

\* hash_remove finds the stream, where its hint says or by a search.
LEMMA RemovedSound ==
    ASSUME NEW E, Sound(ht, E, key), NEW f \in E, hint \in [Files -> Nat]
    PROVE  PlaceOf(ht, f) # -1 /\ Sound(Removed(ht, f), E \ {f}, key)
  <1>1. ht.size \in Range(Sizes) /\ E \subseteq Files /\ key \in [Files -> Keys]
    BY DEF Sound
  <1>2. key[f] \in Keys /\ hint[f] \in Nat
    BY <1>1
  <1>3. CASE hint[f] < ht.size /\ ht.entries[hint[f]] = f
    <2>1. PlaceOf(ht, f) = hint[f]
      BY <1>3 DEF PlaceOf
    <2>2. Removed(ht, f) = [ht EXCEPT !.inuse = @ - 1, !.entries[hint[f]] = Deleted]
      BY <1>3, <2>1 DEF Removed
    <2>3. hint[f] \in PlacesOf(ht)
      BY <1>1, <1>2, <1>3, PlacesAre DEF PlacesOf
    <2>4. Sound([ht EXCEPT !.inuse = @ - 1, !.entries[hint[f]] = Deleted], E \ {f}, key)
      BY <1>3, <2>3, DroppedSound
    <2> QED BY <1>2, <2>1, <2>2, <2>4
  <1>4. CASE ~(hint[f] < ht.size /\ ht.entries[hint[f]] = f)
    <2> DEFINE k == key[f]  g == Moved(ht, k, {f})  p == MovedTo(ht, k, {f})
    <2>1. Found(ht, k, {f})
      BY HeldIsFound
    <2>2. /\ Sound(g, E, key) /\ ht.entries[FoundAt(ht, k, {f})] \in {f}
          /\ p \in PlacesOf(g) /\ g.entries[p] = ht.entries[FoundAt(ht, k, {f})]
      BY <1>2, <2>1, MovedSound
    <2>3. PlaceOf(ht, f) = p
      BY <1>4, <2>1 DEF PlaceOf
    <2>4. Removed(ht, f) = [g EXCEPT !.inuse = @ - 1, !.entries[p] = Deleted]
      BY <1>4, <2>3 DEF Removed
    <2> HIDE DEF g, p
    <2>5. g.entries[p] = f
      BY <2>2
    <2>6. Sound([g EXCEPT !.inuse = @ - 1, !.entries[p] = Deleted], E \ {f}, key)
      BY <2>2, <2>5, DroppedSound
    <2>7. p # -1
      <3>1. g.size \in Range(Sizes)
        BY <2>2 DEF Sound
      <3>2. g.size \in Nat
        BY <3>1, SizeIs
      <3> QED BY <2>2, <3>2 DEF PlacesOf
    <2> QED BY <2>3, <2>4, <2>6, <2>7
  <1> QED BY <1>3, <1>4

-----------------------------------------------------------------------------
(* Growing and cleaning out                                                 *)

\* alloc_ht finds a size if one is more than it is asked for, and never shrinks.
LEMMA NewSizeIs ==
    ASSUME NEW n \in Nat, NEW old \in Range(Sizes), NEW s \in Range(Sizes), s > n
    PROVE  NewSize(n, old) \in Range(Sizes) /\ NewSize(n, old) > n
  <1>1. Range(Sizes) \subseteq Nat
    BY SizeIs
  <1>2. ASSUME NEW m \in Nat, m >= n, Roomy(m) # {}
        PROVE  Max({Min(Roomy(m)), old}) \in Range(Sizes) /\ Max({Min(Roomy(m)), old}) > n
    <2>1. Roomy(m) \subseteq Nat
      BY <1>1 DEF Roomy
    <2>2. Min(Roomy(m)) \in Roomy(m)
      BY <1>2, <2>1, MinIs
    <2> DEFINE a == Min(Roomy(m))
    <2> HIDE DEF a
    <2>3. a \in Range(Sizes) /\ a > m
      BY <2>2 DEF Roomy, a
    <2>4. a \in Nat /\ old \in Nat
      BY <1>1, <2>3
    <2> DEFINE x == Max({a, old})
    <2>5. x \in {a, old} /\ x >= a /\ x >= old
      BY <2>4, MaxIs
    <2> HIDE DEF x
    <2>6. x \in Range(Sizes) /\ x > n
      BY <1>2, <2>3, <2>4, <2>5
    <2> QED BY <2>6 DEF x, a
  <1>3. Roomy(n) # {}
    BY DEF Roomy
  <1>4. 4 * n \in Nat /\ 4 * n >= n /\ 2 * n \in Nat /\ 2 * n >= n /\ n >= n
    OBVIOUS
  <1> DEFINE fit == IF Roomy(4 * n) # {} THEN Roomy(4 * n)
                    ELSE IF Roomy(2 * n) # {} THEN Roomy(2 * n) ELSE Roomy(n)
  <1>5. fit # {} /\ Max({Min(fit), old}) \in Range(Sizes) /\ Max({Min(fit), old}) > n
    <2>1. CASE Roomy(4 * n) # {}
      BY <1>2, <1>4, <2>1
    <2>2. CASE Roomy(4 * n) = {} /\ Roomy(2 * n) # {}
      BY <1>2, <1>4, <2>2
    <2>3. CASE Roomy(4 * n) = {} /\ Roomy(2 * n) = {}
      BY <1>2, <1>3, <1>4, <2>3
    <2> QED BY <2>1, <2>2, <2>3
  <1>6. NewSize(n, old) = IF fit = {} THEN 0 ELSE Max({Min(fit), old})
    BY DEF NewSize
  <1> HIDE DEF fit
  <1> QED BY <1>5, <1>6

\* A new table is empty.
LEMMA BlankSound ==
    ASSUME NEW s \in Range(Sizes), NEW ks \in [Files -> Keys]
    PROVE  /\ Sound(Blank(s), {}, ks) /\ Blank(s).size = s
           /\ \A p \in PlacesOf(Blank(s)) : Blank(s).entries[p] # Deleted
  <1> DEFINE b == Blank(s)  entries == [p \in 0..s-1 |-> Unallocated]
  <1>1. s \in Nat /\ s > 1
    BY SizeIs
  <1>2. b = [size |-> s, max |-> ((s * 4) \div 5) - 2, fill |-> 0, inuse |-> 0, entries |-> entries]
    BY DEF Blank
  <1>3. ((s * 4) \div 5) - 2 \in Int /\ ((s * 4) \div 5) - 2 < s
    BY <1>1
  <1> HIDE DEF b, entries
  <1>4. b.size = s /\ b.max \in Int /\ b.max < s /\ b.fill = 0 /\ b.inuse = 0 /\ b.entries = entries
    BY <1>2, <1>3
  <1>5. Shaped(b)
    BY <1>2 DEF Shaped
  <1>6. PlacesOf(b) = 0..s-1 /\ \A p \in PlacesOf(b) : b.entries[p] = Unallocated
    BY <1>4 DEF PlacesOf, entries
  <1>7. b.entries \in [PlacesOf(b) -> {} \cup {Unallocated, Deleted}]
    BY <1>4, <1>6 DEF entries
  <1>8. Used(b) = {}
    BY <1>6 DEF Used
  <1>9. Cardinality({}) = 0
    BY FS_EmptySet
  <1>10. Sound(b, {}, ks)
    BY <1>4, <1>5, <1>7, <1>8, <1>9 DEF Sound
  <1>11. \A p \in PlacesOf(b) : b.entries[p] # Deleted
    BY <1>6, FileHashAssumption
  <1> QED BY <1>4, <1>10, <1>11 DEF b

\* The loop of rehash.
IsFilled(f, h, ks, n, m) ==
    f = [p \in 0..m |->
            IF p = 0 THEN Blank(n)
            ELSE LET e == h.entries[p - 1]
                 IN  IF e \in Files THEN Added(f[p - 1], e, ks[e]) ELSE f[p - 1]]

\* The tables that rehash makes on its way exist, one after the other.
LEMMA FillExists ==
    ASSUME NEW h, NEW ks, NEW n PROVE \A m \in Nat : \E f : IsFilled(f, h, ks, n, m)
  <1> DEFINE Next1(x, e) == IF e \in Files THEN Added(x, e, ks[e]) ELSE x
             T == {m \in Nat : \E f : IsFilled(f, h, ks, n, m)}
  <1>0. \A f, m : IsFilled(f, h, ks, n, m) <=>
                     f = [p \in 0..m |-> IF p = 0 THEN Blank(n) ELSE Next1(f[p - 1], h.entries[p - 1])]
    BY DEF IsFilled
  <1> HIDE DEF Next1
  <1>1. 0 \in T
    <2> DEFINE f == [p \in 0..0 |-> Blank(n)]
    <2>1. \A p \in 0..0 : p = 0
      OBVIOUS
    <2>2. f = [p \in 0..0 |-> IF p = 0 THEN Blank(n) ELSE Next1(f[p - 1], h.entries[p - 1])]
      BY <2>1
    <2> HIDE DEF f
    <2>3. IsFilled(f, h, ks, n, 0)
      BY <1>0, <2>2
    <2> QED BY <2>3
  <1>2. ASSUME NEW m \in Nat, m \in T PROVE m + 1 \in T
    <2>1. PICK f : IsFilled(f, h, ks, n, m)
      BY <1>2
    <2>2. f = [p \in 0..m |-> IF p = 0 THEN Blank(n) ELSE Next1(f[p - 1], h.entries[p - 1])]
      BY <1>0, <2>1
    <2> DEFINE g == [p \in 0..m+1 |-> IF p = m + 1 THEN Next1(f[m], h.entries[m]) ELSE f[p]]
    <2>3. ASSUME NEW p \in 0..m+1
          PROVE  g[p] = IF p = 0 THEN Blank(n) ELSE Next1(g[p - 1], h.entries[p - 1])
      <3>1. CASE p = 0
        <4>1. g[p] = f[0] /\ f[0] = Blank(n)
          BY <2>2, <3>1
        <4> QED BY <3>1, <4>1
      <3>2. CASE p = m + 1
        <4>1. g[p] = Next1(f[m], h.entries[m]) /\ p - 1 = m /\ m \in 0..m+1 /\ m # m + 1 /\ p # 0
          BY <3>2
        <4>2. g[m] = f[m]
          BY <4>1
        <4> QED BY <4>1, <4>2
      <3>3. CASE p # 0 /\ p # m + 1
        <4>1. p \in 0..m /\ p - 1 \in 0..m /\ p - 1 \in 0..m+1 /\ p - 1 # m + 1
          BY <3>3
        <4>2. g[p] = f[p] /\ g[p - 1] = f[p - 1]
          BY <3>3, <4>1
        <4>3. f[p] = Next1(f[p - 1], h.entries[p - 1])
          BY <2>2, <3>3, <4>1
        <4> QED BY <3>3, <4>2, <4>3
      <3> QED BY <3>1, <3>2, <3>3
    <2>4. g = [p \in 0..m+1 |-> g[p]]
      OBVIOUS
    <2> HIDE DEF g
    <2>5. g = [p \in 0..m+1 |-> IF p = 0 THEN Blank(n) ELSE Next1(g[p - 1], h.entries[p - 1])]
      BY <2>3, <2>4
    <2>6. IsFilled(g, h, ks, n, m + 1)
      BY <1>0, <2>5
    <2> QED BY <2>6
  <1> HIDE DEF T
  <1>3. \A m \in Nat : m \in T
    BY <1>1, <1>2, Counting
  <1> QED BY <1>3 DEF T

\* A table that is filled anew holds the same streams and no deleted places.
LEMMA FilledSound ==
    ASSUME NEW h, NEW E, NEW ks, Sound(h, E, ks), NEW n \in Range(Sizes), Cardinality(E) < n,
           NEW f, IsFilled(f, h, ks, n, h.size)
    PROVE  /\ Sound(f[h.size], E, ks) /\ f[h.size].size = n
           /\ \A p \in PlacesOf(f[h.size]) : f[h.size].entries[p] # Deleted
  <1> DEFINE Held(p) == {e \in E : \E q \in 0..p-1 : h.entries[q] = e}
             Tidy(t) == \A p \in PlacesOf(t) : t.entries[p] # Deleted
             Good(p) == Sound(f[p], Held(p), ks) /\ f[p].size = n /\ Tidy(f[p])
             T == {p \in Nat : p <= h.size => Good(p)}
  <1>1. /\ h.size \in Range(Sizes) /\ E \subseteq Files /\ ks \in [Files -> Keys]
        /\ h.entries \in [PlacesOf(h) -> E \cup {Unallocated, Deleted}]
        /\ h.size \in Nat /\ n \in Nat
    BY SizeIs DEF Sound
  <1>2. /\ f[0] = Blank(n)
        /\ \A p \in Nat : p + 1 <= h.size =>
              f[p + 1] = IF h.entries[p] \in Files
                         THEN Added(f[p], h.entries[p], ks[h.entries[p]]) ELSE f[p]
    <2> DEFINE Next1(x, e) == IF e \in Files THEN Added(x, e, ks[e]) ELSE x
    <2>1. f = [p \in 0..h.size |-> IF p = 0 THEN Blank(n) ELSE Next1(f[p - 1], h.entries[p - 1])]
      BY DEF IsFilled
    <2> HIDE DEF Next1
    <2>2. 0 \in 0..h.size
      BY <1>1
    <2>3. f[0] = Blank(n)
      BY <2>1, <2>2
    <2>4. ASSUME NEW p \in Nat, p + 1 <= h.size PROVE f[p + 1] = Next1(f[p], h.entries[p])
      <3>1. p + 1 \in 0..h.size /\ p + 1 # 0 /\ (p + 1) - 1 = p
        BY <1>1, <2>4
      <3> QED BY <2>1, <3>1
    <2> QED BY <2>3, <2>4 DEF Next1
  <1>3. 0 \in T
    <2>1. Held(0) = {}
      OBVIOUS
    <2> HIDE DEF Held
    <2>2. Good(0)
      BY <1>1, <1>2, <2>1, BlankSound
    <2> HIDE DEF Good
    <2> QED BY <2>2
  <1> HIDE DEF T
  <1>4. ASSUME NEW p \in Nat, p \in T PROVE p + 1 \in T
    <2> HIDE DEF Good
    <2> SUFFICES ASSUME p + 1 <= h.size PROVE Good(p + 1)
      BY DEF T
    <2>0. p <= h.size
      BY <1>1
    <2>1. Good(p) /\ p \in PlacesOf(h)
      BY <1>1, <1>4, <2>0 DEF PlacesOf, T
    <2> USE DEF Good
    <2> DEFINE e == h.entries[p]  t == f[p]
    <2>2. e \in E \cup {Unallocated, Deleted}
      BY <1>1, <2>1
    <2>3. (e \in Files <=> e \in E)
      BY <1>1, <2>2, FileHashAssumption
    <2>4. \A q \in 0..(p + 1)-1 : q \in 0..p-1 \/ q = p
      BY <1>1
    <2>5. \A q \in 0..p-1 : q \in 0..(p + 1)-1
      BY <1>1
    <2>6. p \in 0..(p + 1)-1
      BY <1>1
    <2>7. Held(p + 1) = IF e \in E THEN Held(p) \cup {e} ELSE Held(p)
      BY <2>4, <2>5, <2>6
    <2>8. CASE e \in E
      <3>1. f[p + 1] = Added(t, e, ks[e])
        BY <1>2, <2>3, <2>8
      <3>2. e \notin Held(p)
        <4> SUFFICES ASSUME NEW q \in 0..p-1, h.entries[q] = e PROVE FALSE
          OBVIOUS
        <4>1. q \in PlacesOf(h) /\ q # p
          BY <1>1, <2>1 DEF PlacesOf
        <4> QED BY <2>1, <2>8, <4>1 DEF Sound
      <3>3. e \in Files /\ ks[e] \in Keys
        BY <1>1, <2>8
      <3> DEFINE H == Held(p)
      <3>4. Sound(t, H, ks) /\ t.size = n /\ Tidy(t) /\ H \subseteq E
        BY <2>1
      <3>5. Held(p + 1) = H \cup {e}
        BY <2>7, <2>8
      <3> HIDE DEF H, Held
      <3>6. Cardinality(H) < t.size
        <4>1. IsFiniteSet(E) /\ Cardinality(E) \in Nat
          BY <1>1, StreamsAreNot
        <4>2. Cardinality(H) <= Cardinality(E)
          BY <3>4, <4>1, FS_Subset
        <4>3. Cardinality(H) \in Nat
          BY <1>1, <3>4, StreamsAreNot
        <4> QED BY <1>1, <3>4, <4>1, <4>2, <4>3
      <3>7. Room(t, ks[e]) # {}
        BY <3>3, <3>4, <3>6, RoomExists
      <3> HIDE DEF t, e
      <3>8. /\ Sound(Added(t, e, ks[e]), H \cup {e}, ks) /\ Added(t, e, ks[e]).size = t.size
            /\ Tidy(t) => Tidy(Added(t, e, ks[e]))
        <4>1. e \notin H
          BY <3>2 DEF H
        <4> QED BY <3>3, <3>4, <3>7, <4>1, AddedSound
      <3> QED BY <3>1, <3>4, <3>5, <3>8
    <2>9. CASE e \notin E
      <3>1. f[p + 1] = t
        BY <1>2, <2>3, <2>9
      <3> HIDE DEF Held, Tidy
      <3> QED BY <2>1, <2>7, <2>9, <3>1
    <2> QED BY <2>8, <2>9
  <1>5. \A p \in Nat : p \in T
    <2> HIDE DEF T
    <2> QED BY <1>3, <1>4, Counting
  <1>6. Good(h.size)
    <2>1. h.size \in T
      <3> HIDE DEF T
      <3> QED BY <1>1, <1>5
    <2>2. h.size <= h.size
      BY <1>1
    <2> HIDE DEF Good
    <2> QED BY <2>1, <2>2 DEF T
  <1>7. Held(h.size) = E
    <2> SUFFICES ASSUME NEW e \in E PROVE \E q \in 0..h.size-1 : h.entries[q] = e
      OBVIOUS
    <2>1. Reach(h, ks[e], e) /\ ks[e] \in Keys
      BY <1>1 DEF Sound
    <2>2. PICK i \in Tries(h) : TriedAt(h, ks[e], i) = e
      BY <2>1 DEF Reach
    <2>3. i \in Nat
      BY <1>1 DEF Tries
    <2>4. Probe(h, ks[e], i) \in PlacesOf(h) /\ h.entries[Probe(h, ks[e], i)] = e
      BY <1>1, <2>1, <2>2, <2>3, TriedPlace
    <2> QED BY <2>4 DEF PlacesOf
  <1> HIDE DEF Held, T
  <1> QED BY <1>6, <1>7

\* Wherever hash_add is called there is a table with a place for one stream more:
\* the largest size is enough, and what is cleaned out is more than was asked for.
LEMMA ReadySound ==
    ASSUME NEW h, NEW E, NEW ks, Sound(h, E, ks), Cardinality(E) + 1 <= Cardinality(Files)
    PROVE  LET r == Ready(h, ks)
           IN Sound(r, E, ks) /\ r.fill # r.size /\ Cardinality(E) < r.size
  <1>1. /\ h.size \in Range(Sizes) /\ E \subseteq Files /\ ks \in [Files -> Keys]
        /\ h.max \in Int /\ h.max < h.size
        /\ h.fill = Cardinality(Used(h)) /\ h.inuse = Cardinality(E)
    BY DEF Sound
  <1>2. /\ h.size \in Nat /\ h.fill \in Nat /\ h.fill <= h.size
        /\ Cardinality(E) \in Nat /\ Cardinality(Files) \in Nat /\ Cardinality(E) <= h.fill
    BY <1>1, PlacesAre, StreamsAreNot, InuseAtMostFill
  <1>3. CASE ~(h.fill >= h.max)
    <2>1. Ready(h, ks) = h
      BY <1>3 DEF Ready
    <2> QED BY <1>1, <1>2, <1>3, <2>1
  <1>4. CASE h.fill >= h.max
    <2> DEFINE c == Cardinality(E)  m == ((h.inuse + 1) * 4 + h.fill) \div 5
               n == NewSize(m, h.size)
               f == CHOOSE f : IsFilled(f, h, ks, n, h.size)
    <2>1. PICK s \in Range(Sizes) : Cardinality(Files) < s /\ s >= h.size
      <3>1. PICK s \in Range(Sizes) : Cardinality(Files) < s
        BY SizesSuffice
      <3>2. s \in Nat
        BY SizeIs
      <3>3. CASE s >= h.size
        BY <3>1, <3>3
      <3>4. CASE ~(s >= h.size)
        <4>1. Cardinality(Files) < h.size /\ h.size >= h.size
          BY <1>2, <3>1, <3>2, <3>4
        <4> QED BY <1>1, <4>1
      <3> QED BY <3>3, <3>4
    <2>2. m \in Nat /\ m >= c /\ s > m
      <3>1. s \in Nat
        BY SizeIs
      <3> DEFINE x == (c + 1) * 4 + h.fill
      <3>2. x \in Nat /\ x >= 5 * c /\ x < 5 * s /\ m = x \div 5
        BY <1>1, <1>2, <2>1, <3>1
      <3> HIDE DEF x, m, c
      <3>3. c \in Nat
        BY <1>2 DEF c
      <3> QED BY <3>1, <3>2, <3>3
    <2>3. n \in Range(Sizes) /\ n > m
      <3> HIDE DEF m
      <3> QED BY <1>1, <2>2, NewSizeIs
    <2>4. n \in Nat /\ n > 1
      BY <2>3, SizeIs
    <2>5. Ready(h, ks) = f[h.size]
      <3>1. Ready(h, ks) = Rehashed(h, ks)
        BY <1>4 DEF Ready
      <3>2. n # 0
        <4> HIDE DEF n
        <4> QED BY <2>4
      <3>3. Rehashed(h, ks) = f[h.size]
        BY <3>2 DEF Rehashed, IsFilled
      <3> QED BY <3>1, <3>3
    <2> HIDE DEF m, n
    <2>6. IsFilled(f, h, ks, n, h.size)
      <3>1. \E g : IsFilled(g, h, ks, n, h.size)
        BY <1>2, FillExists
      <3> QED BY <3>1
    <2> HIDE DEF f
    <2>7. c < n
      <3> HIDE DEF c
      <3>1. c \in Nat
        BY <1>2 DEF c
      <3> QED BY <2>2, <2>3, <2>4, <3>1
    <2> DEFINE r == f[h.size]
    <2>8. /\ Sound(r, E, ks) /\ r.size = n
          /\ \A p \in PlacesOf(r) : r.entries[p] # Deleted
      BY <2>3, <2>6, <2>7, FilledSound
    <2> HIDE DEF r
    <2>9. r.fill # r.size
      <3> SUFFICES ASSUME r.fill = r.size PROVE FALSE
        OBVIOUS
      <3>1. /\ r.fill = Cardinality(Used(r)) /\ r.size \in Range(Sizes)
            /\ r.entries \in [PlacesOf(r) -> E \cup {Unallocated, Deleted}]
        BY <2>8 DEF Sound
      <3>2. Used(r) = PlacesOf(r)
        BY <3>1, PlacesAre
      <3>3. \A p \in PlacesOf(r) : r.entries[p] \in E
        BY <2>8, <3>1, <3>2 DEF Used
      <3>4. r.size <= Cardinality(E)
        BY <2>8, <3>3, AllHeld
      <3> QED BY <1>2, <2>4, <2>7, <2>8, <3>4
    <2> QED BY <2>5, <2>7, <2>8, <2>9 DEF r
  <1> QED BY <1>3, <1>4

\* hash_add puts the stream into the table.
LEMMA EnterIs ==
    ASSUME NEW h, NEW E, NEW ks, Sound(h, E, ks), NEW f \in Files, f \notin E, Enter(h, f, ks)
    PROVE  /\ key' = ks /\ ended' = ended /\ Sound(ht', E \cup {f}, ks)
           /\ \E p \in Nat : hint' = [hint EXCEPT ![f] = p]
  <1> DEFINE r == Ready(h, ks)  k == ks[f]
  <1>1. E \subseteq Files /\ k \in Keys
    BY DEF Sound
  <1>2. Cardinality(E) + 1 <= Cardinality(Files)
    <2>1. IsFiniteSet(E)
      BY <1>1, StreamsAreNot
    <2>2. Cardinality(E \cup {f}) = Cardinality(E) + 1
      BY <2>1, FS_AddElement
    <2>3. E \cup {f} \subseteq Files
      BY <1>1
    <2>4. Cardinality(E \cup {f}) <= Cardinality(Files)
      BY <2>3, StreamsAreNot
    <2> QED BY <2>2, <2>4
  <1>3. Sound(r, E, ks) /\ r.fill # r.size /\ Cardinality(E) < r.size
    BY <1>2, ReadySound
  <1>4. /\ key' = ks
        /\ IF r.fill = r.size THEN ht' = r /\ hint' = hint /\ ended' = ended
           ELSE IF Room(r, k) = {} THEN ht' = r /\ hint' = hint /\ ended' = "hash_add"
           ELSE /\ ht' = Added(r, f, k)
                /\ hint' = [hint EXCEPT ![f] = PlaceFor(r, k)]
                /\ ended' = ended
    BY DEF Enter
  <1> HIDE DEF r
  <1>5. Room(r, k) # {}
    BY <1>1, <1>3, RoomExists
  <1>6. ht' = Added(r, f, k) /\ hint' = [hint EXCEPT ![f] = PlaceFor(r, k)] /\ ended' = ended
    BY <1>3, <1>4, <1>5
  <1>7. Sound(Added(r, f, k), E \cup {f}, ks)
    BY <1>3, <1>5, AddedSound
  <1>8. PlaceFor(r, k) \in Nat
    <2>1. r.size \in Range(Sizes)
      BY <1>3 DEF Sound
    <2>2. PlaceFor(r, k) \in PlacesOf(r) /\ r.size \in Nat
      BY <1>1, <1>5, <2>1, PlaceIs, SizeIs
    <2> QED BY <2>2 DEF PlacesOf
  <1> QED BY <1>4, <1>6, <1>7, <1>8

-----------------------------------------------------------------------------
(* The program                                                              *)

\* The table holds the streams that are open, with the keys they have.
HashInv ==
    /\ ended = "no"
    /\ Sound(ht, Streams, key)
    /\ hint \in [Files -> Nat] /\ refs \in [Files -> 0..MaxRefs]
    /\ OneStream

\* When the process starts the table is empty.
LEMMA InitHash == Init => HashInv
  <1> SUFFICES ASSUME Init PROVE HashInv
    OBVIOUS
  <1>1. ht = Blank(Sizes[1]) /\ ended = "no"
        /\ key = [f \in Files |-> NoCluster] /\ hint = [f \in Files |-> 0]
        /\ refs = [f \in Files |-> 0]
    BY DEF Init
  <1>2. Sizes[1] \in Range(Sizes)
    <2>1. Sizes \in Seq({n \in Nat : n > 1}) /\ Sizes # <<>>
      BY FileHashAssumption
    <2>2. 1 \in DOMAIN Sizes
      BY <2>1
    <2> QED BY <2>2 DEF Range
  <1>3. Streams = {}
    BY <1>1 DEF Streams
  <1>4. key \in [Files -> Keys]
    BY <1>1 DEF Keys
  <1>5. Sound(ht, Streams, key)
    BY <1>1, <1>2, <1>3, <1>4, BlankSound
  <1>6. hint \in [Files -> Nat] /\ refs \in [Files -> 0..MaxRefs]
    BY <1>1, FileHashAssumption
  <1> QED BY <1>1, <1>3, <1>5, <1>6 DEF HashInv, OneStream

\* A stream opened for a key that none has, or for a new file.
LEMMA NewStreamKeeps ==
    ASSUME HashInv, NEW k \in Keys, k = NoCluster \/ OfKey(k) = {}, NewStream(k)
    PROVE  HashInv'
  <1>1. PICK f \in Files : /\ refs[f] = 0 /\ Enter(ht, f, [key EXCEPT ![f] = k])
                           /\ refs' = [refs EXCEPT ![f] = 1]
    BY DEF NewStream
  <1> DEFINE ks == [key EXCEPT ![f] = k]
  <1>2. /\ Sound(ht, Streams, key) /\ key \in [Files -> Keys] /\ refs \in [Files -> 0..MaxRefs]
        /\ hint \in [Files -> Nat] /\ ended = "no"
    BY DEF HashInv, Sound
  <1>3. f \notin Streams /\ ks \in [Files -> Keys] /\ ks[f] = k
        /\ \A e \in Files : e # f => ks[e] = key[e]
    BY <1>1, <1>2 DEF Streams
  <1>4. \A e \in Streams : e \in Files /\ e # f
    BY <1>3 DEF Streams
  <1> HIDE DEF ks
  <1>5. Sound(ht, Streams, ks)
    BY <1>2, <1>3, <1>4, KeysKept
  <1>6. Enter(ht, f, ks)
    BY <1>1 DEF ks
  <1>7. /\ key' = ks /\ ended' = ended /\ Sound(ht', Streams \cup {f}, ks)
        /\ \E p \in Nat : hint' = [hint EXCEPT ![f] = p]
    BY <1>3, <1>5, <1>6, EnterIs
  <1>8. Streams' = Streams \cup {f}
    BY <1>1, <1>2 DEF Streams
  <1>9. hint' \in [Files -> Nat] /\ refs' \in [Files -> 0..MaxRefs]
    BY <1>1, <1>2, <1>7, FileHashAssumption
  <1>10. OneStream'
    <2> SUFFICES ASSUME NEW e \in Streams', NEW g \in Streams', e # g, ks[e] = ks[g]
                 PROVE  ks[e] = NoCluster
      BY <1>7 DEF OneStream
    <2>1. ASSUME NEW x \in Streams, ks[x] = k PROVE k = NoCluster
      <3>1. x \in OfKey(k) \/ k # key[x]
        BY DEF OfKey
      <3> QED BY <1>3, <1>4, <2>1, <3>1
    <2>2. CASE e = f
      BY <1>3, <1>8, <2>1, <2>2
    <2>3. CASE g = f
      BY <1>3, <1>8, <2>1, <2>3
    <2>4. CASE e # f /\ g # f
      <3>1. e \in Streams /\ g \in Streams /\ key[e] = key[g] /\ ks[e] = key[e]
        BY <1>3, <1>4, <1>8, <2>4
      <3> QED BY <3>1 DEF HashInv, OneStream
    <2> QED BY <2>2, <2>3, <2>4
  <1> QED BY <1>2, <1>7, <1>8, <1>9, <1>10 DEF HashInv

\* A file or directory that is open already is shared, another one gets a stream.
LEMMA OpenKeeps ==
    ASSUME HashInv, NEW k \in Keys, Open(k)
    PROVE  HashInv'
  <1> DEFINE M == OfKey(k)
  <1>1. /\ Sound(ht, Streams, key) /\ refs \in [Files -> 0..MaxRefs]
        /\ hint \in [Files -> Nat] /\ ended = "no" /\ OneStream
    BY DEF HashInv
  <1>2. M \subseteq Streams /\ \A e \in M : key[e] = k
    BY DEF OfKey
  <1>3. CASE Found(ht, k, M)
    <2>1. PICK f : /\ f = ht.entries[FoundAt(ht, k, M)]
                   /\ refs[f] < MaxRefs /\ refs' = [refs EXCEPT ![f] = @ + 1]
      BY <1>3 DEF Open
    <2>2. ht' = Moved(ht, k, M) /\ UNCHANGED <<key, hint, ended>>
      BY <1>3 DEF Open
    <2> HIDE DEF M
    <2>3. Sound(Moved(ht, k, M), Streams, key) /\ f \in M
      BY <1>1, <1>2, <1>3, <2>1, MovedSound
    <2>4. f \in Files /\ refs[f] > 0
      BY <1>2, <2>3 DEF Streams
    <2>5. refs[f] \in Nat /\ MaxRefs \in Nat
      BY <1>1, <2>4, FileHashAssumption
    <2>6. refs' \in [Files -> 0..MaxRefs]
      BY <1>1, <2>1, <2>4, <2>5
    <2>7. \A e \in Files : refs'[e] > 0 <=> refs[e] > 0
      BY <1>1, <2>1, <2>4, <2>5
    <2>8. Streams' = Streams
      BY <2>7 DEF Streams
    <2> QED BY <1>1, <2>2, <2>3, <2>6, <2>8 DEF HashInv, OneStream
  <1>4. CASE ~Found(ht, k, M)
    <2>1. NewStream(k)
      BY <1>4 DEF Open
    <2>2. M = {}
      <3> SUFFICES ASSUME NEW e \in M PROVE FALSE
        OBVIOUS
      <3> HIDE DEF M
      <3>1. Found(ht, key[e], M)
        BY <1>1, <1>2, HeldIsFound
      <3> QED BY <1>2, <1>4, <3>1
    <2> QED BY <2>1, <2>2, NewStreamKeeps
  <1> QED BY <1>3, <1>4

\* A new file that gets its first cluster changes its place in the table.
LEMMA FirstClusterKeeps ==
    ASSUME HashInv, NEW f \in Files, NEW c \in Clusters, FirstCluster(f, c)
    PROVE  HashInv'
  <1> DEFINE ks == [key EXCEPT ![f] = c]  E == Streams \ {f}
  <1>1. /\ Sound(ht, Streams, key) /\ key \in [Files -> Keys] /\ refs \in [Files -> 0..MaxRefs]
        /\ hint \in [Files -> Nat] /\ ended = "no" /\ OneStream
    BY DEF HashInv, Sound
  <1>2. f \in Streams /\ OfKey(c) = {} /\ refs' = refs
    BY DEF FirstCluster
  <1>3. PlaceOf(ht, f) # -1 /\ Sound(Removed(ht, f), E, key)
    BY <1>1, <1>2, RemovedSound
  <1>4. Enter(Removed(ht, f), f, ks)
    BY <1>3 DEF FirstCluster
  <1>5. c \in Keys
    BY DEF Keys
  <1>6. ks \in [Files -> Keys] /\ ks[f] = c /\ \A e \in Files : e # f => ks[e] = key[e]
    BY <1>1, <1>5
  <1>7. \A e \in Streams : e \in Files
    BY DEF Streams
  <1> HIDE DEF ks
  <1>8. Sound(Removed(ht, f), E, ks)
    <2>1. \A e \in E : ks[e] = key[e]
      BY <1>6, <1>7
    <2> QED BY <1>3, <1>6, <2>1, KeysKept
  <1>9. E \cup {f} = Streams /\ f \notin E
    BY <1>2
  <1> HIDE DEF E
  <1>10. /\ key' = ks /\ ended' = ended /\ Sound(ht', E \cup {f}, ks)
         /\ \E p \in Nat : hint' = [hint EXCEPT ![f] = p]
    BY <1>4, <1>8, <1>9, EnterIs
  <1>11. Streams' = Streams
    BY <1>2 DEF Streams
  <1>12. hint' \in [Files -> Nat]
    BY <1>1, <1>10
  <1>13. OneStream'
    <2> SUFFICES ASSUME NEW e \in Streams, NEW g \in Streams, e # g, ks[e] = ks[g]
                 PROVE  ks[e] = NoCluster
      BY <1>10, <1>11 DEF OneStream
    <2>1. ASSUME NEW x \in Streams PROVE key[x] # c
      BY <1>2, <2>1 DEF OfKey
    <2>2. CASE e = f \/ g = f
      BY <1>6, <1>7, <2>1, <2>2
    <2>3. CASE e # f /\ g # f
      BY <1>1, <1>6, <1>7, <2>3 DEF OneStream
    <2> QED BY <2>2, <2>3
  <1> QED BY <1>1, <1>2, <1>9, <1>10, <1>11, <1>12, <1>13 DEF HashInv

\* The last reference takes the stream out of the table.
LEMMA CloseKeeps ==
    ASSUME HashInv, NEW f \in Files, Close(f)
    PROVE  HashInv'
  <1>1. /\ Sound(ht, Streams, key) /\ key \in [Files -> Keys] /\ refs \in [Files -> 0..MaxRefs]
        /\ hint \in [Files -> Nat] /\ ended = "no" /\ OneStream
    BY DEF HashInv, Sound
  <1>2. f \in Streams /\ refs' = [refs EXCEPT ![f] = @ - 1]
    BY DEF Close
  <1>3. refs[f] \in 1..MaxRefs /\ MaxRefs \in Nat
    BY <1>1, <1>2, FileHashAssumption DEF Streams
  <1>4. refs' \in [Files -> 0..MaxRefs] /\ refs'[f] = refs[f] - 1
        /\ \A e \in Files : e # f => refs'[e] = refs[e]
    BY <1>1, <1>2, <1>3
  <1>5. CASE refs[f] > 1
    <2>1. UNCHANGED <<ht, key, hint, ended>>
      BY <1>5 DEF Close
    <2>2. \A e \in Files : refs'[e] > 0 <=> refs[e] > 0
      BY <1>3, <1>4, <1>5
    <2>3. Streams' = Streams
      BY <2>2 DEF Streams
    <2> QED BY <1>1, <1>4, <2>1, <2>3 DEF HashInv, OneStream
  <1>6. CASE ~(refs[f] > 1)
    <2> DEFINE ks == [key EXCEPT ![f] = NoCluster]  E == Streams \ {f}
    <2>1. PlaceOf(ht, f) # -1 /\ Sound(Removed(ht, f), E, key)
      BY <1>1, <1>2, RemovedSound
    <2>2. /\ ht' = Removed(ht, f) /\ key' = ks /\ hint' = [hint EXCEPT ![f] = 0]
          /\ ended' = ended
      BY <1>6, <2>1 DEF Close
    <2>3. Streams' = E
      <3>1. refs'[f] = 0
        BY <1>3, <1>4, <1>6
      <3>2. ~(refs'[f] > 0)
        BY <3>1
      <3> QED BY <1>4, <3>2 DEF Streams
    <2>4. NoCluster \in Keys
      BY DEF Keys
    <2>5. ks \in [Files -> Keys] /\ \A e \in E : e \in Streams /\ ks[e] = key[e]
      BY <1>1, <2>4 DEF Streams
    <2> HIDE DEF ks, E
    <2>6. Sound(Removed(ht, f), E, ks)
      BY <2>1, <2>5, KeysKept
    <2>7. OneStream'
      BY <1>1, <2>2, <2>3, <2>5 DEF OneStream
    <2>8. hint' \in [Files -> Nat]
      BY <1>1, <2>2
    <2> QED BY <1>1, <1>4, <2>2, <2>3, <2>6, <2>7, <2>8 DEF HashInv
  <1> QED BY <1>5, <1>6

\* Every step keeps the invariant.
LEMMA NextHash == HashInv /\ [Next]_vars => HashInv'
  <1> SUFFICES ASSUME HashInv, [Next]_vars PROVE HashInv'
    OBVIOUS
  <1>1. ASSUME NEW k \in Keys, Open(k) PROVE HashInv'
    BY <1>1, OpenKeeps
  <1>2. CASE OpenNew
    <2>1. NoCluster \in Keys /\ NewStream(NoCluster)
      BY <1>2 DEF OpenNew, Keys
    <2> QED BY <2>1, NewStreamKeeps
  <1>3. ASSUME NEW f \in Files, NEW c \in Clusters, FirstCluster(f, c) PROVE HashInv'
    BY <1>3, FirstClusterKeeps
  <1>4. ASSUME NEW f \in Files, Close(f) PROVE HashInv'
    BY <1>4, CloseKeeps
  <1>5. CASE UNCHANGED vars
    BY <1>5 DEF vars, HashInv, Streams, OneStream
  <1> QED BY <1>1, <1>2, <1>3, <1>4, <1>5 DEF Next

\* A file or directory never has two streams, whoever opens it and whenever.
THEOREM OneStreamAlways == Spec => []OneStream
  <1>1. HashInv => OneStream
    BY DEF HashInv
  <1> QED BY <1>1, InitHash, NextHash, PTL DEF Spec

\* hash_remove always finds what it is to remove, and hash_add a free place.
THEOREM NeverStuckAlways == Spec => []NeverStuck
  <1>1. HashInv => NeverStuck
    BY DEF HashInv, NeverStuck
  <1> QED BY <1>1, InitHash, NextHash, PTL DEF Spec

\* The table holds each open stream once, where a search for it gets, and counts
\* its streams and its used places right.
THEOREM TableExactAlways == Spec => []TableExact
  <1>1. HashInv => TableExact
    <2> SUFFICES ASSUME HashInv PROVE TableExact
      OBVIOUS
    <2>1. /\ Sound(ht, Streams, key) /\ refs \in [Files -> 0..MaxRefs]
          /\ hint \in [Files -> Nat] /\ ended = "no"
      BY DEF HashInv
    <2>2. /\ ht.size \in Range(Sizes) /\ Streams \subseteq Files /\ key \in [Files -> Keys]
          /\ ht.entries \in [PlacesOf(ht) -> Streams \cup {Unallocated, Deleted}]
          /\ ht.fill = Cardinality(Used(ht)) /\ ht.inuse = Cardinality(Streams)
          /\ \A f \in Streams : Reach(ht, key[f], f)
      BY <2>1 DEF Sound
    <2>3. Places = PlacesOf(ht)
      BY DEF Places, PlacesOf
    <2>4. TypeOK
      <3>1. /\ ht.size \in Nat /\ ht.fill \in Nat /\ ht.fill <= ht.size
            /\ ht.inuse \in Nat /\ ht.inuse <= ht.fill
        BY <2>1, <2>2, PlacesAre, StreamsAreNot, InuseAtMostFill
      <3>2. ht.entries \in [Places -> Files \cup {Unallocated, Deleted}]
        BY <2>2, <2>3
      <3> QED BY <2>1, <2>2, <3>1, <3>2 DEF TypeOK
    <2>5. ASSUME NEW f \in Files
          PROVE  Cardinality({p \in Places : ht.entries[p] = f}) = IF f \in Streams THEN 1 ELSE 0
      <3>1. CASE f \in Streams
        <4>1. PICK i \in Tries(ht) : TriedAt(ht, key[f], i) = f
          BY <2>2, <3>1 DEF Reach
        <4>2. i \in Nat /\ key[f] \in Keys
          BY <2>2, PlacesAre DEF Tries
        <4> DEFINE q == Probe(ht, key[f], i)
        <4>3. q \in PlacesOf(ht) /\ ht.entries[q] = f
          BY <2>2, <4>1, <4>2, TriedPlace
        <4> HIDE DEF q
        <4>4. \A p \in PlacesOf(ht) : ht.entries[p] = f => p = q
          BY <2>1, <3>1, <4>3 DEF Sound
        <4>5. {p \in Places : ht.entries[p] = f} = {q}
          BY <2>3, <4>3, <4>4
        <4> QED BY <3>1, <4>5, FS_Singleton
      <3>2. CASE f \notin Streams
        <4>1. \A p \in Places : ht.entries[p] # f
          BY <2>2, <2>3, <3>2, FileHashAssumption
        <4>2. {p \in Places : ht.entries[p] = f} = {}
          BY <4>1
        <4> QED BY <3>2, <4>2, FS_EmptySet
      <3> QED BY <3>1, <3>2
    <2>6. CountersRight
      BY <2>2, <2>3, <2>5 DEF CountersRight, Used
    <2>7. OnPath
      BY <2>2 DEF OnPath, Reach
    <2> QED BY <2>4, <2>6, <2>7 DEF TableExact
  <1> QED BY <1>1, InitHash, NextHash, PTL DEF Spec

-----------------------------------------------------------------------------
(* The tree and the loops of a walk                                         *)

Dirs == {Root} \cup Nodes
LiveDir(nd, d) == d = Root \/ (d \in Nodes /\ nd[d].kind = "dir")

\* Where node n is.
Place(t, d, i, n) == d \in Dirs /\ i \in Slots(t, d) /\ t[d][i].id = n

\* With a directory of S, S has all that is in it.
Closed(t, S) == \A d \in S : \A i \in Slots(t, d) : t[d][i].id \in S
Under(t, a, b) == \A S \in SUBSET Dirs : a \in S /\ Closed(t, S) => b \in S

Listed(t, nd) == \A d \in Dirs : \A i \in Slots(t, d) : t[d][i].id \in Live(nd)
Placed(t, nd) == \A n \in Live(nd) : \E d \in Dirs, i \in Nat : Place(t, d, i, n)
Once(t) == \A n \in Nodes, d, e \in Dirs, i, j \in Nat : Place(t, d, i, n) /\ Place(t, e, j, n) => d = e /\ i = j
Reached(t, nd) == \A n \in Live(nd) : Under(t, Root, n)
NamesOnce(t) == \A d \in Dirs : \A i, j \in Slots(t, d) : t[d][i].name = t[d][j].name => i = j
UpRight(t, nd) ==
    \A n \in Live(nd), d \in Dirs, i \in Nat : Place(t, d, i, n) /\ nd[n].kind = "dir" => nd[n].up.low = d
TreeRight(t, nd) ==
    /\ Typed(t, nd) /\ Listed(t, nd) /\ Placed(t, nd) /\ Once(t) /\ Reached(t, nd)
    /\ NamesOnce(t) /\ UpRight(t, nd)

Results == {"got", "err", "stop"}

\* What the commands keep of a walk.
Frames ==
    [fn : {"path", "loop", "del", "host"}, dir : Dirs, comps : Path, pos : Nat, ret : SUBSET Results,
     to : Dirs \cup {None}, at : [dir : Dirs, slot : Nat, id : Dirs], sum : Nat,
     out : Path, path : Path, left : Path]
Jobs ==
    [arg : Nat, side : {"dos", "host"}, target : Dirs \cup {None}, out : Path, name : Name,
     held : Nodes \cup {None}, ret : SUBSET Results, printed : SUBSET (Dirs \X Nat),
     phase : {"idle", "running", "done", "aborted", "beyond"}]

Deleting(c) == c.op \in Deletes

\* What is known of each active loop.
Target(c, side, nd, f) ==
    /\ f.to # None => LiveDir(nd, f.to) /\ ~Deleting(c)
    /\ c.op = "mcopy" /\ side = "dos" => f.to # None
Walks(c, nd, f) ==
    f.fn \in {"path", "loop"} =>
        /\ f.pos = 1 \/ ~Deleting(c) => LiveDir(nd, f.dir)
        /\ Special(f) => f.pos = 1
        /\ f.fn = "loop" => ~Deleting(c)
Deletion(c, t, nd, f) ==
    f.fn = "del" =>
        /\ Deleting(c) /\ LiveDir(nd, f.dir) /\ f.comps = <<Star>> /\ f.at.id = f.dir /\ "stop" \notin f.ret
        /\ f.dir # Root => Place(t, f.at.dir, f.at.slot, f.dir)
FrameRight(c, side, t, nd, f) ==
    /\ f.pos >= 1 /\ Target(c, side, nd, f) /\ Walks(c, nd, f) /\ Deletion(c, t, nd, f)
    /\ f.fn = "host" => c.op = "mcopy"

\* The loops that delete are the innermost ones, each below the one that called
\* it; what they have passed without an error is gone, but for what is being
\* deleted.
Chain(t, s) ==
    \A k, l \in DOMAIN s : k < l /\ s[l].fn = "del" =>
        s[k].fn = "del" /\ s[k].dir # s[l].dir /\ Under(t, s[l].dir, s[k].dir)
Passed(t, s) ==
    \A k \in DOMAIN s : s[k].fn = "del" /\ "err" \notin s[k].ret =>
        \A i \in Slots(t, s[k].dir) : i >= s[k].pos \/ (k > 1 /\ Place(t, s[k].dir, i, s[k - 1].dir))
Returned(c, s) ==
    \A k \in DOMAIN s : Deleting(c) /\ k > 1 => s[k].pos > 1
StackRight(c, side, t, nd, s) ==
    /\ s \in Seq(Frames)
    /\ s # <<>> => s[Len(s)].fn \in {"path", "host"}
    /\ \A k \in DOMAIN s : FrameRight(c, side, t, nd, s[k])
    /\ Chain(t, s) /\ Passed(t, s) /\ Returned(c, s)

JobRight(c, j, nd, s) ==
    /\ j \in Jobs
    /\ j.target # None => LiveDir(nd, j.target)
    /\ s # <<>> =>
          /\ j.phase = "running" /\ c \in Commands
          /\ Deleting(c) => j.target = None
          /\ c.op = "mcopy" /\ j.side = "dos" => j.target # None
          /\ j.held # None => c.op = "mcopy"

WalkInv ==
    /\ TreeRight(tree, node) /\ HostTyped(host) /\ cwd \in Path
    /\ JobRight(cmd, job, node, stack) /\ StackRight(cmd, job.side, tree, node, stack)

-----------------------------------------------------------------------------
(* Slots                                                                    *)

\* What the assumption on the clusters gives.
LEMMA NodesAre ==
    /\ IsFiniteSet(Nodes) /\ Cardinality(Nodes) \in Nat /\ Nodes \subseteq Nat
    /\ Root \notin Nodes /\ None \notin Nodes /\ None \notin Dirs /\ Root \in Dirs /\ Nodes \subseteq Dirs
  <1>1. IsFiniteSet(Nodes) /\ Nodes = 1 .. Cardinality(Nodes)
    BY NodesAssumption
  <1>2. Cardinality(Nodes) \in Nat
    BY <1>1, FS_CardinalityType
  <1> QED BY <1>1, <1>2 DEF Root, None, Dirs

TreeType == [Dirs -> Seq(SlotType)]

\* The names the program itself uses are names.
LEMMA NamesAre == NoName \in Name /\ Star \in Name /\ Up \in Name /\ Dot \in Name
  BY NamesAssumption DEF NoName, Star, Up, Dot, Name

\* A free slot is a slot.
LEMMA FreeIs == Free \in SlotType /\ Free.id = None
  <1> DEFINE nm == NoName
  <1>1. nm \in Name
    BY NamesAre
  <1>2. Free = [name |-> nm, id |-> None, ro |-> FALSE]
    BY DEF Free, Entry
  <1> HIDE DEF nm
  <1> QED BY <1>1, <1>2 DEF SlotType

\* The slots in use of a directory, and what they hold.
LEMMA SlotsAre ==
    ASSUME NEW t \in TreeType, NEW d \in Dirs
    PROVE  /\ t[d] \in Seq(SlotType) /\ Len(t[d]) \in Nat
           /\ Slots(t, d) = {i \in 1 .. Len(t[d]) : t[d][i] # Free}
           /\ Slots(t, d) \subseteq Nat /\ 0 \notin Slots(t, d)
           /\ \A i \in Slots(t, d) : t[d][i] \in SlotType
  BY DEF TreeType, Slots

\* What a well-typed tree gives: bounds, and entries only where there is a directory.
LEMMA TypedIs ==
    ASSUME NEW t, NEW nd, Typed(t, nd)
    PROVE  /\ t \in TreeType
           /\ \A d \in Dirs :
                /\ Slots(t, d) \subseteq 1 .. MaxSlots
                /\ \A i \in Slots(t, d) : t[d][i].id \in Nodes
                /\ Slots(t, d) # {} => LiveDir(nd, d)
  <1>1. t \in TreeType
    BY DEF Typed, TreeType, Dirs
  <1>2. ASSUME NEW d \in Dirs
        PROVE  /\ Slots(t, d) \subseteq 1 .. MaxSlots
               /\ \A i \in Slots(t, d) : t[d][i].id \in Nodes
               /\ Slots(t, d) # {} => LiveDir(nd, d)
    <2>1. /\ Len(t[d]) <= MaxSlots /\ \A i \in Slots(t, d) : t[d][i].id \in Nodes
          /\ Slots(t, d) # {} => LiveDir(nd, d)
      BY DEF Typed, Dirs, LiveDir
    <2>2. Slots(t, d) \subseteq 1 .. Len(t[d]) /\ Len(t[d]) \in Nat
      BY <1>1, SlotsAre
    <2>3. MaxSlots \in Nat
      BY NodesAssumption
    <2> QED BY <2>1, <2>2, <2>3
  <1> QED BY <1>1, <1>2

\* An entry is taken out ...
LEMMA WipedIs ==
    ASSUME NEW t \in TreeType, NEW d \in Dirs, NEW i \in Slots(t, d),
           NEW w, w = Wiped(t, d, i)
    PROVE  /\ w \in TreeType /\ w[d][i] = Free
           /\ \A x \in Dirs : Len(w[x]) = Len(t[x])
           /\ \A x \in Dirs : Slots(w, x) = IF x = d THEN Slots(t, d) \ {i} ELSE Slots(t, x)
           /\ \A x \in Dirs : \A j \in Slots(w, x) : w[x][j] = t[x][j]
           /\ \A x \in Dirs : \A j \in 1 .. Len(t[x]) : t[x][j] = Free => w[x][j] = Free
  <1>1. t[d] \in Seq(SlotType) /\ i \in 1 .. Len(t[d]) /\ i # 0
    BY SlotsAre
  <1> DEFINE s == [t[d] EXCEPT ![i] = Free]
  <1>2. s \in Seq(SlotType) /\ Len(s) = Len(t[d])
    BY <1>1, FreeIs
  <1>3. s[i] = Free /\ \A j \in 1 .. Len(t[d]) : j # i => s[j] = t[d][j]
    BY <1>1
  <1>4. w = [t EXCEPT ![d] = s]
    BY <1>1 DEF Wiped
  <1> HIDE DEF s
  <1>5. w \in TreeType /\ w[d] = s /\ \A x \in Dirs : x # d => w[x] = t[x]
    BY <1>2, <1>4 DEF TreeType
  <1>6. ASSUME NEW x \in Dirs
        PROVE  /\ Len(w[x]) = Len(t[x])
               /\ Slots(w, x) = IF x = d THEN Slots(t, d) \ {i} ELSE Slots(t, x)
               /\ \A j \in Slots(w, x) : w[x][j] = t[x][j]
               /\ \A j \in 1 .. Len(t[x]) : t[x][j] = Free => w[x][j] = Free
    <2>1. CASE x = d
      <3>1. Slots(w, d) = {j \in 1 .. Len(s) : s[j] # Free}
        BY <1>5, SlotsAre
      <3>2. Slots(t, d) = {j \in 1 .. Len(t[d]) : t[d][j] # Free}
        BY SlotsAre
      <3> QED BY <1>2, <1>3, <1>5, <2>1, <3>1, <3>2
    <2>2. CASE x # d
      BY <1>5, <2>2 DEF Slots
    <2> QED BY <2>1, <2>2
  <1> QED BY <1>3, <1>5, <1>6

\* ... and put in, into a free slot or behind the last one.
LEMMA PutIs ==
    ASSUME NEW t \in TreeType, NEW d \in Dirs, NEW i \in Nat, 1 <= i, i <= Len(t[d]) + 1,
           i <= Len(t[d]) => t[d][i] = Free, NEW e \in SlotType, e # Free,
           NEW w, w = Put(t, d, i, e)
    PROVE  /\ w \in TreeType /\ w[d][i] = e
           /\ \A x \in Dirs : Len(w[x]) = Len(t[x]) \/ (x = d /\ Len(w[x]) = i)
           /\ \A x \in Dirs : Slots(w, x) = IF x = d THEN Slots(t, d) \cup {i} ELSE Slots(t, x)
           /\ \A x \in Dirs : \A j \in Slots(t, x) : w[x][j] = t[x][j]
           /\ i \notin Slots(t, d)
  <1>1. t[d] \in Seq(SlotType) /\ Len(t[d]) \in Nat
    BY SlotsAre
  <1> DEFINE s == IF i <= Len(t[d]) THEN [t[d] EXCEPT ![i] = e] ELSE Append(t[d], e)
  <1>2. s \in Seq(SlotType) /\ s[i] = e /\ i \in 1 .. Len(s) /\ (Len(s) = Len(t[d]) \/ Len(s) = i)
        /\ (\A j \in 1 .. Len(t[d]) : j # i => s[j] = t[d][j]) /\ 1 .. Len(s) = 1 .. Len(t[d]) \cup {i}
    <2>1. CASE i <= Len(t[d])
      BY <1>1, <2>1
    <2>2. CASE ~(i <= Len(t[d]))
      BY <1>1, <2>2
    <2> QED BY <2>1, <2>2
  <1>3. w = [t EXCEPT ![d] = s]
    BY DEF Put, TreeType
  <1> HIDE DEF s
  <1>4. w \in TreeType /\ w[d] = s /\ \A x \in Dirs : x # d => w[x] = t[x]
    BY <1>2, <1>3 DEF TreeType
  <1>5. Slots(t, d) = {j \in 1 .. Len(t[d]) : t[d][j] # Free}
    BY SlotsAre
  <1>6. i \notin Slots(t, d)
    BY <1>5
  <1>7. ASSUME NEW x \in Dirs
        PROVE  /\ Len(w[x]) = Len(t[x]) \/ (x = d /\ Len(w[x]) = i)
               /\ Slots(w, x) = IF x = d THEN Slots(t, d) \cup {i} ELSE Slots(t, x)
               /\ \A j \in Slots(t, x) : w[x][j] = t[x][j]
    <2>1. CASE x = d
      <3>1. Slots(w, d) = {j \in 1 .. Len(s) : s[j] # Free}
        BY <1>4, SlotsAre
      <3> QED BY <1>2, <1>4, <1>5, <1>6, <2>1, <3>1
    <2>2. CASE x # d
      BY <1>4, <2>2 DEF Slots
    <2> QED BY <2>1, <2>2
  <1> QED BY <1>2, <1>4, <1>6, <1>7

-----------------------------------------------------------------------------
(* Loops on the stack                                                       *)

\* The innermost loop goes on, ...
LEMMA OnTop ==
    ASSUME NEW S, NEW s \in Seq(S), s # <<>>, NEW f \in S, NEW r, r = <<f>> \o Tail(s)
    PROVE  /\ r \in Seq(S) /\ r # <<>> /\ Len(r) = Len(s) /\ Len(s) \in Nat /\ Len(s) >= 1
           /\ DOMAIN r = DOMAIN s /\ DOMAIN s = 1 .. Len(s) /\ r[1] = f
           /\ \A k \in DOMAIN s : k # 1 => r[k] = s[k]
  OBVIOUS

\* ... calls another one, ...
LEMMA OnTopOf ==
    ASSUME NEW S, NEW s \in Seq(S), s # <<>>, NEW f \in S, NEW g \in S, NEW r, r = <<g, f>> \o Tail(s)
    PROVE  /\ r \in Seq(S) /\ r # <<>> /\ Len(r) = Len(s) + 1 /\ Len(s) \in Nat /\ Len(s) >= 1
           /\ DOMAIN r = 1 .. Len(s) + 1 /\ DOMAIN s = 1 .. Len(s) /\ r[1] = g /\ r[2] = f
           /\ \A k \in DOMAIN s : k # 1 => r[k + 1] = s[k]
  OBVIOUS

\* ... or returns.
Back(s, f) == <<f>> \o SubSeq(s, 3, Len(s))
Popped(S, s, f, r) ==
    /\ r \in Seq(S) /\ r # <<>> /\ Len(r) = Len(s) - 1 /\ Len(s) \in Nat
    /\ DOMAIN r = 1 .. Len(s) - 1 /\ DOMAIN s = 1 .. Len(s) /\ r[1] = f
    /\ \A k \in DOMAIN r : k # 1 => r[k] = s[k + 1]
\* A loop returns: the caller, with what it was given, is on top.
LEMMA OffTop ==
    ASSUME NEW S, NEW s \in Seq(S), Len(s) > 1, NEW f \in S
    PROVE  Popped(S, s, f, Back(s, f))
  <1> DEFINE n == Len(s)  q == SubSeq(s, 3, n)
  <1>1. n \in Nat /\ n > 1 /\ \A k \in 3 .. n : s[k] \in S
    OBVIOUS
  <1> HIDE DEF n
  <1>2. q \in Seq(S) /\ Len(q) = n - 2
    BY <1>1, SubSeqProperties
  <1>6. \A k \in 1 .. n - 2 : q[k] = s[k + 2]
    BY <1>1, SubSeqProperties
  <1> HIDE DEF q
  <1> DEFINE r == Back(s, f)
  <1>3. r = <<f>> \o q
    BY DEF q, n, Back
  <1> HIDE DEF r
  <1>4. r \in Seq(S) /\ Len(r) = n - 1 /\ r[1] = f
    BY <1>1, <1>2, <1>3
  <1>5. \A k \in 2 .. n - 1 : r[k] = q[k - 1]
    BY <1>1, <1>2, <1>3
  <1>7. Popped(S, s, f, r)
    BY <1>1, <1>2, <1>4, <1>5, <1>6 DEF n, Popped
  <1> QED BY <1>7 DEF r

-----------------------------------------------------------------------------
(* Below                                                                    *)

\* What Below adds up, step by step.
Within(t, d, w) ==
    /\ w[0] = {d}
    /\ \A k \in 0 .. Cardinality(Nodes) : k # 0 => w[k] = w[k - 1] \cup Children(t, w[k - 1])

AddsUp(t, d, n, w) ==
    w = [k \in 0 .. n |-> IF k = 0 THEN {d} ELSE w[k - 1] \cup Children(t, w[k - 1])]

\* A function that is defined from one number to the next exists.
LEMMA WithinExists ==
    ASSUME NEW t, NEW d, NEW N \in Nat
    PROVE  \E w : AddsUp(t, d, N, w)
  <1> USE DEF AddsUp
  <1> DEFINE Is(n, w) == AddsUp(t, d, n, w)
             T == {n \in Nat : \E w : Is(n, w)}
  <1>1. 0 \in T
    <2> DEFINE w == [k \in 0 .. 0 |-> {d}]
    <2>1. Is(0, w)
      OBVIOUS
    <2> QED BY <2>1
  <1>2. ASSUME NEW n \in Nat, n \in T PROVE n + 1 \in T
    <2>1. PICK w : Is(n, w)
      BY <1>2
    <2> DEFINE v == [k \in 0 .. n + 1 |-> IF k = n + 1 THEN w[n] \cup Children(t, w[n]) ELSE w[k]]
               z == [k \in 0 .. n + 1 |-> IF k = 0 THEN {d} ELSE v[k - 1] \cup Children(t, v[k - 1])]
    <2>2. \A k \in 0 .. n : v[k] = w[k]
      OBVIOUS
    <2>3. \A k \in 0 .. n + 1 : v[k] = z[k]
      <3> SUFFICES ASSUME NEW k \in 0 .. n + 1 PROVE v[k] = z[k]
        OBVIOUS
      <3>1. CASE k = n + 1
        <4>1. z[k] = v[n] \cup Children(t, v[n])
          BY <3>1
        <4>2. v[n] = w[n]
          BY <2>2
        <4> QED BY <3>1, <4>1, <4>2
      <3>2. CASE k = 0
        BY <2>1, <3>2
      <3>3. CASE k \in 1 .. n
        <4>1. v[k] = w[k] /\ v[k - 1] = w[k - 1]
          BY <2>2, <3>3
        <4>2. w[k] = w[k - 1] \cup Children(t, w[k - 1])
          <5>1. k \in 0 .. n /\ k # 0
            BY <3>3
          <5> HIDE DEF v, z
          <5> QED BY <2>1, <5>1
        <4>3. z[k] = v[k - 1] \cup Children(t, v[k - 1])
          BY <3>3
        <4> QED BY <4>1, <4>2, <4>3
      <3> QED BY <3>1, <3>2, <3>3
    <2>4. v = z
      BY <2>3
    <2>5. Is(n + 1, v)
      BY <2>4
    <2> HIDE DEF v, AddsUp
    <2> QED BY <2>5
  <1> HIDE DEF T
  <1>3. N \in T
    BY <1>1, <1>2, Counting
  <1> QED BY <1>3 DEF T

\* Below adds the children of what it has until nothing new can come.
LEMMA BelowIs ==
    ASSUME NEW t, NEW d
    PROVE  \E w : Within(t, d, w) /\ Below(t, d) = w[Cardinality(Nodes)]
  <1> DEFINE N == Cardinality(Nodes)
             w == CHOOSE x : AddsUp(t, d, N, x)
  <1>1. N \in Nat
    BY NodesAre
  <1>2. AddsUp(t, d, N, w)
    BY <1>1, WithinExists
  <1>3. Below(t, d) = w[N]
    BY DEF Below, AddsUp
  <1>4. Within(t, d, w)
    <2> HIDE DEF w
    <2>1. w[0] = {d}
      BY <1>1, <1>2 DEF AddsUp
    <2>2. ASSUME NEW k \in 0 .. N, k # 0 PROVE w[k] = w[k - 1] \cup Children(t, w[k - 1])
      BY <1>2, <2>2 DEF AddsUp
    <2> QED BY <2>1, <2>2 DEF Within
  <1> QED BY <1>3, <1>4

\* A set of directories is closed when it has its children.
LEMMA ChildrenAre ==
    ASSUME NEW t, NEW nd, Typed(t, nd), NEW S \in SUBSET Dirs
    PROVE  /\ Children(t, S) \subseteq Nodes
           /\ Closed(t, S) <=> Children(t, S) \subseteq S
  <1>1. \A d \in Dirs : \A i \in Slots(t, d) : t[d][i].id \in Nodes
    BY TypedIs
  <1>2. \A x : x \in Children(t, S) <=> \E d \in S : \E i \in Slots(t, d) : x = t[d][i].id
    BY DEF Children
  <1> QED BY <1>1, <1>2 DEF Closed

\* Below is what has to be in every set with d that has what its directories hold.
LEMMA BelowLeast ==
    ASSUME NEW t, NEW nd, Typed(t, nd), NEW d \in Dirs
    PROVE  /\ Below(t, d) \subseteq Dirs /\ d \in Below(t, d) /\ Closed(t, Below(t, d))
           /\ \A S \in SUBSET Dirs : d \in S /\ Closed(t, S) => Below(t, d) \subseteq S
  <1> DEFINE N == Cardinality(Nodes)
  <1>1. PICK w : Within(t, d, w) /\ Below(t, d) = w[N]
    BY BelowIs
  <1>2. N \in Nat
    BY NodesAre
  <1>3. w[0] = {d} /\ \A k \in Nat : k + 1 <= N => w[k + 1] = w[k] \cup Children(t, w[k])
    BY <1>1, <1>2 DEF Within
  <1> HIDE DEF N
  <1>4. \A k \in Nat : k <= N => w[k] \subseteq Dirs /\ d \in w[k]
    <2> DEFINE T == {k \in Nat : k <= N => w[k] \subseteq Dirs /\ d \in w[k]}
    <2>1. 0 \in T
      BY <1>3
    <2>2. ASSUME NEW k \in Nat, k \in T PROVE k + 1 \in T
      <3> SUFFICES ASSUME k + 1 <= N PROVE w[k + 1] \subseteq Dirs /\ d \in w[k + 1]
        OBVIOUS
      <3>1. w[k] \subseteq Dirs /\ d \in w[k]
        BY <1>2, <2>2
      <3>2. Children(t, w[k]) \subseteq Dirs
        BY <3>1, ChildrenAre, NodesAre
      <3> QED BY <1>3, <3>1, <3>2
    <2> HIDE DEF T
    <2>3. \A k \in Nat : k \in T
      BY <2>1, <2>2, Counting
    <2> QED BY <2>3 DEF T
  <1>5. ASSUME NEW S \in SUBSET Dirs, d \in S, Closed(t, S) PROVE w[N] \subseteq S
    <2> DEFINE T == {k \in Nat : k <= N => w[k] \subseteq S}
    <2>1. 0 \in T
      BY <1>3, <1>5
    <2>2. ASSUME NEW k \in Nat, k \in T PROVE k + 1 \in T
      <3> SUFFICES ASSUME k + 1 <= N PROVE w[k + 1] \subseteq S
        OBVIOUS
      <3>1. w[k] \subseteq S
        BY <1>2, <2>2
      <3>2. Children(t, w[k]) \subseteq Children(t, S)
        BY <3>1 DEF Children
      <3>3. Children(t, S) \subseteq S
        BY <1>5, ChildrenAre
      <3> QED BY <1>3, <3>1, <3>2, <3>3
    <2> HIDE DEF T
    <2>3. N \in T
      BY <1>2, <2>1, <2>2, Counting
    <2> QED BY <1>2, <2>3 DEF T
  <1>6. IsFiniteSet(Dirs) /\ Cardinality(Dirs) = N + 1
    <2>1. Dirs = Nodes \cup {Root}
      BY DEF Dirs
    <2> QED BY <2>1, NodesAre, FS_AddElement DEF N
  <1>7. \A k \in Nat : k <= N => Cardinality(w[k]) >= k + 1 \/ Closed(t, w[k])
    <2> DEFINE T == {k \in Nat : k <= N => Cardinality(w[k]) >= k + 1 \/ Closed(t, w[k])}
    <2>1. 0 \in T
      BY <1>3, FS_Singleton
    <2>2. ASSUME NEW k \in Nat, k \in T PROVE k + 1 \in T
      <3> SUFFICES ASSUME k + 1 <= N
                   PROVE  Cardinality(w[k + 1]) >= k + 2 \/ Closed(t, w[k + 1])
        OBVIOUS
      <3>1. w[k] \subseteq Dirs /\ w[k + 1] \subseteq Dirs /\ w[k + 1] = w[k] \cup Children(t, w[k])
        BY <1>2, <1>3, <1>4
      <3>2. CASE Closed(t, w[k])
        <4>1. w[k + 1] = w[k]
          BY <3>1, <3>2, ChildrenAre
        <4> QED BY <3>2, <4>1
      <3>3. CASE ~Closed(t, w[k])
        <4>1. Cardinality(w[k]) >= k + 1
          BY <1>2, <2>2, <3>3
        <4>2. PICK x \in Children(t, w[k]) : x \notin w[k]
          BY <3>1, <3>3, ChildrenAre
        <4>3. /\ IsFiniteSet(w[k]) /\ IsFiniteSet(w[k + 1])
              /\ Cardinality(w[k]) \in Nat /\ Cardinality(w[k + 1]) \in Nat
          BY <1>6, <3>1, FS_Subset, FS_CardinalityType
        <4>4. Cardinality(w[k] \cup {x}) = Cardinality(w[k]) + 1
          BY <4>2, <4>3, FS_AddElement
        <4>5. w[k] \cup {x} \subseteq w[k + 1]
          BY <3>1, <4>2
        <4>6. Cardinality(w[k] \cup {x}) <= Cardinality(w[k + 1])
          BY <4>3, <4>5, FS_Subset
        <4> QED BY <4>1, <4>3, <4>4, <4>6
      <3> QED BY <3>2, <3>3
    <2> HIDE DEF T
    <2>3. \A k \in Nat : k \in T
      BY <2>1, <2>2, Counting
    <2> QED BY <2>3 DEF T
  <1>8. Closed(t, w[N])
    <2>1. CASE Cardinality(w[N]) >= N + 1
      <3>1. w[N] \subseteq Dirs
        BY <1>2, <1>4
      <3>2. Cardinality(w[N]) <= Cardinality(Dirs) /\ Cardinality(w[N]) \in Nat
        BY <1>6, <3>1, FS_Subset, FS_CardinalityType
      <3>3. w[N] = Dirs
        BY <1>2, <1>6, <2>1, <3>1, <3>2, FS_Subset
      <3>4. Children(t, Dirs) \subseteq Dirs
        BY ChildrenAre, NodesAre
      <3> QED BY <3>3, <3>4, ChildrenAre
    <2> QED BY <1>2, <1>7, <2>1
  <1> QED BY <1>1, <1>2, <1>4, <1>5, <1>8

\* What is below a directory is what every closed set around it holds.
LEMMA BelowUnder ==
    ASSUME NEW t, NEW nd, Typed(t, nd), NEW a \in Dirs, NEW b \in Dirs
    PROVE  b \in Below(t, a) <=> Under(t, a, b)
  BY BelowLeast DEF Under

-----------------------------------------------------------------------------
(* The two forms of the invariant                                           *)

\* Entries finds the places of a cluster.
LEMMA EntriesAre ==
    ASSUME NEW t, NEW nd, Typed(t, nd), NEW n \in Nodes
    PROVE  /\ Entries(t, n) \subseteq Dirs \X Nat /\ IsFiniteSet(Entries(t, n))
           /\ \A d \in Dirs, i \in Nat : <<d, i>> \in Entries(t, n) <=> Place(t, d, i, n)
  <1>1. DOMAIN t = Dirs /\ \A d \in Dirs : Slots(t, d) \subseteq 1 .. MaxSlots
    BY TypedIs DEF TreeType
  <1>2. Entries(t, n) = {x \in Dirs \X (1 .. MaxSlots) : x[2] \in Slots(t, x[1]) /\ t[x[1]][x[2]].id = n}
    BY <1>1 DEF Entries
  <1>3. 1 .. MaxSlots \subseteq Nat
    BY NodesAssumption
  <1>4. ASSUME NEW d \in Dirs, NEW i \in Nat PROVE <<d, i>> \in Entries(t, n) <=> Place(t, d, i, n)
    BY <1>1, <1>2 DEF Place
  <1>5. IsFiniteSet(Entries(t, n))
    <2> DEFINE P == 1 .. MaxSlots
               X == Dirs \X P
    <2>1. IsFiniteSet(P)
      BY NodesAssumption, FS_Interval
    <2>2. IsFiniteSet(Nodes \cup {Root})
      BY NodesAssumption, FS_AddElement
    <2>3. Nodes \cup {Root} = Dirs
      BY DEF Dirs
    <2> HIDE DEF P
    <2>4. IsFiniteSet(X)
      BY <2>1, <2>2, <2>3, FS_Product
    <2>5. Entries(t, n) \subseteq X
      BY <1>2 DEF P
    <2> QED BY <2>4, <2>5, FS_Subset
  <1> QED BY <1>2, <1>3, <1>4, <1>5

\* The form of the property implies the form the steps are proved with, ...
LEMMA TreeIsRight ==
    ASSUME NEW t, NEW nd, Typed(t, nd), IsTree(t, nd)
    PROVE  TreeRight(t, nd)
  <1>1. /\ \A n \in Nodes : Cardinality(Entries(t, n)) = IF n \in Live(nd) THEN 1 ELSE 0
        /\ Below(t, Root) = {Root} \cup Live(nd) /\ DOMAIN t = Dirs
        /\ \A d \in DOMAIN t : \A i, j \in Slots(t, d) : t[d][i].name = t[d][j].name => i = j
        /\ \A n \in Live(nd) : nd[n].kind = "dir" => \A x \in Entries(t, n) : nd[n].up.low = x[1]
    BY TypedIs DEF IsTree, TreeType
  <1>2. Live(nd) \subseteq Nodes
    BY DEF Live
  <1>3. ASSUME NEW n \in Live(nd)
        PROVE  \E d \in Dirs, i \in Nat : /\ Place(t, d, i, n)
                                          /\ \A e \in Dirs, j \in Nat : Place(t, e, j, n) => d = e /\ i = j
    <2>1. Cardinality(Entries(t, n)) = 1 /\ n \in Nodes
      BY <1>1, <1>2
    <2>2. IsFiniteSet(Entries(t, n))
      BY <2>1, EntriesAre
    <2>3. PICK x : Entries(t, n) = {x}
      BY <2>1, <2>2, FS_Singleton
    <2>4. PICK d \in Dirs, i \in Nat : x = <<d, i>>
      BY <2>1, <2>3, EntriesAre
    <2>5. Place(t, d, i, n)
      BY <2>1, <2>3, <2>4, EntriesAre
    <2>6. ASSUME NEW e \in Dirs, NEW j \in Nat, Place(t, e, j, n) PROVE d = e /\ i = j
      <3>1. <<e, j>> \in Entries(t, n)
        BY <2>1, <2>6, EntriesAre
      <3> QED BY <2>3, <2>4, <3>1
    <2> QED BY <2>5, <2>6
  <1>4. Placed(t, nd)
    BY <1>3 DEF Placed
  <1>5. ASSUME NEW n \in Nodes, NEW d \in Dirs, NEW i \in Nat, Place(t, d, i, n) PROVE n \in Live(nd)
    <2>1. <<d, i>> \in Entries(t, n)
      BY <1>5, EntriesAre
    <2>2. Entries(t, n) # {}
      BY <2>1
    <2> QED
      <3> SUFFICES ASSUME n \notin Live(nd) PROVE FALSE
        OBVIOUS
      <3>1. Cardinality(Entries(t, n)) = 0
        BY <1>1
      <3>2. IsFiniteSet(Entries(t, n))
        BY EntriesAre
      <3> QED BY <2>2, <3>1, <3>2, FS_EmptySet
  <1>6. Listed(t, nd)
    <2> SUFFICES ASSUME NEW d \in Dirs, NEW i \in Slots(t, d) PROVE t[d][i].id \in Live(nd)
      BY DEF Listed
    <2>1. t[d][i].id \in Nodes /\ i \in Nat
      BY TypedIs, SlotsAre
    <2>2. Place(t, d, i, t[d][i].id)
      BY DEF Place
    <2> QED BY <1>5, <2>1, <2>2
  <1>7. Once(t)
    <2> SUFFICES ASSUME NEW n \in Nodes, NEW d \in Dirs, NEW e \in Dirs, NEW i \in Nat, NEW j \in Nat,
                        Place(t, d, i, n), Place(t, e, j, n)
                 PROVE  d = e /\ i = j
      BY DEF Once
    <2>1. n \in Live(nd)
      BY <1>5
    <2> QED BY <1>3, <2>1
  <1>8. Reached(t, nd)
    <2> SUFFICES ASSUME NEW n \in Live(nd) PROVE Under(t, Root, n)
      BY DEF Reached
    <2>1. n \in Below(t, Root) /\ n \in Dirs /\ Root \in Dirs
      BY <1>1, <1>2, NodesAre
    <2> QED BY <2>1, BelowUnder
  <1>9. NamesOnce(t)
    BY <1>1 DEF NamesOnce
  <1>10. UpRight(t, nd)
    <2> SUFFICES ASSUME NEW n \in Live(nd), NEW d \in Dirs, NEW i \in Nat, Place(t, d, i, n), nd[n].kind = "dir"
                 PROVE  nd[n].up.low = d
      BY DEF UpRight
    <2>1. <<d, i>> \in Entries(t, n)
      BY <1>2, EntriesAre
    <2> QED BY <1>1, <2>1
  <1> QED BY <1>4, <1>6, <1>7, <1>8, <1>9, <1>10 DEF TreeRight

\* ... and the other way round.
LEMMA RightIsTree ==
    ASSUME NEW t, NEW nd, TreeRight(t, nd)
    PROVE  IsTree(t, nd)
  <1>1. /\ Typed(t, nd) /\ Listed(t, nd) /\ Placed(t, nd) /\ Once(t) /\ Reached(t, nd)
        /\ NamesOnce(t) /\ UpRight(t, nd)
    BY DEF TreeRight
  <1>2. Live(nd) \subseteq Nodes /\ DOMAIN t = Dirs
    BY <1>1, TypedIs DEF Live, TreeType
  <1>3. ASSUME NEW n \in Nodes
        PROVE  Cardinality(Entries(t, n)) = IF n \in Live(nd) THEN 1 ELSE 0
    <2>1. CASE n \in Live(nd)
      <3>1. PICK d \in Dirs, i \in Nat : Place(t, d, i, n)
        BY <1>1, <2>1 DEF Placed
      <3>2. <<d, i>> \in Entries(t, n)
        BY <1>1, <3>1, EntriesAre
      <3>3. ASSUME NEW x \in Entries(t, n) PROVE x = <<d, i>>
        <4>1. PICK e \in Dirs, j \in Nat : x = <<e, j>>
          BY <1>1, EntriesAre
        <4>2. Place(t, e, j, n)
          BY <1>1, <4>1, EntriesAre
        <4> QED BY <1>1, <3>1, <4>1, <4>2 DEF Once
      <3>4. Entries(t, n) = {<<d, i>>}
        BY <3>2, <3>3
      <3> QED BY <2>1, <3>4, FS_Singleton
    <2>2. CASE n \notin Live(nd)
      <3>1. ASSUME NEW x \in Entries(t, n) PROVE FALSE
        <4>1. PICK e \in Dirs, j \in Nat : x = <<e, j>>
          BY <1>1, EntriesAre
        <4>2. Place(t, e, j, n)
          BY <1>1, <4>1, EntriesAre
        <4> QED BY <1>1, <2>2, <4>2 DEF Listed, Place
      <3>2. Entries(t, n) = {}
        BY <3>1
      <3> QED BY <2>2, <3>2, FS_EmptySet
    <2> QED BY <2>1, <2>2
  <1>4. Below(t, Root) = {Root} \cup Live(nd)
    <2> DEFINE S == {Root} \cup Live(nd)
    <2>1. S \in SUBSET Dirs /\ Root \in S
      BY <1>2 DEF Dirs
    <2>2. Closed(t, S)
      BY <1>1, <2>1 DEF Closed, Listed
    <2>3. Below(t, Root) \subseteq S /\ Root \in Below(t, Root)
      BY <1>1, <2>1, <2>2, BelowLeast, NodesAre
    <2>4. ASSUME NEW n \in Live(nd) PROVE n \in Below(t, Root)
      <3>1. Under(t, Root, n) /\ n \in Dirs /\ Root \in Dirs
        BY <1>1, <1>2, NodesAre DEF Reached
      <3> QED BY <1>1, <3>1, BelowUnder
    <2> QED BY <2>3, <2>4
  <1>5. ASSUME NEW n \in Live(nd), nd[n].kind = "dir", NEW x \in Entries(t, n) PROVE nd[n].up.low = x[1]
    <2>1. n \in Nodes
      BY <1>2
    <2>2. PICK e \in Dirs, j \in Nat : x = <<e, j>>
      BY <1>1, <2>1, EntriesAre
    <2>3. Place(t, e, j, n)
      BY <1>1, <2>1, <2>2, EntriesAre
    <2> QED BY <1>1, <1>5, <2>2, <2>3 DEF UpRight
  <1> QED BY <1>1, <1>2, <1>3, <1>4, <1>5 DEF IsTree, NamesOnce

-----------------------------------------------------------------------------
(* No directory is below itself                                             *)

\* A directory is under itself, and what is in it is under what it is under.
LEMMA UnderIs ==
    ASSUME NEW t, NEW nd, Typed(t, nd), NEW a \in Dirs
    PROVE  /\ Under(t, a, a)
           /\ \A d \in Dirs : \A i \in Slots(t, d) : Under(t, a, d) => Under(t, a, t[d][i].id)
  <1>1. Under(t, a, a)
    BY DEF Under
  <1>2. ASSUME NEW d \in Dirs, NEW i \in Slots(t, d), Under(t, a, d) PROVE Under(t, a, t[d][i].id)
    <2> SUFFICES ASSUME NEW S \in SUBSET Dirs, a \in S, Closed(t, S) PROVE t[d][i].id \in S
      BY DEF Under
    <2>1. d \in S
      BY <1>2 DEF Under
    <2> QED BY <2>1 DEF Closed
  <1> QED BY <1>1, <1>2

\* Whatever has an entry and is below a is a itself or in a directory below a.
LEMMA UnderParent ==
    ASSUME NEW t, NEW nd, TreeRight(t, nd), NEW a \in Dirs, NEW d \in Dirs, NEW i \in Nat, NEW n \in Nodes,
           Place(t, d, i, n), Under(t, a, n), n # a
    PROVE  Under(t, a, d)
  <1> SUFFICES ASSUME NEW S \in SUBSET Dirs, a \in S, Closed(t, S), d \notin S PROVE FALSE
    BY DEF Under
  <1>1. Once(t) /\ Typed(t, nd)
    BY DEF TreeRight
  <1> DEFINE R == S \ {n}
  <1>2. R \in SUBSET Dirs /\ a \in R
    OBVIOUS
  <1>3. Closed(t, R)
    <2> SUFFICES ASSUME NEW x \in R, NEW j \in Slots(t, x) PROVE t[x][j].id \in R
      BY DEF Closed
    <2>1. t[x][j].id \in S /\ x \in Dirs /\ x # d
      BY DEF Closed
    <2>2. j \in Nat
      BY <1>1, <2>1, TypedIs, SlotsAre
    <2>3. t[x][j].id # n
      BY <1>1, <2>1, <2>2 DEF Once, Place
    <2> QED BY <2>1, <2>3
  <1> QED BY <1>2, <1>3 DEF Under

\* A directory is not in anything that is under it.
LEMMA NoCycle ==
    ASSUME NEW t, NEW nd, TreeRight(t, nd), NEW a \in Dirs, NEW d \in Dirs, NEW i \in Nat, NEW n \in Nodes,
           Place(t, d, i, n), Under(t, a, d)
    PROVE  n # a
  <1> SUFFICES ASSUME n = a PROVE FALSE
    OBVIOUS
  <1>1. /\ Typed(t, nd) /\ Listed(t, nd) /\ Once(t) /\ Reached(t, nd)
    BY DEF TreeRight
  <1>2. n \in Live(nd) /\ Under(t, Root, n)
    BY <1>1 DEF Listed, Place, Reached
  <1> DEFINE S == {x \in Dirs : ~Under(t, n, x)}
  <1>3. S \in SUBSET Dirs
    OBVIOUS
  <1>4. Root \in S
    <2> DEFINE R == Dirs \ {Root}
    <2>1. R \in SUBSET Dirs /\ n \in R
      BY NodesAre DEF Dirs
    <2>2. Closed(t, R)
      <3> SUFFICES ASSUME NEW x \in R, NEW j \in Slots(t, x) PROVE t[x][j].id \in R
        BY DEF Closed
      <3>1. t[x][j].id \in Nodes
        BY <1>1, TypedIs
      <3> QED BY <3>1, NodesAre
    <2> QED BY <2>1, <2>2, NodesAre DEF Under
  <1>5. Closed(t, S)
    <2> SUFFICES ASSUME NEW x \in S, NEW j \in Slots(t, x) PROVE t[x][j].id \in S
      BY DEF Closed
    <2> DEFINE m == t[x][j].id
    <2>1. x \in Dirs /\ ~Under(t, n, x)
      OBVIOUS
    <2>2. m \in Nodes /\ j \in Nat
      BY <1>1, <2>1, TypedIs, SlotsAre
    <2>3. Place(t, x, j, m)
      BY <2>1 DEF Place
    <2> HIDE DEF m
    <2>4. CASE m = n
      BY <1>1, <2>1, <2>2, <2>3, <2>4 DEF Once
    <2>5. CASE m # n
      <3> SUFFICES ASSUME Under(t, n, m) PROVE FALSE
        BY <2>2, NodesAre DEF m
      <3> QED BY <2>1, <2>2, <2>3, <2>5, UnderParent
    <2> QED BY <2>4, <2>5
  <1>6. n \in S
    BY <1>2, <1>3, <1>4, <1>5 DEF Under
  <1> QED BY <1>1, <1>6, UnderIs

-----------------------------------------------------------------------------
(* What a step does to the tree                                             *)

NodeType == [kind : {"free", "file", "dir"}, data : Nat, up : [low : Dirs, high : BOOLEAN]]

\* The clusters, in a form the steps can use.
LEMMA NodeTypeIs ==
    ASSUME NEW t, NEW nd, Typed(t, nd)
    PROVE  nd \in [Nodes -> NodeType]
  BY DEF Typed, NodeType, Dirs

\* When a tree is well typed.
LEMMA TypedWhen ==
    ASSUME NEW t \in TreeType, NEW nd \in [Nodes -> NodeType],
           \A d \in Dirs : /\ Len(t[d]) <= MaxSlots
                           /\ \A i \in Slots(t, d) : LiveDir(nd, d) /\ t[d][i].id \in Nodes
    PROVE  Typed(t, nd)
  <1>1. \A d \in Dirs : Slots(t, d) # {} => d = Root \/ nd[d].kind = "dir"
    BY DEF LiveDir
  <1> QED BY <1>1 DEF Typed, NodeType, TreeType, Dirs

NoDirLost(nd, nd2) == \A d \in Dirs : LiveDir(nd, d) => LiveDir(nd2, d)

\* A file has no slots.
LEMMA LeafIs ==
    ASSUME NEW t, NEW nd, Typed(t, nd), NEW n \in Nodes, nd[n].kind # "dir"
    PROVE  Slots(t, n) = {} /\ ~LiveDir(nd, n)
  <1>1. ~LiveDir(nd, n) /\ n \in Dirs
    BY NodesAre DEF LiveDir
  <1> QED BY <1>1, TypedIs

\* What has nothing in it is taken out and freed.
Leaving(t, nd, d, i, n) ==
    TreeRight(t, nd) /\ d \in Dirs /\ i \in Slots(t, d) /\ n \in Nodes /\ Place(t, d, i, n) /\ Slots(t, n) = {}
Without(t, nd, n, w, nd2) ==
    /\ TreeRight(w, nd2)
    /\ \A a, b \in Dirs : b # n /\ Under(t, a, b) => Under(w, a, b)
    /\ \A x \in Dirs : x # n /\ LiveDir(nd, x) => LiveDir(nd2, x)
    /\ \A x \in Dirs : \A j \in Slots(w, x) : j \in Slots(t, x) /\ w[x][j] = t[x][j]
    /\ \A x \in Dirs : \A j \in Slots(t, x) : t[x][j].id # n => j \in Slots(w, x)
    /\ Live(nd2) = Live(nd) \ {n}

\* An entry and its cluster go, the rest stays where it is: del_entry, or an entry that is overwritten.
LEMMA TakenOut ==
    ASSUME NEW t, NEW nd, NEW d, NEW i, NEW n, Leaving(t, nd, d, i, n),
           NEW w, w = Wiped(t, d, i), NEW nd2, nd2 = [nd EXCEPT ![n] = NoNode]
    PROVE  Without(t, nd, n, w, nd2)
  <1> SUFFICES ASSUME TreeRight(t, nd), d \in Dirs, i \in Slots(t, d), n \in Nodes, Place(t, d, i, n),
                      Slots(t, n) = {}
               PROVE  Without(t, nd, n, w, nd2)
    BY DEF Leaving
  <1>1. /\ Typed(t, nd) /\ Listed(t, nd) /\ Placed(t, nd) /\ Once(t) /\ Reached(t, nd)
        /\ NamesOnce(t) /\ UpRight(t, nd)
    BY DEF TreeRight
  <1>2. t \in TreeType /\ nd \in [Nodes -> NodeType]
    BY <1>1, TypedIs, NodeTypeIs
  <1>3. /\ w \in TreeType
        /\ \A x \in Dirs : Len(w[x]) = Len(t[x])
        /\ \A x \in Dirs : Slots(w, x) = IF x = d THEN Slots(t, d) \ {i} ELSE Slots(t, x)
        /\ \A x \in Dirs : \A j \in Slots(w, x) : w[x][j] = t[x][j]
    BY <1>2, WipedIs
  <1>4. nd2 \in [Nodes -> NodeType] /\ nd2[n].kind = "free" /\ \A m \in Nodes : m # n => nd2[m] = nd[m]
    BY <1>2, NodesAre DEF NoNode, NodeType, Root, Dirs
  <1>5. Live(nd2) = Live(nd) \ {n} /\ n \in Live(nd)
    BY <1>1, <1>4 DEF Live, Listed, Place
  <1>6. \A x \in Dirs : x # n /\ LiveDir(nd, x) => LiveDir(nd2, x)
    BY <1>4 DEF LiveDir
  <1>7. \A x \in Dirs : \A j \in Slots(w, x) : j \in Slots(t, x) /\ w[x][j] = t[x][j]
    BY <1>3
  <1>8. \A x \in Dirs : \A j \in Slots(t, x) : t[x][j].id # n => j \in Slots(w, x)
    BY <1>3 DEF Place
  <1>9. \A x \in Dirs : \A j \in Slots(w, x) : w[x][j].id # n
    <2> SUFFICES ASSUME NEW x \in Dirs, NEW j \in Slots(w, x), w[x][j].id = n PROVE FALSE
      OBVIOUS
    <2>1. j \in Slots(t, x) /\ t[x][j].id = n
      BY <1>7
    <2>2. i \in Nat /\ j \in Nat
      BY <1>2, <2>1, SlotsAre
    <2>3. x = d /\ j = i
      BY <1>1, <2>1, <2>2 DEF Once, Place
    <2> QED BY <1>3, <2>3
  <1>10. \A x \in Dirs : \A j \in Slots(w, x) : x # n
    BY <1>7
  <1>11. Typed(w, nd2)
    <2>1. ASSUME NEW x \in Dirs PROVE Len(w[x]) <= MaxSlots
      BY <1>1, <1>3 DEF Typed, Dirs
    <2>2. ASSUME NEW x \in Dirs, NEW j \in Slots(w, x) PROVE LiveDir(nd2, x) /\ w[x][j].id \in Nodes
      <3>1. j \in Slots(t, x) /\ w[x][j] = t[x][j] /\ x # n
        BY <1>7, <1>10
      <3>2. LiveDir(nd, x) /\ t[x][j].id \in Nodes
        BY <1>1, <3>1, TypedIs
      <3> QED BY <1>6, <3>1, <3>2
    <2> QED BY <1>3, <1>4, <2>1, <2>2, TypedWhen
  <1>12. ASSUME NEW a \in Dirs, NEW b \in Dirs, b # n, Under(t, a, b) PROVE Under(w, a, b)
    <2> SUFFICES ASSUME NEW S \in SUBSET Dirs, a \in S, Closed(w, S) PROVE b \in S
      BY DEF Under
    <2> DEFINE R == S \cup {n}
    <2>1. R \in SUBSET Dirs /\ a \in R
      BY NodesAre
    <2>2. Closed(t, R)
      <3> SUFFICES ASSUME NEW x \in R, NEW j \in Slots(t, x), t[x][j].id # n PROVE t[x][j].id \in S
        BY DEF Closed
      <3>1. x \in S /\ x \in Dirs
        BY <2>1
      <3>2. j \in Slots(w, x) /\ w[x][j] = t[x][j]
        BY <1>8, <1>7, <3>1
      <3> QED BY <3>1, <3>2 DEF Closed
    <2>3. b \in R
      BY <1>12, <2>1, <2>2 DEF Under
    <2> QED BY <1>12, <2>3
  <1>13. Listed(w, nd2)
    BY <1>1, <1>5, <1>7, <1>9 DEF Listed
  <1>14. Placed(w, nd2)
    <2> SUFFICES ASSUME NEW m \in Live(nd2) PROVE \E x \in Dirs, j \in Nat : Place(w, x, j, m)
      BY DEF Placed
    <2>1. PICK x \in Dirs, j \in Nat : Place(t, x, j, m)
      BY <1>1, <1>5 DEF Placed
    <2>2. j \in Slots(t, x) /\ t[x][j].id = m /\ m # n
      BY <1>5, <2>1 DEF Place
    <2>3. j \in Slots(w, x) /\ w[x][j].id = m
      BY <1>7, <1>8, <2>2
    <2> QED BY <2>3 DEF Place
  <1>15. \A x \in Dirs, j \in Nat, m \in Nodes : Place(w, x, j, m) => Place(t, x, j, m)
    BY <1>7 DEF Place
  <1>16. Once(w)
    BY <1>1, <1>15 DEF Once
  <1>17. Reached(w, nd2)
    <2> SUFFICES ASSUME NEW m \in Live(nd2) PROVE Under(w, Root, m)
      BY DEF Reached
    <2>1. m \in Dirs /\ m # n /\ Under(t, Root, m) /\ Root \in Dirs
      BY <1>1, <1>5, NodesAre DEF Reached, Live
    <2> QED BY <1>12, <2>1
  <1>18. NamesOnce(w)
    BY <1>1, <1>7 DEF NamesOnce
  <1>19. UpRight(w, nd2)
    <2>1. \A m \in Live(nd2) : m \in Live(nd) /\ m \in Nodes /\ nd2[m] = nd[m]
      BY <1>4, <1>5 DEF Live
    <2> QED BY <1>1, <1>15, <2>1 DEF UpRight
  <1>20. TreeRight(w, nd2)
    BY <1>11, <1>13, <1>14, <1>16, <1>17, <1>18, <1>19 DEF TreeRight
  <1> QED BY <1>5, <1>6, <1>7, <1>8, <1>12, <1>20 DEF Without

\* A new file or directory.
Fits(t, d, i, e) ==
    /\ i \in 1 .. MaxSlots /\ i <= Len(t[d]) + 1 /\ (i <= Len(t[d]) => t[d][i] = Free)
    /\ e \in SlotType /\ \A j \in Slots(t, d) : t[d][j].name # e.name
Newly(nd, d, n, r) ==
    n \in Nodes /\ n \notin Live(nd) /\ r \in NodeType /\ r.kind # "free" /\ (r.kind = "dir" => r.up.low = d)

\* A new entry with a new cluster, in a directory that has no such name: mwrite_one.
LEMMA Inserted ==
    ASSUME NEW t, NEW nd, TreeRight(t, nd), NEW d, d \in Dirs, LiveDir(nd, d), NEW i, NEW n, NEW e, NEW r,
           Fits(t, d, i, e), Newly(nd, d, n, r), e.id = n,
           NEW w, w = Put(t, d, i, e), NEW nd2, nd2 = [nd EXCEPT ![n] = r]
    PROVE  /\ TreeRight(w, nd2) /\ NoDirLost(nd, nd2) /\ (r.kind = "dir" => LiveDir(nd2, n))
  <1> SUFFICES ASSUME i \in 1 .. MaxSlots, i <= Len(t[d]) + 1, i <= Len(t[d]) => t[d][i] = Free,
                      n \in Nodes, n \notin Live(nd), e \in SlotType,
                      \A j \in Slots(t, d) : t[d][j].name # e.name,
                      r \in NodeType, r.kind # "free", r.kind = "dir" => r.up.low = d
               PROVE  TreeRight(w, nd2) /\ NoDirLost(nd, nd2) /\ (r.kind = "dir" => LiveDir(nd2, n))
    BY DEF Fits, Newly
  <1>1. /\ Typed(t, nd) /\ Listed(t, nd) /\ Placed(t, nd) /\ Once(t) /\ Reached(t, nd)
        /\ NamesOnce(t) /\ UpRight(t, nd)
    BY DEF TreeRight
  <1>2. t \in TreeType /\ nd \in [Nodes -> NodeType] /\ MaxSlots \in Nat
    BY <1>1, TypedIs, NodeTypeIs, NodesAssumption
  <1>3. i \in Nat /\ 1 <= i /\ i <= MaxSlots
    BY <1>2
  <1>4. e # Free
    BY FreeIs, NodesAre
  <1>5. /\ w \in TreeType /\ w[d][i] = e
        /\ \A x \in Dirs : Len(w[x]) = Len(t[x]) \/ (x = d /\ Len(w[x]) = i)
        /\ \A x \in Dirs : Slots(w, x) = IF x = d THEN Slots(t, d) \cup {i} ELSE Slots(t, x)
        /\ \A x \in Dirs : \A j \in Slots(t, x) : w[x][j] = t[x][j]
        /\ i \notin Slots(t, d)
    BY <1>2, <1>3, <1>4, PutIs
  <1>6. nd2 \in [Nodes -> NodeType] /\ nd2[n] = r /\ \A m \in Nodes : m # n => nd2[m] = nd[m]
    BY <1>2
  <1>7. Live(nd2) = Live(nd) \cup {n} /\ n \in Live(nd2) /\ Live(nd) \subseteq Nodes
    BY <1>6 DEF Live
  <1>8. nd[n].kind = "free"
    BY DEF Live
  <1>9. NoDirLost(nd, nd2)
    BY <1>6, <1>8 DEF NoDirLost, LiveDir
  <1>10. \A x \in Dirs : \A j \in Slots(w, x) : \/ j \in Slots(t, x) /\ w[x][j] = t[x][j]
                                                \/ x = d /\ j = i /\ w[x][j] = e
    BY <1>5
  <1>11. \A x \in Dirs, j \in Nat, m \in Nodes : Place(w, x, j, m) <=> Place(t, x, j, m) \/ (m = n /\ x = d /\ j = i)
    <2> SUFFICES ASSUME NEW x \in Dirs, NEW j \in Nat, NEW m \in Nodes
                 PROVE  Place(w, x, j, m) <=> Place(t, x, j, m) \/ (m = n /\ x = d /\ j = i)
      OBVIOUS
    <2>1. Place(w, x, j, m) => Place(t, x, j, m) \/ (m = n /\ x = d /\ j = i)
      BY <1>10 DEF Place
    <2>2. Place(t, x, j, m) => Place(w, x, j, m)
      BY <1>5 DEF Place
    <2>3. m = n /\ x = d /\ j = i => Place(w, x, j, m)
      BY <1>5 DEF Place
    <2> QED BY <2>1, <2>2, <2>3
  <1>12. \A x \in Dirs, j \in Nat : ~Place(t, x, j, n)
    BY <1>1 DEF Listed, Place
  <1>13. Typed(w, nd2)
    <2>1. ASSUME NEW x \in Dirs PROVE Len(w[x]) <= MaxSlots
      <3>1. Len(t[x]) <= MaxSlots
        BY <1>1 DEF Typed, Dirs
      <3> QED BY <1>3, <1>5, <3>1
    <2>2. ASSUME NEW x \in Dirs, NEW j \in Slots(w, x) PROVE LiveDir(nd2, x) /\ w[x][j].id \in Nodes
      <3>1. CASE j \in Slots(t, x) /\ w[x][j] = t[x][j]
        <4>1. LiveDir(nd, x) /\ t[x][j].id \in Nodes
          BY <1>1, <3>1, TypedIs
        <4> QED BY <1>9, <3>1, <4>1 DEF NoDirLost
      <3>2. CASE x = d /\ j = i /\ w[x][j] = e
        BY <1>9, <3>2 DEF NoDirLost
      <3> QED BY <1>10, <3>1, <3>2
    <2> QED BY <1>5, <1>6, <2>1, <2>2, TypedWhen
  <1>14. \A a, b \in Dirs : Under(t, a, b) => Under(w, a, b)
    <2> SUFFICES ASSUME NEW S \in SUBSET Dirs, Closed(w, S) PROVE Closed(t, S)
      BY DEF Under
    <2> QED BY <1>5 DEF Closed
  <1>15. Listed(w, nd2)
    BY <1>1, <1>7, <1>10 DEF Listed
  <1>16. Placed(w, nd2)
    BY <1>1, <1>3, <1>7, <1>11 DEF Placed
  <1>17. Once(w)
    <2> SUFFICES ASSUME NEW m \in Nodes, NEW x \in Dirs, NEW y \in Dirs, NEW j \in Nat, NEW k \in Nat,
                        Place(w, x, j, m), Place(w, y, k, m)
                 PROVE  x = y /\ j = k
      BY DEF Once
    <2>1. Place(t, x, j, m) \/ (m = n /\ x = d /\ j = i)
      BY <1>11
    <2>2. Place(t, y, k, m) \/ (m = n /\ y = d /\ k = i)
      BY <1>11
    <2> QED BY <1>1, <1>12, <2>1, <2>2 DEF Once
  <1>18. Reached(w, nd2)
    <2> SUFFICES ASSUME NEW m \in Live(nd2) PROVE Under(w, Root, m)
      BY DEF Reached
    <2>1. CASE m \in Live(nd)
      BY <1>1, <1>7, <1>14, <2>1, NodesAre DEF Reached
    <2>2. CASE m = n
      <3>1. Under(t, Root, d)
        <4>1. CASE d = Root
          BY <4>1 DEF Under
        <4>2. CASE d # Root
          BY <1>1, <4>2 DEF LiveDir, Live, Reached
        <4> QED BY <4>1, <4>2
      <3>2. Under(w, Root, d)
        BY <1>14, <3>1, NodesAre
      <3>3. i \in Slots(w, d) /\ w[d][i].id = n
        BY <1>5
      <3> QED BY <1>13, <2>2, <3>2, <3>3, UnderIs, NodesAre
    <2> QED BY <1>7, <2>1, <2>2
  <1>19. NamesOnce(w)
    <2> SUFFICES ASSUME NEW x \in Dirs, NEW j \in Slots(w, x), NEW k \in Slots(w, x), w[x][j].name = w[x][k].name
                 PROVE  j = k
      BY DEF NamesOnce
    <2>1. \/ j \in Slots(t, x) /\ w[x][j] = t[x][j]
          \/ x = d /\ j = i /\ w[x][j] = e
      BY <1>10
    <2>2. \/ k \in Slots(t, x) /\ w[x][k] = t[x][k]
          \/ x = d /\ k = i /\ w[x][k] = e
      BY <1>10
    <2> QED BY <1>1, <2>1, <2>2 DEF NamesOnce
  <1>20. UpRight(w, nd2)
    <2> SUFFICES ASSUME NEW m \in Live(nd2), NEW x \in Dirs, NEW j \in Nat, Place(w, x, j, m), nd2[m].kind = "dir"
                 PROVE  nd2[m].up.low = x
      BY DEF UpRight
    <2>1. m \in Nodes
      BY <1>7
    <2>2. CASE m = n
      BY <1>6, <1>11, <1>12, <2>1, <2>2
    <2>3. CASE m # n
      <3>1. m \in Live(nd) /\ nd2[m] = nd[m] /\ Place(t, x, j, m)
        BY <1>6, <1>7, <1>11, <2>1, <2>3
      <3> QED BY <1>1, <3>1 DEF UpRight
    <2> QED BY <2>2, <2>3
  <1>21. r.kind = "dir" => LiveDir(nd2, n)
    BY <1>6 DEF LiveDir
  <1> QED BY <1>9, <1>13, <1>15, <1>16, <1>17, <1>18, <1>19, <1>20, <1>21 DEF TreeRight


\* What mmove does to the ".." of a directory, and mattrib to an entry.
Reparented(nd, n, d, q) == IF nd[n].kind = "dir" /\ q # d THEN [nd EXCEPT ![n].up.low = q] ELSE nd
ReadOnly(t, d, i) == [t EXCEPT ![d][i].ro = TRUE]

\* An entry goes to another place, with what is below it.
LEMMA Relocated ==
    ASSUME NEW t, NEW nd, TreeRight(t, nd), NEW d \in Dirs, NEW i \in Slots(t, d), NEW n \in Nodes,
           Place(t, d, i, n), NEW q \in Dirs, LiveDir(nd, q), ~Under(t, n, q),
           NEW v, v = Wiped(t, d, i),
           NEW j, NEW e, Fits(v, q, j, e), e.id = n,
           NEW w, w = Put(v, q, j, e),
           NEW nd2, nd2 = Reparented(nd, n, d, q)
    PROVE  TreeRight(w, nd2) /\ NoDirLost(nd, nd2)
  <1> SUFFICES ASSUME j \in 1 .. MaxSlots, j <= Len(v[q]) + 1, j <= Len(v[q]) => v[q][j] = Free,
                      e \in SlotType, \A k \in Slots(v, q) : v[q][k].name # e.name
               PROVE  TreeRight(w, nd2) /\ NoDirLost(nd, nd2)
    BY DEF Fits
  <1>1. /\ Typed(t, nd) /\ Listed(t, nd) /\ Placed(t, nd) /\ Once(t) /\ Reached(t, nd)
        /\ NamesOnce(t) /\ UpRight(t, nd)
    BY DEF TreeRight
  <1>2. t \in TreeType /\ nd \in [Nodes -> NodeType] /\ MaxSlots \in Nat /\ n \in Dirs /\ Root \in Dirs
    BY <1>1, TypedIs, NodeTypeIs, NodesAssumption, NodesAre
  <1>3. /\ v \in TreeType
        /\ \A x \in Dirs : Len(v[x]) = Len(t[x])
        /\ \A x \in Dirs : Slots(v, x) = IF x = d THEN Slots(t, d) \ {i} ELSE Slots(t, x)
        /\ \A x \in Dirs : \A k \in Slots(v, x) : v[x][k] = t[x][k]
    BY <1>2, WipedIs
  <1>4. e # Free /\ j \in Nat /\ 1 <= j /\ j <= MaxSlots
    BY <1>2, FreeIs, NodesAre
  <1>5. /\ w \in TreeType /\ w[q][j] = e
        /\ \A x \in Dirs : Len(w[x]) = Len(v[x]) \/ (x = q /\ Len(w[x]) = j)
        /\ \A x \in Dirs : Slots(w, x) = IF x = q THEN Slots(v, q) \cup {j} ELSE Slots(v, x)
        /\ \A x \in Dirs : \A k \in Slots(v, x) : w[x][k] = v[x][k]
        /\ j \notin Slots(v, q)
    BY <1>3, <1>4, PutIs
  <1>6. /\ nd2 \in [Nodes -> NodeType] /\ \A m \in Nodes : nd2[m].kind = nd[m].kind
        /\ \A m \in Nodes : m # n => nd2[m] = nd[m]
        /\ nd[n].kind = "dir" => nd2[n].up.low = IF q # d THEN q ELSE nd[n].up.low
    <2>1. CASE nd[n].kind = "dir" /\ q # d
      <3> DEFINE u == [nd[n].up EXCEPT !.low = q]
                 z == [nd[n] EXCEPT !.up = u]
      <3>1. nd2 = [nd EXCEPT ![n] = z]
        BY <1>2, <2>1 DEF Reparented
      <3>2. nd[n] \in NodeType
        BY <1>2
      <3>3. u \in [low : Dirs, high : BOOLEAN] /\ u.low = q
        BY <3>2 DEF NodeType
      <3> HIDE DEF u
      <3>4. z \in NodeType /\ z.kind = nd[n].kind /\ z.up = u
        BY <3>2, <3>3 DEF NodeType
      <3> HIDE DEF z
      <3> QED BY <1>2, <2>1, <3>1, <3>3, <3>4
    <2>2. CASE ~(nd[n].kind = "dir" /\ q # d)
      BY <1>2, <2>2 DEF Reparented
    <2> QED BY <2>1, <2>2
  <1>7. Live(nd2) = Live(nd) /\ Live(nd) \subseteq Nodes /\ n \in Live(nd)
    BY <1>1, <1>6 DEF Live, Listed, Place
  <1>8. NoDirLost(nd, nd2)
    BY <1>6 DEF NoDirLost, LiveDir
  <1>9. \A x \in Dirs : \A k \in Slots(v, x) : k \in Slots(t, x) /\ v[x][k] = t[x][k] /\ v[x][k].id # n
    <2> SUFFICES ASSUME NEW x \in Dirs, NEW k \in Slots(v, x)
                 PROVE  k \in Slots(t, x) /\ v[x][k] = t[x][k] /\ t[x][k].id # n
      OBVIOUS
    <2>1. k \in Slots(t, x) /\ v[x][k] = t[x][k] /\ ~(x = d /\ k = i)
      BY <1>3
    <2>2. i \in Nat /\ k \in Nat
      BY <1>2, <2>1, SlotsAre
    <2>3. t[x][k].id # n
      BY <1>1, <2>1, <2>2 DEF Once, Place
    <2> QED BY <2>1, <2>3
  <1>10. \A x \in Dirs : \A k \in Slots(w, x) : \/ k \in Slots(v, x) /\ w[x][k] = v[x][k]
                                                \/ x = q /\ k = j /\ w[x][k] = e
    BY <1>5
  <1>11. \A x \in Dirs, k \in Nat, m \in Nodes :
            Place(w, x, k, m) <=> IF m = n THEN x = q /\ k = j ELSE Place(t, x, k, m)
    <2> SUFFICES ASSUME NEW x \in Dirs, NEW k \in Nat, NEW m \in Nodes
                 PROVE  Place(w, x, k, m) <=> IF m = n THEN x = q /\ k = j ELSE Place(t, x, k, m)
      OBVIOUS
    <2>1. CASE m = n
      <3>1. Place(w, x, k, n) => x = q /\ k = j
        BY <1>9, <1>10 DEF Place
      <3>2. x = q /\ k = j => Place(w, x, k, n)
        BY <1>5 DEF Place
      <3> QED BY <2>1, <3>1, <3>2
    <2>2. CASE m # n
      <3>1. Place(w, x, k, m) => Place(t, x, k, m)
        BY <1>9, <1>10, <2>2 DEF Place
      <3>2. Place(t, x, k, m) => Place(w, x, k, m)
        <4> SUFFICES ASSUME Place(t, x, k, m) PROVE Place(w, x, k, m)
          OBVIOUS
        <4>1. k \in Slots(t, x) /\ t[x][k].id = m
          BY DEF Place
        <4>2. ~(x = d /\ k = i)
          BY <2>2, <4>1 DEF Place
        <4>3. k \in Slots(v, x) /\ v[x][k] = t[x][k]
          BY <1>3, <4>1, <4>2
        <4> QED BY <1>5, <4>1, <4>3 DEF Place
      <3> QED BY <2>2, <3>1, <3>2
    <2> QED BY <2>1, <2>2
  <1>12. Typed(w, nd2)
    <2>1. ASSUME NEW x \in Dirs PROVE Len(w[x]) <= MaxSlots
      <3>1. Len(v[x]) <= MaxSlots
        BY <1>1, <1>3 DEF Typed, Dirs
      <3> QED BY <1>4, <1>5, <3>1
    <2>2. ASSUME NEW x \in Dirs, NEW k \in Slots(w, x) PROVE LiveDir(nd2, x) /\ w[x][k].id \in Nodes
      <3>1. CASE k \in Slots(v, x) /\ w[x][k] = v[x][k]
        <4>1. LiveDir(nd, x) /\ t[x][k].id \in Nodes
          BY <1>1, <1>9, <3>1, TypedIs
        <4> QED BY <1>8, <1>9, <3>1, <4>1 DEF NoDirLost
      <3>2. CASE x = q /\ k = j /\ w[x][k] = e
        BY <1>8, <3>2 DEF NoDirLost
      <3> QED BY <1>10, <3>1, <3>2
    <2> QED BY <1>5, <1>6, <2>1, <2>2, TypedWhen
  <1>13. Listed(w, nd2)
    BY <1>1, <1>7, <1>9, <1>10 DEF Listed
  <1>14. Placed(w, nd2)
    BY <1>1, <1>4, <1>7, <1>11 DEF Placed
  <1>15. Once(w)
    <2> SUFFICES ASSUME NEW m \in Nodes, NEW x \in Dirs, NEW y \in Dirs, NEW k \in Nat, NEW l \in Nat,
                        Place(w, x, k, m), Place(w, y, l, m)
                 PROVE  x = y /\ k = l
      BY DEF Once
    <2>1. IF m = n THEN x = q /\ k = j ELSE Place(t, x, k, m)
      BY <1>11
    <2>2. IF m = n THEN y = q /\ l = j ELSE Place(t, y, l, m)
      BY <1>11
    <2> QED BY <1>1, <2>1, <2>2 DEF Once
  <1>16. ASSUME NEW b \in Dirs, Under(t, Root, b) PROVE Under(w, Root, b)
    <2> SUFFICES ASSUME NEW S \in SUBSET Dirs, Root \in S, Closed(w, S) PROVE b \in S
      BY DEF Under
    <2> DEFINE A == {x \in Dirs : Under(t, n, x)}
               R == S \cup A
    <2>1. \A x \in Dirs : \A k \in Slots(t, x) : x \in S /\ t[x][k].id # n => t[x][k].id \in S
      <3> SUFFICES ASSUME NEW x \in Dirs, NEW k \in Slots(t, x), x \in S, t[x][k].id # n PROVE t[x][k].id \in S
        OBVIOUS
      <3>1. k \in Nat /\ t[x][k].id \in Nodes
        BY <1>1, <1>2, SlotsAre, TypedIs
      <3>2. Place(w, x, k, t[x][k].id)
        BY <1>11, <3>1 DEF Place
      <3> QED BY <3>2 DEF Closed, Place
    <2>2. n \in A
      BY <1>1, <1>2, UnderIs
    <2>3. Closed(t, R)
      <3> SUFFICES ASSUME NEW x \in R, NEW k \in Slots(t, x) PROVE t[x][k].id \in R
        BY DEF Closed
      <3>1. x \in Dirs /\ t[x][k].id \in Dirs
        BY <1>1, TypedIs, NodesAre
      <3>2. CASE x \in S
        BY <2>1, <2>2, <3>1, <3>2
      <3>3. CASE x \in A
        BY <1>1, <1>2, <3>1, <3>3, UnderIs
      <3> QED BY <3>2, <3>3
    <2>4. Under(t, Root, q)
      <3>1. CASE q = Root
        BY <3>1 DEF Under
      <3>2. CASE q # Root
        BY <1>1, <3>2 DEF LiveDir, Live, Reached
      <3> QED BY <3>1, <3>2
    <2>5. R \in SUBSET Dirs /\ Root \in R
      OBVIOUS
    <2>6. q \in R /\ b \in R
      BY <1>16, <2>3, <2>4, <2>5 DEF Under
    <2>7. q \in S
      BY <2>6
    <2>8. n \in S
      <3>1. j \in Slots(w, q) /\ w[q][j].id = n
        BY <1>5
      <3> QED BY <2>7, <3>1 DEF Closed
    <2>9. Closed(t, S)
      <3> SUFFICES ASSUME NEW x \in S, NEW k \in Slots(t, x) PROVE t[x][k].id \in S
        BY DEF Closed
      <3> QED BY <2>1, <2>8
    <2> QED BY <1>16, <2>9 DEF Under
  <1>17. Reached(w, nd2)
    BY <1>1, <1>7, <1>16, NodesAre DEF Reached
  <1>18. NamesOnce(w)
    <2> SUFFICES ASSUME NEW x \in Dirs, NEW k \in Slots(w, x), NEW l \in Slots(w, x), w[x][k].name = w[x][l].name
                 PROVE  k = l
      BY DEF NamesOnce
    <2>1. \/ k \in Slots(v, x) /\ w[x][k] = v[x][k]
          \/ x = q /\ k = j /\ w[x][k] = e
      BY <1>10
    <2>2. \/ l \in Slots(v, x) /\ w[x][l] = v[x][l]
          \/ x = q /\ l = j /\ w[x][l] = e
      BY <1>10
    <2>3. CASE k \in Slots(v, x) /\ w[x][k] = v[x][k] /\ l \in Slots(v, x) /\ w[x][l] = v[x][l]
      BY <1>1, <1>9, <2>3 DEF NamesOnce
    <2> QED BY <2>1, <2>2, <2>3
  <1>19. UpRight(w, nd2)
    <2> SUFFICES ASSUME NEW m \in Live(nd2), NEW x \in Dirs, NEW k \in Nat, Place(w, x, k, m), nd2[m].kind = "dir"
                 PROVE  nd2[m].up.low = x
      BY DEF UpRight
    <2>1. m \in Nodes /\ m \in Live(nd)
      BY <1>7
    <2>2. CASE m = n
      <3>1. x = q /\ nd[n].kind = "dir"
        BY <1>6, <1>11, <2>2
      <3>2. nd[n].up.low = d
        <4>1. i \in Nat
          BY <1>2, SlotsAre
        <4> QED BY <1>1, <1>7, <3>1, <4>1 DEF UpRight
      <3> QED BY <1>6, <2>2, <3>1, <3>2
    <2>3. CASE m # n
      <3>1. nd2[m] = nd[m] /\ Place(t, x, k, m)
        BY <1>6, <1>11, <2>1, <2>3
      <3> QED BY <1>1, <2>1, <3>1 DEF UpRight
    <2> QED BY <2>2, <2>3
  <1> QED BY <1>8, <1>12, <1>13, <1>14, <1>15, <1>17, <1>18, <1>19 DEF TreeRight

\* Only the attribute of an entry changes.
LEMMA Relabelled ==
    ASSUME NEW t, NEW nd, TreeRight(t, nd), NEW d \in Dirs, NEW i \in Slots(t, d),
           NEW w, w = ReadOnly(t, d, i)
    PROVE  TreeRight(w, nd)
  <1>1. /\ Typed(t, nd) /\ Listed(t, nd) /\ Placed(t, nd) /\ Once(t) /\ Reached(t, nd)
        /\ NamesOnce(t) /\ UpRight(t, nd)
    BY DEF TreeRight
  <1>2. t \in TreeType /\ nd \in [Nodes -> NodeType]
    BY <1>1, TypedIs, NodeTypeIs
  <1>3. t[d] \in Seq(SlotType) /\ i \in 1 .. Len(t[d]) /\ t[d][i] \in SlotType
    BY <1>2, SlotsAre
  <1> DEFINE e == [t[d][i] EXCEPT !.ro = TRUE]
             s == [t[d] EXCEPT ![i] = e]
  <1>4. e \in SlotType /\ e.id = t[d][i].id /\ e.name = t[d][i].name
    BY <1>3 DEF SlotType
  <1>5. e.id \in Nodes
    BY <1>1, <1>4, TypedIs
  <1>6. e # Free
    BY <1>5, FreeIs, NodesAre
  <1> HIDE DEF e
  <1>7. s \in Seq(SlotType) /\ Len(s) = Len(t[d]) /\ s[i] = e
        /\ \A k \in 1 .. Len(t[d]) : k # i => s[k] = t[d][k]
    BY <1>3, <1>4
  <1>8. w = [t EXCEPT ![d] = s]
    BY <1>2, <1>3 DEF e, ReadOnly
  <1> HIDE DEF s
  <1>9. w \in TreeType /\ w[d] = s /\ \A x \in Dirs : x # d => w[x] = t[x]
    BY <1>2, <1>7, <1>8 DEF TreeType
  <1>10. ASSUME NEW x \in Dirs
         PROVE  /\ Len(w[x]) = Len(t[x]) /\ Slots(w, x) = Slots(t, x)
                /\ \A k \in Slots(t, x) : w[x][k].id = t[x][k].id /\ w[x][k].name = t[x][k].name
    <2>1. CASE x = d
      <3>1. Slots(w, d) = {k \in 1 .. Len(s) : s[k] # Free}
        BY <1>9, SlotsAre
      <3>2. Slots(t, d) = {k \in 1 .. Len(t[d]) : t[d][k] # Free}
        BY <1>2, SlotsAre
      <3>3. ASSUME NEW k \in Slots(t, d)
            PROVE  k \in Slots(w, d) /\ s[k].id = t[d][k].id /\ s[k].name = t[d][k].name
        BY <1>4, <1>6, <1>7, <3>1, <3>2
      <3>4. Slots(w, d) \subseteq Slots(t, d)
        BY <1>7, <3>1, <3>2
      <3> QED BY <1>7, <1>9, <2>1, <3>3, <3>4
    <2>2. CASE x # d
      BY <1>9, <2>2 DEF Slots
    <2> QED BY <2>1, <2>2
  <1>11. Typed(w, nd)
    <2>1. ASSUME NEW x \in Dirs PROVE Len(w[x]) <= MaxSlots
      BY <1>1, <1>10 DEF Typed, Dirs
    <2>2. ASSUME NEW x \in Dirs, NEW k \in Slots(w, x) PROVE LiveDir(nd, x) /\ w[x][k].id \in Nodes
      <3>1. k \in Slots(t, x) /\ w[x][k].id = t[x][k].id
        BY <1>10
      <3> QED BY <1>1, <3>1, TypedIs
    <2> QED BY <1>2, <1>9, <2>1, <2>2, TypedWhen
  <1>12. \A x \in Dirs, k \in Nat, m \in Nodes : Place(w, x, k, m) <=> Place(t, x, k, m)
    BY <1>10 DEF Place
  <1>13. \A S \in SUBSET Dirs : Closed(w, S) <=> Closed(t, S)
    BY <1>10 DEF Closed
  <1>14. Listed(w, nd) /\ NamesOnce(w) /\ Reached(w, nd)
    BY <1>1, <1>10, <1>13 DEF Listed, NamesOnce, Reached, Under
  <1>15. Live(nd) \subseteq Nodes
    BY DEF Live
  <1>16. Placed(w, nd) /\ Once(w) /\ UpRight(w, nd)
    BY <1>1, <1>12, <1>15 DEF Placed, Once, UpRight
  <1> QED BY <1>11, <1>14, <1>16 DEF TreeRight

-----------------------------------------------------------------------------
(* Looking things up                                                        *)

\* A set of numbers has a least one, and Least is it.
LEMMA LeastIs ==
    ASSUME NEW S \in SUBSET Nat, S # {}
    PROVE  /\ \E i \in S : \A j \in S : i <= j
           /\ Least(S) \in S /\ \A j \in S : Least(S) <= j
  <1>1. PICK i \in S : \A j \in S : <<j, i>> \notin OpToRel(<, Nat)
    BY WFMin, NatLessThanWellFounded
  <1>2. \A j \in S : i <= j
    <2> TAKE j \in S
    <2>1. i \in Nat /\ j \in Nat
      OBVIOUS
    <2>2. ~(j < i)
      BY <1>1, <2>1 DEF OpToRel
    <2> QED BY <2>1, <2>2
  <1> QED BY <1>2 DEF Least

\* A function defined from one number to the next exists.
Steps(S, a, N, g, w) ==
    w \in [0 .. N -> S] /\ w[0] = a /\ \A k \in 0 .. N : k # 0 => w[k] = g[<<w[k - 1], k>>]

\* A function that is defined step by step exists.
LEMMA Stepwise ==
    ASSUME NEW S, NEW a \in S, NEW N \in Nat, NEW g \in [S \X Nat -> S]
    PROVE  \E w : Steps(S, a, N, g, w)
  <1> DEFINE Is(n, w) == Steps(S, a, n, g, w)
             T == {n \in Nat : \E w : Is(n, w)}
  <1>1. 0 \in T
    <2> DEFINE w == [k \in 0 .. 0 |-> a]
    <2>1. Is(0, w)
      BY DEF Steps
    <2> QED BY <2>1
  <1>2. ASSUME NEW n \in Nat, n \in T PROVE n + 1 \in T
    <2>1. PICK w : Is(n, w)
      BY <1>2
    <2> DEFINE b == g[<<w[n], n + 1>>]
               v == [k \in 0 .. n + 1 |-> IF k = n + 1 THEN b ELSE w[k]]
    <2>2. b \in S
      BY <2>1 DEF Steps
    <2>3. v \in [0 .. n + 1 -> S] /\ v[n + 1] = b /\ \A k \in 0 .. n : v[k] = w[k]
      BY <2>1, <2>2 DEF Steps
    <2> HIDE DEF v
    <2>4. v[0] = a
      BY <2>1, <2>3 DEF Steps
    <2>5. ASSUME NEW k \in 0 .. n + 1, k # 0 PROVE v[k] = g[<<v[k - 1], k>>]
      <3>1. CASE k = n + 1
        BY <2>3, <3>1 DEF Steps
      <3>2. CASE k # n + 1
        <4>1. k \in 0 .. n /\ k - 1 \in 0 .. n
          BY <2>5, <3>2
        <4> QED BY <2>1, <2>3, <2>5, <4>1 DEF Steps
      <3> QED BY <3>1, <3>2
    <2>6. Is(n + 1, v)
      BY <2>3, <2>4, <2>5 DEF Steps
    <2> QED BY <2>6
  <1> HIDE DEF T
  <1>3. N \in T
    BY <1>1, <1>2, Counting
  <1> QED BY <1>3 DEF T

LiveDirs == {d \in Dirs : LiveDir(node, d)}

\* IsDir is true of the directories there are.
LEMMA IsDirIs ==
    /\ \A n \in Dirs : IsDir(n) <=> LiveDir(node, n)
    /\ Root \in LiveDirs /\ None \notin LiveDirs /\ LiveDirs \subseteq Dirs
  BY NodesAre DEF IsDir, LiveDir, LiveDirs, Dirs

\* The entry of a directory is where the directory is.
LEMMA SelfIs ==
    ASSUME TreeRight(tree, node), NEW d \in LiveDirs
    PROVE  /\ Self(d) \in [dir : Dirs, slot : Nat, id : Dirs] /\ Self(d).id = d /\ Self(d).dir \in LiveDirs
           /\ d # Root => Place(tree, Self(d).dir, Self(d).slot, d)
           /\ Self(Root) \in [dir : Dirs, slot : Nat, id : Dirs]
  <1> DEFINE r == [dir |-> Root, slot |-> 0, id |-> Root]
  <1>1. Self(Root) = r
    BY DEF Self
  <1>2. r \in [dir : Dirs, slot : Nat, id : Dirs] /\ r.id = Root /\ r.dir = Root
    BY NodesAre
  <1> HIDE DEF r
  <1>3. CASE d = Root
    BY <1>1, <1>2, <1>3, IsDirIs
  <1>4. CASE d # Root
    <2>1. Typed(tree, node) /\ Placed(tree, node) /\ d \in Live(node) /\ d \in Nodes
      BY <1>4 DEF TreeRight, LiveDirs, LiveDir, Live
    <2>2. PICK p \in Dirs, i \in Nat : Place(tree, p, i, d)
      BY <2>1 DEF Placed
    <2>3. <<p, i>> \in Entries(tree, d)
      BY <2>1, <2>2, EntriesAre
    <2> DEFINE x == CHOOSE x \in Entries(tree, d) : TRUE
    <2>4. x \in Entries(tree, d)
      BY <2>3
    <2>5. Self(d) = [dir |-> x[1], slot |-> x[2], id |-> d]
      BY <1>4 DEF Self
    <2> HIDE DEF x
    <2>6. PICK q \in Dirs, k \in Nat : x = <<q, k>>
      BY <2>1, <2>4, EntriesAre
    <2>7. Place(tree, q, k, d)
      BY <2>1, <2>4, <2>6, EntriesAre
    <2>8. LiveDir(node, q)
      BY <2>1, <2>7, TypedIs DEF Place
    <2>9. Self(d) = [dir |-> q, slot |-> k, id |-> d]
      BY <2>5, <2>6
    <2> QED BY <1>1, <1>2, <2>7, <2>8, <2>9 DEF LiveDirs
  <1> QED BY <1>3, <1>4

\* SubDir finds a directory or nothing.
LEMMA SubDirIs ==
    ASSUME TreeRight(tree, node), NEW d \in Dirs, NEW nm
    PROVE  SubDir(d, nm) \in LiveDirs \cup {None}
  <1> DEFINE found == {tree[d][i].id : i \in {i \in Named(d, nm) : IsDir(tree[d][i].id)}}
  <1>1. Typed(tree, node)
    BY DEF TreeRight
  <1>2. \A i \in Named(d, nm) : tree[d][i].id \in Nodes
    BY <1>1, TypedIs DEF Named
  <1>3. found \subseteq LiveDirs
    BY <1>2, IsDirIs, NodesAre DEF LiveDirs
  <1>4. SubDir(d, nm) = IF found = {} THEN None ELSE CHOOSE n \in found : TRUE
    BY DEF SubDir
  <1> HIDE DEF found
  <1> QED BY <1>3, <1>4

Turn(x, nm) ==
    CASE x = None \/ nm = Dot -> x
      [] x # None /\ nm = Up -> Self(x).dir
      [] OTHER -> SubDir(x, nm)
Leads(d, path, w) ==
    w = [k \in 0 .. Len(path) |->
            IF k = 0 THEN d
            ELSE CASE w[k - 1] = None \/ path[k] = Dot -> w[k - 1]
                   [] w[k - 1] # None /\ path[k] = Up -> Self(w[k - 1]).dir
                   [] OTHER -> SubDir(w[k - 1], path[k])]

\* One name of a path leads to a directory or nowhere, ...
LEMMA TurnIs ==
    ASSUME TreeRight(tree, node), NEW x \in LiveDirs \cup {None}, NEW nm
    PROVE  Turn(x, nm) \in LiveDirs \cup {None}
  <1>1. CASE x = None \/ nm = Dot
    BY <1>1 DEF Turn, Dot, Up
  <1>2. CASE x # None /\ nm # Dot /\ nm = Up
    <2>1. Turn(x, nm) = Self(x).dir
      BY <1>2 DEF Turn
    <2> QED BY <1>2, <2>1, SelfIs
  <1>3. CASE x # None /\ nm # Dot /\ nm # Up
    <2>1. Turn(x, nm) = SubDir(x, nm)
      BY <1>3 DEF Turn
    <2> QED BY <1>3, <2>1, SubDirIs, IsDirIs
  <1> QED BY <1>1, <1>2, <1>3

\* ... and Resolve takes such a turn for each name, ...
LEMMA LeadsIs ==
    ASSUME NEW d, NEW path \in Path, NEW w
    PROVE  Leads(d, path, w) <=>
             w = [k \in 0 .. Len(path) |-> IF k = 0 THEN d ELSE Turn(w[k - 1], path[k])]
  BY DEF Leads, Turn

\* ... so that it ends in a directory or nowhere.
LEMMA ResolveIs ==
    ASSUME TreeRight(tree, node), NEW d \in LiveDirs, NEW path \in Path
    PROVE  Resolve(d, path) \in LiveDirs \cup {None} /\ (path = <<>> => Resolve(d, path) = d)
  <1> DEFINE S == LiveDirs \cup {None}
             N == Len(path)
             g == [y \in S \X Nat |-> Turn(y[1], path[y[2]])]
             w == CHOOSE x : Leads(d, path, x)
  <1>1. N \in Nat /\ (path = <<>> => N = 0)
    BY DEF Path
  <1>2. g \in [S \X Nat -> S]
    BY TurnIs
  <1>3. \E x : Leads(d, path, x)
    <2>1. \A x \in S, k \in Nat : g[<<x, k>>] = Turn(x, path[k])
      OBVIOUS
    <2> HIDE DEF g, S, N
    <2>2. d \in S
      BY DEF S
    <2>3. PICK x : Steps(S, d, N, g, x)
      BY <1>1, <1>2, <2>2, Stepwise
    <2>7. x \in [0 .. N -> S] /\ x[0] = d /\ \A k \in 0 .. N : k # 0 => x[k] = g[<<x[k - 1], k>>]
      BY <2>3 DEF Steps
    <2>4. ASSUME NEW k \in 0 .. N PROVE x[k] = IF k = 0 THEN d ELSE Turn(x[k - 1], path[k])
      <3>1. CASE k = 0
        BY <2>7, <3>1
      <3>2. CASE k # 0
        <4>1. k - 1 \in 0 .. N /\ k \in Nat
          BY <1>1, <3>2
        <4> QED BY <2>1, <2>7, <3>2, <4>1
      <3> QED BY <3>1, <3>2
    <2>5. x = [k \in 0 .. N |-> IF k = 0 THEN d ELSE Turn(x[k - 1], path[k])]
      BY <2>7, <2>4
    <2>6. Leads(d, path, x)
      BY <2>5, LeadsIs DEF N
    <2> QED BY <2>6
  <1>4. Leads(d, path, w)
    BY <1>3
  <1>5. Resolve(d, path) = w[N]
    BY DEF Resolve, Leads
  <1>6. w = [k \in 0 .. N |-> IF k = 0 THEN d ELSE Turn(w[k - 1], path[k])]
    BY <1>4, LeadsIs
  <1> HIDE DEF w, N, g, S
  <1>7. w[0] = d /\ \A k \in Nat : k + 1 <= N => w[k + 1] = Turn(w[k], path[k + 1])
    BY <1>1, <1>6
  <1> DEFINE T == {k \in Nat : k <= N => w[k] \in S}
  <1>8. 0 \in T
    BY <1>7 DEF S
  <1>9. ASSUME NEW k \in Nat, k \in T PROVE k + 1 \in T
    <2> SUFFICES ASSUME k + 1 <= N PROVE w[k + 1] \in S
      OBVIOUS
    <2>1. w[k] \in S
      BY <1>1, <1>9
    <2> QED BY <1>7, <2>1, TurnIs DEF S
  <1> HIDE DEF T
  <1>10. N \in T
    BY <1>1, <1>8, <1>9, Counting
  <1> QED BY <1>1, <1>5, <1>7, <1>10 DEF T, S

\* The parts of a path are paths and names.
LEMMA PathIs ==
    ASSUME NEW p \in Path
    PROVE  /\ Len(p) \in Nat /\ \A i \in 1 .. Len(p) : p[i] \in Name
           /\ p # <<>> => Head(p) \in Name /\ Tail(p) \in Path /\ Last(p) \in Name /\ Front(p) \in Path
           /\ \A nm \in Name : Append(p, nm) \in Path
           /\ <<>> \in Path /\ <<Star>> \in Path
  <1>1. p \in Seq(Name)
    BY DEF Path
  <1> DEFINE n == Len(p)
  <1>2. n \in Nat /\ (p # <<>> => n \in 1 .. n) /\ \A i \in 1 .. n : p[i] \in Name
    BY <1>1
  <1>3. <<>> \in Path /\ <<Star>> \in Path
    <2> DEFINE x == Star
    <2>1. x \in Name
      BY NamesAre
    <2> HIDE DEF x
    <2>2. <<x>> \in Seq(Name)
      BY <2>1
    <2> QED BY <2>2 DEF Path, x
  <1>4. p # <<>> => Head(p) \in Name /\ Tail(p) \in Path
    BY <1>1 DEF Path
  <1>5. \A nm \in Name : Append(p, nm) \in Path
    BY <1>1 DEF Path
  <1>6. p # <<>> => Last(p) \in Name
    BY <1>2 DEF Last
  <1>7. p # <<>> => Front(p) \in Path
    <2> HAVE p # <<>>
    <2> HIDE DEF n
    <2>1. n - 1 \in Nat
      BY <1>2
    <2>2. \A k \in 1 .. n - 1 : p[k] \in Name
      BY <1>2
    <2>3. SubSeq(p, 1, n - 1) \in Seq(Name)
      BY <1>1, <1>2, <2>1, <2>2, SubSeqProperties
    <2> QED BY <2>3 DEF Front, Path, n
  <1> QED BY <1>2, <1>3, <1>4, <1>5, <1>6, <1>7


\* An argument starts in a directory.
LEMMA StartDirIs ==
    ASSUME TreeRight(tree, node), cwd \in Path, NEW a \in Arg
    PROVE  StartDir(a) \in LiveDirs
  BY ResolveIs, IsDirIs DEF StartDir, CwdGone

\* The target is in a directory, if there is one.
LEMMA TargetOfIs ==
    ASSUME TreeRight(tree, node), cwd \in Path, NEW a \in Arg
    PROVE  TargetOf(a).dir \in LiveDirs \cup {None} /\ TargetOf(a).name \in Name
  <1> DEFINE start == StartDir(a)
             d == Resolve(start, a.path)
             c == Resolve(start, Front(a.path))
  <1>1. start \in LiveDirs /\ a.path \in Path
    BY StartDirIs DEF Arg
  <1>2. d \in LiveDirs \cup {None} /\ (a.path = <<>> => d = start)
    BY <1>1, ResolveIs
  <1>3. d = None => a.path # <<>>
    BY <1>1, <1>2, IsDirIs
  <1>4. d = None => Last(a.path) \in Name /\ Front(a.path) \in Path
    BY <1>1, <1>3, PathIs
  <1>5. d = None => c \in LiveDirs \cup {None}
    BY <1>1, <1>4, ResolveIs
  <1>6. NoName \in Name
    BY NamesAre
  <1>7. TargetOf(a) = CASE d # None -> [dir |-> d, name |-> NoName]
                        [] d = None /\ c # None /\ Last(a.path) \notin {Dot, Up} ->
                               [dir |-> c, name |-> Last(a.path)]
                        [] OTHER -> [dir |-> None, name |-> NoName]
    BY DEF TargetOf
  <1> HIDE DEF d, c
  <1>8. CASE d # None
    <2>1. TargetOf(a) = [dir |-> d, name |-> NoName]
      BY <1>7, <1>8
    <2> QED BY <1>2, <1>6, <2>1
  <1>9. CASE d = None /\ c # None /\ Last(a.path) \notin {Dot, Up}
    <2>1. TargetOf(a) = [dir |-> c, name |-> Last(a.path)]
      BY <1>7, <1>9
    <2> QED BY <1>4, <1>5, <1>9, <2>1
  <1>10. CASE d = None /\ ~(c # None /\ Last(a.path) \notin {Dot, Up})
    <2>1. TargetOf(a) = [dir |-> None, name |-> NoName]
      BY <1>7, <1>10
    <2> QED BY <1>6, <2>1
  <1> QED BY <1>8, <1>9, <1>10

\* The path of a directory, built on the way up.
Stop == [at : LiveDirs, path : Path]
Climb(x) ==
    LET e == Self(x.at)
    IN IF x.at = Root THEN x ELSE [at |-> e.dir, path |-> <<tree[e.dir][e.slot].name>> \o x.path]
Climbs(d, n, w) ==
    w = [k \in 0 .. n |->
            IF k = 0 THEN [at |-> d, path |-> <<>>]
            ELSE LET x == w[k - 1]  e == Self(x.at)
                 IN IF x.at = Root THEN x
                    ELSE [at |-> e.dir, path |-> <<tree[e.dir][e.slot].name>> \o x.path]]

\* One step up, ...
LEMMA ClimbIs ==
    ASSUME TreeRight(tree, node), NEW x \in Stop
    PROVE  Climb(x) \in Stop
  <1>1. x.at \in LiveDirs /\ x.path \in Path
    BY DEF Stop
  <1>2. CASE x.at = Root
    BY <1>2 DEF Climb
  <1>3. CASE x.at # Root
    <2> DEFINE e == Self(x.at)
               nm == tree[e.dir][e.slot].name
    <2>1. e.dir \in LiveDirs /\ Place(tree, e.dir, e.slot, x.at)
      BY <1>1, <1>3, SelfIs
    <2>2. tree \in TreeType
      BY TypedIs DEF TreeRight
    <2>3. nm \in Name
      <3>1. tree[e.dir][e.slot] \in SlotType
        BY <2>1, <2>2, SlotsAre DEF Place
      <3> QED BY <3>1 DEF SlotType
    <2>4. Climb(x) = [at |-> e.dir, path |-> <<nm>> \o x.path]
      BY <1>3 DEF Climb
    <2> HIDE DEF nm
    <2>5. <<nm>> \o x.path \in Path
      BY <1>1, <2>3 DEF Path
    <2> QED BY <2>1, <2>4, <2>5 DEF Stop
  <1> QED BY <1>2, <1>3

\* ... and PathOf takes one for each directory above, ...
LEMMA ClimbsIs ==
    ASSUME NEW d, NEW n, NEW w
    PROVE  Climbs(d, n, w) <=>
             w = [k \in 0 .. n |-> IF k = 0 THEN [at |-> d, path |-> <<>>] ELSE Climb(w[k - 1])]
  BY DEF Climbs, Climb

\* ... so that mcd stores a path.
LEMMA PathOfIs ==
    ASSUME TreeRight(tree, node), NEW d \in LiveDirs
    PROVE  PathOf(d) \in Path
  <1> DEFINE N == Cardinality(Nodes)
             a == [at |-> d, path |-> <<>>]
             g == [y \in Stop \X Nat |-> Climb(y[1])]
             w == CHOOSE x : Climbs(d, N, x)
  <1>1. N \in Nat
    BY NodesAre
  <1>2. a \in Stop
    <2>1. <<>> \in Path
      BY DEF Path
    <2> QED BY <2>1 DEF Stop
  <1>3. g \in [Stop \X Nat -> Stop]
    BY ClimbIs
  <1>4. \E x : Climbs(d, N, x)
    <2>1. \A x \in Stop, k \in Nat : g[<<x, k>>] = Climb(x)
      OBVIOUS
    <2> HIDE DEF g, N
    <2>2. PICK x : Steps(Stop, a, N, g, x)
      BY <1>1, <1>2, <1>3, Stepwise
    <2>3. x \in [0 .. N -> Stop] /\ x[0] = a /\ \A k \in 0 .. N : k # 0 => x[k] = g[<<x[k - 1], k>>]
      BY <2>2 DEF Steps
    <2>4. ASSUME NEW k \in 0 .. N PROVE x[k] = IF k = 0 THEN a ELSE Climb(x[k - 1])
      <3>1. CASE k = 0
        BY <2>3, <3>1
      <3>2. CASE k # 0
        <4>1. k - 1 \in 0 .. N /\ k \in Nat
          BY <1>1, <3>2
        <4> QED BY <2>1, <2>3, <3>2, <4>1
      <3> QED BY <3>1, <3>2
    <2>5. x = [k \in 0 .. N |-> IF k = 0 THEN a ELSE Climb(x[k - 1])]
      BY <2>3, <2>4
    <2>6. Climbs(d, N, x)
      BY <2>5, ClimbsIs
    <2> QED BY <2>6
  <1>5. Climbs(d, N, w)
    BY <1>4
  <1>6. PathOf(d) = w[N].path
    BY DEF PathOf, Climbs
  <1>7. w = [k \in 0 .. N |-> IF k = 0 THEN a ELSE Climb(w[k - 1])]
    BY <1>5, ClimbsIs
  <1> HIDE DEF w, N, g, a
  <1>8. w[0] = a /\ \A k \in Nat : k + 1 <= N => w[k + 1] = Climb(w[k])
    BY <1>1, <1>7
  <1> DEFINE T == {k \in Nat : k <= N => w[k] \in Stop}
  <1>9. 0 \in T
    BY <1>2, <1>8
  <1>10. ASSUME NEW k \in Nat, k \in T PROVE k + 1 \in T
    <2> SUFFICES ASSUME k + 1 <= N PROVE w[k + 1] \in Stop
      OBVIOUS
    <2>1. w[k] \in Stop
      BY <1>1, <1>10
    <2> QED BY <1>8, <2>1, ClimbIs
  <1> HIDE DEF T
  <1>11. N \in T
    BY <1>1, <1>9, <1>10, Counting
  <1>12. w[N] \in Stop
    BY <1>1, <1>11 DEF T
  <1> QED BY <1>6, <1>12 DEF Stop

-----------------------------------------------------------------------------
(* The host                                                                 *)

\* What is known of the files of the host.
LEMMA HostIs ==
    ASSUME HostTyped(host)
    PROVE  /\ \A p \in Path : Followed(p) \in Path
           /\ \A p \in DOMAIN host : p \in Path /\ host[p].data \in Nat
           /\ IsFiniteSet(DOMAIN host)
  <1> DEFINE F == [kind : {"file", "dir", "link"}, data : Nat, to : Path]
  <1>1. IsFiniteSet(DOMAIN host) /\ DOMAIN host \subseteq Path /\ \A p \in DOMAIN host : host[p] \in F
    BY DEF HostTyped
  <1>2. \A p \in DOMAIN host : host[p].data \in Nat /\ host[p].to \in Path
    BY <1>1
  <1> QED BY <1>1, <1>2 DEF Followed

Follows(p, w) == w = [k \in 0 .. Len(p) |-> IF k = 0 THEN <<>> ELSE Followed(Append(w[k - 1], p[k]))]

\* Links of the host lead to paths.
LEMMA RealIs ==
    ASSUME HostTyped(host), NEW p \in Path
    PROVE  Real(p) \in Path /\ (p = <<>> => Real(p) = <<>>)
  <1> DEFINE N == Len(p)
             Go(x, k) == IF k \in 1 .. N THEN Followed(Append(x, p[k])) ELSE x
             g == [y \in Path \X Nat |-> Go(y[1], y[2])]
             w == CHOOSE x : Follows(p, x)
  <1>1. N \in Nat /\ (p = <<>> => N = 0) /\ <<>> \in Path
    BY PathIs DEF Path
  <1>2. \A x \in Path, k \in Nat : Go(x, k) \in Path
    <2> SUFFICES ASSUME NEW x \in Path, NEW k \in 1 .. N PROVE Followed(Append(x, p[k])) \in Path
      OBVIOUS
    <2>1. p[k] \in Name
      BY PathIs
    <2>2. Append(x, p[k]) \in Path
      BY <2>1, PathIs
    <2> QED BY <2>2, HostIs
  <1>3. g \in [Path \X Nat -> Path]
    BY <1>2
  <1>4. \E x : Follows(p, x)
    <2>1. \A x \in Path, k \in Nat : k \in 1 .. N => g[<<x, k>>] = Followed(Append(x, p[k]))
      OBVIOUS
    <2> HIDE DEF g
    <2>2. PICK x : Steps(Path, <<>>, N, g, x)
      BY <1>1, <1>3, Stepwise
    <2>3. x \in [0 .. N -> Path] /\ x[0] = <<>> /\ \A k \in 0 .. N : k # 0 => x[k] = g[<<x[k - 1], k>>]
      BY <2>2 DEF Steps
    <2>4. ASSUME NEW k \in 0 .. N PROVE x[k] = IF k = 0 THEN <<>> ELSE Followed(Append(x[k - 1], p[k]))
      <3>1. CASE k = 0
        BY <2>3, <3>1
      <3>2. CASE k # 0
        <4>1. k - 1 \in 0 .. N /\ k \in Nat /\ k \in 1 .. N
          BY <1>1, <3>2
        <4>2. x[k] = g[<<x[k - 1], k>>] /\ x[k - 1] \in Path
          BY <2>3, <3>2, <4>1
        <4> HIDE DEF N
        <4>3. x[k] = Followed(Append(x[k - 1], p[k]))
          BY <2>1, <4>1, <4>2
        <4> QED BY <3>2, <4>3
      <3> QED BY <3>1, <3>2
    <2>5. x = [k \in 0 .. N |-> IF k = 0 THEN <<>> ELSE Followed(Append(x[k - 1], p[k]))]
      BY <2>3, <2>4
    <2>6. Follows(p, x)
      BY <2>5 DEF Follows
    <2> QED BY <2>6
  <1>5. Follows(p, w)
    BY <1>4
  <1>6. Real(p) = w[N]
    BY DEF Real, Follows
  <1>7. w = [k \in 0 .. N |-> IF k = 0 THEN <<>> ELSE Followed(Append(w[k - 1], p[k]))]
    BY <1>5 DEF Follows
  <1>8. \A x \in Path, k \in 1 .. N : Followed(Append(x, p[k])) \in Path
    BY <1>1, <1>2
  <1> HIDE DEF w, N, g, Go
  <1>9. w[0] = <<>> /\ \A k \in Nat : k + 1 <= N => w[k + 1] = Followed(Append(w[k], p[k + 1]))
    BY <1>1, <1>7
  <1> DEFINE T == {k \in Nat : k <= N => w[k] \in Path}
  <1>10. 0 \in T
    BY <1>1, <1>9
  <1>11. ASSUME NEW k \in Nat, k \in T PROVE k + 1 \in T
    <2> SUFFICES ASSUME k + 1 <= N PROVE w[k + 1] \in Path
      OBVIOUS
    <2>1. w[k] \in Path /\ k + 1 \in 1 .. N
      BY <1>1, <1>11
    <2> QED BY <1>8, <1>9, <2>1
  <1> HIDE DEF T
  <1>12. N \in T
    BY <1>1, <1>10, <1>11, Counting
  <1> QED BY <1>1, <1>6, <1>9, <1>12 DEF T

\* unix_target_lookup gives a directory and a name.
LEMMA HostTargetOfIs ==
    ASSUME HostTyped(host), NEW p \in Path
    PROVE  HostTargetOf(p).out \in Path /\ HostTargetOf(p).name \in Name
  <1>1. CASE IsHostDir(p)
    BY <1>1, NamesAre DEF HostTargetOf
  <1>2. CASE ~IsHostDir(p)
    <2>1. p # <<>>
      BY <1>2, RealIs DEF IsHostDir
    <2>2. Front(p) \in Path /\ Last(p) \in Name
      BY <2>1, PathIs
    <2>3. HostTargetOf(p) = [out |-> Front(p), name |-> Last(p)]
      BY <1>2 DEF HostTargetOf
    <2> QED BY <2>2, <2>3
  <1> QED BY <1>1, <1>2

\* What unix_loop reads is a sequence of names.
LEMMA NamesInside ==
    ASSUME NEW h, HostTyped(h), NEW p \in Path
    PROVE  SetToSeq(Listing(h, p)) \in Path /\ Reverse(SetToSeq(Listing(h, p))) \in Path
  <1> DEFINE Q == {q \in DOMAIN h : q # <<>> /\ Front(q) = Real(p)}
             L == Listing(h, p)
             f == [q \in Q |-> Last(q)]
             s == SetToSeq(L)
  <1>1. IsFiniteSet(DOMAIN h) /\ DOMAIN h \subseteq Path
    BY DEF HostTyped
  <1>2. IsFiniteSet(Q) /\ Q \subseteq Path /\ \A q \in Q : q # <<>>
    BY <1>1, FS_Subset
  <1>3. L = {Last(q) : q \in Q}
    BY DEF Listing
  <1>4. L \subseteq Name
    BY <1>2, <1>3, PathIs
  <1> HIDE DEF L, Q
  <1>5. f \in Surjection(Q, L)
    BY <1>3 DEF Surjection
  <1>6. IsFiniteSet(L)
    BY <1>2, <1>5, FS_Surjection
  <1>7. Cardinality(L) \in Nat /\ ExistsBijection(1 .. Cardinality(L), L)
    BY <1>6, FS_CardinalityType
  <1> DEFINE N == Cardinality(L)
             P == 1 .. N
  <1>8. PICK b \in Bijection(P, L) : TRUE
    BY <1>7, Fun_ExistsBij
  <1>9. b \in [P -> L] /\ IsInjective(b)
    BY <1>8 DEF Bijection, Injection, Surjection, IsInjective
  <1>10. s \in [P -> L]
    BY <1>9 DEF SetToSeq
  <1> HIDE DEF s, N
  <1>11. s \in Seq(Name) /\ Len(s) = N
    BY <1>4, <1>7, <1>10 DEF N
  <1>12. Reverse(s) \in Seq(Name)
    <2>1. Reverse(s) = [i \in 1 .. N |-> s[(N - i) + 1]]
      BY <1>11 DEF Reverse
    <2>2. \A i \in 1 .. N : (N - i) + 1 \in 1 .. N
      BY <1>7 DEF N
    <2>3. \A i \in 1 .. N : s[(N - i) + 1] \in Name
      BY <1>4, <1>10, <2>2
    <2>4. N \in Nat
      BY <1>7 DEF N
    <2> QED BY <2>1, <2>3, <2>4, IsASeq
  <1> QED BY <1>11, <1>12 DEF Path, s, L

-----------------------------------------------------------------------------
(* The slot and the name of a new entry                                     *)

\* autorename finds a name that is not there yet: there are more numbers than slots.
LEMMA FreshName ==
    ASSUME TreeRight(tree, node), NEW d \in Dirs, NEW nm \in Name
    PROVE  AutoName(d, nm) \in Name /\ Named(d, AutoName(d, nm)) = {}
  <1> DEFINE a == nm[2] + 1
             b == nm[2] + MaxSlots + 1
             K == {k \in a .. b : Named(d, <<nm[1], k>>) = {}}
  <1>1. nm[1] \in Bases /\ nm[2] \in Nat /\ MaxSlots \in Nat /\ tree \in TreeType
    BY NodesAssumption, TypedIs DEF Name, TreeRight
  <1>2. a \in Nat /\ b \in Nat /\ b - a + 1 = MaxSlots + 1 /\ ~(a > b)
    BY <1>1
  <1>3. AutoName(d, nm) = <<nm[1], Least(K)>>
    BY DEF AutoName
  <1>4. K # {}
    <2> DEFINE P == 1 .. MaxSlots
               R == a .. b
               f == [k \in R |-> CHOOSE i \in Named(d, <<nm[1], k>>) : TRUE]
    <2> SUFFICES ASSUME \A k \in R : Named(d, <<nm[1], k>>) # {} PROVE FALSE
      OBVIOUS
    <2>1. \A k \in R : f[k] \in Named(d, <<nm[1], k>>)
      OBVIOUS
    <2>2. Slots(tree, d) \subseteq P
      BY TypedIs DEF TreeRight
    <2>3. \A k \in R : f[k] \in P /\ tree[d][f[k]].name = <<nm[1], k>>
      BY <2>1, <2>2 DEF Named
    <2>4. IsFiniteSet(P) /\ Cardinality(P) = MaxSlots
      BY <1>1, FS_Interval
    <2>5. IsFiniteSet(R) /\ Cardinality(R) = MaxSlots + 1
      <3> HIDE DEF a, b
      <3>1. a \in Int /\ b \in Int
        BY <1>2
      <3>2. IsFiniteSet(a .. b) /\ Cardinality(a .. b) = IF a > b THEN 0 ELSE b - a + 1
        BY <3>1, FS_Interval
      <3> QED BY <1>2, <3>2
    <2>6. Cardinality(P) < Cardinality(R)
      BY <1>1, <2>4, <2>5
    <2>7. f \in [R -> P]
      BY <2>3
    <2> HIDE DEF f, P, R
    <2>8. PICK k, l \in R : k # l /\ f[k] = f[l]
      BY <2>4, <2>5, <2>6, <2>7, FS_PigeonHole
    <2> QED BY <2>3, <2>8
  <1>5. K \subseteq Nat
    BY <1>2
  <1>6. Least(K) \in K
    BY <1>4, <1>5, LeastIs
  <1> HIDE DEF a, b
  <1>7. Named(d, <<nm[1], Least(K)>>) = {}
    BY <1>6
  <1>8. Least(K) \in Nat
    BY <1>5, <1>6
  <1> HIDE DEF K
  <1> QED BY <1>1, <1>3, <1>7, <1>8 DEF Name

\* The name written is not that of another entry than the one overwritten, which is a file.
LEMMA NamesIs ==
    ASSUME TreeRight(tree, node), NEW d \in Dirs, NEW nm \in Name, NEW source, NEW w \in Names(d, nm, source)
    PROVE  /\ w.name \in Name
           /\ w.victim # 0 => /\ w.victim \in Slots(tree, d) /\ w.victim # source
                              /\ ~IsDir(tree[d][w.victim].id)
           /\ \A i \in Slots(tree, d) : i # w.victim => tree[d][i].name # w.name
  <1> DEFINE clash == Named(d, nm)
             renamed == [name |-> AutoName(d, nm), victim |-> 0]
             victims == {i \in clash : Overwritable(d, i, source)}
             an == AutoName(d, nm)
  <1>1. an \in Name /\ Named(d, an) = {}
    BY FreshName
  <1>2. 0 \notin Slots(tree, d)
    BY TypedIs, SlotsAre DEF TreeRight
  <1>3. NamesOnce(tree)
    BY DEF TreeRight
  <1>4. \/ clash = {} /\ w = [name |-> nm, victim |-> 0]
        \/ w = renamed
        \/ \E i \in victims : w = [name |-> nm, victim |-> i]
    BY DEF Names
  <1>5. CASE clash = {} /\ w = [name |-> nm, victim |-> 0]
    <2>1. w.name = nm /\ w.victim = 0
      BY <1>5
    <2> QED BY <1>5, <2>1 DEF Named
  <1>6. CASE w = renamed
    <2> HIDE DEF an
    <2>1. w.name = an /\ w.victim = 0
      BY <1>6 DEF an
    <2> QED BY <1>1, <2>1 DEF Named
  <1>7. ASSUME NEW i \in victims, w = [name |-> nm, victim |-> i]
        PROVE  /\ w.name \in Name
               /\ w.victim # 0 => /\ w.victim \in Slots(tree, d) /\ w.victim # source
                                  /\ ~IsDir(tree[d][w.victim].id)
               /\ \A j \in Slots(tree, d) : j # w.victim => tree[d][j].name # w.name
    <2>1. w.name = nm /\ w.victim = i
      BY <1>7
    <2>2. i \in Slots(tree, d) /\ tree[d][i].name = nm /\ i # source /\ ~IsDir(tree[d][i].id)
      BY DEF Named, Overwritable
    <2> QED BY <1>3, <2>1, <2>2 DEF NamesOnce
  <1> QED BY <1>4, <1>5, <1>6, <1>7

\* The slot written is free, or it is that of the entry overwritten or moved.
LEMMA ChosenIs ==
    ASSUME TreeRight(tree, node), NEW d \in Dirs, NEW nm \in Name, NEW source, NEW spare,
           NEW w \in Chosen(d, nm, source, spare)
    PROVE  /\ w.name \in Name
           /\ w.victim # 0 => /\ w.victim \in Slots(tree, d) /\ w.victim # source
                              /\ ~IsDir(tree[d][w.victim].id)
           /\ \A i \in Slots(tree, d) : i # w.victim => tree[d][i].name # w.name
           /\ w.slot \in 1 .. MaxSlots /\ w.slot <= Len(tree[d]) + 1
           /\ w.slot <= Len(tree[d]) => tree[d][w.slot] = Free \/ w.slot = w.victim \/ w.slot \in spare
  <1>1. PICK v \in Names(d, nm, source) :
           \E i \in SlotsFor(d, {v.victim} \cup spare) : w = [name |-> v.name, victim |-> v.victim, slot |-> i]
    BY DEF Chosen
  <1>2. PICK i \in SlotsFor(d, {v.victim} \cup spare) : w = [name |-> v.name, victim |-> v.victim, slot |-> i]
    BY <1>1
  <1>3. w.name = v.name /\ w.victim = v.victim /\ w.slot = i
    BY <1>2
  <1>4. i \in 1 .. MaxSlots /\ IF i <= Len(tree[d]) THEN tree[d][i] = Free \/ i \in {v.victim} \cup spare
                                                    ELSE i = Len(tree[d]) + 1
    BY <1>2 DEF SlotsFor
  <1>5. Len(tree[d]) \in Nat /\ i \in Nat
    BY <1>4, TypedIs, SlotsAre, NodesAssumption DEF TreeRight
  <1>6. i <= Len(tree[d]) + 1
    BY <1>4, <1>5
  <1> QED BY <1>3, <1>4, <1>6, NamesIs

\* What is overwritten has gone when the new entry is written.
Vacant(d, source, spare, w, t, nd) ==
    /\ TreeRight(t, nd) /\ NoDirLost(node, nd) /\ Live(nd) \subseteq Live(node)
    /\ w.name \in Name /\ w.slot \in 1 .. MaxSlots /\ w.slot <= Len(t[d]) + 1
    /\ w.slot <= Len(t[d]) => t[d][w.slot] = Free \/ w.slot \in spare
    /\ \A i \in Slots(t, d) : t[d][i].name # w.name
    /\ \A x \in Dirs : \A i \in Slots(t, x) : i \in Slots(tree, x) /\ t[x][i] = tree[x][i]
    /\ \A x \in Dirs : \A i \in Slots(tree, x) : i \in Slots(t, x) \/ (x = d /\ i = w.victim)
    /\ w.victim # 0 => w.victim # source
    /\ \A n \in Nodes : nd[n].kind = "dir" <=> node[n].kind = "dir"

\* After the entry in the way has gone, the name and the slot are free.
LEMMA Cleared ==
    ASSUME TreeRight(tree, node), NEW d \in Dirs, NEW nm \in Name, NEW source, NEW spare,
           NEW w \in Chosen(d, nm, source, spare),
           NEW t, t = Wiped(tree, d, w.victim), NEW nd, nd = Freed(node, d, w.victim)
    PROVE  Vacant(d, source, spare, w, t, nd)
  <1>1. /\ w.name \in Name
        /\ w.victim # 0 => /\ w.victim \in Slots(tree, d) /\ w.victim # source
                           /\ ~IsDir(tree[d][w.victim].id)
        /\ \A i \in Slots(tree, d) : i # w.victim => tree[d][i].name # w.name
        /\ w.slot \in 1 .. MaxSlots /\ w.slot <= Len(tree[d]) + 1
        /\ w.slot <= Len(tree[d]) => tree[d][w.slot] = Free \/ w.slot = w.victim \/ w.slot \in spare
    BY ChosenIs
  <1>2. Typed(tree, node) /\ tree \in TreeType /\ node \in [Nodes -> NodeType] /\ Listed(tree, node)
    BY TypedIs, NodeTypeIs DEF TreeRight
  <1>3. CASE w.victim = 0
    <2>1. t = tree /\ nd = node
      BY <1>3 DEF Wiped, Freed
    <2>2. w.slot # 0 /\ 0 \notin Slots(tree, d)
      BY <1>1, <1>2, SlotsAre, NodesAssumption
    <2> QED BY <1>1, <1>3, <2>1, <2>2 DEF NoDirLost, Vacant
  <1>4. CASE w.victim # 0
    <2> DEFINE v == w.victim
               n == tree[d][v].id
    <2>1. v \in Slots(tree, d) /\ ~IsDir(n) /\ n \in Nodes /\ n \in Live(node) /\ v \in Nat
      BY <1>1, <1>2, <1>4, TypedIs, SlotsAre DEF Listed
    <2>2. node[n].kind # "dir"
      BY <2>1 DEF IsDir
    <2>3. Slots(tree, n) = {} /\ ~LiveDir(node, n)
      BY <1>2, <2>1, <2>2, LeafIs
    <2>4. Place(tree, d, v, n)
      BY <2>1 DEF Place
    <2>5. t = Wiped(tree, d, v) /\ nd = [node EXCEPT ![n] = NoNode]
      BY <1>4 DEF Freed
    <2> HIDE DEF v, n
    <2>13. /\ TreeRight(tree, node) /\ d \in Dirs /\ v \in Slots(tree, d) /\ n \in Nodes
          /\ Place(tree, d, v, n) /\ Slots(tree, n) = {}
      BY <2>1, <2>3, <2>4
    <2>6. /\ TreeRight(t, nd)
          /\ \A x \in Dirs : x # n /\ LiveDir(node, x) => LiveDir(nd, x)
          /\ \A x \in Dirs : \A i \in Slots(t, x) : i \in Slots(tree, x) /\ t[x][i] = tree[x][i]
          /\ Live(nd) = Live(node) \ {n}
      <3>1. Leaving(tree, node, d, v, n)
        BY <2>13 DEF Leaving
      <3>2. Without(tree, node, n, t, nd)
        BY <2>5, <3>1, TakenOut
      <3> QED BY <3>2 DEF Without
    <2>7. NoDirLost(node, nd)
      BY <2>3, <2>6 DEF NoDirLost
    <2>8. /\ t[d][v] = Free /\ Len(t[d]) = Len(tree[d])
          /\ \A x \in Dirs : Slots(t, x) = IF x = d THEN Slots(tree, d) \ {v} ELSE Slots(tree, x)
          /\ \A i \in 1 .. Len(tree[d]) : tree[d][i] = Free => t[d][i] = Free
      BY <1>2, <2>1, <2>5, WipedIs
    <2>9. \A x \in Dirs : \A i \in Slots(tree, x) : i \in Slots(t, x) \/ (x = d /\ i = v)
      BY <2>8
    <2>10. w.slot <= Len(t[d]) => t[d][w.slot] = Free \/ w.slot \in spare
      <3> HAVE w.slot <= Len(t[d])
      <3>1. w.slot \in 1 .. Len(tree[d])
        BY <1>1, <1>2, <2>8, SlotsAre, NodesAssumption
      <3> QED BY <1>1, <2>8, <3>1 DEF v
    <2>11. \A i \in Slots(t, d) : t[d][i].name # w.name
      BY <1>1, <2>6, <2>8 DEF v
    <2>12. \A m \in Nodes : nd[m].kind = "dir" <=> node[m].kind = "dir"
      <3>1. NoNode.kind # "dir"
        BY DEF NoNode
      <3> QED BY <1>2, <2>1, <2>2, <2>5, <3>1
    <2> QED BY <1>1, <2>6, <2>7, <2>8, <2>9, <2>10, <2>11, <2>12 DEF v, Vacant
  <1> QED BY <1>3, <1>4

\* A new entry is an entry.
LEMMA EntryIs ==
    ASSUME NEW nm \in Name, NEW n \in Nodes
    PROVE  Entry(nm, n, FALSE) \in SlotType /\ Entry(nm, n, FALSE).id = n /\ Entry(nm, n, FALSE).name = nm
  BY DEF Entry, SlotType

\* A cluster that is not used is not listed.
LEMMA UnusedIs ==
    ASSUME NEW t, NEW nd, Typed(t, nd), Unused(nd) # {}
    PROVE  Least(Unused(nd)) \in Nodes /\ Least(Unused(nd)) \notin Live(nd)
  <1>1. Unused(nd) \subseteq Nat /\ \A n \in Unused(nd) : n \in Nodes /\ n \notin Live(nd)
    BY NodesAre DEF Unused, Live
  <1> QED BY <1>1, LeastIs

-----------------------------------------------------------------------------
(* What the writers of an entry do                                          *)

\* makeit: the new directory is in the tree, with the right "..".
LEMMA MadeDir ==
    ASSUME TreeRight(tree, node), NEW d \in Dirs, LiveDir(node, d), NEW nm \in Name, NEW source, NEW w, NEW n,
           MakesDir(d, nm, source, w, n)
    PROVE  TreeRight(tree', node') /\ NoDirLost(node, node') /\ n \in Nodes /\ LiveDir(node', n)
  <1> DEFINE nd == Freed(node, d, w.victim)
             t == Wiped(tree, d, w.victim)
             r == [kind |-> "dir", data |-> 0, up |-> [low |-> d, high |-> d \in High]]
             e == Entry(w.name, n, FALSE)
             k == w.slot
             none == {}
  <1>1. /\ Unused(node) # {} /\ w \in Chosen(d, nm, source, {}) /\ n = Least(Unused(nd))
        /\ tree' = Put(t, d, k, e) /\ node' = [nd EXCEPT ![n] = r]
    BY DEF MakesDir
  <1>2. /\ TreeRight(t, nd) /\ NoDirLost(node, nd) /\ Live(nd) \subseteq Live(node)
        /\ w.name \in Name /\ k \in 1 .. MaxSlots /\ k <= Len(t[d]) + 1
        /\ k <= Len(t[d]) => t[d][k] = Free
        /\ \A i \in Slots(t, d) : t[d][i].name # w.name
    <2>1. w \in Chosen(d, nm, source, none) /\ nd = Freed(node, d, w.victim) /\ t = Wiped(tree, d, w.victim)
      BY <1>1
    <2>2. none = {}
      OBVIOUS
    <2> HIDE DEF nd, t, none
    <2>3. Vacant(d, source, none, w, t, nd)
      BY <2>1, Cleared
    <2> QED BY <2>2, <2>3 DEF Vacant
  <1> HIDE DEF nd, t
  <1>3. Typed(t, nd) /\ nd \in [Nodes -> NodeType] /\ Typed(tree, node) /\ node \in [Nodes -> NodeType]
    BY <1>2, NodeTypeIs DEF TreeRight
  <1>4. Unused(nd) # {}
    <2>1. \A m \in Nodes : m \notin Live(node) => m \notin Live(nd)
      BY <1>2
    <2> QED BY <1>1, <2>1 DEF Unused, Live
  <1>5. n \in Nodes /\ n \notin Live(nd)
    BY <1>1, <1>3, <1>4, UnusedIs
  <1>6. e \in SlotType /\ e.id = n /\ e.name = w.name
    BY <1>2, <1>5, EntryIs
  <1>7. r \in NodeType /\ r.kind = "dir" /\ r.up.low = d
    BY DEF NodeType
  <1>8. LiveDir(nd, d)
    BY <1>2 DEF NoDirLost
  <1> HIDE DEF e, r, k
  <1>9. r.kind # "free"
    BY <1>7
  <1>11. Fits(t, d, k, e) /\ Newly(nd, d, n, r) /\ e.id = n
    BY <1>2, <1>5, <1>6, <1>7, <1>9 DEF Fits, Newly
  <1>12. tree' = Put(t, d, k, e) /\ node' = [nd EXCEPT ![n] = r] /\ TreeRight(t, nd)
    BY <1>1, <1>2
  <1>10. TreeRight(tree', node') /\ NoDirLost(nd, node') /\ (r.kind = "dir" => LiveDir(node', n))
    BY <1>8, <1>11, <1>12, Inserted
  <1> QED BY <1>2, <1>5, <1>7, <1>10 DEF NoDirLost

\* writeit: the new file is in the tree; the file it overwrites has gone.
LEMMA CopiedFile ==
    ASSUME TreeRight(tree, node), NEW d \in Dirs, LiveDir(node, d), NEW nm \in Name, NEW source, NEW w, NEW n,
           NEW data \in Nat, CopiesFile(data, d, nm, source, w, n)
    PROVE  TreeRight(tree', node') /\ NoDirLost(node, node')
  <1> DEFINE nd == Freed(node, d, w.victim)
             t == Wiped(tree, d, w.victim)
             r == [NoNode EXCEPT !.kind = "file", !.data = data]
             e == Entry(w.name, n, FALSE)
             k == w.slot
             none == {}
  <1>1. /\ Unused(nd) # {} /\ w \in Chosen(d, nm, source, {}) /\ n = Least(Unused(nd))
        /\ tree' = Put(t, d, k, e) /\ node' = [nd EXCEPT ![n] = r]
    BY DEF CopiesFile
  <1>2. /\ TreeRight(t, nd) /\ NoDirLost(node, nd)
        /\ w.name \in Name /\ k \in 1 .. MaxSlots /\ k <= Len(t[d]) + 1
        /\ k <= Len(t[d]) => t[d][k] = Free
        /\ \A i \in Slots(t, d) : t[d][i].name # w.name
    <2>1. w \in Chosen(d, nm, source, none) /\ nd = Freed(node, d, w.victim) /\ t = Wiped(tree, d, w.victim)
      BY <1>1
    <2>2. none = {}
      OBVIOUS
    <2> HIDE DEF nd, t, none
    <2>3. Vacant(d, source, none, w, t, nd)
      BY <2>1, Cleared
    <2> QED BY <2>2, <2>3 DEF Vacant
  <1> HIDE DEF nd, t
  <1>3. Typed(t, nd)
    BY <1>2 DEF TreeRight
  <1>4. n \in Nodes /\ n \notin Live(nd)
    BY <1>1, <1>3, UnusedIs
  <1>5. e \in SlotType /\ e.id = n /\ e.name = w.name
    BY <1>2, <1>4, EntryIs
  <1>6. r \in NodeType /\ r.kind = "file"
    BY NodesAre DEF NoNode, NodeType, Root
  <1>7. LiveDir(nd, d)
    BY <1>2 DEF NoDirLost
  <1> HIDE DEF e, r, k
  <1>8. r.kind # "free" /\ r.kind # "dir"
    BY <1>6
  <1>10. Fits(t, d, k, e) /\ Newly(nd, d, n, r) /\ e.id = n
    BY <1>2, <1>4, <1>5, <1>6, <1>8 DEF Fits, Newly
  <1>11. tree' = Put(t, d, k, e) /\ node' = [nd EXCEPT ![n] = r] /\ TreeRight(t, nd)
    BY <1>1, <1>2
  <1>9. TreeRight(tree', node') /\ NoDirLost(nd, node')
    BY <1>7, <1>10, <1>11, Inserted
  <1> QED BY <1>2, <1>9 DEF NoDirLost

\* A copy that fails: only the file overwritten has gone.
LEMMA FailedCopy ==
    ASSUME TreeRight(tree, node), NEW d \in Dirs, NEW nm \in Name, NEW source,
           CopyFails(d, nm, source) \/ CopyCut(d, nm, source)
    PROVE  TreeRight(tree', node') /\ NoDirLost(node, node')
  <1>1. PICK w \in Chosen(d, nm, source, {}) : tree' = Wiped(tree, d, w.victim) /\ node' = Freed(node, d, w.victim)
    BY DEF CopyFails, CopyCut
  <1> DEFINE t == tree'
             nd == node'
             none == {}
  <1>2. w \in Chosen(d, nm, source, none) /\ nd = Freed(node, d, w.victim) /\ t = Wiped(tree, d, w.victim)
    BY <1>1
  <1> HIDE DEF t, nd, none
  <1>3. Vacant(d, source, none, w, t, nd)
    BY <1>2, Cleared
  <1> QED BY <1>3 DEF Vacant, t, nd

\* mmove and mren: a directory does not get under itself, and its ".." follows it.
LEMMA MovedEntry ==
    ASSUME TreeRight(tree, node), NEW d \in Dirs, LiveDir(node, d), NEW nm \in Name,
           NEW e, e.dir \in Dirs, e.slot \in Nat, e.id \in Nodes, Place(tree, e.dir, e.slot, e.id),
           ~Under(tree, e.id, d), NEW source, source = Source(e, d),
           NEW w \in Chosen(d, nm, source, {source} \ {0}), Moves(e, d, nm, w)
    PROVE  TreeRight(tree', node') /\ NoDirLost(node, node')
  <1> DEFINE nd == Freed(node, d, w.victim)
             t == Wiped(tree, d, w.victim)
             v == Wiped(t, e.dir, e.slot)
             n == e.id
             x == [tree[e.dir][e.slot] EXCEPT !.name = w.name]
             z == IF IsDir(n) /\ d # e.dir THEN [nd EXCEPT ![n].up.low = d] ELSE nd
  <1>1. tree' = Put(v, d, w.slot, x) /\ node' = z
    BY DEF Moves
  <1>2. /\ TreeRight(t, nd) /\ NoDirLost(node, nd)
        /\ w.name \in Name /\ w.slot \in 1 .. MaxSlots /\ w.slot <= Len(t[d]) + 1
        /\ w.slot <= Len(t[d]) => t[d][w.slot] = Free \/ w.slot \in {source} \ {0}
        /\ \A i \in Slots(t, d) : t[d][i].name # w.name
        /\ \A y \in Dirs : \A i \in Slots(t, y) : i \in Slots(tree, y) /\ t[y][i] = tree[y][i]
        /\ \A y \in Dirs : \A i \in Slots(tree, y) : i \in Slots(t, y) \/ (y = d /\ i = w.victim)
        /\ w.victim # 0 => w.victim # source
        /\ \A m \in Nodes : nd[m].kind = "dir" <=> node[m].kind = "dir"
    <2> DEFINE spare == {source} \ {0}
    <2>1. w \in Chosen(d, nm, source, spare) /\ nd = Freed(node, d, w.victim) /\ t = Wiped(tree, d, w.victim)
      OBVIOUS
    <2>2. spare = {source} \ {0}
      OBVIOUS
    <2> HIDE DEF spare, nd, t
    <2>3. Vacant(d, source, spare, w, t, nd)
      BY <2>1, Cleared
    <2> QED BY <2>2, <2>3 DEF Vacant
  <1>3. tree \in TreeType /\ Typed(t, nd) /\ t \in TreeType
    BY <1>2, TypedIs DEF TreeRight
  <1> HIDE DEF nd, t
  <1>4. e.slot \in Slots(tree, e.dir) /\ tree[e.dir][e.slot].id = n /\ e.slot # 0
    BY <1>3, SlotsAre DEF Place
  <1>5. e.slot \in Slots(t, e.dir) /\ t[e.dir][e.slot] = tree[e.dir][e.slot]
    <2>1. ~(e.dir = d /\ e.slot = w.victim)
      BY <1>2, <1>4 DEF Source
    <2> QED BY <1>2, <1>4, <2>1
  <1>6. Place(t, e.dir, e.slot, n)
    BY <1>4, <1>5 DEF Place
  <1>7. ~Under(t, n, d)
    <2>1. \A S \in SUBSET Dirs : Closed(tree, S) => Closed(t, S)
      BY <1>2 DEF Closed
    <2> QED BY <2>1 DEF Under
  <1>8. LiveDir(nd, d)
    BY <1>2 DEF NoDirLost
  <1>9. x \in SlotType /\ x.id = n /\ x.name = w.name
    <2>1. tree[e.dir][e.slot] \in SlotType
      BY <1>3, <1>4, SlotsAre
    <2> QED BY <1>2, <1>4, <2>1 DEF SlotType
  <1>10. node' = Reparented(nd, n, e.dir, d)
    <2>1. IsDir(n) <=> nd[n].kind = "dir"
      BY <1>2, NodesAre DEF IsDir
    <2> QED BY <1>1, <2>1 DEF Reparented
  <1> HIDE DEF x, z
  <1>11. /\ v[e.dir][e.slot] = Free
         /\ \A y \in Dirs : Len(v[y]) = Len(t[y])
         /\ \A y \in Dirs : Slots(v, y) = IF y = e.dir THEN Slots(t, e.dir) \ {e.slot} ELSE Slots(t, y)
         /\ \A y \in Dirs : \A j \in Slots(v, y) : v[y][j] = t[y][j]
         /\ \A y \in Dirs : \A j \in 1 .. Len(t[y]) : t[y][j] = Free => v[y][j] = Free
    <2> DEFINE y == e.dir
               i == e.slot
    <2>1. y \in Dirs /\ i \in Slots(t, y) /\ v = Wiped(t, y, i)
      BY <1>5
    <2> HIDE DEF y, i, v
    <2>2. /\ v[y][i] = Free
          /\ \A q \in Dirs : Len(v[q]) = Len(t[q])
          /\ \A q \in Dirs : Slots(v, q) = IF q = y THEN Slots(t, y) \ {i} ELSE Slots(t, q)
          /\ \A q \in Dirs : \A j \in Slots(v, q) : v[q][j] = t[q][j]
          /\ \A q \in Dirs : \A j \in 1 .. Len(t[q]) : t[q][j] = Free => v[q][j] = Free
      BY <1>3, <2>1, WipedIs
    <2> QED BY <2>2 DEF y, i
  <1> DEFINE k == w.slot
  <1>12. k <= Len(v[d]) + 1 /\ (k <= Len(v[d]) => v[d][k] = Free)
    <2>1. Len(v[d]) = Len(t[d]) /\ Len(t[d]) \in Nat
      BY <1>3, <1>11, SlotsAre
    <2>2. k \in Nat /\ k >= 1
      BY <1>2, NodesAssumption
    <2>3. CASE k \in {source} \ {0}
      BY <1>2, <1>11, <2>1, <2>3 DEF Source
    <2>4. CASE k \notin {source} \ {0}
      BY <1>2, <1>11, <2>1, <2>2, <2>4
    <2> QED BY <2>3, <2>4
  <1>13. \A j \in Slots(v, d) : v[d][j].name # x.name
    BY <1>2, <1>9, <1>11
  <1> HIDE DEF v
  <1>14. TreeRight(tree', node') /\ NoDirLost(nd, node')
    <2>1. v = Wiped(t, e.dir, e.slot)
      BY DEF v
    <2> DEFINE y == e.dir
               i == e.slot
    <2>2. y \in Dirs /\ i \in Slots(t, y) /\ Place(t, y, i, n) /\ v = Wiped(t, y, i) /\ node' = Reparented(nd, n, y, d)
      BY <1>5, <1>6, <1>10, <2>1
    <2>3. k \in 1 .. MaxSlots /\ n \in Nodes /\ TreeRight(t, nd) /\ tree' = Put(v, d, k, x)
      BY <1>1, <1>2
    <2>4. Fits(v, d, k, x)
      BY <1>9, <1>12, <1>13, <2>3 DEF Fits
    <2> HIDE DEF y, i, k, n
    <2> QED BY <1>7, <1>8, <1>9, <2>2, <2>3, <2>4, Relocated
  <1> QED BY <1>2, <1>14 DEF NoDirLost

-----------------------------------------------------------------------------
(* Where the innermost loop is                                              *)

\* The types of what a loop keeps.
LEMMA FrameIs ==
    ASSUME NEW f \in Frames
    PROVE  /\ f.fn \in {"path", "loop", "del", "host"} /\ f.dir \in Dirs /\ f.comps \in Path /\ f.pos \in Nat
           /\ f.ret \in SUBSET Results /\ f.to \in Dirs \cup {None}
           /\ f.at \in [dir : Dirs, slot : Nat, id : Dirs] /\ f.sum \in Nat
           /\ f.out \in Path /\ f.path \in Path /\ f.left \in Path
  BY DEF Frames

\* The innermost loop is the first of the stack.
LEMMA TopIs ==
    ASSUME NEW S, stack \in Seq(S), Running
    PROVE  /\ Top = stack[1] /\ Top \in S /\ stack # <<>> /\ 1 \in DOMAIN stack
           /\ Len(stack) \in Nat /\ Len(stack) >= 1 /\ DOMAIN stack = 1 .. Len(stack)
           /\ Tail(stack) \in Seq(S)
           /\ Len(stack) > 1 => 2 \in DOMAIN stack /\ stack[2] \in S
  BY DEF Running, Top

\* What is looked at next in a directory.
LEMMA AheadIs ==
    ASSUME TreeRight(tree, node), NEW f \in Frames, f.fn # "host", ~OnItself(f), f.pos >= 1, Ahead(f) # {}
    PROVE  /\ Ahead(f) \subseteq Slots(tree, f.dir) /\ NextSlot(f) \in Ahead(f)
           /\ \A j \in Ahead(f) : NextSlot(f) <= j
           /\ NextSlot(f) \in Nat /\ NextSlot(f) >= f.pos
           /\ Matches(f, tree[f.dir][NextSlot(f)])
  <1>1. tree \in TreeType /\ f.dir \in Dirs /\ f.pos \in Nat
    BY FrameIs, TypedIs DEF TreeRight
  <1>2. Len(tree[f.dir]) \in Nat /\ Slots(tree, f.dir) = {i \in 1 .. Len(tree[f.dir]) : tree[f.dir][i] # Free}
    BY <1>1, SlotsAre
  <1>3. Ahead(f) = {i \in f.pos .. Len(tree[f.dir]) : Matches(f, tree[f.dir][i])}
    BY DEF Ahead
  <1>4. \A i \in Ahead(f) : tree[f.dir][i] # Free
    BY <1>3 DEF Matches
  <1>5. Ahead(f) \subseteq Slots(tree, f.dir) /\ Ahead(f) \subseteq Nat
    BY <1>1, <1>2, <1>3, <1>4
  <1>6. \E i \in Ahead(f) : \A j \in Ahead(f) : i <= j
    BY <1>5, LeastIs
  <1>7. NextSlot(f) \in Ahead(f) /\ \A j \in Ahead(f) : NextSlot(f) <= j
    BY <1>6 DEF NextSlot
  <1> QED BY <1>1, <1>2, <1>3, <1>5, <1>7

EntryAt == [dir : Dirs, slot : Nat, id : Dirs]

\* What the callback is called for.
Seen ==
    /\ Here \in EntryAt /\ Here.dir \in LiveDirs
    /\ Here.id # Root => /\ Here.id \in Nodes /\ Here.id \in Live(node)
                         /\ Place(tree, Here.dir, Here.slot, Here.id)
    /\ IsDir(Here.id) => LiveDir(node, Here.id)
    /\ After \in Nat /\ After > 1
    /\ OnItself(Top) => LiveDir(node, Here.id)
    /\ ~OnItself(Top) =>
          /\ Here.dir = Top.dir /\ Here.slot = NextSlot(Top) /\ After = NextSlot(Top) + 1
          /\ NextSlot(Top) \in Nat /\ NextSlot(Top) >= Top.pos /\ Here.id # Root
          /\ node[Here.id].kind \in Accepts(Top)
          /\ \A j \in Ahead(Top) : NextSlot(Top) <= j

\* Where a loop that is right has come to there is an entry, or the root itself.
LEMMA HereIs ==
    ASSUME TreeRight(tree, node), Top \in Frames, FrameRight(cmd, job.side, tree, node, Top),
           More(Top), Top.fn # "host"
    PROVE  Seen
  <1>1. Top.pos \in Nat /\ Top.pos >= 1 /\ Top.dir \in Dirs /\ Ahead(Top) # {}
    BY FrameIs DEF FrameRight, More
  <1>2. CASE OnItself(Top)
    <2>1. Top.pos = 1 /\ Top.fn = "path"
      BY <1>1, <1>2 DEF Ahead, OnItself
    <2>2. Top.dir \in LiveDirs
      BY <1>1, <2>1 DEF FrameRight, Walks, LiveDirs
    <2>3. Self(Top.dir).dir \in LiveDirs
      BY <2>2, SelfIs
    <2>4. \E d \in LiveDirs : Here = Self(d)
      BY <1>2, <2>2, <2>3 DEF Here
    <2>5. PICK d \in LiveDirs : Here = Self(d)
      BY <2>4
    <2>6. /\ Here \in EntryAt /\ Here.id = d /\ Here.dir \in LiveDirs
          /\ d # Root => Place(tree, Here.dir, Here.slot, d)
      BY <2>5, SelfIs DEF EntryAt
    <2>7. After = 2
      BY <1>2 DEF After
    <2>8. LiveDir(node, d) /\ d \in Dirs /\ (d # Root => d \in Nodes /\ d \in Live(node))
      BY DEF LiveDirs, Dirs, LiveDir, Live
    <2> QED BY <1>2, <2>6, <2>7, <2>8 DEF Seen
  <1>3. CASE ~OnItself(Top)
    <2> DEFINE i == NextSlot(Top)
               n == tree[Top.dir][i].id
    <2>1. /\ i \in Slots(tree, Top.dir) /\ i \in Nat /\ i >= Top.pos
          /\ Matches(Top, tree[Top.dir][i]) /\ \A j \in Ahead(Top) : i <= j
      BY <1>1, <1>3, AheadIs
    <2>2. Here = [dir |-> Top.dir, slot |-> i, id |-> n]
      BY <1>3 DEF Here
    <2>3. n \in Nodes /\ n \in Live(node) /\ LiveDir(node, Top.dir) /\ n # Root /\ n \in Dirs
      BY <1>1, <2>1, TypedIs, NodesAre DEF TreeRight, Listed
    <2>4. After = i + 1
      BY <1>3 DEF After
    <2>5. node[n].kind \in Accepts(Top)
      BY <2>1 DEF Matches
    <2> HIDE DEF i, n
    <2>6. Here \in EntryAt /\ Here.dir = Top.dir /\ Here.slot = i /\ Here.id = n
      BY <1>1, <2>1, <2>2, <2>3 DEF EntryAt
    <2>7. i \in Slots(tree, Top.dir) /\ tree[Top.dir][i].id = n
      BY <2>1 DEF n
    <2>8. Place(tree, Top.dir, i, n)
      BY <1>1, <2>7 DEF Place
    <2>9. IsDir(n) => LiveDir(node, n)
      BY <2>3, IsDirIs
    <2>10. i + 1 \in Nat /\ i + 1 > 1
      BY <1>1, <2>1
    <2>11. Top.dir \in LiveDirs
      BY <1>1, <2>3 DEF LiveDirs
    <2> QED BY <1>3, <2>1, <2>3, <2>4, <2>5, <2>6, <2>8, <2>9, <2>10, <2>11 DEF Seen, i
  <1> QED BY <1>2, <1>3

-----------------------------------------------------------------------------
(* Steps of the commands that delete nothing                                *)

\* Without deletions each loop is right by itself.
Calm(c, side, nd, s) ==
    /\ ~Deleting(c) /\ s \in Seq(Frames)
    /\ s # <<>> => s[Len(s)].fn \in {"path", "host"}
    /\ \A k \in DOMAIN s : /\ s[k].pos >= 1 /\ s[k].fn # "del" /\ (s[k].fn = "host" => c.op = "mcopy")
                           /\ s[k].to # None => LiveDir(nd, s[k].to)
                           /\ c.op = "mcopy" /\ side = "dos" => s[k].to # None
                           /\ s[k].fn \in {"path", "loop"} => LiveDir(nd, s[k].dir) /\ (Special(s[k]) => s[k].pos = 1)
Sane(c, side, nd, f) ==
    /\ f \in Frames /\ f.pos >= 1 /\ f.fn # "del" /\ (f.fn = "host" => c.op = "mcopy")
    /\ f.to # None => LiveDir(nd, f.to)
    /\ c.op = "mcopy" /\ side = "dos" => f.to # None
    /\ f.fn \in {"path", "loop"} => LiveDir(nd, f.dir) /\ (Special(f) => f.pos = 1)

\* For a command that does not delete the invariant of the stack is about each loop on its own, ...
LEMMA CalmIs ==
    ASSUME NEW c, NEW side, NEW t, NEW nd, NEW s, ~Deleting(c)
    PROVE  StackRight(c, side, t, nd, s) <=> Calm(c, side, nd, s)
  <1>1. ASSUME StackRight(c, side, t, nd, s) PROVE Calm(c, side, nd, s)
    <2>1. s \in Seq(Frames) /\ (s # <<>> => s[Len(s)].fn \in {"path", "host"})
          /\ \A k \in DOMAIN s : FrameRight(c, side, t, nd, s[k])
      BY <1>1 DEF StackRight
    <2>2. \A k \in DOMAIN s : s[k].fn # "del"
      BY <2>1 DEF FrameRight, Deletion
    <2> QED BY <2>1, <2>2 DEF Calm, FrameRight, Target, Walks
  <1>2. ASSUME Calm(c, side, nd, s) PROVE StackRight(c, side, t, nd, s)
    <2>1. \A k \in DOMAIN s : s[k].fn # "del"
      BY <1>2 DEF Calm
    <2>2. \A k \in DOMAIN s : FrameRight(c, side, t, nd, s[k])
      BY <1>2, <2>1 DEF Calm, FrameRight, Target, Walks, Deletion
    <2>3. Chain(t, s) /\ Passed(t, s) /\ Returned(c, s)
      BY <2>1 DEF Chain, Passed, Returned
    <2> QED BY <1>2, <2>2, <2>3 DEF Calm, StackRight
  <1> QED BY <1>1, <1>2

\* ... and this is what it says of each.
LEMMA CalmFrames ==
    ASSUME NEW c, NEW side, NEW nd, NEW s
    PROVE  Calm(c, side, nd, s) <=>
             /\ ~Deleting(c) /\ s \in Seq(Frames)
             /\ s # <<>> => s[Len(s)].fn \in {"path", "host"}
             /\ \A k \in DOMAIN s : Sane(c, side, nd, s[k])
  BY DEF Calm, Sane

\* Directories are only added.
LEMMA SaneKept ==
    ASSUME NEW c, NEW side, NEW nd, NEW nd2, NoDirLost(nd, nd2), NEW f, Sane(c, side, nd, f)
    PROVE  Sane(c, side, nd2, f)
  <1>1. f.dir \in Dirs /\ f.to \in Dirs \cup {None}
    BY FrameIs DEF Sane
  <1> QED BY <1>1 DEF Sane, NoDirLost

\* The innermost loop goes on.
LEMMA CalmTop ==
    ASSUME NEW c, NEW side, NEW nd, NEW nd2, NoDirLost(nd, nd2), NEW s, s # <<>>, Calm(c, side, nd, s),
           NEW f, Sane(c, side, nd2, f), f.fn = Head(s).fn,
           NEW r, r = <<f>> \o Tail(s)
    PROVE  Calm(c, side, nd2, r)
  <1>1. ~Deleting(c) /\ s \in Seq(Frames) /\ s[Len(s)].fn \in {"path", "host"}
        /\ \A k \in DOMAIN s : Sane(c, side, nd, s[k])
    BY CalmFrames
  <1>2. f \in Frames
    BY DEF Sane
  <1>3. /\ r \in Seq(Frames) /\ r # <<>> /\ Len(r) = Len(s) /\ Len(s) \in Nat /\ Len(s) >= 1
        /\ DOMAIN r = DOMAIN s /\ DOMAIN s = 1 .. Len(s) /\ r[1] = f
        /\ \A k \in DOMAIN s : k # 1 => r[k] = s[k]
    BY <1>1, <1>2, OnTop
  <1>4. Head(s) = s[1]
    BY <1>1
  <1>5. r[Len(r)].fn \in {"path", "host"}
    BY <1>1, <1>3, <1>4
  <1>6. ASSUME NEW k \in DOMAIN r PROVE Sane(c, side, nd2, r[k])
    BY <1>1, <1>3, SaneKept
  <1> QED BY <1>1, <1>3, <1>5, <1>6, CalmFrames

\* It calls another loop, ...
LEMMA CalmCall ==
    ASSUME NEW c, NEW side, NEW nd, NEW nd2, NoDirLost(nd, nd2), NEW s, s # <<>>, Calm(c, side, nd, s),
           NEW f, Sane(c, side, nd2, f), f.fn = Head(s).fn, NEW g, Sane(c, side, nd2, g),
           NEW r, r = <<g, f>> \o Tail(s)
    PROVE  Calm(c, side, nd2, r)
  <1>1. ~Deleting(c) /\ s \in Seq(Frames) /\ s[Len(s)].fn \in {"path", "host"}
        /\ \A k \in DOMAIN s : Sane(c, side, nd, s[k])
    BY CalmFrames
  <1>2. f \in Frames /\ g \in Frames
    BY DEF Sane
  <1>3. /\ r \in Seq(Frames) /\ r # <<>> /\ Len(r) = Len(s) + 1 /\ Len(s) \in Nat /\ Len(s) >= 1
        /\ DOMAIN r = 1 .. Len(s) + 1 /\ DOMAIN s = 1 .. Len(s) /\ r[1] = g /\ r[2] = f
        /\ \A k \in DOMAIN s : k # 1 => r[k + 1] = s[k]
    BY <1>1, <1>2, OnTopOf
  <1>4. Head(s) = s[1]
    BY <1>1
  <1>5. r[Len(r)].fn \in {"path", "host"}
    <2>1. CASE Len(s) = 1
      BY <1>1, <1>3, <1>4, <2>1
    <2>2. CASE Len(s) # 1
      BY <1>1, <1>3, <2>2
    <2> QED BY <2>1, <2>2
  <1>6. ASSUME NEW k \in DOMAIN r PROVE Sane(c, side, nd2, r[k])
    <2>1. CASE k \in {1, 2}
      BY <1>3, <2>1
    <2>2. CASE k \notin {1, 2}
      <3>1. k - 1 \in DOMAIN s /\ k - 1 # 1 /\ (k - 1) + 1 = k
        BY <1>3, <2>2
      <3>2. r[k] = s[k - 1]
        BY <1>3, <3>1
      <3> QED BY <1>1, <3>1, <3>2, SaneKept
    <2> QED BY <2>1, <2>2
  <1> QED BY <1>1, <1>3, <1>5, <1>6, CalmFrames

\* ... which returns to it.
LEMMA CalmReturn ==
    ASSUME NEW c, NEW side, NEW nd, NEW s, Len(s) > 1, Calm(c, side, nd, s),
           NEW f, Sane(c, side, nd, f), f.fn = s[2].fn,
           NEW r, r = Back(s, f)
    PROVE  Calm(c, side, nd, r)
  <1>1. ~Deleting(c) /\ s \in Seq(Frames) /\ \A k \in DOMAIN s : Sane(c, side, nd, s[k])
    BY CalmFrames
  <1>2. f \in Frames
    BY DEF Sane
  <1>3. /\ r \in Seq(Frames) /\ r # <<>> /\ Len(r) = Len(s) - 1 /\ Len(s) \in Nat
        /\ DOMAIN r = 1 .. Len(s) - 1 /\ DOMAIN s = 1 .. Len(s) /\ r[1] = f
        /\ \A k \in DOMAIN r : k # 1 => r[k] = s[k + 1]
    <2>1. s \in Seq(Frames) /\ Len(s) > 1 /\ f \in Frames /\ r = Back(s, f)
      BY <1>1, <1>2
    <2>2. Popped(Frames, s, f, Back(s, f))
      BY <2>1, OffTop
    <2> QED BY <2>1, <2>2 DEF Popped
  <1>4. s[Len(s)].fn \in {"path", "host"}
    <2>1. s # <<>>
      BY <1>1
    <2> QED BY <2>1, CalmFrames
  <1>5. r[Len(r)].fn \in {"path", "host"}
    <2>1. CASE Len(s) = 2
      BY <1>3, <1>4, <2>1
    <2>2. CASE Len(s) # 2
      <3>1. Len(r) \in DOMAIN r /\ Len(r) # 1 /\ Len(r) + 1 = Len(s)
        BY <1>3, <2>2
      <3> QED BY <1>3, <1>4, <3>1
    <2> QED BY <2>1, <2>2
  <1>6. ASSUME NEW k \in DOMAIN r PROVE Sane(c, side, nd, r[k])
    <2>1. CASE k = 1
      BY <1>3, <2>1
    <2>2. CASE k # 1
      <3>1. k + 1 \in DOMAIN s /\ r[k] = s[k + 1]
        BY <1>3, <2>2
      <3> QED BY <1>1, <3>1
    <2> QED BY <2>1, <2>2
  <1> QED BY <1>1, <1>3, <1>5, <1>6, CalmFrames

-----------------------------------------------------------------------------
(* The frames a callback makes                                              *)

\* A new frame is a frame.
LEMMA PlainFrame ==
    ASSUME TreeRight(tree, node), NEW fn \in {"path", "loop", "del", "host"}, NEW d \in Dirs, NEW comps \in Path,
           NEW to \in Dirs \cup {None}, NEW at \in EntryAt, NEW f, f = Frame(fn, d, comps, to, at)
    PROVE  /\ f \in Frames /\ f.fn = fn /\ f.dir = d /\ f.comps = comps /\ f.pos = 1 /\ f.ret = {} /\ f.to = to
           /\ f.at = at
  BY PathIs DEF Frame, Frames, EntryAt, Results

HostLoop(f, to) == f \in Frames /\ f.fn = "host" /\ f.pos = 1 /\ f.to = to
\* So is that of a loop on the host, ...
LEMMA HostFrameAt ==
    ASSUME TreeRight(tree, node), NEW to \in Dirs \cup {None},
           NEW path \in Path, NEW names \in Path, NEW out \in Path
    PROVE  HostLoop(HostFrame(path, names, to, out), to)
  <1> DEFINE at == Self(Root)
             none == <<>>
             d == Root
             f == HostFrame(path, names, to, out)
             g == Frame("host", d, none, to, at)
  <1>1. at \in EntryAt
    BY SelfIs, IsDirIs DEF EntryAt
  <1>2. d \in Dirs /\ none \in Path
    BY NodesAre, PathIs
  <1>3. f = [g EXCEPT !.path = path, !.left = names, !.out = out]
    BY DEF HostFrame
  <1> HIDE DEF at, d, none, f
  <1>4. g \in Frames /\ g.fn = "host" /\ g.pos = 1 /\ g.to = to
    BY <1>1, <1>2, PlainFrame
  <1> HIDE DEF g
  <1>5. HostLoop(f, to)
    BY <1>3, <1>4 DEF Frames, HostLoop
  <1> QED BY <1>5 DEF f

\* A directory of the disk for the copies, if there has to be one.
Bound(c, side, nd, to) ==
    /\ to # None => LiveDir(nd, to)
    /\ c.op = "mcopy" /\ side = "dos" => to # None
Copying(c) == c.op = "mcopy"

\* ... which has what it needs.
LEMMA HostFrameIs ==
    ASSUME TreeRight(tree, node), NEW c, NEW side, NEW nd, Copying(c),
           NEW to \in Dirs \cup {None}, Bound(c, side, nd, to),
           NEW path \in Path, NEW names \in Path, NEW out \in Path
    PROVE  Sane(c, side, nd, HostFrame(path, names, to, out))
  <1>1. HostLoop(HostFrame(path, names, to, out), to)
    BY HostFrameAt
  <1> DEFINE f == HostFrame(path, names, to, out)
  <1>2. HostLoop(f, to)
    BY <1>1
  <1> HIDE DEF f
  <1>3. Sane(c, side, nd, f)
    BY <1>2 DEF HostLoop, Sane, Bound, Copying
  <1> QED BY <1>3 DEF f

PathLoop(f, d, to) == f \in Frames /\ f.fn = "path" /\ f.dir = d /\ f.pos = 1 /\ f.ret = {} /\ f.to = to
\* The frame of recurs_dos_loop, ...
LEMMA PathFrameIs ==
    ASSUME TreeRight(tree, node), NEW d \in Dirs, NEW comps \in Path,
           NEW to \in Dirs \cup {None}, NEW out \in Path
    PROVE  PathLoop(PathFrame(d, comps, to, out), d, to)
  <1> DEFINE f == PathFrame(d, comps, to, out)
             at == Self(Root)
             g == Frame("path", d, comps, to, at)
  <1>1. at \in EntryAt
    BY SelfIs, IsDirIs DEF EntryAt
  <1> HIDE DEF at
  <1>3. g \in Frames /\ g.fn = "path" /\ g.pos = 1 /\ g.to = to /\ g.dir = d /\ g.comps = comps /\ g.ret = {}
    BY <1>1, PlainFrame
  <1>4. f = [g EXCEPT !.out = out]
    BY DEF PathFrame, at
  <1> HIDE DEF g, f
  <1>5. PathLoop(f, d, to)
    BY <1>3, <1>4 DEF Frames, PathLoop
  <1> QED BY <1>5 DEF f

\* ... and that of mt_dos_loop.
LEMMA LoopFrameIs ==
    ASSUME TreeRight(tree, node), NEW c, NEW side, NEW nd, NEW at \in EntryAt, LiveDir(nd, at.id),
           NEW to \in Dirs \cup {None}, Bound(c, side, nd, to),
           NEW out \in Path, NEW sum \in Nat
    PROVE  /\ Sane(c, side, nd, LoopFrame(at, to))
           /\ Sane(c, side, nd, [LoopFrame(at, to) EXCEPT !.out = out])
           /\ Sane(c, side, nd, [LoopFrame(at, to) EXCEPT !.sum = sum])
  <1> DEFINE d == at.id
             stars == <<Star>>
             g == Frame("loop", d, stars, to, at)
  <1>1. d \in Dirs /\ stars \in Path
    BY PathIs DEF EntryAt
  <1>4. g = LoopFrame(at, to)
    BY DEF LoopFrame
  <1>5. LiveDir(nd, d)
    OBVIOUS
  <1> HIDE DEF d, stars
  <1>3. g \in Frames /\ g.fn = "loop" /\ g.pos = 1 /\ g.to = to /\ g.dir = d
    BY <1>1, PlainFrame
  <1> HIDE DEF g
  <1>6. ASSUME NEW f \in {g, [g EXCEPT !.out = out], [g EXCEPT !.sum = sum]}
        PROVE  Sane(c, side, nd, f)
    <2>1. f \in Frames /\ f.fn = "loop" /\ f.pos = 1 /\ f.to = to /\ f.dir = d
      BY <1>3 DEF Frames
    <2> QED BY <1>5, <2>1 DEF Sane, Bound
  <1> QED BY <1>4, <1>6

\* A result is added to those there were.
LEMMA AddIs ==
    ASSUME NEW f \in Frames, NEW r \in SUBSET Results, NEW g, g = Add(f, r)
    PROVE  /\ g \in Frames /\ g.fn = f.fn /\ g.dir = f.dir /\ g.comps = f.comps /\ g.pos = f.pos /\ g.to = f.to
           /\ g.at = f.at /\ g.sum = f.sum
           /\ g.ret = f.ret \cup (IF f.fn = "del" THEN r \ {"got"} ELSE r)
           /\ Special(g) <=> Special(f)
  <1>1. f.ret \cup (IF f.fn = "del" THEN r \ {"got"} ELSE r) \in SUBSET Results
    BY FrameIs
  <1>2. /\ g \in Frames /\ g.fn = f.fn /\ g.dir = f.dir /\ g.comps = f.comps /\ g.pos = f.pos /\ g.to = f.to
        /\ g.at = f.at /\ g.sum = f.sum /\ g.ret = f.ret \cup (IF f.fn = "del" THEN r \ {"got"} ELSE r)
    BY <1>1 DEF Add, Frames
  <1> QED BY <1>2 DEF Special, AtLeaf

\* Results that are added change nothing else.
LEMMA SaneAdd ==
    ASSUME NEW c, NEW side, NEW nd, NEW f, Sane(c, side, nd, f), NEW r \in SUBSET Results, NEW g, g = Add(f, r)
    PROVE  Sane(c, side, nd, g) /\ g.fn = f.fn
  <1>1. f \in Frames
    BY DEF Sane
  <1>2. /\ g \in Frames /\ g.fn = f.fn /\ g.dir = f.dir /\ g.comps = f.comps /\ g.pos = f.pos /\ g.to = f.to
        /\ Special(g) <=> Special(f)
    BY <1>1, AddIs
  <1> QED BY <1>2 DEF Sane

\* The loop goes on with its next item.
LEMMA OnwardIs ==
    ASSUME Top \in Frames, Top.fn # "host" => After \in Nat, Top.fn = "host" => Top.left # <<>>,
           NEW g, g = Onward
    PROVE  /\ g \in Frames /\ g.fn = Top.fn /\ g.dir = Top.dir /\ g.comps = Top.comps /\ g.to = Top.to
           /\ g.ret = Top.ret /\ g.at = Top.at
           /\ g.pos = IF Top.fn = "host" THEN Top.pos ELSE After
           /\ Special(g) <=> Special(Top)
  <1>1. CASE Top.fn = "host"
    <2>1. Tail(Top.left) \in Path
      BY <1>1, FrameIs, PathIs
    <2>2. g = [Top EXCEPT !.left = Tail(@)]
      BY <1>1 DEF Onward
    <2> DEFINE f == Top
    <2> HIDE DEF f
    <2>3. f \in Frames /\ Tail(f.left) \in Path /\ g = [f EXCEPT !.left = Tail(@)]
      BY <2>1, <2>2 DEF f
    <2>4. g \in Frames /\ g.fn = f.fn /\ g.dir = f.dir /\ g.comps = f.comps /\ g.to = f.to /\ g.ret = f.ret
          /\ g.at = f.at /\ g.pos = f.pos
      BY <2>3 DEF Frames
    <2> QED BY <1>1, <2>4 DEF f, Special, AtLeaf
  <1>2. CASE Top.fn # "host"
    <2> DEFINE f == Top
               p == After
    <2>1. g = [f EXCEPT !.pos = p] /\ p \in Nat /\ f \in Frames
      BY <1>2 DEF Onward
    <2> HIDE DEF f, p
    <2>4. g \in Frames /\ g.fn = f.fn /\ g.dir = f.dir /\ g.comps = f.comps /\ g.to = f.to /\ g.ret = f.ret
          /\ g.at = f.at /\ g.pos = p
      BY <2>1 DEF Frames
    <2> QED BY <1>2, <2>4 DEF f, p, Special, AtLeaf
  <1> QED BY <1>1, <1>2

-----------------------------------------------------------------------------
(* What a callback that deletes nothing does to the loops                   *)

Quietly ==
    /\ TreeRight(tree, node) /\ HostTyped(host) /\ cwd \in Path
    /\ JobRight(cmd, job, node, stack) /\ Calm(cmd, job.side, node, stack) /\ Running

\* What is known before such a step.
LEMMA QuietIs ==
    ASSUME Quietly
    PROVE  /\ stack \in Seq(Frames) /\ stack # <<>> /\ Top = Head(stack) /\ Top = stack[1] /\ 1 \in DOMAIN stack
           /\ Top \in Frames /\ Sane(cmd, job.side, node, Top) /\ FrameRight(cmd, job.side, tree, node, Top)
           /\ \A k \in DOMAIN stack : Sane(cmd, job.side, node, stack[k])
           /\ ~Deleting(cmd) /\ cmd \in Commands /\ job \in Jobs
           /\ Len(stack) \in Nat /\ Len(stack) >= 1 /\ DOMAIN stack = 1 .. Len(stack)
           /\ stack[Len(stack)].fn \in {"path", "host"}
  <1>1. /\ stack \in Seq(Frames) /\ ~Deleting(cmd) /\ \A k \in DOMAIN stack : Sane(cmd, job.side, node, stack[k])
    BY CalmFrames DEF Quietly
  <1>2. /\ Top = stack[1] /\ Top \in Frames /\ stack # <<>> /\ 1 \in DOMAIN stack
        /\ Len(stack) \in Nat /\ Len(stack) >= 1 /\ DOMAIN stack = 1 .. Len(stack)
    BY <1>1, TopIs DEF Quietly
  <1>3. StackRight(cmd, job.side, tree, node, stack)
    BY <1>1, CalmIs DEF Quietly
  <1>4. FrameRight(cmd, job.side, tree, node, Top)
    BY <1>2, <1>3 DEF StackRight
  <1>5. stack[Len(stack)].fn \in {"path", "host"}
    BY <1>2, <1>3 DEF StackRight
  <1>6. cmd \in Commands /\ job \in Jobs
    BY <1>2 DEF Quietly, JobRight
  <1>7. Top = Head(stack)
    BY DEF Top
  <1> QED BY <1>1, <1>2, <1>4, <1>5, <1>6, <1>7

\* What a loop that goes on has come to.
LEMMA QuietSeen ==
    ASSUME Quietly, More(Top)
    PROVE  /\ Top.fn # "host" => Seen
           /\ Top.fn = "host" => Top.left # <<>> /\ Head(Top.left) \in Name
  <1>1. Top \in Frames /\ FrameRight(cmd, job.side, tree, node, Top)
    BY QuietIs
  <1>2. CASE Top.fn # "host"
    BY <1>1, <1>2, HereIs DEF Quietly
  <1>3. CASE Top.fn = "host"
    <2>1. DOMAIN Top.left # {}
      BY <1>3 DEF More, Ahead
    <2>2. Top.left \in Path
      BY <1>1, FrameIs
    <2> DEFINE p == Top.left
    <2> HIDE DEF p
    <2>3. p \in Seq(Name) /\ DOMAIN p # {}
      BY <2>1, <2>2 DEF p, Path
    <2>4. p # <<>> /\ Head(p) \in Name
      BY <2>3
    <2> QED BY <1>3, <2>4 DEF p
  <1> QED BY <1>2, <1>3

\* A loop that has gone on to the next slot needs no more than before.
LEMMA SaneOnward ==
    ASSUME Quietly, More(Top), ~Special(Top)
    PROVE  Sane(cmd, job.side, node, Onward) /\ Onward.fn = Head(stack).fn
  <1> DEFINE g == Onward
             f == Top
             a == After
  <1>1. f \in Frames /\ Sane(cmd, job.side, node, f) /\ f = Head(stack)
    BY QuietIs
  <1>2. Top.fn # "host" => After \in Nat /\ After > 1
    BY QuietSeen DEF Seen
  <1>3. Top.fn = "host" => Top.left # <<>>
    BY QuietSeen
  <1>4. /\ g \in Frames /\ g.fn = Top.fn /\ g.dir = Top.dir /\ g.comps = Top.comps /\ g.to = Top.to
        /\ g.pos = IF Top.fn = "host" THEN Top.pos ELSE After
        /\ Special(g) <=> Special(Top)
    BY <1>1, <1>2, <1>3, OnwardIs
  <1>5. ~Special(f)
    OBVIOUS
  <1> HIDE DEF g
  <1>6. /\ g \in Frames /\ g.fn = f.fn /\ g.dir = f.dir /\ g.to = f.to /\ ~Special(g)
        /\ g.pos = f.pos \/ g.pos = a
    BY <1>4, <1>5
  <1>7. f.fn # "host" => a > 1 /\ a \in Nat /\ g.pos = a
    BY <1>2, <1>4
  <1>8. f.fn = "host" => g.pos = f.pos
    BY <1>4
  <1> HIDE DEF f, a
  <1>9. f.pos >= 1 /\ f.pos \in Nat
    BY <1>1, FrameIs DEF Sane
  <1>10. g.pos >= 1
    BY <1>7, <1>8, <1>9
  <1>11. Sane(cmd, job.side, node, g)
    BY <1>1, <1>6, <1>10 DEF Sane
  <1> QED BY <1>1, <1>6, <1>11 DEF f, g

\* The callback returns.
LEMMA Answered ==
    ASSUME Quietly, More(Top), ~Special(Top), NEW r \in SUBSET Results, Answer(r), NoDirLost(node, node')
    PROVE  Calm(cmd, job.side, node', stack') /\ stack' # <<>>
  <1> DEFINE g == Onward
             f == Add(g, r)
  <1>1. Sane(cmd, job.side, node, g) /\ g.fn = Head(stack).fn
    BY SaneOnward
  <1> HIDE DEF g
  <1>2. Sane(cmd, job.side, node, f) /\ f.fn = g.fn
    BY <1>1, SaneAdd
  <1> HIDE DEF f
  <1>3. Sane(cmd, job.side, node', f)
    BY <1>2, SaneKept
  <1>4. stack \in Seq(Frames) /\ stack # <<>> /\ Calm(cmd, job.side, node, stack)
    BY QuietIs DEF Quietly
  <1>5. stack' = <<f>> \o Tail(stack)
    BY DEF Answer, f, g
  <1>6. Calm(cmd, job.side, node', stack')
    BY <1>1, <1>2, <1>3, <1>4, <1>5, CalmTop
  <1>7. stack' # <<>>
    BY <1>3, <1>4, <1>5, OnTop DEF Sane
  <1> QED BY <1>6, <1>7

\* The callback runs a loop.
LEMMA Called ==
    ASSUME Quietly, More(Top), ~Special(Top), NEW f, Sane(cmd, job.side, node', f), Call(f), NoDirLost(node, node')
    PROVE  Calm(cmd, job.side, node', stack') /\ stack' # <<>>
  <1> DEFINE g == Onward
  <1>1. Sane(cmd, job.side, node, g) /\ g.fn = Head(stack).fn
    BY SaneOnward
  <1> HIDE DEF g
  <1>3. Sane(cmd, job.side, node', g)
    BY <1>1, SaneKept
  <1>4. stack \in Seq(Frames) /\ stack # <<>> /\ Calm(cmd, job.side, node, stack)
    BY QuietIs DEF Quietly
  <1>5. stack' = <<f, g>> \o Tail(stack)
    BY DEF Call, g
  <1>6. Calm(cmd, job.side, node', stack')
    BY <1>1, <1>3, <1>4, <1>5, CalmCall
  <1>7. stack' # <<>>
    BY <1>3, <1>4, <1>5, OnTopOf DEF Sane
  <1> QED BY <1>6, <1>7

\* A loop ends: its caller is as it was ...
LEMMA ReturnedTo ==
    ASSUME Quietly, Len(stack) > 1, NEW f, Sane(cmd, job.side, node, f), f.fn = stack[2].fn, stack' = Back(stack, f)
    PROVE  Calm(cmd, job.side, node, stack') /\ stack' # <<>>
  <1>1. stack \in Seq(Frames) /\ Calm(cmd, job.side, node, stack) /\ f \in Frames
    BY QuietIs DEF Quietly, Sane
  <1>2. Calm(cmd, job.side, node, stack')
    BY <1>1, CalmReturn
  <1>3. Popped(Frames, stack, f, Back(stack, f))
    BY <1>1, OffTop
  <1> QED BY <1>2, <1>3 DEF Popped

\* ... but for the results.
LEMMA CameBack ==
    ASSUME Quietly, Len(stack) > 1, NEW r \in SUBSET Results, Return(r)
    PROVE  Calm(cmd, job.side, node, stack') /\ stack' # <<>>
  <1> DEFINE f == Add(stack[2], r)
  <1>1. 2 \in DOMAIN stack /\ Sane(cmd, job.side, node, stack[2])
    BY QuietIs
  <1>2. Sane(cmd, job.side, node, f) /\ f.fn = stack[2].fn
    BY <1>1, SaneAdd
  <1>3. stack' = Back(stack, f)
    BY DEF Return, Back
  <1> HIDE DEF f
  <1> QED BY <1>2, <1>3, ReturnedTo

-----------------------------------------------------------------------------
(* The whole state after such a step                                        *)

\* No directory is lost to the rest of the command either.
LEMMA JobKept ==
    ASSUME NEW c, NEW j, NEW nd, NEW s, s # <<>>, JobRight(c, j, nd, s), NEW nd2, NoDirLost(nd, nd2), NEW s2
    PROVE  JobRight(c, j, nd2, s2)
  <1>1. j.target \in Dirs \cup {None}
    BY DEF JobRight, Jobs
  <1> QED BY <1>1 DEF JobRight, NoDirLost

\* When the invariant holds after the step.
LEMMA Settled ==
    ASSUME Quietly, TreeRight(tree', node'), HostTyped(host'), cwd' \in Path, cmd' = cmd,
           JobRight(cmd, job', node', stack'), job'.side = job.side, Calm(cmd, job.side, node', stack')
    PROVE  WalkInv'
  <1>1. ~Deleting(cmd)
    BY QuietIs
  <1>2. StackRight(cmd, job.side, tree', node', stack')
    BY <1>1, CalmIs
  <1> QED BY <1>2 DEF WalkInv

\* The same when main_loop's own state stays, ...
LEMMA WentOn ==
    ASSUME Quietly, TreeRight(tree', node'), NoDirLost(node, node'), HostTyped(host'), cwd' \in Path, cmd' = cmd,
           job' = job, Calm(cmd, job.side, node', stack')
    PROVE  WalkInv'
  <1>1. stack # <<>> /\ JobRight(cmd, job, node, stack)
    BY QuietIs DEF Quietly
  <1>2. JobRight(cmd, job, node', stack')
    BY <1>1, JobKept
  <1>3. JobRight(cmd, job', node', stack') /\ job'.side = job.side
    BY <1>2
  <1> QED BY <1>3, Settled

\* ... when only the stack has changed, ...
LEMMA Pured ==
    ASSUME Quietly, Pure, Calm(cmd, job.side, node', stack')
    PROVE  WalkInv'
  <1>1. /\ tree' = tree /\ node' = node /\ host' = host /\ cwd' = cwd /\ cmd' = cmd /\ job' = job
    BY DEF Pure, Same, fs, disk
  <1>2. TreeRight(tree', node') /\ NoDirLost(node, node') /\ HostTyped(host') /\ cwd' \in Path
    BY <1>1 DEF Quietly, NoDirLost
  <1> QED BY <1>1, <1>2, WentOn

\* ... and when the tree has changed, too.
LEMMA Changing ==
    ASSUME Quietly, DiskChanged, TreeRight(tree', node'), NoDirLost(node, node'), Calm(cmd, job.side, node', stack')
    PROVE  WalkInv'
  <1>1. host' = host /\ cwd' = cwd /\ cmd' = cmd /\ job' = job
    BY DEF DiskChanged, Same
  <1>2. HostTyped(host') /\ cwd' \in Path
    BY <1>1 DEF Quietly
  <1> QED BY <1>1, <1>2, WentOn

-----------------------------------------------------------------------------
(* What a callback works on                                                 *)

\* What a callback is called for.
LEMMA LeafHere ==
    ASSUME Quietly, NEW ops, NEW kind, Leaf(ops, kind)
    PROVE  More(Top) /\ ~Special(Top) /\ Top.fn # "host" /\ Seen /\ cmd.op \in ops /\ (IsDir(Here.id) <=> kind = "dir")
  <1>1. More(Top) /\ Top.fn # "host" /\ AtLeaf(Top) /\ cmd.op \in ops /\ (IsDir(Here.id) <=> kind = "dir")
    BY DEF Leaf
  <1>2. ~Special(Top)
    BY <1>1 DEF Special
  <1> QED BY <1>1, <1>2, QuietSeen

\* mpPickTargetName gives a name.
LEMMA PickNameIs ==
    ASSUME Quietly, Seen, NEW e, e = Here
    PROVE  PickName(e) \in Name
  <1>1. job.name \in Name /\ NoName \in Name /\ tree \in TreeType
    BY QuietIs, NamesAre, TypedIs DEF Quietly, Jobs, TreeRight
  <1>2. e.id # Root => tree[e.dir][e.slot].name \in Name
    <2> HAVE e.id # Root
    <2>1. Place(tree, e.dir, e.slot, e.id)
      BY DEF Seen
    <2>2. tree[e.dir][e.slot] \in SlotType
      BY <1>1, <2>1, SlotsAre DEF Place
    <2> QED BY <2>2 DEF SlotType
  <1> QED BY <1>1, <1>2 DEF PickName

\* What unix_loop has come to is a path.
LEMMA HostItemIs ==
    ASSUME Quietly, Top.fn = "host", More(Top)
    PROVE  HostItem \in Path /\ Head(Top.left) \in Name /\ cmd.op = "mcopy" /\ ~Special(Top)
  <1>1. Top \in Frames /\ Sane(cmd, job.side, node, Top) /\ Head(Top.left) \in Name
    BY QuietIs, QuietSeen
  <1>2. Top.path \in Path
    BY <1>1, FrameIs
  <1>3. Append(Top.path, Head(Top.left)) \in Path
    BY <1>1, <1>2, PathIs
  <1> QED BY <1>1, <1>3 DEF HostItem, Sane, Special

\* What mcopy copies, from the disk or from the host.
LEMMA ItemIs ==
    ASSUME Quietly, NEW kind, AtItem(kind), kind \in {"file", "dir"}
    PROVE  /\ More(Top) /\ ~Special(Top) /\ Copying(cmd) /\ ItemName \in Name
           /\ kind = "file" => ItemData \in Nat
           /\ Top.fn # "host" => Seen /\ (kind = "dir" => LiveDir(node, Here.id))
           /\ Top.fn = "host" => HostItem \in Path
  <1>1. CASE Leaf({"mcopy"}, kind)
    <2>1. More(Top) /\ ~Special(Top) /\ Top.fn # "host" /\ Seen /\ cmd.op = "mcopy" /\ (IsDir(Here.id) <=> kind = "dir")
      BY <1>1, LeafHere
    <2>2. PickName(Here) \in Name
      BY <2>1, PickNameIs
    <2>3. kind = "file" => node[Here.id].data \in Nat
      <3> HAVE kind = "file"
      <3>1. ~IsDir(Here.id)
        BY <2>1
      <3>2. Here.id \in Nodes
        BY <2>1, <3>1 DEF IsDir, Seen
      <3>3. node \in [Nodes -> NodeType]
        BY NodeTypeIs DEF Quietly, TreeRight
      <3> QED BY <3>2, <3>3 DEF NodeType
    <2>4. kind = "dir" => LiveDir(node, Here.id)
      BY <2>1 DEF Seen
    <2> QED BY <2>1, <2>2, <2>3, <2>4 DEF ItemName, ItemData, Copying
  <1>2. CASE AtHost /\ Exists(HostItem) /\ ~LinkSkipped /\ (IsHostDir(HostItem) <=> kind = "dir")
    <2>1. Top.fn = "host" /\ More(Top)
      BY <1>2 DEF AtHost
    <2>2. HostItem \in Path /\ Head(Top.left) \in Name /\ cmd.op = "mcopy" /\ ~Special(Top)
      BY <2>1, HostItemIs
    <2>3. job.name \in Name
      BY QuietIs DEF Jobs
    <2>4. kind = "file" => host[Real(HostItem)].data \in Nat
      <3> HAVE kind = "file"
      <3>1. ~IsHostDir(HostItem) /\ Exists(HostItem)
        BY <1>2
      <3>2. Real(HostItem) \in DOMAIN host
        BY <3>1 DEF Exists, IsHostDir
      <3> QED BY <3>2, HostIs DEF Quietly
    <2> QED BY <2>1, <2>2, <2>3, <2>4 DEF ItemName, ItemData, Copying
  <1> QED BY <1>1, <1>2 DEF AtItem

\* The loop over what a directory holds.
LEMMA InsideIs ==
    ASSUME Quietly, Copying(cmd), More(Top), NoDirLost(node, node'), NEW h, HostTyped(h),
           NEW to \in Dirs \cup {None}, Bound(cmd, job.side, node', to), NEW out \in Path,
           Top.fn # "host" => LiveDir(node, Here.id)
    PROVE  Sane(cmd, job.side, node', Inside(h, to, out))
  <1>1. CASE Top.fn = "host"
    <2> DEFINE seq == SetToSeq(Listing(h, HostItem))
               names == IF cmd.backwards THEN Reverse(seq) ELSE seq
               p == HostItem
    <2>1. p \in Path
      BY <1>1, HostItemIs
    <2>2. names \in Path
      BY <2>1, NamesInside
    <2>3. Inside(h, to, out) = HostFrame(p, names, to, out)
      BY <1>1 DEF Inside
    <2> HIDE DEF names, p
    <2>4. Sane(cmd, job.side, node', HostFrame(p, names, to, out))
      BY <2>1, <2>2, HostFrameIs DEF Quietly
    <2> QED BY <2>3, <2>4
  <1>2. CASE Top.fn # "host"
    <2> DEFINE at == Here
               f == [LoopFrame(at, to) EXCEPT !.out = out]
               zero == 0
    <2>1. at \in EntryAt /\ LiveDir(node, at.id) /\ at.id \in Dirs
      BY <1>2, QuietSeen DEF Seen, EntryAt
    <2>2. LiveDir(node', at.id)
      BY <2>1 DEF NoDirLost
    <2>3. Inside(h, to, out) = f
      BY <1>2 DEF Inside
    <2>4. zero \in Nat
      OBVIOUS
    <2> HIDE DEF at, zero
    <2>5. Sane(cmd, job.side, node', [LoopFrame(at, to) EXCEPT !.out = out])
      BY <2>1, <2>2, <2>4, LoopFrameIs DEF Quietly
    <2> QED BY <2>3, <2>5
  <1> QED BY <1>1, <1>2

\* Where copies go.
LEMMA ToIs ==
    ASSUME Quietly
    PROVE  /\ Top.to \in Dirs \cup {None} /\ Bound(cmd, job.side, node, Top.to)
           /\ Top.to # None => Top.to \in Dirs /\ LiveDir(node, Top.to)
           /\ Copying(cmd) /\ job.side = "dos" => Top.to \in Dirs /\ LiveDir(node, Top.to)
           /\ Top.out \in Path
  <1>1. Sane(cmd, job.side, node, Top) /\ Top \in Frames
    BY QuietIs
  <1>2. Top.to \in Dirs \cup {None} /\ Top.out \in Path
    BY <1>1, FrameIs
  <1> QED BY <1>1, <1>2 DEF Sane, Bound, Copying

Ones == {{}, {"got"}, {"err"}, {"stop", "err"}, {"got", "stop"}}
\* What a callback returns is a set of results.
LEMMA OnesAre == Ones \subseteq SUBSET Results
  BY DEF Ones, Results

\* A callback that only answers.
LEMMA AnsweredPure ==
    ASSUME Quietly, More(Top), ~Special(Top), NEW r \in Ones, Answer(r), Pure
    PROVE  WalkInv'
  <1>1. NoDirLost(node, node') /\ r \in SUBSET Results
    BY OnesAre DEF Pure, fs, disk, NoDirLost
  <1>2. Calm(cmd, job.side, node', stack')
    BY <1>1, Answered
  <1> QED BY <1>2, Pured

\* The callback has written an entry and returns.
LEMMA AnsweredChanged ==
    ASSUME Quietly, More(Top), ~Special(Top), NEW r \in Ones, Answer(r), DiskChanged,
           TreeRight(tree', node'), NoDirLost(node, node')
    PROVE  WalkInv'
  <1>1. r \in SUBSET Results
    BY OnesAre
  <1>2. Calm(cmd, job.side, node', stack')
    BY <1>1, Answered
  <1> QED BY <1>2, Changing

-----------------------------------------------------------------------------
(* The steps of the commands that delete nothing                            *)

\* recurs_dos_loop goes down one name of its path.
LEMMA QuietDescend ==
    ASSUME Quietly, Descend
    PROVE  WalkInv'
  <1>1. /\ tree' = tree /\ node' = node /\ host' = host /\ cwd' = cwd /\ cmd' = cmd /\ job' = job
        /\ NoDirLost(node, node') /\ Pure
    BY DEF Descend, Same, fs, disk, NoDirLost, Pure
  <1>2. /\ stack # <<>> /\ Top = Head(stack) /\ Sane(cmd, job.side, node, Top) /\ Top \in Frames
        /\ Calm(cmd, job.side, node, stack)
    BY QuietIs DEF Quietly
  <1>3. Top.fn = "path" /\ ~AtLeaf(Top) /\ Top.comps \in Path /\ Top.dir \in Dirs /\ LiveDir(node, Top.dir)
    BY <1>2, FrameIs DEF Descend, Sane
  <1>4. Top.comps # <<>> /\ Tail(Top.comps) \in Path
    <2>1. Top.comps # <<>>
      BY <1>3 DEF AtLeaf
    <2> QED BY <1>3, <2>1, PathIs
  <1>5. CASE Head(Top.comps) = Dot /\ stack' = <<[Top EXCEPT !.comps = Tail(@)]>> \o Tail(stack)
    <2> DEFINE f == Top
               p == Tail(f.comps)
               g == [f EXCEPT !.comps = p]
    <2>1. f.pos = 1 /\ f \in Frames /\ Sane(cmd, job.side, node, f) /\ p \in Path /\ f = Head(stack)
      BY <1>2, <1>3, <1>4, <1>5 DEF Special, Sane
    <2>2. stack' = <<g>> \o Tail(stack)
      BY <1>5
    <2> HIDE DEF f, p
    <2>3. g \in Frames /\ g.fn = f.fn /\ g.pos = 1 /\ g.to = f.to /\ g.dir = f.dir
      BY <2>1 DEF Frames
    <2> HIDE DEF g
    <2>4. Sane(cmd, job.side, node, g) /\ g.fn = Head(stack).fn
      BY <2>1, <2>3 DEF Sane
    <2>6. Sane(cmd, job.side, node', g)
      BY <1>1, <2>4, SaneKept
    <2>5. Calm(cmd, job.side, node', stack')
      BY <1>1, <1>2, <2>2, <2>4, <2>6, CalmTop
    <2> QED BY <1>1, <2>5, Pured
  <1>6. CASE Head(Top.comps) = Up /\ stack' = <<[Top EXCEPT !.comps = Tail(@), !.dir = Self(@).dir]>> \o Tail(stack)
    <2> DEFINE f == Top
               p == Tail(f.comps)
               d == Self(f.dir).dir
               g == [f EXCEPT !.comps = p, !.dir = d]
    <2>1. f.pos = 1 /\ f \in Frames /\ Sane(cmd, job.side, node, f) /\ p \in Path /\ f = Head(stack)
      BY <1>2, <1>3, <1>4, <1>6 DEF Special, Sane
    <2>2. stack' = <<g>> \o Tail(stack)
      BY <1>6
    <2>7. d \in Dirs /\ LiveDir(node, d)
      <3>1. Top.dir \in LiveDirs
        BY <1>3 DEF LiveDirs
      <3>2. Self(Top.dir).dir \in LiveDirs
        BY <3>1, SelfIs DEF Quietly
      <3> QED BY <3>2 DEF LiveDirs
    <2> HIDE DEF f, p, d
    <2>3. g \in Frames /\ g.fn = f.fn /\ g.pos = 1 /\ g.to = f.to /\ g.dir = d
      BY <2>1, <2>7 DEF Frames
    <2> HIDE DEF g
    <2>4. Sane(cmd, job.side, node, g) /\ g.fn = Head(stack).fn
      BY <2>1, <2>3, <2>7 DEF Sane
    <2>6. Sane(cmd, job.side, node', g)
      BY <1>1, <2>4, SaneKept
    <2>5. Calm(cmd, job.side, node', stack')
      BY <1>1, <1>2, <2>2, <2>4, <2>6, CalmTop
    <2> QED BY <1>1, <2>5, Pured
  <1>7. CASE ~Special(Top) /\ More(Top) /\ Call(PathFrame(Here.id, Tail(Top.comps), Top.to, Top.out))
    <2> DEFINE n == Here.id
               p == Tail(Top.comps)
               to == Top.to
               out == Top.out
               f == PathFrame(n, p, to, out)
    <2>1. Seen
      BY <1>3, <1>7, QuietSeen
    <2>2. ~OnItself(Top) /\ Accepts(Top) = {"dir"}
      <3>1. Len(Top.comps) > 1
        BY <1>3 DEF AtLeaf, Path
      <3>2. Top.comps \notin {<<>>, <<Dot>>, <<Up>>}
        <4> DEFINE q == Top.comps
        <4>1. Len(q) > 1
          BY <3>1
        <4> HIDE DEF q
        <4>2. q # <<>> /\ q # <<Dot>> /\ q # <<Up>>
          <5>1. ASSUME NEW nm, q = <<nm>> PROVE Len(q) = 1
            BY <5>1
          <5>2. ASSUME q = <<>> PROVE Len(q) = 0
            BY <5>2
          <5>3. ~(1 > 1) /\ ~(0 > 1)
            OBVIOUS
          <5> QED BY <4>1, <5>1, <5>2, <5>3
        <4> QED BY <4>2 DEF q
      <3> QED BY <1>3, <3>2 DEF OnItself, Accepts
    <2>3. n \in Dirs /\ LiveDir(node, n)
      BY <2>1, <2>2, NodesAre DEF Seen, LiveDir
    <2>4. to \in Dirs \cup {None} /\ Bound(cmd, job.side, node, to) /\ out \in Path /\ p \in Path
      BY <1>4, ToIs
    <2>8. Call(f)
      BY <1>7
    <2> HIDE DEF n, p, to, out
    <2>5. PathLoop(f, n, to)
      BY <2>3, <2>4, PathFrameIs DEF Quietly
    <2> HIDE DEF f
    <2>6. Sane(cmd, job.side, node, f)
      BY <2>3, <2>4, <2>5 DEF PathLoop, Sane, Bound
    <2>9. Sane(cmd, job.side, node', f)
      BY <1>1, <2>6, SaneKept
    <2>7. Calm(cmd, job.side, node', stack')
      BY <1>1, <1>7, <2>8, <2>9, Called
    <2> QED BY <1>1, <2>7, Pured
  <1> QED BY <1>5, <1>6, <1>7 DEF Descend

\* mmd makes a directory.
LEMMA QuietMmd ==
    ASSUME Quietly, Mmd
    PROVE  WalkInv'
  <1> DEFINE nm == IF Top.comps = <<>> THEN Dot ELSE Last(Top.comps)
             d == Top.dir
             zero == 0
  <1>1. More(Top) /\ ~Special(Top) /\ Top.fn # "host"
    BY LeafHere DEF Mmd
  <1>2. d \in Dirs /\ LiveDir(node, d) /\ nm \in Name
    <2>1. Top \in Frames /\ Sane(cmd, job.side, node, Top)
      BY QuietIs
    <2>2. Top.dir \in Dirs /\ Top.comps \in Path /\ Top.fn \in {"path", "loop", "del", "host"}
      BY <2>1, FrameIs
    <2>3. Dot \in Name
      BY NamesAre
    <2> QED BY <1>1, <2>1, <2>2, <2>3, PathIs DEF Sane
  <1>3. CASE /\ \E w \in Chosen(d, nm, 0, {}), n \in Nodes : MakesDir(d, nm, 0, w, n)
             /\ Answer({"got"}) /\ Changed
    <2>1. PICK w \in Chosen(d, nm, 0, {}), n \in Nodes : MakesDir(d, nm, zero, w, n)
      BY <1>3
    <2> HIDE DEF nm, d, zero
    <2>2. TreeRight(tree', node') /\ NoDirLost(node, node')
      BY <1>2, <2>1, MadeDir DEF Quietly
    <2>3. {"got"} \in Ones
      BY DEF Ones
    <2> QED BY <1>1, <1>3, <2>2, <2>3, AnsweredChanged DEF Changed
  <1>4. CASE Answer({"err"}) /\ Pure
    <2>1. {"err"} \in Ones
      BY DEF Ones
    <2> QED BY <1>1, <1>4, <2>1, AnsweredPure
  <1> QED BY <1>3, <1>4 DEF Mmd

\* mcopy writes a file to the disk.
LEMMA QuietMcopyFile ==
    ASSUME Quietly, McopyFile
    PROVE  WalkInv'
  <1> DEFINE d == Top.to
             nm == ItemName
             source == ItemSlot(d)
             data == ItemData
  <1>1. AtItem("file") /\ job.side = "dos"
    BY DEF McopyFile
  <1>2. More(Top) /\ ~Special(Top) /\ Copying(cmd) /\ nm \in Name /\ data \in Nat
    BY <1>1, ItemIs
  <1>3. d \in Dirs /\ LiveDir(node, d)
    BY <1>1, <1>2, ToIs
  <1>8. {"got"} \in Ones /\ {"err"} \in Ones
    BY DEF Ones
  <1>4. \/ /\ \E w \in Chosen(d, nm, source, {}), n \in Nodes : CopiesFile(data, d, nm, source, w, n)
           /\ Answer({"got"}) /\ Changed
        \/ (CopyFails(d, nm, source) \/ CopyCut(d, nm, source)) /\ Answer({"err"}) /\ DiskChanged
        \/ Answer({"err"}) /\ Pure
    BY DEF McopyFile, Changed
  <1> HIDE DEF d, nm, source, data
  <1>5. CASE /\ \E w \in Chosen(d, nm, source, {}), n \in Nodes : CopiesFile(data, d, nm, source, w, n)
             /\ Answer({"got"}) /\ Changed
    <2>1. PICK w \in Chosen(d, nm, source, {}), n \in Nodes : CopiesFile(data, d, nm, source, w, n)
      BY <1>5
    <2>2. TreeRight(tree', node') /\ NoDirLost(node, node')
      BY <1>2, <1>3, <2>1, CopiedFile DEF Quietly
    <2> QED BY <1>2, <1>5, <1>8, <2>2, AnsweredChanged DEF Changed
  <1>6. CASE (CopyFails(d, nm, source) \/ CopyCut(d, nm, source)) /\ Answer({"err"}) /\ DiskChanged
    <2>2. TreeRight(tree', node') /\ NoDirLost(node, node')
      BY <1>2, <1>3, <1>6, FailedCopy DEF Quietly
    <2> QED BY <1>2, <1>6, <1>8, <2>2, AnsweredChanged
  <1>7. CASE Answer({"err"}) /\ Pure
    BY <1>2, <1>7, <1>8, AnsweredPure
  <1> QED BY <1>4, <1>5, <1>6, <1>7

\* mcopy puts off the only file a pattern has matched.
LEMMA QuietDefer ==
    ASSUME Quietly, Defer
    PROVE  WalkInv'
  <1>1. /\ tree' = tree /\ node' = node /\ host' = host /\ cwd' = cwd /\ cmd' = cmd /\ NoDirLost(node, node')
    BY DEF Defer, Same, fs, disk, NoDirLost
  <1>2. More(Top) /\ ~Special(Top) /\ cmd.op = "mcopy" /\ Seen /\ (IsDir(Here.id) <=> "file" = "dir")
    BY LeafHere DEF Defer
  <1>3. Here.id \in Nodes
    BY <1>2 DEF Seen, IsDir
  <1>4. \E r \in Ones : Answer(r)
    <2>1. {} \in Ones /\ {"stop", "err"} \in Ones
      BY DEF Ones
    <2> QED BY <2>1 DEF Defer
  <1>5. PICK r \in Ones : Answer(r)
    BY <1>4
  <1>6. r \in SUBSET Results
    BY OnesAre
  <1>7. Calm(cmd, job.side, node', stack')
    BY <1>1, <1>2, <1>5, <1>6, Answered
  <1>8. job' = [job EXCEPT !.held = Here.id] \/ job' = [job EXCEPT !.held = None]
    BY DEF Defer
  <1>9. JobRight(cmd, job, node, stack) /\ job \in Jobs /\ stack # <<>>
    BY QuietIs DEF Quietly
  <1>10. /\ job' \in Jobs /\ job'.target = job.target /\ job'.side = job.side /\ job'.phase = job.phase
    <2> DEFINE h == Here.id
    <2> HIDE DEF h
    <2> SUFFICES ASSUME NEW x \in Nodes \cup {None}, NEW j, j = [job EXCEPT !.held = x]
                 PROVE  j \in Jobs /\ j.target = job.target /\ j.side = job.side /\ j.phase = job.phase
      BY <1>3, <1>8
    <2> QED BY <1>9 DEF Jobs
  <1>11. JobRight(cmd, job', node', stack')
    BY <1>1, <1>2, <1>9, <1>10 DEF JobRight
  <1>12. TreeRight(tree', node') /\ HostTyped(host') /\ cwd' \in Path
    BY <1>1 DEF Quietly
  <1> QED BY <1>1, <1>7, <1>10, <1>11, <1>12, Settled


\* mcopy makes a directory of the disk and goes into its source.
LEMMA QuietMcopyDir ==
    ASSUME Quietly, McopyDir
    PROVE  WalkInv'
  <1> DEFINE d == Top.to
             nm == ItemName
             source == ItemSlot(d)
             there == SubDir(d, nm)
             none == <<>>
  <1>1. AtItem("dir") /\ job.side = "dos"
    BY DEF McopyDir
  <1>2. More(Top) /\ ~Special(Top) /\ Copying(cmd) /\ nm \in Name
        /\ (Top.fn # "host" => Seen /\ LiveDir(node, Here.id))
    BY <1>1, ItemIs
  <1>3. d \in Dirs /\ LiveDir(node, d)
    BY <1>1, <1>2, ToIs
  <1>4. {} \in Ones /\ {"err"} \in Ones
    BY DEF Ones
  <1>5. \/ \E r \in {{}, {"err"}} : Answer(r) /\ Pure
        \/ there # None /\ Call(Inside(host, there, none)) /\ Pure
        \/ /\ \E w \in Chosen(d, nm, source, {}), n \in Nodes :
                 MakesDir(d, nm, source, w, n) /\ Call(Inside(host, n, none))
           /\ Changed
    BY DEF McopyDir, CopyTarget
  <1>6. there # None => there \in Dirs /\ LiveDir(node, there)
    <2>1. there \in LiveDirs \cup {None}
      BY <1>3, SubDirIs DEF Quietly
    <2> QED BY <2>1 DEF LiveDirs
  <1>7. none \in Path /\ HostTyped(host)
    BY PathIs DEF Quietly
  <1> HIDE DEF d, nm, source, there, none
  <1>8. CASE \E r \in {{}, {"err"}} : Answer(r) /\ Pure
    BY <1>2, <1>4, <1>8, AnsweredPure
  <1>9. CASE there # None /\ Call(Inside(host, there, none)) /\ Pure
    <2> DEFINE f == Inside(host, there, none)
    <2>1. there \in Dirs \cup {None} /\ NoDirLost(node, node')
      BY <1>6, <1>9 DEF Pure, fs, disk, NoDirLost
    <2>2. Bound(cmd, job.side, node', there)
      BY <1>6, <1>9, <2>1 DEF Bound, NoDirLost
    <2>5. Top.fn # "host" => LiveDir(node, Here.id)
      BY <1>2
    <2>3. Sane(cmd, job.side, node', f)
      BY <1>2, <1>7, <2>1, <2>2, <2>5, InsideIs
    <2>6. Call(f)
      BY <1>9
    <2> HIDE DEF f
    <2>4. Calm(cmd, job.side, node', stack')
      BY <1>2, <2>1, <2>3, <2>6, Called
    <2> QED BY <1>9, <2>4, Pured
  <1>10. CASE /\ \E w \in Chosen(d, nm, source, {}), n \in Nodes :
                    MakesDir(d, nm, source, w, n) /\ Call(Inside(host, n, none))
              /\ Changed
    <2>1. PICK w \in Chosen(d, nm, source, {}), n \in Nodes :
             MakesDir(d, nm, source, w, n) /\ Call(Inside(host, n, none))
      BY <1>10
    <2>2. TreeRight(tree', node') /\ NoDirLost(node, node') /\ LiveDir(node', n)
      BY <1>2, <1>3, <2>1, MadeDir DEF Quietly
    <2> DEFINE f == Inside(host, n, none)
    <2>3. n \in Dirs \cup {None} /\ Bound(cmd, job.side, node', n)
      BY <2>2, NodesAre DEF Bound
    <2>5. Top.fn # "host" => LiveDir(node, Here.id)
      BY <1>2
    <2>4. Sane(cmd, job.side, node', f)
      BY <1>2, <1>7, <2>2, <2>3, <2>5, InsideIs
    <2>6. Call(f)
      BY <2>1
    <2> HIDE DEF f
    <2>7. Calm(cmd, job.side, node', stack')
      BY <1>2, <2>2, <2>4, <2>6, Called
    <2> QED BY <1>10, <2>2, <2>7, Changing DEF Changed
  <1> QED BY <1>5, <1>8, <1>9, <1>10

\* mmove and mren rewrite an entry.
LEMMA QuietRename ==
    ASSUME Quietly, Rename
    PROVE  WalkInv'
  <1> DEFINE d == IF cmd.op = "mren" THEN Here.dir ELSE Top.to
             nm == PickName(Here)
             source == Source(Here, d)
             n == Here.id
             spare == {source} \ {0}
  <1>1. \/ Leaf({"mmove"}, "file") /\ d # None
        \/ Leaf({"mmove"}, "dir") /\ d # None /\ ~IsSubdirOf(d, n) /\ n # Root
        \/ Leaf({"mren"}, "file")
        \/ Leaf({"mren"}, "dir") /\ n # Root
    BY DEF Rename
  <1>2. /\ More(Top) /\ ~Special(Top) /\ Seen
        /\ \/ cmd.op = "mmove" /\ ~IsDir(n) /\ d # None
           \/ cmd.op = "mmove" /\ IsDir(n) /\ d # None /\ ~IsSubdirOf(d, n) /\ n # Root
           \/ cmd.op = "mren" /\ ~IsDir(n)
           \/ cmd.op = "mren" /\ IsDir(n) /\ n # Root
    BY <1>1, LeafHere
  <1>3. n \in Nodes /\ Place(tree, Here.dir, Here.slot, n) /\ Here.dir \in Dirs /\ Here.slot \in Nat /\ LiveDir(node, Here.dir)
    BY <1>2 DEF Seen, IsDir, EntryAt, LiveDirs
  <1>4. d \in Dirs /\ LiveDir(node, d)
    BY <1>2, <1>3, ToIs
  <1>5. TreeRight(tree, node) /\ Typed(tree, node)
    BY DEF Quietly, TreeRight
  <1>6. ~Under(tree, n, d)
    <2>1. CASE ~IsDir(n)
      <3>1. node[n].kind # "dir" /\ n \in Dirs
        BY <1>3, <2>1, NodesAre DEF IsDir
      <3>2. Slots(tree, n) = {} /\ ~LiveDir(node, n)
        BY <1>3, <1>5, <3>1, LeafIs
      <3>3. {n} \in SUBSET Dirs /\ Closed(tree, {n})
        BY <3>1, <3>2 DEF Closed
      <3>4. d \notin {n}
        BY <1>4, <3>2
      <3> QED BY <3>3, <3>4 DEF Under
    <2>2. CASE cmd.op = "mmove" /\ IsDir(n)
      <3>1. d \notin Below(tree, n)
        BY <1>2, <2>2 DEF IsSubdirOf
      <3>2. n \in Dirs
        BY <1>3, NodesAre
      <3> QED BY <1>4, <1>5, <3>1, <3>2, BelowUnder
    <2>3. CASE cmd.op = "mren"
      <3>1. d = Here.dir /\ n \in Dirs
        BY <1>3, <2>3, NodesAre
      <3>2. ASSUME Under(tree, n, Here.dir) PROVE FALSE
        <4> DEFINE q == Here.dir
                   i == Here.slot
        <4>1. Place(tree, q, i, n) /\ Under(tree, n, q) /\ q \in Dirs /\ i \in Nat /\ n \in Nodes /\ n \in Dirs
          BY <1>3, <3>1, <3>2
        <4> HIDE DEF q, i, n
        <4>2. n # n
          BY <1>5, <4>1, NoCycle
        <4> QED BY <4>2
      <3> QED BY <3>1, <3>2
    <2> QED BY <1>2, <2>1, <2>2, <2>3
  <1>7. nm \in Name
    <2> DEFINE e == Here
    <2>1. PickName(e) \in Name
      BY <1>2, PickNameIs
    <2> QED BY <2>1
  <1>8. \/ /\ \E w \in Chosen(d, nm, source, spare) : Moves(Here, d, nm, w)
           /\ Answer({"got"}) /\ Changed
        \/ Answer({"err"}) /\ Pure
    BY DEF Rename
  <1>11. {"got"} \in Ones /\ {"err"} \in Ones
    BY DEF Ones
  <1>9. CASE /\ \E w \in Chosen(d, nm, source, spare) : Moves(Here, d, nm, w)
             /\ Answer({"got"}) /\ Changed
    <2>1. PICK w \in Chosen(d, nm, source, spare) : Moves(Here, d, nm, w)
      BY <1>9
    <2> DEFINE e == Here
    <2>2. /\ e.dir \in Dirs /\ e.slot \in Nat /\ e.id \in Nodes /\ Place(tree, e.dir, e.slot, e.id)
          /\ ~Under(tree, e.id, d) /\ source = Source(e, d) /\ Moves(e, d, nm, w)
          /\ w \in Chosen(d, nm, source, {source} \ {0})
      BY <1>3, <1>6, <2>1
    <2> HIDE DEF d, nm, source, spare, e, n
    <2>3. TreeRight(tree', node') /\ NoDirLost(node, node')
      BY <1>4, <1>5, <1>7, <2>2, MovedEntry
    <2> QED BY <1>2, <1>9, <1>11, <2>3, AnsweredChanged DEF Changed
  <1>10. CASE Answer({"err"}) /\ Pure
    BY <1>2, <1>10, <1>11, AnsweredPure
  <1> QED BY <1>8, <1>9, <1>10

\* mmove does not move a directory into itself.
LEMMA QuietMoveRefused ==
    ASSUME Quietly, MoveRefused
    PROVE  WalkInv'
  <1>1. More(Top) /\ ~Special(Top)
    BY LeafHere DEF MoveRefused
  <1>2. Answer({"err"}) /\ Pure /\ {"err"} \in Ones
    BY DEF MoveRefused, Ones
  <1> QED BY <1>1, <1>2, AnsweredPure

\* Without a loop there is nothing to be right.
LEMMA NothingRuns ==
    ASSUME NEW c, NEW side, NEW t, NEW nd
    PROVE  StackRight(c, side, t, nd, <<>>)
  <1> DEFINE s == <<>>
  <1>1. s \in Seq(Frames) /\ DOMAIN s = {} /\ s = <<>>
    OBVIOUS
  <1> HIDE DEF s
  <1>2. StackRight(c, side, t, nd, s)
    BY <1>1 DEF StackRight, Chain, Passed, Returned
  <1> QED BY <1>2 DEF s

\* mmove and mren end the process.
LEMMA QuietAbort ==
    ASSUME Quietly, Abort
    PROVE  WalkInv'
  <1>1. /\ tree' = tree /\ node' = node /\ host' = host /\ cwd' = cwd /\ cmd' = cmd
        /\ stack' = <<>> /\ job' = [job EXCEPT !.phase = "aborted"]
    BY DEF Abort, Same, fs, disk
  <1>2. JobRight(cmd, job, node, stack) /\ job \in Jobs
    BY QuietIs DEF Quietly
  <1>3. job' \in Jobs /\ job'.target = job.target
    BY <1>1, <1>2 DEF Jobs
  <1>4. JobRight(cmd, job', node', stack')
    BY <1>1, <1>2, <1>3 DEF JobRight
  <1>5. StackRight(cmd, job'.side, tree', node', stack')
    BY <1>1, NothingRuns
  <1> QED BY <1>1, <1>4, <1>5 DEF WalkInv, Quietly


\* mattrib sets an attribute and goes into a directory.
LEMMA QuietAttrib ==
    ASSUME Quietly, Attrib
    PROVE  WalkInv'
  <1> DEFINE n == Here.id
             at == Here
             none == None
             out == <<>>
             zero == 0
             f == LoopFrame(at, none)
  <1>1. More(Top) /\ ~Special(Top) /\ Seen /\ cmd.op = "mattrib"
    BY LeafHere DEF Attrib
  <1>2. /\ node' = node /\ host' = host /\ cwd' = cwd /\ cmd' = cmd /\ job' = job /\ NoDirLost(node, node')
    BY DEF Attrib, Same, NoDirLost
  <1>3. TreeRight(tree', node')
    <2>1. CASE n = Root
      BY <1>2, <2>1 DEF Attrib, Quietly
    <2>2. CASE n # Root
      <3> DEFINE q == Here.dir
                 i == Here.slot
      <3>1. tree' = ReadOnly(tree, q, i)
        BY <2>2 DEF Attrib, ReadOnly
      <3>2. q \in Dirs /\ i \in Slots(tree, q)
        BY <1>1, <2>2 DEF Seen, Place
      <3> HIDE DEF q, i
      <3>3. TreeRight(tree', node)
        BY <3>1, <3>2, Relabelled DEF Quietly
      <3> QED BY <1>2, <3>3
    <2> QED BY <2>1, <2>2
  <1>4. CASE IsDir(n)
    <2>1. at \in EntryAt /\ LiveDir(node, at.id) /\ at.id \in Dirs
      BY <1>1, <1>4 DEF Seen, EntryAt
    <2>2. LiveDir(node', at.id) /\ none \in Dirs \cup {None} /\ Bound(cmd, job.side, node', none)
      BY <1>1, <1>2, <2>1 DEF Bound
    <2>3. Call(f) /\ out \in Path /\ zero \in Nat
      BY <1>4 DEF Attrib, Path
    <2> HIDE DEF at, none, out, zero
    <2>4. Sane(cmd, job.side, node', LoopFrame(at, none))
      BY <2>1, <2>2, <2>3, LoopFrameIs DEF Quietly
    <2> HIDE DEF f
    <2>6. Sane(cmd, job.side, node', f)
      BY <2>4 DEF f
    <2>5. Calm(cmd, job.side, node', stack')
      BY <1>1, <1>2, <2>3, <2>6, Called
    <2> QED BY <1>2, <1>3, <2>5, WentOn DEF Quietly
  <1>5. CASE ~IsDir(n)
    <2>1. Answer({"got"}) /\ {"got"} \in SUBSET Results
      BY <1>5 DEF Attrib, Results
    <2>2. Calm(cmd, job.side, node', stack')
      BY <1>1, <1>2, <2>1, Answered
    <2> QED BY <1>2, <1>3, <2>2, WentOn DEF Quietly
  <1> QED BY <1>4, <1>5

\* A loop of mdu counts.
LEMMA SaneSum ==
    ASSUME NEW c, NEW side, NEW nd, NEW f, Sane(c, side, nd, f), NEW n \in Nat
    PROVE  Sane(c, side, nd, [f EXCEPT !.sum = n]) /\ [f EXCEPT !.sum = n].fn = f.fn
  <1> DEFINE g == [f EXCEPT !.sum = n]
  <1>1. f \in Frames
    BY DEF Sane
  <1>2. g \in Frames /\ g.fn = f.fn /\ g.dir = f.dir /\ g.comps = f.comps /\ g.pos = f.pos /\ g.to = f.to
    BY <1>1 DEF Frames
  <1> HIDE DEF g
  <1>3. Special(g) <=> Special(f)
    BY <1>2 DEF Special, AtLeaf
  <1>4. Sane(c, side, nd, g)
    BY <1>2, <1>3 DEF Sane
  <1> QED BY <1>2, <1>4 DEF g

\* mdu counts a file.
LEMMA QuietMduFile ==
    ASSUME Quietly, MduFile
    PROVE  WalkInv'
  <1>1. More(Top) /\ ~Special(Top) /\ Seen /\ Top.fn # "host"
    BY LeafHere DEF MduFile
  <1> DEFINE a == After
             t == Top
             n == t.sum + 1
             g == [Onward EXCEPT !.sum = n]
             r == {"got"}
             f == Add(g, r)
  <1>2. Sane(cmd, job.side, node, Onward) /\ Onward.fn = Head(stack).fn
    BY <1>1, SaneOnward
  <1>3. t \in Frames /\ n \in Nat
    <2>1. Top \in Frames
      BY QuietIs
    <2>2. Top.sum \in Nat
      BY <2>1, FrameIs
    <2> QED BY <2>1, <2>2
  <1>4. g = [t EXCEPT !.pos = a, !.sum = @ + 1]
    <2>1. Onward = [t EXCEPT !.pos = a]
      BY <1>1 DEF Onward
    <2> HIDE DEF t, a
    <2> QED BY <1>3, <2>1 DEF n, Frames
  <1>5. stack' = <<f>> \o Tail(stack) /\ Pure
    BY <1>4 DEF MduFile
  <1>6. Sane(cmd, job.side, node, g) /\ g.fn = Head(stack).fn
    <2> HIDE DEF n
    <2> QED BY <1>2, <1>3, SaneSum
  <1>7. r \in SUBSET Results
    BY DEF Results
  <1> HIDE DEF g, r
  <1>8. Sane(cmd, job.side, node, f) /\ f.fn = Head(stack).fn
    BY <1>6, <1>7, SaneAdd
  <1> HIDE DEF f
  <1>9. stack # <<>> /\ Calm(cmd, job.side, node, stack)
    BY QuietIs DEF Quietly
  <1>10. node' = node /\ NoDirLost(node, node')
    BY <1>5 DEF Pure, fs, disk, NoDirLost
  <1>12. Sane(cmd, job.side, node', f)
    BY <1>8, <1>10, SaneKept
  <1>11. Calm(cmd, job.side, node', stack')
    BY <1>5, <1>8, <1>9, <1>10, <1>12, CalmTop
  <1> QED BY <1>5, <1>11, Pured

\* mdu goes into a directory.
LEMMA QuietMduDir ==
    ASSUME Quietly, MduDir
    PROVE  WalkInv'
  <1> DEFINE at == Here
             none == None
             out == <<>>
             own == Own(Here)
             f == [LoopFrame(at, none) EXCEPT !.sum = own]
  <1>1. More(Top) /\ ~Special(Top) /\ Seen /\ cmd.op = "mdu" /\ IsDir(Here.id)
    BY LeafHere DEF MduDir
  <1>2. Pure /\ Call(f) /\ node' = node /\ NoDirLost(node, node')
    BY DEF MduDir, Pure, fs, disk, NoDirLost
  <1>3. at \in EntryAt /\ LiveDir(node, at.id) /\ at.id \in Dirs
    BY <1>1 DEF Seen, EntryAt
  <1>4. LiveDir(node', at.id) /\ none \in Dirs \cup {None} /\ Bound(cmd, job.side, node', none)
    BY <1>1, <1>2, <1>3 DEF Bound
  <1>5. out \in Path /\ own \in Nat
    BY DEF Own, Path
  <1> HIDE DEF at, none, out, own
  <1>6. Sane(cmd, job.side, node', [LoopFrame(at, none) EXCEPT !.sum = own])
    BY <1>3, <1>4, <1>5, LoopFrameIs DEF Quietly
  <1> HIDE DEF f
  <1>7. Sane(cmd, job.side, node', f)
    BY <1>6 DEF f
  <1>8. Calm(cmd, job.side, node', stack')
    BY <1>1, <1>2, <1>7, Called
  <1> QED BY <1>2, <1>8, Pured

\* mcd stores the path of a directory.
LEMMA QuietMcd ==
    ASSUME Quietly, Mcd
    PROVE  WalkInv'
  <1>1. More(Top) /\ ~Special(Top) /\ Seen /\ IsDir(Here.id)
    BY LeafHere DEF Mcd
  <1>2. /\ tree' = tree /\ node' = node /\ host' = host /\ cmd' = cmd /\ job' = job /\ NoDirLost(node, node')
        /\ cwd' = PathOf(Here.id) /\ Answer({"got", "stop"})
    BY DEF Mcd, Same, fs, disk, NoDirLost
  <1>3. Here.id \in LiveDirs
    BY <1>1 DEF Seen, EntryAt, LiveDirs
  <1>4. cwd' \in Path
    BY <1>2, <1>3, PathOfIs DEF Quietly
  <1>5. {"got", "stop"} \in SUBSET Results
    BY DEF Results
  <1>6. Calm(cmd, job.side, node', stack')
    BY <1>1, <1>2, <1>5, Answered
  <1>7. TreeRight(tree', node') /\ HostTyped(host')
    BY <1>2 DEF Quietly
  <1> QED BY <1>2, <1>4, <1>6, <1>7, WentOn

\* A ^C is a result more.
LEMMA CaughtIs ==
    ASSUME NEW r \in SUBSET Results
    PROVE  Caught(r) \in SUBSET Results
  BY DEF Caught, Results

\* What the innermost loop returns.
LEMMA RetIs ==
    ASSUME Quietly
    PROVE  Top.ret \in SUBSET Results /\ Caught(Top.ret) \in SUBSET Results /\ Top.sum \in Nat /\ Top.dir \in Dirs
  <1>1. Top \in Frames
    BY QuietIs
  <1>2. Top.ret \in SUBSET Results /\ Top.sum \in Nat /\ Top.dir \in Dirs
    BY <1>1, FrameIs
  <1> QED BY <1>2, CaughtIs

\* recurs_dos_loop returns to its caller.
LEMMA QuietEndPath ==
    ASSUME Quietly, EndPath
    PROVE  WalkInv'
  <1>1. Len(stack) > 1 /\ Return(Caught(Top.ret)) /\ Pure /\ node' = node
    BY DEF EndPath, Pure, fs, disk
  <1>2. Calm(cmd, job.side, node, stack')
    BY <1>1, RetIs, CameBack
  <1> QED BY <1>1, <1>2, Pured

\* unix_dir_loop returns to a copydir.
LEMMA QuietEndHost ==
    ASSUME Quietly, EndHost
    PROVE  WalkInv'
  <1>1. Return(Top.ret \cup {"got"}) /\ Pure /\ node' = node
    BY DEF EndHost, Pure, fs, disk
  <1>2. Len(stack) > 1
    BY QuietIs DEF EndHost, Argument
  <1>3. Top.ret \cup {"got"} \in SUBSET Results
    BY RetIs DEF Results
  <1>4. Calm(cmd, job.side, node, stack')
    BY <1>1, <1>2, <1>3, CameBack
  <1> QED BY <1>1, <1>4, Pured

\* mt_dos_loop returns to a copydir, to recursive_attrib or to dir_mdu.
LEMMA QuietEndLoop ==
    ASSUME Quietly, EndLoop
    PROVE  WalkInv'
  <1>1. /\ tree' = tree /\ node' = node /\ host' = host /\ cwd' = cwd /\ cmd' = cmd /\ NoDirLost(node, node')
    BY DEF EndLoop, Same, fs, disk, NoDirLost
  <1>2. Len(stack) > 1 /\ 2 \in DOMAIN stack
    <2>1. Top.fn = "loop" /\ Top = stack[1] /\ stack[Len(stack)].fn \in {"path", "host"}
      BY QuietIs DEF EndLoop
    <2>2. Len(stack) # 1
      BY <2>1
    <2> QED BY <2>2, QuietIs
  <1>3. JobRight(cmd, job, node, stack) /\ job \in Jobs /\ stack # <<>> /\ Sane(cmd, job.side, node, stack[2])
    BY <1>2, QuietIs DEF Quietly
  <1>4. CASE cmd.op = "mdu"
    <2> DEFINE r == Caught(Top.ret)
               h == Add(stack[2], r)
               n == h.sum + Top.sum
               f == [h EXCEPT !.sum = n]
               x == <<Top.dir, Top.sum>>
    <2>1. stack' = Back(stack, f) /\ job' = [job EXCEPT !.printed = @ \cup {x}]
      BY <1>4 DEF EndLoop, Back
    <2>2. r \in SUBSET Results /\ Top.sum \in Nat /\ x \in Dirs \X Nat
      BY RetIs
    <2> HIDE DEF r, x
    <2>3. Sane(cmd, job.side, node, h) /\ h.fn = stack[2].fn
      BY <1>3, <2>2, SaneAdd
    <2> HIDE DEF h
    <2>4. h.sum \in Nat
      BY <2>3, FrameIs DEF Sane
    <2>5. n \in Nat
      BY <2>2, <2>4
    <2> HIDE DEF n
    <2>6. Sane(cmd, job.side, node, f) /\ f.fn = stack[2].fn
      BY <2>3, <2>5, SaneSum
    <2> HIDE DEF f
    <2>7. Calm(cmd, job.side, node, stack')
      BY <1>2, <2>1, <2>6, ReturnedTo
    <2>8. /\ job' \in Jobs /\ job'.target = job.target /\ job'.side = job.side /\ job'.phase = job.phase
          /\ job'.held = job.held
      BY <1>3, <2>1, <2>2 DEF Jobs
    <2>9. JobRight(cmd, job', node', stack')
      BY <1>1, <1>3, <2>8 DEF JobRight
    <2>10. Calm(cmd, job.side, node', stack')
      BY <1>1, <2>7
    <2> QED BY <1>1, <2>8, <2>9, <2>10, Settled DEF Quietly
  <1>5. CASE cmd.op # "mdu"
    <2> DEFINE r == Caught(Top.ret) \cup (IF cmd.op = "mcopy" THEN {"got"} ELSE {})
    <2>1. Return(r) /\ job' = job
      BY <1>5 DEF EndLoop
    <2>2. r \in SUBSET Results
      BY RetIs DEF Results
    <2> HIDE DEF r
    <2>3. Calm(cmd, job.side, node, stack')
      BY <1>2, <2>1, <2>2, CameBack
    <2>4. Calm(cmd, job.side, node', stack')
      BY <1>1, <2>3
    <2> QED BY <1>1, <2>1, <2>4, WentOn DEF Quietly
  <1> QED BY <1>4, <1>5

-----------------------------------------------------------------------------
(* The steps that write to the host                                         *)

\* unix_loop passes what is not there, and links.
LEMMA QuietHostSkip ==
    ASSUME Quietly, HostSkip
    PROVE  WalkInv'
  <1>1. Top.fn = "host" /\ More(Top)
    BY DEF HostSkip, AtHost
  <1>2. ~Special(Top)
    BY <1>1, HostItemIs
  <1>3. \E r \in Ones : Answer(r)
    <2>1. {} \in Ones /\ {"err"} \in Ones
      BY DEF Ones
    <2> QED BY <2>1 DEF HostSkip
  <1>4. PICK r \in Ones : Answer(r)
    BY <1>3
  <1>5. Pure
    BY DEF HostSkip
  <1> QED BY <1>1, <1>2, <1>4, <1>5, AnsweredPure

\* The host has one file more, ...
LEMMA HostAdd ==
    ASSUME HostTyped(host), NEW p \in Path, NEW kind \in {"file", "dir", "link"}, NEW data \in Nat
    PROVE  HostTyped(Stored(p, kind, data))
  <1> DEFINE e == [kind |-> kind, data |-> data, to |-> <<>>]
             T == [kind : {"file", "dir", "link"}, data : Nat, to : Path]
             h == Stored(p, kind, data)
  <1>1. e \in T
    BY DEF Path
  <1>2. IsFiniteSet(DOMAIN host) /\ DOMAIN host \subseteq Path /\ host \in [DOMAIN host -> T]
    BY DEF HostTyped
  <1>5. h = [q \in DOMAIN host \cup {p} |-> IF q = p THEN e ELSE host[q]]
    BY DEF Stored
  <1> HIDE DEF e, T, h
  <1>6. IsFiniteSet(DOMAIN host \cup {p})
    BY <1>2, FS_AddElement
  <1>7. DOMAIN h = DOMAIN host \cup {p}
    BY <1>5
  <1>8. h \in [DOMAIN h -> T] /\ DOMAIN h \subseteq Path /\ IsFiniteSet(DOMAIN h)
    BY <1>1, <1>2, <1>5, <1>6, <1>7
  <1>9. HostTyped(h)
    BY <1>8 DEF HostTyped, T
  <1> QED BY <1>9 DEF h

\* ... or one less.
LEMMA HostRemoved ==
    ASSUME HostTyped(host), NEW p
    PROVE  HostTyped([q \in DOMAIN host \ {p} |-> host[q]])
  <1> DEFINE T == [kind : {"file", "dir", "link"}, data : Nat, to : Path]
             D == DOMAIN host \ {p}
             h == [q \in D |-> host[q]]
  <1>1. IsFiniteSet(DOMAIN host) /\ DOMAIN host \subseteq Path /\ host \in [DOMAIN host -> T]
    BY DEF HostTyped
  <1> HIDE DEF T
  <1>2. IsFiniteSet(D)
    BY <1>1, FS_Subset
  <1>3. DOMAIN h = D /\ h \in [D -> T] /\ D \subseteq Path
    BY <1>1
  <1>4. HostTyped(h)
    BY <1>2, <1>3 DEF HostTyped, T
  <1> QED BY <1>4

\* What mt_unix_write does to the host.
LEMMA WrittenHost ==
    ASSUME HostTyped(host), NEW p \in Path, NEW data \in Nat, NEW same, NEW res, WritesHost(p, data, same, res)
    PROVE  HostTyped(host')
  <1> DEFINE q == Real(p)
             cut(x) == Stored(q, "file", x)
  <1>1. \/ host' = host
        \/ \E x \in {data, Part} : host' = cut(x)
        \/ host' = [y \in DOMAIN host \ {q} |-> host[y]]
    BY DEF WritesHost
  <1>2. q \in Path
    BY RealIs
  <1> HIDE DEF q
  <1>3. ASSUME NEW x \in {data, Part}, host' = cut(x) PROVE HostTyped(host')
    <2>1. x \in Nat
      BY DEF Part
    <2>2. HostTyped(Stored(q, "file", x))
      BY <1>2, <2>1, HostAdd
    <2> QED BY <1>3, <2>2
  <1>4. CASE host' = [y \in DOMAIN host \ {q} |-> host[y]]
    <2>1. HostTyped([y \in DOMAIN host \ {q} |-> host[y]])
      BY HostRemoved
    <2> QED BY <1>4, <2>1
  <1> QED BY <1>1, <1>3, <1>4

\* buildUnixFilename gives a path.
LEMMA HostTargetIs ==
    ASSUME NEW out \in Path, NEW nm \in Name
    PROVE  HostTarget(out, nm) \in Path
  BY PathIs DEF HostTarget

\* mcopy writes a file to the host.
LEMMA QuietToHostFile ==
    ASSUME Quietly, ToHostFile
    PROVE  WalkInv'
  <1> DEFINE p == HostTarget(Top.out, ItemName)
             data == ItemData
             same == Top.fn = "host" /\ Real(HostItem) = Real(p)
  <1>1. AtItem("file")
    BY DEF ToHostFile
  <1>2. More(Top) /\ ~Special(Top) /\ ItemName \in Name /\ data \in Nat
    BY <1>1, ItemIs
  <1>3. p \in Path
    BY <1>2, ToIs, HostTargetIs
  <1>4. /\ tree' = tree /\ node' = node /\ cwd' = cwd /\ cmd' = cmd /\ job' = job /\ NoDirLost(node, node')
    BY DEF ToHostFile, Same, disk, NoDirLost
  <1>5. PICK res \in {{"got"}, {"err"}} : WritesHost(p, data, same, res) /\ Answer(res)
    BY DEF ToHostFile
  <1> HIDE DEF p, data, same
  <1>6. HostTyped(host')
    BY <1>2, <1>3, <1>5, WrittenHost DEF Quietly
  <1>7. res \in SUBSET Results
    BY DEF Results
  <1>8. Calm(cmd, job.side, node', stack')
    BY <1>2, <1>4, <1>5, <1>7, Answered
  <1>9. TreeRight(tree', node') /\ cwd' \in Path
    BY <1>4 DEF Quietly
  <1> QED BY <1>4, <1>6, <1>8, <1>9, WentOn

\* mcopy makes a directory on the host and goes into its source.
LEMMA QuietToHostDir ==
    ASSUME Quietly, ToHostDir
    PROVE  WalkInv'
  <1> DEFINE p == HostTarget(Top.out, ItemName)
             q == Real(p)
             made == IF Exists(p) THEN host ELSE Stored(q, "dir", 0)
             none == None
             f == Inside(made, none, p)
  <1>1. AtItem("dir") /\ job.side = "host"
    BY DEF ToHostDir
  <1>2. More(Top) /\ ~Special(Top) /\ ItemName \in Name /\ Copying(cmd)
        /\ (Top.fn # "host" => LiveDir(node, Here.id))
    BY <1>1, ItemIs
  <1>3. p \in Path /\ q \in Path
    <2>1. p \in Path
      BY <1>2, ToIs, HostTargetIs
    <2> HIDE DEF p
    <2> QED BY <2>1, RealIs DEF Quietly
  <1>4. /\ tree' = tree /\ node' = node /\ cwd' = cwd /\ cmd' = cmd /\ job' = job /\ NoDirLost(node, node')
    BY DEF ToHostDir, Same, disk, NoDirLost
  <1>5. \/ \E r \in {{}, {"err"}} : Answer(r) /\ host' = host
        \/ host' = made /\ Call(f)
    BY DEF ToHostDir
  <1> HIDE DEF p, q
  <1>6. HostTyped(made)
    <2>1. HostTyped(Stored(q, "dir", 0))
      BY <1>3, HostAdd DEF Quietly
    <2> QED BY <2>1 DEF Quietly
  <1> HIDE DEF made
  <1>7. TreeRight(tree', node') /\ cwd' \in Path
    BY <1>4 DEF Quietly
  <1>8. CASE \E r \in {{}, {"err"}} : Answer(r) /\ host' = host
    <2>1. {{}, {"err"}} \subseteq SUBSET Results
      BY DEF Results
    <2>2. PICK r \in SUBSET Results : Answer(r) /\ host' = host
      BY <1>8, <2>1
    <2>3. Calm(cmd, job.side, node', stack')
      BY <1>2, <1>4, <2>2, Answered
    <2> QED BY <1>4, <1>7, <2>2, <2>3, WentOn DEF Quietly
  <1>9. CASE host' = made /\ Call(f)
    <2>1. none \in Dirs \cup {None} /\ Bound(cmd, job.side, node', none)
      BY <1>1 DEF Bound
    <2>5. Top.fn # "host" => LiveDir(node, Here.id)
      BY <1>2
    <2> HIDE DEF none
    <2>2. Sane(cmd, job.side, node', Inside(made, none, p))
      BY <1>2, <1>3, <1>4, <1>6, <2>1, <2>5, InsideIs
    <2>6. Sane(cmd, job.side, node', f) /\ Call(f)
      BY <1>9, <2>2
    <2> HIDE DEF f
    <2>3. Calm(cmd, job.side, node', stack')
      BY <1>2, <1>4, <2>6, Called
    <2>4. HostTyped(host')
      BY <1>6, <1>9
    <2> QED BY <1>4, <1>7, <2>3, <2>4, WentOn
  <1> QED BY <1>5, <1>8, <1>9

\* A stack of one loop.
LEMMA OnlyOne ==
    ASSUME NEW S, NEW s \in Seq(S), Len(s) = 1, NEW f \in S
    PROVE  <<f>> \o Tail(s) = <<f>>
  <1> DEFINE q == Tail(s)
             r == <<f>>
  <1>1. q \in Seq(S) /\ Len(q) = 0
    BY HeadTailProperties, EmptySeq
  <1>2. q = <<>>
    BY <1>1, EmptySeq
  <1>3. r \in Seq(S)
    OBVIOUS
  <1> HIDE DEF r, q
  <1>4. r \o q = r
    BY <1>2, <1>3, ConcatEmptySeq
  <1> QED BY <1>4 DEF r, q

\* The result of the deferred copy replaces that of the loop.
LEMMA SaneRet ==
    ASSUME NEW c, NEW side, NEW nd, NEW f, Sane(c, side, nd, f), NEW r \in SUBSET Results
    PROVE  Sane(c, side, nd, [f EXCEPT !.ret = r]) /\ [f EXCEPT !.ret = r].fn = f.fn
  <1> DEFINE g == [f EXCEPT !.ret = r]
  <1>1. f \in Frames
    BY DEF Sane
  <1>2. g \in Frames /\ g.fn = f.fn /\ g.dir = f.dir /\ g.comps = f.comps /\ g.pos = f.pos /\ g.to = f.to
    BY <1>1 DEF Frames
  <1> HIDE DEF g
  <1>3. Special(g) <=> Special(f)
    BY <1>2 DEF Special, AtLeaf
  <1>4. Sane(c, side, nd, g)
    BY <1>2, <1>3 DEF Sane
  <1> QED BY <1>2, <1>4 DEF g

\* mcopy writes the file it has put off.
LEMMA QuietMcopyHeld ==
    ASSUME Quietly, McopyHeld
    PROVE  WalkInv'
  <1> DEFINE d == job.target
             data == node[job.held].data
             nm == job.name
             zero == 0
             p == HostTarget(job.out, job.name)
             no == FALSE
  <1>1. JobRight(cmd, job, node, stack) /\ job \in Jobs /\ stack # <<>> /\ Sane(cmd, job.side, node, Top)
        /\ Top = Head(stack) /\ stack \in Seq(Frames) /\ Calm(cmd, job.side, node, stack)
    BY QuietIs DEF Quietly
  <1>2. job.held # None /\ cmd' = cmd /\ cwd' = cwd /\ job' = [job EXCEPT !.held = None] /\ Len(stack) = 1
    BY DEF McopyHeld, Same
  <1>3. cmd.op = "mcopy" /\ job.held \in Nodes /\ nm \in Name /\ job.out \in Path
        /\ (job.side = "dos" => d \in Dirs /\ LiveDir(node, d))
    BY <1>1, <1>2 DEF JobRight, Jobs
  <1>4. data \in Nat
    <2>1. node \in [Nodes -> NodeType]
      BY NodeTypeIs DEF Quietly, TreeRight
    <2> QED BY <1>3, <2>1 DEF NodeType
  <1>5. p \in Path
    BY <1>3, HostTargetIs
  <1>6. \E r \in {{"got"}, {"err"}} : stack' = <<[Top EXCEPT !.ret = r]>>
    BY DEF McopyHeld
  <1>7. TreeRight(tree', node') /\ NoDirLost(node, node') /\ HostTyped(host')
    <2>1. \/ /\ job.side = "dos" /\ host' = host
             /\ \/ \E w \in Chosen(d, nm, zero, {}), n \in Nodes : CopiesFile(data, d, nm, zero, w, n)
                \/ CopyFails(d, nm, zero) \/ CopyCut(d, nm, zero)
                \/ tree' = tree /\ node' = node
          \/ /\ tree' = tree /\ node' = node
             /\ \E res \in {{"got"}, {"err"}} : WritesHost(p, data, no, res)
      BY DEF McopyHeld, disk
    <2> HIDE DEF d, data, nm, zero, p, no
    <2>2. CASE tree' = tree /\ node' = node
      <3>1. TreeRight(tree', node') /\ NoDirLost(node, node')
        BY <2>2 DEF Quietly, NoDirLost
      <3>2. CASE host' = host
        BY <3>1, <3>2 DEF Quietly
      <3>3. CASE \E res \in {{"got"}, {"err"}} : WritesHost(p, data, no, res)
        <4>1. PICK res \in {{"got"}, {"err"}} : WritesHost(p, data, no, res)
          BY <3>3
        <4>2. HostTyped(host')
          BY <1>4, <1>5, <4>1, WrittenHost DEF Quietly
        <4> QED BY <3>1, <4>2
      <3>4. (job.side = "dos" /\ host' = host) \/ \E res \in {{"got"}, {"err"}} : WritesHost(p, data, no, res)
        BY <2>1
      <3> QED BY <3>2, <3>3, <3>4
    <2>3. CASE job.side = "dos" /\ host' = host /\ (CopyFails(d, nm, zero) \/ CopyCut(d, nm, zero))
      <3>1. TreeRight(tree', node') /\ NoDirLost(node, node')
        BY <1>3, <2>3, FailedCopy DEF Quietly
      <3> QED BY <2>3, <3>1 DEF Quietly
    <2>4. CASE /\ job.side = "dos" /\ host' = host
               /\ \E w \in Chosen(d, nm, zero, {}), n \in Nodes : CopiesFile(data, d, nm, zero, w, n)
      <3>1. PICK w \in Chosen(d, nm, zero, {}), n \in Nodes : CopiesFile(data, d, nm, zero, w, n)
        BY <2>4
      <3>2. TreeRight(tree', node') /\ NoDirLost(node, node')
        BY <1>3, <1>4, <2>4, <3>1, CopiedFile DEF Quietly
      <3> QED BY <2>4, <3>2 DEF Quietly
    <2> QED BY <2>1, <2>2, <2>3, <2>4
  <1> HIDE DEF d, data, nm, zero, p, no
  <1>8. PICK r \in {{"got"}, {"err"}} : stack' = <<[Top EXCEPT !.ret = r]>>
    BY <1>6
  <1> DEFINE t == Top
             f == [t EXCEPT !.ret = r]
  <1>10. Sane(cmd, job.side, node, f) /\ f.fn = Head(stack).fn
    <2>1. r \in SUBSET Results /\ Sane(cmd, job.side, node, t)
      BY <1>1 DEF Results
    <2> HIDE DEF t
    <2>2. Sane(cmd, job.side, node, f) /\ f.fn = t.fn
      BY <2>1, SaneRet
    <2> QED BY <1>1, <2>2 DEF t
  <1>9. stack' = <<f>> \o Tail(stack)
    <2>1. stack' = <<f>>
      BY <1>8
    <2> HIDE DEF f
    <2>2. f \in Frames
      BY <1>10 DEF Sane
    <2> QED BY <1>1, <1>2, <2>1, <2>2, OnlyOne
  <1> HIDE DEF f
  <1>11. Sane(cmd, job.side, node', f)
    BY <1>7, <1>10, SaneKept
  <1>12. Calm(cmd, job.side, node', stack')
    BY <1>1, <1>7, <1>9, <1>10, <1>11, CalmTop
  <1>13. /\ job' \in Jobs /\ job'.target = job.target /\ job'.side = job.side /\ job'.phase = job.phase
         /\ job'.held = None
    BY <1>1, <1>2 DEF Jobs
  <1>15. job.target # None => LiveDir(node', job.target)
    BY <1>1, <1>7 DEF JobRight, NoDirLost, Jobs
  <1>14. JobRight(cmd, job', node', stack')
    BY <1>1, <1>13, <1>15 DEF JobRight
  <1>16. cwd' \in Path
    BY <1>2 DEF Quietly
  <1> QED BY <1>2, <1>7, <1>12, <1>13, <1>14, <1>16, Settled

-----------------------------------------------------------------------------
(* One argument after the other                                             *)

\* What is known of a command line.
LEMMA GivenIs ==
    ASSUME NEW c \in Commands
    PROVE  /\ c.from \in Seq(Arg) /\ c.to \in Arg /\ c.from # <<>>
           /\ \A i \in DOMAIN c.from : /\ c.from[i] \in Arg
                                       /\ c.from[i].host => c.from[i].path # <<>> /\ c.op = "mcopy"
  <1>1. /\ c.from \in Seq(Arg) /\ c.to \in Arg
        /\ \A i \in DOMAIN c.from : c.from[i].host => c.from[i].path # <<>>
        /\ \/ McopyLine(c) \/ MmoveLine(c) \/ MmdLine(c) \/ MdelLine(c)
           \/ MattribLine(c) \/ MduLine(c) \/ McdLine(c)
    BY CommandsAssumption
  <1>2. McopyLine(c) \/ Plainly(c)
    BY <1>1 DEF MmoveLine, MmdLine, MdelLine, MattribLine, MduLine, McdLine
  <1>3. McopyLine(c) \/ OnDisk(c)
    BY <1>2 DEF Plainly
  <1>4. c.from # <<>> /\ \A i \in DOMAIN c.from : c.from[i].host => c.op = "mcopy"
    BY <1>3 DEF McopyLine, OnDisk
  <1>5. \A i \in DOMAIN c.from : c.from[i] \in Arg
    BY <1>1
  <1> QED BY <1>1, <1>4, <1>5

\* The path of an argument.
LEMMA ArgIs ==
    ASSUME NEW a \in Arg
    PROVE  a.path \in Path
  BY DEF Arg

\* The loop of an argument has what it needs.
LEMMA ArgRight ==
    ASSUME TreeRight(tree, node), cwd \in Path, NEW c \in Commands, NEW side, NEW i \in DOMAIN c.from,
           NEW to \in Dirs \cup {None}, Bound(c, side, node, to), Deleting(c) => to = None, NEW out \in Path
    PROVE  /\ ArgFrame(c.from[i], to, out) \in Frames
           /\ FrameRight(c, side, tree, node, ArgFrame(c.from[i], to, out))
           /\ ArgFrame(c.from[i], to, out).fn \in {"path", "host"}
  <1> DEFINE a == c.from[i]
             f == ArgFrame(a, to, out)
  <1>1. a \in Arg /\ (a.host => a.path # <<>> /\ c.op = "mcopy")
    BY GivenIs
  <1>2. a.path \in Path
    BY <1>1, ArgIs
  <1> HIDE DEF a
  <1>3. CASE a.host
    <2> DEFINE p == Front(a.path)
               names == <<Last(a.path)>>
    <2>1. p \in Path /\ names \in Path /\ Copying(c)
      <3>1. p \in Path /\ Last(a.path) \in Name
        BY <1>1, <1>2, <1>3, PathIs
      <3> QED BY <1>1, <1>3, <3>1 DEF Path, Copying
    <2>2. f = HostFrame(p, names, to, out)
      BY <1>3 DEF ArgFrame
    <2> HIDE DEF p, names
    <2>3. Sane(c, side, node, HostFrame(p, names, to, out))
      BY <2>1, HostFrameIs
    <2>5. HostLoop(HostFrame(p, names, to, out), to)
      BY <2>1, HostFrameAt
    <2> HIDE DEF f
    <2>4. Sane(c, side, node, f) /\ f.fn = "host" /\ c.op = "mcopy"
      BY <2>1, <2>2, <2>3, <2>5 DEF HostLoop, Copying
    <2>6. ~Deleting(c)
      BY <2>4 DEF Deleting, Deletes
    <2> HIDE DEF f
    <2>7. FrameRight(c, side, tree, node, f) /\ f \in Frames
      BY <2>4, <2>6 DEF Sane, FrameRight, Target, Walks, Deletion
    <2> QED BY <2>4, <2>7 DEF f, a
  <1>4. CASE ~a.host
    <2> DEFINE d == StartDir(a)
               p == a.path
    <2>1. d \in LiveDirs
      BY <1>1, StartDirIs
    <2>2. f = PathFrame(d, p, to, out) /\ p \in Path
      BY <1>2, <1>4 DEF ArgFrame
    <2> HIDE DEF d, p
    <2>3. d \in Dirs /\ LiveDir(node, d)
      BY <2>1 DEF LiveDirs
    <2>4. PathLoop(PathFrame(d, p, to, out), d, to)
      BY <2>2, <2>3, PathFrameIs
    <2>5. PathLoop(f, d, to)
      BY <2>2, <2>4
    <2> HIDE DEF f
    <2>6. f \in Frames /\ f.fn = "path" /\ f.dir = d /\ f.pos = 1 /\ f.to = to
      BY <2>5 DEF PathLoop
    <2>7. FrameRight(c, side, tree, node, f)
      BY <2>3, <2>6 DEF FrameRight, Target, Walks, Deletion, Bound
    <2> QED BY <2>6, <2>7 DEF f, a
  <1> QED BY <1>3, <1>4

\* The loop of an argument is the only one.
LEMMA Alone ==
    ASSUME NEW c, NEW side, NEW t, NEW nd, NEW f \in Frames, FrameRight(c, side, t, nd, f), f.fn \in {"path", "host"},
           NEW s, s = <<f>>
    PROVE  StackRight(c, side, t, nd, s)
  <1>1. s \in Seq(Frames) /\ Len(s) = 1 /\ DOMAIN s = {1} /\ s[1] = f
    OBVIOUS
  <1>2. Chain(t, s)
    BY <1>1 DEF Chain
  <1>3. Passed(t, s)
    BY <1>1 DEF Passed
  <1>4. Returned(c, s)
    BY <1>1 DEF Returned
  <1> QED BY <1>1, <1>2, <1>3, <1>4 DEF StackRight

\* main_loop goes on to the next argument, or ends.
LEMMA NextArg ==
    ASSUME WalkInv, EndArg
    PROVE  WalkInv'
  <1> DEFINE r == IF Top.fn = "host" THEN Top.ret ELSE Caught(Top.ret)
             ret == IF r \cap {"got", "err"} = {} THEN r \cup {"err"} ELSE r
             next == job.arg + 1
             stops == next > Len(cmd.from) \/ signal \/ (cmd.quit /\ "err" \in job.ret \cup ret)
             phase == IF stops THEN "done" ELSE "running"
             f == ArgFrame(cmd.from[next], job.target, job.out)
  <1>1. /\ Running
        /\ job' = [job EXCEPT !.ret = @ \cup ret, !.arg = next, !.phase = phase]
        /\ stack' = IF stops THEN <<>> ELSE <<f>>
        /\ IF stops THEN cwd' = cwd ELSE Forget({cmd.from[next]})
        /\ tree' = tree /\ node' = node /\ host' = host /\ cmd' = cmd
    BY DEF EndArg, Same, fs, disk
  <1>2. stack # <<>> /\ stack \in Seq(Frames) /\ JobRight(cmd, job, node, stack) /\ job \in Jobs /\ cmd \in Commands
        /\ TreeRight(tree, node) /\ cwd \in Path
    BY <1>1 DEF WalkInv, StackRight, Running, JobRight
  <1>3. Top \in Frames
    BY <1>1, <1>2, TopIs
  <1>4. ret \in SUBSET Results
    <2>1. Top.ret \in SUBSET Results
      BY <1>3, FrameIs
    <2>2. Caught(Top.ret) \in SUBSET Results
      BY <2>1, CaughtIs
    <2> QED BY <2>1, <2>2 DEF Results
  <1>5. job.arg \in Nat /\ next \in Nat /\ next >= 1 /\ job.ret \in SUBSET Results
    BY <1>2 DEF Jobs
  <1> HIDE DEF r, ret, next
  <1>6. phase \in {"done", "running"} /\ (~stops => phase = "running") /\ stops \in BOOLEAN
    OBVIOUS
  <1>7. cwd' \in Path
    <2> HIDE DEF phase, stops, f
    <2>1. cwd' = <<>> \/ cwd' = cwd
      BY <1>1 DEF Forget
    <2>2. <<>> \in Path
      BY DEF Path
    <2> QED BY <1>2, <2>1, <2>2
  <1>8. ~stops => next \in DOMAIN cmd.from
    <2> HAVE ~stops
    <2>1. cmd.from \in Seq(Arg) /\ next <= Len(cmd.from)
      BY <1>2, <1>5, GivenIs
    <2> QED BY <1>5, <2>1
  <1> HIDE DEF phase, stops
  <1>9. /\ job' \in Jobs /\ job'.target = job.target /\ job'.side = job.side /\ job'.held = job.held
        /\ job'.phase = phase
    BY <1>1, <1>2, <1>4, <1>5, <1>6 DEF Jobs
  <1>10. JobRight(cmd, job', node', stack')
    BY <1>1, <1>2, <1>6, <1>9 DEF JobRight
  <1>11. StackRight(cmd, job'.side, tree', node', stack')
    <2>1. CASE stops
      BY <1>1, <2>1, NothingRuns
    <2>2. CASE ~stops
      <3> DEFINE to == job.target
                 side == job.side
                 out == job.out
      <3>1. /\ to \in Dirs \cup {None} /\ Bound(cmd, side, node, to) /\ (Deleting(cmd) => to = None) /\ out \in Path
            /\ next \in DOMAIN cmd.from
        BY <1>2, <1>8, <2>2 DEF JobRight, Jobs, Bound
      <3>2. f = ArgFrame(cmd.from[next], to, out)
        OBVIOUS
      <3> HIDE DEF to, side, out
      <3>3. /\ ArgFrame(cmd.from[next], to, out) \in Frames
            /\ FrameRight(cmd, side, tree, node, ArgFrame(cmd.from[next], to, out))
            /\ ArgFrame(cmd.from[next], to, out).fn \in {"path", "host"}
        BY <1>2, <3>1, ArgRight
      <3>4. stack' = <<f>>
        BY <1>1, <2>2
      <3> HIDE DEF f
      <3>5. StackRight(cmd, side, tree, node, stack')
        BY <3>2, <3>3, <3>4, Alone
      <3> QED BY <1>1, <1>9, <3>5 DEF side
    <2> QED BY <2>1, <2>2
  <1> QED BY <1>1, <1>7, <1>10, <1>11 DEF WalkInv

\* The command starts.
LEMMA Started ==
    ASSUME WalkInv, Start
    PROVE  WalkInv'
  <1>1. /\ tree' = tree /\ node' = node /\ host' = host
        /\ TreeRight(tree, node) /\ cwd \in Path /\ HostTyped(host) /\ job.phase = "idle"
    BY DEF Start, fs, disk, WalkInv
  <1> DEFINE Side(c) == IF c.op \in Copies /\ c.to.host THEN "host" ELSE "dos"
             HostGoal(c) == IF Side(c) = "host" THEN HostTargetOf(c.to.path) ELSE [out |-> <<>>, name |-> NoName]
             Goal(c) == CASE Side(c) = "host" -> [NoTarget EXCEPT !.name = HostGoal(c).name]
                          [] Side(c) = "dos" /\ c.op \in Copies -> TargetOf(c.to)
                          [] c.op = "mren" -> [NoTarget EXCEPT !.name = Last(c.to.path)]
                          [] OTHER -> NoTarget
             Bad(c) == \/ Len(c.from) # 1 /\ Goal(c).name # NoName
                       \/ c.op = "mcopy" /\ Side(c) = "dos" /\ Goal(c).dir = None
             Job(c) == [arg |-> 1, side |-> Side(c), target |-> Goal(c).dir, out |-> HostGoal(c).out, name |-> Goal(c).name,
                        held |-> None, ret |-> IF Bad(c) THEN {"err"} ELSE {}, printed |-> {},
                        phase |-> IF Bad(c) THEN "done" ELSE "running"]
             First(c) == ArgFrame(c.from[1], Goal(c).dir, HostGoal(c).out)
             Asking(c) == {c.from[1]} \cup (IF c.op \in Copies THEN {c.to} ELSE {})
  <1>2. PICK c \in Commands : /\ cmd' = c /\ job' = Job(c)
                              /\ stack' = IF Bad(c) THEN <<>> ELSE <<First(c)>>
                              /\ Forget(Asking(c))
    BY DEF Start
  <1> DEFINE side == Side(c)
             h == HostGoal(c)
             t == Goal(c)
             to == t.dir
             out == h.out
             nm == t.name
             bad == Bad(c)
             one == 1
  <1>3. cwd' \in Path
    <2> HIDE DEF Asking, Job, Bad, First
    <2>1. cwd' = <<>> \/ cwd' = cwd
      BY <1>2 DEF Forget
    <2>2. <<>> \in Path
      BY DEF Path
    <2> QED BY <1>1, <2>1, <2>2
  <1>4. c.from \in Seq(Arg) /\ c.to \in Arg /\ c.from # <<>> /\ one \in DOMAIN c.from
    <2>1. c.from \in Seq(Arg) /\ c.to \in Arg /\ c.from # <<>>
      BY GivenIs
    <2> QED BY <2>1
  <1>5. c.to.path \in Path
    BY <1>4, ArgIs
  <1>6. h.out \in Path /\ h.name \in Name
    <2>1. HostTargetOf(c.to.path).out \in Path /\ HostTargetOf(c.to.path).name \in Name
      BY <1>1, <1>5, HostTargetOfIs
    <2>2. <<>> \in Path /\ NoName \in Name
      BY NamesAre DEF Path
    <2>3. h = HostTargetOf(c.to.path) \/ h = [out |-> <<>>, name |-> NoName]
      OBVIOUS
    <2> HIDE DEF h
    <2> QED BY <2>1, <2>2, <2>3
  <1>7. /\ t.dir \in LiveDirs \cup {None} /\ t.name \in Name
        /\ Deleting(c) => t.dir = None
    <2>1. TargetOf(c.to).dir \in LiveDirs \cup {None} /\ TargetOf(c.to).name \in Name
      BY <1>1, <1>4, TargetOfIs
    <2>2. NoTarget.dir = None /\ NoTarget.name = NoName /\ NoName \in Name
      BY NamesAre DEF NoTarget
    <2>3. [NoTarget EXCEPT !.name = h.name].dir = None /\ [NoTarget EXCEPT !.name = h.name].name = h.name
      BY DEF NoTarget
    <2>4. ASSUME NEW x PROVE [NoTarget EXCEPT !.name = x].dir = None /\ [NoTarget EXCEPT !.name = x].name = x
      BY DEF NoTarget
    <2>5. c.op = "mren" => Last(c.to.path) \in Name
      <3> HAVE c.op = "mren"
      <3>1. MmoveLine(c)
        BY CommandsAssumption DEF McopyLine, MmoveLine, MmdLine, MdelLine, MattribLine, MduLine, McdLine
      <3>2. c.to.path # <<>>
        <4> DEFINE p == c.to.path
        <4>1. Len(p) = 1
          BY <3>1 DEF MmoveLine
        <4> HIDE DEF p
        <4>2. p # <<>>
          BY <4>1, EmptySeq
        <4> QED BY <4>2 DEF p
      <3> QED BY <1>5, <3>2, PathIs
    <2>6. \/ t = [NoTarget EXCEPT !.name = h.name] /\ c.op \in Copies
          \/ t = TargetOf(c.to) /\ c.op \in Copies
          \/ c.op = "mren" /\ t = [NoTarget EXCEPT !.name = Last(c.to.path)]
          \/ t = NoTarget
      <3>1. side = "host" => c.op \in Copies
        OBVIOUS
      <3>2. side = "host" \/ side = "dos"
        OBVIOUS
      <3> HIDE DEF Side, HostGoal
      <3>3. t = CASE side = "host" -> [NoTarget EXCEPT !.name = h.name]
                  [] side = "dos" /\ c.op \in Copies -> TargetOf(c.to)
                  [] c.op = "mren" -> [NoTarget EXCEPT !.name = Last(c.to.path)]
                  [] OTHER -> NoTarget
        OBVIOUS
      <3> HIDE DEF t, h, side
      <3>5. ~("host" = "dos")
        OBVIOUS
      <3>6. c.op = "mren" => c.op \notin Copies
        BY DEF Copies
      <3>4. CASE side = "host"
        BY <3>1, <3>3, <3>4, <3>5, <3>6
      <3>7. CASE side = "dos"
        BY <3>3, <3>5, <3>6, <3>7
      <3> QED BY <3>2, <3>4, <3>7
    <2>7. Deleting(c) => c.op \notin Copies /\ c.op # "mren"
      BY DEF Deleting, Deletes, Copies
    <2> HIDE DEF t, h
    <2>8. CASE t = [NoTarget EXCEPT !.name = h.name] /\ c.op \in Copies
      BY <1>6, <2>3, <2>7, <2>8
    <2>9. CASE t = TargetOf(c.to) /\ c.op \in Copies
      BY <2>1, <2>7, <2>9
    <2>10. CASE c.op = "mren" /\ t = [NoTarget EXCEPT !.name = Last(c.to.path)]
      BY <2>4, <2>5, <2>7, <2>10
    <2>11. CASE t = NoTarget
      BY <2>2, <2>11
    <2> QED BY <2>6, <2>8, <2>9, <2>10, <2>11
  <1>8. side \in {"dos", "host"} /\ bad \in BOOLEAN /\ (~bad => ~(c.op = "mcopy" /\ side = "dos" /\ to = None))
    OBVIOUS
  <1>9. /\ job' = [arg |-> 1, side |-> side, target |-> to, out |-> out, name |-> nm, held |-> None,
                   ret |-> IF bad THEN {"err"} ELSE {}, printed |-> {}, phase |-> IF bad THEN "done" ELSE "running"]
        /\ stack' = IF bad THEN <<>> ELSE <<ArgFrame(c.from[one], to, out)>>
        /\ cmd' = c
    BY <1>2
  <1>10. out \in Path /\ nm \in Name /\ to \in LiveDirs \cup {None} /\ (Deleting(c) => to = None)
    BY <1>6, <1>7
  <1> HIDE DEF side, h, t, to, out, nm, bad, one
  <1>11. to \in Dirs \cup {None} /\ (to # None => LiveDir(node, to))
    BY <1>10 DEF LiveDirs
  <1>12. /\ job' \in Jobs /\ job'.target = to /\ job'.side = side /\ job'.held = None
         /\ (~bad => job'.phase = "running")
    BY <1>8, <1>9, <1>10, <1>11 DEF Jobs, Results
  <1>13. JobRight(cmd', job', node', stack')
    BY <1>1, <1>8, <1>9, <1>10, <1>11, <1>12 DEF JobRight
  <1>14. StackRight(cmd', job'.side, tree', node', stack')
    <2>1. CASE bad
      BY <1>9, <2>1, NothingRuns
    <2>2. CASE ~bad
      <3> DEFINE f == ArgFrame(c.from[one], to, out)
      <3>1. Bound(c, side, node, to)
        BY <1>8, <1>11, <2>2 DEF Bound
      <3>2. f \in Frames /\ FrameRight(c, side, tree, node, f) /\ f.fn \in {"path", "host"}
        <4>1. /\ ArgFrame(c.from[one], to, out) \in Frames
              /\ FrameRight(c, side, tree, node, ArgFrame(c.from[one], to, out))
              /\ ArgFrame(c.from[one], to, out).fn \in {"path", "host"}
          BY <1>1, <1>4, <1>10, <1>11, <3>1, ArgRight
        <4> QED BY <4>1
      <3>3. stack' = <<f>>
        BY <1>9, <2>2
      <3> HIDE DEF f
      <3>4. StackRight(c, side, tree, node, stack')
        BY <3>2, <3>3, Alone
      <3> QED BY <1>1, <1>9, <1>12, <3>4
    <2> QED BY <1>8, <2>1, <2>2
  <1> QED BY <1>1, <1>3, <1>13, <1>14 DEF WalkInv

-----------------------------------------------------------------------------
(* The loops of the commands that delete                                    *)

\* At most node n has gone.
Fewer(t, nd, w, nd2, n) ==
    /\ TreeRight(w, nd2)
    /\ \A a, b \in Dirs : b # n /\ Under(t, a, b) => Under(w, a, b)
    /\ \A x \in Dirs : x # n /\ LiveDir(nd, x) => LiveDir(nd2, x)
    /\ \A x \in Dirs : \A j \in Slots(w, x) : j \in Slots(t, x) /\ w[x][j] = t[x][j] /\ t[x][j].id # n
    /\ \A x \in Dirs : \A j \in Slots(t, x) : t[x][j].id # n => j \in Slots(w, x)

\* Nothing has gone.
LEMMA NoneFewer ==
    ASSUME NEW t, NEW nd, TreeRight(t, nd)
    PROVE  Fewer(t, nd, t, nd, None)
  <1>1. \A x \in Dirs : \A j \in Slots(t, x) : t[x][j].id \in Nodes
    BY TypedIs DEF TreeRight
  <1>2. None \notin Nodes
    BY NodesAre
  <1> DEFINE n == None
  <1> HIDE DEF n
  <1>3. Fewer(t, nd, t, nd, n)
    BY <1>1, <1>2 DEF Fewer, n
  <1> QED BY <1>3 DEF n

\* What is deleted has gone.
LEMMA OneFewer ==
    ASSUME NEW t, NEW nd, NEW d, NEW i, NEW n, Leaving(t, nd, d, i, n)
    PROVE  Fewer(t, nd, Wiped(t, d, i), [nd EXCEPT ![n] = NoNode], n)
  <1> DEFINE w == Wiped(t, d, i)
             nd2 == [nd EXCEPT ![n] = NoNode]
  <1>1. w = Wiped(t, d, i) /\ nd2 = [nd EXCEPT ![n] = NoNode]
    OBVIOUS
  <1> HIDE DEF w, nd2
  <1>2. Without(t, nd, n, w, nd2)
    BY <1>1, TakenOut
  <1>3. Listed(w, nd2) /\ n \notin Live(nd2)
    BY <1>2 DEF Without, TreeRight
  <1>4. Fewer(t, nd, w, nd2, n)
    BY <1>2, <1>3 DEF Without, Fewer, Listed
  <1> QED BY <1>4 DEF w, nd2

\* Everything else is where it was.
LEMMA PlaceKept ==
    ASSUME NEW t, NEW nd, NEW w, NEW nd2, NEW n, Fewer(t, nd, w, nd2, n), NEW d \in Dirs, NEW i, NEW m, m # n
    PROVE  /\ Place(t, d, i, m) => Place(w, d, i, m)
           /\ i \in Slots(w, d) /\ Place(t, d, i, m) => Place(w, d, i, m)
  BY DEF Fewer, Place

\* A loop that has begun does not need its directory any more.
LEMMA FrameKept ==
    ASSUME NEW c, NEW side, NEW t, NEW nd, NEW f \in Frames, Deleting(c), FrameRight(c, side, t, nd, f),
           NEW w, NEW nd2, NEW n, Fewer(t, nd, w, nd2, n),
           f.fn = "del" => f.dir # n, f.fn # "del" => f.pos # 1
    PROVE  FrameRight(c, side, w, nd2, f)
  <1>1. f.dir \in Dirs /\ f.at \in EntryAt
    BY FrameIs DEF EntryAt
  <1>2. f.pos >= 1 /\ f.to = None /\ (f.fn = "host" => c.op = "mcopy")
    BY DEF FrameRight, Target
  <1>3. Target(c, side, nd2, f)
    BY <1>2 DEF FrameRight, Target
  <1>4. Walks(c, nd2, f)
    BY DEF FrameRight, Walks
  <1>5. Deletion(c, w, nd2, f)
    <2> SUFFICES ASSUME f.fn = "del" PROVE Deletion(c, w, nd2, f)
      BY DEF Deletion
    <2>1. LiveDir(nd, f.dir) /\ f.dir # n /\ (f.dir # Root => Place(t, f.at.dir, f.at.slot, f.dir))
      BY DEF FrameRight, Deletion
    <2>2. LiveDir(nd2, f.dir)
      BY <1>1, <2>1 DEF Fewer
    <2>3. f.dir # Root => Place(w, f.at.dir, f.at.slot, f.dir)
      <3> DEFINE d == f.at.dir
                 i == f.at.slot
                 m == f.dir
      <3>1. d \in Dirs /\ m # n /\ (m # Root => Place(t, d, i, m))
        BY <1>1, <2>1 DEF EntryAt
      <3> HIDE DEF d, i, m
      <3>2. m # Root => Place(w, d, i, m)
        BY <3>1, PlaceKept
      <3> QED BY <3>2 DEF d, i, m
    <2> QED BY <2>2, <2>3 DEF FrameRight, Deletion
  <1> QED BY <1>2, <1>3, <1>4, <1>5 DEF FrameRight

\* A loop that deletes, and what it has passed.
DelLoop(c, side, t, nd, f) == f \in Frames /\ f.fn = "del" /\ FrameRight(c, side, t, nd, f)
Behind(t, f, but) == "err" \notin f.ret => \A i \in Slots(t, f.dir) : i >= f.pos \/ Place(t, f.dir, i, but)

\* The innermost loop that deletes goes on after what it has deleted, or left.
LEMMA DelAnswers ==
    ASSUME NEW c, NEW side, NEW t, NEW nd, NEW s, Deleting(c), StackRight(c, side, t, nd, s), s # <<>>,
           NEW w, NEW nd2, NEW n, Fewer(t, nd, w, nd2, n),
           NEW f, DelLoop(c, side, w, nd2, f), f.dir = s[1].dir, s[1].fn = "del", f.dir # n,
           \A k \in DOMAIN s : s[k].fn = "del" => s[k].dir # n,
           Behind(w, f, None), NEW r, r = <<f>> \o Tail(s)
    PROVE  StackRight(c, side, w, nd2, r)
  <1>1. s \in Seq(Frames) /\ f \in Frames /\ f.fn = "del"
    BY DEF StackRight, DelLoop
  <1>2. /\ r \in Seq(Frames) /\ r # <<>> /\ Len(r) = Len(s) /\ Len(s) \in Nat /\ Len(s) >= 1
        /\ DOMAIN r = DOMAIN s /\ DOMAIN s = 1 .. Len(s) /\ r[1] = f
        /\ \A k \in DOMAIN s : k # 1 => r[k] = s[k]
    BY <1>1, OnTop
  <1>3. \A k \in DOMAIN s : r[k].fn = s[k].fn /\ r[k].dir = s[k].dir
    BY <1>1, <1>2
  <1>4. r[Len(r)].fn \in {"path", "host"}
    BY <1>2, <1>3 DEF StackRight
  <1>5. ASSUME NEW k \in DOMAIN r PROVE FrameRight(c, side, w, nd2, r[k])
    <2>1. CASE k = 1
      BY <1>2, <2>1 DEF DelLoop
    <2>2. CASE k # 1
      <3> DEFINE g == s[k]
      <3>1. g \in Frames /\ FrameRight(c, side, t, nd, g) /\ (g.fn = "del" => g.dir # n)
        BY <1>1, <1>2 DEF StackRight
      <3>2. g.pos > 1
        BY <1>2, <2>2 DEF StackRight, Returned
      <3> HIDE DEF g
      <3>3. g.pos # 1
        BY <3>2
      <3>4. FrameRight(c, side, w, nd2, g)
        BY <3>1, <3>3, FrameKept
      <3> QED BY <1>2, <2>2, <3>4 DEF g
    <2> QED BY <2>1, <2>2
  <1>6. Chain(w, r)
    <2> SUFFICES ASSUME NEW k \in DOMAIN r, NEW l \in DOMAIN r, k < l, r[l].fn = "del"
                 PROVE  r[k].fn = "del" /\ r[k].dir # r[l].dir /\ Under(w, r[l].dir, r[k].dir)
      BY DEF Chain
    <2>1. s[k].fn = "del" /\ s[k].dir # s[l].dir /\ Under(t, s[l].dir, s[k].dir)
      BY <1>2, <1>3 DEF StackRight, Chain
    <2>2. s[k].dir \in Dirs /\ s[l].dir \in Dirs /\ s[k].dir # n
      BY <1>1, <1>2, <2>1, FrameIs
    <2>3. Under(w, s[l].dir, s[k].dir)
      BY <2>1, <2>2 DEF Fewer
    <2> QED BY <1>2, <1>3, <2>1, <2>3
  <1>7. Passed(w, r)
    <2> SUFFICES ASSUME NEW k \in DOMAIN r, r[k].fn = "del", "err" \notin r[k].ret, NEW i \in Slots(w, r[k].dir)
                 PROVE  i >= r[k].pos \/ (k > 1 /\ Place(w, r[k].dir, i, r[k - 1].dir))
      BY DEF Passed
    <2>1. CASE k = 1
      <3>1. i >= f.pos \/ Place(w, f.dir, i, None)
        BY <1>2, <2>1 DEF Behind
      <3>2. ~Place(w, f.dir, i, None)
        <4>1. Typed(w, nd2)
          BY DEF Fewer, TreeRight
        <4>2. \A d \in Dirs : \A j \in Slots(w, d) : w[d][j].id \in Nodes
          BY <4>1, TypedIs
        <4>3. None \notin Nodes
          BY NodesAre
        <4> QED BY <4>2, <4>3 DEF Place
      <3> QED BY <1>2, <2>1, <3>1, <3>2
    <2>2. CASE k # 1
      <3>1. r[k] = s[k] /\ k > 1 /\ k - 1 \in DOMAIN s
        BY <1>2, <2>2
      <3>2. s[k].dir \in Dirs
        BY <1>1, <1>2, FrameIs
      <3>3. i \in Slots(t, s[k].dir) /\ w[s[k].dir][i] = t[s[k].dir][i]
        BY <3>1, <3>2 DEF Fewer
      <3>4. i >= s[k].pos \/ Place(t, s[k].dir, i, s[k - 1].dir)
        BY <1>2, <3>1, <3>3 DEF StackRight, Passed
      <3>5. Place(t, s[k].dir, i, s[k - 1].dir) => Place(w, s[k].dir, i, s[k - 1].dir)
        BY <3>1, <3>3 DEF Place
      <3>6. r[k - 1].dir = s[k - 1].dir
        BY <1>3, <3>1
      <3> QED BY <3>1, <3>4, <3>5, <3>6
    <2> QED BY <2>1, <2>2
  <1>8. Returned(c, r)
    BY <1>2 DEF StackRight, Returned
  <1> QED BY <1>2, <1>4, <1>5, <1>6, <1>7, <1>8 DEF StackRight


\* It returns; what it stood for is no longer what its caller waits for.
LEMMA DelReturns ==
    ASSUME NEW c, NEW side, NEW t, NEW nd, NEW s, Deleting(c), StackRight(c, side, t, nd, s), Len(s) > 1,
           s[1].fn = "del", NEW w, NEW nd2, NEW n, Fewer(t, nd, w, nd2, n),
           \A k \in DOMAIN s : k # 1 /\ s[k].fn = "del" => s[k].dir # n,
           NEW f, f \in Frames, FrameRight(c, side, w, nd2, f), f.fn = s[2].fn, f.dir = s[2].dir, f.pos = s[2].pos,
           f.fn = "del" => "err" \in f.ret \/ (f.ret = s[2].ret /\ s[1].dir = n),
           NEW r, r = Back(s, f)
    PROVE  StackRight(c, side, w, nd2, r)
  <1>1. s \in Seq(Frames)
    BY DEF StackRight
  <1>2. /\ r \in Seq(Frames) /\ r # <<>> /\ Len(r) = Len(s) - 1 /\ Len(s) \in Nat
        /\ DOMAIN r = 1 .. Len(s) - 1 /\ DOMAIN s = 1 .. Len(s) /\ r[1] = f
        /\ \A k \in DOMAIN r : k # 1 => r[k] = s[k + 1]
    <2>1. Popped(Frames, s, f, Back(s, f))
      BY <1>1, OffTop
    <2> QED BY <2>1 DEF Popped
  <1>3. \A k \in DOMAIN r : /\ k + 1 \in DOMAIN s /\ k + 1 # 1 /\ s[k + 1] \in Frames
                            /\ r[k].fn = s[k + 1].fn /\ r[k].dir = s[k + 1].dir /\ r[k].pos = s[k + 1].pos
    <2> TAKE k \in DOMAIN r
    <2>1. k + 1 \in DOMAIN s /\ k + 1 # 1 /\ s[k + 1] \in Frames
      BY <1>1, <1>2
    <2>2. CASE k = 1
      BY <1>2, <2>1, <2>2
    <2>3. CASE k # 1
      BY <1>2, <2>1, <2>3
    <2> QED BY <2>1, <2>2, <2>3
  <1>4. r[Len(r)].fn \in {"path", "host"}
    <2>1. Len(r) \in DOMAIN r /\ Len(r) + 1 = Len(s) /\ s # <<>>
      BY <1>1, <1>2
    <2>2. s[Len(s)].fn \in {"path", "host"}
      BY <2>1 DEF StackRight
    <2> QED BY <1>3, <2>1, <2>2
  <1>5. ASSUME NEW k \in DOMAIN r PROVE FrameRight(c, side, w, nd2, r[k])
    <2>1. CASE k = 1
      BY <1>2, <2>1
    <2>2. CASE k # 1
      <3> DEFINE g == s[k + 1]
      <3>1. g \in Frames /\ FrameRight(c, side, t, nd, g) /\ (g.fn = "del" => g.dir # n)
        BY <1>3 DEF StackRight
      <3>2. g.pos > 1
        <4>1. k + 1 > 1
          BY <1>2, <2>2
        <4> QED BY <1>3, <4>1 DEF StackRight, Returned
      <3> HIDE DEF g
      <3>3. g.pos # 1
        BY <3>2
      <3>4. FrameRight(c, side, w, nd2, g)
        BY <3>1, <3>3, FrameKept
      <3> QED BY <1>2, <2>2, <3>4 DEF g
    <2> QED BY <2>1, <2>2
  <1>6. Chain(w, r)
    <2> SUFFICES ASSUME NEW k \in DOMAIN r, NEW l \in DOMAIN r, k < l, r[l].fn = "del"
                 PROVE  r[k].fn = "del" /\ r[k].dir # r[l].dir /\ Under(w, r[l].dir, r[k].dir)
      BY DEF Chain
    <2> DEFINE x == k + 1  y == l + 1
    <2>4. x \in DOMAIN s /\ y \in DOMAIN s /\ x < y /\ x # 1 /\ s[y].fn = "del" /\ s[x] \in Frames /\ s[y] \in Frames
      BY <1>2, <1>3
    <2>5. r[k].fn = s[x].fn /\ r[k].dir = s[x].dir /\ r[l].dir = s[y].dir
      BY <1>3
    <2> HIDE DEF x, y
    <2>1. s[x].fn = "del" /\ s[x].dir # s[y].dir /\ Under(t, s[y].dir, s[x].dir)
      BY <2>4 DEF StackRight, Chain
    <2>2. s[x].dir \in Dirs /\ s[y].dir \in Dirs /\ s[x].dir # n
      BY <2>1, <2>4, FrameIs
    <2>3. Under(w, s[y].dir, s[x].dir)
      BY <2>1, <2>2 DEF Fewer
    <2> QED BY <2>1, <2>3, <2>5
  <1>7. Passed(w, r)
    <2> SUFFICES ASSUME NEW k \in DOMAIN r, r[k].fn = "del", "err" \notin r[k].ret, NEW i \in Slots(w, r[k].dir)
                 PROVE  i >= r[k].pos \/ (k > 1 /\ Place(w, r[k].dir, i, r[k - 1].dir))
      BY DEF Passed
    <2> DEFINE x == k + 1
               d == s[x].dir
               m == s[x - 1].dir
    <2>1. /\ x \in DOMAIN s /\ x > 1 /\ s[x].fn = "del" /\ r[k].dir = d /\ r[k].pos = s[x].pos /\ d \in Dirs
          /\ x - 1 = k
      BY <1>2, <1>3, FrameIs
    <2>2. "err" \notin s[x].ret
      BY <1>2, <2>1
    <2>3. i \in Slots(w, d) /\ i \in Slots(t, d) /\ w[d][i] = t[d][i] /\ t[d][i].id # n
      BY <2>1 DEF Fewer
    <2>4. i >= s[x].pos \/ Place(t, d, i, m)
      BY <2>1, <2>2, <2>3 DEF StackRight, Passed
    <2>5. Place(t, d, i, m) => Place(w, d, i, m) /\ m # n
      <3> HIDE DEF d, m
      <3> QED BY <2>3 DEF Place
    <2>6. CASE k = 1
      <3>1. f.fn = "del" /\ "err" \notin f.ret /\ m = s[1].dir
        BY <1>2, <2>1, <2>6
      <3>2. m = n
        BY <3>1
      <3> QED BY <2>1, <2>4, <2>5, <3>2
    <2>7. CASE k # 1
      <3>1. k - 1 \in DOMAIN r /\ (k - 1) + 1 = k
        BY <1>2, <2>7
      <3>2. r[k - 1].dir = s[k].dir
        BY <1>3, <3>1
      <3>3. m = s[k].dir /\ k > 1
        BY <1>2, <2>1, <2>7
      <3> QED BY <2>1, <2>4, <2>5, <3>2, <3>3
    <2> QED BY <2>6, <2>7
  <1>8. Returned(c, r)
    <2> SUFFICES ASSUME NEW k \in DOMAIN r, k > 1 PROVE r[k].pos > 1
      BY DEF Returned
    <2>1. k + 1 > 1 /\ r[k].pos = s[k + 1].pos
      BY <1>2, <1>3
    <2> QED BY <1>3, <2>1 DEF StackRight, Returned
  <1> QED BY <1>2, <1>4, <1>5, <1>6, <1>7, <1>8 DEF StackRight

\* It meets a directory and deletes what is in it first.
LEMMA DelCalls ==
    ASSUME NEW c, NEW side, NEW t, NEW nd, NEW s, Deleting(c), StackRight(c, side, t, nd, s), s # <<>>,
           s[1].fn = "del", TreeRight(t, nd),
           NEW f, DelLoop(c, side, t, nd, f), f.dir = s[1].dir, f.pos > 1,
           NEW g, DelLoop(c, side, t, nd, g), g.pos = 1, Behind(t, f, g.dir),
           NEW i \in Nat, g.dir \in Nodes, Place(t, f.dir, i, g.dir),
           NEW r, r = <<g, f>> \o Tail(s)
    PROVE  StackRight(c, side, t, nd, r)
  <1>1. s \in Seq(Frames) /\ f \in Frames /\ g \in Frames /\ f.fn = "del" /\ g.fn = "del" /\ f.dir \in Dirs /\ g.dir \in Dirs
    BY FrameIs DEF StackRight, DelLoop
  <1>2. /\ r \in Seq(Frames) /\ r # <<>> /\ Len(r) = Len(s) + 1 /\ Len(s) \in Nat /\ Len(s) >= 1
        /\ DOMAIN r = 1 .. Len(s) + 1 /\ DOMAIN s = 1 .. Len(s) /\ r[1] = g /\ r[2] = f
        /\ \A k \in DOMAIN s : k # 1 => r[k + 1] = s[k]
    BY <1>1, OnTopOf
  <1>3. \A k \in DOMAIN r : k # 1 =>
           /\ k - 1 \in DOMAIN s /\ r[k].fn = s[k - 1].fn /\ r[k].dir = s[k - 1].dir /\ s[k - 1].dir \in Dirs
           /\ k # 2 => r[k] = s[k - 1]
    <2> SUFFICES ASSUME NEW k \in DOMAIN r, k # 1
                 PROVE  /\ k - 1 \in DOMAIN s /\ r[k].fn = s[k - 1].fn /\ r[k].dir = s[k - 1].dir
                        /\ s[k - 1].dir \in Dirs /\ (k # 2 => r[k] = s[k - 1])
      OBVIOUS
    <2>1. k - 1 \in DOMAIN s /\ (k - 1) + 1 = k /\ (k = 2 => k - 1 = 1) /\ (k # 2 => k - 1 # 1)
      BY <1>2
    <2>2. s[k - 1].dir \in Dirs
      BY <1>1, <2>1, FrameIs
    <2>3. k # 2 => r[k] = s[k - 1]
      BY <1>2, <2>1
    <2>4. CASE k = 2
      BY <1>1, <1>2, <2>1, <2>2, <2>3, <2>4
    <2>5. CASE k # 2
      BY <2>1, <2>2, <2>3, <2>5
    <2> QED BY <2>4, <2>5
  <1>4. r[Len(r)].fn \in {"path", "host"}
    <2>1. Len(r) \in DOMAIN r /\ Len(r) # 1 /\ Len(r) - 1 = Len(s)
      BY <1>2
    <2>2. s[Len(s)].fn \in {"path", "host"}
      BY DEF StackRight
    <2> QED BY <1>3, <2>1, <2>2
  <1>5. ASSUME NEW k \in DOMAIN r PROVE FrameRight(c, side, t, nd, r[k])
    <2>1. CASE k \in {1, 2}
      BY <1>2, <2>1 DEF DelLoop
    <2>2. CASE k \notin {1, 2}
      BY <1>3, <2>2 DEF StackRight
    <2> QED BY <2>1, <2>2
  <1>6. Chain(t, r)
    <2> SUFFICES ASSUME NEW k \in DOMAIN r, NEW l \in DOMAIN r, k < l, r[l].fn = "del"
                 PROVE  r[k].fn = "del" /\ r[k].dir # r[l].dir /\ Under(t, r[l].dir, r[k].dir)
      BY DEF Chain
    <2>1. l # 1
      BY <1>2
    <2> DEFINE y == l - 1
               a == s[y].dir
    <2>2. y \in DOMAIN s /\ s[y].fn = "del" /\ r[l].dir = a /\ a \in Dirs
      BY <1>3, <2>1
    <2>3. CASE k = 1
      <3>1. Under(t, a, f.dir)
        <4>1. CASE y = 1
          <5>1. a = f.dir
            BY <4>1
          <5>2. Under(t, f.dir, f.dir)
            BY <1>1, UnderIs DEF TreeRight
          <5> QED BY <5>1, <5>2
        <4>2. CASE y # 1
          <5>1. 1 \in DOMAIN s /\ 1 < y
            BY <1>2, <2>2, <4>2
          <5> QED BY <2>2, <5>1 DEF StackRight, Chain
        <4> QED BY <4>1, <4>2
      <3> DEFINE d == f.dir
                 n == g.dir
      <3>2. Under(t, a, d) /\ Place(t, d, i, n) /\ n \in Nodes /\ n \in Dirs /\ d \in Dirs
        BY <1>1, <3>1
      <3> HIDE DEF d, n, a
      <3>3. n # a
        BY <2>2, <3>2, NoCycle
      <3>5. i \in Slots(t, d) /\ t[d][i].id = n
        BY <3>2 DEF Place
      <3>6. Typed(t, nd)
        BY DEF TreeRight
      <3>4. Under(t, a, n)
        BY <2>2, <3>2, <3>5, <3>6, UnderIs
      <3>7. r[k].fn = "del" /\ r[k].dir = n
        BY <1>1, <1>2, <2>3 DEF n
      <3> QED BY <2>2, <3>3, <3>4, <3>7
    <2>4. CASE k # 1
      <3>1. k - 1 \in DOMAIN s /\ k - 1 < y
        BY <1>2, <1>3, <2>4
      <3>2. s[k - 1].fn = "del" /\ s[k - 1].dir # s[y].dir /\ Under(t, s[y].dir, s[k - 1].dir)
        <4> HIDE DEF y, a
        <4> QED BY <2>2, <3>1 DEF StackRight, Chain
      <3> QED BY <1>3, <2>2, <2>4, <3>2
    <2> QED BY <2>3, <2>4
  <1>7. Passed(t, r)
    <2> SUFFICES ASSUME NEW k \in DOMAIN r, r[k].fn = "del", "err" \notin r[k].ret, NEW j \in Slots(t, r[k].dir)
                 PROVE  j >= r[k].pos \/ (k > 1 /\ Place(t, r[k].dir, j, r[k - 1].dir))
      BY DEF Passed
    <2>1. CASE k = 1
      <3>1. Typed(t, nd)
        BY DEF TreeRight
      <3>2. t \in TreeType
        BY <3>1, TypedIs
      <3>3. Slots(t, g.dir) \subseteq Nat /\ 0 \notin Slots(t, g.dir)
        BY <1>1, <3>2, SlotsAre
      <3>4. j >= 1
        BY <1>2, <2>1, <3>3
      <3> QED BY <1>2, <2>1, <3>4
    <2>2. CASE k = 2
      <3>1. r[k] = f /\ r[k - 1] = g /\ k > 1
        BY <1>2, <2>2
      <3> QED BY <3>1 DEF Behind
    <2>3. CASE k \notin {1, 2}
      <3>1. r[k] = s[k - 1] /\ k - 1 \in DOMAIN s /\ k > 1 /\ k - 1 > 1 /\ k - 1 \in DOMAIN r /\ k - 1 # 1
        BY <1>2, <1>3, <2>3
      <3>2. r[k - 1].dir = s[(k - 1) - 1].dir
        BY <1>3, <3>1
      <3>3. j >= s[k - 1].pos \/ Place(t, s[k - 1].dir, j, s[(k - 1) - 1].dir)
        BY <3>1 DEF StackRight, Passed
      <3> QED BY <3>1, <3>2, <3>3
    <2> QED BY <2>1, <2>2, <2>3
  <1>8. Returned(c, r)
    <2> SUFFICES ASSUME NEW k \in DOMAIN r, k > 1 PROVE r[k].pos > 1
      BY DEF Returned
    <2>1. CASE k = 2
      BY <1>2, <2>1
    <2>2. CASE k # 2
      <3>1. r[k] = s[k - 1] /\ k - 1 \in DOMAIN s /\ k - 1 > 1
        BY <1>2, <1>3, <2>2
      <3> QED BY <3>1 DEF StackRight, Returned
    <2> QED BY <2>1, <2>2
  <1> QED BY <1>2, <1>4, <1>5, <1>6, <1>7, <1>8 DEF StackRight

-----------------------------------------------------------------------------
(* The steps of the commands that delete                                    *)

Doing ==
    /\ TreeRight(tree, node) /\ HostTyped(host) /\ cwd \in Path
    /\ JobRight(cmd, job, node, stack) /\ StackRight(cmd, job.side, tree, node, stack)
    /\ Running /\ Deleting(cmd)

\* What is known before a step of a command that deletes.
LEMMA DoingIs ==
    ASSUME Doing
    PROVE  /\ stack \in Seq(Frames) /\ stack # <<>> /\ Top = Head(stack) /\ Top = stack[1] /\ 1 \in DOMAIN stack
           /\ Top \in Frames /\ FrameRight(cmd, job.side, tree, node, Top) /\ Top.fn \in {"path", "del"}
           /\ \A k \in DOMAIN stack : /\ stack[k] \in Frames /\ FrameRight(cmd, job.side, tree, node, stack[k])
                                      /\ stack[k].fn \in {"path", "del"} /\ stack[k].to = None
                                      /\ k > 1 => stack[k].pos > 1
           /\ cmd.op \in Deletes /\ cmd.op # "mcopy" /\ job.target = None
           /\ Len(stack) \in Nat /\ Len(stack) >= 1 /\ DOMAIN stack = 1 .. Len(stack)
           /\ Tail(stack) \in Seq(Frames)
  <1>1. stack \in Seq(Frames) /\ Running
    BY DEF Doing, StackRight
  <1>2. /\ Top = stack[1] /\ Top \in Frames /\ stack # <<>> /\ 1 \in DOMAIN stack
        /\ Len(stack) \in Nat /\ Len(stack) >= 1 /\ DOMAIN stack = 1 .. Len(stack)
        /\ Tail(stack) \in Seq(Frames)
    BY <1>1, TopIs
  <1>3. cmd.op \in Deletes /\ cmd.op # "mcopy"
    BY DEF Doing, Deleting, Deletes
  <1>4. job.target = None
    BY <1>2 DEF Doing, JobRight
  <1>5. ASSUME NEW k \in DOMAIN stack
        PROVE  /\ stack[k] \in Frames /\ FrameRight(cmd, job.side, tree, node, stack[k])
               /\ stack[k].fn \in {"path", "del"} /\ stack[k].to = None /\ (k > 1 => stack[k].pos > 1)
    <2>1. stack[k] \in Frames
      BY <1>1, <1>2
    <2>2. FrameRight(cmd, job.side, tree, node, stack[k])
      BY DEF Doing, StackRight
    <2>3. stack[k].fn \in {"path", "loop", "del", "host"}
      BY <2>1, FrameIs
    <2>4. stack[k].fn # "host" /\ stack[k].fn # "loop" /\ stack[k].to = None
      BY <1>3, <2>2 DEF FrameRight, Walks, Target, Doing
    <2>5. k > 1 => stack[k].pos > 1
      BY DEF Doing, StackRight, Returned
    <2> QED BY <2>1, <2>2, <2>3, <2>4, <2>5
  <1>6. FrameRight(cmd, job.side, tree, node, Top) /\ Top.fn \in {"path", "del"}
    BY <1>2, <1>5
  <1> QED BY <1>1, <1>2, <1>3, <1>4, <1>5, <1>6 DEF Top

\* When the invariant holds after the step, ...
LEMMA DoingSettled ==
    ASSUME Doing, TreeRight(tree', node'), StackRight(cmd, job.side, tree', node', stack'),
           cmd' = cmd, job' = job, host' = host, cwd' = cwd
    PROVE  WalkInv'
  <1>1. stack # <<>> /\ job.target = None
    BY DoingIs
  <1>2. JobRight(cmd, job, node', stack')
    BY <1>1 DEF Doing, JobRight
  <1>3. JobRight(cmd', job', node', stack') /\ StackRight(cmd', job'.side, tree', node', stack')
    BY <1>2
  <1>4. HostTyped(host') /\ cwd' \in Path
    BY DEF Doing
  <1> QED BY <1>3, <1>4 DEF WalkInv

\* ... and when the tree has not changed.
LEMMA DoingPure ==
    ASSUME Doing, Pure, StackRight(cmd, job.side, tree, node, stack')
    PROVE  WalkInv'
  <1>1. tree' = tree /\ node' = node /\ host' = host /\ cwd' = cwd /\ job' = job /\ cmd' = cmd
    BY DEF Pure, Same, fs, disk
  <1>2. TreeRight(tree', node') /\ StackRight(cmd, job.side, tree', node', stack')
    BY <1>1 DEF Doing
  <1> QED BY <1>1, <1>2, DoingSettled

\* What a loop that goes on has come to.
LEMMA DoingSeen ==
    ASSUME Doing, More(Top)
    PROVE  Seen
  <1>1. Top \in Frames /\ FrameRight(cmd, job.side, tree, node, Top) /\ Top.fn # "host"
    BY DoingIs
  <1> QED BY <1>1, HereIs DEF Doing

\* While nothing is deleted, recurs_dos_loop goes down a path.
GoesDown(nd, f) ==
    /\ f \in Frames /\ f.fn = "path" /\ f.pos >= 1 /\ f.to = None
    /\ f.pos = 1 => LiveDir(nd, f.dir)
    /\ Special(f) => f.pos = 1
Down(nd, s) ==
    /\ s \in Seq(Frames) /\ s # <<>>
    /\ \A k \in DOMAIN s : GoesDown(nd, s[k]) /\ (k > 1 => s[k].pos > 1)

\* What the invariant says of a loop of recurs_dos_loop.
LEMMA OnPathRight ==
    ASSUME NEW c, NEW side, NEW t, NEW nd, Deleting(c), NEW f \in Frames, f.fn = "path"
    PROVE  FrameRight(c, side, t, nd, f) <=> GoesDown(nd, f)
  <1>1. c.op # "mcopy"
    BY DEF Deleting, Deletes
  <1> QED BY <1>1 DEF FrameRight, GoesDown, Target, Walks, Deletion

\* A stack of such loops is right whatever becomes of the tree, but for the innermost one.
LEMMA DownRight ==
    ASSUME NEW c, NEW side, NEW t, NEW nd, Deleting(c), NEW s, Down(nd, s)
    PROVE  StackRight(c, side, t, nd, s)
  <1>1. s \in Seq(Frames) /\ s # <<>> /\ Len(s) \in DOMAIN s
    BY DEF Down
  <1>2. \A k \in DOMAIN s : s[k] \in Frames /\ s[k].fn = "path" /\ GoesDown(nd, s[k]) /\ (k > 1 => s[k].pos > 1)
    BY DEF Down, GoesDown
  <1>3. \A k \in DOMAIN s : FrameRight(c, side, t, nd, s[k])
    BY <1>2, OnPathRight
  <1>4. s[Len(s)].fn \in {"path", "host"}
    BY <1>1, <1>2
  <1>5. Chain(t, s) /\ Passed(t, s)
    BY <1>2 DEF Chain, Passed
  <1>6. Returned(c, s)
    BY <1>2 DEF Returned
  <1> QED BY <1>1, <1>3, <1>4, <1>5, <1>6 DEF StackRight

\* Unless the innermost loop deletes, all are such loops.
LEMMA DoingDown ==
    ASSUME Doing, Top.fn # "del"
    PROVE  Down(node, stack)
  <1>1. /\ stack \in Seq(Frames) /\ stack # <<>> /\ Top = stack[1] /\ 1 \in DOMAIN stack
        /\ DOMAIN stack = 1 .. Len(stack) /\ Len(stack) \in Nat
    BY DoingIs
  <1>2. \A k \in DOMAIN stack : stack[k].fn # "del"
    <2> SUFFICES ASSUME NEW k \in DOMAIN stack, stack[k].fn = "del" PROVE FALSE
      OBVIOUS
    <2>1. k # 1
      BY <1>1
    <2>2. 1 < k
      BY <1>1, <2>1
    <2> QED BY <1>1, <2>2 DEF Doing, StackRight, Chain
  <1>3. \A k \in DOMAIN stack : GoesDown(node, stack[k]) /\ (k > 1 => stack[k].pos > 1)
    <2> TAKE k \in DOMAIN stack
    <2>1. /\ stack[k] \in Frames /\ FrameRight(cmd, job.side, tree, node, stack[k])
          /\ stack[k].fn = "path" /\ (k > 1 => stack[k].pos > 1)
      BY <1>2, DoingIs
    <2>2. GoesDown(node, stack[k])
      BY <2>1, OnPathRight DEF Doing
    <2> QED BY <2>1, <2>2
  <1> QED BY <1>1, <1>3 DEF Down

\* The innermost loop goes on, ...
LEMMA DownTop ==
    ASSUME NEW nd, NEW s, Down(nd, s), NEW nd2, NEW f, GoesDown(nd2, f), NEW r, r = <<f>> \o Tail(s)
    PROVE  Down(nd2, r)
  <1>1. s \in Seq(Frames) /\ s # <<>> /\ f \in Frames
    BY DEF Down, GoesDown
  <1>2. /\ r \in Seq(Frames) /\ r # <<>> /\ DOMAIN r = DOMAIN s /\ DOMAIN s = 1 .. Len(s) /\ r[1] = f
        /\ \A k \in DOMAIN s : k # 1 => r[k] = s[k]
        /\ Len(s) \in Nat
    BY <1>1, OnTop
  <1>3. ASSUME NEW k \in DOMAIN r PROVE GoesDown(nd2, r[k]) /\ (k > 1 => r[k].pos > 1)
    <2>1. CASE k = 1
      BY <1>2, <2>1
    <2>2. CASE k # 1
      <3>1. r[k] = s[k] /\ k > 1 /\ k \in DOMAIN s
        BY <1>2, <2>2
      <3>2. GoesDown(nd, s[k]) /\ s[k].pos > 1
        BY <3>1 DEF Down
      <3>3. s[k].pos # 1
        BY <3>1, <3>2
      <3> QED BY <3>1, <3>2, <3>3 DEF GoesDown
    <2> QED BY <2>1, <2>2
  <1> QED BY <1>2, <1>3 DEF Down

\* ... calls another one, ...
LEMMA DownCall ==
    ASSUME NEW nd, NEW s, Down(nd, s), NEW f, GoesDown(nd, f), f.pos > 1, NEW g, GoesDown(nd, g),
           NEW r, r = <<g, f>> \o Tail(s)
    PROVE  Down(nd, r)
  <1>1. s \in Seq(Frames) /\ s # <<>> /\ f \in Frames /\ g \in Frames
    BY DEF Down, GoesDown
  <1>2. /\ r \in Seq(Frames) /\ r # <<>> /\ DOMAIN r = 1 .. Len(s) + 1 /\ Len(s) \in Nat
        /\ DOMAIN s = 1 .. Len(s) /\ r[1] = g /\ r[2] = f
        /\ \A k \in DOMAIN s : k # 1 => r[k + 1] = s[k]
    BY <1>1, OnTopOf
  <1>3. ASSUME NEW k \in DOMAIN r PROVE GoesDown(nd, r[k]) /\ (k > 1 => r[k].pos > 1)
    <2>1. CASE k = 1
      BY <1>2, <2>1
    <2>2. CASE k = 2
      BY <1>2, <2>2
    <2>3. CASE k \notin {1, 2}
      <3>1. k - 1 \in DOMAIN s /\ k - 1 > 1 /\ (k - 1) + 1 = k /\ k - 1 # 1
        BY <1>2, <2>3
      <3>2. r[k] = s[k - 1]
        BY <1>2, <3>1
      <3> QED BY <3>1, <3>2 DEF Down
    <2> QED BY <2>1, <2>2, <2>3
  <1> QED BY <1>2, <1>3 DEF Down

\* ... or returns.
LEMMA DownReturn ==
    ASSUME NEW nd, NEW s, Down(nd, s), Len(s) > 1, NEW f, GoesDown(nd, f), NEW r, r = Back(s, f)
    PROVE  Down(nd, r)
  <1>1. s \in Seq(Frames) /\ f \in Frames
    BY DEF Down, GoesDown
  <1>2. Popped(Frames, s, f, Back(s, f))
    BY <1>1, OffTop
  <1>3. /\ r \in Seq(Frames) /\ r # <<>> /\ Len(r) = Len(s) - 1 /\ Len(s) \in Nat
        /\ DOMAIN r = 1 .. Len(s) - 1 /\ DOMAIN s = 1 .. Len(s) /\ r[1] = f
        /\ \A k \in DOMAIN r : k # 1 => r[k] = s[k + 1]
    BY <1>2 DEF Popped
  <1>4. ASSUME NEW k \in DOMAIN r PROVE GoesDown(nd, r[k]) /\ (k > 1 => r[k].pos > 1)
    <2>1. CASE k = 1
      BY <1>3, <2>1
    <2>2. CASE k # 1
      <3>1. k + 1 \in DOMAIN s /\ k + 1 > 1 /\ r[k] = s[k + 1]
        BY <1>3, <2>2
      <3> QED BY <3>1 DEF Down
    <2> QED BY <2>1, <2>2
  <1> QED BY <1>3, <1>4 DEF Down

\* The first directory to be deleted.
LEMMA DownDeletes ==
    ASSUME NEW c, NEW side, NEW t, NEW nd, Deleting(c), TreeRight(t, nd), NEW s, Down(nd, s),
           NEW f, GoesDown(nd, f), f.pos > 1, NEW g, DelLoop(c, side, t, nd, g), g.pos = 1,
           NEW r, r = <<g, f>> \o Tail(s)
    PROVE  StackRight(c, side, t, nd, r)
  <1>1. s \in Seq(Frames) /\ s # <<>> /\ f \in Frames /\ g \in Frames /\ f.fn = "path" /\ g.fn = "del" /\ g.dir \in Dirs
    BY FrameIs DEF Down, GoesDown, DelLoop
  <1>2. /\ r \in Seq(Frames) /\ r # <<>> /\ DOMAIN r = 1 .. Len(s) + 1 /\ Len(s) \in Nat /\ Len(s) >= 1
        /\ Len(r) = Len(s) + 1 /\ DOMAIN s = 1 .. Len(s) /\ r[1] = g /\ r[2] = f
        /\ \A k \in DOMAIN s : k # 1 => r[k + 1] = s[k]
    BY <1>1, OnTopOf
  <1>3. ASSUME NEW k \in DOMAIN r, k # 1 PROVE GoesDown(nd, r[k]) /\ r[k].pos > 1 /\ r[k].fn = "path" /\ r[k] \in Frames
    <2>1. CASE k = 2
      BY <1>1, <1>2, <2>1
    <2>2. CASE k # 2
      <3>1. k - 1 \in DOMAIN s /\ k - 1 > 1 /\ (k - 1) + 1 = k /\ k - 1 # 1
        BY <1>2, <1>3, <2>2
      <3>2. r[k] = s[k - 1]
        BY <1>2, <3>1
      <3> QED BY <3>1, <3>2 DEF Down, GoesDown
    <2> QED BY <2>1, <2>2
  <1>4. \A k \in DOMAIN r : FrameRight(c, side, t, nd, r[k])
    <2> TAKE k \in DOMAIN r
    <2>1. CASE k = 1
      BY <1>2, <2>1 DEF DelLoop
    <2>2. CASE k # 1
      BY <1>3, <2>2, OnPathRight
    <2> QED BY <2>1, <2>2
  <1>5. Len(r) \in DOMAIN r /\ Len(r) # 1
    BY <1>2
  <1>6. r[Len(r)].fn \in {"path", "host"}
    BY <1>3, <1>5
  <1>7. Chain(t, r)
    <2> SUFFICES ASSUME NEW k \in DOMAIN r, NEW l \in DOMAIN r, k < l, r[l].fn = "del" PROVE FALSE
      BY DEF Chain
    <2>1. l # 1
      BY <1>2
    <2> QED BY <1>3, <2>1
  <1>8. Passed(t, r)
    <2> SUFFICES ASSUME NEW k \in DOMAIN r, r[k].fn = "del", NEW j \in Slots(t, r[k].dir)
                 PROVE  j >= r[k].pos
      BY DEF Passed
    <2>1. k = 1
      BY <1>3
    <2>2. t \in TreeType
      BY TypedIs DEF TreeRight
    <2>3. Slots(t, g.dir) \subseteq Nat /\ 0 \notin Slots(t, g.dir)
      BY <1>1, <2>2, SlotsAre
    <2>4. j \in Slots(t, g.dir) /\ r[k].pos = 1
      BY <1>2, <2>1
    <2>5. j \in Nat /\ j # 0
      BY <2>3, <2>4
    <2> QED BY <2>4, <2>5
  <1>9. Returned(c, r)
    <2> SUFFICES ASSUME NEW k \in DOMAIN r, k > 1 PROVE r[k].pos > 1
      BY DEF Returned
    <2>1. k # 1
      BY <1>2
    <2> QED BY <1>3, <2>1
  <1> QED BY <1>2, <1>4, <1>6, <1>7, <1>8, <1>9 DEF StackRight

\* A loop that has gone on does not need its directory any more.
LEMMA DoingOnward ==
    ASSUME Doing, More(Top), ~Special(Top)
    PROVE  /\ Onward \in Frames /\ Onward.fn = Top.fn /\ Onward.dir = Top.dir /\ Onward.comps = Top.comps
           /\ Onward.ret = Top.ret /\ Onward.at = Top.at /\ Onward.to = None /\ Onward.pos = After
           /\ After \in Nat /\ After > 1 /\ ~Special(Onward)
           /\ Top.fn = "path" => \A nd : GoesDown(nd, Onward)
  <1> DEFINE g == Onward
  <1>1. Top \in Frames /\ Top.fn # "host" /\ Top.to = None
    BY DoingIs
  <1>2. After \in Nat /\ After > 1
    BY DoingSeen DEF Seen
  <1>3. /\ g \in Frames /\ g.fn = Top.fn /\ g.dir = Top.dir /\ g.comps = Top.comps /\ g.to = Top.to
        /\ g.ret = Top.ret /\ g.at = Top.at /\ g.pos = (IF Top.fn = "host" THEN Top.pos ELSE After)
        /\ Special(g) <=> Special(Top)
    BY <1>1, <1>2, OnwardIs
  <1> HIDE DEF g
  <1>4. g.pos = After /\ g.to = None /\ ~Special(g)
    BY <1>1, <1>3
  <1>5. Top.fn = "path" => \A nd : GoesDown(nd, g)
    <2>1. g.pos # 1 /\ g.pos >= 1
      BY <1>2, <1>4
    <2> QED BY <1>3, <1>4, <2>1 DEF GoesDown
  <1> QED BY <1>2, <1>3, <1>4, <1>5 DEF g

\* A file named by the path is deleted, or left.
LEMMA DoingAnswers ==
    ASSUME Doing, Top.fn # "del", More(Top), ~Special(Top), NEW r \in Ones, Answer(r)
    PROVE  StackRight(cmd, job.side, tree', node', stack')
  <1> DEFINE g == Onward
             f == Add(g, r)
  <1>1. Top.fn = "path"
    BY DoingIs
  <1>2. g \in Frames /\ g.fn = "path" /\ g.pos > 1 /\ g.to = None /\ ~Special(g) /\ \A nd : GoesDown(nd, g)
    BY <1>1, DoingOnward
  <1>3. r \in SUBSET Results
    BY OnesAre
  <1>4. stack' = <<f>> \o Tail(stack)
    BY DEF Answer
  <1> HIDE DEF g
  <1>5. f \in Frames /\ f.fn = "path" /\ f.pos = g.pos /\ f.to = None /\ ~Special(f)
    BY <1>2, <1>3, AddIs
  <1> DEFINE nd2 == node'
             w == tree'
             s2 == stack'
  <1>6. GoesDown(nd2, f)
    <2> HIDE DEF f, nd2
    <2>1. f.pos # 1 /\ f.pos >= 1
      <3>1. g.pos \in Nat
        BY <1>2, FrameIs
      <3> QED BY <1>2, <1>5, <3>1
    <2> QED BY <1>5, <2>1 DEF GoesDown
  <1>7. Down(node, stack) /\ Deleting(cmd)
    BY DoingDown DEF Doing
  <1>8. s2 = <<f>> \o Tail(stack)
    BY <1>4
  <1> HIDE DEF f, nd2, w, s2
  <1>9. Down(nd2, s2)
    BY <1>6, <1>7, <1>8, DownTop
  <1>10. StackRight(cmd, job.side, w, nd2, s2)
    BY <1>7, <1>9, DownRight
  <1> QED BY <1>10 DEF nd2, w, s2

\* recurs_dos_loop goes down one name of its path.
LEMMA DoingDescend ==
    ASSUME Doing, Descend
    PROVE  WalkInv'
  <1>1. Pure /\ Top.fn # "del" /\ Top.fn = "path" /\ ~AtLeaf(Top)
    BY DEF Descend, Pure
  <1>2. Top \in Frames /\ Down(node, stack) /\ Deleting(cmd) /\ Top.to = None /\ GoesDown(node, Top)
    <2>1. Top \in Frames /\ Top = stack[1] /\ 1 \in DOMAIN stack
      BY DoingIs
    <2>2. Down(node, stack)
      BY <1>1, DoingDown
    <2>3. GoesDown(node, Top)
      BY <2>1, <2>2 DEF Down
    <2> QED BY <2>1, <2>2, <2>3 DEF Doing, GoesDown
  <1>3. Top.comps \in Path /\ Top.dir \in Dirs /\ Top.out \in Path
    BY <1>2, FrameIs
  <1>4. Top.comps # <<>> /\ Tail(Top.comps) \in Path
    <2>1. Top.comps # <<>>
      BY <1>1 DEF AtLeaf
    <2> QED BY <1>3, <2>1, PathIs
  <1>5. ASSUME Down(node, stack') PROVE WalkInv'
    <2>1. StackRight(cmd, job.side, tree, node, stack')
      BY <1>2, <1>5, DownRight
    <2> QED BY <1>1, <2>1, DoingPure
  <1>6. CASE Head(Top.comps) = Dot /\ stack' = <<[Top EXCEPT !.comps = Tail(@)]>> \o Tail(stack)
    <2> DEFINE f == Top
               p == Tail(f.comps)
               g == [f EXCEPT !.comps = p]
    <2>1. f.pos = 1 /\ f \in Frames /\ GoesDown(node, f) /\ p \in Path
      BY <1>1, <1>2, <1>4, <1>6 DEF Special, GoesDown
    <2>2. stack' = <<g>> \o Tail(stack)
      BY <1>6
    <2> HIDE DEF f, p
    <2>3. g \in Frames /\ g.fn = f.fn /\ g.pos = 1 /\ g.to = f.to /\ g.dir = f.dir
      BY <2>1 DEF Frames
    <2> HIDE DEF g
    <2>4. GoesDown(node, g)
      BY <2>1, <2>3 DEF GoesDown
    <2>5. Down(node, stack')
      BY <1>2, <2>2, <2>4, DownTop
    <2> QED BY <1>5, <2>5
  <1>7. CASE Head(Top.comps) = Up /\ stack' = <<[Top EXCEPT !.comps = Tail(@), !.dir = Self(@).dir]>> \o Tail(stack)
    <2> DEFINE f == Top
               p == Tail(f.comps)
               d == Self(f.dir).dir
               g == [f EXCEPT !.comps = p, !.dir = d]
    <2>1. f.pos = 1 /\ f \in Frames /\ GoesDown(node, f) /\ p \in Path
      BY <1>1, <1>2, <1>4, <1>7 DEF Special, GoesDown
    <2>2. stack' = <<g>> \o Tail(stack)
      BY <1>7
    <2>7. d \in Dirs /\ LiveDir(node, d)
      <3>1. Top.dir \in LiveDirs
        BY <1>3, <2>1 DEF LiveDirs, GoesDown
      <3>2. Self(Top.dir).dir \in LiveDirs
        BY <3>1, SelfIs DEF Doing
      <3> QED BY <3>2 DEF LiveDirs
    <2> HIDE DEF f, p, d
    <2>3. g \in Frames /\ g.fn = f.fn /\ g.pos = 1 /\ g.to = f.to /\ g.dir = d
      BY <2>1, <2>7 DEF Frames
    <2> HIDE DEF g
    <2>4. GoesDown(node, g)
      BY <2>1, <2>3, <2>7 DEF GoesDown
    <2>5. Down(node, stack')
      BY <1>2, <2>2, <2>4, DownTop
    <2> QED BY <1>5, <2>5
  <1>8. CASE ~Special(Top) /\ More(Top) /\ Call(PathFrame(Here.id, Tail(Top.comps), Top.to, Top.out))
    <2> DEFINE n == Here.id
               p == Tail(Top.comps)
               to == Top.to
               out == Top.out
               f == PathFrame(n, p, to, out)
               g == Onward
    <2>1. Seen
      BY <1>8, DoingSeen
    <2>2. ~OnItself(Top) /\ Accepts(Top) = {"dir"}
      <3>1. Len(Top.comps) > 1
        BY <1>1, <1>3 DEF AtLeaf, Path
      <3>2. Top.comps \notin {<<>>, <<Dot>>, <<Up>>}
        <4> DEFINE q == Top.comps
        <4>1. Len(q) > 1
          BY <3>1
        <4> HIDE DEF q
        <4>2. ASSUME q = <<>> PROVE FALSE
          BY <4>1, <4>2
        <4>3. ASSUME NEW nm, q = <<nm>> PROVE FALSE
          <5>1. Len(<<nm>>) = 1
            OBVIOUS
          <5> QED BY <4>1, <4>3, <5>1
        <4>4. q # <<Dot>> /\ q # <<Up>>
          BY <4>3
        <4> QED BY <4>2, <4>4 DEF q
      <3> QED BY <1>1, <3>2 DEF OnItself, Accepts
    <2>3. n \in Dirs /\ LiveDir(node, n) /\ to = None /\ out \in Path /\ p \in Path
      <3>1. n \in Nodes /\ node[n].kind \in {"dir"}
        BY <2>1, <2>2 DEF Seen
      <3> QED BY <1>2, <1>3, <1>4, <3>1 DEF Dirs, LiveDir
    <2>4. g.pos > 1 /\ GoesDown(node, g)
      BY <1>1, <1>8, DoingOnward
    <2>5. stack' = <<f, g>> \o Tail(stack)
      BY <1>8 DEF Call
    <2> HIDE DEF n, p, to, out, g
    <2>6. PathLoop(f, n, to)
      BY <2>3, PathFrameIs DEF Doing
    <2> HIDE DEF f
    <2>7. GoesDown(node, f)
      BY <2>3, <2>6 DEF PathLoop, GoesDown
    <2>8. Down(node, stack')
      BY <1>2, <2>4, <2>5, <2>7, DownCall
    <2> QED BY <1>5, <2>8
  <1>9. \/ Head(Top.comps) = Dot /\ stack' = <<[Top EXCEPT !.comps = Tail(@)]>> \o Tail(stack)
        \/ Head(Top.comps) = Up /\ stack' = <<[Top EXCEPT !.comps = Tail(@), !.dir = Self(@).dir]>> \o Tail(stack)
        \/ ~Special(Top) /\ More(Top) /\ Call(PathFrame(Here.id, Tail(Top.comps), Top.to, Top.out))
    BY DEF Descend
  <1> QED BY <1>6, <1>7, <1>8, <1>9

\* recurs_dos_loop returns to its caller.
LEMMA DoingEndPath ==
    ASSUME Doing, EndPath
    PROVE  WalkInv'
  <1> DEFINE r == Caught(Top.ret)
             h == stack[2]
             f == Add(h, r)
  <1>1. Len(stack) > 1 /\ Return(r) /\ Pure /\ Top.fn # "del"
    BY DEF EndPath
  <1>2. Down(node, stack) /\ Deleting(cmd)
    BY <1>1, DoingDown DEF Doing
  <1>3. Top \in Frames /\ 2 \in DOMAIN stack
    BY <1>1, DoingIs
  <1>4. r \in SUBSET Results
    BY <1>3, FrameIs, CaughtIs
  <1>5. GoesDown(node, h) /\ h \in Frames
    BY <1>2, <1>3 DEF Down, GoesDown
  <1>6. stack' = Back(stack, f)
    BY <1>1 DEF Return, Back
  <1> HIDE DEF r, h
  <1>7. f \in Frames /\ f.fn = h.fn /\ f.dir = h.dir /\ f.pos = h.pos /\ f.to = h.to /\ (Special(f) <=> Special(h))
    BY <1>4, <1>5, AddIs
  <1> HIDE DEF f
  <1>8. GoesDown(node, f)
    BY <1>5, <1>7 DEF GoesDown
  <1>9. Down(node, stack')
    BY <1>1, <1>2, <1>6, <1>8, DownReturn
  <1>10. StackRight(cmd, job.side, tree, node, stack')
    BY <1>2, <1>9, DownRight
  <1> QED BY <1>1, <1>10, DoingPure

\* Results that are added change nothing else.
LEMMA AddRight ==
    ASSUME NEW c, NEW side, NEW t, NEW nd, NEW g \in Frames, FrameRight(c, side, t, nd, g),
           NEW r \in SUBSET Results, "stop" \notin r, NEW f, f = Add(g, r)
    PROVE  /\ FrameRight(c, side, t, nd, f) /\ f \in Frames /\ f.fn = g.fn /\ f.dir = g.dir /\ f.pos = g.pos
           /\ f.ret = g.ret \cup (IF f.fn = "del" THEN r \ {"got"} ELSE r)
  <1>1. /\ f \in Frames /\ f.fn = g.fn /\ f.dir = g.dir /\ f.comps = g.comps /\ f.pos = g.pos /\ f.to = g.to
        /\ f.at = g.at /\ f.ret = g.ret \cup (IF g.fn = "del" THEN r \ {"got"} ELSE r)
        /\ Special(f) <=> Special(g)
    BY AddIs
  <1>2. "stop" \in f.ret => "stop" \in g.ret
    BY <1>1
  <1>3. FrameRight(c, side, t, nd, f)
    BY <1>1, <1>2 DEF FrameRight, Target, Walks, Deletion
  <1> QED BY <1>1, <1>3

\* The innermost deletion is in a directory that is there and looks at everything that is left of it.
LEMMA DelTopIs ==
    ASSUME Doing, Top.fn = "del"
    PROVE  /\ ~OnItself(Top) /\ ~Special(Top) /\ Top.dir \in Dirs /\ LiveDir(node, Top.dir) /\ Top.pos \in Nat
           /\ Top.at \in EntryAt /\ Top.at.id = Top.dir /\ "stop" \notin Top.ret /\ Len(stack) > 1
           /\ Top.dir # Root => Place(tree, Top.at.dir, Top.at.slot, Top.dir)
           /\ Ahead(Top) = {j \in Slots(tree, Top.dir) : j >= Top.pos}
           /\ "err" \notin Top.ret => \A i \in Slots(tree, Top.dir) : i >= Top.pos
  <1>1. /\ Top \in Frames /\ FrameRight(cmd, job.side, tree, node, Top) /\ Top = stack[1] /\ 1 \in DOMAIN stack
        /\ stack # <<>> /\ Len(stack) \in Nat /\ Len(stack) >= 1 /\ cmd.op \in Deletes
    BY DoingIs
  <1>2. Top.dir \in Dirs /\ Top.pos \in Nat /\ Top.at \in EntryAt
    BY <1>1, FrameIs DEF EntryAt
  <1>3. /\ LiveDir(node, Top.dir) /\ Top.comps = <<Star>> /\ Top.at.id = Top.dir /\ "stop" \notin Top.ret
        /\ Top.dir # Root => Place(tree, Top.at.dir, Top.at.slot, Top.dir)
        /\ Top.pos >= 1
    BY <1>1 DEF FrameRight, Deletion
  <1>4. ~OnItself(Top) /\ ~Special(Top) /\ Accepts(Top) = {"file", "dir"}
    BY DEF OnItself, Special, Accepts
  <1>5. Len(stack) > 1
    <2>1. stack[Len(stack)].fn \in {"path", "host"}
      BY <1>1 DEF Doing, StackRight
    <2>2. stack[1].fn = "del"
      BY <1>1
    <2>3. Len(stack) # 1
      BY <2>1, <2>2
    <2> DEFINE n == Len(stack)
    <2>4. n \in Nat /\ n >= 1 /\ n # 1
      BY <1>1, <2>3
    <2> HIDE DEF n
    <2>5. n > 1
      BY <2>4
    <2> QED BY <2>5 DEF n
  <1> DEFINE f == Top
             d == Top.dir
             S == Slots(tree, Top.dir)
  <1>6. Typed(tree, node) /\ tree \in TreeType
    BY TypedIs DEF Doing, TreeRight
  <1>7. Len(tree[d]) \in Nat /\ S = {i \in 1 .. Len(tree[d]) : tree[d][i] # Free}
    BY <1>2, <1>6, SlotsAre
  <1>8. \A i \in S : Matches(f, tree[d][i])
    <2> TAKE i \in S
    <2>1. tree[d][i].id \in Live(node)
      BY <1>2 DEF Doing, TreeRight, Listed
    <2>2. node[tree[d][i].id].kind \in {"file", "dir"}
      <3> DEFINE n == tree[d][i].id
      <3>1. n \in Live(node)
        BY <2>1
      <3> HIDE DEF n
      <3>2. n \in Nodes /\ node[n].kind # "free" /\ node \in [Nodes -> NodeType]
        BY <1>6, <3>1, NodeTypeIs DEF Live
      <3>3. node[n].kind \in {"file", "dir"}
        BY <3>2 DEF NodeType
      <3> QED BY <3>3 DEF n
    <2>3. Head(f.comps) = Star
      BY <1>3
    <2>4. ~Nameless(tree[d][i].id)
      BY <1>1 DEF Nameless
    <2>5. tree[d][i] # Free
      BY <1>7
    <2> QED BY <1>4, <2>2, <2>3, <2>4, <2>5 DEF Matches
  <1>9. \A i \in f.pos .. Len(tree[d]) : Matches(f, tree[d][i]) => tree[d][i] # Free
    BY DEF Matches
  <1>10. Ahead(f) = {i \in f.pos .. Len(tree[d]) : Matches(f, tree[d][i])}
    BY <1>4 DEF Ahead
  <1>11. f.pos \in Nat /\ f.pos >= 1
    BY <1>2, <1>3
  <1>12. "err" \notin f.ret => \A i \in S : i >= f.pos
    <2>1. Passed(tree, stack)
      BY DEF Doing, StackRight
    <2>2. stack[1] = f /\ 1 \in DOMAIN stack /\ ~(1 > 1)
      BY <1>1
    <2> QED BY <2>1, <2>2 DEF Passed
  <1>13. Ahead(f) = {j \in S : j >= f.pos}
    <2> HIDE DEF f, d, S
    <2>1. \A i : i \in f.pos .. Len(tree[d]) <=> i \in 1 .. Len(tree[d]) /\ i >= f.pos
      BY <1>7, <1>11
    <2> QED BY <1>7, <1>8, <1>9, <1>10, <2>1
  <1> QED BY <1>1, <1>2, <1>3, <1>4, <1>5, <1>12, <1>13

\* What the innermost deletion leaves behind it when it looks at the next slot.
LEMMA DelOnward ==
    ASSUME Doing, Top.fn = "del", More(Top)
    PROVE  /\ DelLoop(cmd, job.side, tree, node, Onward) /\ Onward.dir = Top.dir /\ Onward.pos = After /\ After > 1
           /\ Onward.pos > 1 /\ Onward.ret = Top.ret
           /\ Here.id \in Nodes /\ Place(tree, Top.dir, NextSlot(Top), Here.id) /\ NextSlot(Top) \in Nat
           /\ \A i \in Slots(tree, Top.dir) : i >= Onward.pos \/ i = NextSlot(Top)
  <1>1. ~OnItself(Top) /\ ~Special(Top) /\ Top.dir \in Dirs
    BY DelTopIs
  <1>2. Seen
    BY DoingSeen
  <1>3. /\ Here.dir = Top.dir /\ Here.slot = NextSlot(Top) /\ After = NextSlot(Top) + 1 /\ Here.id # Root
        /\ NextSlot(Top) \in Nat /\ \A j \in Ahead(Top) : NextSlot(Top) <= j
    BY <1>1, <1>2 DEF Seen
  <1>4. Here.id \in Nodes /\ Place(tree, Top.dir, NextSlot(Top), Here.id)
    BY <1>2, <1>3 DEF Seen
  <1>5. /\ Onward \in Frames /\ Onward.fn = Top.fn /\ Onward.dir = Top.dir /\ Onward.comps = Top.comps
        /\ Onward.ret = Top.ret /\ Onward.at = Top.at /\ Onward.to = None /\ Onward.pos = After
        /\ After \in Nat /\ After > 1
    BY <1>1, DoingOnward
  <1>6. Onward.pos >= 1 /\ Onward.pos > 1
    BY <1>5
  <1>7. FrameRight(cmd, job.side, tree, node, Onward)
    <2> DEFINE g == Onward
               f == Top
    <2>1. FrameRight(cmd, job.side, tree, node, f) /\ cmd.op # "mcopy" /\ f.fn = "del"
      BY DoingIs
    <2>2. /\ g.fn = f.fn /\ g.dir = f.dir /\ g.comps = f.comps /\ g.ret = f.ret /\ g.at = f.at /\ g.to = None
          /\ g.pos >= 1
      BY <1>5, <1>6
    <2> HIDE DEF f, g
    <2>3. FrameRight(cmd, job.side, tree, node, g)
      BY <2>1, <2>2 DEF FrameRight, Target, Walks, Deletion
    <2> QED BY <2>3 DEF g
  <1>8. \A i \in Slots(tree, Top.dir) : i >= Onward.pos \/ i = NextSlot(Top)
    <2>1. "err" \notin Top.ret
      BY DEF More, Goes
    <2> DEFINE m == NextSlot(Top)
    <2>2. \A i \in Slots(tree, Top.dir) : i \in Nat /\ m <= i
      <3> TAKE i \in Slots(tree, Top.dir)
      <3>1. i \in Ahead(Top)
        BY <2>1, DelTopIs
      <3>2. tree \in TreeType
        BY TypedIs DEF Doing, TreeRight
      <3>3. i \in Nat
        BY <1>1, <3>2, SlotsAre
      <3> QED BY <1>3, <3>1, <3>3
    <2>3. m \in Nat /\ Onward.pos = m + 1
      BY <1>3, <1>5
    <2> HIDE DEF m
    <2>4. \A i \in Slots(tree, Top.dir) : i >= Onward.pos \/ i = m
      BY <2>2, <2>3
    <2> QED BY <2>4 DEF m
  <1> QED BY <1>3, <1>4, <1>5, <1>6, <1>7, <1>8 DEF DelLoop

\* After an error nothing need have gone.
LEMMA DelErrs ==
    ASSUME NEW c, NEW side, NEW t, NEW nd, NEW s, Deleting(c), StackRight(c, side, t, nd, s), s # <<>>,
           TreeRight(t, nd), NEW f, DelLoop(c, side, t, nd, f), f.dir = s[1].dir, s[1].fn = "del", "err" \in f.ret,
           NEW r, r = <<f>> \o Tail(s)
    PROVE  StackRight(c, side, t, nd, r)
  <1> DEFINE n == None
  <1>1. \A k \in DOMAIN s : s[k].dir # None
    <2>1. \A k \in DOMAIN s : s[k] \in Frames
      BY DEF StackRight
    <2>2. \A k \in DOMAIN s : s[k].dir \in Dirs
      BY <2>1, FrameIs
    <2> QED BY <2>2, NodesAre
  <1>2. Fewer(t, nd, t, nd, n)
    BY NoneFewer
  <1>3. Behind(t, f, None)
    BY DEF Behind
  <1>4. f.dir # None
    BY FrameIs, NodesAre DEF DelLoop
  <1>5. f.dir # n /\ \A k \in DOMAIN s : s[k].fn = "del" => s[k].dir # n
    BY <1>1, <1>4
  <1> HIDE DEF n
  <1> QED BY <1>2, <1>3, <1>5, DelAnswers

\* A deletion meets what it must not delete.
LEMMA DelRefused ==
    ASSUME Doing, Top.fn = "del", More(Top), Answer({"err"}), Pure
    PROVE  WalkInv'
  <1> DEFINE g == Onward
             e == {"err"}
             f == Add(g, e)
             s2 == stack'
  <1>1. DelLoop(cmd, job.side, tree, node, g) /\ g.dir = Top.dir
    BY DelOnward
  <1>2. e \in SUBSET Results /\ "stop" \notin e /\ "err" \in e /\ "err" \notin {"got"}
    BY DEF Results
  <1>3. stack # <<>> /\ Top = stack[1] /\ stack[1].fn = "del" /\ Top.dir = stack[1].dir
    BY DoingIs
  <1>4. s2 = <<f>> \o Tail(stack)
    BY DEF Answer
  <1> HIDE DEF g, s2, e
  <1>6. /\ FrameRight(cmd, job.side, tree, node, f) /\ f \in Frames /\ f.fn = g.fn /\ f.dir = g.dir
        /\ f.ret = g.ret \cup (IF f.fn = "del" THEN e \ {"got"} ELSE e)
    BY <1>1, <1>2, AddRight DEF DelLoop
  <1> HIDE DEF f
  <1>7. DelLoop(cmd, job.side, tree, node, f) /\ f.dir = stack[1].dir
    BY <1>1, <1>3, <1>6 DEF DelLoop
  <1>8. "err" \in f.ret
    BY <1>2, <1>6
  <1>9. Deleting(cmd) /\ StackRight(cmd, job.side, tree, node, stack) /\ TreeRight(tree, node)
    BY DEF Doing
  <1>11. StackRight(cmd, job.side, tree, node, s2)
    BY <1>3, <1>4, <1>7, <1>8, <1>9, DelErrs
  <1> QED BY <1>11, DoingPure DEF s2

\* mdel and mrd do not delete a directory with something in it.
LEMMA DoingNotEmpty ==
    ASSUME Doing, NotEmpty
    PROVE  WalkInv'
  BY DelRefused DEF NotEmpty

\* A file has gone: no loop that deletes is in it.
Shrunk(c, side, s, t, nd, n, f) ==
    /\ DelLoop(c, side, t, nd, f) /\ f.dir = s[1].dir /\ f.dir # n /\ Behind(t, f, None)
    /\ \A k \in DOMAIN s : s[k].fn = "del" => s[k].dir # n

\* What the loop that deletes has passed has gone.
LEMMA DelShrinks ==
    ASSUME NEW c, NEW side, NEW t, NEW nd, NEW s, Deleting(c), StackRight(c, side, t, nd, s), s # <<>>, s[1].fn = "del",
           NEW w, NEW nd2, NEW n \in Nodes, nd[n].kind # "dir", Fewer(t, nd, w, nd2, n),
           NEW g, DelLoop(c, side, t, nd, g), g.dir = s[1].dir, g.pos > 1,
           NEW i, Place(t, g.dir, i, n), \A j \in Slots(t, g.dir) : j >= g.pos \/ j = i,
           NEW f, f = Add(g, {"got"})
    PROVE  Shrunk(c, side, s, w, nd2, n, f)
  <1>1. ~LiveDir(nd, n)
    BY NodesAre DEF LiveDir
  <1>2. \A k \in DOMAIN s : s[k].fn = "del" => s[k].dir # n
    BY <1>1 DEF StackRight, FrameRight, Deletion
  <1>3. g \in Frames /\ g.fn = "del" /\ FrameRight(c, side, t, nd, g) /\ g.dir # n
    BY <1>1 DEF DelLoop, FrameRight, Deletion
  <1>4. FrameRight(c, side, w, nd2, g)
    BY <1>3, FrameKept
  <1> DEFINE e == {"got"}
  <1>5. e \in SUBSET Results /\ "stop" \notin e /\ e \ {"got"} = {} /\ f = Add(g, e)
    BY DEF Results
  <1> HIDE DEF e
  <1>6. /\ FrameRight(c, side, w, nd2, f) /\ f \in Frames /\ f.fn = g.fn /\ f.dir = g.dir /\ f.pos = g.pos
        /\ f.ret = g.ret \cup (IF f.fn = "del" THEN e \ {"got"} ELSE e)
    BY <1>3, <1>4, <1>5, AddRight
  <1>7. DelLoop(c, side, w, nd2, f) /\ f.dir = s[1].dir /\ f.dir # n
    BY <1>3, <1>6 DEF DelLoop
  <1>8. \A j \in Slots(w, f.dir) : j >= f.pos
    <2> TAKE j \in Slots(w, f.dir)
    <2>1. f.dir \in Dirs
      BY <1>6, FrameIs
    <2>2. j \in Slots(t, f.dir) /\ t[f.dir][j].id # n
      BY <2>1 DEF Fewer
    <2>3. j # i
      BY <1>6, <2>2 DEF Place
    <2> QED BY <1>6, <2>2, <2>3
  <1>9. Behind(w, f, None)
    BY <1>8 DEF Behind
  <1> QED BY <1>2, <1>7, <1>9 DEF Shrunk

\* A loop that has deleted a file goes on.
LEMMA DelGone ==
    ASSUME NEW c, NEW side, NEW t, NEW nd, NEW s, Deleting(c), StackRight(c, side, t, nd, s), s # <<>>, s[1].fn = "del",
           NEW w, NEW nd2, NEW n, Fewer(t, nd, w, nd2, n),
           NEW f, Shrunk(c, side, s, w, nd2, n, f)
    PROVE  StackRight(c, side, w, nd2, <<f>> \o Tail(s))
  BY DelAnswers DEF Shrunk

\* A file is deleted, or left.
LEMMA DoingDelFile ==
    ASSUME Doing, DelFile
    PROVE  WalkInv'
  <1>1. /\ More(Top) /\ ~Special(Top) /\ ~IsDir(Here.id)
        /\ \/ Erased(Here) /\ Answer({"got"}) /\ Changed
           \/ Protected(Here) /\ Answer({"err"}) /\ Pure
    BY DEF DelFile, Leaf, Special
  <1>2. Seen /\ stack # <<>> /\ Top = stack[1] /\ Top.fn \in {"path", "del"}
    BY <1>1, DoingSeen, DoingIs
  <1>3. {"got"} \in Ones /\ {"err"} \in Ones
    BY DEF Ones
  <1>4. CASE Answer({"err"}) /\ Pure
    <2>1. CASE Top.fn = "del"
      BY <1>1, <1>4, <2>1, DelRefused
    <2>2. CASE Top.fn # "del"
      <3>1. StackRight(cmd, job.side, tree', node', stack')
        BY <1>1, <1>3, <1>4, <2>2, DoingAnswers
      <3>2. tree' = tree /\ node' = node
        BY <1>4 DEF Pure, fs, disk
      <3>3. StackRight(cmd, job.side, tree, node, stack')
        BY <3>1, <3>2
      <3> QED BY <1>4, <3>3, DoingPure
    <2> QED BY <2>1, <2>2
  <1>5. CASE Erased(Here) /\ Answer({"got"}) /\ Changed
    <2> DEFINE n == Here.id
               d == Here.dir
               i == Here.slot
               w == tree'
               nd2 == node'
               s2 == stack'
               g == Onward
               f == Add(g, {"got"})
    <2>1. ~IsDir(n) /\ n \in Dirs
      BY <1>1, <1>2 DEF Seen, EntryAt
    <2>2. ~LiveDir(node, n)
      BY <2>1, IsDirIs
    <2>3. n # Root
      BY <2>2 DEF LiveDir
    <2>4. n \in Nodes /\ Place(tree, d, i, n) /\ d \in Dirs
      BY <1>2, <2>3 DEF Seen, EntryAt
    <2>5. node[n].kind # "dir"
      BY <2>2, <2>4 DEF LiveDir
    <2>6. w = Wiped(tree, d, i) /\ nd2 = [node EXCEPT ![n] = NoNode]
      BY <1>5 DEF Erased
    <2>7. host' = host /\ cwd' = cwd /\ job' = job /\ cmd' = cmd
      BY <1>5 DEF Changed, DiskChanged, Same
    <2>8. s2 = <<f>> \o Tail(stack)
      BY <1>5 DEF Answer
    <2>12. Top.fn = "del" =>
              /\ DelLoop(cmd, job.side, tree, node, g) /\ g.dir = Top.dir /\ g.pos > 1
              /\ Place(tree, g.dir, NextSlot(Top), n)
              /\ \A j \in Slots(tree, g.dir) : j >= g.pos \/ j = NextSlot(Top)
      <3> HAVE Top.fn = "del"
      <3>1. /\ DelLoop(cmd, job.side, tree, node, Onward) /\ Onward.dir = Top.dir /\ Onward.pos > 1
            /\ Place(tree, Top.dir, NextSlot(Top), Here.id)
            /\ \A j \in Slots(tree, Top.dir) : j >= Onward.pos \/ j = NextSlot(Top)
        BY <1>1, DelOnward
      <3> QED BY <3>1
    <2> HIDE DEF n, d, i, w, nd2, g
    <2>9. Leaving(tree, node, d, i, n)
      <3>1. Slots(tree, n) = {}
        BY <2>4, <2>5, LeafIs DEF Doing, TreeRight
      <3> QED BY <2>4, <3>1 DEF Doing, Leaving, Place
    <2>10. Fewer(tree, node, w, nd2, n)
      BY <2>6, <2>9, OneFewer
    <2>11. TreeRight(w, nd2)
      BY <2>10 DEF Fewer
    <2>13. StackRight(cmd, job.side, w, nd2, s2)
      <3>1. CASE Top.fn = "del"
        <4> DEFINE m == NextSlot(Top)
        <4>1. stack[1].fn = "del" /\ g.dir = stack[1].dir
          BY <1>2, <2>12, <3>1
        <4>2. /\ DelLoop(cmd, job.side, tree, node, g) /\ g.pos > 1 /\ Place(tree, g.dir, m, n)
              /\ \A j \in Slots(tree, g.dir) : j >= g.pos \/ j = m
          BY <2>12, <3>1
        <4>3. Deleting(cmd) /\ StackRight(cmd, job.side, tree, node, stack)
          BY DEF Doing
        <4> HIDE DEF m, s2, f
        <4>4. f = Add(g, {"got"})
          BY DEF f
        <4>5. Shrunk(cmd, job.side, stack, w, nd2, n, f)
          BY <1>2, <2>4, <2>5, <2>10, <4>1, <4>2, <4>3, <4>4, DelShrinks
        <4>6. StackRight(cmd, job.side, w, nd2, <<f>> \o Tail(stack))
          BY <1>2, <2>10, <4>1, <4>3, <4>5, DelGone
        <4> QED BY <2>8, <4>6
      <3>2. CASE Top.fn # "del"
        BY <1>1, <1>3, <1>5, <3>2, DoingAnswers DEF w, nd2
      <3> QED BY <3>1, <3>2
    <2> QED BY <2>7, <2>11, <2>13, DoingSettled DEF w, nd2
  <1> QED BY <1>1, <1>4, <1>5

\* A directory is to be deleted: what is in it comes first.
LEMMA DoingDelDir ==
    ASSUME Doing, DelDir
    PROVE  WalkInv'
  <1> DEFINE n == Here.id
             at == Here
             p == <<Star>>
             g == Frame("del", n, p, None, at)
             f == Onward
             s2 == stack'
             m == NextSlot(Top)
  <1>1. More(Top) /\ ~Special(Top) /\ IsDir(Here.id) /\ Call(Frame("del", Here.id, <<Star>>, None, Here)) /\ Pure
    BY DEF DelDir, Leaf, Special
  <1>2. Seen /\ stack # <<>> /\ Top = stack[1] /\ Top.fn \in {"path", "del"} /\ Top.pos \in Nat
    BY <1>1, DoingSeen, DoingIs, FrameIs
  <1>3. s2 = <<g, f>> \o Tail(stack)
    BY <1>1 DEF Call
  <1>4. /\ n \in Dirs /\ at \in EntryAt /\ at.id = n /\ LiveDir(node, n)
        /\ n # Root => n \in Nodes /\ Place(tree, at.dir, at.slot, n)
    BY <1>1, <1>2 DEF Seen, EntryAt
  <1>5. p \in Path
    BY NamesAre DEF Path
  <1>6. Top.fn = "del" =>
            /\ DelLoop(cmd, job.side, tree, node, f) /\ f.dir = Top.dir /\ f.pos > 1
            /\ n \in Nodes /\ Place(tree, f.dir, m, n) /\ m \in Nat
            /\ \A j \in Slots(tree, f.dir) : j >= f.pos \/ j = m
    <2> HAVE Top.fn = "del"
    <2>1. /\ DelLoop(cmd, job.side, tree, node, Onward) /\ Onward.dir = Top.dir /\ Onward.pos > 1
          /\ Here.id \in Nodes /\ Place(tree, Top.dir, NextSlot(Top), Here.id) /\ NextSlot(Top) \in Nat
          /\ \A j \in Slots(tree, Top.dir) : j >= Onward.pos \/ j = NextSlot(Top)
      BY <1>1, DelOnward
    <2> QED BY <2>1
  <1>7. Top.fn # "del" => GoesDown(node, f) /\ f.pos > 1
    BY <1>1, <1>2, DoingOnward
  <1>8. Deleting(cmd) /\ StackRight(cmd, job.side, tree, node, stack) /\ TreeRight(tree, node) /\ cmd.op # "mcopy"
    BY DoingIs DEF Doing
  <1>9. p = <<Star>>
    OBVIOUS
  <1> HIDE DEF n, at, p, f, s2, m
  <1>10. /\ g \in Frames /\ g.fn = "del" /\ g.dir = n /\ g.comps = p /\ g.pos = 1 /\ g.ret = {} /\ g.to = None
         /\ g.at = at
    BY <1>4, <1>5, <1>8, PlainFrame
  <1> HIDE DEF g
  <1>11. FrameRight(cmd, job.side, tree, node, g)
    <2>1. "stop" \notin g.ret /\ g.pos >= 1
      BY <1>10
    <2> QED BY <1>4, <1>8, <1>9, <1>10, <2>1 DEF FrameRight, Target, Walks, Deletion
  <1>12. DelLoop(cmd, job.side, tree, node, g)
    BY <1>10, <1>11 DEF DelLoop
  <1>13. StackRight(cmd, job.side, tree, node, s2)
    <2>1. CASE Top.fn = "del"
      <3>1. stack[1].fn = "del" /\ f.dir = stack[1].dir
        BY <1>2, <1>6, <2>1
      <3>2. DelLoop(cmd, job.side, tree, node, f) /\ f.pos > 1 /\ g.dir \in Nodes /\ m \in Nat /\ Place(tree, f.dir, m, g.dir)
        BY <1>6, <1>10, <2>1
      <3>3. Behind(tree, f, g.dir)
        BY <1>6, <2>1, <3>2 DEF Behind
      <3> QED BY <1>2, <1>3, <1>8, <1>10, <1>12, <3>1, <3>2, <3>3, DelCalls
    <2>2. CASE Top.fn # "del"
      <3>1. Down(node, stack)
        BY <2>2, DoingDown
      <3> QED BY <1>3, <1>7, <1>8, <1>10, <1>12, <2>2, <3>1, DownDeletes
    <2> QED BY <2>1, <2>2
  <1> QED BY <1>1, <1>13, DoingPure DEF s2

\* What a loop that deletes returns to.
LEMMA DoingReturns ==
    ASSUME Doing, Top.fn = "del", NEW w, NEW nd2, NEW n, Fewer(tree, node, w, nd2, n),
           n \in {None, Top.dir}, NEW r \in Ones, "stop" \notin r, (r = {"got"} /\ n = Top.dir) \/ "err" \in r,
           Return(r)
    PROVE  StackRight(cmd, job.side, w, nd2, stack')
  <1> DEFINE h == stack[2]
             f == Add(h, r)
             s2 == stack'
             c == cmd
             side == job.side
             s == stack
  <1>1. /\ Len(s) > 1 /\ s[1].fn = "del" /\ s[1] = Top /\ 1 \in DOMAIN s /\ Len(s) \in Nat
        /\ DOMAIN s = 1 .. Len(s) /\ s \in Seq(Frames) /\ Top.dir \in Dirs
    BY DelTopIs, DoingIs
  <1>2. 2 \in DOMAIN s /\ h = s[2]
    BY <1>1
  <1>3. Deleting(c) /\ StackRight(c, side, tree, node, s)
    BY DEF Doing
  <1>4. s2 = Back(s, f)
    BY DEF Return, Back
  <1>5. h \in Frames /\ FrameRight(c, side, tree, node, h) /\ h.pos > 1
    <2>1. 2 > 1
      OBVIOUS
    <2> QED BY <1>2, <2>1, DoingIs
  <1>6. \A k \in DOMAIN s : k # 1 /\ s[k].fn = "del" => s[k].dir # n
    <2> SUFFICES ASSUME NEW k \in DOMAIN s, k # 1, s[k].fn = "del" PROVE s[k].dir # n
      OBVIOUS
    <2>1. 1 < k
      BY <1>1
    <2>2. s[1].dir # s[k].dir
      BY <1>1, <1>3, <2>1 DEF StackRight, Chain
    <2>3. s[k] \in Frames
      BY <1>1
    <2>4. s[k].dir # None
      BY <2>3, FrameIs, NodesAre
    <2> QED BY <1>1, <2>2, <2>4
  <1>7. r \in SUBSET Results
    BY OnesAre
  <1>8. r = {"got"} => r \ {"got"} = {}
    OBVIOUS
  <1>9. "err" \in r => "err" \in r \ {"got"}
    OBVIOUS
  <1> HIDE DEF h, s2, c, side, s
  <1>10. FrameRight(c, side, w, nd2, h)
    <2>1. (h.fn = "del" => h.dir # n) /\ h.pos # 1
      BY <1>2, <1>5, <1>6
    <2> QED BY <1>3, <1>5, <2>1, FrameKept
  <1>11. /\ FrameRight(c, side, w, nd2, f) /\ f \in Frames /\ f.fn = h.fn /\ f.dir = h.dir /\ f.pos = h.pos
         /\ f.ret = h.ret \cup (IF f.fn = "del" THEN r \ {"got"} ELSE r)
    BY <1>5, <1>7, <1>10, AddRight
  <1> HIDE DEF f
  <1>12. f.fn = "del" => "err" \in f.ret \/ (f.ret = s[2].ret /\ s[1].dir = n)
    <2> HAVE f.fn = "del"
    <2>1. f.ret = h.ret \cup (r \ {"got"})
      BY <1>11
    <2>2. CASE r = {"got"} /\ n = Top.dir
      BY <1>1, <1>2, <1>8, <2>1, <2>2
    <2>3. CASE "err" \in r
      BY <1>8, <2>1, <2>3
    <2> QED BY <2>2, <2>3
  <1>13. FrameRight(c, side, w, nd2, f) /\ f \in Frames /\ f.fn = s[2].fn /\ f.dir = s[2].dir /\ f.pos = s[2].pos
    BY <1>2, <1>11
  <1>14. StackRight(c, side, w, nd2, s2)
    BY <1>1, <1>3, <1>4, <1>6, <1>12, <1>13, DelReturns
  <1> QED BY <1>14 DEF c, side, s2

\* A directory is empty now and goes, or it is left.
LEMMA DoingEndDel ==
    ASSUME Doing, EndDel
    PROVE  WalkInv'
  <1>1. Top.fn = "del" /\ ~More(Top)
    BY DEF EndDel
  <1>2. {"got"} \in Ones /\ {"err"} \in Ones /\ "stop" \notin {"got"} /\ "stop" \notin {"err"} /\ "err" \in {"err"}
    BY DEF Ones
  <1>3. /\ Top.dir \in Dirs /\ LiveDir(node, Top.dir) /\ Top.at \in EntryAt /\ Top.at.id = Top.dir /\ "stop" \notin Top.ret
        /\ Top.dir # Root => Place(tree, Top.at.dir, Top.at.slot, Top.dir)
        /\ Ahead(Top) = {j \in Slots(tree, Top.dir) : j >= Top.pos}
        /\ "err" \notin Top.ret => \A i \in Slots(tree, Top.dir) : i >= Top.pos
    BY <1>1, DelTopIs
  <1>4. TreeRight(tree, node)
    BY DEF Doing
  <1>5. CASE Emptied(Top) /\ Top.dir # Root /\ Erased(Top.at) /\ Return({"got"}) /\ Changed
    <2> DEFINE n == Top.dir
               d == Top.at.dir
               i == Top.at.slot
               w == tree'
               nd2 == node'
    <2>1. Slots(tree, n) = {}
      <3>1. ~signal /\ "err" \notin Top.ret
        BY <1>5 DEF Emptied
      <3>2. Goes(Top)
        BY <1>1, <1>3, <3>1 DEF Goes
      <3>3. Ahead(Top) = {}
        BY <1>1, <3>2 DEF More
      <3> QED BY <1>3, <3>1, <3>3
    <2>2. n \in Nodes /\ Place(tree, d, i, n) /\ d \in Dirs
      BY <1>3, <1>5 DEF Dirs, EntryAt
    <2>3. w = Wiped(tree, d, i) /\ nd2 = [node EXCEPT ![n] = NoNode]
      BY <1>3, <1>5 DEF Erased
    <2>4. host' = host /\ cwd' = cwd /\ job' = job /\ cmd' = cmd
      BY <1>5 DEF Changed, DiskChanged, Same
    <2>5. n = Top.dir
      OBVIOUS
    <2> HIDE DEF n, d, i, w, nd2
    <2>6. Leaving(tree, node, d, i, n)
      BY <1>4, <2>1, <2>2 DEF Leaving, Place
    <2>7. Fewer(tree, node, w, nd2, n)
      BY <2>3, <2>6, OneFewer
    <2>8. TreeRight(w, nd2)
      BY <2>7 DEF Fewer
    <2>9. StackRight(cmd, job.side, w, nd2, stack')
      BY <1>1, <1>2, <1>5, <2>5, <2>7, DoingReturns
    <2> QED BY <2>4, <2>8, <2>9, DoingSettled DEF w, nd2
  <1>6. CASE Return({"err"}) /\ Pure
    <2> DEFINE n == None
    <2>1. Fewer(tree, node, tree, node, n) /\ n \in {None, Top.dir}
      BY <1>4, NoneFewer
    <2> HIDE DEF n
    <2>2. StackRight(cmd, job.side, tree, node, stack')
      BY <1>1, <1>2, <1>6, <2>1, DoingReturns
    <2> QED BY <1>6, <2>2, DoingPure
  <1> QED BY <1>5, <1>6 DEF EndDel

-----------------------------------------------------------------------------
(* Every step                                                               *)

\* No other callback is called while a directory is deleted.
LEMMA DoingStep ==
    ASSUME Doing, Step
    PROVE  Descend \/ DelFile \/ DelDir \/ NotEmpty \/ EndDel \/ EndPath \/ EndArg
  <1>1. cmd.op \in Deletes /\ Top.fn \in {"path", "del"}
    BY DoingIs
  <1>2. cmd.op \in {"mdel", "mrd", "mdeltree"}
    BY <1>1 DEF Deletes
  <1>3. job.held = None
    <2>1. stack # <<>> /\ cmd.op # "mcopy"
      BY <1>2, DoingIs
    <2> QED BY <2>1 DEF Doing, JobRight
  <1>8. ~AtHost /\ \A kind : ~AtItem(kind)
    BY <1>1, <1>2 DEF AtHost, AtItem, Leaf
  <1>4. ~Mmd /\ ~McopyFile /\ ~Defer /\ ~McopyDir
    <2>1. ~Leaf({"mmd"}, "dir") /\ ~Leaf({"mcopy"}, "file")
      BY <1>2 DEF Leaf
    <2> QED BY <1>8, <2>1 DEF Mmd, McopyFile, Defer, McopyDir
  <1>5. ~Rename /\ ~MoveRefused /\ ~Abort
    BY <1>2 DEF Rename, MoveRefused, Abort, Leaf
  <1>6. ~Attrib /\ ~MduFile /\ ~MduDir /\ ~Mcd
    BY <1>2 DEF Attrib, MduFile, MduDir, Mcd, Leaf
  <1>7. ~EndLoop /\ ~McopyHeld
    BY <1>1, <1>3 DEF EndLoop, McopyHeld
  <1>9. ~HostSkip /\ ~ToHostFile /\ ~ToHostDir /\ ~EndHost
    BY <1>1, <1>8 DEF HostSkip, ToHostFile, ToHostDir, EndHost
  <1> QED BY <1>4, <1>5, <1>6, <1>7, <1>9 DEF Step

\* Nothing is deleted unless the command deletes.
LEMMA QuietStep ==
    ASSUME Quietly, Step
    PROVE  ~DelFile /\ ~DelDir /\ ~NotEmpty /\ ~EndDel
  <1>1. cmd.op \notin Deletes /\ Top.fn # "del"
    BY QuietIs DEF Deleting, Sane
  <1> QED BY <1>1 DEF DelFile, DelDir, NotEmpty, EndDel, Leaf

\* A step that changes nothing the invariant is about.
LEMMA Untouched ==
    ASSUME WalkInv, UNCHANGED <<tree, node, cwd, host, cmd, job, stack>>
    PROVE  WalkInv'
  <1>1. /\ tree' = tree /\ node' = node /\ cwd' = cwd /\ host' = host /\ cmd' = cmd /\ job' = job
        /\ stack' = stack
    OBVIOUS
  <1> QED BY <1>1 DEF WalkInv

\* The disk is right before the command.
LEMMA WalkStarts ==
    ASSUME WalkInit
    PROVE  WalkInv
  <1>1. PICK b \in Disks : tree = b.tree /\ node = b.node /\ cwd = b.cwd /\ host = b.host
    BY DEF WalkInit
  <1>2. Typed(tree, node) /\ IsTree(tree, node) /\ HostTyped(host) /\ cwd \in Path
    BY <1>1, DisksAssumption
  <1>3. TreeRight(tree, node)
    BY <1>2, TreeIsRight
  <1>4. stack = <<>>
    BY DEF WalkInit
  <1>5. StackRight(cmd, job.side, tree, node, stack)
    BY <1>4, NothingRuns
  <1>6. JobRight(cmd, job, node, stack)
    <2>1. <<>> \in Path
      BY DEF Path
    <2>2. NoName \in Name
      BY NamesAre
    <2>3. job = [arg |-> 0, side |-> "dos", target |-> None, out |-> <<>>, name |-> NoName, held |-> None,
                 ret |-> {}, printed |-> {}, phase |-> "idle"]
      BY DEF WalkInit
    <2>4. job \in Jobs /\ job.target = None
      BY <2>1, <2>2, <2>3 DEF Jobs
    <2> QED BY <1>4, <2>4 DEF JobRight
  <1> QED BY <1>2, <1>3, <1>5, <1>6 DEF WalkInv

\* Only an active loop takes a step.
LEMMA StepRuns == Step => Running
  BY DEF Step, Descend, Mmd, McopyFile, Defer, McopyDir, Rename, MoveRefused, Abort, DelFile, DelDir, NotEmpty,
         EndDel, Attrib, MduFile, MduDir, Mcd, EndPath, EndLoop, McopyHeld, EndArg, HostSkip, ToHostFile, ToHostDir,
         EndHost, Leaf, AtItem, AtHost

\* Every step of a walk keeps the invariant.
LEMMA StepKeeps ==
    ASSUME WalkInv, Step
    PROVE  WalkInv'
  <1>1. Running
    BY StepRuns
  <1>2. CASE Deleting(cmd)
    <2>1. Doing
      BY <1>1, <1>2 DEF WalkInv, Doing
    <2>2. Descend \/ DelFile \/ DelDir \/ NotEmpty \/ EndDel \/ EndPath \/ EndArg
      BY <2>1, DoingStep
    <2> QED BY <2>1, <2>2, DoingDescend, DoingDelFile, DoingDelDir, DoingNotEmpty, DoingEndDel, DoingEndPath, NextArg
  <1>3. CASE ~Deleting(cmd)
    <2>1. Quietly
      BY <1>1, <1>3, CalmIs DEF WalkInv, Quietly
    <2>2. ~DelFile /\ ~DelDir /\ ~NotEmpty /\ ~EndDel
      BY <2>1, QuietStep
    <2>3. CASE Descend \/ Mmd \/ McopyFile \/ Defer \/ McopyDir \/ Rename \/ MoveRefused \/ Abort
      BY <2>1, <2>3, QuietDescend, QuietMmd, QuietMcopyFile, QuietDefer, QuietMcopyDir, QuietRename,
         QuietMoveRefused, QuietAbort
    <2>4. CASE Attrib \/ MduFile \/ MduDir \/ Mcd \/ EndPath \/ EndLoop \/ McopyHeld \/ EndArg
      BY <2>1, <2>4, QuietAttrib, QuietMduFile, QuietMduDir, QuietMcd, QuietEndPath, QuietEndLoop,
         QuietMcopyHeld, NextArg
    <2>5. CASE HostSkip \/ ToHostFile \/ ToHostDir \/ EndHost
      BY <2>1, <2>5, QuietHostSkip, QuietToHostFile, QuietToHostDir, QuietEndHost
    <2> QED BY <2>2, <2>3, <2>4, <2>5 DEF Step
  <1> QED BY <1>2, <1>3

\* The model ends where an entry that a failed copy has left would be read.
LEMMA LeftOff ==
    ASSUME WalkInv, LeaveOff
    PROVE  WalkInv'
  <1>1. /\ tree' = tree /\ node' = node /\ host' = host /\ cwd' = cwd /\ cmd' = cmd
        /\ stack' = <<>> /\ job' = [job EXCEPT !.phase = "beyond"]
    BY DEF LeaveOff, Same, fs, disk
  <1>2. JobRight(cmd, job, node, stack) /\ job \in Jobs
    BY DEF WalkInv, JobRight
  <1>3. job' \in Jobs /\ job'.target = job.target
    BY <1>1, <1>2 DEF Jobs
  <1>4. JobRight(cmd, job', node', stack')
    BY <1>1, <1>2, <1>3 DEF JobRight
  <1>5. StackRight(cmd, job'.side, tree', node', stack')
    BY <1>1, NothingRuns
  <1> QED BY <1>1, <1>4, <1>5 DEF WalkInv

LEMMA WalkGoesOn ==
    ASSUME WalkInv, Walk
    PROVE  WalkInv'
  BY StepKeeps, LeftOff DEF Walk

(***************************************************************************)
(* The inductive invariant: the tree is right, and every active loop of    *)
(* the walk still has a directory to go on with, however much its own      *)
(* callbacks have written, moved and deleted since it was called.          *)
(***************************************************************************)
THEOREM WalkInvAlways == WalkSpec => []WalkInv
  <1>1. WalkInit => WalkInv
    BY WalkStarts
  <1>2. WalkInv /\ [WalkNext]_walkVars => WalkInv'
    <2> SUFFICES ASSUME WalkInv, [WalkNext]_walkVars PROVE WalkInv'
      OBVIOUS
    <2>1. CASE Start
      BY <2>1, Started
    <2>2. CASE Interrupt
      <3>1. UNCHANGED <<tree, node, cwd, host, cmd, job, stack>>
        BY <2>2 DEF Interrupt, fs, disk
      <3> QED BY <3>1, Untouched
    <2>3. CASE Walk
      BY <2>3, WalkGoesOn
    <2>4. CASE Over \/ UNCHANGED walkVars
      <3>1. UNCHANGED <<tree, node, cwd, host, cmd, job, stack>>
        BY <2>4 DEF Over, walkVars
      <3> QED BY <3>1, Untouched
    <2> QED BY <2>1, <2>2, <2>3, <2>4 DEF WalkNext
  <1> QED BY <1>1, <1>2, PTL DEF WalkSpec

-----------------------------------------------------------------------------
(* What failed copies leave behind                                          *)

\* The entries that no file of the tree has: only mcopy makes them, each in a
\* directory that stays, in a slot where no entry of the tree is.
Apart(S, t, nd) == \A x \in S : LiveDir(nd, x.dir) /\ x.slot \notin Slots(t, x.dir)
StraysInv ==
    /\ strays # {} => cmd.op = "mcopy" /\ job.phase # "idle"
    /\ Apart(strays, tree, node)

\* A new entry covers what was left in its slot.
LEMMA CoversStray ==
    ASSUME TreeRight(tree, node), NEW d \in Dirs, NEW nm \in Name, NEW source, NEW w \in Chosen(d, nm, source, {}),
           NEW e \in SlotType, e # Free, tree' = Put(Wiped(tree, d, w.victim), d, w.slot, e),
           Apart(strays, tree, node), strays' = Spared(d, w.slot), NoDirLost(node, node')
    PROVE  Apart(strays', tree', node')
  <1> DEFINE t == Wiped(tree, d, w.victim)
             nd == Freed(node, d, w.victim)
             i == w.slot
             none == {}
  <1>1. w \in Chosen(d, nm, source, none) /\ none = {}
    OBVIOUS
  <1>2. t = Wiped(tree, d, w.victim) /\ nd = Freed(node, d, w.victim) /\ tree' = Put(t, d, i, e)
        /\ strays' = Spared(d, i)
    OBVIOUS
  <1> HIDE DEF t, nd, none
  <1>3. Vacant(d, source, none, w, t, nd)
    BY <1>1, <1>2, Cleared
  <1>4. /\ t \in TreeType /\ i \in 1 .. MaxSlots /\ i <= Len(t[d]) + 1 /\ (i <= Len(t[d]) => t[d][i] = Free)
        /\ \A x \in Dirs : Slots(t, x) \subseteq Slots(tree, x)
    BY <1>1, <1>3, TypedIs DEF Vacant, TreeRight
  <1> HIDE DEF i
  <1>5. i \in Nat /\ 1 <= i
    BY <1>4, NodesAssumption
  <1>6. \A x \in Dirs : Slots(tree', x) = IF x = d THEN Slots(t, d) \cup {i} ELSE Slots(t, x)
    <2> DEFINE u == tree'
    <2>1. u = Put(t, d, i, e)
      BY <1>2
    <2> HIDE DEF u
    <2>2. \A x \in Dirs : Slots(u, x) = IF x = d THEN Slots(t, d) \cup {i} ELSE Slots(t, x)
      BY <1>4, <1>5, <2>1, PutIs
    <2> QED BY <2>2 DEF u
  <1> SUFFICES ASSUME NEW x \in strays' PROVE LiveDir(node', x.dir) /\ x.slot \notin Slots(tree', x.dir)
    BY DEF Apart
  <1>7. x \in strays /\ (x.dir # d \/ x.slot # i)
    BY <1>2 DEF Spared
  <1>8. LiveDir(node, x.dir) /\ x.slot \notin Slots(tree, x.dir) /\ x.dir \in Dirs
    BY <1>7, NodesAre DEF Apart, LiveDir
  <1> QED BY <1>4, <1>6, <1>7, <1>8 DEF NoDirLost

\* writeit and makeit write entries.
LEMMA WriterCovers ==
    ASSUME TreeRight(tree, node), NEW d \in Dirs, LiveDir(node, d), NEW nm \in Name, NEW source, NEW w, NEW n,
           NEW data \in Nat, CopiesFile(data, d, nm, source, w, n) \/ MakesDir(d, nm, source, w, n),
           Apart(strays, tree, node)
    PROVE  Apart(strays', tree', node')
  <1>1. NoDirLost(node, node')
    BY CopiedFile, MadeDir
  <1>2. w \in Chosen(d, nm, source, {}) /\ n \in Nodes
    <2> DEFINE none == {}
               nd == Freed(node, d, w.victim)
               t == Wiped(tree, d, w.victim)
    <2>1. w \in Chosen(d, nm, source, none) /\ none = {} /\ n = Least(Unused(nd))
      BY DEF CopiesFile, MakesDir
    <2>2. Unused(nd) # {} \/ Unused(node) # {}
      BY DEF CopiesFile, MakesDir
    <2>3. t = Wiped(tree, d, w.victim) /\ nd = Freed(node, d, w.victim)
      OBVIOUS
    <2> HIDE DEF none, nd, t
    <2>4. Vacant(d, source, none, w, t, nd)
      BY <2>1, <2>3, Cleared
    <2>5. Typed(t, nd) /\ Live(nd) \subseteq Live(node)
      BY <2>4 DEF Vacant, TreeRight
    <2>6. Typed(tree, node) /\ nd \in [Nodes -> NodeType] /\ node \in [Nodes -> NodeType]
      BY <2>5, NodeTypeIs DEF TreeRight
    <2>7. Unused(nd) # {}
      <3>1. \A m \in Nodes : m \notin Live(node) => m \notin Live(nd)
        BY <2>5
      <3> QED BY <2>2, <2>6, <3>1 DEF Unused, Live
    <2> QED BY <2>1, <2>5, <2>7, UnusedIs
  <1> DEFINE e == Entry(w.name, n, FALSE)
  <1>3. w.name \in Name
    BY <1>2, ChosenIs
  <1>4. e \in SlotType /\ e # Free
    <2>1. e \in SlotType /\ e.id \in Nodes
      BY <1>2, <1>3, EntryIs
    <2> HIDE DEF e
    <2> QED BY <2>1, FreeIs, NodesAre
  <1>5. tree' = Put(Wiped(tree, d, w.victim), d, w.slot, e) /\ strays' = Spared(d, w.slot)
    BY DEF CopiesFile, MakesDir
  <1> HIDE DEF e
  <1> QED BY <1>1, <1>2, <1>4, <1>5, CoversStray

\* A copy that fails leaves its entry where the tree has none.
LEMMA CutLeaves ==
    ASSUME TreeRight(tree, node), NEW d \in Dirs, LiveDir(node, d), NEW nm \in Name, NEW source,
           CopyFails(d, nm, source) \/ CopyCut(d, nm, source), Apart(strays, tree, node)
    PROVE  Apart(strays', tree', node')
  <1>1. \E w \in Chosen(d, nm, source, {}) :
           /\ tree' = Wiped(tree, d, w.victim) /\ node' = Freed(node, d, w.victim)
           /\ \A x \in strays' : x \in strays \/ (x.dir = d /\ x.slot = w.slot)
    BY DEF CopyFails, CopyCut, Spared
  <1> DEFINE none == {}
  <1>2. PICK w \in Chosen(d, nm, source, none) :
           /\ tree' = Wiped(tree, d, w.victim) /\ node' = Freed(node, d, w.victim)
           /\ \A x \in strays' : x \in strays \/ (x.dir = d /\ x.slot = w.slot)
    BY <1>1
  <1>3. none = {}
    OBVIOUS
  <1> HIDE DEF none
  <1> DEFINE t == tree'
             nd == node'
  <1>4. t = Wiped(tree, d, w.victim) /\ nd = Freed(node, d, w.victim)
    BY <1>2
  <1> HIDE DEF t, nd
  <1>5. Vacant(d, source, none, w, t, nd)
    BY <1>2, <1>4, Cleared
  <1>6. /\ NoDirLost(node, nd) /\ t \in TreeType /\ w.slot \in 1 .. MaxSlots
        /\ (w.slot <= Len(t[d]) => t[d][w.slot] = Free) /\ \A x \in Dirs : Slots(t, x) \subseteq Slots(tree, x)
    BY <1>3, <1>5, TypedIs DEF Vacant, TreeRight
  <1>7. w.slot \notin Slots(t, d)
    BY <1>6 DEF Slots
  <1> SUFFICES ASSUME NEW x \in strays' PROVE LiveDir(nd, x.dir) /\ x.slot \notin Slots(t, x.dir)
    BY DEF Apart, t, nd
  <1>8. CASE x \in strays
    <2>1. LiveDir(node, x.dir) /\ x.slot \notin Slots(tree, x.dir) /\ x.dir \in Dirs
      BY <1>8, NodesAre DEF Apart, LiveDir
    <2> QED BY <1>6, <2>1 DEF NoDirLost
  <1>9. CASE x.dir = d /\ x.slot = w.slot
    BY <1>6, <1>7, <1>9 DEF NoDirLost
  <1> QED BY <1>2, <1>8, <1>9

\* What mcopy does to the disk keeps apart what failed copies have left.
LEMMA CopyKeepsApart ==
    ASSUME Quietly, Apart(strays, tree, node), McopyFile \/ McopyDir \/ McopyHeld
    PROVE  Apart(strays', tree', node')
  <1>1. ASSUME tree' = tree, node' = node, strays' = strays PROVE Apart(strays', tree', node')
    BY <1>1
  <1>2. TreeRight(tree, node)
    BY DEF Quietly
  <1>3. CASE McopyFile
    <2> DEFINE d == Top.to
               nm == ItemName
               source == ItemSlot(d)
               data == ItemData
    <2>1. AtItem("file") /\ job.side = "dos"
      BY <1>3 DEF McopyFile
    <2>2. nm \in Name /\ data \in Nat /\ More(Top) /\ Copying(cmd)
      BY <2>1, ItemIs
    <2>3. d \in Dirs /\ LiveDir(node, d)
      BY <2>1, <2>2, ToIs
    <2>4. \/ \E w \in Chosen(d, nm, source, {}), n \in Nodes : CopiesFile(data, d, nm, source, w, n)
          \/ CopyFails(d, nm, source) \/ CopyCut(d, nm, source)
          \/ tree' = tree /\ node' = node /\ strays' = strays
      BY <1>3 DEF McopyFile, Pure, fs, disk
    <2> HIDE DEF d, nm, source, data
    <2> QED BY <1>1, <1>2, <2>2, <2>3, <2>4, WriterCovers, CutLeaves
  <1>4. CASE McopyDir
    <2> DEFINE d == Top.to
               nm == ItemName
               source == ItemSlot(d)
               zero == 0
    <2>1. AtItem("dir") /\ job.side = "dos"
      BY <1>4 DEF McopyDir
    <2>2. nm \in Name /\ More(Top) /\ Copying(cmd) /\ zero \in Nat
      BY <2>1, ItemIs
    <2>3. d \in Dirs /\ LiveDir(node, d)
      BY <2>1, <2>2, ToIs
    <2>4. \/ \E w \in Chosen(d, nm, source, {}), n \in Nodes : MakesDir(d, nm, source, w, n)
          \/ tree' = tree /\ node' = node /\ strays' = strays
      BY <1>4 DEF McopyDir, Pure, fs, disk
    <2> HIDE DEF d, nm, source, zero
    <2> QED BY <1>1, <1>2, <2>2, <2>3, <2>4, WriterCovers
  <1>5. CASE McopyHeld
    <2> DEFINE d == job.target
               nm == job.name
               data == node[job.held].data
               zero == 0
    <2>1. JobRight(cmd, job, node, stack) /\ job \in Jobs /\ stack # <<>> /\ job.held # None
      BY <1>5, QuietIs DEF Quietly, McopyHeld
    <2>2. cmd.op = "mcopy" /\ job.held \in Nodes /\ nm \in Name /\ (job.side = "dos" => d \in Dirs /\ LiveDir(node, d))
      BY <2>1 DEF JobRight, Jobs
    <2>3. data \in Nat
      <3>1. node \in [Nodes -> NodeType]
        BY <1>2, NodeTypeIs DEF TreeRight
      <3> QED BY <2>2, <3>1 DEF NodeType
    <2>4. \/ /\ job.side = "dos"
             /\ \/ \E w \in Chosen(d, nm, zero, {}), n \in Nodes : CopiesFile(data, d, nm, zero, w, n)
                \/ CopyFails(d, nm, zero) \/ CopyCut(d, nm, zero)
          \/ tree' = tree /\ node' = node /\ strays' = strays
      BY <1>5 DEF McopyHeld, disk
    <2> HIDE DEF d, nm, data, zero
    <2> QED BY <1>1, <1>2, <2>2, <2>3, <2>4, WriterCovers, CutLeaves
  <1> QED BY <1>3, <1>4, <1>5

\* No other step of mcopy changes the disk.
LEMMA OnlyCopies ==
    ASSUME Quietly, Walk, cmd.op = "mcopy"
    PROVE  McopyFile \/ McopyDir \/ McopyHeld \/ UNCHANGED <<tree, node, strays>>
  <1>1. ~DelFile /\ ~DelDir /\ ~NotEmpty /\ ~EndDel
    <2>1. Top.fn # "del"
      BY QuietIs DEF Sane
    <2> QED BY <2>1 DEF DelFile, DelDir, NotEmpty, EndDel, Leaf, Deletes
  <1>2. ~Mmd /\ ~Rename /\ ~Attrib
    BY DEF Mmd, Rename, Attrib, Leaf
  <1>3. CASE Descend \/ Defer \/ MoveRefused \/ Abort \/ LeaveOff
    BY <1>3 DEF Descend, Defer, MoveRefused, Abort, LeaveOff, Pure, fs, disk
  <1>4. CASE MduFile \/ MduDir \/ Mcd \/ EndPath \/ EndLoop \/ EndArg
    BY <1>4 DEF MduFile, MduDir, Mcd, EndPath, EndLoop, EndArg, Pure, fs, disk
  <1>5. CASE HostSkip \/ ToHostFile \/ ToHostDir \/ EndHost
    BY <1>5 DEF HostSkip, ToHostFile, ToHostDir, EndHost, Pure, fs, disk
  <1> QED BY <1>1, <1>2, <1>3, <1>4, <1>5 DEF Walk, Step

\* No other command leaves an entry behind.
LEMMA NoOtherLeaves ==
    ASSUME WalkInv, Walk, cmd.op # "mcopy"
    PROVE  strays' \subseteq strays
  <1>1. Running
    BY StepRuns DEF Walk, LeaveOff, BeyondModel
  <1>2. JobRight(cmd, job, node, stack) /\ FrameRight(cmd, job.side, tree, node, Top) /\ stack # <<>>
    <2>1. stack # <<>> /\ stack \in Seq(Frames) /\ \A k \in DOMAIN stack : FrameRight(cmd, job.side, tree, node, stack[k])
      BY <1>1 DEF Running, WalkInv, StackRight
    <2>2. Top = stack[1] /\ 1 \in DOMAIN stack
      BY <1>1, <2>1, TopIs
    <2> QED BY <2>1, <2>2 DEF WalkInv
  <1>3. ~AtHost /\ \A kind : ~AtItem(kind)
    BY <1>2 DEF FrameRight, AtHost, AtItem, Leaf
  <1>4. ~McopyFile /\ ~McopyDir /\ ~McopyHeld
    BY <1>2, <1>3 DEF McopyFile, McopyDir, McopyHeld, JobRight
  <1>5. CASE Descend \/ Defer \/ MoveRefused \/ Abort \/ LeaveOff
    BY <1>5 DEF Descend, Defer, MoveRefused, Abort, LeaveOff, Pure, fs, disk
  <1>6. CASE Mmd
    BY <1>6 DEF Mmd, MakesDir, Spared, Pure, fs, disk
  <1>7. CASE Rename
    BY <1>7 DEF Rename, Moves, Spared, Pure, fs, disk
  <1>8. CASE DelFile \/ DelDir \/ NotEmpty \/ EndDel
    BY <1>8 DEF DelFile, DelDir, NotEmpty, EndDel, Erased, Pure, fs, disk
  <1>9. CASE Attrib \/ MduFile \/ MduDir \/ Mcd \/ EndPath \/ EndLoop \/ EndArg
    BY <1>9 DEF Attrib, MduFile, MduDir, Mcd, EndPath, EndLoop, EndArg, Pure, fs, disk
  <1>10. CASE HostSkip \/ ToHostFile \/ ToHostDir \/ EndHost
    BY <1>10 DEF HostSkip, ToHostFile, ToHostDir, EndHost, Pure, fs, disk
  <1> QED BY <1>4, <1>5, <1>6, <1>7, <1>8, <1>9, <1>10 DEF Walk, Step

\* A command that goes on is not one that has yet to start.
LEMMA NotIdle ==
    ASSUME WalkInv, Walk
    PROVE  job'.phase # "idle" /\ cmd' = cmd
  <1>1. Running
    BY StepRuns DEF Walk, LeaveOff, BeyondModel
  <1>2. job \in Jobs /\ job.phase = "running"
    BY <1>1 DEF WalkInv, JobRight, Running
  <1>3. cmd' = cmd
    BY DEF Walk, Step, LeaveOff, Descend, Mmd, McopyFile, Defer, McopyDir, Rename, MoveRefused, Abort, DelFile, DelDir,
           NotEmpty, EndDel, Attrib, MduFile, MduDir, Mcd, EndPath, EndLoop, McopyHeld, EndArg, HostSkip, ToHostFile,
           ToHostDir, EndHost, Pure, Changed, DiskChanged, Same
  <1> SUFFICES job'.phase # "idle"
    BY <1>3
  <1>4. CASE Defer \/ Abort \/ LeaveOff \/ EndLoop \/ McopyHeld \/ EndArg
    <2>1. CASE Defer \/ EndLoop \/ McopyHeld
      <3>1. \/ job' = job
            \/ \E h : job' = [job EXCEPT !.held = h]
            \/ \E q : job' = [job EXCEPT !.printed = q]
        BY <2>1 DEF Defer, EndLoop, McopyHeld
      <3> QED BY <1>2, <3>1 DEF Jobs
    <2>2. CASE Abort \/ LeaveOff
      BY <1>2, <2>2 DEF Abort, LeaveOff, Jobs
    <2>3. CASE EndArg
      <3>1. \E r, a : \E q \in {"done", "running"} : job' = [job EXCEPT !.ret = r, !.arg = a, !.phase = q]
        BY <2>3 DEF EndArg
      <3> QED BY <1>2, <3>1 DEF Jobs
    <2> QED BY <1>4, <2>1, <2>2, <2>3
  <1>5. CASE Descend \/ Mmd \/ McopyFile \/ McopyDir \/ Rename \/ MoveRefused
    BY <1>2, <1>5 DEF Descend, Mmd, McopyFile, McopyDir, Rename, MoveRefused, Pure, Changed, DiskChanged
  <1>6. CASE DelFile \/ DelDir \/ NotEmpty \/ EndDel \/ Attrib \/ MduFile \/ MduDir \/ Mcd \/ EndPath
    BY <1>2, <1>6 DEF DelFile, DelDir, NotEmpty, EndDel, Attrib, MduFile, MduDir, Mcd, EndPath, Pure, Changed,
                      DiskChanged
  <1>7. CASE HostSkip \/ ToHostFile \/ ToHostDir \/ EndHost
    BY <1>2, <1>7 DEF HostSkip, ToHostFile, ToHostDir, EndHost, Pure
  <1> QED BY <1>4, <1>5, <1>6, <1>7 DEF Walk, Step

(***************************************************************************)
(* What failed copies leave: each entry is in a directory of the tree that *)
(* no step of the command removes, in a slot that the tree does not use,   *)
(* until a new entry covers it; commands other than mcopy leave none.      *)
(***************************************************************************)
THEOREM StraysInvAlways == WalkSpec => []StraysInv
  <1>1. WalkInit => StraysInv
    BY DEF WalkInit, StraysInv, Apart
  <1>2. WalkInv /\ StraysInv /\ [WalkNext]_walkVars => StraysInv'
    <2> SUFFICES ASSUME WalkInv, StraysInv, [WalkNext]_walkVars PROVE StraysInv'
      OBVIOUS
    <2>1. CASE Start
      <3>1. strays = {} /\ strays' = strays
        BY <2>1 DEF Start, StraysInv, fs, disk
      <3> QED BY <3>1 DEF StraysInv, Apart
    <2>2. CASE UNCHANGED <<tree, node, strays, cmd, job>>
      BY <2>2 DEF StraysInv
    <2>3. CASE Walk
      <3>1. job'.phase # "idle" /\ cmd' = cmd
        BY <2>3, NotIdle
      <3>2. CASE cmd.op # "mcopy"
        <4>1. strays' = {}
          BY <2>3, <3>2, NoOtherLeaves DEF StraysInv
        <4> QED BY <4>1 DEF StraysInv, Apart
      <3>3. CASE cmd.op = "mcopy"
        <4>1. Running /\ ~Deleting(cmd)
          BY <2>3, <3>3, StepRuns DEF Walk, LeaveOff, BeyondModel, Deleting, Deletes
        <4>2. Quietly
          BY <4>1, CalmIs DEF WalkInv, Quietly
        <4>3. Apart(strays', tree', node')
          <5>1. CASE UNCHANGED <<tree, node, strays>>
            BY <5>1 DEF StraysInv
          <5> QED BY <2>3, <3>3, <4>2, <5>1, OnlyCopies, CopyKeepsApart DEF StraysInv
        <4> QED BY <3>1, <3>3, <4>3 DEF StraysInv
      <3> QED BY <3>2, <3>3
    <2>4. CASE Interrupt \/ Over \/ UNCHANGED walkVars
      <3>1. UNCHANGED <<tree, node, strays, cmd, job>>
        BY <2>4 DEF Interrupt, Over, walkVars, fs, disk
      <3> QED BY <2>2, <3>1
    <2> QED BY <2>1, <2>3, <2>4 DEF WalkNext
  <1> QED BY <1>1, <1>2, WalkInvAlways, PTL DEF WalkSpec

(***************************************************************************)
(* Whatever the command line, the disk and the host, wherever a walk is    *)
(* cut short and whichever of its copies fail, the tree is a tree: one     *)
(* entry for every file and directory, all reached from the root, no name  *)
(* twice in a directory, and the low half of every ".." right.  What       *)
(* failed copies have left on the disk stands apart from it.               *)
(***************************************************************************)
THEOREM TreeSoundAlways == WalkSpec => []TreeSound
  <1>1. WalkInv /\ StraysInv => TreeSound
    BY RightIsTree DEF WalkInv, StraysInv, TreeSound, StraysApart, Apart, LiveDir, IsDir
  <1> QED BY <1>1, WalkInvAlways, StraysInvAlways, PTL

=============================================================================
