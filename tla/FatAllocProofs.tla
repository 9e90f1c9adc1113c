---------------------------- MODULE FatAllocProofs ----------------------------
(***************************************************************************)
(* Proofs about FatAlloc, for any number of clusters and files, any size   *)
(* of cluster and any FAT kind, in three layers:                           *)
(*                                                                         *)
(* 1. Whatever fails and whoever is killed, the types hold and the         *)
(*    reservations add up.                                                 *)
(* 2. While commands only create, extend, reserve for and delete files,    *)
(*    every cluster has one owner and the count of free clusters is exact. *)
(*    (After failed copies and crashes neither holds: an entry may be left *)
(*    that points at free clusters.)  No chain is followed to its end      *)
(*    here: there is an owner for each cluster such that links stay with   *)
(*    one owner, and a step that links a new cluster gives it to the owner *)
(*    of the chain.                                                        *)
(* 3. Under the same conditions the files hold what was written to them    *)
(*    and streams know where they are.  Here each file has a list of       *)
(*    clusters; a step appends to one list or takes the first one away.    *)
(***************************************************************************)
EXTENDS FatAlloc, FiniteSetTheorems, WellFoundedInduction, TLAPS

(* Numbers and sums.                                                       *)

(* Counting up reaches every number.                                       *)
LEMMA Counting ==
  ASSUME NEW T, 0 \in T, \A n \in Nat : n \in T => n + 1 \in T
  PROVE  \A n \in Nat : n \in T
<1> DEFINE Missed == {n \in Nat : n \notin T}
<1> SUFFICES ASSUME Missed # {} PROVE FALSE
  OBVIOUS
<1>1. PICK i \in Missed : \A j \in Missed : <<j, i>> \notin OpToRel(<, Nat)
  BY WFMin, NatLessThanWellFounded
<1>2. i \in Nat /\ i \notin T /\ i # 0
  OBVIOUS
<1>3. i - 1 \in Nat /\ (i - 1) + 1 = i /\ i - 1 < i
  BY <1>2
<1>4. i - 1 \notin T
  BY <1>2, <1>3
<1>5. i - 1 \in Missed
  BY <1>3, <1>4
<1>6. <<i - 1, i>> \in OpToRel(<, Nat)
  BY <1>2, <1>3 DEF OpToRel
<1> QED BY <1>1, <1>5, <1>6

(* One step of a sum over the set s, from the sums g over smaller ones.    *)
Some(s) == CHOOSE e \in s : TRUE
Next1(fun, g, s) == IF s = {} THEN 0 ELSE fun[Some(s)] + g[s \ {Some(s)}]
Subsets(S, m) == {s \in SUBSET S : Cardinality(s) <= m}
Sums(g, fun, S, m) == g = [s \in Subsets(S, m) |-> Next1(fun, g, s)]

(* A set without the element that comes first is smaller.                  *)
LEMMA OneLess ==
  ASSUME NEW S, IsFiniteSet(S), NEW s \in SUBSET S, s # {}
  PROVE  /\ Some(s) \in s /\ s \ {Some(s)} \in SUBSET S
         /\ Cardinality(s) \in Nat \ {0}
         /\ Cardinality(s \ {Some(s)}) = Cardinality(s) - 1
<1>1. Some(s) \in s
  BY DEF Some
<1>2. IsFiniteSet(s)
  BY FS_Subset
<1>3. Cardinality(s \ {Some(s)}) = Cardinality(s) - 1
  BY <1>1, <1>2, FS_RemoveElement
<1>4. Cardinality(s) \in Nat
  BY <1>2, FS_CardinalityType
<1>5. Cardinality(s) # 0
  BY <1>2, FS_EmptySet
<1> QED BY <1>1, <1>3, <1>4, <1>5

(* The sums over all subsets of a finite set exist.                        *)
LEMMA SumsExist ==
  ASSUME NEW S, IsFiniteSet(S), NEW fun
  PROVE  \A m \in Nat : \E g : Sums(g, fun, S, m)
<1> DEFINE T == {m \in Nat : \E g : Sums(g, fun, S, m)}
<1>1. 0 \in T
  <2> DEFINE g == [s \in Subsets(S, 0) |-> 0]
  <2>1. \A s \in Subsets(S, 0) : s = {}
    <3> SUFFICES ASSUME NEW s \in SUBSET S, Cardinality(s) <= 0, s # {} PROVE FALSE
      BY DEF Subsets
    <3>1. Cardinality(s) \in Nat \ {0}
      BY OneLess
    <3> QED BY <3>1
  <2>2. \A s \in Subsets(S, 0) : Next1(fun, g, s) = 0
    BY <2>1 DEF Next1
  <2>3. g = [s \in Subsets(S, 0) |-> Next1(fun, g, s)]
    BY <2>2
  <2> HIDE DEF g
  <2>4. Sums(g, fun, S, 0)
    BY <2>3 DEF Sums
  <2> QED BY <2>4
<1>2. ASSUME NEW m \in Nat, m \in T PROVE m + 1 \in T
  <2>1. PICK f : Sums(f, fun, S, m)
    BY <1>2
  <2> DEFINE g == [s \in Subsets(S, m + 1) |-> Next1(fun, f, s)]
  <2>2. \A s \in Subsets(S, m) : s \in Subsets(S, m + 1)
    <3> SUFFICES ASSUME NEW s \in SUBSET S, Cardinality(s) <= m PROVE Cardinality(s) <= m + 1
      BY DEF Subsets
    <3>1. Cardinality(s) \in Nat
      BY FS_Subset, FS_CardinalityType
    <3> QED BY <3>1
  <2>3. \A s \in Subsets(S, m) : f[s] = Next1(fun, f, s)
    BY <2>1 DEF Sums
  <2>4. \A s \in Subsets(S, m) : g[s] = f[s]
    BY <2>2, <2>3
  <2>5. \A s \in Subsets(S, m + 1) : g[s] = Next1(fun, f, s)
    OBVIOUS
  <2>6. g = [s \in Subsets(S, m + 1) |-> g[s]]
    OBVIOUS
  <2> HIDE DEF g
  <2>7. ASSUME NEW s \in Subsets(S, m + 1) PROVE Next1(fun, f, s) = Next1(fun, g, s)
    <3>1. CASE s = {}
      BY <3>1 DEF Next1
    <3>2. CASE s # {}
      <4>1. s \in SUBSET S /\ Cardinality(s) <= m + 1
        BY DEF Subsets
      <4>2. /\ s \ {Some(s)} \in SUBSET S /\ Cardinality(s) \in Nat
            /\ Cardinality(s \ {Some(s)}) = Cardinality(s) - 1
        BY <3>2, <4>1, OneLess
      <4>3. Cardinality(s \ {Some(s)}) <= m
        BY <4>1, <4>2
      <4>4. s \ {Some(s)} \in Subsets(S, m)
        BY <4>2, <4>3 DEF Subsets
      <4> QED BY <2>4, <4>4 DEF Next1
    <3> QED BY <3>1, <3>2
  <2>8. g = [s \in Subsets(S, m + 1) |-> Next1(fun, g, s)]
    BY <2>5, <2>6, <2>7
  <2>9. Sums(g, fun, S, m + 1)
    BY <2>8 DEF Sums
  <2> QED BY <2>9
<1> HIDE DEF T
<1>3. \A m \in Nat : m \in T
  BY <1>1, <1>2, Counting
<1> QED BY <1>3 DEF T

(* SumFunction is the last of them.                                        *)
LEMMA SumIs ==
  ASSUME NEW S, IsFiniteSet(S), NEW fun, DOMAIN fun = S
  PROVE  \E x : /\ SumFunction(fun) = x[S]
                /\ \A s \in SUBSET S : x[s] = Next1(fun, x, s)
<1> DEFINE All(g) == g = [s \in SUBSET S |-> Next1(fun, g, s)]
           g == CHOOSE g : All(g)
<1>1. SumFunction(fun) = g[S]
  BY DEF SumFunction, SumFunctionOnSet, FoldFunctionOnSet, MapThenFoldSet, Next1, Some
<1>2. Subsets(S, Cardinality(S)) = SUBSET S
  <2>1. \A s \in SUBSET S : Cardinality(s) <= Cardinality(S)
    BY FS_Subset
  <2> QED BY <2>1 DEF Subsets
<1>3. Cardinality(S) \in Nat
  BY FS_CardinalityType
<1>4. \E h : All(h)
  <2>1. PICK h : Sums(h, fun, S, Cardinality(S))
    BY <1>3, SumsExist
  <2>2. All(h)
    BY <1>2, <2>1 DEF Sums
  <2> HIDE DEF All
  <2> QED BY <2>2
<1>5. All(g)
  <2> HIDE DEF All
  <2> QED BY <1>4
<1>6. \A s \in SUBSET S : g[s] = Next1(fun, g, s)
  <2> HIDE DEF g
  <2> QED BY <1>5
<1> HIDE DEF g
<1> QED BY <1>1, <1>6

(* A function from S to the integers, and one that differs from it by d at *)
(* e alone.                                                                *)
Summands(fun, S) == fun \in [S -> Int]
Differs(new, fun, S, e, d) ==
    new[e] = fun[e] + d /\ \A a \in S : a # e => new[a] = fun[a]

(* A sum follows a change of one summand.                                  *)
LEMMA SumChanges ==
  ASSUME NEW S, IsFiniteSet(S), NEW fun, NEW new, Summands(fun, S), Summands(new, S),
         NEW e \in S, NEW d \in Int, Differs(new, fun, S, e, d)
  PROVE  SumFunction(new) = SumFunction(fun) + d
<1>1. DOMAIN new = S /\ DOMAIN fun = S
  BY DEF Summands
<1>2. PICK g : /\ SumFunction(fun) = g[S]
               /\ \A s \in SUBSET S : g[s] = Next1(fun, g, s)
  BY <1>1, SumIs
<1>3. PICK h : /\ SumFunction(new) = h[S]
               /\ \A s \in SUBSET S : h[s] = Next1(new, h, s)
  BY <1>1, SumIs
<1> DEFINE Follows(s) == g[s] \in Int /\ h[s] = g[s] + (IF e \in s THEN d ELSE 0)
           T == {n \in Nat : \A s \in SUBSET S : Cardinality(s) = n => Follows(s)}
<1>4. 0 \in T
  <2> SUFFICES ASSUME NEW s \in SUBSET S, Cardinality(s) = 0 PROVE Follows(s)
    OBVIOUS
  <2>1. s = {}
    <3>1. IsFiniteSet(s)
      BY FS_Subset
    <3> QED BY <3>1, FS_EmptySet
  <2>2. g[s] = 0 /\ h[s] = 0
    BY <1>2, <1>3, <2>1 DEF Next1
  <2> QED BY <2>1, <2>2
<1>5. ASSUME NEW n \in Nat, n \in T PROVE n + 1 \in T
  <2> HIDE DEF Follows
  <2> SUFFICES ASSUME NEW s \in SUBSET S, Cardinality(s) = n + 1 PROVE Follows(s)
    OBVIOUS
  <2>1. s # {}
    BY FS_EmptySet
  <2> DEFINE a == Some(s)  r == s \ {a}
  <2>2. a \in s /\ a \in S /\ r \in SUBSET S /\ Cardinality(r) = n
    <3>1. Cardinality(s \ {Some(s)}) = Cardinality(s) - 1 /\ Some(s) \in s
      BY <2>1, OneLess
    <3> QED BY <3>1
  <2>3. Follows(r)
    BY <1>5, <2>2
  <2>4. g[s] = fun[a] + g[r] /\ h[s] = new[a] + h[r]
    BY <1>2, <1>3, <2>1 DEF Next1
  <2>5. e \in s <=> (e \in r \/ e = a)
    BY <2>2
  <2>6. e \in r => e # a
    OBVIOUS
  <2> HIDE DEF a, r
  <2>7. g[r] \in Int /\ h[r] = g[r] + (IF e \in r THEN d ELSE 0)
    BY <2>3 DEF Follows
  <2>8. fun[a] \in Int
    BY <2>2 DEF Summands
  <2>9. CASE e = a
    BY <2>4, <2>5, <2>6, <2>7, <2>8, <2>9 DEF Follows, Differs
  <2>10. CASE e # a
    BY <2>2, <2>4, <2>5, <2>7, <2>8, <2>10 DEF Follows, Differs
  <2> QED BY <2>9, <2>10
<1> HIDE DEF T
<1>6. \A n \in Nat : n \in T
  BY <1>4, <1>5, Counting
<1>7. Cardinality(S) \in Nat /\ S \in SUBSET S
  BY FS_CardinalityType
<1>8. Follows(S)
  <2> HIDE DEF Follows
  <2> QED BY <1>6, <1>7 DEF T
<1> QED BY <1>2, <1>3, <1>8

(* Nothing added up is nothing.                                            *)
LEMMA SumOfZeros ==
  ASSUME NEW S, IsFiniteSet(S)
  PROVE  SumFunction([e \in S |-> 0]) = 0
<1> DEFINE fun == [e \in S |-> 0]
<1>1. DOMAIN fun = S /\ \A e \in S : fun[e] = 0
  OBVIOUS
<1> HIDE DEF fun
<1>2. PICK g : /\ SumFunction(fun) = g[S]
               /\ \A s \in SUBSET S : g[s] = Next1(fun, g, s)
  BY <1>1, SumIs
<1> DEFINE T == {n \in Nat : \A s \in SUBSET S : Cardinality(s) = n => g[s] = 0}
<1>3. 0 \in T
  <2> SUFFICES ASSUME NEW s \in SUBSET S, Cardinality(s) = 0 PROVE g[s] = 0
    OBVIOUS
  <2>1. s = {}
    <3>1. IsFiniteSet(s)
      BY FS_Subset
    <3> QED BY <3>1, FS_EmptySet
  <2> QED BY <1>2, <2>1 DEF Next1
<1>4. ASSUME NEW n \in Nat, n \in T PROVE n + 1 \in T
  <2> SUFFICES ASSUME NEW s \in SUBSET S, Cardinality(s) = n + 1 PROVE g[s] = 0
    OBVIOUS
  <2>1. s # {}
    BY FS_EmptySet
  <2>2. Cardinality(s \ {Some(s)}) = Cardinality(s) - 1 /\ Some(s) \in s
    BY <2>1, OneLess
  <2>3. s \ {Some(s)} \in SUBSET S /\ Cardinality(s \ {Some(s)}) = n
    BY <2>2
  <2>4. g[s] = fun[Some(s)] + g[s \ {Some(s)}]
    BY <1>2, <2>1 DEF Next1
  <2> QED BY <1>1, <1>4, <2>2, <2>3, <2>4
<1> HIDE DEF T
<1>5. \A n \in Nat : n \in T
  BY <1>3, <1>4, Counting
<1>6. Cardinality(S) \in Nat /\ S \in SUBSET S
  BY FS_CardinalityType
<1> QED BY <1>2, <1>5, <1>6 DEF T, fun

-----------------------------------------------------------------------------
(* Types and reservations, whatever fails and whoever is killed.           *)

Writing == {"map", "write", "full", "failed"}

(* TypeOK in four parts, one for each group of variables.                  *)
FatTyped ==
    /\ fatBits \in {12, 16, 32}
    /\ fat \in [FatRange -> FatRange \cup {EndFat}]
    /\ storedFat \in [FatRange -> FatRange \cup {EndFat}]
    /\ fatDirty \in BOOLEAN /\ fatError \in BOOLEAN /\ gotSignal \in BOOLEAN
    /\ freeSpace \in Int /\ storedFree \in Int
    /\ {last, storedLast} \subseteq Clusters \cup {Unknown}
EntryTyped ==
    /\ present \subseteq Files
    /\ start \in [Files -> FatRange] /\ fsize \in [Files -> Nat]
    /\ content \in [Clusters -> (Files \cup {NoFile}) \X Nat]
StreamTyped ==
    /\ open \subseteq Files
    /\ first \in [Files -> FatRange] /\ size \in [Files -> Nat]
    /\ prevRel \in [Files -> Nat] /\ prevAbs \in [Files -> FatRange]
CallTyped ==
    /\ pc \in {"idle", "map", "write", "full", "failed", "delete", "abort",
               "info", "stopped", "refused"}
    /\ cf \in Files \cup {NoFile}
    /\ where \in Nat /\ len \in Nat /\ cur \in Nat /\ abs \in FatRange
    /\ pc \in Writing => cf \in open
    /\ pc \in {"delete", "abort"} => cur \in FatRange

(* A closed stream has reserved nothing, and the open ones what the        *)
(* filesystem has promised.                                                *)
ReserveRight ==
    /\ preFs \in Int /\ preSize \in [Files -> Nat] /\ pre \in [Files -> Nat]
    /\ \A f \in Files \ open : pre[f] = 0
    /\ preFs = SumFunction(pre)

Accounted == FatTyped /\ EntryTyped /\ StreamTyped /\ CallTyped /\ ReserveRight

(* The parts are the whole.                                                *)
LEMMA AccountedIs == Accounted => TypeOK /\ ReservationsCounted
  BY DEF Accounted, TypeOK, FatTyped, EntryTyped, StreamTyped, CallTyped, ReserveRight,
         ReservationsCounted

(* Clusters and entries.                                                   *)
LEMMA ClustersAre ==
  /\ Clusters \subseteq FatRange /\ Clusters \subseteq Int /\ 0 \notin Clusters
  /\ 1 \notin Clusters /\ EndFat \notin Clusters /\ EndFat # 0 /\ EndFat # 1
  /\ EndFat \in Int /\ IsFiniteSet(Clusters) /\ Cardinality(Clusters) = NumClus
  /\ FatRange \subseteq Nat /\ 0 \in FatRange /\ NumClus \in Nat /\ EndFat \notin FatRange
  /\ \A c \in FatRange : c \in Clusters \/ c = 0 \/ c = 1
<1>1. NumClus \in Nat \ {0}
  BY FatAllocAssumption
<1>2. IsFiniteSet(Clusters) /\ Cardinality(Clusters) = NumClus
  <2>1. IsFiniteSet(2..NumClus+1) /\ Cardinality(2..NumClus+1) = NumClus
    BY <1>1, FS_Interval
  <2> QED BY <2>1 DEF Clusters
<1> QED BY <1>1, <1>2 DEF Clusters, FatRange, EndFat

(* A cluster more or less that is free.                                    *)
LEMMA FreeChanges ==
  /\ IsFiniteSet(Free) /\ Cardinality(Free) \in Nat
  /\ \A n \in Free : Cardinality(Free \ {n}) = Cardinality(Free) - 1 /\ Cardinality(Free) > 0
  /\ \A n \in Clusters \ Free : Cardinality(Free \union {n}) = Cardinality(Free) + 1
<1>1. IsFiniteSet(Free)
  BY ClustersAre, FS_Subset DEF Free
<1>2. Cardinality(Free) \in Nat
  BY <1>1, FS_CardinalityType
<1>3. ASSUME NEW n \in Free
      PROVE  Cardinality(Free \ {n}) = Cardinality(Free) - 1 /\ Cardinality(Free) > 0
  <2>1. Cardinality(Free \ {n}) = Cardinality(Free) - 1
    BY <1>1, FS_RemoveElement
  <2>2. IsFiniteSet(Free \ {n})
    BY <1>1, FS_RemoveElement
  <2>3. Cardinality(Free \ {n}) \in Nat
    BY <2>2, FS_CardinalityType
  <2> QED BY <1>2, <2>1, <2>3
<1>4. ASSUME NEW n \in Clusters \ Free
      PROVE  Cardinality(Free \union {n}) = Cardinality(Free) + 1
  BY <1>1, FS_AddElement
<1> QED BY <1>1, <1>2, <1>3, <1>4

(* get_next_free_cluster finds a free cluster, or none.                    *)
LEMMA NextFreeIs ==
  ASSUME NEW hint
  PROVE  NextFree(hint) = 1 \/ NextFree(hint) \in Free
<1>1. ASSUME NEW S \in SUBSET Free, S # {}
      PROVE  LeastOf(S) \in S
  <2>1. S \subseteq Nat
    BY FatAllocAssumption DEF Free, Clusters
  <2>2. PICK c \in S : \A d \in S : <<d, c>> \notin OpToRel(<, Nat)
    BY <1>1, <2>1, WFMin, NatLessThanWellFounded
  <2>3. \A d \in S : ~(d < c)
    BY <2>1, <2>2 DEF OpToRel
  <2>4. \A d \in S : c <= d
    BY <2>1, <2>3
  <2> QED BY <2>4 DEF LeastOf
<1> DEFINE above == {c \in Free : c > SearchFrom(hint)}
<1>2. above \in SUBSET Free
  OBVIOUS
<1>3. NextFree(hint) = IF above # {} THEN LeastOf(above)
                       ELSE IF Free # {} THEN LeastOf(Free) ELSE 1
  BY DEF NextFree
<1> QED BY <1>1, <1>2, <1>3

(* What getfreeMinClusters leaves as the count.                            *)
LEMMA KnownCount == FreeCounted \in {freeSpace, Cardinality(Free)}
  BY DEF FreeCounted

(* ... and recalcPreallocSize with it.                                     *)
LEMMA RecalcCounts ==
  ASSUME NEW f, NEW n, NEW m, Recalc(f, n, m)
  PROVE  freeSpace' \in {freeSpace, Cardinality(Free)}
  BY KnownCount DEF Recalc

(* Either way the count is a number.                                       *)
LEMMA CountTyped ==
  ASSUME FatTyped, freeSpace' \in {freeSpace, Cardinality(Free)}
  PROVE  freeSpace' \in Int
  BY FreeChanges DEF FatTyped

(* Positions, in clusters.                                                 *)
LEMMA Divided ==
  ASSUME NEW w \in Nat
  PROVE  /\ Rel(w) \in Nat /\ Offset(w) \in 0..ClusSize-1 /\ ToClusters(w) \in Nat
         /\ w = Rel(w) * ClusSize + Offset(w)
         /\ ToClusters(w) * ClusSize >= w
<1>1. ClusSize \in Nat \ {0}
  BY FatAllocAssumption
<1>2. \A n \in Nat \ {0}, x \in Nat : /\ x \div n \in Nat /\ (x % n) \in 0..n-1
                                     /\ x = (x \div n) * n + (x % n)
  OBVIOUS
<1>3. Rel(w) \in Nat /\ Offset(w) \in 0..ClusSize-1 /\ w = Rel(w) * ClusSize + Offset(w)
  BY <1>1, <1>2 DEF Rel, Offset
<1> DEFINE x == w + ClusSize - 1  q == x \div ClusSize  r == x % ClusSize
<1>4. x \in Nat
  BY <1>1
<1>5. q \in Nat /\ r \in 0..ClusSize-1 /\ x = q * ClusSize + r
  <2> HIDE DEF x
  <2> QED BY <1>1, <1>2, <1>4
<1>6. ToClusters(w) = q
  BY DEF ToClusters
<1> HIDE DEF q, r
<1>7. q * ClusSize \in Nat
  BY <1>1, <1>5
<1> DEFINE p == q * ClusSize
<1>8. p \in Nat /\ w + ClusSize - 1 = p + r
  BY <1>5, <1>7
<1> HIDE DEF p
<1>9. p >= w
  BY <1>1, <1>5, <1>8
<1> QED BY <1>3, <1>5, <1>6, <1>9 DEF p

(* One stream's reservation changes.                                       *)
LEMMA PromiseChanges ==
  ASSUME pre \in [Files -> Nat], NEW f \in Files, NEW d \in Int
  PROVE  SumFunction([pre EXCEPT ![f] = pre[f] + d]) = SumFunction(pre) + d
<1> DEFINE new == [pre EXCEPT ![f] = pre[f] + d]
<1>1. IsFiniteSet(Files) /\ Summands(pre, Files) /\ Summands(new, Files)
  BY FatAllocAssumption DEF Summands
<1>2. Differs(new, pre, Files, f, d)
  BY DEF Differs
<1> HIDE DEF new
<1>3. SumFunction(new) = SumFunction(pre) + d
  BY <1>1, <1>2, SumChanges
<1> QED BY <1>3 DEF new

(* What recalcPreallocSize promises for one stream it promises in all.     *)
LEMMA RecalcRight ==
  ASSUME FatTyped, StreamTyped, ReserveRight, NEW f \in open, NEW n \in Nat, NEW m \in Nat,
         Recalc(f, n, m), open' = open, preSize' \in [Files -> Nat]
  PROVE  ReserveRight' /\ gotSignal' \in BOOLEAN /\ freeSpace' \in Int
<1> DEFINE more == NeededPrealloc(n, m) - pre[f]
<1>1. /\ f \in Files /\ pre \in [Files -> Nat] /\ pre[f] \in Nat /\ preFs \in Int
      /\ preFs = SumFunction(pre) /\ IsFiniteSet(Files) /\ pre \in [Files -> Int]
  BY FatAllocAssumption DEF StreamTyped, ReserveRight
<1>2. NeededPrealloc(n, m) \in Nat
  BY Divided DEF NeededPrealloc
<1>3. more \in Int /\ pre[f] + more \in Nat
  BY <1>1, <1>2
<1>4. gotSignal' \in BOOLEAN
  BY DEF Recalc, FatTyped
<1>5. freeSpace' \in Int
  BY RecalcCounts, CountTyped
<1>6. \/ preFs' = preFs + more /\ pre' = [pre EXCEPT ![f] = pre[f] + more]
      \/ UNCHANGED <<preFs, pre>>
  BY DEF Recalc
<1> HIDE DEF more
<1>7. CASE UNCHANGED <<preFs, pre>>
  BY <1>4, <1>5, <1>7 DEF ReserveRight
<1>8. CASE preFs' = preFs + more /\ pre' = [pre EXCEPT ![f] = pre[f] + more]
  <2>1. pre' \in [Files -> Nat] /\ \A g \in Files : g # f => pre'[g] = pre[g]
    BY <1>1, <1>3, <1>8
  <2>2. SumFunction([pre EXCEPT ![f] = pre[f] + more]) = SumFunction(pre) + more
    BY <1>1, <1>3, PromiseChanges
  <2>3. preFs' = SumFunction(pre') /\ preFs' \in Int
    BY <1>1, <1>3, <1>8, <2>2
  <2>4. \A g \in Files \ open' : pre'[g] = 0
    BY <2>1 DEF ReserveRight
  <2> QED BY <1>4, <1>5, <2>1, <2>3, <2>4 DEF ReserveRight
<1> QED BY <1>6, <1>7, <1>8

(* Opening a stream keeps the types, and so do ...                         *)
LEMMA OpenStreamTyped ==
  ASSUME StreamTyped, ReserveRight, NEW f \in Files \ open, NEW cluster \in FatRange, NEW n \in Nat,
         OpenStream(f, cluster, n), preFs' = preFs
  PROVE  StreamTyped' /\ ReserveRight'
<1>1. pre' = pre
  BY DEF OpenStream, ReserveRight
<1>2. ReserveRight'
  BY <1>1 DEF ReserveRight, OpenStream
<1>3. StreamTyped'
  BY ClustersAre DEF StreamTyped, OpenStream, NoPos
<1> QED BY <1>2, <1>3

(* ... closing one, ...                                                    *)
LEMMA CloseStreamTyped ==
  ASSUME StreamTyped, ReserveRight, NEW f \in open, CloseStream(f)
  PROVE  StreamTyped' /\ ReserveRight'
<1>1. /\ f \in Files /\ pre \in [Files -> Nat] /\ pre[f] \in Nat /\ preFs \in Int
      /\ preFs = SumFunction(pre) /\ IsFiniteSet(Files) /\ pre \in [Files -> Int]
  BY FatAllocAssumption DEF StreamTyped, ReserveRight
<1> DEFINE d == 0 - pre[f]
<1>2. d \in Int /\ pre[f] + d = 0 /\ preFs - pre[f] = preFs + d
  BY <1>1
<1> HIDE DEF d
<1>3. SumFunction([pre EXCEPT ![f] = pre[f] + d]) = SumFunction(pre) + d
  BY <1>1, <1>2, PromiseChanges
<1>4. pre' = [pre EXCEPT ![f] = pre[f] + d] /\ preFs' = preFs + d
  BY <1>2 DEF CloseStream
<1>5. preFs' = SumFunction(pre') /\ preFs' \in Int
  BY <1>1, <1>2, <1>3, <1>4
<1>6. /\ pre' \in [Files -> Nat] /\ preSize' \in [Files -> Nat]
      /\ \A g \in Files \ open' : pre'[g] = 0
  BY <1>1 DEF CloseStream, ReserveRight
<1>7. StreamTyped'
  BY ClustersAre DEF StreamTyped, CloseStream, NoPos
<1> QED BY <1>5, <1>6, <1>7 DEF ReserveRight

(* ... writing an entry ...                                                *)
LEMMA SetEntryTyped ==
  ASSUME EntryTyped, NEW f \in Files, NEW cluster \in FatRange, NEW n \in Nat,
         SetEntry(f, cluster, n), content' = content
  PROVE  EntryTyped'
  BY DEF EntryTyped, SetEntry

(* ... and removing one.                                                   *)
LEMMA RemoveEntryTyped ==
  ASSUME EntryTyped, StreamTyped, NEW f, RemoveEntry(f),
         content' \in [Clusters -> (Files \cup {NoFile}) \X Nat],
         UNCHANGED <<open, first, prevRel, prevAbs>>
  PROVE  EntryTyped' /\ StreamTyped'
  BY ClustersAre DEF EntryTyped, StreamTyped, RemoveEntry

-----------------------------------------------------------------------------
(* When a call is over its variables have their types.                     *)
LEMMA CallOverTyped ==
  ASSUME CallOver, pc' = "idle"
  PROVE  CallTyped'
  BY ClustersAre DEF CallOver, CallTyped, Writing

(* pre_allocate_file reserves.                                             *)
LEMMA PreAllocateCounts ==
  ASSUME Accounted, NEW f \in Files, NEW n \in Nat, PreAllocate(f, n)
  PROVE  Accounted'
<1>1. /\ f \in open /\ Recalc(f, size[f], n) /\ preSize' = [preSize EXCEPT ![f] = n]
      /\ UNCHANGED <<fat, fatDirty, last, fatError, fatBits, storedFat, storedFree, storedLast,
                     entryVars, content, open, first, prevRel, prevAbs, size, pc, callVars>>
  BY DEF PreAllocate, diskVars, posVars
<1>2. FatTyped /\ EntryTyped /\ StreamTyped /\ CallTyped /\ ReserveRight
  BY DEF Accounted
<1>3. size[f] \in Nat /\ preSize' \in [Files -> Nat]
  BY <1>1, <1>2 DEF StreamTyped, ReserveRight
<1>4. ReserveRight' /\ gotSignal' \in BOOLEAN /\ freeSpace' \in Int
  BY <1>1, <1>2, <1>3, RecalcRight
<1>5. FatTyped'
  BY <1>1, <1>2, <1>4 DEF FatTyped
<1>6. EntryTyped' /\ StreamTyped' /\ CallTyped'
  BY <1>1, <1>2 DEF EntryTyped, StreamTyped, CallTyped, entryVars, callVars
<1> QED BY <1>4, <1>5, <1>6 DEF Accounted

(* writeit opens a stream, or tells that the disk is full.                 *)
LEMMA CreateCounts ==
  ASSUME Accounted, NEW f \in Files, NEW n, Create(f, n)
  PROVE  Accounted'
<1>1. /\ f \notin open /\ freeSpace' = FreeCounted
      /\ \/ OpenStream(f, 0, 0) /\ gotSignal' = gotSignal
         \/ gotSignal' = TRUE /\ UNCHANGED streamVars
      /\ UNCHANGED <<fat, fatDirty, last, fatError, preFs, fatBits, storedFat, storedFree,
                     storedLast, entryVars, content, pc, callVars>>
  BY DEF Create, diskVars
<1>2. FatTyped /\ EntryTyped /\ StreamTyped /\ CallTyped /\ ReserveRight
  BY DEF Accounted
<1>3. FatTyped'
  <2>1. freeSpace' \in Int
    BY <1>1, <1>2, KnownCount, CountTyped
  <2> QED BY <1>1, <1>2, <2>1 DEF FatTyped
<1>4. EntryTyped'
  BY <1>1, <1>2 DEF EntryTyped, entryVars
<1>5. CASE OpenStream(f, 0, 0)
  <2>1. StreamTyped' /\ ReserveRight'
    BY <1>1, <1>2, <1>5, ClustersAre, OpenStreamTyped
  <2>2. CallTyped'
    BY <1>1, <1>2, <1>5 DEF CallTyped, callVars, OpenStream
  <2> QED BY <1>3, <1>4, <2>1, <2>2 DEF Accounted
<1>6. CASE UNCHANGED streamVars
  BY <1>1, <1>2, <1>3, <1>4, <1>6
     DEF Accounted, StreamTyped, ReserveRight, CallTyped, streamVars, posVars, callVars
<1> QED BY <1>1, <1>5, <1>6

(* A stream on an existing file.                                           *)
LEMMA OpenCounts ==
  ASSUME Accounted, NEW f \in Files, Open(f)
  PROVE  Accounted'
<1>1. /\ f \notin open /\ OpenStream(f, start[f], fsize[f])
      /\ UNCHANGED <<fsVars, fatError, preFs, gotSignal, fatBits, storedFat, storedFree,
                     storedLast, entryVars, content, pc, callVars>>
  BY DEF Open, diskVars
<1>2. FatTyped /\ EntryTyped /\ StreamTyped /\ CallTyped /\ ReserveRight
  BY DEF Accounted
<1>3. FatTyped' /\ EntryTyped'
  BY <1>1, <1>2 DEF FatTyped, EntryTyped, fsVars, entryVars
<1>4. start[f] \in FatRange /\ fsize[f] \in Nat
  BY <1>2 DEF EntryTyped
<1>5. StreamTyped' /\ ReserveRight'
  BY <1>1, <1>2, <1>4, OpenStreamTyped
<1>6. CallTyped'
  BY <1>1, <1>2 DEF CallTyped, callVars, OpenStream
<1> QED BY <1>3, <1>5, <1>6 DEF Accounted

(* Where normal_map begins.                                                *)
LEMMA BeginWriteCounts ==
  ASSUME Accounted, NEW f \in Files, NEW w \in Nat, NEW n \in Nat, BeginWrite(f, w, n)
  PROVE  Accounted'
<1> DEFINE new == NextFree(1)
<1>1. /\ f \in open /\ cf' = f /\ where' = w /\ len' = n
      /\ UNCHANGED <<fatError, preFs, gotSignal, fatBits, storedFat, storedFree, storedLast,
                     entryVars, content, open, prevRel, prevAbs, size, preSize, pre>>
      /\ \/ /\ cur' \in {prevRel[f], 0} /\ abs' \in {prevAbs[f], first[f]}
            /\ pc' = "map" /\ UNCHANGED <<fsVars, first>>
         \/ pc' = "full" /\ UNCHANGED <<fsVars, first, cur, abs>>
         \/ /\ new # 1 /\ last' = new
            /\ fat' = Allocated(new) /\ fatDirty' = TRUE
            /\ freeSpace' = Less /\ first' = [first EXCEPT ![f] = new]
            /\ cur' = 0 /\ abs' = new /\ pc' = "map"
  BY DEF BeginWrite, diskVars, posVars
<1>2. FatTyped /\ EntryTyped /\ StreamTyped /\ CallTyped /\ ReserveRight
  BY DEF Accounted
<1>3. EntryTyped' /\ ReserveRight'
  BY <1>1, <1>2 DEF EntryTyped, ReserveRight, entryVars
<1>4. CASE UNCHANGED <<fsVars, first>>
  <2>1. FatTyped' /\ StreamTyped'
    BY <1>1, <1>2, <1>4 DEF FatTyped, StreamTyped, fsVars
  <2>2. cur' \in Nat /\ abs' \in FatRange /\ pc' \in {"map", "full"}
    <3>1. /\ prevRel[f] \in Nat /\ prevAbs[f] \in FatRange /\ first[f] \in FatRange
          /\ cur \in Nat /\ abs \in FatRange
      BY <1>2 DEF StreamTyped, CallTyped
    <3>2. abs' \in {prevAbs[f], first[f], abs, NextFree(1)}
      BY <1>1
    <3>3. NextFree(1) \in FatRange
      <4>1. 1 \in FatRange /\ Free \subseteq FatRange
        <5>1. NumClus \in Nat \ {0}
          BY FatAllocAssumption
        <5>2. 1 \in FatRange
          BY <5>1 DEF FatRange
        <5> QED BY <5>2, ClustersAre DEF Free
      <4>2. NextFree(1) = 1 \/ NextFree(1) \in Free
        BY NextFreeIs
      <4> QED BY <4>1, <4>2
    <3> QED BY <1>1, <3>1, <3>2, <3>3
  <2>3. CallTyped'
    BY <1>1, <1>2, <2>2 DEF CallTyped, StreamTyped
  <2> QED BY <1>3, <2>1, <2>3 DEF Accounted
<1>5. CASE /\ new # 1 /\ last' = new
           /\ fat' = Allocated(new) /\ fatDirty' = TRUE
           /\ freeSpace' = Less /\ first' = [first EXCEPT ![f] = new]
           /\ cur' = 0 /\ abs' = new /\ pc' = "map"
  <2>1. new \in Clusters /\ new \in FatRange
    BY <1>5, NextFreeIs, ClustersAre DEF Free
  <2> HIDE DEF new
  <2>2. FatTyped'
    BY <1>1, <1>2, <1>5, <2>1 DEF FatTyped, Allocated, Less, Unknown
  <2>3. StreamTyped'
    BY <1>1, <1>2, <1>5, <2>1 DEF StreamTyped
  <2>4. f \in Files /\ pc' = "map" /\ cur' = 0 /\ abs' \in FatRange
    BY <1>5, <2>1
  <2>5. CallTyped'
    BY <1>1, <2>4 DEF CallTyped
  <2> QED BY <1>3, <2>2, <2>3, <2>5 DEF Accounted
<1> QED BY <1>1, <1>4, <1>5

(* One link of the chain, followed or made.                                *)
LEMMA MapStepCounts ==
  ASSUME Accounted, MapStep
  PROVE  Accounted'
<1> DEFINE old  == Decode(abs)
           grow == ~AtTarget /\ old = EndFat
           new  == IF grow THEN NextFree(abs) ELSE old
<1>1. /\ pc = "map" /\ Remember
      /\ UNCHANGED <<fatError, preFs, gotSignal, fatBits, storedFat, storedFree, storedLast,
                     entryVars, content, open, first, size, preSize, pre, cf, where, len>>
      /\ IF grow /\ new # 1
         THEN last' = new /\ fat' = Appended(abs, new) /\ fatDirty' = TRUE /\ freeSpace' = Less
         ELSE UNCHANGED fsVars
      /\ \/ pc' \in {"stopped", "full", "write"} /\ UNCHANGED <<cur, abs>>
         \/ /\ old \notin {0, 1} /\ ~(grow /\ new = 1) /\ ~AtTarget
            /\ cur' = cur + 1 /\ abs' = new /\ pc' = pc
  BY DEF MapStep, diskVars
<1>2. FatTyped /\ EntryTyped /\ StreamTyped /\ CallTyped /\ ReserveRight
  BY DEF Accounted
<1>3. EntryTyped' /\ ReserveRight'
  BY <1>1, <1>2 DEF EntryTyped, ReserveRight, entryVars
<1>4. cur \in Nat /\ abs \in FatRange /\ cf \in open /\ cf \in Files
  BY <1>1, <1>2 DEF CallTyped, StreamTyped, Writing
<1>5. StreamTyped'
  BY <1>1, <1>2, <1>4 DEF StreamTyped, Remember, posVars
<1>6. grow /\ new # 1 => new \in Clusters /\ new \in FatRange
  BY NextFreeIs, ClustersAre DEF Free
<1>7. old \in FatRange \union {EndFat}
  <2>1. fat[abs] \in FatRange \union {EndFat} /\ 1 \in FatRange
    BY <1>2, <1>4, FatAllocAssumption DEF FatTyped, FatRange
  <2> QED BY <2>1 DEF Decode
<1>8. CallTyped'
  <2>1. CASE pc' \in {"stopped", "full", "write"} /\ UNCHANGED <<cur, abs>>
    BY <1>1, <1>2, <1>4, <2>1 DEF CallTyped
  <2>2. CASE /\ old \notin {0, 1} /\ ~(grow /\ new = 1) /\ ~AtTarget
             /\ cur' = cur + 1 /\ abs' = new /\ pc' = pc
    <3>1. new \in FatRange
      BY <1>6, <1>7, <2>2
    <3> QED BY <1>1, <1>2, <1>4, <2>2, <3>1 DEF CallTyped
  <2> QED BY <1>1, <2>1, <2>2
<1>9. FatTyped'
  <2>1. CASE grow /\ new # 1
    <3>1. new \in Clusters /\ new \in FatRange /\ fat' = Appended(abs, new)
      BY <1>1, <1>6, <2>1
    <3>2. last' = new /\ fatDirty' = TRUE /\ freeSpace' = Less
      BY <1>1, <2>1
    <3> HIDE DEF new
    <3>3. fat' \in [FatRange -> FatRange \union {EndFat}]
      BY <1>2, <3>1 DEF FatTyped, Appended
    <3> QED BY <1>1, <1>2, <3>1, <3>2, <3>3 DEF FatTyped, Less, Unknown
  <2>2. CASE ~(grow /\ new # 1)
    BY <1>1, <1>2, <2>2 DEF FatTyped, fsVars
  <2> QED BY <2>1, <2>2
<1> QED BY <1>3, <1>5, <1>8, <1>9 DEF Accounted

(* The bytes are written.                                                  *)
LEMMA WriteBackCounts ==
  ASSUME Accounted, NEW k \in Nat, WriteBack(k)
  PROVE  Accounted'
<1>1. /\ pc = "write" /\ pc' = "idle" /\ CallOver
      /\ size' = [size EXCEPT ![cf] = Grown(k)] /\ Recalc(cf, Grown(k), preSize[cf])
      /\ content' = [c \in Clusters |-> IF prevAbs[cf] <= c /\ c < prevAbs[cf]
                                              + (Target(where, k) - Rel(where) + 1)
                                        THEN <<cf, Rel(where) + c - prevAbs[cf]>>
                                        ELSE content[c]]
      /\ UNCHANGED <<fat, fatDirty, last, fatError, fatBits, storedFat, storedFree, storedLast,
                     entryVars, open, first, prevRel, prevAbs, preSize>>
  BY DEF WriteBack, diskVars, posVars
<1>2. FatTyped /\ EntryTyped /\ StreamTyped /\ CallTyped /\ ReserveRight
  BY DEF Accounted
<1>3. cf \in open /\ cf \in Files /\ where \in Nat
  BY <1>1, <1>2 DEF CallTyped, StreamTyped, Writing
<1>4. Grown(k) \in Nat /\ preSize[cf] \in Nat
  BY <1>2, <1>3 DEF Grown, StreamTyped, ReserveRight
<1>5. ReserveRight' /\ gotSignal' \in BOOLEAN /\ freeSpace' \in Int
  <2>1. preSize' \in [Files -> Nat]
    BY <1>1, <1>2 DEF ReserveRight
  <2> QED BY <1>1, <1>2, <1>3, <1>4, <2>1, RecalcRight
<1>6. FatTyped'
  BY <1>1, <1>2, <1>5 DEF FatTyped
<1>7. StreamTyped' /\ CallTyped'
  <2>1. StreamTyped'
    BY <1>1, <1>2, <1>4 DEF StreamTyped
  <2> QED BY <1>1, <2>1, CallOverTyped
<1>8. content' \in [Clusters -> (Files \union {NoFile}) \X Nat]
  <2>1. ASSUME NEW c \in Clusters, prevAbs[cf] <= c
        PROVE  <<cf, Rel(where) + c - prevAbs[cf]>> \in (Files \union {NoFile}) \X Nat
    <3>1. prevAbs[cf] \in Nat /\ c \in Nat
      BY <1>2, <1>3, ClustersAre DEF StreamTyped
    <3>2. Rel(where) \in Nat
      BY <1>3, Divided
    <3>3. Rel(where) + c - prevAbs[cf] \in Nat
      BY <2>1, <3>1, <3>2
    <3> QED BY <1>3, <3>3
  <2> QED BY <1>1, <1>2, <2>1 DEF EntryTyped
<1>9. EntryTyped'
  BY <1>1, <1>2, <1>8 DEF EntryTyped, entryVars
<1> QED BY <1>5, <1>6, <1>7, <1>9 DEF Accounted

(* A stream is closed and its entry written.                               *)
LEMMA EntryCounts ==
  ASSUME Accounted, NEW f \in open, NEW n \in Nat, CloseStream(f), SetEntry(f, first[f], n),
         gotSignal' \in BOOLEAN, CallTyped', content' = content,
         UNCHANGED <<fsVars, fatError, fatBits, storedFat, storedFree, storedLast>>
  PROVE  Accounted'
<1>1. FatTyped /\ EntryTyped /\ StreamTyped /\ CallTyped /\ ReserveRight
  BY DEF Accounted
<1>2. StreamTyped' /\ ReserveRight'
  BY <1>1, CloseStreamTyped
<1>3. f \in Files /\ first[f] \in FatRange
  BY <1>1 DEF StreamTyped
<1>4. EntryTyped'
  BY <1>1, <1>3, SetEntryTyped
<1>5. FatTyped'
  BY <1>1 DEF FatTyped, fsVars
<1> QED BY <1>2, <1>4, <1>5 DEF Accounted

(* A write below that fails.                                               *)
LEMMA WriteErrorCounts ==
  ASSUME Accounted, WriteError
  PROVE  Accounted'
<1>1. /\ pc = "write" /\ pc' = "failed"
      /\ UNCHANGED <<fsVars, fatError, preFs, gotSignal, fatBits, storedFat, storedFree,
                     storedLast, entryVars, content, streamVars, callVars>>
  BY DEF WriteError, diskVars
<1>2. CallTyped'
  BY <1>1 DEF Accounted, CallTyped, callVars, streamVars, Writing
<1> QED BY <1>1, <1>2 DEF Accounted, FatTyped, EntryTyped, StreamTyped, ReserveRight,
           fsVars, entryVars, streamVars, posVars

(* The end of a copy that went well.                                       *)
LEMMA CloseCounts ==
  ASSUME Accounted, NEW f \in Files, Close(f)
  PROVE  Accounted'
<1>1. /\ pc = "idle" /\ f \in open /\ CloseStream(f) /\ SetEntry(f, first[f], size[f])
      /\ UNCHANGED <<fsVars, fatError, gotSignal, fatBits, storedFat, storedFree, storedLast,
                     content, pc, callVars>>
  BY DEF Close, diskVars
<1>2. size[f] \in Nat /\ gotSignal' \in BOOLEAN
  BY <1>1 DEF Accounted, StreamTyped, FatTyped
<1>3. CallTyped'
  BY <1>1 DEF Accounted, CallTyped, callVars, Writing
<1> QED BY <1>1, <1>2, <1>3, EntryCounts

(* The end of a copy that ran out of space or could not be written.        *)
LEMMA CloseShortCounts ==
  ASSUME Accounted, NEW f \in Files, NEW n \in Nat, CloseShort(f, n)
  PROVE  Accounted'
<1>1. /\ pc \in {"full", "failed"} /\ f = cf /\ CloseStream(f) /\ SetEntry(f, first[f], n)
      /\ gotSignal' \in BOOLEAN /\ pc' = "idle" /\ CallOver
      /\ UNCHANGED <<fsVars, fatError, fatBits, storedFat, storedFree, storedLast, content>>
  BY DEF CloseShort, diskVars
<1>2. f \in open
  BY <1>1 DEF Accounted, CallTyped, Writing
<1>3. CallTyped'
  BY <1>1, CallOverTyped
<1> QED BY <1>1, <1>2, <1>3, EntryCounts

(* The end of a copy that failed.                                          *)
LEMMA CloseFailedCounts ==
  ASSUME Accounted, NEW f \in Files, CloseFailed(f)
  PROVE  Accounted'
<1>1. /\ pc = "idle" /\ f \in open /\ CloseStream(f) /\ SetEntry(f, first[f], 0)
      /\ \/ UNCHANGED <<pc, callVars>>
         \/ pc' = "abort" /\ cf' = f /\ cur' = first[f] /\ UNCHANGED <<where, len, abs>>
      /\ UNCHANGED <<fsVars, fatError, gotSignal, fatBits, storedFat, storedFree, storedLast,
                     content>>
  BY DEF CloseFailed, diskVars
<1>2. gotSignal' \in BOOLEAN /\ first[f] \in FatRange /\ first[f] \in Nat
  BY <1>1, ClustersAre DEF Accounted, StreamTyped, FatTyped
<1>3. CallTyped'
  BY <1>1, <1>2 DEF Accounted, CallTyped, callVars, Writing
<1> QED BY <1>1, <1>2, <1>3, EntryCounts

(* A directory that could not grow or be written.                          *)
LEMMA DropWriteCounts ==
  ASSUME Accounted, DropWrite
  PROVE  Accounted'
<1>1. /\ pc' = "idle" /\ CallOver
      /\ UNCHANGED <<fsVars, fatError, preFs, gotSignal, fatBits, storedFat, storedFree,
                     storedLast, entryVars, content, streamVars>>
  BY DEF DropWrite, diskVars
<1>2. CallTyped'
  BY <1>1, CallOverTyped
<1> QED BY <1>1, <1>2 DEF Accounted, FatTyped, EntryTyped, StreamTyped, ReserveRight,
                          fsVars, entryVars, streamVars, posVars

(* An entry goes, perhaps after its chain.                                 *)
LEMMA DeleteCounts ==
  ASSUME Accounted, NEW f \in Files, Delete(f)
  PROVE  Accounted'
<1>1. /\ pc = "idle" /\ \/ RemoveEntry(f) /\ UNCHANGED <<pc, callVars>>
                        \/ /\ pc' = "delete" /\ cf' = f /\ cur' = start[f]
                           /\ UNCHANGED <<entryVars, size, where, len, abs>>
      /\ UNCHANGED <<fsVars, fatError, preFs, gotSignal, fatBits, storedFat, storedFree,
                     storedLast, content, open, first, prevRel, prevAbs, preSize, pre>>
  BY DEF Delete, diskVars, posVars
<1>2. FatTyped /\ EntryTyped /\ StreamTyped /\ CallTyped /\ ReserveRight
  BY DEF Accounted
<1>3. FatTyped' /\ ReserveRight'
  BY <1>1, <1>2 DEF FatTyped, ReserveRight, fsVars
<1>4. CallTyped'
  <2>1. start[f] \in FatRange /\ start[f] \in Nat
    BY <1>2, ClustersAre DEF EntryTyped
  <2> QED BY <1>1, <1>2, <2>1 DEF CallTyped, callVars, Writing
<1>5. EntryTyped' /\ StreamTyped'
  <2>1. CASE RemoveEntry(f)
    BY <1>1, <1>2, <2>1, RemoveEntryTyped DEF EntryTyped
  <2>2. CASE UNCHANGED <<entryVars, size>>
    BY <1>1, <1>2, <2>2 DEF EntryTyped, StreamTyped, entryVars
  <2> QED BY <1>1, <2>1, <2>2
<1> QED BY <1>3, <1>4, <1>5 DEF Accounted

(* fat_free returns.                                                       *)
LEMMA FreeReturnsTyped ==
  ASSUME Accounted, FreeReturns, content' \in [Clusters -> (Files \cup {NoFile}) \X Nat],
         UNCHANGED <<open, first, prevRel, prevAbs>>
  PROVE  EntryTyped' /\ StreamTyped' /\ CallTyped'
<1>1. EntryTyped /\ StreamTyped /\ CallTyped
  BY DEF Accounted
<1>2. CallTyped'
  BY CallOverTyped DEF FreeReturns
<1>3. CASE RemoveEntry(cf)
  BY <1>1, <1>2, <1>3, RemoveEntryTyped
<1>4. CASE UNCHANGED <<entryVars, size>>
  BY <1>1, <1>2, <1>4 DEF EntryTyped, StreamTyped, entryVars
<1> QED BY <1>3, <1>4 DEF FreeReturns

(* One cluster is freed, or a FAT error ends the loop.                     *)
LEMMA FreeStepCounts ==
  ASSUME Accounted, FreeStep
  PROVE  Accounted'
<1> DEFINE next == Successor
<1>1. /\ pc \in {"delete", "abort"} /\ fatError' = (next = 1)
      /\ fat' = [fat EXCEPT ![cur] = 0] /\ fatDirty' = TRUE /\ freeSpace' = More
      /\ content' = [c \in Clusters |-> IF c = cur THEN <<NoFile, 0>> ELSE content[c]]
      /\ UNCHANGED <<last, preFs, gotSignal, fatBits, storedFat, storedFree, storedLast,
                     open, first, prevRel, prevAbs, preSize, pre>>
      /\ \/ FreeReturns
         \/ /\ next # EndFat /\ cur' = next
            /\ UNCHANGED <<pc, entryVars, size, cf, where, len, abs>>
  BY DEF FreeStep, diskVars, posVars
<1>2. FatTyped /\ EntryTyped /\ StreamTyped /\ CallTyped /\ ReserveRight
  BY DEF Accounted
<1>3. FatTyped'
  <2>1. fat' \in [FatRange -> FatRange \union {EndFat}]
    BY <1>1, <1>2, ClustersAre DEF FatTyped
  <2>2. freeSpace' \in Int
    BY <1>1, <1>2 DEF FatTyped, More, Unknown
  <2>3. fatError' \in BOOLEAN
    BY <1>1
  <2> QED BY <1>1, <1>2, <2>1, <2>2, <2>3 DEF FatTyped
<1>4. ReserveRight'
  BY <1>1, <1>2 DEF ReserveRight
<1>5. content' \in [Clusters -> (Files \cup {NoFile}) \X Nat]
  BY <1>1, <1>2 DEF EntryTyped
<1>6. CASE FreeReturns
  BY <1>1, <1>3, <1>4, <1>5, <1>6, FreeReturnsTyped DEF Accounted
<1>7. CASE /\ next # EndFat /\ cur' = next
           /\ UNCHANGED <<pc, entryVars, size, cf, where, len, abs>>
  <2>1. EntryTyped' /\ StreamTyped'
    BY <1>1, <1>2, <1>5, <1>7 DEF EntryTyped, StreamTyped, entryVars
  <2>2. next \in FatRange /\ next \in Nat
    <3>1. fat[cur] \in FatRange \union {EndFat} /\ 1 \in FatRange
      BY <1>1, <1>2, FatAllocAssumption DEF FatTyped, CallTyped, FatRange
    <3> QED BY <1>7, <3>1, ClustersAre DEF Successor, Decode
  <2>3. CallTyped'
    BY <1>1, <1>2, <1>7, <2>2 DEF CallTyped
  <2> QED BY <1>3, <1>4, <2>1, <2>3 DEF Accounted
<1> QED BY <1>1, <1>6, <1>7

(* A FAT error ends fat_free early.                                        *)
LEMMA FreeStopsCounts ==
  ASSUME Accounted, FreeStops
  PROVE  Accounted'
<1>1. /\ FreeReturns
      /\ UNCHANGED <<fsVars, fatError, preFs, gotSignal, fatBits, storedFat, storedFree,
                     storedLast, content, open, first, prevRel, prevAbs, preSize, pre>>
  BY DEF FreeStops, diskVars, posVars
<1>2. FatTyped /\ EntryTyped /\ StreamTyped /\ CallTyped /\ ReserveRight
  BY DEF Accounted
<1>3. FatTyped' /\ ReserveRight'
  BY <1>1, <1>2 DEF FatTyped, ReserveRight, fsVars
<1>4. content' \in [Clusters -> (Files \cup {NoFile}) \X Nat]
  BY <1>1, <1>2 DEF EntryTyped
<1> QED BY <1>1, <1>3, <1>4, FreeReturnsTyped DEF Accounted

(* getfree counts.                                                         *)
LEMMA GetFreeCounts ==
  ASSUME Accounted, GetFree
  PROVE  Accounted'
<1>1. /\ freeSpace' = Cardinality(Free)
      /\ UNCHANGED <<fat, fatDirty, last, fatError, preFs, gotSignal, fatBits, storedFat,
                     storedFree, storedLast, entryVars, content, streamVars, pc, callVars>>
  BY DEF GetFree, diskVars
<1>2. FatTyped /\ EntryTyped /\ StreamTyped /\ CallTyped /\ ReserveRight
  BY DEF Accounted
<1>3. freeSpace' \in Int
  BY <1>1, <1>2, CountTyped
<1>4. FatTyped'
  BY <1>1, <1>2, <1>3 DEF FatTyped
<1>5. EntryTyped' /\ StreamTyped' /\ ReserveRight'
  BY <1>1, <1>2 DEF EntryTyped, StreamTyped, ReserveRight, entryVars, streamVars, posVars
<1>6. CallTyped'
  BY <1>1, <1>2 DEF CallTyped, callVars, streamVars
<1> QED BY <1>4, <1>5, <1>6 DEF Accounted

(* The FAT and the info sector are written.                                *)
LEMMA FatWriteCounts ==
  ASSUME Accounted, FatWrite \/ InfoWrite
  PROVE  Accounted'
<1>1. /\ storedFat' \in {fat, storedFat} /\ storedFree' \in {freeSpace, storedFree}
      /\ storedLast' \in {last, storedLast} /\ fatDirty' \in {fatDirty, FALSE}
      /\ pc' \in {"info", "idle", pc} \ Writing /\ pc \notin {"delete", "abort"}
      /\ UNCHANGED <<fat, freeSpace, last, fatError, preFs, gotSignal, fatBits, entryVars,
                     content, streamVars, callVars>>
  BY DEF FatWrite, InfoWrite, Writing
<1>2. FatTyped /\ EntryTyped /\ StreamTyped /\ CallTyped /\ ReserveRight
  BY DEF Accounted
<1>3. FatTyped'
  BY <1>1, <1>2 DEF FatTyped
<1>4. EntryTyped' /\ StreamTyped' /\ ReserveRight'
  BY <1>1, <1>2 DEF EntryTyped, StreamTyped, ReserveRight, entryVars, streamVars, posVars
<1>5. CallTyped'
  BY <1>1, <1>2 DEF CallTyped, callVars, streamVars
<1> QED BY <1>3, <1>4, <1>5 DEF Accounted

(* Another command begins: it has no streams and has promised nothing.     *)
LEMMA FatReadCounts ==
  ASSUME Accounted, FatRead
  PROVE  Accounted'
<1>1. /\ fat' = storedFat /\ fatDirty' = FALSE /\ fatError' = FALSE
      /\ freeSpace' \in {storedFree, Unknown} /\ last' \in {storedLast, Unknown}
      /\ preFs' = 0 /\ gotSignal' = FALSE /\ NoStreams
      /\ pc' \in {"idle", "refused"} /\ CallOver
      /\ UNCHANGED <<fatBits, storedFat, storedFree, storedLast, entryVars, content>>
  BY DEF FatRead, diskVars
<1>2. FatTyped /\ EntryTyped /\ StreamTyped /\ CallTyped /\ ReserveRight
  BY DEF Accounted
<1>3. FatTyped'
  <2>1. freeSpace' \in Int /\ storedFree' \in Int
    BY <1>1, <1>2 DEF FatTyped, Unknown
  <2>2. last' \in Clusters \union {Unknown} /\ storedLast' \in Clusters \union {Unknown}
    BY <1>1, <1>2 DEF FatTyped
  <2> QED BY <1>1, <1>2, <2>1, <2>2 DEF FatTyped
<1>4. EntryTyped'
  BY <1>1, <1>2 DEF EntryTyped, entryVars
<1>5. StreamTyped'
  BY <1>1, <1>2, ClustersAre DEF NoStreams, StreamTyped, EntryTyped, NoPos
<1>6. CallTyped'
  BY <1>1, ClustersAre DEF CallTyped, CallOver, Writing
<1>7. ReserveRight'
  <2>1. pre' = [f \in Files |-> 0] /\ preSize' = [f \in Files |-> 0]
    BY <1>1 DEF NoStreams
  <2>2. SumFunction(pre') = 0
    BY <2>1, SumOfZeros, FatAllocAssumption
  <2>3. /\ pre' \in [Files -> Nat] /\ preSize' \in [Files -> Nat]
        /\ \A f \in Files \ open' : pre'[f] = 0
    BY <2>1
  <2> QED BY <1>1, <2>2, <2>3 DEF ReserveRight
<1> QED BY <1>3, <1>4, <1>5, <1>6, <1>7 DEF Accounted

(* A disk without files.                                                   *)
LEMMA InitCounts ==
  ASSUME Init
  PROVE  Accounted
<1>1. NumClus \in Nat \ {0} /\ Unknown \in Int /\ NoPos \in Nat
  BY FatAllocAssumption DEF Unknown, NoPos
<1>2. FatTyped
  <2>1. fat \in [FatRange -> FatRange \union {EndFat}]
    <3>1. fat = [c \in FatRange |-> IF c < 2 THEN EndFat ELSE 0]
      BY DEF Init
    <3> QED BY <3>1, ClustersAre
  <2>2. /\ fatBits \in {12, 16, 32} /\ storedFat = fat /\ fatDirty = FALSE
        /\ fatError = FALSE /\ gotSignal = FALSE
        /\ freeSpace = storedFree /\ storedFree \in {Unknown, NumClus}
        /\ storedLast = Unknown /\ last = Unknown
    BY FatAllocAssumption DEF Init
  <2>3. freeSpace \in Int /\ storedFree \in Int /\ {last, storedLast} \subseteq Clusters \union {Unknown}
    BY <1>1, <2>2
  <2> QED BY <2>1, <2>2, <2>3 DEF FatTyped
<1>3. EntryTyped /\ StreamTyped
  BY <1>1, ClustersAre DEF Init, EntryTyped, StreamTyped
<1>4. CallTyped
  BY ClustersAre DEF Init, CallTyped, Writing
<1>5. ReserveRight
  <2>1. pre = [f \in Files |-> 0] /\ preSize = [f \in Files |-> 0] /\ preFs = 0
    BY DEF Init
  <2>2. SumFunction(pre) = 0
    BY <2>1, SumOfZeros, FatAllocAssumption
  <2>3. /\ pre \in [Files -> Nat] /\ preSize \in [Files -> Nat]
        /\ \A f \in Files \ open : pre[f] = 0
    BY <2>1
  <2> QED BY <2>1, <2>2, <2>3 DEF ReserveRight
<1> QED BY <1>2, <1>3, <1>4, <1>5 DEF Accounted

(* Every step.                                                             *)
LEMMA NextCounts ==
  ASSUME Accounted, [Next]_vars
  PROVE  Accounted'
<1>1. 0..MaxSize \subseteq Nat /\ 1..MaxSize \subseteq Nat /\ 1..MaxSize \subseteq 0..MaxSize
  BY FatAllocAssumption
<1>2. CASE CallStep
  BY <1>1, <1>2, MapStepCounts, WriteBackCounts, WriteErrorCounts, FreeStepCounts, FreeStopsCounts,
     FatWriteCounts DEF CallStep
<1>3. CASE \E f \in Files, w \in 0..MaxSize, n \in 1..MaxSize : BeginWrite(f, w, n)
  BY <1>1, <1>3, BeginWriteCounts
<1>4. CASE \/ \E f \in Files, n \in 0..MaxSize : Create(f, n)
           \/ \E f \in Files : Open(f)
           \/ \E f \in Files, n \in 1..MaxSize : PreAllocate(f, n)
  BY <1>1, <1>4, CreateCounts, OpenCounts, PreAllocateCounts
<1>5. CASE \/ \E f \in Files : Close(f)
           \/ \E f \in Files, n \in 1..MaxSize : CloseShort(f, n)
           \/ DropWrite
           \/ \E f \in Files : CloseFailed(f)
           \/ \E f \in Files : Delete(f)
  BY <1>1, <1>5, CloseCounts, CloseShortCounts, DropWriteCounts, CloseFailedCounts, DeleteCounts
<1>6. CASE GetFree \/ FatWrite \/ NextCommand \/ Crash
  BY <1>6, GetFreeCounts, FatWriteCounts, FatReadCounts DEF NextCommand, Crash
<1>7. CASE UNCHANGED vars
  BY <1>7 DEF Accounted, FatTyped, EntryTyped, StreamTyped, CallTyped, ReserveRight, vars,
              fsVars, diskVars, entryVars, streamVars, posVars, callVars
<1> QED BY <1>2, <1>3, <1>4, <1>5, <1>6, <1>7 DEF Next

(* Types and reservations are right in every state.                        *)
LEMMA AccountedAlways == Spec => []Accounted
<1>1. Init => Accounted
  BY InitCounts
<1>2. Accounted /\ [Next]_vars => Accounted'
  BY NextCounts
<1> QED BY <1>1, <1>2, PTL DEF Spec

(* Whatever fails and whoever is killed, the filesystem has promised       *)
(* exactly the clusters its streams have asked for: no path through        *)
(* opening, growing, closing and failing loses a reservation or counts one *)
(* twice (recalcPreallocSize, fsPreallocateClusters, free_stream).         *)
THEOREM ReservationsCountedAlways == Spec => []ReservationsCounted
<1>1. Accounted => ReservationsCounted
  BY AccountedIs
<1> QED BY <1>1, AccountedAlways, PTL

(* What the theorems assume: no copy fails and no command is killed, ...   *)
NoFailures == Events \cap {"abort", "crash"} = {}

(* ... and files have fewer than 65535 clusters: a stream just opened      *)
(* remembers position 65535, which normal_map takes for a real one from    *)
(* there on.                                                               *)
FilesFit == \A w \in 0..MaxSize : Rel(w) < NoPos

Entries == {0, EndFat} \union Clusters
Owners == [Clusters -> Files \union {NoFile}]
Table == [FatRange -> Int]
Heads == [f \in Files |-> Head(f)]

(* t is a FAT in which h tells the heads of the files and o the owners.    *)
Sound(t, h, o) ==
    /\ t \in Table
    /\ \A c \in Clusters : t[c] \in Entries
    /\ \A c \in Clusters : t[c] \in Clusters => t[t[c]] # 0 /\ o[t[c]] = o[c]
    /\ \A c, d \in Clusters : t[c] = t[d] /\ t[c] \in Clusters => c = d
    /\ \A f \in Files : h[f] # 0 =>
          /\ h[f] \in Clusters /\ t[h[f]] # 0 /\ o[h[f]] = f
          /\ \A c \in Clusters : t[c] # h[f]

(* c is a cluster of file f.                                               *)
Belongs(c, f, t, o) == c \in Clusters /\ t[c] # 0 /\ o[c] = f

(* The positions that streams remember, and that normal_map has reached,   *)
(* are in the chains of their files.                                       *)
Owned(o) ==
    /\ Sound(fat, Heads, o)
    /\ \A f \in open : prevRel[f] # NoPos => Belongs(prevAbs[f], f, fat, o)
    /\ pc = "map" => Belongs(abs, cf, fat, o)
ChainsRight == \E o \in Owners : Owned(o)

(* The count of free clusters, and what the disk has of it.                *)
Counted ==
    /\ FreeSpaceExact
    /\ ~fatDirty \/ pc = "info" => storedFat = fat
    /\ ~fatDirty /\ fatBits = 32 => storedFree \in {Unknown, Cardinality(Free)}

Resting == {"idle", "info", "stopped", "refused"}
CallRight ==
    /\ pc \in Resting \union Writing \union {"delete"}
    /\ pc \in Writing => cf \in open
    /\ pc = "delete" => cf \in present \ open /\ Head(cf) # 0

Streams == [Files -> Int]
Typed ==
    /\ present \subseteq Files /\ open \subseteq Files
    /\ start \in Streams /\ first \in Streams
    /\ prevRel \in Streams /\ prevAbs \in Streams
    /\ freeSpace \in Int /\ storedFree \in Int /\ cur \in Int /\ abs \in Int
    /\ fatDirty \in BOOLEAN /\ fatError = FALSE

AllocRight == Typed /\ CallRight /\ Counted /\ ChainsRight

-----------------------------------------------------------------------------
(* A cluster that is free is appended at the end of a chain.               *)
LEMMA AppendKeeps ==
  ASSUME NEW t, NEW h, NEW o \in Owners, Sound(t, h, o), NEW f \in Files,
         NEW pos, Belongs(pos, f, t, o), t[pos] = EndFat,
         NEW n \in Clusters, t[n] = 0
  PROVE  LET u == [t EXCEPT ![pos] = n, ![n] = EndFat]
             p == [o EXCEPT ![n] = f]
         IN  /\ Sound(u, h, p) /\ p \in Owners /\ u[n] = EndFat /\ u[pos] = n
             /\ \A c, g : Belongs(c, g, t, o) => Belongs(c, g, u, p)
             /\ Belongs(n, f, u, p)
<1> DEFINE u == [t EXCEPT ![pos] = n, ![n] = EndFat]
           p == [o EXCEPT ![n] = f]
<1>1. /\ pos \in Clusters /\ pos \in FatRange /\ n \in FatRange /\ pos # n
      /\ o[pos] = f /\ t \in Table /\ n # 0 /\ n # EndFat
  BY ClustersAre DEF Belongs, Sound
<1>2. /\ u \in Table /\ u[pos] = n /\ u[n] = EndFat
      /\ \A c \in Clusters : c # pos /\ c # n => u[c] = t[c]
  BY <1>1, ClustersAre DEF Table
<1>3. p \in Owners /\ p[n] = f /\ \A c \in Clusters : c # n => p[c] = o[c]
  BY DEF Owners
<1> HIDE DEF u, p
<1>4. \A c \in Clusters : t[c] # n
  BY DEF Sound
<1>5. \A c \in Clusters : u[c] \in Entries
  BY <1>1, <1>2 DEF Sound, Entries
<1>6. \A c \in Clusters : u[c] \in Clusters => u[u[c]] # 0 /\ p[u[c]] = p[c]
  BY <1>1, <1>2, <1>3, <1>4, ClustersAre DEF Sound
<1>7. \A c, d \in Clusters : u[c] = u[d] /\ u[c] \in Clusters => c = d
  BY <1>1, <1>2, <1>4, ClustersAre DEF Sound
<1>8. \A g \in Files : h[g] # 0 =>
         /\ h[g] \in Clusters /\ u[h[g]] # 0 /\ p[h[g]] = g
         /\ \A c \in Clusters : u[c] # h[g]
  BY <1>1, <1>2, <1>3, ClustersAre DEF Sound
<1>9. \A c, g : Belongs(c, g, t, o) => Belongs(c, g, u, p)
  BY <1>1, <1>2, <1>3, ClustersAre DEF Belongs
<1>10. Sound(u, h, p)
  BY <1>2, <1>5, <1>6, <1>7, <1>8 DEF Sound
<1>11. Belongs(n, f, u, p)
  BY <1>2, <1>3, ClustersAre DEF Belongs
<1> QED BY <1>2, <1>3, <1>9, <1>10, <1>11 DEF u, p

(* A free cluster becomes the first one of a file without clusters.        *)
LEMMA AllocateKeeps ==
  ASSUME NEW t, NEW h \in [Files -> Int], NEW o \in Owners, Sound(t, h, o),
         NEW f \in Files, h[f] = 0, NEW n \in Clusters, t[n] = 0
  PROVE  LET u == [t EXCEPT ![n] = EndFat]
             p == [o EXCEPT ![n] = f]
         IN  /\ Sound(u, [h EXCEPT ![f] = n], p) /\ p \in Owners
             /\ \A c, g : Belongs(c, g, t, o) => Belongs(c, g, u, p)
             /\ Belongs(n, f, u, p)
<1> DEFINE u == [t EXCEPT ![n] = EndFat]
           p == [o EXCEPT ![n] = f]
           k == [h EXCEPT ![f] = n]
<1>1. n \in FatRange /\ t \in Table /\ n # 0 /\ n # EndFat
  BY ClustersAre DEF Sound
<1>2. /\ u \in Table /\ u[n] = EndFat
      /\ \A c \in Clusters : c # n => u[c] = t[c]
  BY <1>1, ClustersAre DEF Table
<1>3. p \in Owners /\ p[n] = f /\ \A c \in Clusters : c # n => p[c] = o[c]
  BY DEF Owners
<1>4. k[f] = n /\ \A g \in Files : g # f => k[g] = h[g]
  OBVIOUS
<1> HIDE DEF u, p, k
<1>5. \A c \in Clusters : t[c] # n
  BY DEF Sound
<1>6. \A c \in Clusters : u[c] \in Entries
  BY <1>2 DEF Sound, Entries
<1>7. ASSUME NEW c \in Clusters, u[c] \in Clusters
      PROVE  u[u[c]] # 0 /\ p[u[c]] = p[c]
  <2>1. c # n /\ u[c] = t[c] /\ t[c] # n
    BY <1>2, <1>5, <1>7, ClustersAre
  <2> QED BY <1>2, <1>3, <1>7, <2>1 DEF Sound
<1>8. \A c, d \in Clusters : u[c] = u[d] /\ u[c] \in Clusters => c = d
  BY <1>2, <1>5, ClustersAre DEF Sound
<1>9. \A g \in Files : k[g] # 0 =>
         /\ k[g] \in Clusters /\ u[k[g]] # 0 /\ p[k[g]] = g
         /\ \A c \in Clusters : u[c] # k[g]
  BY <1>1, <1>2, <1>3, <1>4, <1>5, ClustersAre DEF Sound
<1>10. \A c, g : Belongs(c, g, t, o) => Belongs(c, g, u, p)
  BY <1>2, <1>3, ClustersAre DEF Belongs
<1>11. Sound(u, k, p)
  BY <1>2, <1>6, <1>7, <1>8, <1>9 DEF Sound
<1>12. Belongs(n, f, u, p)
  BY <1>2, <1>3, ClustersAre DEF Belongs
<1> QED BY <1>3, <1>10, <1>11, <1>12 DEF u, p, k

(* The first cluster of a chain is freed, and the next one is its head.    *)
LEMMA FreeKeeps ==
  ASSUME NEW t, NEW h \in [Files -> Int], NEW o \in Owners, Sound(t, h, o),
         NEW f \in Files, h[f] # 0
  PROVE  LET c == h[f]
             u == [t EXCEPT ![c] = 0]
         IN  /\ c \in Clusters /\ t[c] # 0 /\ t[c] \in Entries
             /\ t[c] \in Clusters => Sound(u, [h EXCEPT ![f] = t[c]], o)
             /\ Sound(u, [h EXCEPT ![f] = 0], o)
             /\ \A d, g : Belongs(d, g, t, o) /\ g # f => Belongs(d, g, u, o)
<1> DEFINE c == h[f]
           u == [t EXCEPT ![c] = 0]
           next == [h EXCEPT ![f] = t[c]]
           none == [h EXCEPT ![f] = 0]
<1>1. /\ c \in Clusters /\ c \in FatRange /\ t[c] # 0 /\ o[c] = f /\ t \in Table
      /\ t[c] \in Entries /\ \A d \in Clusters : t[d] # c
  BY ClustersAre DEF Sound
<1>2. /\ u \in Table /\ u[c] = 0
      /\ \A d \in Clusters : d # c => u[d] = t[d]
  BY <1>1 DEF Table
<1>3. next[f] = t[c] /\ none[f] = 0 /\ \A g \in Files : g # f => next[g] = h[g] /\ none[g] = h[g]
  OBVIOUS
<1> HIDE DEF c, u, next, none
<1>4. \A d \in Clusters : u[d] \in Entries
  BY <1>2 DEF Sound, Entries
<1>5. ASSUME NEW d \in Clusters, u[d] \in Clusters
      PROVE  u[u[d]] # 0 /\ o[u[d]] = o[d]
  <2>1. d # c /\ u[d] = t[d] /\ t[d] # c
    BY <1>1, <1>2, <1>5, ClustersAre
  <2> QED BY <1>2, <1>5, <2>1 DEF Sound
<1>6. \A d, e \in Clusters : u[d] = u[e] /\ u[d] \in Clusters => d = e
  BY <1>1, <1>2, ClustersAre DEF Sound
<1>7. \A g \in Files : g # f /\ h[g] # 0 =>
         /\ h[g] \in Clusters /\ u[h[g]] # 0 /\ o[h[g]] = g
         /\ \A d \in Clusters : u[d] # h[g]
  BY <1>1, <1>2 DEF Sound
<1>8. Sound(u, none, o)
  BY <1>2, <1>3, <1>4, <1>5, <1>6, <1>7 DEF Sound
<1>9. ASSUME t[c] \in Clusters PROVE Sound(u, next, o)
  <2>1. u[t[c]] # 0 /\ o[t[c]] = f
    <3>1. t[c] # c /\ t[t[c]] # 0 /\ o[t[c]] = o[c]
      BY <1>1, <1>9 DEF Sound
    <3> QED BY <1>1, <1>2, <1>9, <3>1
  <2>2. ASSUME NEW d \in Clusters PROVE u[d] # t[c]
    <3>1. CASE d = c
      BY <1>2, <1>9, <3>1, ClustersAre
    <3>2. CASE d # c
      BY <1>1, <1>2, <1>9, <3>2 DEF Sound
    <3> QED BY <3>1, <3>2
  <2> QED BY <1>2, <1>3, <1>4, <1>5, <1>6, <1>7, <1>9, <2>1, <2>2 DEF Sound
<1>10. \A d, g : Belongs(d, g, t, o) /\ g # f => Belongs(d, g, u, o)
  BY <1>1, <1>2 DEF Belongs
<1> QED BY <1>1, <1>8, <1>9, <1>10 DEF c, u, next, none
-----------------------------------------------------------------------------
(* Parts of the steps.                                                     *)

(* Where the heads are numbers.                                            *)
LEMMA HeadsAre ==
  ASSUME Typed
  PROVE  Heads \in [Files -> Int] /\ \A f \in Files : Heads[f] = Head(f)
<1>1. \A f \in Files : Head(f) \in Int
  BY DEF Typed, Streams, Head
<1> QED BY <1>1 DEF Heads

(* The same after a step.                                                  *)
LEMMA HeadsWillBe ==
  ASSUME Typed'
  PROVE  Heads' \in [Files -> Int] /\ \A f \in Files : Heads'[f] = Head(f)'
<1>1. \A f \in Files : Head(f)' \in Int
  BY DEF Typed, Streams, Head
<1> QED BY <1>1 DEF Heads

(* The count stays right when only what is known of it changes.            *)
LEMMA CountStays ==
  ASSUME Typed, Counted, fat' = fat, freeSpace' \in {freeSpace, Cardinality(Free)},
         UNCHANGED <<fatDirty, fatBits, storedFat, storedFree>>, pc' # "info"
  PROVE  Counted' /\ freeSpace' \in Int
<1>1. Free' = Free
  BY DEF Free
<1>2. Cardinality(Free) \in Nat
  BY FreeChanges
<1> QED BY <1>1, <1>2 DEF Counted, FreeSpaceExact, Typed

(* The chains stay right when the FAT stays, files keep their heads or     *)
(* have none, and no position is new.                                      *)
LEMMA ChainsStay ==
  ASSUME Typed, Typed', ChainsRight, fat' = fat,
         \A f \in Files : Head(f)' \in {Head(f), 0},
         \A f \in open' : \/ prevRel'[f] = NoPos
                          \/ f \in open /\ prevRel'[f] = prevRel[f] /\ prevAbs'[f] = prevAbs[f],
         pc' # "map"
  PROVE  ChainsRight'
<1>1. PICK o \in Owners : Owned(o)
  BY DEF ChainsRight
<1>2. \A f \in Files : Heads[f] = Head(f)
  BY HeadsAre
<1>3. \A f \in Files : Heads'[f] = Head(f)'
  BY HeadsWillBe
<1>4. Sound(fat', Heads', o)
  BY <1>1, <1>2, <1>3 DEF Owned, Sound
<1>5. Owned(o)'
  BY <1>1, <1>4 DEF Owned
<1> QED BY <1>5 DEF ChainsRight

(* Either way the count is a number.                                       *)
LEMMA CountIsNumber ==
  ASSUME Typed, freeSpace' \in {freeSpace, Cardinality(Free)}
  PROVE  freeSpace' \in Int
  BY FreeChanges DEF Typed

(* A step that leaves the FAT alone and begins no mapping.                 *)
LEMMA QuietStep ==
  ASSUME AllocRight, Typed', CallRight', fat' = fat,
         freeSpace' \in {freeSpace, Cardinality(Free)},
         UNCHANGED <<fatDirty, fatBits, storedFat, storedFree>>,
         \A f \in Files : Head(f)' \in {Head(f), 0},
         \A f \in open' : \/ prevRel'[f] = NoPos
                          \/ f \in open /\ prevRel'[f] = prevRel[f] /\ prevAbs'[f] = prevAbs[f],
         pc' \notin {"map", "info"}
  PROVE  AllocRight'
  BY CountStays, ChainsStay DEF AllocRight

-----------------------------------------------------------------------------
(* The steps that leave the FAT alone.                                     *)

(* pre_allocate_file reserves: no entry of the FAT and no stream's place   *)
(* changes.                                                                *)
LEMMA PreAllocateRight ==
  ASSUME AllocRight, NEW f \in Files, NEW n, PreAllocate(f, n)
  PROVE  AllocRight'
<1>1. /\ pc = "idle" /\ fat' = fat
      /\ UNCHANGED <<fatDirty, fatError, fatBits, storedFat, storedFree, present, start,
                     open, first, prevRel, prevAbs, pc, cf, cur, abs>>
  BY DEF PreAllocate, diskVars, entryVars, posVars, callVars
<1>2. freeSpace' \in {freeSpace, Cardinality(Free)}
  BY RecalcCounts DEF PreAllocate
<1>3. Typed'
  BY <1>1, <1>2, CountIsNumber DEF AllocRight, Typed
<1>4. CallRight'
  BY <1>1 DEF CallRight, Resting, Writing
<1>5. \A g \in Files : Head(g)' = Head(g)
  BY <1>1 DEF Head
<1> QED BY <1>1, <1>2, <1>3, <1>4, <1>5, QuietStep

(* What opening a stream does to the streams.                              *)
LEMMA StreamOpens ==
  ASSUME Typed, NEW f \in Files, NEW cluster \in Int, NEW n, OpenStream(f, cluster, n)
  PROVE  /\ open' = open \union {f} /\ open' \subseteq Files
         /\ first' \in Streams /\ prevRel' \in Streams /\ prevAbs' \in Streams
         /\ first'[f] = cluster /\ prevRel'[f] = NoPos
         /\ \A g \in Files \ {f} : /\ first'[g] = first[g]
                                   /\ prevRel'[g] = prevRel[g] /\ prevAbs'[g] = prevAbs[g]
  BY DEF Typed, OpenStream, Streams, NoPos

(* writeit opens a new stream, which has no cluster yet.                   *)
LEMMA CreateRight ==
  ASSUME AllocRight, NEW f \in Files, NEW n, Create(f, n)
  PROVE  AllocRight'
<1>1. /\ pc = "idle" /\ fat' = fat /\ f \notin open \union present
      /\ UNCHANGED <<fatDirty, fatError, fatBits, storedFat, storedFree, present, start,
                     pc, cf, cur, abs>>
  BY DEF Create, diskVars, entryVars, callVars
<1>2. freeSpace' \in {freeSpace, Cardinality(Free)}
  BY KnownCount DEF Create
<1>3. CASE OpenStream(f, 0, 0)
  <2>1. /\ open' = open \union {f} /\ open' \subseteq Files
        /\ first' \in Streams /\ prevRel' \in Streams /\ prevAbs' \in Streams
        /\ first'[f] = 0 /\ prevRel'[f] = NoPos
        /\ \A g \in Files \ {f} : /\ first'[g] = first[g]
                                  /\ prevRel'[g] = prevRel[g] /\ prevAbs'[g] = prevAbs[g]
    BY <1>3, StreamOpens DEF AllocRight
  <2>2. Typed'
    BY <1>1, <1>2, <2>1, CountIsNumber DEF AllocRight, Typed
  <2>3. CallRight'
    BY <1>1 DEF CallRight, Resting, Writing
  <2>4. \A g \in Files : Head(g)' \in {Head(g), 0}
    BY <1>1, <2>1 DEF Head
  <2>5. \A g \in open' : \/ prevRel'[g] = NoPos
                         \/ g \in open /\ prevRel'[g] = prevRel[g] /\ prevAbs'[g] = prevAbs[g]
    BY <2>1
  <2> QED BY <1>1, <1>2, <2>2, <2>3, <2>4, <2>5, QuietStep
<1>4. CASE UNCHANGED streamVars
  <2>1. UNCHANGED <<open, first, prevRel, prevAbs>>
    BY <1>4 DEF streamVars, posVars
  <2>2. Typed'
    BY <1>1, <1>2, <2>1, CountIsNumber DEF AllocRight, Typed
  <2>3. CallRight'
    BY <1>1 DEF CallRight, Resting, Writing
  <2>4. \A g \in Files : Head(g)' = Head(g)
    BY <1>1, <2>1 DEF Head
  <2> QED BY <1>1, <1>2, <2>1, <2>2, <2>3, <2>4, QuietStep
<1> QED BY <1>3, <1>4 DEF Create

(* A stream on an existing file begins at the file's first cluster.        *)
LEMMA OpenRight ==
  ASSUME AllocRight, NEW f \in Files, Open(f)
  PROVE  AllocRight'
<1>1. /\ pc = "idle" /\ f \in present \ open
      /\ UNCHANGED <<fat, freeSpace, fatDirty, fatError, fatBits, storedFat, storedFree,
                     present, start, pc, cf, cur, abs>>
      /\ OpenStream(f, start[f], fsize[f])
  BY DEF Open, fsVars, diskVars, entryVars, callVars
<1>2. start[f] \in Int
  BY DEF AllocRight, Typed, Streams
<1>3. /\ open' = open \union {f} /\ open' \subseteq Files
      /\ first' \in Streams /\ prevRel' \in Streams /\ prevAbs' \in Streams
      /\ first'[f] = start[f] /\ prevRel'[f] = NoPos
      /\ \A g \in Files \ {f} : /\ first'[g] = first[g]
                                /\ prevRel'[g] = prevRel[g] /\ prevAbs'[g] = prevAbs[g]
  BY <1>1, <1>2, StreamOpens DEF AllocRight
<1>4. Typed'
  BY <1>1, <1>3 DEF AllocRight, Typed
<1>5. CallRight'
  BY <1>1 DEF CallRight, Resting, Writing
<1>6. \A g \in Files : Head(g)' = Head(g)
  BY <1>1, <1>3 DEF Head
<1>7. \A g \in open' : \/ prevRel'[g] = NoPos
                       \/ g \in open /\ prevRel'[g] = prevRel[g] /\ prevAbs'[g] = prevAbs[g]
  BY <1>3
<1> QED BY <1>1, <1>4, <1>5, <1>6, <1>7, QuietStep

(* The bytes are written: sizes and reservations change, the chain does    *)
(* not.                                                                    *)
LEMMA WriteBackRight ==
  ASSUME AllocRight, NEW k, WriteBack(k)
  PROVE  AllocRight'
<1>1. /\ pc = "write" /\ pc' = "idle" /\ cf' = NoFile /\ cur' = 0 /\ abs' = 0
      /\ UNCHANGED <<fat, fatDirty, fatError, fatBits, storedFat, storedFree, present, start,
                     open, first, prevRel, prevAbs>>
      /\ Recalc(cf, Grown(k), preSize[cf])
  BY DEF WriteBack, CallOver, diskVars, entryVars, posVars
<1>2. freeSpace' \in {freeSpace, Cardinality(Free)}
  BY <1>1, RecalcCounts
<1>3. Typed'
  BY <1>1, <1>2, CountIsNumber DEF AllocRight, Typed
<1>4. CallRight'
  BY <1>1 DEF CallRight, Resting, Writing
<1>5. \A g \in Files : Head(g)' = Head(g)
  BY <1>1 DEF Head
<1> QED BY <1>1, <1>2, <1>3, <1>4, <1>5, QuietStep

(* A write below that fails.                                               *)
LEMMA WriteErrorRight ==
  ASSUME AllocRight, WriteError
  PROVE  AllocRight'
<1>1. /\ pc = "write" /\ pc' = "failed"
      /\ UNCHANGED <<fat, freeSpace, fatDirty, fatError, fatBits, storedFat, storedFree,
                     present, start, open, first, prevRel, prevAbs, cf, cur, abs>>
  BY DEF WriteError, fsVars, diskVars, entryVars, streamVars, posVars, callVars
<1>2. Typed'
  BY <1>1 DEF AllocRight, Typed
<1>3. CallRight'
  BY <1>1 DEF AllocRight, CallRight, Resting, Writing
<1>4. \A g \in Files : Head(g)' = Head(g)
  BY <1>1 DEF Head
<1> QED BY <1>1, <1>2, <1>3, <1>4, QuietStep

(* The stream of a file is closed and its entry written.                   *)
LEMMA EntryWritten ==
  ASSUME AllocRight, NEW f \in open, NEW n, pc \in {"idle", "full", "failed"},
         CloseStream(f), SetEntry(f, first[f], n), pc' = "idle",
         UNCHANGED <<fat, freeSpace, fatDirty, fatError, fatBits, storedFat, storedFree>>,
         cur' \in Int, abs' \in Int
  PROVE  AllocRight'
<1>1. /\ f \in Files /\ open' = open \ {f} /\ present' = present \union {f}
      /\ first' \in Streams /\ prevRel' \in Streams /\ prevAbs' \in Streams
      /\ start' \in Streams /\ start'[f] = first[f]
      /\ \A g \in Files \ {f} : /\ first'[g] = first[g] /\ start'[g] = start[g]
                                /\ prevRel'[g] = prevRel[g] /\ prevAbs'[g] = prevAbs[g]
  BY DEF AllocRight, Typed, CloseStream, SetEntry, Streams, NoPos
<1>2. Typed'
  BY <1>1 DEF AllocRight, Typed
<1>3. CallRight'
  BY DEF CallRight, Resting, Writing
<1>4. \A g \in Files : Head(g)' = Head(g)
  BY <1>1 DEF Head
<1>5. \A g \in open' : g \in open /\ prevRel'[g] = prevRel[g] /\ prevAbs'[g] = prevAbs[g]
  BY <1>1 DEF AllocRight, Typed
<1> QED BY <1>1, <1>2, <1>3, <1>4, <1>5, QuietStep

(* The end of a copy that went well.                                       *)
LEMMA CloseRight ==
  ASSUME AllocRight, NEW f \in Files, Close(f)
  PROVE  AllocRight'
<1>1. /\ pc = "idle" /\ f \in open /\ CloseStream(f) /\ SetEntry(f, first[f], size[f])
      /\ UNCHANGED <<fat, freeSpace, fatDirty, fatError, fatBits, storedFat, storedFree,
                     pc, cur, abs>>
      /\ cur' \in Int /\ abs' \in Int
  BY DEF Close, fsVars, diskVars, callVars, AllocRight, Typed
<1> QED BY <1>1, EntryWritten

(* The end of a copy that ran out of space or could not be written.        *)
LEMMA CloseShortRight ==
  ASSUME AllocRight, NEW f \in Files, NEW n, CloseShort(f, n)
  PROVE  AllocRight'
<1>1. /\ pc \in {"full", "failed"} /\ f = cf /\ CloseStream(f) /\ SetEntry(f, first[f], n)
      /\ UNCHANGED <<fat, freeSpace, fatDirty, fatError, fatBits, storedFat, storedFree>>
      /\ pc' = "idle" /\ cur' = 0 /\ abs' = 0
  BY DEF CloseShort, CallOver, fsVars, diskVars
<1>2. f \in open
  BY <1>1 DEF AllocRight, CallRight, Writing
<1> QED BY <1>1, <1>2, EntryWritten

(* A directory that could not grow or be written.                          *)
LEMMA DropWriteRight ==
  ASSUME AllocRight, DropWrite
  PROVE  AllocRight'
<1>1. /\ pc \in {"full", "failed"} /\ pc' = "idle" /\ cf' = NoFile /\ cur' = 0 /\ abs' = 0
      /\ UNCHANGED <<fat, freeSpace, fatDirty, fatError, fatBits, storedFat, storedFree,
                     present, start, open, first, prevRel, prevAbs>>
  BY DEF DropWrite, CallOver, fsVars, diskVars, entryVars, streamVars, posVars
<1>2. Typed'
  BY <1>1 DEF AllocRight, Typed
<1>3. CallRight'
  BY <1>1 DEF CallRight, Resting, Writing
<1>4. \A g \in Files : Head(g)' = Head(g)
  BY <1>1 DEF Head
<1> QED BY <1>1, <1>2, <1>3, <1>4, QuietStep

(* getfree counts the free clusters.                                       *)
LEMMA GetFreeRight ==
  ASSUME AllocRight, GetFree
  PROVE  AllocRight'
<1>1. /\ pc = "idle" /\ freeSpace' = Cardinality(Free)
      /\ UNCHANGED <<fat, fatDirty, fatError, fatBits, storedFat, storedFree, present, start,
                     open, first, prevRel, prevAbs, pc, cf, cur, abs>>
  BY DEF GetFree, diskVars, entryVars, streamVars, posVars, callVars
<1>2. Typed'
  BY <1>1, CountIsNumber DEF AllocRight, Typed
<1>3. CallRight'
  BY <1>1 DEF CallRight, Resting, Writing
<1>4. \A g \in Files : Head(g)' = Head(g)
  BY <1>1 DEF Head
<1> QED BY <1>1, <1>2, <1>3, <1>4, QuietStep
-----------------------------------------------------------------------------
(* The steps that change the FAT.                                          *)

(* A cluster n is taken: the count follows.                                *)
LEMMA CountTakes ==
  ASSUME Typed, Counted, NEW n \in Free, Free' = Free \ {n}, freeSpace' = Less, fatDirty',
         pc' # "info"
  PROVE  Counted' /\ freeSpace' \in Int
<1>1. Cardinality(Free') = Cardinality(Free) - 1 /\ Cardinality(Free) > 0
      /\ Cardinality(Free) \in Nat
  BY FreeChanges
<1> QED BY <1>1 DEF Counted, FreeSpaceExact, Less, Unknown, Typed

(* A cluster c is given back.                                              *)
LEMMA CountGives ==
  ASSUME Typed, Counted, NEW c \in Clusters \ Free, Free' = Free \union {c},
         freeSpace' = More, fatDirty', pc' # "info"
  PROVE  Counted' /\ freeSpace' \in Int
<1>1. Cardinality(Free') = Cardinality(Free) + 1 /\ Cardinality(Free) \in Nat
  BY FreeChanges
<1> QED BY <1>1 DEF Counted, FreeSpaceExact, More, Unknown, Typed

(* The first cluster of a stream, and where normal_map begins.             *)
LEMMA BeginWriteRight ==
  ASSUME FilesFit, AllocRight, NEW f \in Files, NEW w \in 0..MaxSize, NEW n,
         BeginWrite(f, w, n)
  PROVE  AllocRight'
<1>1. /\ pc = "idle" /\ f \in open /\ cf' = f
      /\ UNCHANGED <<fatError, fatBits, storedFat, storedFree, present, start,
                     open, prevRel, prevAbs>>
  BY DEF BeginWrite, diskVars, entryVars, posVars
<1>2. /\ first \in Streams /\ prevRel \in Streams /\ prevAbs \in Streams
      /\ cur \in Int /\ abs \in Int /\ fatError = FALSE
  BY DEF AllocRight, Typed
<1>3. PICK o \in Owners : Owned(o)
  BY DEF AllocRight, ChainsRight
<1>4. Heads \in [Files -> Int] /\ \A g \in Files : Heads[g] = Head(g)
  BY HeadsAre DEF AllocRight
<1>5. Heads[f] = first[f]
  BY <1>1, <1>4 DEF Head
<1>6. CASE first[f] # 0
  <2>1. /\ cur' = IF Resumes(f, w) THEN prevRel[f] ELSE 0
        /\ abs' = IF Resumes(f, w) THEN prevAbs[f] ELSE first[f]
        /\ pc' = "map"
        /\ UNCHANGED <<fat, fatDirty, freeSpace, first>>
    BY <1>6 DEF BeginWrite, fsVars
  <2>2. Resumes(f, w) => prevRel[f] # NoPos
    <3>1. w \in Int /\ ClusSize \in Nat \ {0}
      BY FatAllocAssumption
    <3>2. Rel(w) \in Int
      BY <3>1 DEF Rel
    <3>3. Rel(w) < NoPos
      BY DEF FilesFit
    <3> QED BY <3>2, <3>3 DEF Resumes, NoPos
  <2>3. Belongs(first[f], f, fat, o)
    BY <1>3, <1>5, <1>6 DEF Owned, Sound, Belongs
  <2>4. Belongs(abs', f, fat, o)
    BY <1>1, <1>3, <2>1, <2>2, <2>3 DEF Owned
  <2>5. Typed'
    BY <1>1, <1>2, <2>1 DEF AllocRight, Typed, Streams
  <2>6. CallRight'
    BY <1>1, <2>1 DEF CallRight, Resting, Writing
  <2>7. Counted'
    BY <1>1, <2>1, CountStays DEF AllocRight
  <2>8. Heads' = Heads
    BY <1>1, <2>1 DEF Heads, Head
  <2>9. Owned(o)'
    BY <1>1, <1>3, <2>1, <2>4, <2>8 DEF Owned
  <2> QED BY <2>5, <2>6, <2>7, <2>9 DEF AllocRight, ChainsRight
<1>7. CASE first[f] = 0 /\ NextFree(1) = 1
  <2>1. pc' = "full" /\ UNCHANGED <<fat, fatDirty, freeSpace, first, cur, abs>>
    BY <1>7 DEF BeginWrite, fsVars
  <2>2. Typed'
    BY <1>1, <2>1 DEF AllocRight, Typed
  <2>3. CallRight'
    BY <1>1, <2>1 DEF CallRight, Resting, Writing
  <2>4. \A g \in Files : Head(g)' = Head(g)
    BY <1>1, <2>1 DEF Head
  <2> QED BY <1>1, <2>1, <2>2, <2>3, <2>4, QuietStep
<1>8. CASE first[f] = 0 /\ NextFree(1) # 1
  <2> DEFINE new == NextFree(1)
  <2>1. /\ fat' = [fat EXCEPT ![new] = EndFat] /\ fatDirty' = TRUE /\ freeSpace' = Less
        /\ first' = [first EXCEPT ![f] = new] /\ cur' = 0 /\ abs' = new /\ pc' = "map"
    BY <1>8 DEF BeginWrite, Allocated
  <2>2. new \in Free /\ new \in Clusters /\ fat[new] = 0
    BY <1>8, NextFreeIs DEF Free
  <2> HIDE DEF new
  <2>3. new \in Int /\ new # 0
    BY <2>2, ClustersAre
  <2>4. PICK p \in Owners :
        /\ Sound(fat', [Heads EXCEPT ![f] = new], p)
        /\ \A c, g : Belongs(c, g, fat, o) => Belongs(c, g, fat', p)
        /\ Belongs(new, f, fat', p)
    BY <1>3, <1>4, <1>5, <1>8, <2>1, <2>2, AllocateKeeps DEF Owned
  <2>5. first' \in Streams /\ first'[f] = new /\ \A g \in Files \ {f} : first'[g] = first[g]
    BY <1>2, <2>1, <2>3 DEF Streams
  <2>6. Free' = Free \ {new}
    <3>1. fat \in Table /\ EndFat # 0
      BY <1>3, ClustersAre DEF Owned, Sound
    <3>2. \A c \in Clusters : fat'[c] = IF c = new THEN EndFat ELSE fat[c]
      BY <2>1, <2>2, <3>1, ClustersAre DEF Table
    <3> QED BY <2>2, <3>1, <3>2 DEF Free
  <2>7. Counted' /\ freeSpace' \in Int
    BY <2>1, <2>2, <2>6, CountTakes DEF AllocRight
  <2>8. Typed'
    BY <1>1, <1>2, <2>1, <2>3, <2>5, <2>7 DEF AllocRight, Typed
  <2>9. CallRight'
    BY <1>1, <2>1 DEF CallRight, Resting, Writing
  <2>10. Heads' = [Heads EXCEPT ![f] = new]
    <3>1. \A g \in Files : Head(g)' = IF g = f THEN new ELSE Head(g)
      BY <1>1, <2>1, <2>5 DEF Head
    <3> QED BY <1>4, <3>1 DEF Heads
  <2>11. Owned(p)'
    BY <1>1, <1>3, <2>1, <2>4, <2>10 DEF Owned
  <2> QED BY <2>4, <2>7, <2>8, <2>9, <2>11 DEF AllocRight, ChainsRight
<1> QED BY <1>6, <1>7, <1>8
(* One link of the chain, followed or made.                                *)
LEMMA MapStepRight ==
  ASSUME AllocRight, MapStep
  PROVE  AllocRight'
<1> DEFINE old  == Decode(abs)
           grow == ~AtTarget /\ old = EndFat
           new  == IF grow THEN NextFree(abs) ELSE old
<1>1. /\ pc = "map" /\ Remember
      /\ UNCHANGED <<fatError, fatBits, storedFat, storedFree, present, start, open, first, cf>>
      /\ IF grow /\ new # 1
         THEN fat' = Appended(abs, new) /\ fatDirty' = TRUE /\ freeSpace' = Less
         ELSE UNCHANGED <<fat, fatDirty, freeSpace>>
      /\ IF old \in {0, 1} THEN pc' = "stopped" /\ UNCHANGED <<cur, abs>>
         ELSE IF grow /\ new = 1 THEN pc' = "full" /\ UNCHANGED <<cur, abs>>
         ELSE IF AtTarget \/ Breaks(new) THEN pc' = "write" /\ UNCHANGED <<cur, abs>>
         ELSE cur' = cur + 1 /\ abs' = new /\ UNCHANGED pc
  BY DEF MapStep, diskVars, entryVars, fsVars
<1>2. /\ first \in Streams /\ prevRel \in Streams /\ prevAbs \in Streams
      /\ cur \in Int /\ abs \in Int /\ fatError = FALSE /\ cf \in open /\ cf \in Files
  BY <1>1 DEF AllocRight, Typed, CallRight, Writing
<1>3. PICK o \in Owners : Owned(o)
  BY DEF AllocRight, ChainsRight
<1>4. Belongs(abs, cf, fat, o) /\ Sound(fat, Heads, o)
  BY <1>1, <1>3 DEF Owned
<1>5. /\ abs \in Clusters /\ fat[abs] # 0 /\ old = fat[abs]
      /\ old = EndFat \/ (old \in Clusters /\ fat[old] # 0 /\ o[old] = cf)
      /\ old \notin {0, 1}
  <2>1. abs \in Clusters /\ fat[abs] # 0 /\ o[abs] = cf /\ fat[abs] \in Entries
    BY <1>4 DEF Belongs, Sound
  <2>2. Decode(abs) = fat[abs]
    BY <2>1 DEF Decode, Clusters
  <2>3. fat[abs] = EndFat \/ (fat[abs] \in Clusters /\ fat[fat[abs]] # 0 /\ o[fat[abs]] = cf)
    BY <1>4, <2>1 DEF Entries, Sound
  <2> QED BY <2>1, <2>2, <2>3, ClustersAre
<1>6. /\ prevRel' \in Streams /\ prevAbs' \in Streams
      /\ \A f \in Files : \/ prevRel'[f] = prevRel[f] /\ prevAbs'[f] = prevAbs[f]
                          \/ f = cf /\ prevAbs'[f] = abs
  BY <1>1, <1>2 DEF Remember, Streams, posVars
<1>7. Heads' = Heads
  <2>1. pc' # "delete"
    BY <1>1
  <2> QED BY <1>1, <2>1 DEF Heads, Head
<1>8. pc' \in {"map", "write", "full"}
  BY <1>1, <1>5
<1>9. CallRight'
  BY <1>1, <1>2, <1>8 DEF CallRight, Writing
<1>10. open \subseteq Files
  BY DEF AllocRight, Typed
<1>11. CASE grow /\ new # 1
  <2>1. /\ new \in Free /\ new \in Clusters /\ fat[new] = 0 /\ new \in Int
    BY <1>11, NextFreeIs, ClustersAre DEF Free
  <2>2. /\ fat' = [fat EXCEPT ![abs] = new, ![new] = EndFat]
        /\ fatDirty' = TRUE /\ freeSpace' = Less
    BY <1>1, <1>11 DEF Appended
  <2>3. cur' \in Int /\ abs' \in {abs, new} /\ fat[abs] = EndFat /\ (pc' = "map" => abs' = new)
    BY <1>1, <1>2, <1>5, <1>8, <1>11
  <2> HIDE DEF new
  <2>4. PICK p \in Owners :
        /\ Sound(fat', Heads, p) /\ fat'[new] = EndFat /\ fat'[abs] = new
        /\ \A c, g : Belongs(c, g, fat, o) => Belongs(c, g, fat', p)
        /\ Belongs(new, cf, fat', p)
    <3> DEFINE u == [fat EXCEPT ![abs] = new, ![new] = EndFat]
               q == [o EXCEPT ![new] = cf]
    <3>1. fat[abs] = EndFat /\ fat[new] = 0 /\ new \in Clusters /\ o \in Owners /\ cf \in Files
      BY <1>2, <2>1, <2>3
    <3>2. /\ Sound(u, Heads, q) /\ q \in Owners /\ u[new] = EndFat /\ u[abs] = new
          /\ \A c, g : Belongs(c, g, fat, o) => Belongs(c, g, u, q)
          /\ Belongs(new, cf, u, q)
      BY <1>4, <3>1, AppendKeeps
    <3>3. fat' = u
      BY <2>2
    <3> HIDE DEF u, q
    <3> QED BY <3>2, <3>3
  <2>5. Free' = Free \ {new}
    <3>1. fat \in Table /\ EndFat # 0 /\ 0 \notin Clusters /\ fat[abs] # 0
      BY <1>4, <1>5, ClustersAre DEF Sound
    <3>2. \A c \in Clusters : c # abs /\ c # new => fat'[c] = fat[c]
      BY <2>1, <2>2, <3>1, ClustersAre DEF Table
    <3> QED BY <1>5, <2>1, <2>4, <3>1, <3>2 DEF Free
  <2>6. Counted' /\ freeSpace' \in Int
    BY <1>8, <2>1, <2>2, <2>5, CountTakes DEF AllocRight
  <2>7. Typed'
    BY <1>1, <1>2, <1>6, <2>1, <2>2, <2>3, <2>6 DEF AllocRight, Typed
  <2>8. \A f \in open' : prevRel'[f] # NoPos => Belongs(prevAbs'[f], f, fat', p)
    BY <1>1, <1>3, <1>4, <1>6, <1>10, <2>4 DEF Owned
  <2>9. pc' = "map" => Belongs(abs', cf', fat', p)
    BY <1>1, <2>3, <2>4
  <2>10. Owned(p)'
    BY <1>7, <2>4, <2>8, <2>9 DEF Owned
  <2> QED BY <1>9, <2>6, <2>7, <2>10 DEF AllocRight, ChainsRight
<1>12. CASE ~(grow /\ new # 1)
  <2>1. UNCHANGED <<fat, fatDirty, freeSpace>>
    BY <1>1, <1>12
  <2>2. \/ UNCHANGED <<cur, abs>> /\ pc' # "map"
        \/ cur' = cur + 1 /\ abs' = old /\ old # EndFat
    BY <1>1, <1>5, <1>12
  <2>3. Belongs(old, cf, fat, o) \/ old = EndFat
    BY <1>5 DEF Belongs
  <2>4. cur' \in Int /\ abs' \in Int
    <3>1. old \in Int
      BY <1>5, ClustersAre
    <3> HIDE DEF old
    <3> QED BY <1>2, <2>2, <3>1
  <2>5. Typed'
    BY <1>1, <1>2, <1>6, <2>1, <2>4 DEF AllocRight, Typed
  <2>6. Counted'
    BY <1>1, <1>8, <2>1, CountStays DEF AllocRight
  <2>7. \A f \in open' : prevRel'[f] # NoPos => Belongs(prevAbs'[f], f, fat, o)
    BY <1>1, <1>3, <1>4, <1>6, <1>10 DEF Owned
  <2>8. pc' = "map" => Belongs(abs', cf', fat, o)
    BY <1>1, <2>2, <2>3
  <2>9. Owned(o)'
    BY <1>4, <1>7, <2>1, <2>7, <2>8 DEF Owned
  <2> QED BY <1>9, <2>5, <2>6, <2>9 DEF AllocRight, ChainsRight
<1> QED BY <1>11, <1>12

(* A deletion begins: the chain becomes that of the call.                  *)
LEMMA DeleteRight ==
  ASSUME AllocRight, NEW f \in Files, Delete(f)
  PROVE  AllocRight'
<1>1. /\ pc = "idle" /\ f \in present \ open
      /\ UNCHANGED <<fat, fatDirty, freeSpace, fatError, fatBits, storedFat, storedFree,
                     open, first, prevRel, prevAbs, abs>>
  <2>1. CASE start[f] = 0
    BY <2>1 DEF Delete, fsVars, diskVars, posVars, callVars
  <2>2. CASE start[f] # 0
    BY <2>2 DEF Delete, fsVars, diskVars, posVars
  <2> QED BY <2>1, <2>2
<1>2. start \in Streams /\ present \subseteq Files
  BY DEF AllocRight, Typed
<1>3. CASE start[f] = 0
  <2>1. pc' = pc /\ cur' = cur /\ present' = present \ {f} /\ start' = [start EXCEPT ![f] = 0]
    BY <1>3 DEF Delete, RemoveEntry, callVars
  <2>2. start' \in Streams /\ \A g \in Files : start'[g] = start[g]
    BY <1>2, <1>3, <2>1 DEF Streams
  <2>3. Typed'
    BY <1>1, <2>1, <2>2 DEF AllocRight, Typed
  <2>4. CallRight'
    BY <1>1, <2>1 DEF CallRight, Resting, Writing
  <2>5. \A g \in Files : Head(g)' \in {Head(g), 0}
    BY <1>1, <1>3, <2>1, <2>2 DEF Head
  <2> QED BY <1>1, <2>1, <2>3, <2>4, <2>5, QuietStep
<1>4. CASE start[f] # 0
  <2>1. /\ pc' = "delete" /\ cf' = f /\ cur' = start[f] /\ present' = present
        /\ start' = start
    BY <1>4 DEF Delete, entryVars
  <2>2. Typed'
    BY <1>1, <1>2, <2>1 DEF AllocRight, Typed, Streams
  <2>3. \A g \in Files : Head(g)' = Head(g)
    BY <1>1, <2>1 DEF Head
  <2>4. CallRight'
    BY <1>1, <1>4, <2>1 DEF CallRight, Resting, Writing, Head
  <2> QED BY <1>1, <2>1, <2>2, <2>3, <2>4, QuietStep
<1> QED BY <1>3, <1>4

(* One cluster is freed: the first of the chain that goes.                 *)
LEMMA FreeStepRight ==
  ASSUME AllocRight, FreeStep
  PROVE  AllocRight'
<1>1. /\ pc = "delete" /\ cf \in present /\ cf \notin open /\ cf \in Files /\ cur # 0
  <2>1. pc \in {"delete", "abort"}
    BY DEF FreeStep
  <2>2. pc = "delete" /\ cf \in present /\ cf \notin open /\ Head(cf) # 0
    BY <2>1 DEF AllocRight, CallRight, Resting, Writing
  <2> QED BY <2>2 DEF AllocRight, Typed, Head
<1>2. /\ start \in Streams /\ first \in Streams /\ prevRel \in Streams
      /\ prevAbs \in Streams /\ present \subseteq Files /\ open \subseteq Files
      /\ cur \in Int /\ abs \in Int
  BY DEF AllocRight, Typed
<1>3. PICK o \in Owners : Owned(o)
  BY DEF AllocRight, ChainsRight
<1>4. Heads \in [Files -> Int] /\ Heads[cf] = cur /\ \A g \in Files : Heads[g] = Head(g)
  BY <1>1, HeadsAre DEF AllocRight, Head
<1>5. fat' = [fat EXCEPT ![cur] = 0] /\ fatDirty' = TRUE /\ freeSpace' = More
  BY DEF FreeStep
<1>6. /\ cur \in Clusters /\ fat[cur] # 0 /\ fat[cur] \in Entries
      /\ fat[cur] \in Clusters => Sound(fat', [Heads EXCEPT ![cf] = fat[cur]], o)
      /\ Sound(fat', [Heads EXCEPT ![cf] = 0], o)
      /\ \A d, g : Belongs(d, g, fat, o) /\ g # cf => Belongs(d, g, fat', o)
  <2>1. Sound(fat, Heads, o)
    BY <1>3 DEF Owned
  <2> QED BY <1>1, <1>4, <1>5, <2>1, FreeKeeps
<1>7. Successor = fat[cur]
  BY <1>6 DEF Successor, Decode, Clusters
<1>8. Successor # 1 /\ (Successor = EndFat \/ Successor \in Clusters)
  BY <1>6, <1>7, ClustersAre DEF Entries
<1>9. /\ fatError' = FALSE
      /\ UNCHANGED <<fatBits, storedFat, storedFree, open, first, prevRel, prevAbs>>
  BY <1>8 DEF FreeStep, diskVars, posVars
<1>10. Free' = Free \union {cur} /\ cur \in Clusters \ Free
  <2>1. fat \in Table /\ cur \in FatRange
    BY <1>3, <1>6, ClustersAre DEF Owned, Sound
  <2>2. \A c \in Clusters : fat'[c] = IF c = cur THEN 0 ELSE fat[c]
    BY <1>5, <1>6, <2>1, ClustersAre DEF Table
  <2> QED BY <1>6, <2>2 DEF Free
<1>11. \A g \in open : prevRel[g] # NoPos => Belongs(prevAbs[g], g, fat', o)
  BY <1>1, <1>3, <1>6 DEF Owned
<1>12. CASE Successor = EndFat
  <2>1. /\ pc' = "idle" /\ cf' = NoFile /\ cur' = 0 /\ abs' = 0
        /\ present' = present \ {cf} /\ start' = [start EXCEPT ![cf] = 0]
    BY <1>1, <1>12 DEF FreeStep, FreeReturns, CallOver, RemoveEntry
  <2>2. start' \in Streams /\ \A g \in Files \ {cf} : start'[g] = start[g]
    <3>1. start' = [start EXCEPT ![cf] = 0] /\ start \in [Files -> Int] /\ cf \in Files
      BY <1>1, <1>2, <2>1 DEF Streams
    <3>2. start' \in [Files -> Int]
      BY <3>1
    <3>3. \A g \in Files \ {cf} : start'[g] = start[g]
      BY <3>1
    <3> QED BY <3>2, <3>3 DEF Streams
  <2>3. Counted' /\ freeSpace' \in Int
    BY <1>5, <1>10, <2>1, CountGives DEF AllocRight
  <2>4. Typed'
    BY <1>2, <1>5, <1>9, <2>1, <2>2, <2>3 DEF AllocRight, Typed
  <2>5. CallRight'
    BY <2>1 DEF CallRight, Resting, Writing
  <2>6. Heads' = [Heads EXCEPT ![cf] = 0]
    <3>1. \A g \in Files : Head(g)' = IF g = cf THEN 0 ELSE Head(g)
      BY <1>1, <1>9, <2>1, <2>2 DEF Head
    <3> QED BY <1>4, <3>1 DEF Heads
  <2>7. Owned(o)'
    BY <1>6, <1>9, <1>11, <2>1, <2>6 DEF Owned
  <2> QED BY <2>3, <2>4, <2>5, <2>7 DEF AllocRight, ChainsRight
<1>13. CASE Successor \in Clusters
  <2>1. cur' = Successor /\ UNCHANGED <<pc, present, start, cf, abs>>
    BY <1>8, <1>13, ClustersAre DEF FreeStep, entryVars
  <2>2. Successor \in Int /\ Successor # 0
    BY <1>13, ClustersAre
  <2>3. Counted' /\ freeSpace' \in Int
    BY <1>1, <1>5, <1>10, <2>1, CountGives DEF AllocRight
  <2>4. Typed'
    BY <1>2, <1>5, <1>9, <2>1, <2>2, <2>3 DEF AllocRight, Typed
  <2>5. \A g \in Files : Head(g)' = IF g = cf THEN Successor ELSE Head(g)
    BY <1>1, <1>9, <2>1 DEF Head
  <2>6. CallRight'
    BY <1>1, <1>9, <2>1, <2>2, <2>5 DEF CallRight, Resting, Writing
  <2>7. Heads' = [Heads EXCEPT ![cf] = fat[cur]]
    BY <1>4, <1>7, <2>5 DEF Heads
  <2>8. Sound(fat', Heads', o)
    BY <1>6, <1>7, <1>13, <2>7
  <2>9. Owned(o)'
    BY <1>1, <1>9, <1>11, <2>1, <2>8 DEF Owned
  <2> QED BY <2>3, <2>4, <2>6, <2>9 DEF AllocRight, ChainsRight
<1> QED BY <1>8, <1>12, <1>13

(* The FAT is written, and the info sector.                                *)
LEMMA FatWriteRight ==
  ASSUME NoFailures, AllocRight, FatWrite
  PROVE  AllocRight'
<1>1. /\ pc = "idle" /\ storedFat' = fat
      /\ UNCHANGED <<fat, freeSpace, fatError, fatBits, storedFree, present, start,
                     open, first, prevRel, prevAbs, cf, cur, abs>>
      /\ IF fatBits = 32 THEN pc' = "info" /\ fatDirty' = fatDirty
         ELSE fatDirty' = FALSE /\ pc' = pc
      /\ fatDirty
  BY DEF FatWrite, entryVars, streamVars, posVars, callVars
<1>2. Typed'
  BY <1>1 DEF AllocRight, Typed
<1>3. CallRight'
  BY <1>1 DEF CallRight, Resting, Writing
<1>4. Free' = Free
  BY <1>1 DEF Free
<1>5. Counted'
  BY <1>1, <1>4 DEF AllocRight, Counted, FreeSpaceExact
<1>6. ChainsRight'
  <2>1. \A g \in Files : Head(g)' = Head(g)
    BY <1>1 DEF Head
  <2>2. pc' # "map"
    BY <1>1
  <2> QED BY <1>1, <1>2, <2>1, <2>2, ChainsStay DEF AllocRight
<1> QED BY <1>2, <1>3, <1>5, <1>6 DEF AllocRight

(* The info sector of a FAT32 follows: its count is the one just stored    *)
(* with the FAT.                                                           *)
LEMMA InfoWriteRight ==
  ASSUME AllocRight, InfoWrite
  PROVE  AllocRight'
<1>1. /\ pc = "info" /\ storedFree' = freeSpace /\ fatDirty' = FALSE /\ pc' = "idle"
      /\ UNCHANGED <<fat, freeSpace, fatError, fatBits, storedFat, present, start,
                     open, first, prevRel, prevAbs, cf, cur, abs>>
  BY DEF InfoWrite, entryVars, streamVars, posVars, callVars
<1>2. Typed'
  BY <1>1 DEF AllocRight, Typed
<1>3. CallRight'
  BY <1>1 DEF CallRight, Resting, Writing
<1>4. Free' = Free
  BY <1>1 DEF Free
<1>5. Counted'
  BY <1>1, <1>4 DEF AllocRight, Counted, FreeSpaceExact, Unknown
<1>6. ChainsRight'
  <2>1. \A g \in Files : Head(g)' = Head(g)
    BY <1>1 DEF Head
  <2>2. pc' # "map"
    BY <1>1
  <2> QED BY <1>1, <1>2, <2>1, <2>2, ChainsStay DEF AllocRight
<1> QED BY <1>2, <1>3, <1>5, <1>6 DEF AllocRight

(* The next command reads the FAT that the last one wrote.                 *)
LEMMA NextCommandRight ==
  ASSUME AllocRight, NextCommand
  PROVE  AllocRight'
<1>1. pc = "idle" /\ open = {} /\ ~fatDirty /\ FatRead
  BY DEF NextCommand
<1>2. storedFat = fat /\ (fatBits = 32 => storedFree \in {Unknown, Cardinality(Free)})
  BY <1>1 DEF AllocRight, Counted
<1>3. /\ fat' = fat /\ fatDirty' = FALSE /\ fatError' = FALSE
      /\ freeSpace' = IF fatBits = 32 THEN storedFree ELSE Unknown
      /\ open' = {} /\ first' = [f \in Files |-> 0]
      /\ prevRel' = [f \in Files |-> NoPos] /\ prevAbs' = [f \in Files |-> 0]
      /\ pc' \in {"idle", "refused"} /\ cf' = NoFile /\ cur' = 0 /\ abs' = 0
      /\ UNCHANGED <<fatBits, storedFat, storedFree, present, start>>
  BY <1>1, <1>2 DEF FatRead, NoStreams, CallOver, diskVars, entryVars
<1>4. Free' = Free
  BY <1>3 DEF Free
<1>5. Counted'
  BY <1>1, <1>2, <1>3, <1>4 DEF AllocRight, Counted, FreeSpaceExact
<1>6. NoPos \in Int /\ Unknown \in Int
  BY DEF NoPos, Unknown
<1>7. first' \in Streams /\ prevRel' \in Streams /\ prevAbs' \in Streams
  BY <1>3, <1>6 DEF Streams
<1>8. Typed'
  <2>1. freeSpace' \in Int /\ storedFree' \in Int /\ start' \in Streams /\ present' \subseteq Files
    BY <1>3, <1>6 DEF AllocRight, Typed
  <2>2. /\ open' \subseteq Files /\ cur' \in Int /\ abs' \in Int
        /\ fatDirty' = FALSE /\ fatError' = FALSE
    BY <1>3
  <2> QED BY <1>7, <2>1, <2>2 DEF Typed
<1>9. CallRight'
  BY <1>3 DEF CallRight, Resting, Writing
<1>10. \A g \in Files : Head(g)' = Head(g)
  BY <1>1, <1>3 DEF Head
<1>11. ChainsRight'
  BY <1>3, <1>8, <1>10, ChainsStay DEF AllocRight
<1> QED BY <1>5, <1>8, <1>9, <1>11 DEF AllocRight

-----------------------------------------------------------------------------
(* A disk without files.                                                   *)
LEMMA InitRight ==
  ASSUME Init
  PROVE  AllocRight
<1>1. /\ fat = [c \in FatRange |-> IF c < 2 THEN EndFat ELSE 0]
      /\ storedFat = fat /\ fatDirty = FALSE /\ fatError = FALSE
      /\ storedFree \in {Unknown, NumClus} /\ freeSpace = storedFree
      /\ present = {} /\ start = [f \in Files |-> 0]
      /\ open = {} /\ first = [f \in Files |-> 0]
      /\ prevRel = [f \in Files |-> NoPos] /\ prevAbs = [f \in Files |-> 0]
      /\ pc = "idle" /\ cur = 0 /\ abs = 0
  BY DEF Init
<1>2. NumClus \in Nat \ {0} /\ NoPos \in Int /\ Unknown \in Int
  BY FatAllocAssumption DEF NoPos, Unknown
<1>3. \A c \in Clusters : fat[c] = 0
  BY <1>1, <1>2 DEF Clusters, FatRange
<1>4. Free = Clusters /\ Cardinality(Free) = NumClus
  BY <1>3, ClustersAre DEF Free
<1>5. Typed
  <2>1. start \in Streams /\ first \in Streams /\ prevRel \in Streams /\ prevAbs \in Streams
    BY <1>1, <1>2 DEF Streams
  <2>2. /\ freeSpace \in Int /\ storedFree \in Int /\ cur \in Int /\ abs \in Int
        /\ present \subseteq Files /\ open \subseteq Files
        /\ fatDirty = FALSE /\ fatError = FALSE
    BY <1>1, <1>2
  <2> QED BY <2>1, <2>2 DEF Typed
<1>6. CallRight
  BY <1>1 DEF CallRight, Resting, Writing
<1>7. Counted
  BY <1>1, <1>4 DEF Counted, FreeSpaceExact
<1>8. \A f \in Files : Heads[f] = 0
  <2>1. \A f \in Files : Head(f) = 0
    BY <1>1 DEF Head
  <2> QED BY <1>5, <2>1, HeadsAre
<1>9. PICK o \in Owners : TRUE
  <2>1. [c \in Clusters |-> NoFile] \in Owners
    BY DEF Owners
  <2> QED BY <2>1
<1>10. fat \in Table
  BY <1>1, ClustersAre DEF Table
<1>11. Sound(fat, Heads, o)
  BY <1>3, <1>8, <1>10, ClustersAre DEF Sound, Entries
<1>12. Owned(o)
  BY <1>1, <1>11 DEF Owned
<1> QED BY <1>5, <1>6, <1>7, <1>9, <1>12 DEF AllocRight, ChainsRight

(* A step that changes nothing.                                            *)
LEMMA StutterRight ==
  ASSUME AllocRight, UNCHANGED vars
  PROVE  AllocRight'
<1>1. UNCHANGED <<fat, freeSpace, fatDirty, fatError, fatBits, storedFat, storedFree, present,
                  start, open, first, prevRel, prevAbs, pc, cf, cur, abs>>
  BY DEF vars, fsVars, diskVars, entryVars, streamVars, posVars, callVars
<1>2. Typed'
  BY <1>1 DEF AllocRight, Typed
<1>3. CallRight'
  BY <1>1 DEF AllocRight, CallRight, Head
<1>4. Counted'
  BY <1>1 DEF AllocRight, Counted, FreeSpaceExact, Free
<1>5. Heads' = Heads
  BY <1>1 DEF Heads, Head
<1>6. ChainsRight'
  BY <1>1, <1>5 DEF AllocRight, ChainsRight, Owned, Belongs
<1> QED BY <1>2, <1>3, <1>4, <1>6 DEF AllocRight

(* Every step, while no copy fails and no command is killed.               *)
LEMMA NextRight ==
  ASSUME NoFailures, FilesFit, AllocRight, [Next]_vars
  PROVE  AllocRight'
<1>1. ASSUME NEW f \in Files, CloseFailed(f)
      PROVE  FALSE
  BY <1>1 DEF CloseFailed, NoFailures
<1>2. ASSUME Crash
      PROVE  FALSE
  BY <1>2 DEF Crash, NoFailures
<1>3. ASSUME FreeStops
      PROVE  FALSE
  BY <1>3 DEF FreeStops, AllocRight, Typed
<1>4. CASE CallStep
  BY <1>3, <1>4, MapStepRight, WriteBackRight, WriteErrorRight, FreeStepRight, InfoWriteRight
     DEF CallStep
<1>5. CASE \E f \in Files, w \in 0..MaxSize, n \in 1..MaxSize : BeginWrite(f, w, n)
  BY <1>5, BeginWriteRight
<1>6. CASE \/ \E f \in Files, n \in 0..MaxSize : Create(f, n)
           \/ \E f \in Files : Open(f)
           \/ \E f \in Files, n \in 1..MaxSize : PreAllocate(f, n)
  BY <1>6, CreateRight, OpenRight, PreAllocateRight
<1>7. CASE \/ \E f \in Files : Close(f)
           \/ \E f \in Files, n \in 1..MaxSize : CloseShort(f, n)
           \/ DropWrite
           \/ \E f \in Files : Delete(f)
  BY <1>7, CloseRight, CloseShortRight, DropWriteRight, DeleteRight
<1>8. CASE GetFree \/ FatWrite \/ NextCommand \/ UNCHANGED vars
  BY <1>8, GetFreeRight, FatWriteRight, NextCommandRight, StutterRight
<1> QED BY <1>1, <1>2, <1>4, <1>5, <1>6, <1>7, <1>8 DEF Next

-----------------------------------------------------------------------------
(* The theorems.                                                           *)

(* The invariant holds in every state.                                     *)
LEMMA RightAlways ==
  ASSUME NoFailures, FilesFit
  PROVE  Spec => []AllocRight
<1>1. Init => AllocRight
  BY InitRight
<1>2. AllocRight /\ [Next]_vars => AllocRight'
  BY NextRight
<1> QED BY <1>1, <1>2, PTL DEF Spec

(* While no copy fails and no command is killed, every cluster has one     *)
(* owner, in every step of every call: no two files ever share a cluster,  *)
(* and no link and no file leads to a free one (fat.c, file.c,             *)
(* fat_free.c).                                                            *)
THEOREM ChainsDisjointAlways ==
  ASSUME NoFailures, FilesFit
  PROVE  Spec => []ChainsDisjoint
<1>1. AllocRight => ChainsDisjoint
  <2> SUFFICES ASSUME AllocRight PROVE ChainsDisjoint
    OBVIOUS
  <2>1. PICK o \in Owners : Owned(o)
    BY DEF AllocRight, ChainsRight
  <2>2. Sound(fat, Heads, o) /\ \A f \in Files : Heads[f] = Head(f)
    BY <2>1, HeadsAre DEF AllocRight, Owned
  <2> QED BY <2>2 DEF Sound, ChainsDisjoint
<1> QED BY <1>1, RightAlways, PTL

(* ... and the count of free clusters that the filesystem keeps is exact   *)
(* as soon as it is known, across commands as well: a FAT32 stores it on   *)
(* the disk (fat.c, fat_free.c).                                           *)
THEOREM FreeSpaceExactAlways ==
  ASSUME NoFailures, FilesFit
  PROVE  Spec => []FreeSpaceExact
<1>1. AllocRight => FreeSpaceExact
  BY DEF AllocRight, Counted
<1> QED BY <1>1, RightAlways, PTL
-------------------------------------------------------------------------
(* What the files hold.                                                    *)

(* Cluster i of the chain of f is a[f][i], for every i below n[f].         *)
Chains == [Files -> [Nat -> FatRange]]
Lengths == [Files -> Nat]
Linked(t, a, n) ==
    \A f \in Files, i \in Nat : i < n[f] =>
        /\ a[f][i] \in Clusters
        /\ t[a[f][i]] = IF i + 1 < n[f] THEN a[f][i+1] ELSE EndFat
Separate(a, n) ==
    \A f, g \in Files, i, j \in Nat :
        i < n[f] /\ j < n[g] /\ a[f][i] = a[g][j] => f = g /\ i = j
Headed(h, a, n) ==
    \A f \in Files : IF h[f] = 0 THEN n[f] = 0 ELSE n[f] > 0 /\ a[f][0] = h[f]

(* c is cluster i of f.                                                    *)
Member(f, c, i, a, n) == i \in Nat /\ i < n[f] /\ a[f][i] = c

(* A file that is not being deleted has the clusters for its bytes, and    *)
(* what was written to them last was written there for it.                 *)
Going(f) == pc = "delete" /\ f = cf
Filled(a, n) ==
    \A f \in Files : ~Going(f) =>
        /\ ToClusters(size[f]) <= n[f]
        /\ \A i \in Nat : i < ToClusters(size[f]) => content[a[f][i]] = <<f, i>>

Remembered(a, n) ==
    \A f \in open : prevRel[f] # NoPos => Member(f, prevAbs[f], prevRel[f], a, n)

(* normal_map has come to cluster cur.  From where the bytes begin the     *)
(* clusters follow one another on the disk.                                *)
Zoned(a, n) ==
    pc \in {"map", "write"} =>
        /\ Member(cf, abs, cur, a, n) /\ where <= size[cf] /\ len >= 1
        /\ cur > Rel(where) \/ pc = "write" =>
              /\ Rel(where) <= cur /\ prevRel[cf] = Rel(where)
              /\ \A j \in Rel(where)..cur : a[cf][j] = prevAbs[cf] + (j - Rel(where))

Placed(a, n) ==
    /\ Linked(fat, a, n) /\ Separate(a, n) /\ Headed(Heads, a, n)
    /\ Filled(a, n) /\ Remembered(a, n) /\ Zoned(a, n)
ContentsRight == \E a \in Chains, n \in Lengths : Placed(a, n)

(* With what is known already.                                             *)
Known == Accounted /\ AllocRight

-----------------------------------------------------------------------------
(* Positions, and the clusters that bytes take.                            *)

(* What a number is a multiple of, up to a remainder, is its quotient.     *)
LEMMA Quotient ==
  ASSUME NEW n \in Nat \ {0}, NEW x \in Nat, NEW q \in Int, NEW r \in 0..n-1, x = q * n + r
  PROVE  x \div n = q
<1> DEFINE p == x \div n  s == x % n
<1>1. p \in Nat /\ s \in 0..n-1 /\ x = p * n + s
  OBVIOUS
<1> HIDE DEF p, s
<1>2. CASE p < q
  <2> DEFINE d == q - p - 1
  <2>1. d \in Nat /\ q = p + 1 + d
    BY <1>1, <1>2
  <2> HIDE DEF d
  <2>2. q * n = p * n + n + d * n /\ d * n \in Nat
    BY <1>1, <2>1
  <2> QED BY <1>1, <2>2
<1>3. CASE p > q
  <2> DEFINE d == p - q - 1
  <2>1. d \in Nat /\ p = q + 1 + d
    BY <1>1, <1>3
  <2> HIDE DEF d
  <2>2. p * n = q * n + n + d * n /\ d * n \in Nat
    BY <1>1, <2>1
  <2> QED BY <1>1, <2>2
<1> QED BY <1>1, <1>2, <1>3 DEF p

(* A larger number has no smaller quotient, ...                            *)
LEMMA MoreBytes ==
  ASSUME NEW n \in Nat \ {0}, NEW x \in Nat, NEW y \in Nat, x <= y
  PROVE  x \div n <= y \div n
<1> DEFINE p == x \div n  r == x % n  q == y \div n  s == y % n
<1>1. p \in Nat /\ r \in 0..n-1 /\ x = p * n + r /\ q \in Nat /\ s \in 0..n-1 /\ y = q * n + s
  OBVIOUS
<1> HIDE DEF p, r, q, s
<1>2. CASE p > q
  <2> DEFINE d == p - q - 1
  <2>1. d \in Nat /\ p = q + 1 + d
    BY <1>1, <1>2
  <2> HIDE DEF d
  <2>2. p * n = q * n + n + d * n /\ d * n \in Nat
    BY <1>1, <2>1
  <2> QED BY <1>1, <2>2
<1>3. p <= q
  BY <1>1, <1>2
<1> QED BY <1>3 DEF p, q

(* ... and no fewer clusters either.                                       *)
LEMMA ClustersGrow ==
  ASSUME NEW x \in Nat, NEW y \in Nat, x <= y
  PROVE  ToClusters(x) <= ToClusters(y)
<1> DEFINE p == x + ClusSize - 1  q == y + ClusSize - 1
<1>1. p \in Nat /\ q \in Nat /\ p <= q /\ ClusSize \in Nat \ {0}
  BY FatAllocAssumption
<1> HIDE DEF p, q
<1>2. p \div ClusSize <= q \div ClusSize
  BY <1>1, MoreBytes
<1> QED BY <1>2 DEF ToClusters, p, q

(* No bytes take no cluster.                                               *)
LEMMA NoBytes == ToClusters(0) = 0
<1>1. ClusSize \in Nat \ {0} /\ 0 + ClusSize - 1 \in Nat /\ ClusSize - 1 \in 0..ClusSize-1
      /\ 0 + ClusSize - 1 = 0 * ClusSize + (ClusSize - 1)
  BY FatAllocAssumption
<1>2. (0 + ClusSize - 1) \div ClusSize = 0
  BY <1>1, Quotient
<1> QED BY <1>2 DEF ToClusters

(* k bytes at w end in cluster Target(w, k), the last one of w + k bytes.  *)
LEMMA TargetIs ==
  ASSUME NEW w \in Nat, NEW k \in Nat \ {0}
  PROVE  /\ Target(w, k) \in Nat /\ Rel(w) <= Target(w, k)
         /\ ToClusters(w + k) = Target(w, k) + 1
         /\ Rel(w) <= ToClusters(w)
         /\ \A c \in Nat : k <= (1 + c - Rel(w)) * ClusSize - Offset(w) => Target(w, k) <= c
<1>1. ClusSize \in Nat \ {0}
  BY FatAllocAssumption
<1> DEFINE a == Rel(w)  o == Offset(w)  x == o + k - 1  q == x \div ClusSize  r == x % ClusSize
<1>2. a \in Nat /\ o \in 0..ClusSize-1 /\ w = a * ClusSize + o
  BY Divided
<1>3. Target(w, k) = a + q
  BY DEF Target
<1> HIDE DEF a, o
<1>4. x \in Nat /\ x = o + k - 1
  BY <1>1, <1>2
<1> HIDE DEF x
<1>5. q \in Nat /\ r \in 0..ClusSize-1 /\ x = q * ClusSize + r
  BY <1>1, <1>4
<1> HIDE DEF q, r
<1>6. Target(w, k) \in Nat /\ a <= Target(w, k)
  BY <1>2, <1>3, <1>5
<1>7. ToClusters(w + k) = Target(w, k) + 1
  <2> DEFINE y == w + k + ClusSize - 1
  <2>1. y \in Nat /\ a + q + 1 \in Int /\ y = (a + q + 1) * ClusSize + r
    <3>1. (a + q + 1) * ClusSize = a * ClusSize + q * ClusSize + ClusSize
      BY <1>1, <1>2, <1>5
    <3>2. a * ClusSize \in Nat /\ q * ClusSize \in Nat
      BY <1>1, <1>2, <1>5
    <3> QED BY <1>1, <1>2, <1>4, <1>5, <3>1, <3>2
  <2> HIDE DEF y
  <2>2. y \div ClusSize = a + q + 1
    BY <1>1, <1>5, <2>1, Quotient
  <2> QED BY <1>3, <2>2 DEF ToClusters, y
<1>8. a <= ToClusters(w)
  <2> DEFINE y == w + ClusSize - 1
  <2>1. y \in Nat /\ w <= y
    BY <1>1
  <2> HIDE DEF y
  <2>2. w \div ClusSize <= y \div ClusSize
    BY <1>1, <2>1, MoreBytes
  <2> QED BY <2>2 DEF ToClusters, y, a, Rel
<1>9. ASSUME NEW c \in Nat, k <= (1 + c - a) * ClusSize - o
      PROVE  Target(w, k) <= c
  <2>1. CASE a + q > c
    <3> DEFINE d == a + q - c - 1
    <3>1. d \in Nat /\ q = (1 + c - a) + d
      BY <1>2, <1>5, <2>1
    <3> DEFINE z == 1 + c - a
    <3>2. z \in Int /\ q = z + d
      BY <1>2, <3>1
    <3>3. k <= z * ClusSize - o
      BY <1>9
    <3> HIDE DEF d, z
    <3>4. q * ClusSize = z * ClusSize + d * ClusSize /\ d * ClusSize \in Nat /\ z * ClusSize \in Int
      BY <1>1, <3>1, <3>2
    <3> QED BY <1>2, <1>4, <1>5, <3>3, <3>4
  <2> QED BY <1>2, <1>3, <1>5, <2>1
<1> QED BY <1>6, <1>7, <1>8, <1>9 DEF a, o

(* Chains and their changes.                                               *)

(* A free cluster is in no chain.                                          *)
LEMMA FreeIsOutside ==
  ASSUME NEW t, NEW a \in Chains, NEW n \in Lengths, Linked(t, a, n), NEW c, t[c] = 0
  PROVE  \A f \in Files, i \in Nat : i < n[f] => a[f][i] # c
<1> SUFFICES ASSUME NEW f \in Files, NEW i \in Nat, i < n[f], a[f][i] = c PROVE FALSE
  OBVIOUS
<1>1. n[f] \in Nat
  BY DEF Lengths
<1>2. t[c] = IF i + 1 < n[f] THEN a[f][i+1] ELSE EndFat
  BY DEF Linked
<1>3. i + 1 < n[f] => a[f][i+1] \in Clusters
  BY DEF Linked
<1> QED BY <1>2, <1>3, ClustersAre

(* In FAT u, unlike t, cluster c is the last one of f, after those that f  *)
(* has.                                                                    *)
Taken(t, u, a, n, f, c) ==
    /\ t[c] = 0 /\ u[c] = EndFat
    /\ n[f] > 0 => u[a[f][n[f] - 1]] = c
    /\ \A d \in Clusters : d # c /\ ~(n[f] > 0 /\ d = a[f][n[f] - 1]) => u[d] = t[d]

(* The chain of f goes on there.                                           *)
Goes(u, a, n, f, c) ==
    \E b \in Chains, m \in Lengths :
        /\ Linked(u, b, m) /\ Separate(b, m)
        /\ m[f] = n[f] + 1 /\ b[f][n[f]] = c
        /\ \A g \in Files \ {f} : m[g] = n[g]
        /\ \A g \in Files, i \in Nat : i < n[g] => b[g][i] = a[g][i]
(* A cluster that is taken lengthens one chain, ...                        *)
LEMMA ChainGrows ==
  ASSUME NEW t, NEW u, NEW a \in Chains, NEW n \in Lengths, Linked(t, a, n), Separate(a, n),
         NEW f \in Files, NEW c \in Clusters, Taken(t, u, a, n, f, c)
  PROVE  Goes(u, a, n, f, c)
<1> DEFINE b == [g \in Files |-> [i \in Nat |-> IF g = f /\ i = n[f] THEN c ELSE a[g][i]]]
           m == [g \in Files |-> IF g = f THEN n[f] + 1 ELSE n[g]]
<1>1. \A g \in Files : n[g] \in Nat /\ \A i \in Nat : a[g][i] \in FatRange
  BY DEF Chains, Lengths
<1>2. b \in Chains /\ m \in Lengths
  BY <1>1, ClustersAre DEF Chains, Lengths
<1>3. /\ m[f] = n[f] + 1 /\ \A g \in Files \ {f} : m[g] = n[g]
      /\ b[f][n[f]] = c
      /\ \A g \in Files, i \in Nat : g # f \/ i # n[f] => b[g][i] = a[g][i]
  BY <1>1
<1> HIDE DEF b, m
<1> USE DEF Taken
<1>4. \A g \in Files, i \in Nat : i < n[g] => b[g][i] = a[g][i]
  BY <1>1, <1>3
<1>5. \A g \in Files, i \in Nat : i < n[g] => a[g][i] # c
  BY FreeIsOutside
<1>6. ASSUME NEW g \in Files, NEW i \in Nat, i < m[g]
      PROVE  /\ b[g][i] \in Clusters
             /\ u[b[g][i]] = IF i + 1 < m[g] THEN b[g][i+1] ELSE EndFat
  <2>1. CASE g = f /\ i = n[f]
    BY <1>1, <1>3, <2>1
  <2>2. CASE g = f /\ i # n[f]
    <3>1. i < n[f] /\ b[f][i] = a[f][i] /\ a[f][i] \in Clusters /\ a[f][i] # c /\ n[f] \in Nat
      BY <1>1, <1>3, <1>4, <1>5, <1>6, <2>2 DEF Linked
    <3>2. CASE i + 1 = n[f]
      <4>1. i = n[f] - 1 /\ n[f] > 0 /\ i + 1 < m[f] /\ b[f][i+1] = c
        BY <1>1, <1>3, <3>1, <3>2
      <4> QED BY <2>2, <3>1, <4>1
    <3>3. CASE i + 1 # n[f]
      <4>1. i + 1 < n[f] /\ n[f] - 1 \in Nat /\ n[f] - 1 < n[f] /\ i # n[f] - 1 /\ i + 1 < m[f]
        BY <1>1, <1>3, <3>1, <3>3
      <4>2. a[f][i] # a[f][n[f] - 1]
        BY <3>1, <4>1 DEF Separate
      <4>3. u[a[f][i]] = t[a[f][i]] /\ t[a[f][i]] = a[f][i+1]
        BY <3>1, <4>1, <4>2 DEF Linked
      <4>4. b[f][i+1] = a[f][i+1]
        BY <1>4, <4>1
      <4> QED BY <2>2, <3>1, <4>1, <4>3, <4>4
    <3> QED BY <3>2, <3>3
  <2>3. CASE g # f
    <3>1. i < n[g] /\ b[g][i] = a[g][i] /\ a[g][i] \in Clusters /\ a[g][i] # c
          /\ n[g] \in Nat /\ n[f] \in Nat /\ m[g] = n[g]
      BY <1>1, <1>3, <1>4, <1>5, <1>6, <2>3 DEF Linked
    <3>2. n[f] > 0 => a[g][i] # a[f][n[f] - 1]
      <4> SUFFICES ASSUME n[f] > 0 PROVE a[g][i] # a[f][n[f] - 1]
        OBVIOUS
      <4>1. n[f] - 1 \in Nat /\ n[f] - 1 < n[f]
        BY <3>1
      <4> QED BY <2>3, <3>1, <4>1 DEF Separate
    <3>3. u[a[g][i]] = t[a[g][i]]
      BY <3>1, <3>2
    <3>4. i + 1 < n[g] => b[g][i+1] = a[g][i+1]
      BY <1>4
    <3> QED BY <3>1, <3>3, <3>4 DEF Linked
  <2> QED BY <2>1, <2>2, <2>3
<1>7. Linked(u, b, m)
  BY <1>6 DEF Linked
<1>8. Separate(b, m)
  <2> SUFFICES ASSUME NEW g \in Files, NEW h \in Files, NEW i \in Nat, NEW j \in Nat,
                      i < m[g], j < m[h], b[g][i] = b[h][j]
               PROVE  g = h /\ i = j
    BY DEF Separate
  <2>1. (g = f /\ i = n[f] /\ b[g][i] = c) \/ (i < n[g] /\ b[g][i] = a[g][i] /\ a[g][i] # c)
    BY <1>1, <1>3, <1>4, <1>5
  <2>2. (h = f /\ j = n[f] /\ b[h][j] = c) \/ (j < n[h] /\ b[h][j] = a[h][j] /\ a[h][j] # c)
    BY <1>1, <1>3, <1>4, <1>5
  <2> QED BY <2>1, <2>2 DEF Separate
<1> QED BY <1>2, <1>3, <1>4, <1>7, <1>8 DEF Goes

(* The first cluster of f is freed: those after it are left.               *)
Shrinks(u, a, n, f) ==
    \E b \in Chains, m \in Lengths :
        /\ Linked(u, b, m) /\ Separate(b, m)
        /\ m[f] = n[f] - 1 /\ \A g \in Files \ {f} : m[g] = n[g]
        /\ \A i \in Nat : b[f][i] = a[f][i+1]
        /\ \A g \in Files \ {f}, i \in Nat : b[g][i] = a[g][i]
(* ... and one that is given back shortens one.                            *)
LEMMA ChainShrinks ==
  ASSUME NEW t, NEW u, NEW a \in Chains, NEW n \in Lengths, Linked(t, a, n), Separate(a, n),
         NEW f \in Files, n[f] > 0, \A d \in Clusters : d # a[f][0] => u[d] = t[d]
  PROVE  Shrinks(u, a, n, f)
<1> DEFINE b == [g \in Files |-> [i \in Nat |-> IF g = f THEN a[f][i+1] ELSE a[g][i]]]
           m == [g \in Files |-> IF g = f THEN n[f] - 1 ELSE n[g]]
<1>1. \A g \in Files : n[g] \in Nat /\ \A i \in Nat : a[g][i] \in FatRange
  BY DEF Chains, Lengths
<1>2. b \in Chains /\ m \in Lengths
  BY <1>1 DEF Chains, Lengths
<1>3. /\ m[f] = n[f] - 1 /\ \A g \in Files \ {f} : m[g] = n[g]
      /\ \A i \in Nat : b[f][i] = a[f][i+1]
      /\ \A g \in Files \ {f}, i \in Nat : b[g][i] = a[g][i]
  BY <1>1
<1> HIDE DEF b, m
<1>4. ASSUME NEW g \in Files, NEW i \in Nat, i < m[g]
      PROVE  \E j \in Nat : /\ j < n[g] /\ b[g][i] = a[g][j] /\ b[g][i+1] = a[g][j+1]
                            /\ (i + 1 < m[g] <=> j + 1 < n[g])
                            /\ j = IF g = f THEN i + 1 ELSE i
  <2>1. CASE g = f
    <3>1. i + 1 \in Nat /\ i + 1 < n[f] /\ (i + 1 < m[f] <=> (i + 1) + 1 < n[f])
      BY <1>1, <1>3, <1>4, <2>1
    <3>2. b[f][i] = a[f][i+1] /\ b[f][i+1] = a[f][(i+1)+1]
      BY <1>3, <3>1
    <3> QED BY <2>1, <3>1, <3>2
  <2>2. CASE g # f
    BY <1>1, <1>3, <1>4, <2>2
  <2> QED BY <2>1, <2>2
<1>5. Linked(u, b, m)
  <2> SUFFICES ASSUME NEW g \in Files, NEW i \in Nat, i < m[g]
               PROVE  /\ b[g][i] \in Clusters
                      /\ u[b[g][i]] = IF i + 1 < m[g] THEN b[g][i+1] ELSE EndFat
    BY DEF Linked
  <2>1. PICK j \in Nat : /\ j < n[g] /\ b[g][i] = a[g][j] /\ b[g][i+1] = a[g][j+1]
                         /\ (i + 1 < m[g] <=> j + 1 < n[g])
                         /\ j = IF g = f THEN i + 1 ELSE i
    BY <1>4
  <2>2. a[g][j] # a[f][0]
    <3>1. g = f => j # 0
      BY <2>1
    <3>2. 0 < n[f] /\ 0 \in Nat
      BY <1>1
    <3> SUFFICES ASSUME a[g][j] = a[f][0] PROVE FALSE
      OBVIOUS
    <3>3. g = f /\ j = 0
      BY <2>1, <3>2 DEF Separate
    <3> QED BY <3>1, <3>3
  <2>3. a[g][j] \in Clusters /\ t[a[g][j]] = IF j + 1 < n[g] THEN a[g][j+1] ELSE EndFat
    BY <2>1 DEF Linked
  <2> QED BY <2>1, <2>2, <2>3
<1>6. Separate(b, m)
  <2> SUFFICES ASSUME NEW g \in Files, NEW h \in Files, NEW i \in Nat, NEW j \in Nat,
                      i < m[g], j < m[h], b[g][i] = b[h][j]
               PROVE  g = h /\ i = j
    BY DEF Separate
  <2>1. PICK k \in Nat : k < n[g] /\ b[g][i] = a[g][k] /\ k = IF g = f THEN i + 1 ELSE i
    BY <1>4
  <2>2. PICK l \in Nat : l < n[h] /\ b[h][j] = a[h][l] /\ l = IF h = f THEN j + 1 ELSE j
    BY <1>4
  <2>3. k < n[g] /\ l < n[h] /\ a[g][k] = a[h][l]
    BY <2>1, <2>2
  <2>4. g = h /\ k = l
    BY <2>3 DEF Separate
  <2> QED BY <2>1, <2>2, <2>4
<1> QED BY <1>2, <1>3, <1>5, <1>6 DEF Shrinks

-----------------------------------------------------------------------------
(* The steps, and what the files hold.                                     *)

(* A step that leaves chains, contents and sizes alone, or forgets a size, *)
(* and begins no mapping.                                                  *)
LEMMA QuietContents ==
  ASSUME Accounted, ContentsRight, fat' = fat, content' = content, pc # "delete",
         \A f \in Files : Head(f)' = Head(f),
         \A f \in Files : size'[f] \in {size[f], 0},
         \A f \in open' : \/ prevRel'[f] = NoPos
                          \/ f \in open /\ prevRel'[f] = prevRel[f] /\ prevAbs'[f] = prevAbs[f],
         pc' \notin {"map", "write"}
  PROVE  ContentsRight'
<1>1. PICK a \in Chains, n \in Lengths : Placed(a, n)
  BY DEF ContentsRight
<1>2. Heads' = Heads
  BY DEF Heads
<1>3. Filled(a, n)'
  <2>1. \A f \in Files : n[f] \in Nat
    BY DEF Lengths
  <2>2. \A f \in Files : /\ ToClusters(size[f]) <= n[f]
                         /\ \A i \in Nat : i < ToClusters(size[f]) => content[a[f][i]] = <<f, i>>
    BY <1>1 DEF Placed, Filled, Going
  <2> SUFFICES ASSUME NEW f \in Files
               PROVE  /\ ToClusters(size'[f]) <= n[f]
                      /\ \A i \in Nat : i < ToClusters(size'[f]) => content[a[f][i]] = <<f, i>>
    BY DEF Filled, ToClusters
  <2>3. CASE size'[f] = size[f]
    BY <2>2, <2>3
  <2>4. CASE size'[f] = 0
    BY <2>1, <2>4, NoBytes
  <2> QED BY <2>3, <2>4
<1>4. Remembered(a, n)'
  BY <1>1 DEF Placed, Remembered, Member
<1>5. Zoned(a, n)'
  BY DEF Zoned
<1> QED BY <1>1, <1>2, <1>3, <1>4, <1>5 DEF ContentsRight, Placed

(* pre_allocate_file writes nothing.                                       *)
LEMMA PreAllocateFills ==
  ASSUME Known, ContentsRight, NEW f \in Files, NEW n, PreAllocate(f, n)
  PROVE  ContentsRight'
<1>1. /\ pc = "idle"
      /\ UNCHANGED <<fat, present, start, content, open, first, prevRel, prevAbs, size, pc, cf, cur>>
  BY DEF PreAllocate, entryVars, posVars, callVars
<1>2. \A g \in Files : Head(g)' = Head(g)
  BY <1>1 DEF Head
<1> QED BY <1>1, <1>2, QuietContents DEF Known

(* A stream that writeit opens has no cluster yet, and no byte.            *)
LEMMA CreateFills ==
  ASSUME Known, ContentsRight, NEW f \in Files, NEW n, Create(f, n)
  PROVE  ContentsRight'
<1>1. /\ pc = "idle" /\ f \notin open \union present
      /\ OpenStream(f, 0, 0) \/ UNCHANGED streamVars
      /\ UNCHANGED <<fat, present, start, content, pc, cf, cur>>
  BY DEF Create, entryVars, callVars
<1>2. StreamTyped
  BY DEF Known, Accounted
<1>3. CASE UNCHANGED streamVars
  <2>1. UNCHANGED <<open, first, prevRel, prevAbs, size>>
    BY <1>3 DEF streamVars, posVars
  <2>2. \A g \in Files : Head(g)' = Head(g)
    BY <1>1, <2>1 DEF Head
  <2> QED BY <1>1, <2>1, <2>2, QuietContents DEF Known
<1>4. CASE OpenStream(f, 0, 0)
  <2>1. /\ open' = open \union {f}
        /\ first'[f] = 0 /\ prevRel'[f] = NoPos /\ size'[f] = 0
        /\ \A g \in Files \ {f} : /\ first'[g] = first[g] /\ size'[g] = size[g]
                                  /\ prevRel'[g] = prevRel[g] /\ prevAbs'[g] = prevAbs[g]
    BY <1>2, <1>4 DEF StreamTyped, OpenStream
  <2>2. \A g \in Files : Head(g)' = Head(g)
    BY <1>1, <2>1 DEF Head
  <2>3. open' \subseteq Files /\ \A g \in Files : size'[g] \in {size[g], 0}
    BY <1>2, <2>1 DEF StreamTyped
  <2>4. \A g \in open' : \/ prevRel'[g] = NoPos
                         \/ g \in open /\ prevRel'[g] = prevRel[g] /\ prevAbs'[g] = prevAbs[g]
    BY <2>1, <2>3
  <2> QED BY <1>1, <2>2, <2>3, <2>4, QuietContents DEF Known
<1> QED BY <1>1, <1>3, <1>4

(* A stream on an existing file has its clusters.                          *)
LEMMA OpenFills ==
  ASSUME Known, ContentsRight, NEW f \in Files, Open(f)
  PROVE  ContentsRight'
<1>1. /\ pc = "idle" /\ f \in present \ open /\ fsize[f] = size[f]
      /\ OpenStream(f, start[f], fsize[f])
      /\ UNCHANGED <<fat, present, start, content, pc, cf, cur>>
  BY DEF Open, fsVars, entryVars, callVars
<1>2. StreamTyped
  BY DEF Known, Accounted
<1>3. /\ open' = open \union {f}
      /\ first'[f] = start[f] /\ prevRel'[f] = NoPos /\ size'[f] = size[f]
      /\ \A g \in Files \ {f} : /\ first'[g] = first[g] /\ size'[g] = size[g]
                                /\ prevRel'[g] = prevRel[g] /\ prevAbs'[g] = prevAbs[g]
  BY <1>1, <1>2 DEF StreamTyped, OpenStream
<1>4. \A g \in Files : Head(g)' = Head(g)
  BY <1>1, <1>3 DEF Head
<1>5. open' \subseteq Files /\ \A g \in Files : size'[g] = size[g]
  BY <1>2, <1>3 DEF StreamTyped
<1>6. \A g \in open' : \/ prevRel'[g] = NoPos
                       \/ g \in open /\ prevRel'[g] = prevRel[g] /\ prevAbs'[g] = prevAbs[g]
  BY <1>3, <1>5
<1> QED BY <1>1, <1>4, <1>5, <1>6, QuietContents DEF Known

(* A write below that fails: the clusters appended for it stay.            *)
LEMMA WriteErrorFills ==
  ASSUME Known, ContentsRight, WriteError
  PROVE  ContentsRight'
<1>1. /\ pc = "write" /\ pc' = "failed"
      /\ UNCHANGED <<fat, present, start, content, open, first, prevRel, prevAbs, size>>
  BY DEF WriteError, fsVars, entryVars, streamVars, posVars
<1>2. \A g \in Files : Head(g)' = Head(g)
  BY <1>1 DEF Head
<1> QED BY <1>1, <1>2, QuietContents DEF Known

(* A stream is closed and its entry written.                               *)
LEMMA EntryFills ==
  ASSUME Known, ContentsRight, NEW f \in open, NEW n,
         pc \in {"idle", "full", "failed"}, pc' = "idle",
         CloseStream(f), SetEntry(f, first[f], n), UNCHANGED <<fat, content>>
  PROVE  ContentsRight'
<1>1. StreamTyped /\ EntryTyped
  BY DEF Known, Accounted
<1>2. /\ f \in Files /\ open' = open \ {f} /\ present' = present \union {f} /\ size' = size
      /\ start'[f] = first[f]
      /\ \A g \in Files \ {f} : /\ first'[g] = first[g] /\ start'[g] = start[g]
                                /\ prevRel'[g] = prevRel[g] /\ prevAbs'[g] = prevAbs[g]
  BY <1>1 DEF StreamTyped, EntryTyped, CloseStream, SetEntry
<1>3. \A g \in Files : Head(g)' = Head(g)
  BY <1>2 DEF Head
<1>4. open \subseteq Files
  BY <1>1 DEF StreamTyped
<1>5. \A g \in open' : g \in open /\ prevRel'[g] = prevRel[g] /\ prevAbs'[g] = prevAbs[g]
  BY <1>2, <1>4
<1> QED BY <1>2, <1>3, <1>5, QuietContents DEF Known

(* The end of a copy that went well.                                       *)
LEMMA CloseFills ==
  ASSUME Known, ContentsRight, NEW f \in Files, Close(f)
  PROVE  ContentsRight'
<1>1. /\ pc = "idle" /\ pc' = pc /\ f \in open /\ CloseStream(f) /\ SetEntry(f, first[f], size[f])
      /\ UNCHANGED <<fat, content>>
  BY DEF Close, fsVars
<1> QED BY <1>1, EntryFills

(* The end of a copy that ran out of space or could not be written.        *)
LEMMA CloseShortFills ==
  ASSUME Known, ContentsRight, NEW f \in Files, NEW n, CloseShort(f, n)
  PROVE  ContentsRight'
<1>1. /\ pc \in {"full", "failed"} /\ pc' = "idle" /\ f = cf
      /\ CloseStream(f) /\ SetEntry(f, first[f], n) /\ UNCHANGED <<fat, content>>
  BY DEF CloseShort, fsVars
<1>2. f \in open
  BY <1>1 DEF Known, Accounted, CallTyped, Writing
<1> QED BY <1>1, <1>2, EntryFills

(* A directory that could not grow or be written.                          *)
LEMMA DropWriteFills ==
  ASSUME Known, ContentsRight, DropWrite
  PROVE  ContentsRight'
<1>1. /\ pc \in {"full", "failed"} /\ pc' = "idle"
      /\ UNCHANGED <<fat, present, start, content, open, first, prevRel, prevAbs, size>>
  BY DEF DropWrite, fsVars, entryVars, streamVars, posVars
<1>2. \A g \in Files : Head(g)' = Head(g)
  BY <1>1 DEF Head
<1> QED BY <1>1, <1>2, QuietContents DEF Known

(* A deletion begins, or is over at once.                                  *)
LEMMA DeleteFills ==
  ASSUME Known, ContentsRight, NEW f \in Files, Delete(f)
  PROVE  ContentsRight'
<1>1. /\ pc = "idle" /\ f \in present \ open
      /\ UNCHANGED <<fat, content, open, first, prevRel, prevAbs>>
  BY DEF Delete, fsVars, posVars
<1>2. StreamTyped /\ EntryTyped
  BY DEF Known, Accounted
<1>3. CASE start[f] = 0
  <2>1. RemoveEntry(f) /\ pc' = pc
    BY <1>3 DEF Delete
  <2>2. /\ present' = present \ {f} /\ start'[f] = 0 /\ size'[f] = 0
        /\ \A g \in Files \ {f} : start'[g] = start[g] /\ size'[g] = size[g]
    BY <1>2, <2>1 DEF RemoveEntry, StreamTyped, EntryTyped
  <2>3. \A g \in Files : Head(g)' = Head(g)
    BY <1>1, <1>3, <2>1, <2>2 DEF Head
  <2>4. \A g \in Files : size'[g] \in {size[g], 0}
    BY <2>2
  <2> QED BY <1>1, <2>1, <2>3, <2>4, QuietContents DEF Known
<1>4. CASE start[f] # 0
  <2>1. pc' = "delete" /\ cf' = f /\ cur' = start[f] /\ UNCHANGED <<present, start, size>>
    BY <1>4 DEF Delete, entryVars
  <2>2. \A g \in Files : Head(g)' = Head(g)
    BY <1>1, <2>1 DEF Head
  <2> QED BY <1>1, <2>1, <2>2, QuietContents DEF Known
<1> QED BY <1>3, <1>4

(* Counting, and writing the FAT and the info sector.                      *)
LEMMA StoreFills ==
  ASSUME Known, ContentsRight, GetFree \/ FatWrite \/ InfoWrite
  PROVE  ContentsRight'
<1>1. /\ pc \in {"idle", "info"} /\ pc' \in {"idle", "info"}
      /\ UNCHANGED <<fat, present, start, content, open, first, prevRel, prevAbs, size>>
  BY DEF GetFree, FatWrite, InfoWrite, entryVars, streamVars, posVars
<1>2. \A g \in Files : Head(g)' = Head(g)
  BY <1>1 DEF Head
<1> QED BY <1>1, <1>2, QuietContents DEF Known

(* The next command finds what the last one left.                          *)
LEMMA NextCommandFills ==
  ASSUME Known, ContentsRight, NextCommand
  PROVE  ContentsRight'
<1>1. /\ pc = "idle" /\ open = {} /\ ~fatDirty /\ fat' = storedFat /\ NoStreams
      /\ pc' \in {"idle", "refused"} /\ UNCHANGED <<present, start, content>>
  BY DEF NextCommand, FatRead, entryVars
<1>2. fat' = fat
  BY <1>1 DEF Known, AllocRight, Counted
<1>3. open' = {} /\ \A g \in Files : first'[g] = 0 /\ size'[g] \in {size[g], 0}
  BY <1>1 DEF NoStreams
<1>4. \A g \in Files : Head(g)' = Head(g)
  BY <1>1, <1>3 DEF Head
<1> QED BY <1>1, <1>2, <1>3, <1>4, QuietContents DEF Known

(* A step that changes nothing.                                            *)
LEMMA StutterFills ==
  ASSUME Known, ContentsRight, UNCHANGED vars
  PROVE  ContentsRight'
<1>1. UNCHANGED <<fat, present, start, content, open, first, prevRel, prevAbs, size, pc, cf,
                  where, len, cur, abs>>
  BY DEF vars, fsVars, entryVars, streamVars, posVars, callVars
<1>2. PICK a \in Chains, n \in Lengths : Placed(a, n)
  BY DEF ContentsRight
<1>3. Heads' = Heads
  BY <1>1 DEF Heads, Head
<1>4. Filled(a, n)'
  BY <1>1, <1>2 DEF Placed, Filled, Going
<1>5. Remembered(a, n)' /\ Zoned(a, n)'
  BY <1>1, <1>2 DEF Placed, Remembered, Zoned, Member, Rel
<1> QED BY <1>1, <1>2, <1>3, <1>4, <1>5 DEF ContentsRight, Placed

(* Chains b are chains a, or longer.                                       *)
Extended(b, m, a, n) ==
    \A g \in Files : n[g] <= m[g] /\ \A i \in Nat : i < n[g] => b[g][i] = a[g][i]

(* Longer chains hold what they held, ...                                  *)
LEMMA StillFilled ==
  ASSUME NEW a \in Chains, NEW n \in Lengths, NEW b \in Chains, NEW m \in Lengths,
         Accounted, Filled(a, n), Extended(b, m, a, n), pc # "delete",
         size' = size, content' = content
  PROVE  Filled(b, m)'
<1>1. \A f \in Files : /\ ToClusters(size[f]) <= n[f]
                       /\ \A i \in Nat : i < ToClusters(size[f]) => content[a[f][i]] = <<f, i>>
  BY DEF Filled, Going
<1>2. \A f \in Files : n[f] \in Nat /\ m[f] \in Nat /\ ToClusters(size[f]) \in Nat
  BY Divided DEF Lengths, Accounted, StreamTyped
<1>3. ASSUME NEW f \in Files
      PROVE  /\ ToClusters(size[f]) <= m[f]
             /\ \A i \in Nat : i < ToClusters(size[f]) => content[b[f][i]] = <<f, i>>
  BY <1>1, <1>2 DEF Extended
<1> QED BY <1>3 DEF Filled, ToClusters

(* ... and their members are where they were.                              *)
LEMMA StillMember ==
  ASSUME NEW a, NEW n \in Lengths, NEW b, NEW m \in Lengths, Extended(b, m, a, n),
         NEW f \in Files, NEW c, NEW i, Member(f, c, i, a, n)
  PROVE  Member(f, c, i, b, m)
  BY DEF Extended, Member, Lengths

(* A write begins at a cluster of the file's chain.                        *)
LEMMA BeginWriteFills ==
  ASSUME FilesFit, Known, Known', ContentsRight, NEW f \in Files, NEW w \in 0..MaxSize,
         NEW k \in 1..MaxSize, BeginWrite(f, w, k)
  PROVE  ContentsRight'
<1>1. /\ pc = "idle" /\ f \in open /\ cf' = f /\ where' = w /\ len' = k /\ w <= size[f]
      /\ UNCHANGED <<content, present, start, open, prevRel, prevAbs, size>>
  BY DEF BeginWrite, entryVars, posVars
<1>2. PICK a \in Chains, n \in Lengths : Placed(a, n)
  BY DEF ContentsRight
<1>3. \A g \in Files : Heads[g] = Head(g) /\ Heads'[g] = Head(g)'
  BY HeadsAre, HeadsWillBe DEF Known, AllocRight
<1>4. Heads[f] = first[f]
  BY <1>1, <1>3 DEF Head
<1>5. /\ n[f] \in Nat /\ w \in Nat /\ Rel(w) \in Nat /\ k >= 1 /\ Rel(w) < NoPos
      /\ prevRel[f] \in Nat /\ NoPos \in Nat
  <2>1. w \in Nat /\ k >= 1
    BY FatAllocAssumption
  <2>2. Rel(w) \in Nat
    BY <2>1, Divided
  <2>3. prevRel[f] \in Nat /\ n[f] \in Nat
    BY DEF Known, Accounted, StreamTyped, Lengths
  <2> QED BY <2>1, <2>2, <2>3 DEF FilesFit, NoPos
<1>6. CASE first[f] # 0
  <2>1. /\ cur' = IF Resumes(f, w) THEN prevRel[f] ELSE 0
        /\ abs' = IF Resumes(f, w) THEN prevAbs[f] ELSE first[f]
        /\ pc' = "map" /\ UNCHANGED <<fat, first>>
    BY <1>6 DEF BeginWrite, fsVars
  <2>2. Member(f, abs', cur', a, n) /\ cur' <= Rel(w)
    <3>1. CASE Resumes(f, w)
      <4>1. prevRel[f] <= Rel(w) /\ prevRel[f] # NoPos
        BY <1>5, <3>1 DEF Resumes
      <4> QED BY <1>1, <1>2, <2>1, <3>1, <4>1 DEF Placed, Remembered
    <3>2. CASE ~Resumes(f, w)
      <4>1. n[f] > 0 /\ a[f][0] = first[f]
        BY <1>2, <1>4, <1>6 DEF Placed, Headed
      <4> QED BY <1>5, <2>1, <3>2, <4>1 DEF Member
    <3> QED BY <3>1, <3>2
  <2>3. \A g \in Files : Heads'[g] = Heads[g]
    BY <1>1, <1>3, <2>1 DEF Head
  <2>4. Headed(Heads', a, n)
    BY <1>2, <2>3 DEF Headed, Placed
  <2>5. Filled(a, n)'
    BY <1>1, <1>2, <2>1 DEF Placed, Filled, Going
  <2>6. Remembered(a, n)'
    BY <1>1, <1>2 DEF Placed, Remembered
  <2>7. Zoned(a, n)'
    <3>1. ~(cur' > Rel(w))
      BY <1>5, <2>2 DEF Member
    <3> QED BY <1>1, <1>5, <2>1, <2>2, <3>1 DEF Zoned, Rel, Member
  <2> QED BY <1>2, <2>1, <2>4, <2>5, <2>6, <2>7 DEF ContentsRight, Placed
<1>7. CASE first[f] = 0 /\ NextFree(1) = 1
  <2>1. pc' = "full" /\ UNCHANGED <<fat, first>>
    BY <1>7 DEF BeginWrite, fsVars
  <2>2. \A g \in Files : Head(g)' = Head(g)
    BY <1>1, <2>1 DEF Head
  <2> QED BY <1>1, <2>1, <2>2, QuietContents DEF Known
<1>8. CASE first[f] = 0 /\ NextFree(1) # 1
  <2> DEFINE new == NextFree(1)
  <2>1. /\ fat' = [fat EXCEPT ![new] = EndFat]
        /\ first' = [first EXCEPT ![f] = new] /\ cur' = 0 /\ abs' = new /\ pc' = "map"
    BY <1>8 DEF BeginWrite, Allocated
  <2>2. new \in Clusters /\ fat[new] = 0
    BY <1>8, NextFreeIs DEF Free
  <2> HIDE DEF new
  <2>3. fat'[new] = EndFat /\ \A d \in Clusters : d # new => fat'[d] = fat[d]
    BY <2>1, <2>2, ClustersAre DEF Known, Accounted, FatTyped
  <2>4. n[f] = 0
    BY <1>2, <1>4, <1>8 DEF Placed, Headed
  <2>5. PICK b \in Chains, m \in Lengths :
            /\ Linked(fat', b, m) /\ Separate(b, m)
            /\ m[f] = n[f] + 1 /\ b[f][n[f]] = new
            /\ \A g \in Files \ {f} : m[g] = n[g]
            /\ \A g \in Files, i \in Nat : i < n[g] => b[g][i] = a[g][i]
    <3>1. Linked(fat, a, n) /\ Separate(a, n)
      BY <1>2 DEF Placed
    <3>2. Taken(fat, fat', a, n, f, new)
      BY <2>2, <2>3, <2>4 DEF Taken
    <3>3. Goes(fat', a, n, f, new)
      BY <2>2, <3>1, <3>2, ChainGrows
    <3> QED BY <3>3 DEF Goes
  <2>6. Extended(b, m, a, n)
    BY <2>5 DEF Extended, Lengths
  <2>7. Headed(Heads', b, m)
    <3>1. first'[f] = new /\ \A g \in Files \ {f} : first'[g] = first[g]
      BY <2>1 DEF Known, Accounted, StreamTyped
    <3>2. Heads'[f] = new /\ \A g \in Files \ {f} : Heads'[g] = Heads[g]
      BY <1>1, <1>3, <2>1, <3>1 DEF Head
    <3>3. new # 0
      BY <2>2, ClustersAre
    <3>4. \A g \in Files \ {f} : n[g] > 0 => b[g][0] = a[g][0]
      BY <2>5
    <3> QED BY <1>2, <2>4, <2>5, <3>2, <3>3, <3>4 DEF Headed, Placed
  <2>8. Filled(b, m)'
    BY <1>1, <1>2, <2>6, StillFilled DEF Placed, Known
  <2>9. Remembered(b, m)'
    <3>1. open \subseteq Files
      BY DEF Known, Accounted, StreamTyped
    <3> QED BY <1>1, <1>2, <2>6, <3>1, StillMember DEF Placed, Remembered
  <2>10. Zoned(b, m)'
    <3>1. Member(f, new, 0, b, m)
      BY <2>4, <2>5 DEF Member
    <3>2. ~(0 > Rel(w)) /\ k >= 1
      BY <1>5
    <3>3. Rel(where)' = Rel(w)
      BY <1>1 DEF Rel
    <3> QED BY <1>1, <2>1, <3>1, <3>2, <3>3 DEF Zoned
  <2> QED BY <2>5, <2>7, <2>8, <2>9, <2>10 DEF ContentsRight, Placed
<1> QED BY <1>6, <1>7, <1>8

(* One link of the chain, followed or made.                                *)
LEMMA MapStepFills ==
  ASSUME Known, Known', ContentsRight, MapStep
  PROVE  ContentsRight'
<1> DEFINE old  == Decode(abs)
           grow == ~AtTarget /\ old = EndFat
           new  == IF grow THEN NextFree(abs) ELSE old
<1>1. /\ pc = "map" /\ Remember
      /\ UNCHANGED <<content, present, start, open, first, size, cf, where, len>>
      /\ IF grow /\ new # 1 THEN fat' = Appended(abs, new) ELSE fat' = fat
      /\ IF old \in {0, 1} THEN pc' = "stopped" /\ UNCHANGED <<cur, abs>>
         ELSE IF grow /\ new = 1 THEN pc' = "full" /\ UNCHANGED <<cur, abs>>
         ELSE IF AtTarget \/ Breaks(new) THEN pc' = "write" /\ UNCHANGED <<cur, abs>>
         ELSE cur' = cur + 1 /\ abs' = new /\ UNCHANGED pc
  BY DEF MapStep, entryVars, fsVars
<1>2. PICK a \in Chains, n \in Lengths : Placed(a, n)
  BY DEF ContentsRight
<1>3. /\ Member(cf, abs, cur, a, n) /\ where <= size[cf] /\ len >= 1
      /\ cur > Rel(where) =>
            /\ prevRel[cf] = Rel(where)
            /\ \A j \in Rel(where)..cur : a[cf][j] = prevAbs[cf] + (j - Rel(where))
  BY <1>1, <1>2 DEF Placed, Zoned
<1>4. /\ cf \in open /\ cf \in Files /\ open \subseteq Files /\ cur \in Nat /\ abs \in Nat
      /\ n[cf] \in Nat /\ where \in Nat /\ Rel(where) \in Nat
  <2>1. cf \in open /\ open \subseteq Files /\ where \in Nat /\ cur \in Nat /\ abs \in FatRange
    BY <1>1 DEF Known, Accounted, CallTyped, StreamTyped, Writing
  <2>2. Rel(where) \in Nat
    BY <2>1, Divided
  <2> QED BY <2>1, <2>2, ClustersAre DEF Lengths
<1>5. /\ cur < n[cf] /\ a[cf][cur] = abs /\ abs \in Clusters
      /\ old = IF cur + 1 < n[cf] THEN a[cf][cur+1] ELSE EndFat
      /\ cur + 1 < n[cf] => a[cf][cur+1] \in Clusters
  <2>1. cur < n[cf] /\ a[cf][cur] = abs
    BY <1>3 DEF Member
  <2>2. /\ abs \in Clusters /\ fat[abs] = IF cur + 1 < n[cf] THEN a[cf][cur+1] ELSE EndFat
        /\ cur + 1 < n[cf] => a[cf][cur+1] \in Clusters
    BY <1>2, <1>4, <2>1 DEF Placed, Linked
  <2>3. Decode(abs) = fat[abs]
    BY <2>2 DEF Decode, Clusters
  <2> QED BY <2>1, <2>2, <2>3
<1>6. AtTarget => cur >= Rel(where)
  <2>1. len \in Nat \ {0}
    BY <1>3 DEF Known, Accounted, CallTyped
  <2>2. Rel(where) <= Target(where, len)
    BY <1>4, <2>1, TargetIs
  <2> QED BY <1>4, <2>2 DEF AtTarget
<1>7. old \notin {0, 1} /\ pc' \in {"map", "write", "full"}
  <2>1. old \notin {0, 1}
    BY <1>5, ClustersAre
  <2> QED BY <1>1, <2>1
<1>8. /\ cur = Rel(where) => prevRel'[cf] = cur /\ prevAbs'[cf] = abs
      /\ cur # Rel(where) => prevRel'[cf] = prevRel[cf] /\ prevAbs'[cf] = prevAbs[cf]
      /\ \A g \in Files \ {cf} : prevRel'[g] = prevRel[g] /\ prevAbs'[g] = prevAbs[g]
  <2>1. prevRel \in [Files -> Nat] /\ prevAbs \in [Files -> FatRange]
    BY DEF Known, Accounted, StreamTyped
  <2> QED BY <1>1, <1>4, <2>1 DEF Remember, AtStart, posVars
<1>9. \E b \in Chains, m \in Lengths :
         /\ Linked(fat', b, m) /\ Separate(b, m) /\ Extended(b, m, a, n)
         /\ \A g \in Files : n[g] = 0 => m[g] = 0
         /\ pc' = "map" => Member(cf, new, cur + 1, b, m)
  <2>1. Linked(fat, a, n) /\ Separate(a, n)
    BY <1>2 DEF Placed
  <2>2. CASE grow /\ new # 1
    <3>1. new \in Clusters /\ fat[new] = 0 /\ fat' = [fat EXCEPT ![abs] = new, ![new] = EndFat]
      BY <1>1, <2>2, NextFreeIs DEF Free, Appended
    <3>2. cur + 1 = n[cf] /\ fat[abs] # 0 /\ n[cf] - 1 = cur
      <4>1. ~(cur + 1 < n[cf])
        BY <1>5, <2>2, ClustersAre
      <4>2. cur + 1 = n[cf] /\ n[cf] - 1 = cur
        BY <1>4, <1>5, <4>1
      <4>3. fat[abs] = EndFat
        BY <1>4, <1>5, <2>1, <4>2 DEF Linked
      <4> QED BY <4>2, <4>3, ClustersAre
    <3> HIDE DEF new
    <3>3. /\ abs # new /\ fat'[abs] = new /\ fat'[new] = EndFat
          /\ \A d \in Clusters : d # new /\ d # abs => fat'[d] = fat[d]
      BY <1>5, <3>1, <3>2, ClustersAre DEF Known, Accounted, FatTyped
    <3>4. PICK b \in Chains, m \in Lengths :
              /\ Linked(fat', b, m) /\ Separate(b, m)
              /\ m[cf] = n[cf] + 1 /\ b[cf][n[cf]] = new
              /\ \A g \in Files \ {cf} : m[g] = n[g]
              /\ \A g \in Files, i \in Nat : i < n[g] => b[g][i] = a[g][i]
      <4>1. a[cf][n[cf] - 1] = abs
        BY <1>5, <3>2
      <4>2. n[cf] > 0 => fat'[a[cf][n[cf] - 1]] = new
        BY <3>3, <4>1
      <4>3. \A d \in Clusters : d # new /\ ~(n[cf] > 0 /\ d = a[cf][n[cf] - 1]) => fat'[d] = fat[d]
        BY <1>4, <3>2, <3>3, <4>1
      <4>4. Taken(fat, fat', a, n, cf, new)
        BY <3>1, <3>3, <4>2, <4>3 DEF Taken
      <4>5. Goes(fat', a, n, cf, new)
        BY <1>4, <2>1, <3>1, <4>4, ChainGrows
      <4> QED BY <4>5 DEF Goes
    <3>5. Extended(b, m, a, n)
      BY <3>4 DEF Extended, Lengths
    <3>6. Member(cf, new, cur + 1, b, m)
      BY <1>4, <3>2, <3>4 DEF Member
    <3>7. \A g \in Files : n[g] = 0 => m[g] = 0
      BY <1>4, <1>5, <3>4
    <3> QED BY <3>4, <3>5, <3>6, <3>7
  <2>3. CASE ~(grow /\ new # 1)
    <3>1. fat' = fat
      BY <1>1, <2>3
    <3>2. Extended(a, n, a, n)
      BY DEF Extended, Lengths
    <3>3. ASSUME pc' = "map" PROVE Member(cf, new, cur + 1, a, n)
      <4>1. ~grow /\ ~AtTarget /\ new = old
        BY <1>1, <1>7, <2>3, <3>3
      <4>2. cur + 1 < n[cf] /\ old = a[cf][cur+1]
        BY <1>5, <4>1
      <4> QED BY <1>4, <4>1, <4>2 DEF Member
    <3> QED BY <2>1, <3>1, <3>2, <3>3
  <2> QED BY <2>2, <2>3
<1>10. PICK b \in Chains, m \in Lengths :
         /\ Linked(fat', b, m) /\ Separate(b, m) /\ Extended(b, m, a, n)
         /\ \A g \in Files : n[g] = 0 => m[g] = 0
         /\ pc' = "map" => Member(cf, new, cur + 1, b, m)
  BY <1>9
<1>11. \A g \in Files : Heads'[g] = Heads[g]
  <2>1. \A g \in Files : Heads[g] = Head(g) /\ Heads'[g] = Head(g)'
    BY HeadsAre, HeadsWillBe DEF Known, AllocRight
  <2> QED BY <1>1, <1>7, <2>1 DEF Head
<1>12. Headed(Heads', b, m)
  <2>1. \A g \in Files : n[g] \in Nat /\ m[g] \in Nat
    BY DEF Lengths
  <2> QED BY <1>2, <1>10, <1>11, <2>1 DEF Headed, Placed, Extended
<1>13. Filled(b, m)'
  BY <1>1, <1>2, <1>10, StillFilled DEF Placed, Known
<1>14. Member(cf, abs, cur, b, m)
  BY <1>3, <1>4, <1>10, StillMember
<1>15. Remembered(b, m)'
  <2>1. \A g \in open : prevRel[g] # NoPos => Member(g, prevAbs[g], prevRel[g], b, m)
    BY <1>2, <1>4, <1>10, StillMember DEF Placed, Remembered
  <2>2. \A g \in open : prevRel'[g] # NoPos => Member(g, prevAbs'[g], prevRel'[g], b, m)
    BY <1>4, <1>8, <1>14, <2>1
  <2> QED BY <1>1, <2>2 DEF Remembered
<1>16. \A j \in 0..cur : b[cf][j] = a[cf][j]
  BY <1>4, <1>5, <1>10 DEF Extended
<1>17. cur >= Rel(where) =>
          /\ prevRel'[cf] = Rel(where)
          /\ \A j \in Rel(where)..cur : b[cf][j] = prevAbs'[cf] + (j - Rel(where))
  <2>1. CASE cur = Rel(where)
    <3>1. Rel(where)..cur = {cur}
      BY <1>4, <2>1
    <3> QED BY <1>4, <1>5, <1>8, <1>16, <2>1, <3>1
  <2>2. CASE cur > Rel(where)
    BY <1>3, <1>4, <1>8, <1>16, <2>2
  <2> QED BY <1>4, <2>1, <2>2
<1>18. Rel(where)' = Rel(where)
  BY <1>1 DEF Rel
<1>19. Zoned(b, m)'
  <2>1. CASE pc' = "full"
    BY <2>1 DEF Zoned
  <2>2. CASE pc' = "write"
    <3>1. cur' = cur /\ abs' = abs /\ cur >= Rel(where)
      BY <1>1, <1>4, <1>6, <1>7, <2>2 DEF Breaks
    <3> HIDE DEF new, old, grow
    <3> QED BY <1>1, <1>3, <1>14, <1>17, <1>18, <3>1 DEF Zoned
  <2>3. CASE pc' = "map"
    <3>1. cur' = cur + 1 /\ abs' = new /\ ~Breaks(new)
      BY <1>1, <1>7, <2>3
    <3> HIDE DEF new, old, grow
    <3>2. Member(cf, new, cur + 1, b, m)
      BY <1>10, <2>3
    <3>3. ASSUME cur + 1 > Rel(where)
          PROVE  /\ Rel(where) <= cur + 1 /\ prevRel'[cf] = Rel(where)
                 /\ \A j \in Rel(where)..(cur+1) : b[cf][j] = prevAbs'[cf] + (j - Rel(where))
      <4>1. cur >= Rel(where) /\ new = abs + 1
        BY <1>4, <3>1, <3>3 DEF Breaks
      <4>2. b[cf][cur+1] = abs + 1
        BY <3>2, <4>1 DEF Member
      <4>3. abs = prevAbs'[cf] + (cur - Rel(where))
        BY <1>4, <1>5, <1>16, <1>17, <4>1
      <4>4. prevAbs'[cf] \in Nat
        BY <1>4, ClustersAre DEF Known, Accounted, StreamTyped
      <4>5. ASSUME NEW j \in Rel(where)..(cur+1)
            PROVE  b[cf][j] = prevAbs'[cf] + (j - Rel(where))
        <5>1. CASE j = cur + 1
          BY <1>4, <4>2, <4>3, <4>4, <5>1
        <5>2. CASE j # cur + 1
          <6>1. j \in Rel(where)..cur
            BY <1>4, <5>2
          <6> QED BY <1>17, <4>1, <6>1
        <5> QED BY <5>1, <5>2
      <4> QED BY <1>4, <1>17, <4>1, <4>5
    <3> QED BY <1>1, <1>3, <1>18, <2>3, <3>1, <3>2, <3>3 DEF Zoned
  <2> QED BY <1>7, <2>1, <2>2, <2>3
<1> QED BY <1>10, <1>12, <1>13, <1>15, <1>19 DEF ContentsRight, Placed

(* What is written to a zone is written to the clusters of its file, at    *)
(* their places, and to no other file's.                                   *)
LEMMA WriteBackFills ==
  ASSUME Known, Known', ContentsRight, NEW k \in 1..MaxSize, WriteBack(k)
  PROVE  ContentsRight'
<1> DEFINE base == prevAbs[cf]  r == Rel(where)  t == Target(where, k)
<1>1. /\ pc = "write" /\ k <= ZoneBytes /\ pc' = "idle"
      /\ content' = [c \in Clusters |-> IF base <= c /\ c < base + (t - r + 1)
                                        THEN <<cf, r + c - base>> ELSE content[c]]
      /\ size' = [size EXCEPT ![cf] = Grown(k)]
      /\ UNCHANGED <<fat, present, start, open, first, prevRel, prevAbs>>
  BY DEF WriteBack, entryVars, posVars
<1>2. PICK a \in Chains, n \in Lengths : Placed(a, n)
  BY DEF ContentsRight
<1>3. /\ cur < n[cf] /\ where <= size[cf] /\ r <= cur
      /\ \A j \in r..cur : a[cf][j] = base + (j - r)
  BY <1>1, <1>2 DEF Placed, Zoned, Member
<1>4. /\ cf \in Files /\ cur \in Nat /\ where \in Nat /\ base \in Nat /\ size \in [Files -> Nat]
      /\ k \in Nat \ {0} /\ \A g \in Files : n[g] \in Nat /\ size[g] \in Nat
  <2>1. /\ cf \in Files /\ cur \in Nat /\ where \in Nat /\ base \in Nat /\ size \in [Files -> Nat]
    BY <1>1, ClustersAre DEF Known, Accounted, CallTyped, StreamTyped, Writing
  <2> QED BY <2>1, FatAllocAssumption DEF Lengths
<1>5. /\ r \in Nat /\ t \in Nat /\ r <= t /\ t <= cur /\ ToClusters(where + k) = t + 1
      /\ r <= ToClusters(where)
  <2>1. r \in Nat
    BY <1>4, Divided
  <2>2. k <= (1 + cur - Rel(where)) * ClusSize - Offset(where)
    BY <1>1 DEF ZoneBytes
  <2> QED BY <1>4, <2>1, <2>2, TargetIs
<1> HIDE DEF base, r, t
<1>6. size'[cf] = Grown(k) /\ \A g \in Files \ {cf} : size'[g] = size[g]
  BY <1>1, <1>4
<1>7. \A g \in Files : size'[g] \in Nat
  BY <1>4, <1>6 DEF Grown
<1>8. \A g \in Files : ToClusters(size[g]) \in Nat /\ ToClusters(size'[g]) \in Nat
  BY <1>4, <1>7, Divided
<1>9. \A g \in Files : /\ ToClusters(size[g]) <= n[g]
                       /\ \A i \in Nat : i < ToClusters(size[g]) => content[a[g][i]] = <<g, i>>
  BY <1>1, <1>2 DEF Placed, Filled, Going
(* A cluster in the zone is one of this file, at its place there.          *)
<1>10. ASSUME NEW g \in Files, NEW i \in Nat, i < n[g],
              base <= a[g][i], a[g][i] < base + (t - r + 1)
       PROVE  g = cf /\ i \in r..t /\ a[g][i] = base + (i - r)
  <2>1. a[g][i] \in Nat
    BY <1>10, ClustersAre DEF Chains
  <2> DEFINE j == r + (a[g][i] - base)
  <2>2. j \in r..cur /\ j \in r..t /\ j \in Nat /\ a[g][i] = base + (j - r)
    BY <1>4, <1>5, <1>10, <2>1
  <2> HIDE DEF j
  <2>3. a[cf][j] = a[g][i] /\ j < n[cf]
    BY <1>3, <1>4, <1>5, <2>2
  <2>4. g = cf /\ i = j
    BY <1>2, <1>4, <1>10, <2>2, <2>3 DEF Placed, Separate
  <2> QED BY <2>2, <2>4
<1>11. ToClusters(size'[cf]) <= n[cf]
  <2>1. CASE Grown(k) = where + k
    BY <1>3, <1>4, <1>5, <1>6, <2>1
  <2>2. CASE Grown(k) = size[cf]
    BY <1>4, <1>6, <1>9, <2>2
  <2> QED BY <2>1, <2>2 DEF Grown
<1>12. \A g \in Files : ToClusters(size'[g]) <= n[g]
  BY <1>6, <1>9, <1>11
<1>13. ASSUME NEW i \in Nat, i < ToClusters(size'[cf]), i \notin r..t
       PROVE  i < ToClusters(size[cf])
  <2>1. CASE i < r
    <3>1. ToClusters(where) <= ToClusters(size[cf])
      BY <1>3, <1>4, ClustersGrow
    <3>2. ToClusters(where) \in Nat
      BY <1>4, Divided
    <3> QED BY <1>4, <1>5, <1>8, <2>1, <3>1, <3>2
  <2>2. CASE i > t
    <3>1. Grown(k) # where + k
      BY <1>5, <1>6, <1>13, <2>2
    <3> QED BY <1>6, <1>13, <3>1 DEF Grown
  <2> QED BY <1>5, <1>13, <2>1, <2>2
<1>14. ASSUME NEW g \in Files, NEW i \in Nat, i < ToClusters(size'[g])
       PROVE  content'[a[g][i]] = <<g, i>>
  <2>1. i < n[g]
    BY <1>4, <1>8, <1>12, <1>14
  <2>2. a[g][i] \in Clusters /\ a[g][i] \in Nat
    BY <1>2, <2>1, ClustersAre DEF Placed, Linked
  <2>3. CASE base <= a[g][i] /\ a[g][i] < base + (t - r + 1)
    <3>1. g = cf /\ i \in r..t /\ a[g][i] = base + (i - r)
      BY <1>10, <2>1, <2>3
    <3>2. r + a[g][i] - base = i
      BY <1>4, <1>5, <3>1
    <3> QED BY <1>1, <2>2, <2>3, <3>1, <3>2
  <2>4. CASE ~(base <= a[g][i] /\ a[g][i] < base + (t - r + 1))
    <3>1. content'[a[g][i]] = content[a[g][i]]
      BY <1>1, <2>2, <2>4
    <3>2. i < ToClusters(size[g])
      <4>1. CASE g # cf
        BY <1>6, <1>14, <4>1
      <4>2. CASE g = cf
        <5>1. i \notin r..t
          <6> SUFFICES ASSUME i \in r..t PROVE FALSE
            OBVIOUS
          <6>1. i \in r..cur /\ base + (i - r) < base + (t - r + 1) /\ base <= base + (i - r)
            BY <1>4, <1>5
          <6>2. a[cf][i] = base + (i - r)
            BY <1>3, <6>1
          <6> QED BY <2>4, <4>2, <6>1, <6>2
        <5> QED BY <1>13, <1>14, <4>2, <5>1
      <4> QED BY <4>1, <4>2
    <3> QED BY <1>9, <3>1, <3>2
  <2> QED BY <2>3, <2>4
<1>15. Filled(a, n)'
  BY <1>12, <1>14 DEF Filled, ToClusters
<1>16. Headed(Heads', a, n)
  <2>1. \A g \in Files : Heads[g] = Head(g) /\ Heads'[g] = Head(g)'
    BY HeadsAre, HeadsWillBe DEF Known, AllocRight
  <2>2. \A g \in Files : Heads'[g] = Heads[g]
    BY <1>1, <2>1 DEF Head
  <2> QED BY <1>2, <2>2 DEF Placed, Headed
<1>17. Remembered(a, n)' /\ Zoned(a, n)'
  BY <1>1, <1>2 DEF Placed, Remembered, Zoned
<1> QED BY <1>1, <1>2, <1>15, <1>16, <1>17 DEF ContentsRight, Placed

(* The file that goes loses its first cluster, the others lose nothing.    *)
LEMMA FreeStepFills ==
  ASSUME Known, Known', ContentsRight, FreeStep
  PROVE  ContentsRight'
<1>1. pc = "delete" /\ cf \in present /\ cf \notin open /\ cf \in Files /\ cur # 0
  <2>1. pc \in {"delete", "abort"}
    BY DEF FreeStep
  <2>2. pc = "delete" /\ cf \in present /\ cf \notin open /\ Head(cf) # 0
    BY <2>1 DEF Known, AllocRight, CallRight, Resting, Writing
  <2> QED BY <2>2 DEF Known, Accounted, EntryTyped, Head
<1>2. /\ fat' = [fat EXCEPT ![cur] = 0]
      /\ content' = [c \in Clusters |-> IF c = cur THEN <<NoFile, 0>> ELSE content[c]]
      /\ UNCHANGED <<open, first, prevRel, prevAbs>>
      /\ IF Successor = EndFat THEN FreeReturns
         ELSE cur' = Successor /\ UNCHANGED <<pc, present, start, size, cf>>
  BY DEF FreeStep, posVars, entryVars
<1>3. PICK a \in Chains, n \in Lengths : Placed(a, n)
  BY DEF ContentsRight
<1>4. \A g \in Files : Heads[g] = Head(g) /\ Heads'[g] = Head(g)'
  BY HeadsAre, HeadsWillBe DEF Known, AllocRight
<1>5. n[cf] > 0 /\ a[cf][0] = cur /\ \A g \in Files : n[g] \in Nat
  <2>1. Heads[cf] = cur
    BY <1>1, <1>4 DEF Head
  <2> QED BY <1>1, <1>3, <2>1 DEF Placed, Headed, Lengths
<1>6. /\ cur \in Clusters /\ fat[cur] = IF 1 < n[cf] THEN a[cf][1] ELSE EndFat
      /\ 1 < n[cf] => a[cf][1] \in Clusters
  <2>1. /\ a[cf][0] \in Clusters
        /\ fat[a[cf][0]] = IF 0 + 1 < n[cf] THEN a[cf][0+1] ELSE EndFat
        /\ 1 < n[cf] => a[cf][1] \in Clusters
    BY <1>1, <1>3, <1>5 DEF Placed, Linked
  <2> QED BY <1>5, <2>1
<1>7. Successor = fat[cur]
  BY <1>6 DEF Successor, Decode, Clusters
<1>8. PICK b \in Chains, m \in Lengths :
          /\ Linked(fat', b, m) /\ Separate(b, m)
          /\ m[cf] = n[cf] - 1 /\ \A g \in Files \ {cf} : m[g] = n[g]
          /\ \A i \in Nat : b[cf][i] = a[cf][i+1]
          /\ \A g \in Files \ {cf}, i \in Nat : b[g][i] = a[g][i]
  <2>1. \A d \in Clusters : d # a[cf][0] => fat'[d] = fat[d]
    BY <1>2, <1>5, ClustersAre DEF Known, Accounted, FatTyped
  <2>2. Linked(fat, a, n) /\ Separate(a, n)
    BY <1>3 DEF Placed
  <2>3. Shrinks(fat', a, n, cf)
    BY <1>1, <1>5, <2>1, <2>2, ChainShrinks
  <2> QED BY <2>3 DEF Shrinks
<1>9. ASSUME NEW g \in Files \ {cf}
      PROVE  /\ ToClusters(size[g]) <= m[g]
             /\ \A i \in Nat : i < ToClusters(size[g]) => content'[b[g][i]] = <<g, i>>
  <2>1. /\ ToClusters(size[g]) <= n[g]
        /\ \A i \in Nat : i < ToClusters(size[g]) => content[a[g][i]] = <<g, i>>
    BY <1>3 DEF Placed, Filled, Going
  <2>2. ToClusters(size[g]) \in Nat
    BY Divided DEF Known, Accounted, StreamTyped
  <2>3. ASSUME NEW i \in Nat, i < ToClusters(size[g])
        PROVE  content'[b[g][i]] = <<g, i>>
    <3>1. i < n[g]
      BY <1>5, <2>1, <2>2, <2>3
    <3>2. a[g][i] \in Clusters
      BY <1>3, <3>1 DEF Placed, Linked
    <3>3. a[g][i] # cur
      BY <1>1, <1>3, <1>5, <3>1 DEF Placed, Separate
    <3>4. content'[a[g][i]] = content[a[g][i]]
      BY <1>2, <3>2, <3>3
    <3>5. b[g][i] = a[g][i]
      BY <1>8
    <3> QED BY <2>1, <2>3, <3>4, <3>5
  <2> QED BY <1>8, <2>1, <2>3
<1>10. ASSUME pc' \notin {"map", "write"} PROVE Remembered(b, m)' /\ Zoned(b, m)'
  <2>1. \A g \in open : g # cf /\ g \in Files
    BY <1>1 DEF Known, Accounted, StreamTyped
  <2>2. Remembered(a, n)
    BY <1>3 DEF Placed
  <2>3. \A g \in open : prevRel[g] # NoPos => Member(g, prevAbs[g], prevRel[g], b, m)
    BY <1>8, <2>1, <2>2 DEF Remembered, Member
  <2> QED BY <1>2, <1>10, <2>3 DEF Remembered, Zoned
<1>11. CASE Successor = EndFat
  <2>1. /\ pc' = "idle" /\ present' = present \ {cf}
        /\ start' = [start EXCEPT ![cf] = 0] /\ size' = [size EXCEPT ![cf] = 0]
    BY <1>1, <1>2, <1>11 DEF FreeReturns, RemoveEntry
  <2>2. size'[cf] = 0 /\ \A g \in Files \ {cf} : start'[g] = start[g] /\ size'[g] = size[g]
    BY <1>1, <2>1 DEF Known, Accounted, StreamTyped, EntryTyped
  <2>3. m[cf] = 0
    <3>1. ~(1 < n[cf])
      BY <1>6, <1>7, <1>11, ClustersAre
    <3> QED BY <1>1, <1>5, <1>8, <3>1
  <2>4. Heads'[cf] = 0 /\ \A g \in Files \ {cf} : Heads'[g] = Heads[g]
    BY <1>1, <1>2, <1>4, <2>1, <2>2 DEF Head
  <2>5. Headed(Heads', b, m)
    BY <1>3, <1>8, <2>3, <2>4 DEF Placed, Headed
  <2>6. Filled(b, m)'
    <3>1. ASSUME NEW g \in Files
          PROVE  /\ ToClusters(size'[g]) <= m[g]
                 /\ \A i \in Nat : i < ToClusters(size'[g]) => content'[b[g][i]] = <<g, i>>
      <4>1. CASE g = cf
        BY <2>2, <2>3, <4>1, NoBytes
      <4>2. CASE g # cf
        BY <1>9, <2>2, <4>2
      <4> QED BY <4>1, <4>2
    <3> QED BY <3>1 DEF Filled, ToClusters
  <2>7. Remembered(b, m)' /\ Zoned(b, m)'
    BY <1>10, <2>1
  <2> QED BY <1>8, <2>5, <2>6, <2>7 DEF ContentsRight, Placed
<1>12. CASE Successor # EndFat
  <2>1. cur' = a[cf][1] /\ 1 < n[cf] /\ UNCHANGED <<pc, present, start, size, cf>>
    BY <1>2, <1>6, <1>7, <1>12
  <2>2. m[cf] > 0 /\ b[cf][0] = cur' /\ cur' # 0
    <3>1. m[cf] > 0
      BY <1>1, <1>5, <1>8, <2>1
    <3>2. b[cf][0] = a[cf][0+1]
      BY <1>8
    <3> QED BY <1>6, <2>1, <3>1, <3>2, ClustersAre
  <2>3. Heads'[cf] = cur' /\ \A g \in Files \ {cf} : Heads'[g] = Heads[g]
    BY <1>1, <1>2, <1>4, <2>1 DEF Head
  <2>4. Headed(Heads', b, m)
    BY <1>3, <1>8, <2>2, <2>3 DEF Placed, Headed
  <2>5. Filled(b, m)'
    <3>1. \A g \in Files : ~Going(g)' => g # cf
      BY <1>1, <2>1 DEF Going
    <3>2. \A g \in Files : ToClusters(size[g])' = ToClusters(size[g])
      BY <2>1 DEF ToClusters
    <3> QED BY <1>9, <3>1, <3>2 DEF Filled
  <2>6. Remembered(b, m)' /\ Zoned(b, m)'
    BY <1>1, <1>10, <2>1
  <2> QED BY <1>8, <2>4, <2>5, <2>6 DEF ContentsRight, Placed
<1> QED BY <1>11, <1>12

(* A disk without files.                                                   *)
LEMMA InitFills ==
  ASSUME Init
  PROVE  ContentsRight
<1>1. /\ present = {} /\ open = {} /\ pc = "idle" /\ size = [f \in Files |-> 0]
  BY DEF Init
<1> DEFINE a == [f \in Files |-> [i \in Nat |-> 0]]  n == [f \in Files |-> 0]
<1>2. a \in Chains /\ n \in Lengths /\ \A f \in Files : n[f] = 0
  BY ClustersAre DEF Chains, Lengths
<1> HIDE DEF a, n
<1>3. Linked(fat, a, n) /\ Separate(a, n)
  BY <1>2 DEF Linked, Separate
<1>4. Headed(Heads, a, n)
  <2>1. \A f \in Files : Heads[f] = 0
    BY <1>1 DEF Heads, Head
  <2> QED BY <1>2, <2>1 DEF Headed
<1>5. Filled(a, n)
  BY <1>1, <1>2, NoBytes DEF Filled
<1>6. Remembered(a, n) /\ Zoned(a, n)
  BY <1>1 DEF Remembered, Zoned
<1> QED BY <1>2, <1>3, <1>4, <1>5, <1>6 DEF ContentsRight, Placed

(* Every step, while no copy fails and no command is killed.               *)
LEMMA NextFills ==
  ASSUME NoFailures, FilesFit, Known, ContentsRight, [Next]_vars
  PROVE  Known' /\ ContentsRight'
<1>1. Known'
  BY NextCounts, NextRight DEF Known
<1>2. ASSUME NEW f \in Files, CloseFailed(f)
      PROVE  FALSE
  BY <1>2 DEF CloseFailed, NoFailures
<1>3. ASSUME Crash
      PROVE  FALSE
  BY <1>3 DEF Crash, NoFailures
<1>4. ASSUME FreeStops
      PROVE  FALSE
  BY <1>4 DEF FreeStops, Known, AllocRight, Typed
<1>5. CASE CallStep
  BY <1>1, <1>4, <1>5, MapStepFills, WriteBackFills, WriteErrorFills, FreeStepFills, StoreFills
     DEF CallStep
<1>6. CASE \E f \in Files, w \in 0..MaxSize, n \in 1..MaxSize : BeginWrite(f, w, n)
  BY <1>1, <1>6, BeginWriteFills
<1>7. CASE \/ \E f \in Files, n \in 0..MaxSize : Create(f, n)
           \/ \E f \in Files : Open(f)
           \/ \E f \in Files, n \in 1..MaxSize : PreAllocate(f, n)
  BY <1>1, <1>7, CreateFills, OpenFills, PreAllocateFills
<1>8. CASE \/ \E f \in Files : Close(f)
           \/ \E f \in Files, n \in 1..MaxSize : CloseShort(f, n)
           \/ DropWrite
           \/ \E f \in Files : Delete(f)
  BY <1>1, <1>8, CloseFills, CloseShortFills, DropWriteFills, DeleteFills
<1>9. CASE GetFree \/ FatWrite \/ NextCommand \/ UNCHANGED vars
  BY <1>1, <1>9, StoreFills, NextCommandFills, StutterFills
<1> QED BY <1>2, <1>3, <1>5, <1>6, <1>7, <1>8, <1>9 DEF Next

-----------------------------------------------------------------------------
(* Chains as the properties count them.                                    *)

(* The clusters from c on, up to the one m links after it.                 *)
Links(g, c, m) ==
    g = [i \in 0..m |-> IF i = 0 THEN c
                        ELSE IF g[i-1] \in Clusters THEN fat[g[i-1]] ELSE 0]

(* They can be listed, however many.                                       *)
LEMMA LinksExist ==
  ASSUME NEW c
  PROVE  \A m \in Nat : \E g : Links(g, c, m)
<1> DEFINE After(x) == IF x \in Clusters THEN fat[x] ELSE 0
           T == {m \in Nat : \E g : Links(g, c, m)}
<1>1. 0 \in T
  <2> DEFINE g == [i \in 0..0 |-> c]
  <2>1. \A i \in 0..0 : i = 0
    OBVIOUS
  <2>2. g = [i \in 0..0 |-> IF i = 0 THEN c ELSE After(g[i-1])]
    BY <2>1
  <2> HIDE DEF g
  <2>3. Links(g, c, 0)
    BY <2>2 DEF Links
  <2> QED BY <2>3
<1>2. ASSUME NEW m \in Nat, m \in T PROVE m + 1 \in T
  <2>1. PICK f : Links(f, c, m)
    BY <1>2
  <2> DEFINE g == [i \in 0..(m+1) |-> IF i = 0 THEN c ELSE After(f[i-1])]
  <2>2. \A i \in 0..m : f[i] = IF i = 0 THEN c ELSE After(f[i-1])
    BY <2>1 DEF Links
  <2>3. \A i \in 0..m : g[i] = f[i]
    BY <2>2
  <2>4. \A i \in 0..(m+1) : g[i] = IF i = 0 THEN c ELSE After(f[i-1])
    OBVIOUS
  <2>5. g = [i \in 0..(m+1) |-> g[i]]
    OBVIOUS
  <2> HIDE DEF g
  <2>6. \A i \in 0..(m+1) : i # 0 => g[i-1] = f[i-1]
    BY <2>3
  <2>7. g = [i \in 0..(m+1) |-> IF i = 0 THEN c ELSE After(g[i-1])]
    BY <2>4, <2>5, <2>6
  <2>8. Links(g, c, m + 1)
    BY <2>7 DEF Links
  <2> QED BY <2>8
<1> HIDE DEF T
<1>3. \A m \in Nat : m \in T
  BY <1>1, <1>2, Counting
<1> QED BY <1>3 DEF T

(* Nth follows one link after the other.                                   *)
LEMMA NthFollows ==
  ASSUME NEW c
  PROVE  /\ Nth(c, 0) = c
         /\ \A i \in 1..NumClus :
               Nth(c, i) = IF Nth(c, i-1) \in Clusters THEN fat[Nth(c, i-1)] ELSE 0
<1> DEFINE nth == CHOOSE g : Links(g, c, NumClus)
<1>1. \A i : Nth(c, i) = nth[i]
  BY DEF Nth, Links
<1>2. NumClus \in Nat \ {0}
  BY FatAllocAssumption
<1>3. Links(nth, c, NumClus)
  <2>1. \E g : Links(g, c, NumClus)
    BY <1>2, LinksExist
  <2> QED BY <2>1
<1> HIDE DEF nth
<1>4. \A i \in 0..NumClus : nth[i] = IF i = 0 THEN c
                                     ELSE IF nth[i-1] \in Clusters THEN fat[nth[i-1]] ELSE 0
  BY <1>3 DEF Links
<1>5. nth[0] = c
  BY <1>2, <1>4
<1>6. \A i \in 1..NumClus : nth[i] = IF nth[i-1] \in Clusters THEN fat[nth[i-1]] ELSE 0
  BY <1>2, <1>4
<1> QED BY <1>1, <1>5, <1>6

(* No chain has more clusters than there are.                              *)
LEMMA ChainFits ==
  ASSUME NEW t, NEW a \in Chains, NEW n \in Lengths, Linked(t, a, n), Separate(a, n),
         NEW f \in Files
  PROVE  n[f] \in 0..NumClus
<1>1. n[f] \in Nat
  BY DEF Lengths
<1> DEFINE S == 0..n[f]-1
           at == [i \in S |-> a[f][i]]
<1>2. \A i \in S : i \in Nat /\ i < n[f]
  BY <1>1
<1>3. \A i \in S : at[i] \in Clusters
  BY <1>2 DEF Linked
<1>4. \A i, j \in S : at[i] = at[j] => i = j
  BY <1>2 DEF Separate
<1>5. at \in Injection(S, Clusters)
  <2>1. at \in [S -> Clusters]
    BY <1>3
  <2> HIDE DEF at, S
  <2> QED BY <1>4, <2>1 DEF Injection, IsInjective
<1>6. Cardinality(S) <= Cardinality(Clusters)
  <2> HIDE DEF at, S
  <2> QED BY <1>5, ClustersAre, FS_Injection
<1>7. Cardinality(S) = n[f]
  <2>1. 0 \in Int /\ n[f] - 1 \in Int
    BY <1>1
  <2>2. Cardinality(0..n[f]-1) = IF 0 > n[f] - 1 THEN 0 ELSE n[f] - 1 - 0 + 1
    BY <2>1, FS_Interval
  <2> QED BY <1>1, <2>2
<1> HIDE DEF S
<1> QED BY <1>1, <1>6, <1>7, ClustersAre

(* Cluster i of a file is the one i links after its first, and there are   *)
(* no others.                                                              *)
LEMMA NthIsMember ==
  ASSUME NEW a \in Chains, NEW n \in Lengths, Linked(fat, a, n), NEW f \in Files, NEW c,
         IF c = 0 THEN n[f] = 0 ELSE n[f] > 0 /\ a[f][0] = c
  PROVE  \A i \in 0..NumClus : IF i < n[f] THEN Nth(c, i) = a[f][i] /\ a[f][i] \in Clusters
                               ELSE Nth(c, i) \notin Clusters
<1> DEFINE Right(i) == IF i < n[f] THEN Nth(c, i) = a[f][i] /\ a[f][i] \in Clusters
                       ELSE Nth(c, i) \notin Clusters
           T == {i \in Nat : i <= NumClus => Right(i)}
<1>1. n[f] \in Nat /\ NumClus \in Nat \ {0}
  BY FatAllocAssumption DEF Lengths
<1>2. 0 \in T
  <2>1. Nth(c, 0) = c
    BY NthFollows
  <2>2. CASE c = 0
    BY <1>1, <2>1, <2>2, ClustersAre
  <2>3. CASE c # 0
    <3>1. 0 < n[f] /\ a[f][0] = c /\ a[f][0] \in Clusters
      BY <2>3 DEF Linked
    <3> QED BY <2>1, <3>1
  <2> QED BY <2>2, <2>3
<1>3. ASSUME NEW i \in Nat, i \in T PROVE i + 1 \in T
  <2> SUFFICES ASSUME i + 1 <= NumClus PROVE Right(i + 1)
    OBVIOUS
  <2>1. Right(i)
    BY <1>1, <1>3
  <2>2. Nth(c, i + 1) = IF Nth(c, i) \in Clusters THEN fat[Nth(c, i)] ELSE 0
    <3>1. i + 1 \in 1..NumClus /\ (i + 1) - 1 = i
      BY <1>1
    <3>2. \A j \in 1..NumClus :
             Nth(c, j) = IF Nth(c, j-1) \in Clusters THEN fat[Nth(c, j-1)] ELSE 0
      BY NthFollows
    <3> DEFINE j == i + 1
    <3>3. j \in 1..NumClus /\ j - 1 = i
      BY <3>1
    <3> HIDE DEF j
    <3>4. Nth(c, j) = IF Nth(c, i) \in Clusters THEN fat[Nth(c, i)] ELSE 0
      BY <3>2, <3>3
    <3> QED BY <3>4 DEF j
  <2>3. CASE i < n[f]
    <3>1. Nth(c, i) = a[f][i] /\ a[f][i] \in Clusters
      BY <2>1, <2>3
    <3>2. /\ fat[a[f][i]] = IF i + 1 < n[f] THEN a[f][i+1] ELSE EndFat
          /\ i + 1 < n[f] => a[f][i+1] \in Clusters
      BY <2>3 DEF Linked
    <3>3. Nth(c, i + 1) = fat[a[f][i]]
      BY <2>2, <3>1
    <3>4. EndFat \notin Clusters
      BY ClustersAre
    <3> QED BY <3>2, <3>3, <3>4
  <2>4. CASE ~(i < n[f])
    <3>1. Nth(c, i + 1) = 0 /\ ~(i + 1 < n[f])
      BY <1>1, <2>1, <2>2, <2>4
    <3> QED BY <3>1, ClustersAre
  <2> QED BY <2>3, <2>4
<1> HIDE DEF T
<1>4. \A i \in Nat : i \in T
  BY <1>2, <1>3, Counting
<1>5. \A i \in 0..NumClus : i \in Nat /\ i <= NumClus
  BY <1>1
<1> QED BY <1>4, <1>5 DEF T

(* What the invariant says of a file, in the words of the properties.      *)
LEMMA FileIs ==
  ASSUME NEW a \in Chains, NEW n \in Lengths, Placed(a, n), Known, NEW f \in Files, ~Going(f)
  PROVE  /\ n[f] \in 0..NumClus
         /\ \A i \in 0..NumClus : IF i < n[f] THEN Nth(Head(f), i) = a[f][i] /\ a[f][i] \in Clusters
                                  ELSE Nth(Head(f), i) \notin Clusters
         /\ ChainLength(Head(f)) = n[f]
         /\ Holds(f, Head(f), size[f])
         /\ size[f] <= ClusSize * ChainLength(Head(f))
<1>1. n[f] \in 0..NumClus /\ n[f] \in Nat /\ NumClus \in Nat
  BY ChainFits, ClustersAre DEF Placed, Lengths
<1>2. Heads[f] = Head(f)
  BY HeadsAre DEF Known, AllocRight
<1>3. \A i \in 0..NumClus : IF i < n[f] THEN Nth(Head(f), i) = a[f][i] /\ a[f][i] \in Clusters
                            ELSE Nth(Head(f), i) \notin Clusters
  <2>1. IF Head(f) = 0 THEN n[f] = 0 ELSE n[f] > 0 /\ a[f][0] = Head(f)
    BY <1>2 DEF Placed, Headed
  <2>2. Linked(fat, a, n)
    BY DEF Placed
  <2> QED BY <2>1, <2>2, NthIsMember
<1>4. ChainLength(Head(f)) = n[f]
  <2>1. {i \in 0..NumClus : Nth(Head(f), i) \in Clusters} = 0..n[f]-1
    <3>1. \A i \in 0..NumClus : Nth(Head(f), i) \in Clusters <=> i < n[f]
      BY <1>3
    <3>2. \A i : i \in 0..n[f]-1 <=> i \in 0..NumClus /\ i < n[f]
      BY <1>1
    <3> QED BY <3>1, <3>2
  <2>2. Cardinality(0..n[f]-1) = n[f]
    <3>1. 0 \in Int /\ n[f] - 1 \in Int
      BY <1>1
    <3>2. Cardinality(0..n[f]-1) = IF 0 > n[f] - 1 THEN 0 ELSE n[f] - 1 - 0 + 1
      BY <3>1, FS_Interval
    <3> QED BY <1>1, <3>2
  <2> QED BY <2>1, <2>2 DEF ChainLength
<1>5. /\ ToClusters(size[f]) <= n[f]
      /\ \A i \in Nat : i < ToClusters(size[f]) => content[a[f][i]] = <<f, i>>
  BY DEF Placed, Filled
<1>6. Holds(f, Head(f), size[f])
  <2> SUFFICES ASSUME NEW i \in 0..NumClus, i < ToClusters(size[f]), Nth(Head(f), i) \in Clusters
               PROVE  content[Nth(Head(f), i)] = <<f, i>>
    BY DEF Holds
  <2>1. Nth(Head(f), i) = a[f][i] /\ i \in Nat
    BY <1>3
  <2> QED BY <1>5, <2>1
<1>7. size[f] <= ClusSize * ChainLength(Head(f))
  <2>1. size[f] \in Nat
    BY DEF Known, Accounted, StreamTyped
  <2>2. ToClusters(size[f]) * ClusSize >= size[f] /\ ToClusters(size[f]) \in Nat
    BY <2>1, Divided
  <2>3. ClusSize \in Nat
    BY FatAllocAssumption
  <2> DEFINE k == ToClusters(size[f])  d == n[f] - k
  <2>4. k \in Nat /\ d \in Nat /\ n[f] = k + d /\ k * ClusSize >= size[f]
    BY <1>1, <1>5, <2>2
  <2> HIDE DEF k, d
  <2>5. ClusSize * n[f] = k * ClusSize + d * ClusSize /\ d * ClusSize \in Nat /\ k * ClusSize \in Nat
    BY <2>3, <2>4
  <2> QED BY <1>4, <2>1, <2>4, <2>5
<1> QED BY <1>1, <1>3, <1>4, <1>6, <1>7

(* The invariant holds in every state.                                     *)
LEMMA ContentsAlways ==
  ASSUME NoFailures, FilesFit
  PROVE  Spec => [](Known /\ ContentsRight)
<1>1. Init => Known /\ ContentsRight
  BY InitCounts, InitRight, InitFills DEF Known
<1>2. Known /\ ContentsRight /\ [Next]_vars => (Known /\ ContentsRight)'
  BY NextFills
<1> QED BY <1>1, <1>2, PTL DEF Spec

(* While no copy fails and no command is killed, what an open stream knows *)
(* is true of the chain on the disk: the position it resumes from is the   *)
(* cluster at that place, and it has the clusters for every byte it counts *)
(* (normal_map, write_file).                                               *)
THEOREM StreamsRightAlways ==
  ASSUME NoFailures, FilesFit
  PROVE  Spec => []StreamsRight
<1>1. Known /\ ContentsRight => StreamsRight
  <2> SUFFICES ASSUME Known, ContentsRight PROVE StreamsRight
    OBVIOUS
  <2>1. PICK a \in Chains, n \in Lengths : Placed(a, n)
    BY DEF ContentsRight
  <2>2. ASSUME NEW f \in open
        PROVE  f \in Files /\ ~Going(f) /\ Head(f) = first[f]
    BY DEF Known, Accounted, AllocRight, CallRight, StreamTyped, Going, Head
  <2>3. SizeCovered
    BY <2>1, <2>2, FileIs DEF SizeCovered
  <2>4. PositionRight
    <3> SUFFICES ASSUME NEW f \in open, prevRel[f] # NoPos
                 PROVE  prevAbs[f] = Nth(first[f], prevRel[f])
      BY DEF PositionRight
    <3>1. prevRel[f] \in Nat /\ prevRel[f] < n[f] /\ a[f][prevRel[f]] = prevAbs[f]
      BY <2>1 DEF Placed, Remembered, Member
    <3>2. n[f] \in 0..NumClus
      BY <2>1, <2>2, FileIs
    <3>3. \A i \in 0..NumClus : i < n[f] => Nth(Head(f), i) = a[f][i]
      BY <2>1, <2>2, FileIs
    <3>4. prevRel[f] \in 0..NumClus
      BY <3>1, <3>2, ClustersAre
    <3> QED BY <2>2, <3>1, <3>3, <3>4
  <2>5. TypeOK
    BY AccountedIs DEF Known
  <2> QED BY <2>3, <2>4, <2>5 DEF StreamsRight
<1> QED BY <1>1, ContentsAlways, PTL

(* ... and a file keeps what was written to it, whatever is created,       *)
(* extended and deleted beside it, in this command and the next: cluster i *)
(* of its chain was last written for it, at its index i.                   *)
THEOREM ContentIntactAlways ==
  ASSUME NoFailures, FilesFit
  PROVE  Spec => []ContentIntact
<1>1. Known /\ ContentsRight => ContentIntact
  <2> SUFFICES ASSUME Known, ContentsRight PROVE ContentIntact
    OBVIOUS
  <2>1. PICK a \in Chains, n \in Lengths : Placed(a, n)
    BY DEF ContentsRight
  <2>2. \A f \in Files : ~Going(f) => Holds(f, Head(f), size[f])
    BY <2>1, FileIs
  <2>3. ASSUME NEW f \in Files, f \in open PROVE Holds(f, first[f], size[f])
    <3>1. ~Going(f) /\ Head(f) = first[f]
      BY <2>3 DEF Known, AllocRight, CallRight, Going, Head
    <3>2. Holds(f, Head(f), size[f])
      BY <2>2, <3>1
    <3> QED BY <3>1, <3>2
  <2>4. ASSUME NEW f \in Files, f \notin open, f \in present, ~(pc = "delete" /\ f = cf)
        PROVE  Holds(f, start[f], size[f])
    <3>1. ~Going(f) /\ Head(f) = start[f]
      BY <2>4 DEF Going, Head
    <3>2. Holds(f, Head(f), size[f])
      BY <2>2, <3>1
    <3> QED BY <3>1, <3>2
  <2> QED BY <2>3, <2>4 DEF ContentIntact
<1> QED BY <1>1, ContentsAlways, PTL
=============================================================================
