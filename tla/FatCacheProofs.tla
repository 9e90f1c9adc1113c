-------------------------- MODULE FatCacheProofs ---------------------------
(***************************************************************************)
(* Proofs about the FAT sector cache for every length of the FAT, every     *)
(* number of copies and every set of unreadable sectors: the cache agrees   *)
(* with the disk, fat_write leaves the copies equal and keeps one of them   *)
(* whole, and cache and disk together are the table FatTable promises; and  *)
(* the bytes of a FAT are a table of independent entries for each width.    *)
(***************************************************************************)
EXTENDS FatCache, FatEntry, WellFoundedInduction, TLAPS

\* A non-empty set of numbers has a least element.
LEMMA LeastElement ==
    ASSUME NEW T, T \subseteq Nat, T # {}
    PROVE  \E i \in T : \A j \in T : ~(j < i)
  <1>1. PICK i \in T : \A j \in T : <<j, i>> \notin OpToRel(<, Nat)
    BY WFMin, NatLessThanWellFounded
  <1>2. \A j \in T : ~(j < i)
    BY <1>1 DEF OpToRel
  <1> QED BY <1>2

\* A copy number stays a copy number when it is rotated.
LEMMA DupeIsCopy == \A i \in Copies : Dupe(i) \in Copies
  BY FatCacheAssumption DEF Dupe, Copies

\* loadSector finds the first readable copy when there is a readable one.
LEMMA FirstReadable ==
    ASSUME NEW s \in Sectors, Good(s)
    PROVE  \E i \in Copies : /\ Source(s) = Dupe(i)
                             /\ Readable(Dupe(i), s)
                             /\ \A j \in 0..i-1 : ~Readable(Dupe(j), s)
  <1> DEFINE T == {i \in Copies : Readable(Dupe(i), s)}
  <1>1. T \subseteq Nat /\ T # {}
    BY FatCacheAssumption DEF Good, Copies
  <1>2. PICK i \in T : \A j \in T : ~(j < i)
    BY <1>1, LeastElement
  <1>3. \A j \in 0..i-1 : ~Readable(Dupe(j), s)
    <2> SUFFICES ASSUME NEW j \in 0..i-1 PROVE ~Readable(Dupe(j), s)
      OBVIOUS
    <2>1. j \in Copies /\ j < i
      BY FatCacheAssumption DEF Copies
    <2> QED BY <2>1, <1>2
  <1>4. \E k \in Copies : /\ Readable(Dupe(k), s)
                          /\ \A j \in 0..k-1 : ~Readable(Dupe(j), s)
    BY <1>3
  <1> QED BY <1>4 DEF Source

\* The copy that supplies a readable sector is a copy, and can be read there.
LEMMA SourceIsReadable ==
    ASSUME NEW s \in Sectors, Good(s)
    PROVE  Source(s) \in Copies /\ Readable(Source(s), s)
  BY FirstReadable, DupeIsCopy

\* Of the readable copies, the first one in the rotation supplies a sector.
LEMMA PrimaryPreferred == \A s \in Sectors : Readable(Dupe(0), s) => Source(s) = Dupe(0)
  <1> SUFFICES ASSUME NEW s \in Sectors, Readable(Dupe(0), s)
               PROVE  Source(s) = Dupe(0)
    OBVIOUS
  <1>1. 0 \in Copies /\ Good(s)
    BY FatCacheAssumption DEF Copies, Good
  <1>2. PICK i \in Copies : /\ Source(s) = Dupe(i)
                            /\ \A j \in 0..i-1 : ~Readable(Dupe(j), s)
    BY <1>1, FirstReadable
  <1>3. i = 0
    BY <1>2, FatCacheAssumption DEF Copies
  <1> QED BY <1>2, <1>3

\* The same after a step.
LEMMA PrimaryStaysPreferred ==
    \A s \in Sectors : Readable(Dupe(0), s)' => Source(s)' = Dupe(0)
  <1>1. (\A s \in Sectors : Readable(Dupe(0), s) => Source(s) = Dupe(0))'
    BY PrimaryPreferred, PTL
  <1> QED BY <1>1

-----------------------------------------------------------------------------
(* What one loadSector brings into the cache                                *)

\* One fatReadSector delivers sectors of the FAT only.
LEMMA RunInSectors ==
    ASSUME NEW s \in Sectors, NEW burst \in Bursts
    PROVE  Run(s, burst) \subseteq Sectors
  BY DEF Run

\* loadSector(s) only ever asks for sectors of the FAT.
LEMMA CalledInSectors ==
    ASSUME NEW s \in Sectors, NEW burst \in Bursts
    PROVE  Called(s, burst) \subseteq Sectors /\ s \in Called(s, burst)
  BY DEF Called, Sectors

\* Every sector that is fetched exists, was not cached, and comes from a copy
\* that can be read at the head of its run.
LEMMA FetchedSectors ==
    ASSUME NEW s \in Sectors, NEW burst \in Bursts
    PROVE  /\ Fetched(s, burst) \subseteq Sectors \ valid
           /\ \A t \in Fetched(s, burst) : FetchedFrom(t, s, burst) \in Copies
           /\ s \in valid => Fetched(s, burst) = {}
  <1>1. Heads(s, burst) \subseteq {t \in Sectors : Good(t)}
    BY CalledInSectors DEF Heads
  <1>2. Read(s, burst) \subseteq Sectors
    BY <1>1, CalledInSectors, RunInSectors DEF Read
  <1>3. ASSUME NEW t \in Read(s, burst) PROVE FetchedFrom(t, s, burst) \in Copies
    <2>1. CASE \E h \in Heads(s, burst) : t \in Run(h, burst)
      BY <2>1, <1>1, SourceIsReadable DEF FetchedFrom
    <2>2. CASE ~\E h \in Heads(s, burst) : t \in Run(h, burst)
      <3>1. t \in Sectors /\ Good(t)
        BY <2>2, <1>2 DEF Read
      <3> QED BY <2>2, <3>1, SourceIsReadable DEF FetchedFrom
    <2> QED BY <2>1, <2>2
  <1> QED BY <1>2, <1>3 DEF Fetched

\* What a load leaves in FatMap[].data are contents of sectors.
LEMMA LoadedDataType ==
    ASSUME TypeOK, NEW s \in Sectors, NEW burst \in Bursts
    PROVE  LoadedData(s, burst) \in [Sectors -> Values]
  <1>1. \A t \in Fetched(s, burst) : disk[FetchedFrom(t, s, burst)][t] \in Values
    BY FetchedSectors DEF TypeOK
  <1>2. \A t \in Sectors : data[t] \in Values
    BY DEF TypeOK
  <1> QED BY <1>1, <1>2 DEF LoadedData

-----------------------------------------------------------------------------
(* Type correctness                                                         *)

\* A load keeps the bitmaps and the memory of getAddress in their types.
LEMMA LoadType ==
    ASSUME TypeOK, NEW s \in Sectors, NEW burst \in Bursts, NEW mode \in Modes,
           Load(s, mode, burst)
    PROVE  /\ valid' \subseteq Sectors /\ dirty' \subseteq Sectors
           /\ fatDirty' \in BOOLEAN
           /\ \E t \in Sectors, m \in Modes : last' = {[nr |-> t, mode |-> m]}
  BY FetchedSectors, CalledInSectors, Zenon DEF Load, TypeOK

\* A write changes one sector of one copy.
LEMMA StoredEffect ==
    ASSUME TypeOK, NEW s \in Sectors
    PROVE  /\ Stored(s) \in [Copies -> [Sectors -> Values]]
           /\ \A c \in Copies, u \in Sectors :
                 Stored(s)[c][u] = IF c = Dupe(pass) /\ u = s THEN data[s] ELSE disk[c][u]
  <1>1. Dupe(pass) \in Copies
    BY DupeIsCopy DEF TypeOK
  <1>2. Stored(s) = [disk EXCEPT ![Dupe(pass)] = [disk[Dupe(pass)] EXCEPT ![s] = data[s]]]
    BY DEF Stored
  <1>3. [disk[Dupe(pass)] EXCEPT ![s] = data[s]] \in [Sectors -> Values]
    BY <1>1 DEF TypeOK
  <1> QED BY <1>1, <1>2, <1>3 DEF TypeOK

\* fat_read starts in a well-typed state.
LEMMA InitTypeOK == Init => TypeOK
  <1> SUFFICES ASSUME Init PROVE TypeOK
    OBVIOUS
  <1>1. bad \subseteq Copies \X Sectors
    BY FatCacheAssumption DEF Init, Copies, Sectors
  <1>2. (CHOOSE v \in Values : TRUE) \in Values
    BY FatCacheAssumption
  <1>3. 0 \in Copies /\ 0 \in 0..FatLen
    BY FatCacheAssumption DEF Copies
  <1> QED BY <1>1, <1>2, <1>3 DEF Init, TypeOK

\* No access to the FAT and no step of fat_write leaves the types.
LEMMA NextTypeOK == TypeOK /\ [Next]_vars => TypeOK'
  <1> SUFFICES ASSUME TypeOK, [Next]_vars PROVE TypeOK'
    OBVIOUS
  <1>1. ASSUME NEW s \in Sectors, NEW burst \in Bursts, NEW err \in BOOLEAN,
               Decode(s, burst, err)
        PROVE  TypeOK'
    <2>1. CASE Hit(s, "READ")
      BY <1>1, <2>1 DEF Decode, TypeOK, cache
    <2>2. CASE ~Hit(s, "READ")
      <3>1. "READ" \in Modes /\ Load(s, "READ", burst) /\ data' = LoadedData(s, burst)
        BY <1>1, <2>2 DEF Decode, Modes
      <3>2. data' \in [Sectors -> Values]
        BY <3>1, LoadedDataType
      <3> QED BY <1>1, <3>1, <3>2, LoadType DEF Decode, TypeOK
    <2> QED BY <2>1, <2>2
  <1>2. ASSUME NEW s \in Sectors, NEW v \in Values, NEW burst \in Bursts,
               Encode(s, v, burst)
        PROVE  TypeOK'
    <2>1. CASE Hit(s, "WRITE")
      BY <1>2, <2>1 DEF Encode, TypeOK
    <2>2. CASE ~Hit(s, "WRITE")
      <3>1. /\ "WRITE" \in Modes /\ Load(s, "WRITE", burst)
            /\ data' = [LoadedData(s, burst) EXCEPT ![s] = v]
        BY <1>2, <2>2 DEF Encode, Modes
      <3>2. data' \in [Sectors -> Values]
        BY <3>1, LoadedDataType
      <3> QED BY <1>2, <3>1, <3>2, LoadType DEF Encode, TypeOK
    <2> QED BY <2>1, <2>2
  <1>3. ASSUME NEW s \in Sectors, EncodeFault(s) PROVE TypeOK'
    BY <1>3 DEF EncodeFault, TypeOK, cache
  <1>4. CASE StartWrite
    BY <1>4, FatCacheAssumption DEF StartWrite, TypeOK, cache, Copies
  <1>5. ASSUME NEW s \in Sectors, WriteSector(s) PROVE TypeOK'
    <2>1. Dupe(pass) \in Copies
      BY DupeIsCopy DEF TypeOK
    <2>2. disk' \in [Copies -> [Sectors -> Values]] /\ bad' \subseteq Copies \X Sectors
      BY <1>5, <2>1, StoredEffect DEF WriteSector, TypeOK
    <2>3. next' \in 0..FatLen
      BY <1>5, FatCacheAssumption DEF WriteSector, After, Sectors
    <2>4. dirty' \subseteq Sectors
      BY <1>5 DEF WriteSector, TypeOK
    <2> QED BY <1>5, <2>2, <2>3, <2>4 DEF WriteSector, TypeOK
  <1>6. CASE NextPass
    <2>1. pass' \in Copies /\ next' \in 0..FatLen
      BY <1>6, FatCacheAssumption DEF NextPass, MorePasses, Dups, TypeOK, Copies
    <2> QED BY <1>6, <2>1 DEF NextPass, TypeOK, cache
  <1>7. CASE EndWrite
    <2>1. pass' \in Copies /\ next' \in 0..FatLen
      BY <1>7, FatCacheAssumption DEF EndWrite, Copies
    <2>2. last' = {} \/ \E s \in Sectors, m \in Modes : last' = {[nr |-> s, mode |-> m]}
      <3>1. CASE last = {}
        BY <1>7, <3>1 DEF EndWrite, ModeReset
      <3>2. CASE \E s \in Sectors, m \in Modes : last = {[nr |-> s, mode |-> m]}
        <4>1. PICK s \in Sectors, m \in Modes : last = {[nr |-> s, mode |-> m]}
          BY <3>2
        <4>2. last' = {[nr |-> s, mode |-> "READ"]}
          BY <1>7, <4>1 DEF EndWrite, ModeReset
        <4> QED BY <4>2 DEF Modes
      <3> QED BY <3>1, <3>2 DEF TypeOK
    <2> QED BY <1>7, <2>1, <2>2 DEF EndWrite, TypeOK
  <1>8. CASE WriteFails
    BY <1>8 DEF WriteFails, TypeOK, cache
  <1>9. CASE UNCHANGED vars
    BY <1>9 DEF vars, cache, TypeOK
  <1> QED
    BY <1>1, <1>2, <1>3, <1>4, <1>5, <1>6, <1>7, <1>8, <1>9 DEF Next, Flush

\* The variables keep their types: fat_write leaves its loops with indices in
\* range, and only existing sectors are ever cached.
THEOREM TypeCorrect == Spec => []TypeOK
  BY InitTypeOK, NextTypeOK, PTL DEF Spec
-----------------------------------------------------------------------------
(* Coherence                                                                *)

\* fat_write has dealt with the dirty sectors below next in the current pass,
\* and fat_dirty stays set until it is done.
WriteProgress ==
    pc = "writing" => /\ fatDirty
                      /\ Clears => \A s \in dirty : s >= next

\* The shortcut of getAddress refers to a cached sector.
LastCached == \A l \in last : l.nr \in valid

\* Whatever is not cached reads the same from every copy.
UncachedAgree ==
    \A s \in Sectors \ valid : \A c, d \in Copies : disk[c][s] = disk[d][s]

\* A dirty sector that fat_write has already put on the preferred copy reads
\* back from it.
Written(s) == pc = "writing" /\ (pass > 0 \/ s < next)
WrittenReadsBack ==
    \A s \in dirty : Written(s) => Readable(Dupe(0), s) /\ disk[Dupe(0)][s] = data[s]

\* What is cached could be read once.
CachedAreGood == \A s \in valid : Good(s)

Bookkeeping == TypeOK /\ DirtyAnnounced /\ WriteProgress /\ LastCached

Coherent == CacheCoherent /\ UncachedAgree /\ WrittenReadsBack /\ CachedAreGood

\* The bookkeeping of the bitmaps is right when the cache is empty.
LEMMA InitBookkeeping == Init => Bookkeeping
  <1> SUFFICES ASSUME Init PROVE Bookkeeping
    OBVIOUS
  <1>1. TypeOK
    BY InitTypeOK
  <1> QED BY <1>1 DEF Init, Bookkeeping, DirtyAnnounced, WriteProgress, LastCached

\* A load that does not fail caches its sector.
LEMMA LoadCaches ==
    ASSUME NEW s \in Sectors, NEW burst \in Bursts, NEW mode \in Modes,
           ~Hit(s, mode), ~LoadFails(s, mode)
    PROVE  s \in valid \cup Fetched(s, burst)
  BY CalledInSectors DEF LoadFails, Fetched, Read

\* Every access and every step of fat_write keeps the bookkeeping right: one
\* step per action.
LEMMA NextBookkeeping == Bookkeeping /\ [Next]_vars => Bookkeeping'
  <1> SUFFICES ASSUME Bookkeeping, [Next]_vars PROVE Bookkeeping'
    OBVIOUS
  <1> USE DEF Bookkeeping
  <1>0. TypeOK'
    BY NextTypeOK
  <1>1. ASSUME NEW s \in Sectors, NEW burst \in Bursts, NEW err \in BOOLEAN,
               Decode(s, burst, err)
        PROVE  (DirtyAnnounced /\ WriteProgress /\ LastCached)'
    <2>1. CASE Hit(s, "READ")
      BY <1>1, <2>1 DEF Decode, cache, DirtyAnnounced, WriteProgress, LastCached
    <2>2. CASE ~Hit(s, "READ")
      <3>1. "READ" \in Modes /\ Load(s, "READ", burst)
        BY <1>1, <2>2 DEF Decode, Modes
      <3>2. s \in valid'
        BY <1>1, <2>2, <3>1, LoadCaches DEF Decode, Load
      <3>3. /\ last' = {[nr |-> s, mode |-> "READ"]} /\ dirty' = dirty
            /\ valid \subseteq valid' /\ (fatDirty => fatDirty')
        BY <3>1 DEF Load
      <3>4. pc = "idle" /\ pc' = "idle"
        BY <1>1 DEF Decode
      <3> QED BY <3>2, <3>3, <3>4 DEF DirtyAnnounced, WriteProgress, LastCached
    <2> QED BY <2>1, <2>2
  <1>2. ASSUME NEW s \in Sectors, NEW v \in Values, NEW burst \in Bursts,
               Encode(s, v, burst)
        PROVE  (DirtyAnnounced /\ WriteProgress /\ LastCached)'
    <2>1. CASE Hit(s, "WRITE")
      BY <1>2, <2>1 DEF Encode, DirtyAnnounced, WriteProgress, LastCached
    <2>2. CASE ~Hit(s, "WRITE")
      <3>1. "WRITE" \in Modes /\ Load(s, "WRITE", burst)
        BY <1>2, <2>2 DEF Encode, Modes
      <3>2. s \in valid'
        BY <1>2, <2>2, <3>1, LoadCaches DEF Encode, Load
      <3>3. /\ last' = {[nr |-> s, mode |-> "WRITE"]}
            /\ dirty' = dirty \cup (Called(s, burst) \cap valid')
            /\ valid \subseteq valid' /\ fatDirty'
        BY <3>1 DEF Load
      <3>4. s \in dirty' /\ dirty' \subseteq valid'
        BY <3>2, <3>3, CalledInSectors DEF DirtyAnnounced
      <3>5. pc = "idle" /\ pc' = "idle"
        BY <1>2 DEF Encode
      <3> QED BY <3>2, <3>3, <3>4, <3>5 DEF DirtyAnnounced, WriteProgress, LastCached
    <2> QED BY <2>1, <2>2
  <1>3. ASSUME NEW s \in Sectors, EncodeFault(s)
        PROVE  (DirtyAnnounced /\ WriteProgress /\ LastCached)'
    BY <1>3 DEF EncodeFault, cache, DirtyAnnounced, WriteProgress, LastCached
  <1>4. CASE StartWrite
    <2>1. \A s \in dirty : s >= 0
      BY DEF TypeOK, Sectors
    <2> QED
      BY <1>0, <1>4, <2>1 DEF StartWrite, cache, DirtyAnnounced, WriteProgress, LastCached
  <1>5. ASSUME NEW s \in Sectors, WriteSector(s)
        PROVE  (DirtyAnnounced /\ WriteProgress /\ LastCached)'
    <2>1. Clears' = Clears /\ pc' = pc /\ fatDirty' = fatDirty
      BY <1>5 DEF WriteSector, Clears, Dups
    <2>2. WriteProgress'
      <3> SUFFICES ASSUME Clears, NEW t \in dirty' PROVE t >= next'
        BY <1>5, <2>1 DEF WriteProgress, WriteSector
      <3>1. t \in dirty /\ t # s /\ t >= next
        BY <1>5 DEF WriteProgress, WriteSector
      <3>2. s <= t /\ t \in Nat /\ s \in Nat
        BY <1>5, <3>1 DEF WriteSector, TypeOK, Sectors
      <3>3. t >= s + 1
        BY <3>1, <3>2
      <3> QED BY <1>5, <3>3 DEF WriteSector, After
    <2> QED BY <1>5, <2>2 DEF WriteSector, DirtyAnnounced, LastCached
  <1>6. CASE NextPass
    <2>1. \A s \in dirty : s >= 0
      BY DEF TypeOK, Sectors
    <2> QED
      BY <1>0, <1>6, <2>1 DEF NextPass, cache, DirtyAnnounced, WriteProgress, LastCached
  <1>7. CASE EndWrite
    <2>1. dirty = {}
      <3> SUFFICES ASSUME NEW s \in dirty PROVE FALSE
        OBVIOUS
      <3>1. s \in Nat /\ next \in Nat /\ s < next
        BY <1>7 DEF EndWrite, TypeOK, Sectors
      <3>2. s >= next
        BY <1>7 DEF EndWrite, WriteProgress, Clears
      <3> QED BY <3>1, <3>2
    <2>2. \A l \in last' : l.mode = "READ" /\ l.nr \in valid
      BY <1>7 DEF EndWrite, ModeReset, LastCached
    <2> QED BY <1>0, <1>7, <2>1, <2>2 DEF EndWrite, DirtyAnnounced, WriteProgress, LastCached
  <1>8. CASE WriteFails
    BY <1>0, <1>8 DEF WriteFails, cache, DirtyAnnounced, WriteProgress, LastCached
  <1>9. CASE UNCHANGED vars
    BY <1>0, <1>9 DEF vars, cache, DirtyAnnounced, WriteProgress, LastCached, Clears, Dups
  <1> QED
    BY <1>0, <1>1, <1>2, <1>3, <1>4, <1>5, <1>6, <1>7, <1>8, <1>9 DEF Next, Flush

\* fat_write, which returns at once unless fat_dirty is set, never overlooks a
\* modified sector, not even one modified through the shortcut of getAddress.
THEOREM DirtyIsAnnounced == Spec => []DirtyAnnounced
  <1>1. Bookkeeping => DirtyAnnounced
    BY DEF Bookkeeping
  <1> QED BY <1>1, InitBookkeeping, NextBookkeeping, PTL DEF Spec

\* What a mirrored FAT cache needs besides its bookkeeping.
CoherenceInv == Bookkeeping /\ Coherent

\* The copies of a mirrored FAT agree when the command starts.
LEMMA InitCoherent == ASSUME WriteAllFats PROVE Init => CoherenceInv
  <1> SUFFICES ASSUME Init PROVE CoherenceInv
    OBVIOUS
  <1>1. UncachedAgree
    <2> SUFFICES ASSUME NEW s \in Sectors, NEW c \in Copies, NEW d \in Copies
                 PROVE  disk[c][s] = disk[d][s]
      BY DEF UncachedAgree
    <2>1. disk[c] = disk[0] /\ disk[d] = disk[0]
      BY DEF Init
    <2> QED BY <2>1
  <1>2. Bookkeeping
    BY InitBookkeeping
  <1> QED
    BY <1>1, <1>2
    DEF Init, CoherenceInv, Coherent, CacheCoherent, WrittenReadsBack, CachedAreGood

\* Every fetched sector can be read from some copy.
LEMMA FetchedAreGood ==
    ASSUME NEW s \in Sectors, NEW burst \in Bursts, NEW t \in Fetched(s, burst)
    PROVE  Good(t)
  <1>1. CASE t \in Called(s, burst) /\ Good(t)
    BY <1>1
  <1>2. CASE \E h \in Heads(s, burst) : t \in Run(h, burst)
    <2>1. PICK h \in Heads(s, burst) : t \in Run(h, burst)
      BY <1>2
    <2>2. h \in Sectors /\ Good(h)
      BY CalledInSectors DEF Heads
    <2>3. CASE SlotEmpty(h)
      <3>1. t \in Sectors /\ h <= t
        BY <2>1, <2>3 DEF Run
      <3>2. t \in h..t
        BY <2>2, <3>1 DEF Sectors
      <3>3. Readable(Source(h), t)
        BY <2>1, <2>3, <3>2 DEF Run
      <3>4. \E i \in Copies : Source(h) = Dupe(i)
        BY <2>2, FirstReadable
      <3> QED BY <3>3, <3>4 DEF Good
    <2>4. CASE ~SlotEmpty(h)
      BY <2>1, <2>2, <2>4 DEF Run
    <2> QED BY <2>3, <2>4
  <1> QED BY <1>1, <1>2 DEF Fetched, Read

\* What a load fetches is what a fresh read of the disk returns.
LEMMA LoadedIsOnDisk ==
    ASSUME CoherenceInv, NEW s \in Sectors, NEW burst \in Bursts,
           NEW t \in Fetched(s, burst)
    PROVE  LoadedData(s, burst)[t] = OnDisk(t)
  <1>1. t \in Sectors \ valid /\ FetchedFrom(t, s, burst) \in Copies
    BY FetchedSectors
  <1>2. Source(t) \in Copies
    BY <1>1, FetchedAreGood, SourceIsReadable
  <1>3. disk[FetchedFrom(t, s, burst)][t] = disk[Source(t)][t]
    BY <1>1, <1>2 DEF CoherenceInv, Coherent, UncachedAgree
  <1> QED BY <1>1, <1>3 DEF LoadedData, OnDisk

\* The coherent part of the state after a load, for sectors not stored into.
LEMMA LoadCoherent ==
    ASSUME CoherenceInv, NEW s \in Sectors, NEW burst \in Bursts
    PROVE  \A t \in (valid \cup Fetched(s, burst)) \ dirty :
               LoadedData(s, burst)[t] = OnDisk(t)
  <1> SUFFICES ASSUME NEW t \in (valid \cup Fetched(s, burst)) \ dirty
               PROVE  LoadedData(s, burst)[t] = OnDisk(t)
    OBVIOUS
  <1>1. CASE t \in Fetched(s, burst)
    BY <1>1, LoadedIsOnDisk
  <1>2. CASE t \in valid \ dirty /\ t \notin Fetched(s, burst)
    BY <1>2 DEF CoherenceInv, Bookkeeping, TypeOK, Coherent, CacheCoherent, LoadedData
  <1> QED BY <1>1, <1>2

\* Readability and the disk decide what a fresh read returns.
LEMMA OnDiskStable ==
    ASSUME disk' = disk, bad' = bad
    PROVE  \A t \in Sectors : OnDisk(t)' = OnDisk(t) /\ Good(t)' = Good(t)
  BY DEF OnDisk, Source, Good, Readable, Dupe

\* One fatWriteSector in a mirrored FAT.
LEMMA WriteCoherent ==
    ASSUME WriteAllFats, CoherenceInv, NEW s \in Sectors, WriteSector(s)
    PROVE  Coherent'
  <1> USE DEF CoherenceInv, Bookkeeping
  <1>1. /\ disk' = Stored(s) /\ bad' = bad \ {<<Dupe(pass), s>>}
        /\ pc = "writing" /\ pc' = pc /\ pass' = pass /\ next' = s + 1
        /\ data' = data /\ valid' = valid /\ dirty' \subseteq dirty
        /\ s \in dirty /\ s >= next
    BY DEF WriteSector, Skipped, After
  <1>2. \A c \in Copies, u \in Sectors :
           disk'[c][u] = IF c = Dupe(pass) /\ u = s THEN data[s] ELSE disk[c][u]
    BY <1>1, StoredEffect
  <1>3. \A c, u : Readable(c, u) => Readable(c, u)'
    BY <1>1 DEF Readable
  <1>4. Dupe(pass) \in Copies /\ 0 \in Copies /\ Dupe(0) \in Copies
    BY DupeIsCopy, FatCacheAssumption DEF TypeOK, Copies
  <1>5. UncachedAgree'
    <2>1. s \in valid
      BY <1>1 DEF DirtyAnnounced
    <2> QED BY <1>1, <1>2, <2>1 DEF Coherent, UncachedAgree
  <1>6. CachedAreGood'
    <2> SUFFICES ASSUME NEW u \in valid PROVE Good(u)'
      BY <1>1 DEF CachedAreGood
    <2>1. PICK i \in Copies : Readable(Dupe(i), u)
      BY DEF Coherent, CachedAreGood, Good
    <2> QED BY <2>1, <1>3 DEF Good, Dupe
  <1>7. \A u \in dirty : Written(u)' =>
           Readable(Dupe(0), u)' /\ disk'[Dupe(0)][u] = data[u]
    <2> SUFFICES ASSUME NEW u \in dirty, Written(u)'
                 PROVE  Readable(Dupe(0), u)' /\ disk'[Dupe(0)][u] = data[u]
      OBVIOUS
    <2>1. u \in Sectors /\ u \in Nat /\ s \in Nat /\ next \in Nat /\ pass \in Nat
      BY FatCacheAssumption DEF TypeOK, Sectors, Copies
    <2>2. CASE Written(u)
      BY <1>2, <1>3, <1>4, <2>1, <2>2 DEF Coherent, WrittenReadsBack
    <2>3. CASE ~Written(u)
      <3>1. pass = 0 /\ u >= next /\ u < s + 1
        BY <1>1, <2>1, <2>3 DEF Written
      <3>2. u = s
        BY <3>1, <2>1, s <= u DEF WriteSector
      <3>3. Readable(Dupe(0), s)'
        BY <1>1, <3>1 DEF Readable, Dupe
      <3> QED BY <1>2, <1>4, <3>1, <3>2, <3>3
    <2> QED BY <2>2, <2>3
  <1>8. WrittenReadsBack'
    BY <1>1, <1>7 DEF WrittenReadsBack, Dupe
  <1>9. CacheCoherent'
    <2> SUFFICES ASSUME NEW u \in valid \ dirty' PROVE data[u] = OnDisk(u)'
      BY <1>1 DEF CacheCoherent
    <2>1. u \in Sectors
      BY DEF TypeOK
    <2>2. CASE u \in dirty
      <3>1. u = s /\ Written(u)'
        BY <1>1, <2>2 DEF WriteSector, Written, After, Sectors
      <3>2. Readable(Dupe(0), u)' /\ disk'[Dupe(0)][u] = data[u]
        BY <1>7, <2>2, <3>1
      <3>3. Source(u)' = Dupe(0)
        BY <2>1, <3>2, PrimaryStaysPreferred
      <3> QED BY <3>2, <3>3 DEF OnDisk
    <2>3. CASE u \notin dirty
      <3>1. u # s
        BY <1>1, <2>3
      <3>2. \A c : Readable(c, u)' = Readable(c, u)
        BY <1>1, <3>1 DEF Readable
      <3>3. Source(u)' = Source(u)
        BY <3>2 DEF Source, Dupe
      <3>4. Source(u) \in Copies
        BY <2>1, SourceIsReadable DEF Coherent, CachedAreGood
      <3>5. data[u] = OnDisk(u)
        BY <2>3 DEF Coherent, CacheCoherent
      <3> QED BY <1>2, <2>1, <3>1, <3>3, <3>4, <3>5 DEF OnDisk
    <2> QED BY <2>2, <2>3
  <1> QED BY <1>5, <1>6, <1>8, <1>9 DEF Coherent

\* Coherence needs nothing else when the disk, the cache and the progress of
\* fat_write stay as they are.
LEMMA CoherentStable ==
    ASSUME CoherenceInv, UNCHANGED <<disk, bad, data, valid, dirty>>,
           \A s \in dirty : Written(s)' => Written(s)
    PROVE  Coherent'
  <1>1. \A t \in Sectors : OnDisk(t)' = OnDisk(t) /\ Good(t)' = Good(t)
    BY OnDiskStable
  <1>2. valid \subseteq Sectors
    BY DEF CoherenceInv, Bookkeeping, TypeOK
  <1>3. CacheCoherent' /\ CachedAreGood' /\ UncachedAgree'
    BY <1>1, <1>2
    DEF CoherenceInv, Coherent, CacheCoherent, CachedAreGood, UncachedAgree
  <1>4. WrittenReadsBack'
    BY DEF CoherenceInv, Coherent, WrittenReadsBack, Readable, Dupe
  <1> QED BY <1>3, <1>4 DEF Coherent

\* Coherence after a load, given what became of the data of the clean sectors.
LEMMA LoadKeepsCoherent ==
    ASSUME CoherenceInv, NEW s \in Sectors, NEW burst \in Bursts,
           disk' = disk, bad' = bad, pc = "idle", pc' = "idle",
           valid' = valid \cup Fetched(s, burst), dirty \subseteq dirty',
           \A t \in valid' \ dirty' : data'[t] = LoadedData(s, burst)[t]
    PROVE  Coherent'
  <1>1. \A t \in Sectors : OnDisk(t)' = OnDisk(t) /\ Good(t)' = Good(t)
    BY OnDiskStable
  <1>2. valid \subseteq Sectors /\ Fetched(s, burst) \subseteq Sectors
    BY FetchedSectors DEF CoherenceInv, Bookkeeping, TypeOK
  <1>3. CacheCoherent'
    <2> SUFFICES ASSUME NEW t \in valid' \ dirty' PROVE data'[t] = OnDisk(t)'
      BY DEF CacheCoherent
    <2>1. LoadedData(s, burst)[t] = OnDisk(t)
      BY LoadCoherent
    <2> QED BY <1>1, <1>2, <2>1
  <1>4. CachedAreGood'
    BY <1>1, <1>2, FetchedAreGood DEF CoherenceInv, Coherent, CachedAreGood
  <1>5. UncachedAgree'
    BY DEF CoherenceInv, Coherent, UncachedAgree
  <1>6. WrittenReadsBack'
    BY DEF WrittenReadsBack, Written
  <1> QED BY <1>3, <1>4, <1>5, <1>6 DEF Coherent

\* Every access and every step of fat_write keeps clean sectors coherent: one
\* step per action.
LEMMA NextCoherent ==
    ASSUME WriteAllFats PROVE CoherenceInv /\ [Next]_vars => CoherenceInv'
  <1> SUFFICES ASSUME CoherenceInv, [Next]_vars PROVE Coherent'
    BY NextBookkeeping DEF CoherenceInv
  <1> USE DEF CoherenceInv, Bookkeeping
  <1>1. ASSUME NEW s \in Sectors, NEW burst \in Bursts, NEW err \in BOOLEAN,
               Decode(s, burst, err)
        PROVE  Coherent'
    <2>1. CASE Hit(s, "READ")
      BY <1>1, <2>1, CoherentStable DEF Decode, cache, Written
    <2>2. CASE ~Hit(s, "READ")
      <3>1. /\ valid' = valid \cup Fetched(s, burst) /\ dirty' = dirty
            /\ data' = LoadedData(s, burst)
        BY <1>1, <2>2 DEF Decode, Load
      <3>2. disk' = disk /\ bad' = bad /\ pc = "idle" /\ pc' = "idle"
        BY <1>1 DEF Decode
      <3> QED BY <3>1, <3>2, LoadKeepsCoherent
    <2> QED BY <2>1, <2>2
  <1>2. ASSUME NEW s \in Sectors, NEW v \in Values, NEW burst \in Bursts,
               Encode(s, v, burst)
        PROVE  Coherent'
    <2>0. disk' = disk /\ bad' = bad /\ pc = "idle" /\ pc' = "idle"
      BY <1>2 DEF Encode
    <2>1. CASE Hit(s, "WRITE")
      <3>1. /\ valid' = valid /\ dirty' = dirty
            /\ data' = [data EXCEPT ![s] = v] /\ s \in dirty
        BY <1>2, <2>1 DEF Encode, Hit, DirtyAnnounced
      <3>2. \A t \in valid \ dirty : t \in Sectors /\ data'[t] = data[t]
        BY <3>1 DEF TypeOK
      <3>3. CacheCoherent' /\ CachedAreGood' /\ UncachedAgree'
        BY <2>0, <3>1, <3>2, OnDiskStable
        DEF TypeOK, Coherent, CacheCoherent, CachedAreGood, UncachedAgree
      <3>4. WrittenReadsBack'
        BY <2>0 DEF WrittenReadsBack, Written
      <3> QED BY <3>3, <3>4 DEF Coherent
    <2>2. CASE ~Hit(s, "WRITE")
      <3>1. /\ valid' = valid \cup Fetched(s, burst)
            /\ dirty' = dirty \cup (Called(s, burst) \cap valid')
            /\ data' = [LoadedData(s, burst) EXCEPT ![s] = v]
        BY <1>2, <2>2 DEF Encode, Load
      <3>2. s \in valid'
        BY <1>2, <2>2, <3>1, LoadCaches DEF Encode, Modes
      <3>3. s \in dirty' /\ valid' \subseteq Sectors
        BY <3>1, <3>2, CalledInSectors, FetchedSectors DEF TypeOK
      <3>4. \A t \in valid' \ dirty' : data'[t] = LoadedData(s, burst)[t]
        BY <3>1, <3>3, LoadedDataType
      <3> QED BY <2>0, <3>1, <3>4, LoadKeepsCoherent
    <2> QED BY <2>1, <2>2
  <1>3. ASSUME NEW s \in Sectors, EncodeFault(s) PROVE Coherent'
    BY <1>3, CoherentStable DEF EncodeFault, cache, Written
  <1>4. CASE StartWrite
    <2>1. \A s \in dirty : ~Written(s)'
      BY <1>4 DEF StartWrite, Written, TypeOK, Sectors
    <2> QED BY <1>4, <2>1, CoherentStable DEF StartWrite, cache
  <1>5. ASSUME NEW s \in Sectors, WriteSector(s) PROVE Coherent'
    BY <1>5, WriteCoherent
  <1>6. CASE NextPass
    <2>1. \A s \in dirty : Written(s)
      BY <1>6 DEF NextPass, Written
    <2> QED BY <1>6, <2>1, CoherentStable DEF NextPass, cache
  <1>7. CASE EndWrite
    <2>1. \A s \in dirty : ~Written(s)'
      BY <1>7 DEF EndWrite, Written
    <2> QED BY <1>7, <2>1, CoherentStable DEF EndWrite
  <1>8. CASE WriteFails
    BY <1>8, CoherentStable DEF WriteFails, cache, Written
  <1>9. CASE UNCHANGED vars
    BY <1>9, CoherentStable DEF vars, cache, Written
  <1> QED
    BY <1>1, <1>2, <1>3, <1>4, <1>5, <1>6, <1>7, <1>8, <1>9 DEF Next, Flush

\* In a mirrored FAT a cached sector that is not waiting to be written holds
\* what a fresh read of the disk returns, whatever copies it came from,
\* whatever was prefetched with it and wherever fat_write is.
THEOREM CacheIsCoherent == ASSUME WriteAllFats PROVE Spec => []CacheCoherent
  <1>1. CoherenceInv => CacheCoherent
    BY DEF CoherenceInv, Coherent
  <1>2. Init => CoherenceInv
    BY InitCoherent
  <1>3. CoherenceInv /\ [Next]_vars => CoherenceInv'
    BY NextCoherent
  <1> QED BY <1>1, <1>2, <1>3, PTL DEF Spec

-----------------------------------------------------------------------------
(* Without mirroring *)

\* Without mirroring and with copy 0 active, fatWriteSector never stores into
\* another copy: whatever these hold (FAT32 may keep old FATs there) survives.
THEOREM InactiveStayUntouched ==
    ASSUME ~WriteAllFats, PrimaryFat = 0 PROVE Spec => InactiveUntouched
<1> DEFINE Kept == \A c \in Copies \ {PrimaryFat} : disk'[c] = disk[c]
<1>1. ASSUME TypeOK, [Next]_vars PROVE Kept
  <2>1. CASE UNCHANGED disk
    BY <2>1
  <2>2. ASSUME NEW s \in Sectors, WriteSector(s) PROVE Kept
    <3>1. CASE Skipped(Dupe(pass))
      BY <2>2, <3>1 DEF WriteSector
    <3>2. CASE ~Skipped(Dupe(pass))
      <4>1. Dupe(pass) = 0
        BY <3>2 DEF Skipped
      <4>2. disk' = [disk EXCEPT ![0] = [disk[0] EXCEPT ![s] = data[s]]]
        BY <2>2, <3>2, <4>1 DEF WriteSector, Stored
      <4> QED
        BY <1>1, <4>2 DEF TypeOK
    <3> QED
      BY <3>1, <3>2
  <2> QED
    BY <1>1, <2>1, <2>2
    DEF Next, Flush, Decode, Encode, EncodeFault, StartWrite, NextPass, EndWrite,
        WriteFails, vars, cache
<1>2. TypeOK /\ [Next]_vars => [Kept]_vars
  BY <1>1
<1> QED
  BY <1>2, TypeCorrect, PTL DEF Spec, InactiveUntouched

-----------------------------------------------------------------------------
(* fat_write leaves the copies equal                                        *)

\* A sector that need not be written is the same in every copy, as long as no
\* FAT error has cut fat_write down to one copy.
CleanAgree ==
    ~fatError => \A s \in Sectors \ dirty : \A c, d \in Copies : disk[c][s] = disk[d][s]

\* The copies that fat_write has been through hold the dirty sectors, and the
\* copy it is at holds those before next.
Passed(i, s) == i < pass \/ (i = pass /\ s < next)
PassesDone ==
    pc = "writing" => \A s \in dirty, i \in Copies : Passed(i, s) => disk[Dupe(i)][s] = data[s]

MirrorInv == Bookkeeping /\ CleanAgree /\ PassesDone

\* Every copy has its pass.
LEMMA EveryCopyWritten == \A c \in Copies : \E i \in Copies : Dupe(i) = c
  <1> SUFFICES ASSUME NEW c \in Copies PROVE \E i \in Copies : Dupe(i) = c
    OBVIOUS
  <1>0. /\ NumFat \in Nat \ {0} /\ PrimaryFat \in 0..NumFat-1 /\ c \in 0..NumFat-1
    BY FatCacheAssumption DEF Copies
  <1>1. CASE c >= PrimaryFat
    <2>1. c - PrimaryFat \in Copies /\ (c - PrimaryFat) + PrimaryFat = c
      BY <1>0, <1>1 DEF Copies
    <2>2. c % NumFat = c
      BY <1>0
    <2> QED BY <2>1, <2>2 DEF Dupe
  <1>2. CASE c < PrimaryFat
    <2>1. /\ c - PrimaryFat + NumFat \in Copies
          /\ (c - PrimaryFat + NumFat) + PrimaryFat = c + NumFat
      BY <1>0, <1>2 DEF Copies
    <2>2. (c + NumFat) % NumFat = c
      BY <1>0
    <2> QED BY <2>1, <2>2 DEF Dupe
  <1> QED BY <1>0, <1>1, <1>2

\* At first all copies are equal and none is being written.
LEMMA InitMirror == ASSUME WriteAllFats PROVE Init => MirrorInv
  <1> SUFFICES ASSUME Init PROVE MirrorInv
    OBVIOUS
  <1>1. \A c \in Copies : disk[c] = disk[0]
    BY DEF Init
  <1>2. CleanAgree
    BY <1>1 DEF CleanAgree
  <1> QED BY <1>2, InitBookkeeping DEF Init, MirrorInv, PassesDone

\* One fatWriteSector: in the last pass the sector is on every copy.
LEMMA WriteMirrors ==
    ASSUME WriteAllFats, MirrorInv, NEW s \in Sectors, WriteSector(s)
    PROVE  CleanAgree' /\ PassesDone'
  <1> USE DEF MirrorInv, Bookkeeping
  <1>1. /\ disk' = Stored(s) /\ pc = "writing" /\ pc' = pc /\ pass' = pass /\ next' = s + 1
        /\ data' = data /\ s \in dirty /\ s >= next /\ fatError' = fatError
        /\ dirty' = IF Clears THEN dirty \ {s} ELSE dirty
        /\ \A t \in dirty : t >= next => s <= t
    BY DEF WriteSector, Skipped, After
  <1>2. \A c \in Copies, u \in Sectors :
           disk'[c][u] = IF c = Dupe(pass) /\ u = s THEN data[s] ELSE disk[c][u]
    BY <1>1, StoredEffect
  <1>3. pass \in Copies /\ s \in Nat /\ next \in Nat /\ dirty \subseteq Sectors
    BY DEF TypeOK, Sectors
  <1>4. PassesDone'
    <2> SUFFICES ASSUME NEW u \in dirty, NEW i \in Copies, Passed(i, u)'
                 PROVE  disk'[Dupe(i)][u] = data[u]
      BY <1>1, <1>3 DEF PassesDone, Dupe
    <2>1. u \in Sectors /\ u \in Nat /\ i \in Nat /\ pass \in Nat /\ Dupe(i) \in Copies
      BY <1>3, DupeIsCopy, FatCacheAssumption DEF Sectors, Copies
    <2>2. Passed(i, u) \/ (i = pass /\ u = s)
      <3>1. i < pass \/ (i = pass /\ u < s + 1)
        BY <1>1 DEF Passed
      <3>2. u >= next => s <= u
        BY <1>1
      <3> QED BY <3>1, <3>2, <2>1, <1>3 DEF Passed
    <2>3. CASE Passed(i, u)
      <3>1. disk[Dupe(i)][u] = data[u]
        BY <1>1, <2>3 DEF PassesDone
      <3> QED BY <3>1, <2>1, <1>2
    <2>4. CASE i = pass /\ u = s
      BY <2>4, <2>1, <1>2
    <2> QED BY <2>2, <2>3, <2>4
  <1>5. CleanAgree'
    <2> SUFFICES ASSUME ~fatError, NEW u \in Sectors \ dirty', NEW c \in Copies, NEW d \in Copies
                 PROVE  disk'[c][u] = disk'[d][u]
      BY <1>1 DEF CleanAgree
    <2>1. CASE u \notin dirty
      <3>1. u # s /\ disk[c][u] = disk[d][u]
        BY <1>1, <2>1 DEF CleanAgree
      <3> QED BY <3>1, <1>2
    <2>2. CASE u \in dirty
      <3>1. u = s /\ pass = NumFat - 1
        BY <1>1, <2>2 DEF Clears, Dups
      <3>2. ASSUME NEW e \in Copies PROVE disk'[e][s] = data[s]
        <4>1. PICK i \in Copies : Dupe(i) = e
          BY EveryCopyWritten
        <4>2. i < pass \/ i = pass
          BY <3>1, FatCacheAssumption DEF Copies
        <4>3. CASE i < pass
          <5>1. disk[e][s] = data[s]
            BY <1>1, <4>1, <4>3 DEF PassesDone, Passed
          <5> QED BY <5>1, <1>2
        <4>4. CASE i = pass
          BY <4>1, <4>4, <1>2
        <4> QED BY <4>2, <4>3, <4>4
      <3> QED BY <3>1, <3>2
    <2> QED BY <2>1, <2>2
  <1> QED BY <1>4, <1>5

\* No access to the FAT and no step of fat_write makes the copies of a clean
\* sector differ: one step per action.
LEMMA NextMirror ==
    ASSUME WriteAllFats PROVE MirrorInv /\ [Next]_vars => MirrorInv'
  <1> SUFFICES ASSUME MirrorInv, [Next]_vars PROVE CleanAgree' /\ PassesDone'
    BY NextBookkeeping DEF MirrorInv
  <1> USE DEF MirrorInv, Bookkeeping
  <1>1. ASSUME NEW s \in Sectors, NEW burst \in Bursts, NEW err \in BOOLEAN,
               Decode(s, burst, err)
        PROVE  CleanAgree' /\ PassesDone'
    <2>1. disk' = disk /\ dirty' = dirty /\ pc' = "idle" /\ (fatError => fatError')
      BY <1>1 DEF Decode, cache, Load
    <2> QED BY <2>1 DEF CleanAgree, PassesDone
  <1>2. ASSUME NEW s \in Sectors, NEW v \in Values, NEW burst \in Bursts,
               Encode(s, v, burst)
        PROVE  CleanAgree' /\ PassesDone'
    <2>1. disk' = disk /\ dirty \subseteq dirty' /\ pc' = "idle" /\ fatError' = fatError
      BY <1>2 DEF Encode, Load
    <2> QED BY <2>1 DEF CleanAgree, PassesDone
  <1>3. ASSUME NEW s \in Sectors, EncodeFault(s) PROVE CleanAgree' /\ PassesDone'
    BY <1>3 DEF EncodeFault, cache, CleanAgree, PassesDone
  <1>4. CASE StartWrite
    <2>1. \A s \in dirty, i \in Copies : ~Passed(i, s)'
      BY <1>4, FatCacheAssumption DEF StartWrite, Passed, TypeOK, Sectors, Copies
    <2> QED BY <1>4, <2>1 DEF StartWrite, cache, CleanAgree, PassesDone
  <1>5. ASSUME NEW s \in Sectors, WriteSector(s) PROVE CleanAgree' /\ PassesDone'
    BY <1>5, WriteMirrors
  <1>6. CASE NextPass
    <2>1. \A s \in dirty, i \in Copies : Passed(i, s)' => Passed(i, s)
      BY <1>6, FatCacheAssumption DEF NextPass, Passed, TypeOK, Sectors, Copies
    <2> QED BY <1>6, <2>1 DEF NextPass, cache, CleanAgree, PassesDone, Dupe
  <1>7. CASE EndWrite
    BY <1>7 DEF EndWrite, CleanAgree, PassesDone
  <1>8. CASE WriteFails
    BY <1>8 DEF WriteFails, cache, CleanAgree, PassesDone
  <1>9. CASE UNCHANGED vars
    BY <1>9 DEF vars, cache, CleanAgree, PassesDone, Passed, Dupe
  <1> QED
    BY <1>1, <1>2, <1>3, <1>4, <1>5, <1>6, <1>7, <1>8, <1>9 DEF Next, Flush

\* Once fat_write has returned, without an error in the FAT, all copies of a
\* mirrored FAT are equal: the sectors it did not write were, and those it did
\* were written to each copy before their marks were cleared.
THEOREM MirrorsStayEqual == ASSUME WriteAllFats PROVE Spec => []MirrorsAgree
  <1>1. MirrorInv => MirrorsAgree
    <2> SUFFICES ASSUME MirrorInv, ~fatDirty, ~fatError, NEW c \in Copies
                 PROVE  disk[c] = disk[0]
      BY DEF MirrorsAgree
    <2>1. dirty = {}
      BY DEF MirrorInv, Bookkeeping, DirtyAnnounced
    <2>2. 0 \in Copies
      BY FatCacheAssumption DEF Copies
    <2>3. \A s \in Sectors : disk[c][s] = disk[0][s]
      BY <2>1, <2>2 DEF MirrorInv, CleanAgree
    <2>4. disk[c] \in [Sectors -> Values] /\ disk[0] \in [Sectors -> Values]
      BY <2>2 DEF MirrorInv, Bookkeeping, TypeOK
    <2> QED BY <2>3, <2>4
  <1>2. Init => MirrorInv
    BY InitMirror
  <1>3. MirrorInv /\ [Next]_vars => MirrorInv'
    BY NextMirror
  <1> QED BY <1>1, <1>2, <1>3, PTL DEF Spec

-----------------------------------------------------------------------------
(* Wherever fat_write stops, one copy is whole                              *)

\* Between two fat_writes the disk is what the last one left.  During one, the
\* copies still to come are untouched, and no copy has changed in a sector that
\* is not cached; only a FAT without errors has a second pass.
Untouched ==
    /\ pc = "idle" => pass = 0 /\ image = disk
    /\ pass > 0 => ~fatError
    /\ \A i \in Copies : i > pass => disk[Dupe(i)] = image[Dupe(i)]
    /\ \A c \in Copies, s \in Sectors \ valid : disk[c][s] = image[c][s]

\* After the first pass the preferred copy has every sector that is still dirty.
FirstPassDone == pass > 0 => \A s \in dirty : disk[Dupe(0)][s] = data[s]

WholeInv == MirrorInv /\ Untouched /\ FirstPassDone

\* No two passes write the same copy.
LEMMA DupeInjective ==
    \A i, j \in Copies : i < j => Dupe(i) # Dupe(j)
  <1> SUFFICES ASSUME NEW i \in Copies, NEW j \in Copies, i < j, Dupe(i) = Dupe(j)
               PROVE  FALSE
    OBVIOUS
  <1>0. /\ NumFat \in Nat \ {0} /\ PrimaryFat \in 0..NumFat-1
        /\ i \in 0..NumFat-1 /\ j \in 0..NumFat-1
    BY FatCacheAssumption DEF Copies
  <1>1. \A k \in 0..NumFat-1 :
           \/ k + PrimaryFat < NumFat /\ (k + PrimaryFat) % NumFat = k + PrimaryFat
           \/ k + PrimaryFat >= NumFat /\ (k + PrimaryFat) % NumFat = k + PrimaryFat - NumFat
    <2> SUFFICES ASSUME NEW k \in 0..NumFat-1
                 PROVE
           \/ k + PrimaryFat < NumFat /\ (k + PrimaryFat) % NumFat = k + PrimaryFat
           \/ k + PrimaryFat >= NumFat /\ (k + PrimaryFat) % NumFat = k + PrimaryFat - NumFat
      OBVIOUS
    <2> QED BY <1>0
  <1>2. (i + PrimaryFat) % NumFat = (j + PrimaryFat) % NumFat
    BY DEF Dupe
  <1> QED BY <1>0, <1>1, <1>2

\* At first nothing is being written.
LEMMA InitWhole == Init => Untouched /\ FirstPassDone
  <1> SUFFICES ASSUME Init PROVE Untouched /\ FirstPassDone
    OBVIOUS
  <1>1. pass = 0 /\ image = disk /\ ~fatError
    BY DEF Init
  <1> QED BY <1>1 DEF Untouched, FirstPassDone

\* A step outside fat_write, which leaves the disk alone and caches more.
LEMMA IdleKeepsWhole ==
    ASSUME TypeOK, Untouched, pc = "idle", valid \subseteq valid',
           UNCHANGED <<disk, pass, image>>
    PROVE  Untouched' /\ FirstPassDone'
  <1>1. pass = 0 /\ pass' = 0 /\ image' = disk'
    BY DEF Untouched
  <1> QED BY <1>1, FatCacheAssumption DEF Untouched, FirstPassDone, Dupe, Copies

\* One fatWriteSector touches the copy of its pass in one cached sector.
LEMMA WriteKeepsWhole ==
    ASSUME WholeInv, WriteAllFats, NEW s \in Sectors, WriteSector(s)
    PROVE  Untouched' /\ FirstPassDone'
  <1> USE DEF WholeInv, MirrorInv, Bookkeeping
  <1>1. /\ disk' = Stored(s) /\ pc = "writing" /\ pc' = pc /\ pass' = pass
        /\ data' = data /\ valid' = valid /\ fatError' = fatError /\ image' = image
        /\ dirty' \subseteq dirty /\ s \in dirty
    BY DEF WriteSector, Skipped
  <1>2. \A c \in Copies, u \in Sectors :
           disk'[c][u] = IF c = Dupe(pass) /\ u = s THEN data[s] ELSE disk[c][u]
    BY <1>1, StoredEffect
  <1>3. pass \in Copies /\ 0 \in Copies /\ s \in valid /\ dirty \subseteq Sectors
    BY <1>1, FatCacheAssumption DEF TypeOK, DirtyAnnounced, Copies
  <1>4. \A i \in Copies : i > pass => disk'[Dupe(i)] = image[Dupe(i)]
    <2> SUFFICES ASSUME NEW i \in Copies, i > pass PROVE disk'[Dupe(i)] = image[Dupe(i)]
      OBVIOUS
    <2>1. Dupe(i) \in Copies /\ Dupe(i) # Dupe(pass)
      BY <1>3, DupeIsCopy, DupeInjective
    <2>2. disk' = [disk EXCEPT ![Dupe(pass)] = [disk[Dupe(pass)] EXCEPT ![s] = data[s]]]
      BY <1>1 DEF Stored
    <2>3. disk'[Dupe(i)] = disk[Dupe(i)]
      BY <2>1, <2>2 DEF TypeOK
    <2> QED BY <2>3 DEF Untouched
  <1>5. Untouched'
    BY <1>1, <1>2, <1>3, <1>4 DEF Untouched, Dupe
  <1>6. FirstPassDone'
    <2> SUFFICES ASSUME pass > 0, NEW u \in dirty PROVE disk'[Dupe(0)][u] = data[u]
      BY <1>1 DEF FirstPassDone, Dupe
    <2> QED BY <1>2, <1>3, DupeIsCopy DEF FirstPassDone
  <1> QED BY <1>5, <1>6

\* One step per action.
LEMMA NextWhole ==
    ASSUME WriteAllFats PROVE WholeInv /\ [Next]_vars => WholeInv'
  <1> SUFFICES ASSUME WholeInv, [Next]_vars PROVE Untouched' /\ FirstPassDone'
    BY NextMirror DEF WholeInv
  <1>0. TypeOK /\ Untouched /\ FirstPassDone /\ MirrorInv
    BY DEF WholeInv, MirrorInv, Bookkeeping
  <1>1. ASSUME NEW s \in Sectors, NEW burst \in Bursts, NEW err \in BOOLEAN,
               Decode(s, burst, err)
        PROVE  Untouched' /\ FirstPassDone'
    BY <1>0, <1>1, IdleKeepsWhole DEF Decode, cache, Load
  <1>2. ASSUME NEW s \in Sectors, NEW v \in Values, NEW burst \in Bursts,
               Encode(s, v, burst)
        PROVE  Untouched' /\ FirstPassDone'
    BY <1>0, <1>2, IdleKeepsWhole DEF Encode, Load
  <1>3. ASSUME NEW s \in Sectors, EncodeFault(s) PROVE Untouched' /\ FirstPassDone'
    BY <1>0, <1>3 DEF EncodeFault, cache, Untouched, FirstPassDone, Dupe
  <1>4. CASE StartWrite
    <2>1. pass' = pass /\ pc' = "writing"
      BY <1>0, <1>4 DEF StartWrite, Untouched
    <2> QED BY <1>0, <1>4, <2>1 DEF StartWrite, cache, Untouched, FirstPassDone, Dupe
  <1>5. ASSUME NEW s \in Sectors, WriteSector(s) PROVE Untouched' /\ FirstPassDone'
    BY <1>5, WriteKeepsWhole
  <1>6. CASE NextPass
    <2>1. /\ pc = "writing" /\ pc' = pc /\ pass' = pass + 1 /\ MorePasses
          /\ \A s \in dirty : s < next
          /\ UNCHANGED <<disk, data, valid, dirty, fatError, image>>
      BY <1>6 DEF NextPass, cache
    <2>2. pass \in Copies /\ pass \in Nat /\ 0 \in Copies
      BY <1>0, FatCacheAssumption DEF TypeOK, Copies
    <2>3. ~fatError
      BY <2>1, <2>2 DEF MorePasses, Dups
    <2>4. \A i \in Copies : i > pass + 1 => i > pass
      BY <2>2, FatCacheAssumption DEF Copies
    <2>5. Untouched'
      BY <1>0, <2>1, <2>3, <2>4 DEF Untouched, Dupe
    <2>6. \A s \in dirty : disk[Dupe(0)][s] = data[s]
      <3>1. CASE pass > 0
        BY <1>0, <3>1 DEF FirstPassDone
      <3>2. CASE pass = 0
        BY <1>0, <2>1, <2>2, <3>2 DEF MirrorInv, PassesDone, Passed
      <3> QED BY <2>2, <3>1, <3>2
    <2> QED BY <2>1, <2>5, <2>6 DEF FirstPassDone, Dupe
  <1>7. CASE EndWrite
    BY <1>7, FatCacheAssumption DEF EndWrite, Untouched, FirstPassDone, Copies
  <1>8. CASE WriteFails
    BY <1>0, <1>8 DEF WriteFails, cache, Untouched, FirstPassDone, Dupe
  <1>9. CASE UNCHANGED vars
    BY <1>0, <1>9 DEF vars, cache, Untouched, FirstPassDone, Dupe
  <1> QED
    BY <1>1, <1>2, <1>3, <1>4, <1>5, <1>6, <1>7, <1>8, <1>9 DEF Next, Flush

\* With mirroring: until the last pass the copy of the last pass is whole, which
\* nothing has touched since the last complete fat_write; in it the preferred
\* copy, which holds the new table.
LEMMA OneMirrorIsWhole ==
    ASSUME WriteAllFats, NumFat > 1 PROVE Spec => []WholeCopy
  <1>1. CoherenceInv /\ WholeInv => WholeCopy
    <2> SUFFICES ASSUME CoherenceInv, WholeInv PROVE WholeCopy
      OBVIOUS
    <2>0. /\ TypeOK /\ pass \in Copies /\ NumFat \in Nat
          /\ 0 \in Copies /\ NumFat - 1 \in Copies /\ pass \in 0..NumFat-1
      BY FatCacheAssumption DEF CoherenceInv, Bookkeeping, TypeOK, Copies
    <2>1. CASE pass < NumFat - 1
      <3>1. disk[Dupe(NumFat - 1)] = image[Dupe(NumFat - 1)]
        BY <2>0, <2>1 DEF WholeInv, Untouched
      <3> QED BY <3>1, <2>0, DupeIsCopy DEF WholeCopy
    <2>2. CASE pass = NumFat - 1
      <3>1. pass > 0 /\ ~fatError
        BY <2>0, <2>2 DEF WholeInv, Untouched
      <3>2. ASSUME NEW s \in Sectors
            PROVE  disk[Dupe(0)][s] = IF s \in valid THEN data[s] ELSE image[Dupe(0)][s]
        <4>1. CASE s \notin valid
          BY <4>1, <2>0, DupeIsCopy DEF WholeInv, Untouched
        <4>2. CASE s \in dirty
          <5>1. s \in valid
            BY <4>2 DEF CoherenceInv, Bookkeeping, DirtyAnnounced
          <5> QED BY <3>1, <4>2, <5>1 DEF WholeInv, FirstPassDone
        <4>3. CASE s \in valid \ dirty
          <5>1. data[s] = disk[Source(s)][s] /\ Good(s)
            BY <4>3 DEF CoherenceInv, Coherent, CacheCoherent, OnDisk, CachedAreGood
          <5>2. Source(s) \in Copies
            BY <5>1, FirstReadable, DupeIsCopy
          <5> QED BY <5>1, <5>2, <4>3, <3>1, <2>0, DupeIsCopy DEF WholeInv, MirrorInv, CleanAgree
        <4> QED BY <4>1, <4>2, <4>3
      <3> QED BY <3>2, <2>0, DupeIsCopy DEF WholeCopy
    <2> QED BY <2>0, <2>1, <2>2
  <1>2. Init => CoherenceInv /\ WholeInv
    BY InitCoherent, InitMirror, InitWhole DEF WholeInv
  <1>3. (CoherenceInv /\ WholeInv) /\ [Next]_vars => (CoherenceInv /\ WholeInv)'
    BY NextCoherent, NextWhole
  <1> QED BY <1>1, <1>2, <1>3, PTL DEF Spec

\* Without mirroring fat_write never stores into copy 1.
LEMMA SecondCopyIsWhole ==
    ASSUME ~WriteAllFats, NumFat > 1 PROVE Spec => []WholeCopy
  <1> DEFINE Kept == TypeOK /\ disk[1] = image[1]
  <1>0. 1 \in Copies
    BY FatCacheAssumption DEF Copies
  <1>1. Kept => WholeCopy
    BY <1>0 DEF WholeCopy
  <1>2. Init => Kept
    BY InitTypeOK DEF Init
  <1>3. ASSUME Kept, [Next]_vars PROVE Kept'
    <2>1. TypeOK'
      BY <1>3, NextTypeOK
    <2>2. CASE UNCHANGED <<disk, image>>
      BY <1>3, <2>1, <2>2
    <2>3. CASE EndWrite
      BY <2>1, <2>3 DEF EndWrite
    <2>4. ASSUME NEW s \in Sectors, WriteSector(s) PROVE disk'[1] = image'[1]
      <3>1. CASE Skipped(Dupe(pass))
        BY <1>3, <2>4, <3>1 DEF WriteSector
      <3>2. CASE ~Skipped(Dupe(pass))
        <4>1. disk' = [disk EXCEPT ![0] = [disk[0] EXCEPT ![s] = data[s]]] /\ image' = image
          BY <2>4, <3>2 DEF Skipped, WriteSector, Stored
        <4>2. disk'[1] = disk[1]
          BY <1>0, <1>3, <4>1 DEF TypeOK
        <4> QED BY <1>3, <4>1, <4>2
      <3> QED BY <3>1, <3>2
    <2> QED
      BY <1>3, <2>1, <2>2, <2>3, <2>4
      DEF Next, Flush, Decode, Encode, EncodeFault, StartWrite, NextPass, WriteFails, vars, cache
  <1> HIDE DEF Kept
  <1> QED BY <1>1, <1>2, <1>3, PTL DEF Spec

\* Wherever fat_write is interrupted, one of at least two copies of the FAT is
\* whole: it is as the last complete fat_write left it, or has all of the new table.
THEOREM OneCopyIsWhole == ASSUME NumFat > 1 PROVE Spec => []WholeCopy
  BY OneMirrorIsWhole, SecondCopyIsWhole

-----------------------------------------------------------------------------
(* The table and its stored image                                           *)

\* What identifies the copy that a sector is read from.
LEMMA SourceIs ==
    ASSUME NEW s \in Sectors, NEW i \in Copies, Readable(Dupe(i), s),
           \A j \in 0..i-1 : ~Readable(Dupe(j), s)
    PROVE  Source(s) = Dupe(i)
  <1>1. Good(s)
    BY DEF Good
  <1>2. PICK k \in Copies : /\ Source(s) = Dupe(k)
                            /\ Readable(Dupe(k), s)
                            /\ \A j \in 0..k-1 : ~Readable(Dupe(j), s)
    BY <1>1, FirstReadable
  <1>3. i \in Nat /\ k \in Nat
    BY FatCacheAssumption DEF Copies
  <1>4. ~(i < k) /\ ~(k < i)
    BY <1>2, <1>3
  <1> QED BY <1>2, <1>3, <1>4

\* The same after a step.
LEMMA FirstReadableAfter ==
    \A s \in Sectors : Good(s)' =>
        \E i \in Copies : /\ Source(s)' = Dupe(i)
                          /\ Readable(Dupe(i), s)'
                          /\ \A j \in 0..i-1 : ~Readable(Dupe(j), s)'
  <1>1. \A s \in Sectors : Good(s) =>
            \E i \in Copies : /\ Source(s) = Dupe(i)
                              /\ Readable(Dupe(i), s)
                              /\ \A j \in 0..i-1 : ~Readable(Dupe(j), s)
    BY FirstReadable
  <1>2. (\A s \in Sectors : Good(s) =>
            \E i \in Copies : /\ Source(s) = Dupe(i)
                              /\ Readable(Dupe(i), s)
                              /\ \A j \in 0..i-1 : ~Readable(Dupe(j), s))'
    BY <1>1, PTL
  <1> QED BY <1>2 DEF Dupe

\* A write to a copy that is not the one a sector is read from afterwards does
\* not change which one that is.
LEMMA SourceKept ==
    ASSUME NEW s \in Sectors, NEW c \in Copies, bad' = bad \ {<<c, s>>},
           Good(s)', Source(s)' # c
    PROVE  Source(s)' = Source(s)
  <1>1. PICK i \in Copies : /\ Source(s)' = Dupe(i)
                            /\ Readable(Dupe(i), s)'
                            /\ \A j \in 0..i-1 : ~Readable(Dupe(j), s)'
    BY FirstReadableAfter
  <1>2. Readable(Dupe(i), s)
    BY <1>1 DEF Readable, Dupe
  <1>3. \A j \in 0..i-1 : ~Readable(Dupe(j), s)
    BY <1>1 DEF Readable, Dupe
  <1> QED BY <1>1, <1>2, <1>3, SourceIs

StoredImage == [s \in Sectors |-> Stable(s)]

\* At first nothing is cached, so that the table is what the disk holds.
LEMMA InitImplements == Init => Abstract!TableInit
  <1> SUFFICES ASSUME Init PROVE Abstract!TableInit
    OBVIOUS
  <1>1. TypeOK
    BY InitTypeOK
  <1>2. ASSUME NEW s \in Sectors PROVE Stable(s) \in Values
    <2>1. CASE Good(s)
      BY <1>1, <2>1, SourceIsReadable DEF Stable, OnDisk, TypeOK
    <2>2. CASE ~Good(s)
      BY <1>1, <2>2 DEF Stable, TypeOK
    <2> QED BY <2>1, <2>2
  <1>3. Logical = StoredImage
    BY DEF Init, Logical, StoredImage
  <1>4. Logical \in [Sectors -> Values]
    BY <1>2, <1>3 DEF StoredImage
  <1> QED BY <1>3, <1>4 DEF Abstract!TableInit, StoredImage

\* A load shows the table the sectors that were on the disk.
LEMMA LoadKeepsTable ==
    ASSUME CoherenceInv, NEW s \in Sectors, NEW burst \in Bursts
    PROVE  \A t \in Sectors :
              /\ (IF t \in valid \cup Fetched(s, burst) THEN LoadedData(s, burst)[t]
                                                        ELSE Stable(t)) = Logical[t]
              /\ ~Good(t) => LoadedData(s, burst)[t] = data[t]
  <1> SUFFICES ASSUME NEW t \in Sectors
               PROVE  /\ (IF t \in valid \cup Fetched(s, burst) THEN LoadedData(s, burst)[t]
                                                                ELSE Stable(t)) = Logical[t]
                      /\ ~Good(t) => LoadedData(s, burst)[t] = data[t]
    OBVIOUS
  <1>1. CASE t \in Fetched(s, burst)
    <2>1. t \notin valid /\ Good(t)
      BY <1>1, FetchedSectors, FetchedAreGood
    <2>2. LoadedData(s, burst)[t] = OnDisk(t)
      BY <1>1, LoadedIsOnDisk
    <2> QED BY <1>1, <2>1, <2>2 DEF Logical, Stable
  <1>2. CASE t \notin Fetched(s, burst)
    BY <1>2 DEF LoadedData, Logical
  <1> QED BY <1>1, <1>2

\* A sector reads the same while the disk does not change, and what nobody can
\* read keeps its filler.
LEMMA StableKept ==
    ASSUME disk' = disk, bad' = bad, \A t \in Sectors : ~Good(t) => data'[t] = data[t]
    PROVE  StoredImage' = StoredImage /\ \A t \in Sectors : Stable(t)' = Stable(t)
  <1>1. \A t \in Sectors : OnDisk(t)' = OnDisk(t) /\ Good(t)' = Good(t)
    BY OnDiskStable
  <1>2. \A t \in Sectors : Stable(t)' = Stable(t)
    BY <1>1 DEF Stable
  <1> QED BY <1>2 DEF StoredImage

\* The stored image takes the value of the sector that is written, or stays as
\* it was if the copy is not the one that is read.
LEMMA WriteImplements ==
    ASSUME WriteAllFats, CoherenceInv, CoherenceInv', NEW s \in Sectors, WriteSector(s)
    PROVE  /\ Logical' = Logical
           /\ StoredImage' = StoredImage \/ StoredImage' = [StoredImage EXCEPT ![s] = Logical[s]]
  <1> USE DEF CoherenceInv, Bookkeeping
  <1>1. /\ disk' = Stored(s) /\ bad' = bad \ {<<Dupe(pass), s>>}
        /\ data' = data /\ valid' = valid /\ s \in dirty
    BY DEF WriteSector, Skipped
  <1>2. \A c \in Copies, u \in Sectors :
           disk'[c][u] = IF c = Dupe(pass) /\ u = s THEN data[s] ELSE disk[c][u]
    BY <1>1, StoredEffect
  <1>3. s \in valid /\ Good(s) /\ Good(s)' /\ Dupe(pass) \in Copies
    BY <1>1, DupeIsCopy DEF DirtyAnnounced, Coherent, CachedAreGood, TypeOK
  <1>4. ASSUME NEW u \in Sectors, u # s PROVE Stable(u)' = Stable(u)
    <2>1. \A c : Readable(c, u)' = Readable(c, u)
      BY <1>1, <1>4 DEF Readable
    <2>2. Source(u)' = Source(u) /\ Good(u)' = Good(u)
      BY <2>1 DEF Source, Good, Dupe
    <2>3. CASE Good(u)
      <3>1. Source(u) \in Copies
        BY <2>3, SourceIsReadable
      <3> QED BY <1>2, <1>4, <2>2, <2>3, <3>1 DEF Stable, OnDisk
    <2>4. CASE ~Good(u)
      BY <1>1, <2>2, <2>4 DEF Stable
    <2> QED BY <2>3, <2>4
  <1>5. Stable(s)' = data[s] \/ Stable(s)' = Stable(s)
    <2>1. CASE Source(s)' = Dupe(pass)
      BY <1>2, <1>3, <2>1 DEF Stable, OnDisk
    <2>2. CASE Source(s)' # Dupe(pass)
      <3>1. Source(s)' = Source(s)
        BY <1>1, <1>3, <2>2, SourceKept
      <3>2. Source(s) \in Copies
        BY <1>3, SourceIsReadable
      <3> QED BY <1>2, <1>3, <2>2, <3>1, <3>2 DEF Stable, OnDisk
    <2> QED BY <2>1, <2>2
  <1>6. Logical[s] = data[s]
    BY <1>3 DEF Logical
  <1>7. Logical' = Logical
    <2>1. \A u \in Sectors : (IF u \in valid THEN data[u] ELSE Stable(u)')
                             = (IF u \in valid THEN data[u] ELSE Stable(u))
      BY <1>3, <1>4
    <2> QED BY <1>1, <2>1 DEF Logical
  <1> QED BY <1>4, <1>5, <1>6, <1>7 DEF StoredImage

\* A step of the cache changes one sector of the table, lets one sector reach
\* the disk, or changes neither: one step per action.
LEMMA NextImplements ==
    ASSUME WriteAllFats
    PROVE  CoherenceInv /\ CoherenceInv' /\ [Next]_vars
              => [Abstract!TableNext]_<<Logical, StoredImage>>
  <1> SUFFICES ASSUME CoherenceInv, CoherenceInv', [Next]_vars
               PROVE  \/ UNCHANGED <<Logical, StoredImage>>
                      \/ \E s \in Sectors : Abstract!Persist(s)
                      \/ \E s \in Sectors, v \in Values : Abstract!Put(s, v)
    BY DEF Abstract!TableNext
  <1> USE DEF CoherenceInv, Bookkeeping
  <1>1. ASSUME NEW s \in Sectors, NEW burst \in Bursts, NEW err \in BOOLEAN,
               Decode(s, burst, err)
        PROVE  UNCHANGED <<Logical, StoredImage>>
    <2>0. disk' = disk /\ bad' = bad
      BY <1>1 DEF Decode
    <2>1. CASE Hit(s, "READ")
      <3>1. data' = data /\ valid' = valid
        BY <1>1, <2>1 DEF Decode, cache
      <3> QED BY <2>0, <3>1, StableKept DEF Logical
    <2>2. CASE ~Hit(s, "READ")
      <3>1. valid' = valid \cup Fetched(s, burst) /\ data' = LoadedData(s, burst)
        BY <1>1, <2>2 DEF Decode, Load
      <3>2. StoredImage' = StoredImage /\ \A t \in Sectors : Stable(t)' = Stable(t)
        BY <2>0, <3>1, LoadKeepsTable, StableKept
      <3>3. Logical' = [t \in Sectors |-> IF t \in valid \cup Fetched(s, burst)
                                          THEN LoadedData(s, burst)[t] ELSE Stable(t)]
        BY <3>1, <3>2 DEF Logical
      <3>4. Logical' = Logical
        BY <3>3, LoadKeepsTable DEF Logical
      <3> QED BY <3>2, <3>4
    <2> QED BY <2>1, <2>2
  <1>2. ASSUME NEW s \in Sectors, NEW v \in Values, NEW burst \in Bursts,
               Encode(s, v, burst)
        PROVE  Abstract!Put(s, v)
    <2>0. disk' = disk /\ bad' = bad
      BY <1>2 DEF Encode
    <2>1. s \in valid' /\ Good(s)
      <3>1. s \in valid'
        <4>1. CASE Hit(s, "WRITE")
          BY <1>2, <4>1 DEF Encode, Hit, LastCached
        <4>2. CASE ~Hit(s, "WRITE")
          BY <1>2, <4>2, LoadCaches DEF Encode, Load, Modes
        <4> QED BY <4>1, <4>2
      <3>2. Good(s)'
        BY <3>1 DEF Coherent, CachedAreGood
      <3> QED BY <2>0, <3>1, <3>2, OnDiskStable
    <2>2. CASE Hit(s, "WRITE")
      <3>1. data' = [data EXCEPT ![s] = v] /\ valid' = valid
        BY <1>2, <2>2 DEF Encode
      <3>2. \A t \in Sectors : data'[t] = IF t = s THEN v ELSE data[t]
        BY <3>1 DEF TypeOK
      <3>3. StoredImage' = StoredImage /\ \A t \in Sectors : Stable(t)' = Stable(t)
        BY <2>0, <2>1, <3>2, StableKept
      <3>4. Logical' = [Logical EXCEPT ![s] = v]
        BY <2>1, <3>1, <3>2, <3>3 DEF Logical
      <3> QED BY <3>3, <3>4 DEF Abstract!Put, StoredImage
    <2>3. CASE ~Hit(s, "WRITE")
      <3>1. /\ valid' = valid \cup Fetched(s, burst)
            /\ data' = [LoadedData(s, burst) EXCEPT ![s] = v]
        BY <1>2, <2>3 DEF Encode, Load
      <3>2. \A t \in Sectors : data'[t] = IF t = s THEN v ELSE LoadedData(s, burst)[t]
        BY <3>1, LoadedDataType
      <3>3. StoredImage' = StoredImage /\ \A t \in Sectors : Stable(t)' = Stable(t)
        BY <2>0, <2>1, <3>2, LoadKeepsTable, StableKept
      <3>4. \A t \in Sectors : Logical'[t] = IF t = s THEN v ELSE Logical[t]
        BY <2>1, <3>1, <3>2, <3>3, LoadKeepsTable DEF Logical
      <3>5. Logical' = [Logical EXCEPT ![s] = v]
        BY <3>4 DEF Logical
      <3> QED BY <3>3, <3>5 DEF Abstract!Put, StoredImage
    <2> QED BY <2>2, <2>3
  <1>3. ASSUME NEW s \in Sectors, WriteSector(s)
        PROVE  UNCHANGED <<Logical, StoredImage>> \/ Abstract!Persist(s)
    BY <1>3, WriteImplements DEF Abstract!Persist, StoredImage
  <1>4. ASSUME UNCHANGED <<disk, bad, data, valid>>
        PROVE  UNCHANGED <<Logical, StoredImage>>
    BY <1>4, StableKept DEF Logical
  <1>5. \/ UNCHANGED <<disk, bad, data, valid>>
        \/ \E s \in Sectors, burst \in Bursts, err \in BOOLEAN : Decode(s, burst, err)
        \/ \E s \in Sectors, v \in Values, burst \in Bursts : Encode(s, v, burst)
        \/ \E s \in Sectors : WriteSector(s)
    BY DEF Next, Flush, EncodeFault, StartWrite, NextPass, EndWrite, WriteFails, vars, cache
  <1> QED BY <1>1, <1>2, <1>3, <1>4, <1>5

\* The cache and the disk together are the table of FatTable: accesses change
\* one sector of it or nothing, and whatever is stored is a value of the table,
\* in whatever order fat_write goes through sectors and copies.
THEOREM CacheImplementsTable == ASSUME WriteAllFats PROVE Spec => ImplementsTable
  <1>1. Init => Abstract!TableInit /\ CoherenceInv
    BY InitImplements, InitCoherent
  <1>2. CoherenceInv /\ [Next]_vars => CoherenceInv'
    BY NextCoherent
  <1>3. CoherenceInv /\ CoherenceInv' /\ [Next]_vars
           => [Abstract!TableNext]_<<Logical, StoredImage>>
    BY NextImplements
  <1>4. CoherenceInv /\ CoherenceInv' /\ [Next]_vars
           => [Abstract!TableNext]_<<Logical, [s \in Sectors |-> Stable(s)]>>
    BY <1>3 DEF StoredImage
  <1> QED BY <1>1, <1>2, <1>4, PTL DEF Spec, ImplementsTable, Abstract!TableSpec

-----------------------------------------------------------------------------
(* The bytes of the entries (FatEntry)                                      *)

(* A table that differs in one entry only is the table with that entry     *)
(* replaced.                                                               *)
LEMMA OneChanged ==
  ASSUME NEW S, NEW f, NEW g, NEW a \in S, NEW v,
         f = [x \in S |-> f[x]], g = [x \in S |-> g[x]],
         g[a] = v, \A x \in S \ {a} : g[x] = f[x]
  PROVE  g = [f EXCEPT ![a] = v]
  OBVIOUS

-----------------------------------------------------------------------------
(* Where an entry of 12 bits lies: pairs of entries have three bytes.      *)
LEMMA Place12 ==
  ASSUME NEW num \in Nat
  PROVE  \E k \in Nat : \/ num = 2 * k     /\ num % 2 = 0 /\ Start12(num) = 3 * k
                        \/ num = 2 * k + 1 /\ num % 2 = 1 /\ Start12(num) = 3 * k + 1
<1>1. /\ num \div 2 \in Nat
      /\ num = 2 * (num \div 2) + (num % 2)
      /\ num % 2 \in {0, 1}
  OBVIOUS
<1>2. num % 2 = 0 => Start12(num) = 3 * (num \div 2)
  BY DEF Start12
<1>3. num % 2 = 1 => Start12(num) = 3 * (num \div 2) + 1
  BY DEF Start12
<1> QED BY <1>1, <1>2, <1>3

(* Two entries have a byte in common only if they are a pair, and then it  *)
(* is the second of the even one and the first of the odd one.             *)
LEMMA Apart12 ==
  ASSUME NEW num \in Nat, NEW other \in Nat, num # other
  PROVE  /\ Start12(num) # Start12(other)
         /\ Start12(num) + 1 # Start12(other) + 1
         /\ Start12(num) + 1 = Start12(other) => num % 2 = 0 /\ other % 2 = 1
         /\ Start12(num) = Start12(other) + 1 => num % 2 = 1 /\ other % 2 = 0
<1>1. PICK k \in Nat : \/ num = 2 * k     /\ num % 2 = 0 /\ Start12(num) = 3 * k
                       \/ num = 2 * k + 1 /\ num % 2 = 1 /\ Start12(num) = 3 * k + 1
  BY Place12
<1>2. PICK l \in Nat : \/ other = 2 * l     /\ other % 2 = 0 /\ Start12(other) = 3 * l
                       \/ other = 2 * l + 1 /\ other % 2 = 1 /\ Start12(other) = 3 * l + 1
  BY Place12
<1> QED BY <1>1, <1>2

(* A word put together from a byte and parts of another comes apart again. *)
LEMMA Nibbles ==
  ASSUME NEW b \in Byte, NEW code \in Nat, code < 4096
  PROVE  /\ (b % 16) + (code % 16) * 16 \in Byte
         /\ ((b % 16) + (code % 16) * 16) % 16 = b % 16
         /\ ((b % 16) + (code % 16) * 16) \div 16 = code % 16
         /\ (code \div 16) % 256 \in Byte
         /\ ((code \div 16) % 256) * 16 + (code % 16) = code
         /\ code % 256 \in Byte
         /\ (b \div 16) * 16 + ((code \div 256) % 16) \in Byte
         /\ ((b \div 16) * 16 + ((code \div 256) % 16)) \div 16 = b \div 16
         /\ ((b \div 16) * 16 + ((code \div 256) % 16)) % 16 = (code \div 256) % 16
         /\ ((code \div 256) % 16) * 256 + (code % 256) = code
  BY DEF Byte

(* A FAT of 12-bit entries is a table: fat12_encode changes the number it  *)
(* is asked to and no other, though each shares a byte with a neighbour.   *)
THEOREM Fat12IsTable ==
  ASSUME NEW size \in Nat, NEW fat \in FatBytes(size),
         NEW num \in Entries12(size), NEW code \in Nat, code < 4096
  PROVE  /\ Encode12(fat, num, code) \in FatBytes(size)
         /\ Table12(Encode12(fat, num, code), size)
              = [Table12(fat, size) EXCEPT ![num] = code]
<1> DEFINE new == Encode12(fat, num, code)
           at  == Start12(num)
           b0  == IF num % 2 = 1 THEN (fat[at] % 16) + (code % 16) * 16
                                 ELSE code % 256
           b1  == IF num % 2 = 1 THEN (code \div 16) % 256
                                 ELSE (fat[at + 1] \div 16) * 16 + ((code \div 256) % 16)
<1>1. num \in Nat /\ at \in Nat /\ at + 1 < size /\ num % 2 \in {0, 1}
  BY Place12 DEF Entries12
<1>2. fat[at] \in Byte /\ fat[at + 1] \in Byte
  BY <1>1 DEF FatBytes
<1>3. b0 \in Byte /\ b1 \in Byte
  BY <1>2, Nibbles
<1>4. new = [fat EXCEPT ![at] = b0, ![at + 1] = b1]
  <2>1. at # at + 1 /\ at \in DOMAIN fat /\ at + 1 \in DOMAIN fat
    BY <1>1 DEF FatBytes
  <2>2. CASE num % 2 = 1
    <3>1. /\ b0 = (fat[at] % 16) + (code % 16) * 16
          /\ b1 = (code \div 16) % 256
      BY <2>2
    <3>2. new = [fat EXCEPT ![at] = (fat[at] % 16) + (code % 16) * 16,
                            ![at + 1] = (code \div 16) % 256]
      BY <2>2 DEF Encode12
    <3> HIDE DEF new, at, b0, b1
    <3> QED BY <3>1, <3>2
  <2>3. CASE num % 2 = 0
    <3>1. /\ b0 = code % 256
          /\ b1 = (fat[at + 1] \div 16) * 16 + ((code \div 256) % 16)
      BY <2>3
    <3>2. new = [fat EXCEPT ![at] = code % 256,
                            ![at + 1] = (fat[at + 1] \div 16) * 16
                                          + ((code \div 256) % 16)]
      BY <2>1, <2>3 DEF Encode12
    <3> HIDE DEF new, at, b0, b1
    <3> QED BY <3>1, <3>2
  <2> QED BY <1>1, <2>2, <2>3
<1> HIDE DEF new, b0, b1
<1>5. /\ new \in FatBytes(size)
      /\ new[at] = b0
      /\ new[at + 1] = b1
      /\ \A i \in 0 .. size - 1 : i \notin {at, at + 1} => new[i] = fat[i]
  <2> HIDE DEF at
  <2> QED BY <1>1, <1>3, <1>4 DEF FatBytes
<1>6. Decode12(new, num) = code
  <2>1. CASE num % 2 = 1
    <3>1. Decode12(new, num) = b1 * 16 + b0 \div 16
      BY <1>5, <2>1 DEF Decode12
    <3>2. b0 \div 16 = code % 16 /\ b1 * 16 + (code % 16) = code
      BY <1>2, <2>1, Nibbles DEF b0, b1
    <3> QED BY <3>1, <3>2
  <2>2. CASE num % 2 = 0
    <3>1. Decode12(new, num) = (b1 % 16) * 256 + b0
      BY <1>5, <2>2 DEF Decode12
    <3>2. b1 % 16 = (code \div 256) % 16 /\ b0 = code % 256
      BY <1>2, <2>2, Nibbles DEF b0, b1
    <3> QED BY <3>1, <3>2, Nibbles
  <2> QED BY <1>1, <2>1, <2>2
<1>7. ASSUME NEW other \in Entries12(size) \ {num}
      PROVE  Decode12(new, other) = Decode12(fat, other)
  <2> DEFINE ot == Start12(other)
  <2>1. /\ other \in Nat /\ other # num /\ other % 2 \in {0, 1}
        /\ ot \in 0 .. size - 1
        /\ ot + 1 \in 0 .. size - 1
    BY Place12 DEF Entries12
  <2>2. /\ ot # at /\ ot + 1 # at + 1
        /\ at + 1 = ot => num % 2 = 0 /\ other % 2 = 1
        /\ at = ot + 1 => num % 2 = 1 /\ other % 2 = 0
    BY <1>1, <2>1, Apart12
  <2> HIDE DEF at, ot
  <2>3. ot # at + 1 => new[ot] = fat[ot]
    BY <1>5, <2>1, <2>2
  <2>4. ot + 1 # at => new[ot + 1] = fat[ot + 1]
    BY <1>1, <1>5, <2>1, <2>2
  <2>5. CASE ot = at + 1
    <3>1. new[ot] \div 16 = fat[ot] \div 16
      BY <1>2, <1>5, <2>2, <2>5, Nibbles DEF b1
    <3>2. ot + 1 # at
      BY <1>1, <2>5
    <3>3. other % 2 = 1
      BY <2>2, <2>5
    <3> QED BY <2>4, <3>1, <3>2, <3>3 DEF Decode12, ot
  <2>6. CASE ot + 1 = at
    <3>1. new[ot + 1] % 16 = fat[ot + 1] % 16
      BY <1>2, <1>5, <2>2, <2>6, Nibbles DEF b0
    <3>2. ot # at + 1
      BY <1>1, <2>1, <2>6
    <3>3. other % 2 = 0
      BY <2>2, <2>6
    <3> QED BY <2>3, <3>1, <3>2, <3>3 DEF Decode12, ot
  <2>7. CASE ot # at + 1 /\ ot + 1 # at
    BY <2>3, <2>4, <2>7 DEF Decode12, ot
  <2> QED BY <2>5, <2>6, <2>7
<1>8. Table12(new, size) = [Table12(fat, size) EXCEPT ![num] = code]
  <2> DEFINE f == Table12(fat, size)
             g == Table12(new, size)
  <2>1. /\ f = [x \in Entries12(size) |-> f[x]]
        /\ g = [x \in Entries12(size) |-> g[x]]
        /\ g[num] = code
        /\ \A x \in Entries12(size) \ {num} : g[x] = f[x]
    BY <1>6, <1>7 DEF Table12
  <2> HIDE DEF f, g
  <2>2. g = [f EXCEPT ![num] = code]
    BY <2>1, OneChanged
  <2> QED BY <2>2 DEF f, g
<1> QED BY <1>5, <1>8 DEF new

(* A FAT of 16-bit entries is a table.                                     *)
THEOREM Fat16IsTable ==
  ASSUME NEW size \in Nat, NEW fat \in FatBytes(size),
         NEW num \in Entries16(size), NEW code \in Nat, code < 65536
  PROVE  /\ Encode16(fat, num, code) \in FatBytes(size)
         /\ Table16(Encode16(fat, num, code), size)
              = [Table16(fat, size) EXCEPT ![num] = code]
<1> DEFINE new == Encode16(fat, num, code)
           at  == num * 2
           b0  == code % 256
           b1  == (code \div 256) % 256
<1>1. num \in Nat /\ at \in Nat /\ at + 1 < size
  BY DEF Entries16
<1>2. b0 \in Byte /\ b1 \in Byte /\ b0 + b1 * 256 = code
  BY DEF Byte
<1>3. new = [fat EXCEPT ![at] = b0, ![at + 1] = b1]
  BY DEF Encode16, SetWord
<1> HIDE DEF new, b0, b1, at
<1>4. /\ new \in FatBytes(size)
      /\ new[at] = b0
      /\ new[at + 1] = b1
      /\ \A i \in 0 .. size - 1 : i \notin {at, at + 1} => new[i] = fat[i]
  BY <1>1, <1>2, <1>3 DEF FatBytes
<1>5. Decode16(new, num) = code
  BY <1>2, <1>4 DEF Decode16, Word, at
<1>6. ASSUME NEW other \in Entries16(size) \ {num}
      PROVE  Decode16(new, other) = Decode16(fat, other)
  <2>1. /\ other * 2 \in 0 .. size - 1 /\ other * 2 + 1 \in 0 .. size - 1
        /\ other * 2 \notin {at, at + 1} /\ other * 2 + 1 \notin {at, at + 1}
    BY <1>1, <1>6 DEF Entries16, at
  <2> QED BY <1>4, <2>1 DEF Decode16, Word
<1>7. Table16(new, size) = [Table16(fat, size) EXCEPT ![num] = code]
  <2> DEFINE f == Table16(fat, size)
             g == Table16(new, size)
  <2>1. /\ f = [x \in Entries16(size) |-> f[x]]
        /\ g = [x \in Entries16(size) |-> g[x]]
        /\ g[num] = code
        /\ \A x \in Entries16(size) \ {num} : g[x] = f[x]
    BY <1>5, <1>6 DEF Table16
  <2> HIDE DEF f, g
  <2>2. g = [f EXCEPT ![num] = code]
    BY <2>1, OneChanged
  <2> QED BY <2>2 DEF f, g
<1> QED BY <1>4, <1>7 DEF new

(* A byte is a number below 256.                                           *)
LEMMA ByteBelow == \A b \in Byte : b \in Nat /\ b < 256
  BY DEF Byte

(* A number of four bytes is put together from them again.                 *)
LEMMA FourBytes ==
  ASSUME NEW v \in Nat, v < 4294967296
  PROVE  /\ v % 256 \in Byte
         /\ (v \div 256) % 256 \in Byte
         /\ (v \div 65536) % 256 \in Byte
         /\ (v \div 16777216) % 256 \in Byte
         /\ ((v % 256) + ((v \div 256) % 256) * 256)
              + (((v \div 65536) % 256) + ((v \div 16777216) % 256) * 256) * 65536 = v
<1> DEFINE q1 == v \div 256
           q2 == v \div 65536
           q3 == v \div 16777216
<1>1. /\ v % 256 \in Byte /\ q1 % 256 \in Byte
      /\ q2 % 256 \in Byte /\ q3 % 256 \in Byte
  BY SMT DEF Byte
<1>2. v = 256 * q1 + (v % 256) /\ q1 \in Nat
  BY SMT
<1>3. q2 = q1 \div 256 /\ q2 \in Nat
  BY SMT
<1>4. q3 = q2 \div 256 /\ q3 \in 0 .. 255
  BY SMT
<1>5. q1 = 256 * q2 + (q1 % 256)
  BY SMT, <1>2, <1>3
<1>6. q2 = 256 * q3 + (q2 % 256)
  BY SMT, <1>3, <1>4
<1>7. q3 % 256 = q3
  BY SMT, <1>4
<1> HIDE DEF q1, q2, q3
<1>8. ((v % 256) + (q1 % 256) * 256) + ((q2 % 256) + (q3 % 256) * 256) * 65536 = v
  BY SMT, <1>1, <1>2, <1>3, <1>4, <1>5, <1>6, <1>7 DEF Byte
<1> QED BY SMT, <1>1, <1>8 DEF q1, q2, q3

(* A FAT of 32-bit entries is a table of 28-bit numbers, and the four bits *)
(* that are no part of them stay, in the entry that is changed too.        *)
THEOREM Fat32IsTable ==
  ASSUME NEW size \in Nat, NEW fat \in FatBytes(size),
         NEW num \in Entries32(size), NEW code \in Nat, code < FAT32_ADDR
  PROVE  /\ Encode32(fat, num, code) \in FatBytes(size)
         /\ Table32(Encode32(fat, num, code), size)
              = [Table32(fat, size) EXCEPT ![num] = code]
         /\ \A other \in Entries32(size) :
               Reserved32(Encode32(fat, num, code), other) = Reserved32(fat, other)
<1> DEFINE new == Encode32(fat, num, code)
           at  == num * 4
           value == (code % FAT32_ADDR) + Reserved32(fat, num) * FAT32_ADDR
           b0  == value % 256
           b1  == (value \div 256) % 256
           b2  == (value \div 65536) % 256
           b3  == (value \div 16777216) % 256
<1>1. /\ num \in Nat /\ at \in Nat /\ at + 3 < size
      /\ at + 1 \in 0 .. size - 1 /\ at + 2 \in 0 .. size - 1
      /\ at + 3 \in 0 .. size - 1 /\ at \in 0 .. size - 1
      /\ at + 2 + 1 = at + 3
  BY DEF Entries32
<1>2. Dword(fat, at) \in Nat /\ Dword(fat, at) < 4294967296
  <2> HIDE DEF at
  <2>1. \A i \in 0 .. size - 1 : fat[i] \in Nat /\ fat[i] < 256
    BY ByteBelow DEF FatBytes
  <2>2. Dword(fat, at) = fat[at] + fat[at + 1] * 256 + (fat[at + 2] + fat[at + 3] * 256) * 65536
    BY SMT, <1>1 DEF Dword, Word
  <2> QED BY SMT, <1>1, <2>1, <2>2
<1>3. Reserved32(fat, num) \in Nat /\ Reserved32(fat, num) < 16
  BY SMT, <1>2 DEF Reserved32, FAT32_ADDR
<1>4. /\ value \in Nat /\ value < 4294967296
      /\ value % FAT32_ADDR = code
      /\ value \div FAT32_ADDR = Reserved32(fat, num)
  BY SMT, <1>3 DEF FAT32_ADDR
<1>5. new = [fat EXCEPT ![at] = b0, ![at + 1] = b1, ![at + 2] = b2, ![at + 3] = b3]
  BY SMT DEF Encode32, SetDword
<1> HIDE DEF new, value, at
<1>6. /\ b0 \in Byte /\ b1 \in Byte /\ b2 \in Byte /\ b3 \in Byte
      /\ b0 + b1 * 256 + (b2 + b3 * 256) * 65536 = value
  BY SMT, <1>4, FourBytes
<1> HIDE DEF b0, b1, b2, b3
<1>7. /\ new \in FatBytes(size)
      /\ new[at] = b0 /\ new[at + 1] = b1
      /\ new[at + 2] = b2 /\ new[at + 3] = b3
      /\ \A i \in 0 .. size - 1 :
            i \notin {at, at + 1, at + 2, at + 3} => new[i] = fat[i]
  BY SMT, <1>1, <1>5, <1>6 DEF FatBytes
<1>8. Dword(new, at) = value
  BY SMT, <1>1, <1>6, <1>7 DEF Dword, Word
<1>9. Decode32(new, num) = code /\ Reserved32(new, num) = Reserved32(fat, num)
  BY SMT, <1>4, <1>8 DEF Decode32, Reserved32, at
<1>10. ASSUME NEW other \in Entries32(size) \ {num}
       PROVE  Dword(new, other * 4) = Dword(fat, other * 4)
  <2> DEFINE ot == other * 4
             others == {ot, ot + 1, ot + 2, ot + 2 + 1}
  <2>1. \A i \in others : i \in 0 .. size - 1 /\ i \notin {at, at + 1, at + 2, at + 3}
    BY SMT, <1>1, <1>10 DEF Entries32, at
  <2>2. \A i \in others : new[i] = fat[i]
    BY SMT, <1>7, <2>1
  <2> QED BY SMT, <2>2 DEF Dword, Word
<1>11. Table32(new, size) = [Table32(fat, size) EXCEPT ![num] = code]
  <2> DEFINE f == Table32(fat, size)
             g == Table32(new, size)
  <2>1. /\ f = [x \in Entries32(size) |-> f[x]]
        /\ g = [x \in Entries32(size) |-> g[x]]
        /\ g[num] = code
        /\ \A x \in Entries32(size) \ {num} : g[x] = f[x]
    BY SMT, <1>9, <1>10 DEF Table32, Decode32
  <2> HIDE DEF f, g
  <2>2. g = [f EXCEPT ![num] = code]
    BY <2>1, OneChanged
  <2> QED BY <2>2 DEF f, g
<1>12. \A other \in Entries32(size) : Reserved32(new, other) = Reserved32(fat, other)
  BY SMT, <1>9, <1>10 DEF Reserved32
<1> QED BY SMT, <1>7, <1>11, <1>12 DEF new
=============================================================================
