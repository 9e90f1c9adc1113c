---------------------------- MODULE OpeningProofs -----------------------------
(***************************************************************************)
(* Proofs about Opening: whatever the descriptions, files, permissions and *)
(* locks, and however many commands run, each ends with the first          *)
(* description it can use, holds nothing it should not, and no writer is   *)
(* together with another command in the XDF driver.                        *)
(*                                                                         *)
(* What one command may rely on, Right, speaks of its own state,           *)
(* descriptors and locks only, so that a step of another command keeps it  *)
(* (lemma OthersKeep).  That locks exclude each other, Compatible, is all  *)
(* they have in common.                                                    *)
(***************************************************************************)
EXTENDS Opening, SequenceTheorems, TLAPS

Kinds == {"read", "write", "label"}
AllKinds == Kinds \union {None}
Idling == {"idle", "failed"}
Looking == {"driver", "plain"}
InDriver == {"lock", "probe"}
WithStream == {"boot", "geometry", "working"}
Modes == {RO, RW}

Places == Idling \union Looking \union InDriver \union WithStream
States == [pc : Places,
           kind : AllKinds, dev : Nat, retry : {0, 1}, openMode : Modes,
           boot : BOOLEAN, tries : Nat, isRo : BOOLEAN]
Handles == [file : Files, mode : Modes, via : {"xdf", "plain", "lost"}]
Locks == [proc : Procs, mode : Modes]

EnvironmentTyped ==
    /\ perm \in [Files -> {"rw", "ro", "none"}]
    /\ asks \in [Files -> {"free", "write", "never"}]
    /\ fits \in [1..Len(Descriptions) -> BOOLEAN]

Typed ==
    /\ EnvironmentTyped
    /\ proc \in [Procs -> States]
    /\ held \in [Procs -> SUBSET Handles]
    /\ locks \in [Files -> SUBSET Locks]

(* The locks on a file, taken by different commands, are locks of readers. *)
Compatible ==
    \A f \in Files : \A l, m \in locks[f] :
        l.proc # m.proc => l.mode = RO /\ m.mode = RO

(* A command that is not idle and has not failed has a description.        *)
DevRight(q) ==
    /\ q.pc # "idle" => q.kind \in Kinds
    /\ q.pc \notin Idling => q.dev \in 1..Len(Descriptions)

(* No description before the present one was of use.                       *)
TriedRight(q) ==
    q.pc # "idle" =>
        \A d \in 1..Len(Descriptions) :
            q.pc = "failed" \/ d < q.dev => ~Usable(d, q.kind)

(* The access asked for, in the first round and in the second.             *)
ModeRight(q, file) ==
    /\ q.kind = "write" => q.openMode = RW
    /\ q.kind = "label" => \/ q.openMode = RW /\ q.retry = 0
                           \/ q.openMode = RO /\ q.retry = 1 /\ perm[file] # "rw"
    /\ q.kind = "read" => \/ q.openMode = RO /\ q.retry = 0
                          \/ q.openMode = RW /\ q.retry = 1 /\ asks[file] = "write"

Holding(h, q, file) ==
    /\ h.file = file
    /\ May(file, h.mode)
    /\ \/ h.via = "xdf" /\ h.mode = RW
       \/ h.via = "plain" /\ h.mode = q.openMode

StreamRight(p) ==
    LET q == proc[p] IN
    /\ q.pc \in Idling \union Looking => Stream(p) = {}
    /\ q.pc \in InDriver =>
          \E h \in Handles : Stream(p) = {h} /\ Holding(h, q, Dev(p).file) /\ h.via = "xdf"
    /\ q.pc \in WithStream =>
          \E h \in Handles : Stream(p) = {h} /\ Holding(h, q, Dev(p).file)
    /\ q.pc = "working" => (q.isRo <=> q.openMode = RO)

Locked(p) == proc[p].pc \in {"probe"} \union WithStream /\ Xdf(p) # {}

LockRight(p) ==
    /\ \A f \in Files : \A l \in locks[f] :
          l.proc = p => /\ Locked(p)
                        /\ f = Dev(p).file
                        /\ l.mode = proc[p].openMode
    /\ Locked(p) /\ ~Dev(p).nolock =>
          [proc |-> p, mode |-> proc[p].openMode] \in locks[Dev(p).file]

Right(p) ==
    /\ DevRight(proc[p])
    /\ TriedRight(proc[p])
    /\ proc[p].pc \notin Idling => ModeRight(proc[p], Dev(p).file)
    /\ StreamRight(p)
    /\ LockRight(p)

OpeningRight == Typed /\ Compatible /\ \A p \in Procs : Right(p)
-----------------------------------------------------------------------------
(* What a step of command p may touch.                                     *)
OnlyMine(p) ==
    /\ UNCHANGED <<perm, asks, fits>>
    /\ \A q \in Procs \ {p} :
          /\ proc'[q] = proc[q] /\ held'[q] = held[q]
          /\ \A f \in Files : \A l \in Locks :
                l.proc = q => (l \in locks'[f] <=> l \in locks[f])

(* A description has a file.                                               *)
LEMMA DescriptionTyped ==
  ASSUME NEW d \in 1..Len(Descriptions)
  PROVE  /\ Descriptions[d] \in [file : Files, xdf : BOOLEAN, tracks : BOOLEAN, nolock : BOOLEAN]
         /\ Descriptions[d].file \in Files
         /\ Descriptions[d].xdf \in BOOLEAN
         /\ Descriptions[d].tracks \in BOOLEAN
         /\ Descriptions[d].nolock \in BOOLEAN
<1>1. Descriptions[d] \in [file : Files, xdf : BOOLEAN, tracks : BOOLEAN, nolock : BOOLEAN]
  BY DescriptionsAssumption, ElementOfSeq
<1> QED BY <1>1

(* A step of one command keeps what the others rely on.                    *)
LEMMA OthersKeep ==
  ASSUME Typed, Typed', NEW p \in Procs, OnlyMine(p),
         NEW q \in Procs \ {p}, Right(q)
  PROVE  Right(q)'
<1>1. /\ proc'[q] = proc[q] /\ held'[q] = held[q]
      /\ perm' = perm /\ asks' = asks /\ fits' = fits
      /\ \A f \in Files : \A l \in Locks :
            l.proc = q => (l \in locks'[f] <=> l \in locks[f])
  BY DEF OnlyMine
<1>2. DevRight(proc[q])'
  BY <1>1 DEF Right, DevRight
<1>3. TriedRight(proc[q])'
  BY <1>1 DEF Right, TriedRight, Usable, May
<1>4. (proc[q].pc \notin Idling => ModeRight(proc[q], Dev(q).file))'
  BY <1>1 DEF Right, ModeRight, Dev
<1>5. StreamRight(q)'
  BY <1>1 DEF Right, StreamRight, Stream, Holding, May, Dev
<1>6. LockRight(q)'
  <2>1. Locked(q)' = Locked(q) /\ Dev(q)' = Dev(q)
    BY <1>1 DEF Locked, Xdf, Dev
  <2>2. \A f \in Files : locks[f] \subseteq Locks /\ locks'[f] \subseteq Locks
    BY DEF Typed
  <2>3. \A f \in Files : \A l \in locks'[f] :
          l.proc = q => Locked(q)' /\ f = Dev(q)'.file /\ l.mode = proc'[q].openMode
    BY <1>1, <2>1, <2>2 DEF Right, LockRight
  <2>4. ASSUME Locked(q)', ~Dev(q)'.nolock
        PROVE  [proc |-> q, mode |-> proc'[q].openMode] \in locks'[Dev(q)'.file]
    <3>1. [proc |-> q, mode |-> proc[q].openMode] \in locks[Dev(q).file]
      BY <2>1, <2>4 DEF Right, LockRight
    <3>2. Dev(q).file \in Files
      <4>1. proc[q].pc \notin Idling
        BY <2>1, <2>4 DEF Locked, WithStream, Idling
      <4> QED BY <4>1, DescriptionTyped DEF Right, DevRight, Dev
    <3> QED BY <1>1, <2>1, <2>2, <3>1, <3>2
  <2> QED BY <2>3, <2>4 DEF LockRight
<1> QED BY <1>2, <1>3, <1>4, <1>5, <1>6 DEF Right

(* Taking no lock keeps the locks compatible.                              *)
LEMMA FewerLocks ==
  ASSUME Compatible, \A f \in Files : locks'[f] \subseteq locks[f]
  PROVE  Compatible'
  BY DEF Compatible

-----------------------------------------------------------------------------
(* The next description, and the next round.                               *)

(* A command that goes elsewhere changes nothing but its place.            *)
LEMMA Moved ==
  \A q \in States, pc \in Places :
        LET t == [q EXCEPT !.pc = pc]
        IN  /\ t \in States /\ t.pc = pc /\ t.kind = q.kind /\ t.dev = q.dev
            /\ t.retry = q.retry /\ t.openMode = q.openMode /\ t.boot = q.boot
            /\ t.isRo = q.isRo
  BY DEF States

(* What Try and Retried leave: a command at work on a description that is  *)
(* in range and the first that may be of use, or one that has failed.      *)
Restarted(r) ==
    /\ r \in States /\ r.pc \in {"failed", "driver"}
    /\ DevRight(r) /\ TriedRight(r)
    /\ r.pc = "driver" => ModeRight(r, Descriptions[r.dev].file)

(* Going on to description d is right when those before it are of no use.  *)
LEMMA TryRight ==
  ASSUME NEW q \in States, q.kind \in Kinds, NEW d \in Nat \ {0},
         \A e \in 1..Len(Descriptions) : e < d => ~Usable(e, q.kind)
  PROVE  Restarted(Try(q, d))
<1> DEFINE r == Try(q, d)
<1>0. Len(Descriptions) \in Nat
  BY DescriptionsAssumption, LenProperties
<1>1. CASE d > Len(Descriptions)
  <2>1. r = [q EXCEPT !.pc = "failed", !.dev = 0]
    BY <1>1 DEF Try
  <2>2. r \in States /\ r.pc = "failed" /\ r.kind = q.kind
    <3>1. "failed" \in Places
      BY DEF Places, Idling
    <3> HIDE DEF r
    <3> QED BY <2>1, <3>1 DEF States
  <2>3. DevRight(r)
    BY <2>2 DEF DevRight, Idling
  <2>4. TriedRight(r)
    BY <1>0, <1>1, <2>2 DEF TriedRight
  <2> QED BY <2>2, <2>3, <2>4 DEF Restarted
<1>2. CASE d <= Len(Descriptions)
  <2>1. r = [q EXCEPT !.pc = "driver", !.dev = d, !.retry = 0,
                      !.openMode = FirstMode(q.kind), !.boot = FALSE, !.tries = 0]
    BY <1>0, <1>2 DEF Try
  <2>2. FirstMode(q.kind) \in Modes
    BY DEF FirstMode, Mode, Modes
  <2>3. /\ r \in States /\ r.pc = "driver" /\ r.kind = q.kind /\ r.dev = d
        /\ r.retry = 0 /\ r.openMode = FirstMode(q.kind)
    <3>1. "driver" \in Places
      BY DEF Places, Looking
    <3> HIDE DEF r
    <3> QED BY <2>1, <2>2, <3>1 DEF States
  <2>4. DevRight(r)
    BY <1>2, <2>3 DEF DevRight
  <2>5. TriedRight(r)
    BY <2>3 DEF TriedRight
  <2>6. ModeRight(r, Descriptions[r.dev].file)
    BY <2>3 DEF ModeRight, FirstMode, Mode, TryWritable, RO, RW
  <2> QED BY <2>3, <2>4, <2>5, <2>6 DEF Restarted
<1> QED BY <1>0, <1>1, <1>2

(* Giving a description up is right when it is of no use.                  *)
LEMMA NextRight ==
  ASSUME NEW q \in States, q.pc \notin Idling, DevRight(q), TriedRight(q),
         ~Usable(q.dev, q.kind)
  PROVE  Restarted(NextDescription(q))
<1>1. q.kind \in Kinds /\ q.dev \in Nat /\ q.dev + 1 \in Nat \ {0}
  BY DEF DevRight, States, Idling
<1>2. \A e \in 1..Len(Descriptions) : e < q.dev + 1 => ~Usable(e, q.kind)
  BY <1>1 DEF TriedRight, Idling
<1> QED BY <1>1, <1>2, TryRight DEF NextDescription

(* A second round is right when its access is, and when the description is *)
(* of no use to a command that is in its second round already.             *)
LEMMA RetriedRight ==
  ASSUME NEW q \in States, q.pc \notin Idling, DevRight(q), TriedRight(q),
         NEW mode \in Modes,
         q.retry = 0 => ModeRight([q EXCEPT !.retry = 1, !.openMode = mode],
                                  Descriptions[q.dev].file),
         q.retry # 0 => ~Usable(q.dev, q.kind)
  PROVE  Restarted(Retried(q, mode))
<1>1. CASE q.retry = 0
  <2> DEFINE r == Retried(q, mode)
  <2>1. r = [q EXCEPT !.pc = "driver", !.retry = 1, !.openMode = mode, !.tries = 0]
    BY <1>1 DEF Retried
  <2>2. /\ r \in States /\ r.pc = "driver" /\ r.kind = q.kind /\ r.dev = q.dev
        /\ r.retry = 1 /\ r.openMode = mode
    <3>1. "driver" \in Places
      BY DEF Places, Looking
    <3> HIDE DEF r
    <3> QED BY <2>1, <3>1 DEF States
  <2> HIDE DEF r
  <2>3. DevRight(r)
    BY <2>2 DEF DevRight, Idling
  <2>4. TriedRight(r)
    BY <2>2 DEF TriedRight, Idling
  <2>5. ModeRight(r, Descriptions[r.dev].file)
    <3> DEFINE s == [q EXCEPT !.retry = 1, !.openMode = mode]
    <3>1. s.kind = q.kind /\ s.retry = 1 /\ s.openMode = mode
      BY DEF States
    <3>2. ModeRight(s, Descriptions[q.dev].file)
      BY <1>1
    <3> HIDE DEF s
    <3> QED BY <2>2, <3>1, <3>2 DEF ModeRight
  <2>6. Restarted(r)
    BY <2>2, <2>3, <2>4, <2>5 DEF Restarted
  <2> QED BY <2>6 DEF r
<1>2. CASE q.retry # 0
  BY <1>2, NextRight DEF Retried
<1> QED BY <1>1, <1>2

(* A command that starts again, or has failed, is right if it has no       *)
(* stream and no lock left.                                                *)
LEMMA RestartedIsRight ==
  ASSUME NEW p \in Procs, NEW r, Restarted(r),
         UNCHANGED <<perm, asks, fits>>, proc'[p] = r,
         Stream(p)' = {}, \A f \in Files : \A l \in locks'[f] : l.proc # p
  PROVE  Right(p)'
<1>1. DevRight(proc[p])' /\ TriedRight(proc[p])'
  BY DEF Restarted, DevRight, TriedRight, Usable, May
<1>2. (proc[p].pc \notin Idling => ModeRight(proc[p], Dev(p).file))'
  BY DEF Restarted, ModeRight, Dev, Idling
<1>3. proc'[p].pc \in Idling \union Looking /\ proc'[p].pc \notin InDriver \union WithStream
  BY DEF Restarted, Idling, Looking, InDriver, WithStream
<1>4. StreamRight(p)'
  BY <1>3 DEF StreamRight, WithStream
<1>5. LockRight(p)'
  BY <1>3 DEF LockRight, Locked, InDriver
<1> QED BY <1>1, <1>2, <1>4, <1>5 DEF Right

-----------------------------------------------------------------------------
(* Parts of the steps.                                                     *)

(* A step is right if it touches its own command only and keeps that right. *)
LEMMA StepKeeps ==
  ASSUME OpeningRight, NEW p \in Procs, Typed', Compatible', OnlyMine(p), Right(p)'
  PROVE  OpeningRight'
<1>1. \A q \in Procs \ {p} : Right(q)'
  BY OthersKeep DEF OpeningRight
<1> QED BY <1>1 DEF OpeningRight

(* What is known of one command.                                           *)
LEMMA Own ==
  ASSUME OpeningRight, NEW p \in Procs
  PROVE  /\ proc[p] \in States /\ held[p] \subseteq Handles /\ Right(p)
         /\ proc[p].pc \in Places /\ proc[p].openMode \in Modes
         /\ proc[p].pc \notin Idling => /\ proc[p].dev \in 1..Len(Descriptions)
                                        /\ Dev(p).file \in Files
                                        /\ Dev(p).nolock \in BOOLEAN
                                        /\ Dev(p).tracks \in BOOLEAN
                                        /\ proc[p].kind \in Kinds
<1>1. proc[p] \in States /\ held[p] \subseteq Handles /\ Right(p)
  BY DEF OpeningRight, Typed
<1>2. proc[p].pc \in Places /\ proc[p].openMode \in Modes
  BY <1>1 DEF States
<1>3. proc[p].pc \notin Idling => proc[p].dev \in 1..Len(Descriptions) /\ proc[p].kind \in Kinds
  BY <1>1 DEF Right, DevRight, Idling
<1> QED BY <1>1, <1>2, <1>3, DescriptionTyped DEF Dev

(* A command that goes on with its description.                            *)
LEMMA GoesOn ==
  ASSUME OpeningRight, NEW p \in Procs, proc[p].pc \notin Idling,
         UNCHANGED <<perm, asks, fits>>,
         NEW r \in States, r.pc \notin Idling,
         r.kind = proc[p].kind, r.dev = proc[p].dev,
         r.retry = proc[p].retry, r.openMode = proc[p].openMode,
         proc' = [proc EXCEPT ![p] = r]
  PROVE  /\ EnvironmentTyped' /\ proc' \in [Procs -> States]
         /\ proc'[p] = r /\ \A q \in Procs \ {p} : proc'[q] = proc[q]
         /\ Dev(p)' = Dev(p)
         /\ DevRight(proc[p])' /\ TriedRight(proc[p])'
         /\ ModeRight(proc[p], Dev(p).file)'
<1>1. EnvironmentTyped' /\ proc' \in [Procs -> States]
  BY DEF OpeningRight, Typed, EnvironmentTyped
<1>2. proc'[p] = r /\ \A q \in Procs \ {p} : proc'[q] = proc[q]
  BY DEF OpeningRight, Typed
<1>3. Dev(p)' = Dev(p)
  BY <1>2 DEF Dev
<1>4. DevRight(proc[p]) /\ TriedRight(proc[p]) /\ ModeRight(proc[p], Dev(p).file)
  BY DEF OpeningRight, Right
<1>5. DevRight(proc[p])'
  BY <1>2, <1>4 DEF DevRight, Idling
<1>6. TriedRight(proc[p])'
  BY <1>2, <1>4 DEF TriedRight, Usable, May, Idling
<1>7. ModeRight(proc[p], Dev(p).file)'
  BY <1>2, <1>3, <1>4 DEF ModeRight
<1> QED BY <1>1, <1>2, <1>3, <1>5, <1>6, <1>7

(* A command without a lock has none, on whatever file.                    *)
LEMMA NoLocks ==
  ASSUME OpeningRight, NEW p \in Procs, ~Locked(p)
  PROVE  \A f \in Files : \A l \in locks[f] : l.proc # p
  BY DEF OpeningRight, Right, LockRight

(* Giving up the file of the description gives up all locks.               *)
LEMMA Unlocks ==
  ASSUME OpeningRight, NEW p \in Procs, proc[p].pc \notin Idling,
         locks' = Unlocked(p, Dev(p).file)
  PROVE  /\ locks' \in [Files -> SUBSET Locks]
         /\ \A f \in Files : locks'[f] \subseteq locks[f]
         /\ \A f \in Files : \A l \in locks'[f] : l.proc # p
         /\ \A f \in Files : \A l \in locks[f] : l.proc # p => l \in locks'[f]
<1>1. Dev(p).file \in Files
  BY Own
<1>2. locks \in [Files -> SUBSET Locks]
  BY DEF OpeningRight, Typed
<1>3. \A f \in Files : locks'[f] = IF f = Dev(p).file THEN {l \in locks[f] : l.proc # p}
                                                      ELSE locks[f]
  BY <1>1, <1>2 DEF Unlocked
<1>4. \A f \in Files : \A l \in locks[f] : l.proc = p => f = Dev(p).file
  BY DEF OpeningRight, Right, LockRight
<1>5. locks' \in [Files -> SUBSET Locks]
  BY <1>2, <1>3 DEF Unlocked
<1> QED BY <1>3, <1>4, <1>5

(* A command that starts again, or fails, keeping only lost descriptors.   *)
LEMMA StartsAgain ==
  ASSUME OpeningRight, NEW p \in Procs, UNCHANGED <<perm, asks, fits>>,
         NEW r, Restarted(r), proc' = [proc EXCEPT ![p] = r],
         NEW rest \in SUBSET Handles, \A h \in rest : h.via = "lost",
         held' = [held EXCEPT ![p] = rest],
         \/ ~Locked(p) /\ locks' = locks
         \/ proc[p].pc \notin Idling /\ locks' = Unlocked(p, Dev(p).file)
  PROVE  OpeningRight'
<1>1. /\ locks' \in [Files -> SUBSET Locks]
      /\ \A f \in Files : locks'[f] \subseteq locks[f]
      /\ \A f \in Files : \A l \in locks'[f] : l.proc # p
      /\ \A f \in Files : \A l \in locks[f] : l.proc # p => l \in locks'[f]
  <2>1. locks \in [Files -> SUBSET Locks]
    BY DEF OpeningRight, Typed
  <2> QED BY <2>1, NoLocks, Unlocks
<1>2. /\ proc'[p] = r /\ held'[p] = rest
      /\ \A q \in Procs \ {p} : proc'[q] = proc[q] /\ held'[q] = held[q]
      /\ proc' \in [Procs -> States] /\ held' \in [Procs -> SUBSET Handles]
  BY DEF OpeningRight, Typed, Restarted
<1>3. Typed'
  BY <1>1, <1>2 DEF OpeningRight, Typed, EnvironmentTyped
<1>4. Compatible'
  BY <1>1, FewerLocks DEF OpeningRight
<1>5. OnlyMine(p)
  BY <1>1, <1>2 DEF OnlyMine
<1>6. Stream(p)' = {}
  BY <1>2 DEF Stream
<1>7. Right(p)'
  BY <1>1, <1>2, <1>6, RestartedIsRight
<1> QED BY <1>3, <1>4, <1>5, <1>7, StepKeeps

(* What is left when a command closes its stream is lost descriptors.      *)
LEMMA LeftLost ==
  ASSUME OpeningRight, NEW p \in Procs
  PROVE  /\ held[p] \ Stream(p) \in SUBSET Handles
         /\ \A h \in held[p] \ Stream(p) : h.via = "lost"
         /\ held[p] \in SUBSET Handles
         /\ Stream(p) = {} => \A h \in held[p] : h.via = "lost"
         /\ held = [held EXCEPT ![p] = held[p]]
<1>1. held \in [Procs -> SUBSET Handles]
  BY DEF OpeningRight, Typed
<1> QED BY <1>1 DEF Stream
(* A command that goes on, with what it now holds and has locked.          *)
LEMMA WorksOn ==
  ASSUME OpeningRight, NEW p \in Procs, proc[p].pc \notin Idling,
         UNCHANGED <<perm, asks, fits>>,
         NEW r \in States, r.pc \notin Idling,
         r.kind = proc[p].kind, r.dev = proc[p].dev,
         r.retry = proc[p].retry, r.openMode = proc[p].openMode,
         proc' = [proc EXCEPT ![p] = r],
         NEW has \in SUBSET Handles, held' = [held EXCEPT ![p] = has],
         locks' \in [Files -> SUBSET Locks], Compatible',
         \A f \in Files : \A l \in Locks :
            l.proc # p => (l \in locks'[f] <=> l \in locks[f]),
         StreamRight(p)', LockRight(p)'
  PROVE  OpeningRight'
<1>1. /\ EnvironmentTyped' /\ proc' \in [Procs -> States]
      /\ proc'[p] = r /\ \A q \in Procs \ {p} : proc'[q] = proc[q]
      /\ DevRight(proc[p])' /\ TriedRight(proc[p])'
      /\ ModeRight(proc[p], Dev(p).file)'
  BY GoesOn
<1>2. held' \in [Procs -> SUBSET Handles] /\ \A q \in Procs \ {p} : held'[q] = held[q]
  BY DEF OpeningRight, Typed
<1>3. Typed'
  BY <1>1, <1>2 DEF Typed
<1>4. OnlyMine(p)
  BY <1>1, <1>2 DEF OnlyMine
<1>5. Right(p)'
  BY <1>1 DEF Right
<1> QED BY <1>3, <1>4, <1>5, StepKeeps

(* One that goes on with the descriptors and the locks it had.             *)
LEMMA PassesOn ==
  ASSUME OpeningRight, NEW p \in Procs, proc[p].pc \notin Idling,
         UNCHANGED <<perm, asks, fits, held, locks>>,
         NEW r \in States, r.pc \notin Idling,
         r.kind = proc[p].kind, r.dev = proc[p].dev,
         r.retry = proc[p].retry, r.openMode = proc[p].openMode,
         proc' = [proc EXCEPT ![p] = r],
         \/ r.pc = proc[p].pc /\ proc[p].pc = "lock"
         \/ proc[p].pc = "driver" /\ r.pc = "plain"
         \/ proc[p].pc = "probe" /\ r.pc = "boot"
         \/ proc[p].pc = "boot" /\ r.pc = "geometry"
         \/ proc[p].pc = "geometry" /\ r.pc = "working" /\ (r.isRo <=> r.openMode = RO)
  PROVE  OpeningRight'
<1>1. /\ held = [held EXCEPT ![p] = held[p]] /\ held[p] \in SUBSET Handles
      /\ locks \in [Files -> SUBSET Locks] /\ Compatible
      /\ proc'[p] = r
  BY LeftLost DEF OpeningRight, Typed
<1>2. Dev(p)' = Dev(p) /\ Stream(p)' = Stream(p) /\ Xdf(p)' = Xdf(p)
  BY <1>1 DEF Dev, Stream, Xdf
<1>3. StreamRight(p) /\ LockRight(p)
  BY DEF OpeningRight, Right
<1>4. StreamRight(p)'
  BY <1>1, <1>2, <1>3 DEF StreamRight, Holding, May, Idling, Looking, InDriver, WithStream
<1>5. Locked(p)' <=> Locked(p)
  BY <1>1, <1>2 DEF Locked, WithStream
<1>6. LockRight(p)'
  BY <1>1, <1>2, <1>3, <1>5 DEF LockRight
<1>7. Compatible'
  BY <1>1 DEF Compatible
<1> QED BY <1>1, <1>4, <1>6, <1>7, WorksOn
-----------------------------------------------------------------------------
(* The steps, one after the other.                                         *)

(* A command that waits for a lock.                                        *)
LEMMA WaitRight ==
  ASSUME OpeningRight, NEW p \in Procs, Wait(p)
  PROVE  OpeningRight'
<1> DEFINE n == IF proc[p].tries < LockTries THEN proc[p].tries + 1 ELSE proc[p].tries
           r == [proc[p] EXCEPT !.tries = n]
<1>1. proc[p] \in States /\ proc[p].pc = "lock"
  BY Own DEF Wait, Busy
<1>2. r \in States /\ r.pc = "lock" /\ r.kind = proc[p].kind /\ r.dev = proc[p].dev
      /\ r.retry = proc[p].retry /\ r.openMode = proc[p].openMode
  <2>1. n \in Nat
    BY <1>1 DEF States
  <2> HIDE DEF n
  <2> QED BY <1>1, <2>1 DEF States
<1>3. proc' = [proc EXCEPT ![p] = r]
  BY <1>1 DEF Wait, OpeningRight, Typed
<1> HIDE DEF r
<1>4. UNCHANGED <<perm, asks, fits, held, locks>>
  BY DEF Wait
<1> QED BY <1>1, <1>2, <1>3, <1>4, PassesOn DEF Idling

(* A step that only moves on, to a place where the same holds.             *)
LEMMA GotoRight ==
  ASSUME OpeningRight, NEW p \in Procs, NEW pc \in Places,
         UNCHANGED <<perm, asks, fits, held, locks>>, Goto(p, pc),
         \/ proc[p].pc = "driver" /\ pc = "plain"
         \/ proc[p].pc = "probe" /\ pc = "boot"
  PROVE  OpeningRight'
<1> DEFINE r == [proc[p] EXCEPT !.pc = pc]
<1>1. proc[p] \in States
  BY Own
<1>2. r \in States /\ r.pc = pc /\ r.kind = proc[p].kind /\ r.dev = proc[p].dev
      /\ r.retry = proc[p].retry /\ r.openMode = proc[p].openMode
  BY <1>1, Moved
<1>3. proc' = [proc EXCEPT ![p] = r]
  BY DEF Goto
<1> HIDE DEF r
<1> QED BY <1>2, <1>3, PassesOn DEF Idling

(* The descriptor for an XDF disk is opened.                               *)
LEMMA OpenXdfRight ==
  ASSUME OpeningRight, NEW p \in Procs, OpenXdf(p)
  PROVE  OpeningRight'
<1> USE DEF Idling
<1>1. /\ proc[p].pc = "driver" /\ proc[p] \in States /\ held[p] \in SUBSET Handles
      /\ Dev(p).file \in Files /\ locks \in [Files -> SUBSET Locks] /\ Compatible
      /\ Stream(p) = {} /\ held \in [Procs -> SUBSET Handles]
  BY Own DEF OpenXdf, OpeningRight, Typed, Right, StreamRight, Looking
<1>2. UNCHANGED <<perm, asks, fits, locks>>
  BY DEF OpenXdf
<1>3. CASE ~May(Dev(p).file, RW)
  <2>1. Goto(p, "plain") /\ UNCHANGED held /\ "plain" \in Places
    BY <1>3 DEF OpenXdf, Places, Looking
  <2> QED BY <1>1, <1>2, <2>1, GotoRight
<1>4. CASE May(Dev(p).file, RW)
  <2> DEFINE h == [file |-> Dev(p).file, mode |-> RW, via |-> "xdf"]
             has == held[p] \union {h}
             r == [proc[p] EXCEPT !.pc = "lock"]
  <2>1. h \in Handles /\ has \in SUBSET Handles
    BY <1>1 DEF Handles, Modes
  <2>2. proc' = [proc EXCEPT ![p] = r] /\ held' = [held EXCEPT ![p] = has]
    BY <1>4 DEF OpenXdf, Goto
  <2>3. "lock" \in Places
    BY DEF Places, InDriver
  <2>4. r \in States /\ r.pc = "lock" /\ r.kind = proc[p].kind /\ r.dev = proc[p].dev
        /\ r.retry = proc[p].retry /\ r.openMode = proc[p].openMode
    BY <1>1, <2>3, Moved
  <2> HIDE DEF r
  <2>5. proc'[p] = r /\ held'[p] = has /\ Dev(p)' = Dev(p)
    <3>1. proc'[p] = r
      BY <2>2 DEF OpeningRight, Typed
    <3> QED BY <1>1, <2>2, <2>4, <3>1 DEF Dev
  <2>6. Stream(p)' = {h} /\ Holding(h, r, Dev(p).file)'
    BY <1>1, <1>2, <1>4, <2>5 DEF Stream, Holding, May
  <2>7. StreamRight(p)'
    BY <2>1, <2>4, <2>5, <2>6 DEF StreamRight, Looking, InDriver, WithStream, Holding, May
  <2>8. LockRight(p)'
    <3>1. ~Locked(p) /\ ~Locked(p)'
      BY <1>1, <2>4, <2>5 DEF Locked, WithStream
    <3> QED BY <1>2, <3>1, NoLocks DEF LockRight
  <2>9. Compatible'
    BY <1>1, <1>2 DEF Compatible
  <2> QED BY <1>1, <1>2, <2>1, <2>2, <2>4, <2>7, <2>8, <2>9, WorksOn
<1> QED BY <1>3, <1>4
(* What is known of a command's description, files and access.             *)
AtWork(q) ==
    /\ q \in States /\ q.pc \notin Idling
    /\ DevRight(q) /\ TriedRight(q)
    /\ ModeRight(q, Descriptions[q.dev].file)

(* It is known of every command that is at work on one.                    *)
LEMMA AtWorkIsRight ==
  ASSUME OpeningRight, NEW p \in Procs, proc[p].pc \notin Idling
  PROVE  AtWork(proc[p]) /\ Dev(p) = Descriptions[proc[p].dev]
  BY DEF AtWork, OpeningRight, Typed, Right, Dev

(* Another round with another access.                                      *)
LEMMA ModeChanged ==
  ASSUME NEW q \in States, NEW mode \in Modes, NEW file,
         \/ q.kind = "label" /\ mode = RO /\ perm[file] # "rw"
         \/ q.kind = "read" /\ mode = RW /\ asks[file] = "write"
  PROVE  ModeRight([q EXCEPT !.retry = 1, !.openMode = mode], file)
<1> DEFINE r == [q EXCEPT !.retry = 1, !.openMode = mode]
<1>1. r.kind = q.kind /\ r.retry = 1 /\ r.openMode = mode
  BY DEF States
<1> HIDE DEF r
<1>2. ModeRight(r, file)
  BY <1>1 DEF ModeRight
<1> QED BY <1>2 DEF r

(* The file may not be opened with the access asked for.                   *)
LEMMA DeniedRight ==
  ASSUME EnvironmentTyped, NEW q, AtWork(q), ~May(Descriptions[q.dev].file, q.openMode)
  PROVE  Restarted(OpenFailed(q, TRUE))
<1> DEFINE file == Descriptions[q.dev].file
<1>1. /\ q \in States /\ q.pc \notin Idling /\ DevRight(q) /\ TriedRight(q)
      /\ ModeRight(q, file) /\ q.kind \in Kinds
      /\ q.retry \in {0, 1} /\ q.openMode \in Modes
  BY DEF AtWork, DevRight, Idling, States
<1>2. file \in Files /\ perm[file] \in {"rw", "ro", "none"}
  <2>1. q.dev \in 1..Len(Descriptions)
    BY DEF AtWork, DevRight
  <2> QED BY <2>1, DescriptionTyped DEF EnvironmentTyped
<1>3. CASE q.kind = "label"
  <2>1. q.retry = 0 => ModeRight([q EXCEPT !.retry = 1, !.openMode = RO], file)
    <3>1. q.retry = 0 => perm[file] # "rw"
      BY <1>1, <1>3 DEF ModeRight, May
    <3> QED BY <1>1, <1>3, <3>1, ModeChanged DEF Modes
  <2>2. q.retry # 0 => ~Usable(q.dev, q.kind)
    BY <1>1, <1>3 DEF ModeRight, Usable, Mode
  <2>3. Restarted(Retried(q, RO))
    BY <1>1, <2>1, <2>2, RetriedRight DEF Modes
  <2> QED BY <1>3, <2>3 DEF OpenFailed, TryWritable
<1>4. CASE q.kind \in {"read", "write"}
  <2>1. ~Usable(q.dev, q.kind)
    BY <1>1, <1>2, <1>4 DEF ModeRight, Usable, Mode, May, RO, RW
  <2>2. Restarted(NextDescription(q))
    BY <1>1, <2>1, NextRight
  <2> QED BY <1>4, <2>2 DEF OpenFailed, TryWritable
<1> QED BY <1>1, <1>3, <1>4 DEF Kinds

(* The drive does not take the geometry through this descriptor.           *)
LEMMA RefusedRight ==
  ASSUME EnvironmentTyped, NEW q, AtWork(q), NeedsGeometry(Descriptions[q.dev]),
         ~Settable(Descriptions[q.dev].file, q.openMode), NEW denied \in BOOLEAN,
         asks[Descriptions[q.dev].file] = "write" \/ ~denied
  PROVE  Restarted(OpenFailed(q, denied))
<1> DEFINE file == Descriptions[q.dev].file
<1>1. /\ q \in States /\ q.pc \notin Idling /\ DevRight(q) /\ TriedRight(q)
      /\ ModeRight(q, file) /\ q.kind \in Kinds
      /\ q.retry \in {0, 1} /\ q.openMode \in Modes
  BY DEF AtWork, DevRight, Idling, States
<1>2. ~Usable(q.dev, q.kind)
  BY <1>1 DEF Usable, Settable, ModeRight, Modes, Kinds
<1>3. q.kind = "label" /\ asks[file] = "write" => q.retry # 0
  BY <1>1 DEF ModeRight, Settable
<1>4. Restarted(NextDescription(q))
  BY <1>1, <1>2, NextRight
<1>5. OpenFailed(q, denied) = NextDescription(q)
  BY <1>3 DEF OpenFailed, Retried, TryWritable
<1> QED BY <1>4, <1>5

(* Setting the geometry has failed after the boot sector was read.         *)
LEMMA UnsetRight ==
  ASSUME EnvironmentTyped, NEW q, AtWork(q),
         ~Settable(Descriptions[q.dev].file, q.openMode)
  PROVE  Restarted(IF asks[Descriptions[q.dev].file] = "write" THEN Retried(q, RW)
                   ELSE NextDescription(q))
<1> DEFINE file == Descriptions[q.dev].file
<1>1. /\ q \in States /\ q.pc \notin Idling /\ DevRight(q) /\ TriedRight(q)
      /\ ModeRight(q, file) /\ q.kind \in Kinds
      /\ q.retry \in {0, 1} /\ q.openMode \in Modes
  BY DEF AtWork, DevRight, Idling, States
<1>2. CASE asks[file] = "write"
  <2>1. q.openMode = RO
    BY <1>1, <1>2 DEF Settable, Modes
  <2>2. q.retry = 0 => ModeRight([q EXCEPT !.retry = 1, !.openMode = RW], file)
    <3>1. q.retry = 0 => q.kind = "read"
      BY <1>1, <2>1 DEF ModeRight, Kinds, RO, RW
    <3> QED BY <1>1, <1>2, <3>1, ModeChanged DEF Modes
  <2>3. q.retry # 0 => ~Usable(q.dev, q.kind)
    BY <1>1, <1>2, <2>1 DEF ModeRight, Usable, Kinds, RO, RW
  <2>4. Restarted(Retried(q, RW))
    BY <1>1, <2>2, <2>3, RetriedRight DEF Modes
  <2> QED BY <1>2, <2>4
<1>3. CASE asks[file] # "write"
  <2>1. ~Usable(q.dev, q.kind)
    BY <1>3 DEF Usable, Settable
  <2>2. Restarted(NextDescription(q))
    BY <1>1, <2>1, NextRight
  <2> QED BY <1>3, <2>2
<1> QED BY <1>2, <1>3

(* The lock of an XDF disk is taken.                                       *)
LEMMA LockXdfRight ==
  ASSUME OpeningRight, NEW p \in Procs, LockXdf(p)
  PROVE  OpeningRight'
<1> USE DEF Idling
<1> DEFINE file == Dev(p).file
           mine == [proc |-> p, mode |-> proc[p].openMode]
           r == [proc[p] EXCEPT !.pc = "probe"]
<1>1. /\ proc[p].pc = "lock" /\ proc[p] \in States /\ proc[p].openMode \in Modes
      /\ file \in Files /\ locks \in [Files -> SUBSET Locks] /\ Compatible
      /\ UNCHANGED <<perm, asks, fits, held>>
  BY Own DEF LockXdf, OpeningRight, Typed
<1>2. held = [held EXCEPT ![p] = held[p]] /\ held[p] \in SUBSET Handles
  BY LeftLost
<1>3. mine \in Locks
  BY <1>1 DEF Locks
<1>4. \A f \in Files : \A l \in locks[f] : l.proc # p
  BY <1>1, NoLocks DEF Locked, WithStream
<1>5. \/ Dev(p).nolock /\ locks' = locks
      \/ /\ ~Dev(p).nolock /\ ~Conflict(p, file, proc[p].openMode)
         /\ locks' = [locks EXCEPT ![file] = @ \union {mine}]
  BY <1>1, Own DEF LockXdf, LockMode
<1>6. /\ locks' \in [Files -> SUBSET Locks]
      /\ \A f \in Files : \A l \in locks'[f] :
            l \in locks[f] \/ (l = mine /\ f = file /\ ~Conflict(p, file, proc[p].openMode))
      /\ \A f \in Files : locks[f] \subseteq locks'[f]
      /\ ~Dev(p).nolock => mine \in locks'[file]
  BY <1>1, <1>3, <1>5
<1>7. Compatible'
  <2> SUFFICES ASSUME NEW f \in Files, NEW l \in locks'[f], NEW m \in locks'[f],
                      l.proc # m.proc
               PROVE  l.mode = RO /\ m.mode = RO
    BY DEF Compatible
  <2>1. l \in Locks /\ m \in Locks /\ mine.proc = p /\ mine.mode = proc[p].openMode
    BY <1>6
  <2> HIDE DEF mine
  <2>2. CASE l \in locks[f] /\ m \in locks[f]
    BY <1>1, <2>2 DEF Compatible
  <2>3. CASE l = mine /\ m \in locks[f] /\ f = file /\ ~Conflict(p, file, proc[p].openMode)
    BY <1>1, <2>1, <2>3 DEF Conflict, Locks, Modes
  <2>4. CASE m = mine /\ l \in locks[f] /\ f = file /\ ~Conflict(p, file, proc[p].openMode)
    BY <1>1, <2>1, <2>4 DEF Conflict, Locks, Modes
  <2> QED BY <1>6, <2>2, <2>3, <2>4
<1>8. proc' = [proc EXCEPT ![p] = r] /\ "probe" \in Places
  BY DEF LockXdf, Goto, Places, InDriver
<1>9. r \in States /\ r.pc = "probe" /\ r.kind = proc[p].kind /\ r.dev = proc[p].dev
      /\ r.retry = proc[p].retry /\ r.openMode = proc[p].openMode
  BY <1>1, <1>8, Moved
<1> HIDE DEF r
<1>10. proc'[p] = r /\ Dev(p)' = Dev(p) /\ Stream(p)' = Stream(p) /\ Xdf(p)' = Xdf(p)
  <2>1. proc'[p] = r
    BY <1>8 DEF OpeningRight, Typed
  <2> QED BY <1>1, <1>9, <2>1 DEF Dev, Stream, Xdf
<1>11. StreamRight(p) /\ LockRight(p)
  BY DEF OpeningRight, Right
<1>12. StreamRight(p)'
  BY <1>1, <1>9, <1>10, <1>11 DEF StreamRight, Holding, May, Looking, InDriver, WithStream
<1>13. Locked(p)'
  <2>1. Xdf(p) # {}
    BY <1>1, <1>11 DEF StreamRight, InDriver, Stream, Xdf
  <2> QED BY <1>9, <1>10, <2>1 DEF Locked
<1>14. LockRight(p)'
  <2>1. mine.proc = p /\ mine.mode = proc'[p].openMode
        /\ mine = [proc |-> p, mode |-> proc'[p].openMode]
    BY <1>9, <1>10
  <2> HIDE DEF mine
  <2>2. \A f \in Files : \A l \in locks'[f] :
           l.proc = p => f = Dev(p)'.file /\ l.mode = proc'[p].openMode
    BY <1>4, <1>6, <1>10, <2>1
  <2> QED BY <1>6, <1>10, <1>13, <2>1, <2>2 DEF LockRight
<1>15. \A f \in Files : \A l \in Locks :
          l.proc # p => (l \in locks'[f] <=> l \in locks[f])
  <2>1. mine.proc = p
    OBVIOUS
  <2> HIDE DEF mine
  <2> QED BY <1>6, <2>1
<1> QED BY <1>1, <1>2, <1>6, <1>7, <1>8, <1>9, <1>12, <1>14, <1>15, WorksOn
(* The XDF driver gives the disk up.                                       *)
LEMMA XdfGoneRight ==
  ASSUME OpeningRight, NEW p \in Procs, proc[p].pc \in InDriver, XdfGone(p)
  PROVE  OpeningRight'
<1> USE DEF Idling
<1> DEFINE has == held[p] \ Xdf(p)
           r == [proc[p] EXCEPT !.pc = "plain"]
<1>1. /\ proc[p].pc \notin Idling /\ proc[p] \in States
      /\ held \in [Procs -> SUBSET Handles] /\ Compatible
      /\ UNCHANGED <<perm, asks, fits>>
      /\ held' = [held EXCEPT ![p] = has] /\ has \in SUBSET Handles
      /\ locks' = Unlocked(p, Dev(p).file)
  BY Own DEF XdfGone, OpeningRight, Typed, InDriver
<1>2. /\ locks' \in [Files -> SUBSET Locks]
      /\ \A f \in Files : locks'[f] \subseteq locks[f]
      /\ \A f \in Files : \A l \in locks'[f] : l.proc # p
      /\ \A f \in Files : \A l \in Locks : l.proc # p => (l \in locks'[f] <=> l \in locks[f])
  BY <1>1, Unlocks
<1>3. proc' = [proc EXCEPT ![p] = r] /\ "plain" \in Places
  BY DEF XdfGone, Goto, Places, Looking
<1>4. r \in States /\ r.pc = "plain" /\ r.kind = proc[p].kind /\ r.dev = proc[p].dev
      /\ r.retry = proc[p].retry /\ r.openMode = proc[p].openMode
  BY <1>1, <1>3, Moved
<1> HIDE DEF r
<1>5. proc'[p] = r /\ held'[p] = has
  BY <1>1, <1>3 DEF OpeningRight, Typed
<1>6. \E h \in Handles : Stream(p) = {h} /\ h.via = "xdf"
  BY DEF OpeningRight, Right, StreamRight
<1>7. Stream(p)' = {}
  BY <1>5, <1>6 DEF Stream, Xdf
<1>8. StreamRight(p)'
  BY <1>4, <1>5, <1>7 DEF StreamRight, InDriver, WithStream
<1>9. LockRight(p)'
  BY <1>2, <1>4, <1>5 DEF LockRight, Locked, WithStream
<1>10. Compatible'
  BY <1>1, <1>2, FewerLocks
<1> QED BY <1>1, <1>2, <1>3, <1>4, <1>8, <1>9, <1>10, WorksOn

(* The file is opened as any other.                                        *)
LEMMA OpenPlainRight ==
  ASSUME OpeningRight, NEW p \in Procs, OpenPlain(p)
  PROVE  OpeningRight'
<1> DEFINE q == proc[p]
           file == Dev(p).file
           handle == [file |-> file, mode |-> q.openMode, via |-> "plain"]
           lost == [handle EXCEPT !.via = "lost"]
           refused == NeedsGeometry(Dev(p)) /\ ~Settable(file, q.openMode)
<1>1. /\ q.pc \in Looking /\ q.pc \notin Idling /\ q \in States /\ q.openMode \in Modes
      /\ file \in Files /\ EnvironmentTyped
      /\ UNCHANGED <<perm, asks, fits, locks>>
  BY Own DEF OpenPlain, Idling, Looking, OpeningRight, Typed
<1>2. AtWork(q) /\ Dev(p) = Descriptions[q.dev]
  BY <1>1, AtWorkIsRight
<1>3. /\ ~Locked(p) /\ Stream(p) = {} /\ held[p] \in SUBSET Handles
      /\ \A h \in held[p] : h.via = "lost"
      /\ held = [held EXCEPT ![p] = held[p]] /\ Compatible
      /\ locks \in [Files -> SUBSET Locks]
  <2>1. Stream(p) = {}
    BY <1>1 DEF OpeningRight, Right, StreamRight
  <2>2. ~Locked(p)
    BY <1>1 DEF Locked, Looking, WithStream
  <2> QED BY <2>1, <2>2, LeftLost DEF OpeningRight, Typed
<1>4. \/ /\ ~May(file, q.openMode)
         /\ proc' = [proc EXCEPT ![p] = OpenFailed(q, TRUE)] /\ held' = held
      \/ /\ May(file, q.openMode) /\ ~refused
         /\ held' = [held EXCEPT ![p] = @ \union {handle}] /\ Goto(p, "boot")
      \/ /\ refused /\ asks[file] = "write"
         /\ held' = [held EXCEPT ![p] = @ \union {lost}]
         /\ \E denied \in BOOLEAN : proc' = [proc EXCEPT ![p] = OpenFailed(q, denied)]
      \/ /\ refused
         /\ proc' = [proc EXCEPT ![p] = OpenFailed(q, FALSE)] /\ held' = held
  BY DEF OpenPlain
<1>5. CASE ~May(file, q.openMode) /\ held' = held
           /\ proc' = [proc EXCEPT ![p] = OpenFailed(q, TRUE)]
  <2>1. Restarted(OpenFailed(q, TRUE))
    BY <1>1, <1>2, <1>5, DeniedRight
  <2> QED BY <1>1, <1>3, <1>5, <2>1, StartsAgain
<1>6. CASE May(file, q.openMode) /\ ~refused /\ Goto(p, "boot")
           /\ held' = [held EXCEPT ![p] = @ \union {handle}]
  <2> DEFINE has == held[p] \union {handle}
             r == [q EXCEPT !.pc = "boot"]
  <2>1. handle \in Handles /\ has \in SUBSET Handles
    BY <1>1, <1>3 DEF Handles
  <2>2. proc' = [proc EXCEPT ![p] = r] /\ held' = [held EXCEPT ![p] = has]
        /\ "boot" \in Places
    BY <1>6 DEF Goto, Places, WithStream
  <2>3. r \in States /\ r.pc = "boot" /\ r.kind = q.kind /\ r.dev = q.dev
        /\ r.retry = q.retry /\ r.openMode = q.openMode
    BY <1>1, <2>2, Moved
  <2> HIDE DEF r
  <2>4. proc'[p] = r /\ held'[p] = has /\ Dev(p)' = Dev(p)
    <3>1. proc'[p] = r /\ held'[p] = has
      BY <2>2 DEF OpeningRight, Typed
    <3> QED BY <2>3, <3>1 DEF Dev
  <2>5. PICK h \in Handles : h = handle
    BY <2>1
  <2>6. StreamRight(p)'
    <3>1. Stream(p)' = {h} /\ Holding(h, proc[p], Dev(p).file)'
      BY <1>1, <1>3, <1>6, <2>3, <2>4, <2>5 DEF Stream, Holding, May
    <3> QED BY <2>3, <2>4, <3>1
            DEF StreamRight, Idling, Looking, InDriver, WithStream, Holding, May
  <2>7. LockRight(p)'
    <3>1. Xdf(p)' = {}
      BY <1>3, <2>4 DEF Xdf
    <3>2. \A f \in Files : \A l \in locks'[f] : l.proc # p
      BY <1>1, <1>3, NoLocks
    <3> QED BY <3>1, <3>2 DEF LockRight, Locked
  <2>8. Compatible'
    BY <1>1, <1>3 DEF Compatible
  <2>9. r.pc \notin Idling
    BY <2>3 DEF Idling
  <2> QED BY <1>1, <1>3, <2>1, <2>2, <2>3, <2>6, <2>7, <2>8, <2>9, WorksOn
<1>7. CASE refused /\ asks[file] = "write"
           /\ held' = [held EXCEPT ![p] = @ \union {lost}]
           /\ \E denied \in BOOLEAN : proc' = [proc EXCEPT ![p] = OpenFailed(q, denied)]
  <2> DEFINE has == held[p] \union {lost}
  <2>1. lost = [file |-> file, mode |-> q.openMode, via |-> "lost"]
    OBVIOUS
  <2>2. lost \in Handles /\ lost.via = "lost"
    BY <1>1, <2>1 DEF Handles
  <2> HIDE DEF lost
  <2>3. has \in SUBSET Handles /\ \A h \in has : h.via = "lost"
    BY <1>3, <2>2
  <2>4. PICK denied \in BOOLEAN : proc' = [proc EXCEPT ![p] = OpenFailed(q, denied)]
    BY <1>7
  <2>5. Restarted(OpenFailed(q, denied))
    BY <1>1, <1>2, <1>7, RefusedRight
  <2> QED BY <1>1, <1>3, <1>7, <2>3, <2>4, <2>5, StartsAgain
<1>8. CASE refused /\ held' = held
           /\ proc' = [proc EXCEPT ![p] = OpenFailed(q, FALSE)]
  <2>1. Restarted(OpenFailed(q, FALSE))
    BY <1>1, <1>2, <1>8, RefusedRight
  <2> QED BY <1>1, <1>3, <1>8, <2>1, StartsAgain
<1> QED BY <1>4, <1>5, <1>6, <1>7, <1>8
(* The boot sector fits, or it does not.                                   *)
LEMMA ReadBootRight ==
  ASSUME OpeningRight, NEW p \in Procs, ReadBoot(p)
  PROVE  OpeningRight'
<1> DEFINE q == proc[p]
           rest == held[p] \ Stream(p)
<1>1. /\ q.pc = "boot" /\ q.pc \notin Idling /\ q \in States
      /\ UNCHANGED <<perm, asks, fits>> /\ proc \in [Procs -> States]
  BY Own DEF ReadBoot, Idling, OpeningRight, Typed
<1>2. CASE q.boot \/ fits[q.dev]
  <2> DEFINE r == [q EXCEPT !.pc = "geometry", !.boot = TRUE]
  <2>1. proc' = [proc EXCEPT ![p] = r] /\ UNCHANGED <<held, locks>>
    BY <1>1, <1>2 DEF ReadBoot
  <2>2. "geometry" \in Places
    BY DEF Places, WithStream
  <2>3. r \in States /\ r.pc = "geometry" /\ r.kind = q.kind /\ r.dev = q.dev
        /\ r.retry = q.retry /\ r.openMode = q.openMode
    BY <1>1, <2>2 DEF States
  <2> HIDE DEF r
  <2> QED BY <1>1, <2>1, <2>3, PassesOn DEF Idling
<1>3. CASE ~(q.boot \/ fits[q.dev])
  <2>1. /\ proc' = [proc EXCEPT ![p] = NextDescription(q)]
        /\ held' = [held EXCEPT ![p] = rest] /\ locks' = Unlocked(p, Dev(p).file)
    BY <1>3 DEF ReadBoot, Free, Freed
  <2>2. ~Usable(q.dev, q.kind)
    BY <1>3 DEF Usable
  <2>3. Restarted(NextDescription(q))
    BY <1>1, <2>2, AtWorkIsRight, NextRight DEF AtWork
  <2>4. rest \in SUBSET Handles /\ \A h \in rest : h.via = "lost"
    BY LeftLost
  <2> QED BY <1>1, <2>1, <2>3, <2>4, StartsAgain
<1> QED BY <1>2, <1>3

(* The geometry is set, or it is not.                                      *)
LEMMA SetGeometryRight ==
  ASSUME OpeningRight, NEW p \in Procs, SetGeometry(p)
  PROVE  OpeningRight'
<1> DEFINE q == proc[p]
           file == Dev(p).file
           rest == held[p] \ Stream(p)
           settable == (\E h \in Stream(p) : h.via = "xdf") \/ Settable(file, q.openMode)
<1>1. /\ q.pc = "geometry" /\ q.pc \notin Idling /\ q \in States
      /\ UNCHANGED <<perm, asks, fits>> /\ proc \in [Procs -> States]
      /\ EnvironmentTyped
  BY Own DEF SetGeometry, Idling, OpeningRight, Typed
<1>2. CASE settable
  <2> DEFINE ro == q.openMode = RO
             r == [q EXCEPT !.pc = "working", !.isRo = ro]
  <2>1. proc' = [proc EXCEPT ![p] = r] /\ UNCHANGED <<held, locks>>
    BY <1>1, <1>2 DEF SetGeometry
  <2>2. "working" \in Places /\ ro \in BOOLEAN
    BY DEF Places, WithStream
  <2>3. r \in States /\ r.pc = "working" /\ r.kind = q.kind /\ r.dev = q.dev
        /\ r.retry = q.retry /\ r.openMode = q.openMode /\ (r.isRo <=> r.openMode = RO)
    <3>1. /\ r.pc = "working" /\ r.kind = q.kind /\ r.dev = q.dev
          /\ r.retry = q.retry /\ r.openMode = q.openMode /\ (r.isRo <=> ro)
      BY <1>1 DEF States
    <3>2. r \in States
      <4> HIDE DEF ro
      <4> QED BY <1>1, <2>2 DEF States
    <3> QED BY <3>1, <3>2
  <2> HIDE DEF r
  <2> QED BY <1>1, <2>1, <2>3, PassesOn DEF Idling
<1>3. CASE ~settable
  <2> DEFINE r == IF asks[file] = "write" THEN Retried(q, RW) ELSE NextDescription(q)
  <2>1. /\ proc' = [proc EXCEPT ![p] = r]
        /\ held' = [held EXCEPT ![p] = rest] /\ locks' = Unlocked(p, file)
    BY <1>3 DEF SetGeometry, Free, Freed
  <2>2. AtWork(q) /\ Dev(p) = Descriptions[q.dev]
    BY <1>1, AtWorkIsRight
  <2>3. Restarted(r)
    BY <1>1, <1>3, <2>2, UnsetRight
  <2>4. rest \in SUBSET Handles /\ \A h \in rest : h.via = "lost"
    BY LeftLost
  <2> HIDE DEF r
  <2> QED BY <1>1, <2>1, <2>3, <2>4, StartsAgain
<1> QED BY <1>2, <1>3

(* What an idle command is like.                                           *)
LEMMA IdleTyped == Idle \in States /\ Idle.pc = "idle"
<1>1. "idle" \in Places /\ None \in AllKinds /\ RO \in Modes
  BY DEF Places, Idling, AllKinds, Modes
<1> QED BY <1>1 DEF Idle, States

(* A command begins with the first description.                            *)
LEMMA StartRight ==
  ASSUME OpeningRight, NEW p \in Procs, NEW kind \in Kinds, Start(p, kind)
  PROVE  OpeningRight'
<1> DEFINE q == [Idle EXCEPT !.kind = kind]
<1>1. proc[p].pc = "idle" /\ UNCHANGED <<perm, asks, fits, held, locks>>
      /\ proc' = [proc EXCEPT ![p] = Try(q, 1)]
  BY DEF Start
<1>2. kind \in AllKinds
  BY DEF AllKinds
<1>3. q.kind = kind
  BY DEF Idle
<1>4. q \in States
  BY <1>2, IdleTyped DEF States
<1> HIDE DEF q
<1>5. Restarted(Try(q, 1))
  BY <1>3, <1>4, TryRight
<1>6. ~Locked(p) /\ Stream(p) = {}
  BY <1>1 DEF Locked, WithStream, OpeningRight, Right, StreamRight, Idling
<1>7. /\ held = [held EXCEPT ![p] = held[p]] /\ held[p] \in SUBSET Handles
      /\ \A h \in held[p] : h.via = "lost"
  BY <1>6, LeftLost
<1> QED BY <1>1, <1>5, <1>6, <1>7, StartsAgain

(* A command that ends leaves nothing.                                     *)
LEMMA FinishRight ==
  ASSUME OpeningRight, NEW p \in Procs, Finish(p)
  PROVE  OpeningRight'
<1>1. /\ UNCHANGED <<perm, asks, fits>> /\ proc' = [proc EXCEPT ![p] = Idle]
      /\ held' = [held EXCEPT ![p] = {}]
      /\ locks' = [f \in Files |-> {l \in locks[f] : l.proc # p}]
  BY DEF Finish
<1>2. Idle \in States /\ Idle.pc = "idle"
  BY IdleTyped
<1>3. /\ proc'[p] = Idle /\ held'[p] = {}
      /\ \A q \in Procs \ {p} : proc'[q] = proc[q] /\ held'[q] = held[q]
      /\ \A f \in Files : locks'[f] = {l \in locks[f] : l.proc # p}
  BY <1>1 DEF OpeningRight, Typed
<1>4. Typed'
  BY <1>1, <1>2 DEF OpeningRight, Typed, EnvironmentTyped
<1>5. Compatible'
  BY <1>3, FewerLocks DEF OpeningRight
<1>6. OnlyMine(p)
  BY <1>1, <1>3 DEF OnlyMine
<1>7. Right(p)'
  <2>1. DevRight(proc[p])' /\ TriedRight(proc[p])' /\ proc'[p].pc \in Idling
    BY <1>2, <1>3 DEF DevRight, TriedRight, Idling
  <2>2. StreamRight(p)'
    BY <1>2, <1>3 DEF StreamRight, Stream, InDriver, WithStream
  <2>3. LockRight(p)'
    BY <1>2, <1>3 DEF LockRight, Locked, WithStream
  <2> QED BY <2>1, <2>2, <2>3 DEF Right
<1> QED BY <1>4, <1>5, <1>6, <1>7, StepKeeps
-----------------------------------------------------------------------------
(* No command has begun.                                                   *)
LEMMA InitRight == Init => OpeningRight
<1> SUFFICES ASSUME Init PROVE OpeningRight
  OBVIOUS
<1>1. Idle \in States /\ Idle.pc = "idle"
  BY IdleTyped
<1>2. EnvironmentTyped
  BY EnvironmentsAssumption DEF Init, EnvironmentTyped
<1>3. Typed
  BY <1>1, <1>2 DEF Init, Typed
<1>4. Compatible
  BY DEF Init, Compatible
<1>5. ASSUME NEW p \in Procs PROVE Right(p)
  <2>1. proc[p] = Idle /\ held[p] = {} /\ \A f \in Files : locks[f] = {}
    BY DEF Init
  <2>2. DevRight(proc[p]) /\ TriedRight(proc[p]) /\ proc[p].pc \in Idling
    BY <1>1, <2>1 DEF DevRight, TriedRight, Idling
  <2>3. StreamRight(p)
    BY <1>1, <2>1 DEF StreamRight, Stream, InDriver, WithStream
  <2>4. LockRight(p)
    BY <1>1, <2>1 DEF LockRight, Locked, WithStream
  <2> QED BY <2>2, <2>3, <2>4 DEF Right
<1> QED BY <1>3, <1>4, <1>5 DEF OpeningRight

(* Every step keeps the invariant.                                         *)
LEMMA NextKeeps == OpeningRight /\ [Next]_vars => OpeningRight'
<1> SUFFICES ASSUME OpeningRight, [Next]_vars PROVE OpeningRight'
  OBVIOUS
<1>1. ASSUME NEW p \in Procs, NEW kind \in {"read", "write", "label"}, Start(p, kind)
      PROVE  OpeningRight'
  BY <1>1, StartRight DEF Kinds
<1>2. ASSUME NEW p \in Procs, IsXdf(p)
      PROVE  OpeningRight'
  <2>1. "boot" \in Places
    BY DEF Places, WithStream
  <2> QED BY <1>2, <2>1, GotoRight DEF IsXdf
<1>3. ASSUME NEW p \in Procs, TimeOut(p) \/ NotXdf(p)
      PROVE  OpeningRight'
  BY <1>3, XdfGoneRight DEF TimeOut, NotXdf, Busy, InDriver
<1>4. ASSUME NEW p \in Procs, Step(p)
      PROVE  OpeningRight'
  BY <1>2, <1>3, <1>4, OpenXdfRight, LockXdfRight, WaitRight, OpenPlainRight,
     ReadBootRight, SetGeometryRight DEF Step
<1>5. CASE UNCHANGED vars
  <2>1. UNCHANGED <<perm, asks, fits, proc, held, locks>>
    BY <1>5 DEF vars
  <2>2. Typed' /\ Compatible'
    BY <2>1 DEF OpeningRight, Typed, EnvironmentTyped, Compatible
  <2>3. ASSUME NEW p \in Procs PROVE Right(p)'
    <3>1. Right(p)
      BY DEF OpeningRight
    <3>2. DevRight(proc[p])' /\ TriedRight(proc[p])'
      BY <2>1, <3>1 DEF Right, DevRight, TriedRight, Usable, May
    <3>3. (proc[p].pc \notin Idling => ModeRight(proc[p], Dev(p).file))'
      BY <2>1, <3>1 DEF Right, ModeRight, Dev
    <3>4. StreamRight(p)'
      BY <2>1, <3>1 DEF Right, StreamRight, Stream, Holding, May, Dev
    <3>5. LockRight(p)'
      BY <2>1, <3>1 DEF Right, LockRight, Locked, Xdf, Dev
    <3> QED BY <3>2, <3>3, <3>4, <3>5 DEF Right
  <2> QED BY <2>2, <2>3 DEF OpeningRight
<1> QED BY <1>1, <1>4, <1>5, FinishRight DEF Next

(* What the commands rely on always holds: each is at work on a description *)
(* in range with nothing usable before it, with the access its round asks  *)
(* for, with one stream or none, and with a lock just when it uses the XDF *)
(* driver.                                                                 *)
THEOREM OpeningStaysRight == Spec => []OpeningRight
  BY InitRight, NextKeeps, PTL DEF Spec

-----------------------------------------------------------------------------
(* find_device settles for the first description the command can use, and  *)
(* only gives up when there is none, whatever the descriptions, media and  *)
(* other commands are (find_device and try_device in init.c).              *)
THEOREM FirstThatFitsAlways == Spec => []FirstThatFits
<1>1. OpeningRight => FirstThatFits
  <2> SUFFICES ASSUME OpeningRight, NEW p \in Procs
               PROVE  /\ Works(p) =>
                         /\ \A d \in 1..(proc[p].dev - 1) : ~Usable(d, proc[p].kind)
                         /\ proc[p].kind = "write" => \E h \in Stream(p) : h.mode = RW
                         /\ proc[p].kind = "label" =>
                               (proc[p].isRo <=> perm[Dev(p).file] = "ro")
                      /\ proc[p].pc = "failed" =>
                            \A d \in 1..Len(Descriptions) : ~Usable(d, proc[p].kind)
    BY DEF FirstThatFits
  <2>1. Right(p) /\ proc[p] \in States
    BY Own
  <2>2. proc[p].pc = "failed" => \A d \in 1..Len(Descriptions) : ~Usable(d, proc[p].kind)
    BY <2>1 DEF Right, TriedRight
  <2>3. ASSUME Works(p)
        PROVE  /\ \A d \in 1..(proc[p].dev - 1) : ~Usable(d, proc[p].kind)
               /\ proc[p].kind = "write" => \E h \in Stream(p) : h.mode = RW
               /\ proc[p].kind = "label" => (proc[p].isRo <=> perm[Dev(p).file] = "ro")
    <3>1. /\ proc[p].pc = "working" /\ DevRight(proc[p]) /\ TriedRight(proc[p])
          /\ proc[p].dev \in 1..Len(Descriptions) /\ Dev(p).file \in Files
          /\ ModeRight(proc[p], Dev(p).file) /\ StreamRight(p)
          /\ perm[Dev(p).file] \in {"rw", "ro", "none"}
      BY <2>1, <2>3, Own
         DEF Works, Right, Idling, OpeningRight, Typed, EnvironmentTyped
    <3>2. PICK h \in Handles : Stream(p) = {h} /\ Holding(h, proc[p], Dev(p).file)
      BY <3>1 DEF StreamRight, WithStream
    <3>3. proc[p].isRo <=> proc[p].openMode = RO
      BY <3>1 DEF StreamRight
    <3>4. \A d \in 1..(proc[p].dev - 1) : ~Usable(d, proc[p].kind)
      <4>1. Len(Descriptions) \in Nat
        BY DescriptionsAssumption, LenProperties
      <4> QED BY <3>1, <4>1 DEF TriedRight
    <3>5. proc[p].kind = "write" => h.mode = RW
      BY <3>1, <3>2 DEF ModeRight, Holding
    <3>6. proc[p].kind = "label" => (proc[p].isRo <=> perm[Dev(p).file] = "ro")
      BY <3>1, <3>2, <3>3 DEF ModeRight, Holding, May, RO, RW
    <3> QED BY <3>2, <3>4, <3>5, <3>6
  <2> QED BY <2>2, <2>3
<1> QED BY <1>1, OpeningStaysRight, PTL

(* A command works through one stream, on the file of its description, and *)
(* one that has failed has closed and unlocked all it opened: every way    *)
(* out of try_device and XdfOpen frees what it should.                     *)
THEOREM NothingHeldAlways == Spec => []NothingHeld
<1>1. OpeningRight => NothingHeld
  <2> SUFFICES ASSUME OpeningRight, NEW p \in Procs
               PROVE  /\ Works(p) =>
                            \E h \in held[p] : Stream(p) = {h} /\ h.file = Dev(p).file
                      /\ proc[p].pc = "failed" =>
                            /\ Stream(p) = {}
                            /\ \A f \in Files : \A l \in locks[f] : l.proc # p
    BY DEF NothingHeld
  <2>1. StreamRight(p)
    BY Own DEF Right
  <2>2. Works(p) => \E h \in held[p] : Stream(p) = {h} /\ h.file = Dev(p).file
    BY <2>1 DEF Works, StreamRight, WithStream, Stream, Holding
  <2>3. ASSUME proc[p].pc = "failed"
        PROVE  Stream(p) = {} /\ \A f \in Files : \A l \in locks[f] : l.proc # p
    <3>1. ~Locked(p)
      BY <2>3 DEF Locked, WithStream
    <3> QED BY <2>1, <2>3, <3>1, NoLocks DEF StreamRight, Idling
  <2> QED BY <2>2, <2>3
<1> QED BY <1>1, OpeningStaysRight, PTL

(* Two commands that use an XDF disk through its own driver and its lock   *)
(* are both readers (lock_dev and XdfOpen).                                *)
THEOREM XdfLockedAlways == Spec => []XdfLocked
<1>1. OpeningRight => XdfLocked
  <2> SUFFICES ASSUME OpeningRight, NEW p \in Procs, NEW q \in Procs,
                      p # q, InXdf(p), InXdf(q), Dev(p).file = Dev(q).file,
                      ~Dev(p).nolock, ~Dev(q).nolock
               PROVE  proc[p].openMode = RO /\ proc[q].openMode = RO
    BY DEF XdfLocked
  <2> DEFINE l == [proc |-> p, mode |-> proc[p].openMode]
             m == [proc |-> q, mode |-> proc[q].openMode]
  <2>1. Locked(p) /\ Locked(q)
    BY DEF InXdf, Locked, WithStream
  <2>2. l \in locks[Dev(p).file] /\ m \in locks[Dev(p).file]
    BY <2>1 DEF OpeningRight, Right, LockRight
  <2>3. Dev(p).file \in Files
    BY <2>1, Own DEF Locked, WithStream, Idling
  <2>4. l.proc # m.proc => l.mode = RO /\ m.mode = RO
    <3> HIDE DEF l, m
    <3> QED BY <2>2, <2>3 DEF OpeningRight, Compatible
  <2> QED BY <2>4
<1> QED BY <1>1, OpeningStaysRight, PTL
=============================================================================
