------------------------------- MODULE Opening -------------------------------
(***************************************************************************)
(* How a command gets at its drive: find_device tries the descriptions of  *)
(* the drive letter one after the other, try_device opens each of them     *)
(* with the access wanted, falls back to less or asks for more, reads the  *)
(* boot sector and sets the geometry; OpenImage goes through the drivers   *)
(* that may serve the file, and lock_dev waits for other commands.         *)
(*                                                                         *)
(* Several commands run at the same time; each step of a command ends with *)
(* at most one system call.  What the files and the media allow is chosen  *)
(* once, in Init: permission to open, whether the drive only accepts the   *)
(* geometry of a description from a descriptor open for writing, and       *)
(* whether a description fits the medium.                                  *)
(***************************************************************************)
EXTENDS Integers, Sequences, FiniteSets

CONSTANTS
    Procs,        \* commands at work
    Files,        \* device and image files
    Descriptions, \* of one drive letter: a sequence of [file, xdf, tracks, nolock]
    LockTries,    \* how often lock_dev looks before it gives up
    Environments  \* what the files and media may be like: [perm, asks, fits]

ASSUME DescriptionsAssumption ==
    Descriptions \in Seq([file : Files, xdf : BOOLEAN, tracks : BOOLEAN, nolock : BOOLEAN])

ASSUME EnvironmentsAssumption ==
    Environments \subseteq [perm : [Files -> {"rw", "ro", "none"}],
                            asks : [Files -> {"free", "write", "never"}],
                            fits : [1..Len(Descriptions) -> BOOLEAN]]

RO == "O_RDONLY"
RW == "O_RDWR"
None == "none"

VARIABLES
    perm,  \* file -> "rw", "ro" or "none"
    asks,  \* file -> setting its geometry: "free", "write" (needs a descriptor
           \* open for writing) or "never"
    fits,  \* description -> its medium is there and has a DOS boot sector
    proc,  \* command -> where it is, see Idle
    held,  \* command -> the descriptors it has open: [file, mode, via]
    locks  \* file -> the flocks held on it: [proc, mode]
vars == <<perm, asks, fits, proc, held, locks>>

Idle == [pc |-> "idle", kind |-> None, dev |-> 0, retry |-> 0, openMode |-> RO,
         boot |-> FALSE, tries |-> 0, isRo |-> FALSE]

\* The kinds of commands: those that only read, those that write, and mlabel,
\* which takes write access if it can get it.
Mode(kind) == IF kind = "write" THEN RW ELSE RO
TryWritable(kind) == kind = "label"

Dev(p) == Descriptions[proc[p].dev]
Goto(p, label) == proc' = [proc EXCEPT ![p].pc = label]

May(file, mode) == perm[file] = "rw" \/ (perm[file] = "ro" /\ mode = RO)

-----------------------------------------------------------------------------
(* lock_dev. *)

Conflict(p, file, mode) ==
    \E l \in locks[file] : l.proc # p /\ (l.mode = RW \/ mode = RW)

\* The lock goes with the descriptor it was taken through.
Unlocked(p, file) == [locks EXCEPT ![file] = {l \in @ : l.proc # p}]

-----------------------------------------------------------------------------
(* find_device and try_device. *)

\* Mutant: write access is asked for whatever the command wants.
FirstMode_rw(kind) == RW
FirstMode(kind) == IF TryWritable(kind) THEN RW ELSE Mode(kind)

Try(q, d) ==
    IF d > Len(Descriptions)
    THEN [q EXCEPT !.pc = "failed", !.dev = 0]
    ELSE [q EXCEPT !.pc = "driver", !.dev = d, !.retry = 0,
                   !.openMode = FirstMode(q.kind), !.boot = FALSE, !.tries = 0]

Start(p, kind) ==
    /\ proc[p].pc = "idle"
    /\ proc' = [proc EXCEPT ![p] = Try([Idle EXCEPT !.kind = kind], 1)]
    /\ UNCHANGED <<perm, asks, fits, held, locks>>

NextDescription(q) == Try(q, q.dev + 1)

\* One more round of try_device, with another access; there are two.
Retried(q, mode) ==
    IF q.retry = 0
    THEN [q EXCEPT !.pc = "driver", !.retry = 1, !.openMode = mode, !.tries = 0]
    ELSE NextDescription(q)

\* OpenImage has failed: permission is the reason try_device acts on, and only
\* for a command that wants to write if it may.  OpenImage looks at the value
\* geomFailureP points to, which is 0, before it sets it: a geometry that was
\* refused is never reported as such.
OpenFailed(q, denied) ==
    IF TryWritable(q.kind) /\ denied THEN Retried(q, RO) ELSE NextDescription(q)

-----------------------------------------------------------------------------
(* XdfOpen: descriptions for XDF disks, opened for writing in any case. *)

OpenXdf(p) ==
    /\ proc[p].pc = "driver" /\ Dev(p).xdf
    /\ IF May(Dev(p).file, RW)
       THEN /\ held' = [held EXCEPT ![p] = @ \union {[file |-> Dev(p).file, mode |-> RW,
                                                      via |-> "xdf"]}]
            /\ Goto(p, "lock")
       ELSE /\ Goto(p, "plain")
            /\ UNCHANGED held
    /\ UNCHANGED <<perm, asks, fits, locks>>

Xdf(p) == {h \in held[p] : h.via = "xdf"}

\* Mutant: readers are taken for writers, and writers for readers.
LockMode_swapped(q) == IF q.openMode = RW THEN RO ELSE RW
LockMode(q) == q.openMode

LockXdf(p) ==
    /\ proc[p].pc = "lock"
    /\ \/ Dev(p).nolock
       \/ ~Conflict(p, Dev(p).file, LockMode(proc[p]))
    /\ locks' = IF Dev(p).nolock THEN locks
                ELSE [locks EXCEPT ![Dev(p).file] =
                         @ \union {[proc |-> p, mode |-> LockMode(proc[p])]}]
    /\ Goto(p, "probe")
    /\ UNCHANGED <<perm, asks, fits, held>>

\* Mutant: the tries are not counted.
Waited_never(q) == FALSE
Waited(q) == q.tries >= LockTries

Busy(p) ==
    /\ proc[p].pc = "lock" /\ ~Dev(p).nolock
    /\ Conflict(p, Dev(p).file, LockMode(proc[p]))
Wait(p) ==
    /\ Busy(p) /\ ~Waited(proc[p])
    /\ proc' = [proc EXCEPT ![p].tries = IF @ < LockTries THEN @ + 1 ELSE @]
    /\ UNCHANGED <<perm, asks, fits, held, locks>>

\* Given up: XdfOpen closes the device and returns nothing, as for a disk of
\* another kind.
XdfGone(p) ==
    /\ held' = [held EXCEPT ![p] = @ \ Xdf(p)]
    /\ locks' = Unlocked(p, Dev(p).file)
    /\ Goto(p, "plain")
    /\ UNCHANGED <<perm, asks, fits>>
TimeOut(p) == Busy(p) /\ Waited(proc[p]) /\ XdfGone(p)

\* The first track shows whether it is an XDF disk.
IsXdf(p) ==
    /\ proc[p].pc = "probe"
    /\ fits[proc[p].dev]
    /\ Goto(p, "boot")
    /\ UNCHANGED <<perm, asks, fits, held, locks>>
NotXdf(p) == proc[p].pc = "probe" /\ XdfGone(p)

-----------------------------------------------------------------------------
(* SimpleFileOpenWithLm.  LockDevice has nothing to do: OpenImage, like every *)
(* other caller, passes 0 for locked.                                         *)

NeedsGeometry(d) == d.tracks
Settable(file, mode) == asks[file] = "free" \/ (asks[file] = "write" /\ mode = RW)

OpenPlain(p) ==
    /\ \/ proc[p].pc = "plain"
       \/ proc[p].pc = "driver" /\ ~Dev(p).xdf
    /\ LET q == proc[p]
           file == Dev(p).file
           handle == [file |-> file, mode |-> q.openMode, via |-> "plain"]
           refused == NeedsGeometry(Dev(p)) /\ ~Settable(file, q.openMode)
       IN  IF ~May(file, q.openMode)
           THEN /\ proc' = [proc EXCEPT ![p] = OpenFailed(q, TRUE)]
                /\ UNCHANGED held
           ELSE IF ~refused
           THEN /\ held' = [held EXCEPT ![p] = @ \union {handle}]
                /\ Goto(p, "boot")
           \* A geometry that needs write access: the descriptor is not closed,
           \* and errno may be EPERM or EBADF.
           ELSE IF asks[file] = "write"
           THEN /\ held' = [held EXCEPT ![p] = @ \union {[handle EXCEPT !.via = "lost"]}]
                /\ \E denied \in BOOLEAN : proc' = [proc EXCEPT ![p] = OpenFailed(q, denied)]
           ELSE /\ proc' = [proc EXCEPT ![p] = OpenFailed(q, FALSE)]
                /\ UNCHANGED held
    /\ UNCHANGED <<perm, asks, fits, locks>>

-----------------------------------------------------------------------------
(* The rest of try_device. *)

Stream(p) == {h \in held[p] : h.via # "lost"}

\* Mutant: a stream that is no use is left open.
Freed_not(p) == held
Freed(p) == [held EXCEPT ![p] = @ \ Stream(p)]
Free(p) ==
    /\ held' = Freed(p)
    /\ locks' = Unlocked(p, Dev(p).file)

\* The boot sector is read once, in the first round that gets that far.
ReadBoot(p) ==
    /\ proc[p].pc = "boot"
    /\ IF proc[p].boot \/ fits[proc[p].dev]
       THEN /\ proc' = [proc EXCEPT ![p].pc = "geometry", ![p].boot = TRUE]
            /\ UNCHANGED <<held, locks>>
       ELSE /\ proc' = [proc EXCEPT ![p] = NextDescription(@)]
            /\ Free(p)
    /\ UNCHANGED <<perm, asks, fits>>

SetGeometry(p) ==
    /\ proc[p].pc = "geometry"
    /\ LET q == proc[p]
           settable == \/ \E h \in Stream(p) : h.via = "xdf"
                       \/ Settable(Dev(p).file, q.openMode)
       IN  IF settable
           THEN /\ proc' = [proc EXCEPT ![p].pc = "working",
                                        ![p].isRo = (q.openMode = RO)]
                /\ UNCHANGED <<held, locks>>
           ELSE /\ proc' = [proc EXCEPT ![p] =
                               IF asks[Dev(p).file] = "write" THEN Retried(q, RW)
                               ELSE NextDescription(q)]
                /\ Free(p)
    /\ UNCHANGED <<perm, asks, fits>>

\* The command ends: its descriptors go with the process.
Finish(p) ==
    /\ proc[p].pc \in {"working", "failed"}
    /\ proc' = [proc EXCEPT ![p] = Idle]
    /\ held' = [held EXCEPT ![p] = {}]
    /\ locks' = [f \in Files |-> {l \in locks[f] : l.proc # p}]
    /\ UNCHANGED <<perm, asks, fits>>

Init ==
    /\ \E e \in Environments : perm = e.perm /\ asks = e.asks /\ fits = e.fits
    /\ proc = [p \in Procs |-> Idle]
    /\ held = [p \in Procs |-> {}]
    /\ locks = [f \in Files |-> {}]

Step(p) ==
    \/ OpenXdf(p) \/ LockXdf(p) \/ Wait(p) \/ TimeOut(p) \/ IsXdf(p) \/ NotXdf(p)
    \/ OpenPlain(p) \/ ReadBoot(p) \/ SetGeometry(p)

Next ==
    \E p \in Procs :
        \/ \E kind \in {"read", "write", "label"} : Start(p, kind)
        \/ Step(p)
        \/ Finish(p)

Spec == Init /\ [][Next]_vars

\* A command that is opening its drive runs on.
FairSpec == Spec /\ \A p \in Procs : WF_vars(Step(p))

-----------------------------------------------------------------------------
(* Properties. *)

Works(p) == proc[p].pc = "working"

\* A command can work with a description when its medium fits, the file may be
\* opened as the command needs it, and the geometry can be set. Of a geometry
\* that needs write access this is only asked where try_device gets to see the
\* refusal, or has write access at once.
Usable(d, kind) ==
    LET file == Descriptions[d].file
    IN  /\ fits[d]
        /\ May(file, Mode(kind))
        /\ \/ asks[file] = "free"
           \/ /\ asks[file] = "write" /\ perm[file] = "rw"
              /\ kind = "read" => ~NeedsGeometry(Descriptions[d])

\* Descriptions are tried in order: none that the command could have worked with
\* comes before the one it works with, and it does not give up while there is
\* one. It has the access it was promised: a writer may write, and mlabel is
\* told "read-only" exactly when the file does not let it write.
FirstThatFits ==
    \A p \in Procs :
        LET q == proc[p] IN
        /\ Works(p) =>
              /\ \A d \in 1..(q.dev - 1) : ~Usable(d, q.kind)
              /\ q.kind = "write" => \E h \in Stream(p) : h.mode = RW
              /\ q.kind = "label" => (q.isRo <=> perm[Dev(p).file] = "ro")
        /\ q.pc = "failed" => \A d \in 1..Len(Descriptions) : ~Usable(d, q.kind)

\* A command works through exactly one open stream, on the file of its description;
\* one that has given up holds none, and no lock. (The descriptor of a geometry
\* that was refused, which nobody closes, is not a stream.)
NothingHeld ==
    \A p \in Procs :
        /\ Works(p) => \E h \in held[p] : Stream(p) = {h} /\ h.file = Dev(p).file
        /\ proc[p].pc = "failed" =>
              Stream(p) = {} /\ \A f \in Files : \A l \in locks[f] : l.proc # p

InXdf(p) == proc[p].pc \in {"probe", "boot", "geometry", "working"} /\ Xdf(p) # {}

\* Among the commands that use an XDF disk through its own driver the lock keeps
\* one that may write apart from all others.
XdfLocked ==
    \A p, q \in Procs :
        /\ p # q /\ InXdf(p) /\ InXdf(q)
        /\ Dev(p).file = Dev(q).file
        /\ ~Dev(p).nolock /\ ~Dev(q).nolock
        => proc[p].openMode = RO /\ proc[q].openMode = RO

\* Every command gets to its drive or gives up, however long others keep theirs.
OpeningEnds ==
    \A p \in Procs :
        proc[p].pc \notin {"idle", "working", "failed"}
            ~> proc[p].pc \in {"working", "failed"}

\* What the manual says of locking: unless the description has nolock, a command
\* that may write to a drive is alone with it. It does not hold: LockDevice is
\* told not to lock.
Exclusive ==
    \A p, q \in Procs :
        /\ p # q /\ Works(p) /\ Works(q)
        /\ Dev(p).file = Dev(q).file
        /\ ~Dev(p).nolock /\ ~Dev(q).nolock
        => proc[p].openMode = RO
=============================================================================
