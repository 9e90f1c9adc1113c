------------------------------ MODULE TreeWalk ------------------------------
(***************************************************************************)
(* The commands that walk the directory tree: main_loop, recurs_dos_loop   *)
(* and mt_dos_loop (mainloop.c) with the callbacks of mcopy, mmove, mren,  *)
(* mmd, mcd, mdel, mrd, mdeltree, mattrib and mdu; for mcopy also the walk *)
(* through directories of the host (unix_loop, unixdir.c).                 *)
(*                                                                         *)
(* A walk reads a directory slot by slot while its callbacks create, move  *)
(* and wipe entries of the same tree, so the model keeps the C call stack: *)
(* one frame per active loop, with the slot it looks at next.  The write   *)
(* of one entry is one step (DirSlots has its insides).  A file or a       *)
(* directory owns one cluster, which stands for it; the root is 0.         *)
(***************************************************************************)
EXTENDS Integers, FiniteSets, Sequences, SequencesExt, TLC

CONSTANTS
    Nodes,        \* the clusters of the disk: 1 .. n
    High,         \* those whose number does not fit in 16 bits
    Bases,        \* names, without the number that autorename appends
    ShortNames,   \* those that need no long name entry
    MaxSlots,     \* bound: slots of a directory
    MaxPath,      \* bound: names in a path of the host (its PATH_MAX)
    Disks,        \* what there is before the command: [tree, node, cwd, host]
    Commands      \* the command lines

ASSUME NodesAssumption ==
    /\ IsFiniteSet(Nodes) /\ Nodes = 1 .. Cardinality(Nodes) /\ High \subseteq Nodes
    /\ MaxSlots \in Nat /\ MaxPath \in Nat
ASSUME NamesAssumption == {"", "*", "..", "."} \cup ShortNames \subseteq Bases

VARIABLES
    tree,         \* the slots of each directory
    node,         \* what each cluster holds; for a directory, its ".." too
    strays,       \* the entries that failed copies have left on the disk
    cwd,          \* the mcwd file: a path
    host,         \* the files of the host: path -> [kind, data, to]
    cmd,          \* the command line
    job,          \* the rest of MainParam_t, and main_loop's result
    stack,        \* the active loops, the innermost one first
    fresh,        \* written by this process without a long name
    signal,       \* got_signal
    before        \* history: the disk when the command started

walkVars == <<tree, node, strays, cwd, host, cmd, job, stack, fresh, signal, before>>
disk == <<tree, node, strays>>
fs == <<disk, host>>

Root == 0
None == -1

\* A name is a base and the number autorename appended to it.
NoName == <<"", 0>>
Star == <<"*", 0>>
Up == <<"..", 0>>
Dot == <<".", 0>>

Entry(nm, n, r) == [name |-> nm, id |-> n, ro |-> r]
Free == Entry(NoName, None, FALSE)
NoNode == [kind |-> "free", data |-> 0, up |-> [low |-> 0, high |-> FALSE]]

\* A path is a sequence of names, on the disk and on the host.
Name == Bases \X Nat
Path == Seq(Name)
Arg == [abs : BOOLEAN, path : Path, host : BOOLEAN]

\* The command lines each main lets through.
Given(c) == {o \in {"recursive", "quit", "nowarn", "noclobber"} : c[o]}
OnDisk(c) == c.from # <<>> /\ \A i \in DOMAIN c.from : ~c.from[i].host
Plainly(c) == OnDisk(c) /\ Given(c) = {}
McopyLine(c) ==
    /\ c.op = "mcopy" /\ c.from # <<>>
    /\ c.noclobber => c.to.host /\ c.to.path = <<>> /\ Len(c.from) = 1
MmoveLine(c) ==
    /\ c.op \in {"mmove", "mren"} /\ Plainly(c) /\ ~c.to.host
    /\ c.op = "mren" => Len(c.from) = 1 /\ Len(c.to.path) = 1
MmdLine(c) == c.op = "mmd" /\ Plainly(c)
MdelLine(c) == c.op \in {"mdel", "mrd", "mdeltree"} /\ Plainly(c) /\ c.clash = "skip"
MattribLine(c) == c.op = "mattrib" /\ Plainly(c) /\ c.clash = "skip"
MduLine(c) == c.op = "mdu" /\ Plainly(c) /\ c.clash = "skip"
McdLine(c) == c.op = "mcd" /\ Plainly(c) /\ Len(c.from) = 1
ASSUME CommandsAssumption ==
    \A c \in Commands :
        /\ c.from \in Seq(Arg) /\ c.to \in Arg
        /\ \A i \in DOMAIN c.from : c.from[i].host => c.from[i].path # <<>>
        /\ \/ McopyLine(c) \/ MmoveLine(c) \/ MmdLine(c) \/ MdelLine(c)
           \/ MattribLine(c) \/ MduLine(c) \/ McdLine(c)

Copies == {"mcopy", "mmove"}
Deletes == {"mdel", "mrd", "mdeltree"}

-----------------------------------------------------------------------------
\* The tree.  isSubdirOf climbs the parents; Below looks down instead.

Slots(t, d) == {i \in DOMAIN t[d] : t[d][i] # Free}
IsDir(n) == n = Root \/ node[n].kind = "dir"
Children(t, S) == UNION {{t[d][i].id : i \in Slots(t, d)} : d \in S}
Below(t, d) ==
    LET within[k \in 0 .. Cardinality(Nodes)] ==
            IF k = 0 THEN {d} ELSE LET S == within[k - 1] IN S \cup Children(t, S)
    IN within[Cardinality(Nodes)]
\* Mutant: only the parent of the target is looked at.
IsSubdirOf_near(inside, outside) == inside \in {outside} \cup Children(tree, {outside})
IsSubdirOf(inside, outside) == inside \in Below(tree, outside)

\* Where an entry is: its directory and slot.  The root is in itself.
Entries(t, n) == {x \in (DOMAIN t) \X (1 .. MaxSlots) : x[2] \in Slots(t, x[1]) /\ t[x[1]][x[2]].id = n}
Self(d) ==
    IF d = Root THEN [dir |-> Root, slot |-> 0, id |-> Root]
    ELSE LET x == CHOOSE x \in Entries(tree, d) : TRUE
         IN [dir |-> x[1], slot |-> x[2], id |-> d]

Live(nd) == {n \in Nodes : nd[n].kind # "free"}

\* Directories have entries; names, numbers and sizes are within bounds.
SlotType == [name : Name, id : Nodes \cup {None}, ro : BOOLEAN]
Typed(t, nd) ==
    /\ t \in [{Root} \cup Nodes -> Seq(SlotType)]
    /\ nd \in [Nodes -> [kind : {"free", "file", "dir"}, data : Nat,
                         up : [low : {Root} \cup Nodes, high : BOOLEAN]]]
    /\ \A d \in {Root} \cup Nodes :
          /\ Len(t[d]) <= MaxSlots
          /\ Slots(t, d) # {} => d = Root \/ nd[d].kind = "dir"
          /\ \A i \in Slots(t, d) : t[d][i].id \in Nodes
HostTyped(h) ==
    /\ IsFiniteSet(DOMAIN h) /\ DOMAIN h \subseteq Path
    /\ h \in [DOMAIN h -> [kind : {"file", "dir", "link"}, data : Nat, to : Path]]

\* Every file and directory is in exactly one slot and is reached from the root,
\* no name is twice in a directory, and ".." has the number of the parent.
IsTree(t, nd) ==
    /\ \A n \in Nodes : Cardinality(Entries(t, n)) = IF n \in Live(nd) THEN 1 ELSE 0
    /\ Below(t, Root) = {Root} \cup Live(nd)
    /\ \A d \in DOMAIN t : \A i, j \in Slots(t, d) : t[d][i].name = t[d][j].name => i = j
    /\ \A n \in Live(nd) : nd[n].kind = "dir" => \A x \in Entries(t, n) : nd[n].up.low = x[1]

ASSUME DisksAssumption ==
    \A b \in Disks : Typed(b.tree, b.node) /\ IsTree(b.tree, b.node) /\ HostTyped(b.host) /\ b.cwd \in Path

-----------------------------------------------------------------------------
\* Walking down a path.

Named(d, nm) == {i \in Slots(tree, d) : tree[d][i].name = nm}
SubDir(d, nm) ==
    LET found == {tree[d][i].id : i \in {i \in Named(d, nm) : IsDir(tree[d][i].id)}}
    IN IF found = {} THEN None ELSE CHOOSE n \in found : TRUE
Resolve(d, path) ==
    LET at[k \in 0 .. Len(path)] ==
            IF k = 0 THEN d
            ELSE CASE at[k - 1] = None \/ path[k] = Dot -> at[k - 1]
                   [] at[k - 1] # None /\ path[k] = Up -> Self(at[k - 1]).dir
                   [] OTHER -> SubDir(at[k - 1], path[k])
    IN at[Len(path)]
PathOf(d) ==
    LET up[k \in 0 .. Cardinality(Nodes)] ==
            IF k = 0 THEN [at |-> d, path |-> <<>>]
            ELSE LET x == up[k - 1]  e == Self(x.at)
                 IN IF x.at = Root THEN x
                    ELSE [at |-> e.dir, path |-> <<tree[e.dir][e.slot].name>> \o x.path]
    IN up[Cardinality(Nodes)].path

\* A relative path starts in the mcwd directory, or in the root when that
\* directory is no longer there (NO_CWD: the mcwd file is removed).
CwdGone == Resolve(Root, cwd) = None
StartDir(arg) == IF arg.abs \/ CwdGone THEN Root ELSE Resolve(Root, cwd)
Forget(args) == cwd' = IF CwdGone /\ (\E a \in args : ~a.abs) THEN <<>> ELSE cwd

\* dos_target_lookup, for a target without wildcards.
TargetOf(arg) ==
    LET start == StartDir(arg)
        dir == Resolve(start, arg.path)
        container == Resolve(start, Front(arg.path))
    IN CASE dir # None -> [dir |-> dir, name |-> NoName]
         [] dir = None /\ container # None /\ Last(arg.path) \notin {Dot, Up} ->
                [dir |-> container, name |-> Last(arg.path)]
         [] OTHER -> [dir |-> None, name |-> NoName]

-----------------------------------------------------------------------------
\* Frames: recurs_dos_loop ("path"), mt_dos_loop ("loop"), del_file ("del"),
\* unix_dir_loop ("host").  Copies go to the directory "to" of the disk or to the
\* directory "out" of the host, as job.side says.

Frame(fn, dir, comps, to, at) ==
    [fn |-> fn, dir |-> dir, comps |-> comps, pos |-> 1, ret |-> {},
     to |-> to, at |-> at, sum |-> 0, out |-> <<>>, path |-> <<>>, left |-> <<>>]
PathFrame(dir, comps, to, out) ==
    [Frame("path", dir, comps, to, Self(Root)) EXCEPT !.out = out]
LoopFrame(at, to) == Frame("loop", at.id, <<Star>>, to, at)
HostFrame(path, names, to, out) ==
    [Frame("host", Root, <<>>, to, Self(Root)) EXCEPT !.path = path, !.left = names, !.out = out]

Running == stack # <<>>
Top == Head(stack)
AtLeaf(f) == Len(f.comps) <= 1
\* The path ends in a directory itself: handle_leaf is called for it, once.
OnItself(f) == f.fn = "path" /\ (f.comps \in {<<>>, <<Dot>>, <<Up>>} \/ (AtLeaf(f) /\ cmd.op = "mmd"))
Accepts(f) ==
    CASE f.fn = "path" /\ (~AtLeaf(f) \/ cmd.op \in {"mrd", "mcd"}) -> {"dir"}
      [] f.fn = "path" /\ AtLeaf(f) /\ cmd.op = "mdel" -> {"file"}
      [] OTHER -> {"file", "dir"}
\* An entry written without long name in this process is cached with an
\* empty one, which "*" matches first, and checkForDot skips it.
Nameless(n) == n \in fresh /\ cmd.op \notin Deletes
Matches(f, e) ==
    /\ e # Free /\ node[e.id].kind \in Accepts(f)
    /\ \/ Head(f.comps) = e.name
       \/ Head(f.comps) = Star /\ ~Nameless(e.id)
Ahead(f) ==
    IF f.fn = "host" THEN DOMAIN f.left
    ELSE IF OnItself(f) THEN IF f.pos = 1 THEN {0} ELSE {}
    ELSE {i \in f.pos .. Len(tree[f.dir]) : Matches(f, tree[f.dir][i])}
Goes(f) ==
    /\ ~signal /\ "stop" \notin f.ret
    /\ f.fn = "loop" /\ cmd.quit => "err" \notin f.ret
    /\ f.fn = "del" => "err" \notin f.ret
More(f) == Goes(f) /\ Ahead(f) # {}
Special(f) == f.fn = "path" /\ ~AtLeaf(f) /\ Head(f.comps) \in {Dot, Up}
Ended(f) == ~More(f) /\ ~Special(f)
NextSlot(f) == CHOOSE i \in Ahead(f) : \A j \in Ahead(f) : i <= j
Here ==
    IF OnItself(Top)
    THEN IF Top.comps = <<Up>> THEN Self(Self(Top.dir).dir) ELSE Self(Top.dir)
    ELSE [dir |-> Top.dir, slot |-> NextSlot(Top), id |-> tree[Top.dir][NextSlot(Top)].id]

\* The callback returns r, or runs a loop of its own.
\* Mutant: a path that ends in ".." is not left behind.
After_dotdot ==
    IF OnItself(Top) THEN (IF Top.comps = <<Up>> THEN 1 ELSE 2) ELSE NextSlot(Top) + 1
After == IF OnItself(Top) THEN 2 ELSE NextSlot(Top) + 1
Add(f, r) == [f EXCEPT !.ret = @ \cup (IF f.fn = "del" THEN r \ {"got"} ELSE r)]
Onward == IF Top.fn = "host" THEN [Top EXCEPT !.left = Tail(@)] ELSE [Top EXCEPT !.pos = After]
Answer(r) == stack' = <<Add(Onward, r)>> \o Tail(stack)
Call(f) == stack' = <<f, Onward>> \o Tail(stack)
Return(r) == stack' = <<Add(stack[2], r)>> \o SubSeq(stack, 3, Len(stack))
Same == UNCHANGED <<cmd, before>>

Descend ==
    /\ Running /\ Top.fn = "path" /\ ~AtLeaf(Top)
    /\ \/ /\ Head(Top.comps) = Dot
          /\ stack' = <<[Top EXCEPT !.comps = Tail(@)]>> \o Tail(stack)
       \/ /\ Head(Top.comps) = Up
          /\ stack' = <<[Top EXCEPT !.comps = Tail(@), !.dir = Self(@).dir]>> \o Tail(stack)
       \/ /\ ~Special(Top) /\ More(Top)
          /\ Call(PathFrame(Here.id, Tail(Top.comps), Top.to, Top.out))
    /\ Same /\ UNCHANGED <<fs, cwd, job, fresh, signal>>

\* handle_leaf, mt_dos_loop and del_file get to a file or a directory.
Leaf(ops, kind) ==
    /\ Running /\ Top.fn # "host" /\ AtLeaf(Top) /\ More(Top) /\ cmd.op \in ops
    /\ IsDir(Here.id) <=> kind = "dir"
Pure == Same /\ UNCHANGED <<fs, cwd, job, fresh, signal>>
DiskChanged == Same /\ UNCHANGED <<cwd, host, job>>
Changed == DiskChanged /\ signal' = signal

-----------------------------------------------------------------------------
\* Writing an entry: mwrite_one, with the clash option of the command line.

Put(t, d, i, e) == [t EXCEPT ![d] = IF i <= Len(@) THEN [@ EXCEPT ![i] = e] ELSE Append(@, e)]
\* A new entry may cover one that a failed copy has left in the slot.
Spared(d, i) == {x \in strays : x.dir # d \/ x.slot # i}
Wiped(t, d, i) == IF i = 0 THEN t ELSE [t EXCEPT ![d][i] = Free]
Freed(nd, d, i) == IF i = 0 THEN nd ELSE [nd EXCEPT ![tree[d][i].id] = NoNode]
Unused(nd) == {n \in Nodes : nd[n].kind = "free"}
Least(S) == CHOOSE n \in S : \A m \in S : n <= m

AutoName(d, nm) ==
    <<nm[1], Least({k \in nm[2] + 1 .. nm[2] + MaxSlots + 1 : Named(d, <<nm[1], k>>) = {}})>>
\* no_overwrite: neither a directory nor the source itself is overwritten.
Overwritable(d, i, source) == i # source /\ ~IsDir(tree[d][i].id)
\* The name written, and the slot of the entry it overwrites.  A user who will
\* not have a read-only file overwritten is asked for another way out.
Names(d, nm, source) ==
    LET clash == Named(d, nm)
        renamed == [name |-> AutoName(d, nm), victim |-> 0]
        victims == {i \in clash : Overwritable(d, i, source)}
    IN CASE clash = {} -> {[name |-> nm, victim |-> 0]}
         [] clash # {} /\ cmd.clash = "rename" -> {renamed}
         [] clash # {} /\ cmd.clash = "overwrite" ->
                {[name |-> nm, victim |-> i] : i \in victims}
                    \cup (IF \E i \in victims : tree[d][i].ro THEN {renamed} ELSE {})
         [] OTHER -> {}
\* Which slots are big enough depends on the length of the name: any may be.
SlotsFor(d, spare) ==
    {i \in 1 .. MaxSlots : IF i <= Len(tree[d]) THEN tree[d][i] = Free \/ i \in spare
                           ELSE i = Len(tree[d]) + 1}
\* What mwrite_one may do: the name, the entry overwritten, the new slot.
Chosen(d, nm, source, spare) ==
    UNION {{[name |-> w.name, victim |-> w.victim, slot |-> i] : i \in SlotsFor(d, {w.victim} \cup spare)} :
              w \in Names(d, nm, source)}
\* Skipped, no room, or the user skips a read-only file that is in the way.
Declined(d, nm, source, spare) ==
    \/ Chosen(d, nm, source, spare) = {}
    \/ \E w \in Names(d, nm, source) : w.victim # 0 /\ tree[d][w.victim].ro
Marked(n, nm) == fresh' = IF nm[1] \in ShortNames THEN fresh \cup {n} ELSE fresh \ {n}

\* makeit: a directory, whose ".." has the parent's cluster number.
MakesDir(d, nm, source, w, n) ==
    LET nd == Freed(node, d, w.victim)
    IN /\ Unused(node) # {} /\ w \in Chosen(d, nm, source, {}) /\ n = Least(Unused(nd))
       /\ tree' = Put(Wiped(tree, d, w.victim), d, w.slot, Entry(w.name, n, FALSE))
       /\ strays' = Spared(d, w.slot)
       /\ node' = [nd EXCEPT ![n] =
                     [kind |-> "dir", data |-> 0, up |-> [low |-> d, high |-> d \in High]]]
       /\ Marked(n, w.name)
NoDir(d, nm, source) == Unused(node) = {} \/ Declined(d, nm, source, {})

Mmd ==
    LET nm == IF Top.comps = <<>> THEN Dot ELSE Last(Top.comps)
    IN /\ Leaf({"mmd"}, "dir")
       /\ \/ /\ nm \notin {Dot, Up}
             /\ \E w \in Chosen(Top.dir, nm, 0, {}), n \in Nodes : MakesDir(Top.dir, nm, 0, w, n)
             /\ Answer({"got"}) /\ Changed
          \/ /\ nm \in {Dot, Up} \/ NoDir(Top.dir, nm, 0)
             /\ Answer({"err"}) /\ Pure

-----------------------------------------------------------------------------
\* The files of the host. A path is a sequence of names, from the directory the
\* command runs in; links lead to directories.

Followed(p) == IF p \in DOMAIN host /\ host[p].kind = "link" THEN host[p].to ELSE p
Real(p) ==
    LET at[k \in 0 .. Len(p)] == IF k = 0 THEN <<>> ELSE Followed(Append(at[k - 1], p[k]))
    IN at[Len(p)]
Exists(p) == Len(p) <= MaxPath /\ Real(p) \in DOMAIN host \cup {<<>>}
IsHostDir(p) == Real(p) \in {q \in DOMAIN host : host[q].kind = "dir"} \cup {<<>>}
Listing(h, p) == {Last(q) : q \in {q \in DOMAIN h : q # <<>> /\ Front(q) = Real(p)}}
\* The host with one more file or directory, or with another one at that path.
Stored(p, kind, data) ==
    [q \in DOMAIN host \cup {p} |-> IF q = p THEN [kind |-> kind, data |-> data, to |-> <<>>] ELSE host[q]]
Part == 0        \* the data of a file that was cut short

\* What unix_loop has come to.
AtHost == Running /\ Top.fn = "host" /\ More(Top)
HostItem == Append(Top.path, Head(Top.left))
Argument == Len(stack) = 1
\* A link to a directory is followed only when it is an argument.
LinkSkipped ==
    LET p == Append(Real(Top.path), Head(Top.left))
    IN ~Argument /\ p \in {q \in DOMAIN host : host[q].kind = "link"}

HostSkip ==
    /\ AtHost
    /\ \/ ~Exists(HostItem) /\ Answer({"err"})
       \/ LinkSkipped /\ Answer({})
    /\ Pure

-----------------------------------------------------------------------------
\* mcopy

\* mpPickTargetName: the name given as target, or the name of the source.
PickName(e) ==
    CASE Top.fn = "path" /\ job.name # NoName -> job.name
      [] e.id = Root -> NoName
      [] OTHER -> tree[e.dir][e.slot].name
Wild ==
    \/ Top.fn = "loop"
    \/ Top.fn = "host" /\ ~Argument
    \/ Top.fn = "path" /\ Top.comps # <<>> /\ Last(Top.comps) = Star

\* What the copy is made of: an entry of the disk or a file of the host.
AtItem(kind) ==
    \/ Leaf({"mcopy"}, kind)
    \/ /\ AtHost /\ Exists(HostItem) /\ ~LinkSkipped
       /\ IsHostDir(HostItem) <=> kind = "dir"
ItemName ==
    IF Top.fn # "host" THEN PickName(Here)
    ELSE IF Argument /\ job.name # NoName THEN job.name ELSE Head(Top.left)
ItemData == IF Top.fn = "host" THEN host[Real(HostItem)].data ELSE node[Here.id].data
ItemSlot(d) == IF Top.fn # "host" /\ d = Here.dir THEN Here.slot ELSE 0
ItemHolds(d) == Top.fn # "host" /\ IsSubdirOf(d, Here.id)
\* The loop over what a directory holds.  readdir sees what there is when it is
\* called first, in an order of its own (a bound: one order and its reverse).
Inside(h, to, out) ==
    IF Top.fn = "host"
    THEN LET names == SetToSeq(Listing(h, HostItem))
         IN HostFrame(HostItem, IF cmd.backwards THEN Reverse(names) ELSE names, to, out)
    ELSE [LoopFrame(Here, to) EXCEPT !.out = out]

\* writeit.  The source can be the file overwritten when it is a deferred one.
CopiesFile(data, d, nm, source, w, n) ==
    LET nd == Freed(node, d, w.victim)
    IN /\ Unused(nd) # {} /\ w \in Chosen(d, nm, source, {}) /\ n = Least(Unused(nd))
       /\ tree' = Put(Wiped(tree, d, w.victim), d, w.slot, Entry(w.name, n, FALSE))
       /\ strays' = Spared(d, w.slot)
       /\ node' = [nd EXCEPT ![n] = [NoNode EXCEPT !.kind = "file", !.data = data]]
       /\ Marked(n, w.name)
\* The file does not fit, or there was a ^C before: what it overwrites has gone.
CopyFails(d, nm, source) ==
    \E w \in Chosen(d, nm, source, {}) :
        /\ tree' = Wiped(tree, d, w.victim) /\ node' = Freed(node, d, w.victim)
        /\ UNCHANGED <<strays, fresh>>
\* copyfile: the source cannot be read, or the user presses ^C.
\* (cmd.faulty, cmd.interruptible: bounds, what can go wrong does.)
CutOff == (cmd.faulty /\ signal' = signal) \/ (cmd.interruptible /\ signal' = TRUE)
\* That is before the first chunk is written or after it.  Closing the target
\* writes its entry, with its cluster if it had got one; then that is freed.
\* The cache of the directory is not told: as long as the directory is open,
\* the slot counts as free.
CopyCut(d, nm, source) ==
    \E w \in Chosen(d, nm, source, {}) :
        LET unused == Unused(Freed(node, d, w.victim))
        IN /\ unused # {}
           /\ tree' = Wiped(tree, d, w.victim) /\ node' = Freed(node, d, w.victim)
           /\ \E start \in {None, Least(unused)} :
                 strays' = Spared(d, w.slot) \cup {[dir |-> d, slot |-> w.slot, start |-> start]}
           /\ CutOff /\ fresh' = fresh

\* A file named by a pattern is deferred when the target is to be a file:
\* a second one is an error.
Deferable == Top.fn = "path" /\ Wild /\ job.name # NoName

McopyFile ==
    LET d == Top.to  nm == ItemName  source == ItemSlot(d)
    IN /\ AtItem("file") /\ ~Deferable /\ job.side = "dos"
       /\ \/ /\ \E w \in Chosen(d, nm, source, {}), n \in Nodes :
                    CopiesFile(ItemData, d, nm, source, w, n)
             /\ Answer({"got"}) /\ Changed
          \/ CopyFails(d, nm, source) /\ Answer({"err"}) /\ Changed
          \/ CopyCut(d, nm, source) /\ Answer({"err"}) /\ DiskChanged
          \/ Declined(d, nm, source, {}) /\ Answer({"err"}) /\ Pure

Defer ==
    /\ Leaf({"mcopy"}, "file") /\ Deferable
    /\ IF job.held = None
       THEN job' = [job EXCEPT !.held = Here.id] /\ Answer({})
       ELSE job' = [job EXCEPT !.held = None] /\ Answer({"stop", "err"})
    /\ Same /\ UNCHANGED <<fs, cwd, fresh, signal>>

\* The directory the copies go to: an existing one, or a new one.
\* Mutant: the files of a subdirectory go to the target of the directory.
CopyTarget_flat(n) == Top.to
CopyTarget(n) == n
McopyDir ==
    LET d == Top.to  nm == ItemName  source == ItemSlot(d)
        there == SubDir(d, nm)
    IN /\ AtItem("dir") /\ job.side = "dos"
       /\ \/ ~cmd.recursive /\ Wild /\ Answer({}) /\ Pure
          \/ /\ cmd.recursive \/ ~Wild
             /\ \/ ItemHolds(d) /\ Answer({"err"}) /\ Pure
                \/ /\ ~ItemHolds(d) /\ there # None
                   /\ Call(Inside(host, CopyTarget(there), <<>>))
                   /\ Pure
                \/ /\ ~ItemHolds(d) /\ there = None
                   /\ \E w \in Chosen(d, nm, source, {}), n \in Nodes :
                          /\ MakesDir(d, nm, source, w, n)
                          /\ Call(Inside(host, CopyTarget(n), <<>>))
                   /\ Changed
                \/ /\ ~ItemHolds(d) /\ there = None /\ NoDir(d, nm, source)
                   /\ Answer({"err"}) /\ Pure

-----------------------------------------------------------------------------
\* mcopy to the host: unix_write and unix_copydir.

\* buildUnixFilename; a copy of the root has no name.
HostTarget(out, nm) == IF nm = NoName THEN out ELSE Append(out, nm)
Creatable(p) == Len(p) <= MaxPath /\ IsHostDir(Front(p))

\* mt_unix_write asks before it overwrites, unless told not to (-n); then it
\* does not look either whether it copies a file to itself.
Asks(p) == ~cmd.nowarn /\ Exists(p)
Refuses(p, same) ==
    \/ Asks(p) /\ (cmd.noclobber \/ IsHostDir(p) \/ same \/ cmd.clash # "overwrite")
    \/ ~Asks(p) /\ IsHostDir(p)
    \/ signal \/ (~Exists(p) /\ ~Creatable(p))
\* The target is emptied before the source is read. A write that fails is taken
\* for a success (copyfile); a full disk also ends the command. A source that
\* cannot be read to its end leaves no target.
WritesHost(p, data, same, res) ==
    LET cut(x) == Stored(Real(p), "file", x)
    IN \/ /\ Refuses(p, same) /\ res = {"err"}
          /\ UNCHANGED <<host, signal>>
       \/ /\ ~Refuses(p, same) /\ res = {"got"}
          /\ \/ host' = cut(IF same THEN Part ELSE data) /\ signal' = signal
             \/ cmd.faulty /\ host' = cut(Part) /\ signal' \in {signal, TRUE}
       \/ /\ ~Refuses(p, same) /\ res = {"err"} /\ CutOff
          /\ host' = [q \in DOMAIN host \ {Real(p)} |-> host[q]]

ToHostFile ==
    LET p == HostTarget(Top.out, ItemName)
    IN /\ AtItem("file") /\ ~Deferable /\ job.side = "host"
       /\ \E res \in {{"got"}, {"err"}} :
              /\ WritesHost(p, ItemData, Top.fn = "host" /\ Real(HostItem) = Real(p), res)
              /\ Answer(res)
       /\ Same /\ UNCHANGED <<disk, cwd, job, fresh>>

\* makeUnixDir takes a directory that exists.
ToHostDir ==
    LET p == HostTarget(Top.out, ItemName)
        made == IF Exists(p) THEN host ELSE Stored(Real(p), "dir", 0)
    IN /\ AtItem("dir") /\ job.side = "host"
       /\ \/ ~cmd.recursive /\ Wild /\ Answer({}) /\ host' = host
          \/ /\ cmd.recursive \/ ~Wild
             /\ \/ /\ IsHostDir(p) \/ (~Exists(p) /\ Creatable(p))
                   /\ host' = made
                   /\ Call(Inside(made, None, p))
                \/ /\ ~IsHostDir(p) /\ (Exists(p) \/ ~Creatable(p))
                   /\ Answer({"err"}) /\ host' = host
       /\ Same /\ UNCHANGED <<disk, cwd, job, fresh, signal>>

\* unix_dir_loop returns to a copydir; a ^C is no error for it.
EndHost ==
    /\ Running /\ Top.fn = "host" /\ ~Argument /\ Ended(Top)
    /\ Return(Top.ret \cup {"got"}) /\ Pure

-----------------------------------------------------------------------------
\* mmove and mren: renameit.

\* The new entry may take the slot of the old one.  Only the low half of the
\* cluster number in ".." is replaced.
Moves(e, d, nm, w) ==
    LET moved == Wiped(Wiped(tree, d, w.victim), e.dir, e.slot)
        nd == Freed(node, d, w.victim)
    IN /\ tree' = Put(moved, d, w.slot, [tree[e.dir][e.slot] EXCEPT !.name = w.name])
       /\ strays' = Spared(d, w.slot)
       /\ node' = IF IsDir(e.id) /\ d # e.dir THEN [nd EXCEPT ![e.id].up.low = d] ELSE nd
       /\ Marked(e.id, w.name)
Source(e, d) == IF d = e.dir THEN e.slot ELSE 0

Rename ==
    LET d == IF cmd.op = "mren" THEN Here.dir ELSE Top.to
        nm == PickName(Here)
        source == Source(Here, d)
    IN /\ \/ Leaf({"mmove"}, "file") /\ d # None
          \/ Leaf({"mmove"}, "dir") /\ d # None /\ ~IsSubdirOf(d, Here.id) /\ Here.id # Root
          \/ Leaf({"mren"}, "file")
          \/ Leaf({"mren"}, "dir") /\ Here.id # Root
       /\ \/ /\ \E w \in Chosen(d, nm, source, {source} \ {0}) : Moves(Here, d, nm, w)
             /\ Answer({"got"}) /\ Changed
          \/ Declined(d, nm, source, {source} \ {0}) /\ Answer({"err"}) /\ Pure

MoveRefused ==
    /\ Leaf({"mmove"}, "dir") /\ Top.to # None
    /\ IsSubdirOf(Top.to, Here.id) \/ Here.id = Root
    /\ Answer({"err"}) /\ Pure

\* mmove does not look at the result of dos_target_lookup: without a target
\* it crashes at the first source.  mren of the root exits in dir_write.
Abort ==
    /\ \/ /\ Leaf({"mmove"}, "file") \/ Leaf({"mmove"}, "dir")
          /\ Top.to = None
       \/ Leaf({"mren"}, "dir") /\ Here.id = Root
    /\ stack' = <<>> /\ job' = [job EXCEPT !.phase = "aborted"]
    /\ Same /\ UNCHANGED <<fs, cwd, fresh, signal>>

-----------------------------------------------------------------------------
\* mdel, mrd, mdeltree

\* del_entry; the answer is the user's, when the entry is read-only.
Erased(e) == /\ tree' = Wiped(tree, e.dir, e.slot)
             /\ node' = [node EXCEPT ![e.id] = NoNode]
             /\ UNCHANGED <<strays, fresh>>
Protected(e) == tree[e.dir][e.slot].ro

DelFile ==
    /\ Leaf(Deletes, "file") /\ (Top.fn = "del" => cmd.op = "mdeltree")
    /\ \/ Erased(Here) /\ Answer({"got"}) /\ Changed
       \/ Protected(Here) /\ Answer({"err"}) /\ Pure
DelDir ==
    /\ Leaf(Deletes, "dir") /\ (Top.fn = "del" => cmd.op = "mdeltree")
    /\ Call(Frame("del", Here.id, <<Star>>, None, Here)) /\ Pure
NotEmpty ==
    /\ Running /\ Top.fn = "del" /\ More(Top) /\ cmd.op # "mdeltree"
    /\ Answer({"err"}) /\ Pure
Emptied(f) == ~signal /\ "err" \notin f.ret
EndDel ==
    /\ Running /\ Top.fn = "del" /\ ~More(Top)
    /\ \/ /\ Emptied(Top) /\ Top.dir # Root /\ Erased(Top.at)
          /\ Return({"got"}) /\ Changed
       \/ /\ ~Emptied(Top) \/ Top.dir = Root \/ (Top.dir # Root /\ Protected(Top.at))
          /\ Return({"err"}) /\ Pure

-----------------------------------------------------------------------------
\* mattrib -/, mdu, mcd

Attrib ==
    /\ Leaf({"mattrib"}, "file") \/ Leaf({"mattrib"}, "dir")
    /\ tree' = IF Here.id = Root THEN tree ELSE [tree EXCEPT ![Here.dir][Here.slot].ro = TRUE]
    /\ IF IsDir(Here.id) THEN Call(LoopFrame(Here, None)) ELSE Answer({"got"})
    /\ Same /\ UNCHANGED <<node, strays, cwd, host, job, fresh, signal>>

\* A directory counts its own cluster, unless its parent is the root.
Own(e) == IF e.dir = Root THEN 0 ELSE 1
MduFile ==
    /\ Leaf({"mdu"}, "file")
    /\ stack' = <<Add([Top EXCEPT !.pos = After, !.sum = @ + 1], {"got"})>> \o Tail(stack)
    /\ Pure
MduDir ==
    /\ Leaf({"mdu"}, "dir")
    /\ Call([LoopFrame(Here, None) EXCEPT !.sum = Own(Here)]) /\ Pure

Mcd ==
    /\ Leaf({"mcd"}, "dir")
    /\ cwd' = PathOf(Here.id) /\ Answer({"got", "stop"})
    /\ Same /\ UNCHANGED <<fs, job, fresh, signal>>

-----------------------------------------------------------------------------
\* The end of a loop, of an argument and of the command.

Caught(r) == IF signal THEN r \cup {"err"} ELSE r

EndPath ==
    /\ Running /\ Len(stack) > 1 /\ Top.fn = "path" /\ Ended(Top)
    /\ Return(Caught(Top.ret)) /\ Pure

\* mt_dos_loop returns to recursive_attrib, dir_mdu or a copydir.
EndLoop ==
    /\ Running /\ Top.fn = "loop" /\ Ended(Top)
    /\ IF cmd.op = "mdu"
       THEN /\ stack' = <<[Add(stack[2], Caught(Top.ret)) EXCEPT !.sum = @ + Top.sum]>>
                            \o SubSeq(stack, 3, Len(stack))
            /\ job' = [job EXCEPT !.printed = @ \cup {<<Top.dir, Top.sum>>}]
       ELSE /\ Return(Caught(Top.ret) \cup (IF cmd.op = "mcopy" THEN {"got"} ELSE {}))
            /\ job' = job
    /\ Same /\ UNCHANGED <<fs, cwd, fresh, signal>>

\* common_dos_loop has walked the whole path: the deferred file is copied.
McopyHeld ==
    LET d == job.target  data == node[job.held].data
    IN /\ Running /\ Len(stack) = 1 /\ Ended(Top) /\ job.held # None
       /\ \/ /\ job.side = "dos" /\ host' = host
             /\ \/ /\ ~signal
                   /\ \E w \in Chosen(d, job.name, 0, {}), n \in Nodes :
                         CopiesFile(data, d, job.name, 0, w, n)
                   /\ signal' = signal /\ stack' = <<[Top EXCEPT !.ret = {"got"}]>>
                \/ /\ CopyFails(d, job.name, 0) /\ signal' = signal
                   /\ stack' = <<[Top EXCEPT !.ret = {"err"}]>>
                \/ /\ ~signal /\ CopyCut(d, job.name, 0)
                   /\ stack' = <<[Top EXCEPT !.ret = {"err"}]>>
                \/ /\ Declined(d, job.name, 0, {}) /\ stack' = <<[Top EXCEPT !.ret = {"err"}]>>
                   /\ UNCHANGED <<disk, fresh, signal>>
          \/ /\ job.side = "host" /\ UNCHANGED <<disk, fresh>>
             /\ \E res \in {{"got"}, {"err"}} :
                    /\ WritesHost(HostTarget(job.out, job.name), data, FALSE, res)
                    /\ stack' = <<[Top EXCEPT !.ret = res]>>
       /\ job' = [job EXCEPT !.held = None]
       /\ Same /\ cwd' = cwd

\* The frame of an argument.
ArgFrame(arg, to, out) ==
    IF arg.host THEN HostFrame(Front(arg.path), <<Last(arg.path)>>, to, out)
    ELSE PathFrame(StartDir(arg), arg.path, to, out)

\* main_loop: an argument that nothing matched is an error.
EndArg ==
    LET r == IF Top.fn = "host" THEN Top.ret ELSE Caught(Top.ret)
        ret == IF r \cap {"got", "err"} = {} THEN r \cup {"err"} ELSE r
        next == job.arg + 1
        stops == next > Len(cmd.from) \/ signal \/ (cmd.quit /\ "err" \in job.ret \cup ret)
    IN /\ Running /\ Len(stack) = 1 /\ Ended(Top) /\ job.held = None
       /\ job' = [job EXCEPT !.ret = @ \cup ret, !.arg = next,
                             !.phase = IF stops THEN "done" ELSE "running"]
       /\ stack' = IF stops THEN <<>> ELSE <<ArgFrame(cmd.from[next], job.target, job.out)>>
       /\ IF stops THEN cwd' = cwd ELSE Forget({cmd.from[next]})
       /\ Same /\ UNCHANGED <<fs, fresh, signal>>

\* The directories that the next step opens: what matches the path, the target
\* of a copied directory, the current directory for the next argument.
Opens ==
    (IF Top.fn # "host" /\ More(Top) /\ IsDir(Here.id) THEN {Here.id} ELSE {})
    \cup (IF AtItem("dir") THEN {SubDir(Top.to, ItemName)} ELSE {})
    \cup (IF Len(stack) = 1 /\ Ended(Top) /\ job.arg < Len(cmd.from) /\ ~signal /\ ~cmd.quit
          THEN {StartDir(cmd.from[job.arg + 1])} ELSE {})
\* The target of the command, with the directories above it, is open all the time.
Reread(d) == (\E x \in strays : x.dir = d) /\ job.target \notin Below(tree, d)
\* A directory that was closed meanwhile is opened and read again, and the entry
\* left in it is a file as any other.  (A bound: the model goes no further.)
BeyondModel == Running /\ strays # {} /\ \E d \in Opens : Reread(d)
LeaveOff ==
    /\ BeyondModel
    /\ stack' = <<>> /\ job' = [job EXCEPT !.phase = "beyond"]
    /\ Same /\ UNCHANGED <<fs, cwd, fresh, signal>>

\* unix_target_lookup: an existing directory, or a name in the directory before it.
HostTargetOf(path) ==
    IF IsHostDir(path) THEN [out |-> path, name |-> NoName]
    ELSE [out |-> Front(path), name |-> Last(path)]
NoTarget == [dir |-> None, name |-> NoName]

\* A command starts: its target is looked up, then its first argument.
Start ==
    /\ job.phase = "idle"
    /\ \E c \in Commands :
        LET side == IF c.op \in Copies /\ c.to.host THEN "host" ELSE "dos"
            h == IF side = "host" THEN HostTargetOf(c.to.path) ELSE [out |-> <<>>, name |-> NoName]
            t == CASE side = "host" -> [NoTarget EXCEPT !.name = h.name]
                   [] side = "dos" /\ c.op \in Copies -> TargetOf(c.to)
                   [] c.op = "mren" -> [NoTarget EXCEPT !.name = Last(c.to.path)]
                   [] OTHER -> NoTarget
            bad == \/ Len(c.from) # 1 /\ t.name # NoName
                   \/ c.op = "mcopy" /\ side = "dos" /\ t.dir = None
        IN /\ cmd' = c
           /\ job' = [arg |-> 1, side |-> side, target |-> t.dir, out |-> h.out, name |-> t.name,
                      held |-> None, ret |-> IF bad THEN {"err"} ELSE {}, printed |-> {},
                      phase |-> IF bad THEN "done" ELSE "running"]
           /\ stack' = IF bad THEN <<>> ELSE <<ArgFrame(c.from[1], t.dir, h.out)>>
           /\ Forget({c.from[1]} \cup (IF c.op \in Copies THEN {c.to} ELSE {}))
    /\ UNCHANGED <<fs, fresh, signal, before>>

\* The user presses ^C, or answers "quit" to a question.
Interrupt ==
    /\ Running /\ ~signal /\ cmd.interruptible /\ signal' = TRUE
    /\ UNCHANGED <<fs, cwd, cmd, job, stack, fresh, before>>

WalkInit ==
    /\ before \in Disks
    /\ tree = before.tree /\ node = before.node /\ cwd = before.cwd /\ host = before.host
    /\ strays = {} /\ stack = <<>> /\ fresh = {} /\ signal = FALSE
    /\ cmd = CHOOSE c \in Commands : TRUE
    /\ job = [arg |-> 0, side |-> "dos", target |-> None, out |-> <<>>, name |-> NoName, held |-> None, ret |-> {},
              printed |-> {}, phase |-> "idle"]

Step ==
    \/ Descend \/ Mmd \/ McopyFile \/ Defer \/ McopyDir \/ Rename \/ MoveRefused \/ Abort
    \/ DelFile \/ DelDir \/ NotEmpty \/ EndDel \/ Attrib \/ MduFile \/ MduDir \/ Mcd
    \/ EndPath \/ EndLoop \/ McopyHeld \/ EndArg
    \/ HostSkip \/ ToHostFile \/ ToHostDir \/ EndHost
Walk == IF BeyondModel THEN LeaveOff ELSE Step
\* The process has ended; any other state without a step is a deadlock.
Over == job.phase \in {"done", "aborted", "beyond"} /\ UNCHANGED walkVars
WalkNext == Start \/ Interrupt \/ Walk \/ Over

WalkSpec == WalkInit /\ [][WalkNext]_walkVars
\* Nothing blocks a walk: the process goes on with it.  This is WF_walkVars(Walk),
\* as a step of Walk is enabled in every state with an active loop.
FairSpec == WalkSpec /\ ([]<>~Running \/ []<><<Walk>>_walkVars)

-----------------------------------------------------------------------------
(***************************************************************************)
(* Between two steps of any command the tree is a tree: every file and     *)
(* directory is in exactly one slot and is reached from the root, no name  *)
(* is twice in a directory, nothing freed is still listed, and ".." has    *)
(* the number of the parent (its low half at least).  Entries that failed  *)
(* copies have left stand apart: in directories of the tree, in slots that *)
(* hold nothing of it.                                                     *)
(***************************************************************************)
StraysApart == \A x \in strays : IsDir(x.dir) /\ x.slot \notin Slots(tree, x.dir)
TreeSound == IsTree(tree, node) /\ StraysApart

\* The paths below a directory, with what is found there.
Pairs(t, d) ==
    LET longer(x) == {<<Append(x[1], t[x[2]][i].name), t[x[2]][i].id>> : i \in Slots(t, x[2])}
        upTo[k \in 0 .. Cardinality(Nodes)] ==
            IF k = 0 THEN {<< <<>>, d>>}
            ELSE LET S == upTo[k - 1] IN S \cup UNION {longer(x) : x \in S}
    IN upTo[Cardinality(Nodes)]
Shape(t, nd, d) == {<<x[1], nd[x[2]].kind, nd[x[2]].data>> : x \in Pairs(t, d) \ {<< <<>>, d>>}}
\* What an absolute argument named when the command started.
Plain(arg) == arg.abs /\ Range(arg.path) \cap {Up, Dot} = {}
NamedBy(b, arg) ==
    {x[2] : x \in {x \in Pairs(b.tree, Root) :
        /\ ~arg.host /\ Len(x[1]) = Len(arg.path)
        /\ \A k \in DOMAIN arg.path : arg.path[k] \in {Star, x[1][k]}}}
Asked == UNION {NamedBy(before, cmd.from[i]) : i \in DOMAIN cmd.from}
Gone == Live(before.node) \ Live(node)
Clean == job.phase = "done" /\ "err" \notin job.ret

\* Unless told to overwrite, the commands that write lose nothing; those that
\* do not move things leave every path as it was.
NothingLost ==
    /\ cmd.op \notin Deletes => \A n \in Live(before.node) :
          \/ node[n].kind = before.node[n].kind /\ node[n].data = before.node[n].data
          \/ cmd.clash = "overwrite" /\ before.node[n].kind = "file"
    /\ cmd.op \notin Deletes \cup {"mmove", "mren"} /\ cmd.clash # "overwrite" =>
          Shape(before.tree, before.node, Root) \subseteq Shape(tree, node, Root)
\* Nor on the host: only -n copies a file onto itself, whatever path leads to it.
HostIntact ==
    /\ \A p \in DOMAIN before.host :
          \/ p \in DOMAIN host /\ host[p] = before.host[p]
          \/ before.host[p].kind = "file" /\ (cmd.nowarn \/ cmd.clash = "overwrite")
    /\ Len(cmd.from) = 1 /\ cmd.from[1].host /\ ~cmd.nowarn =>
          LET p == Real(cmd.from[1].path)
          IN p \in DOMAIN before.host => p \in DOMAIN host /\ host[p] = before.host[p]
\* What is deleted was named, or is below a directory named; without an error
\* all of it has gone, and mrd removes empty directories only.
DeletedAsNamed ==
    cmd.op \in Deletes =>
        /\ \A n \in Gone : \E m \in Asked :
              n \in Below(before.tree, m) /\ (cmd.op # "mdeltree" => n = m)
        /\ cmd.op = "mrd" => \A n \in Gone : Slots(before.tree, n) = {}
        /\ Clean => \A m \in Asked :
              IF cmd.op = "mdeltree" THEN Below(before.tree, m) \subseteq Gone
              ELSE m \in Gone \/ (before.node[m].kind = "dir" <=> cmd.op = "mdel")
\* Without an error a recursive copy has everything its source had, links to
\* directories aside. A ^C on the host and a short write are no errors.
HostShape(h, p) ==
    {<<SubSeq(q, Len(p) + 1, Len(q)), h[q].kind, h[q].data>> :
        q \in {q \in DOMAIN h : Len(q) >= Len(p) /\ SubSeq(q, 1, Len(p)) = p /\ h[q].kind # "link"}}
DiskShape(t, nd, d, nm) ==
    UNION {{<< <<>>, nd[n].kind, nd[n].data>>} \cup Shape(t, nd, n) :
              n \in {t[d][i].id : i \in {i \in Slots(t, d) : t[d][i].name = nm}}}
CopyComplete ==
    LET copy(nm) == IF job.side = "dos" THEN DiskShape(tree, node, job.target, nm)
                    ELSE HostShape(host, Real(Append(job.out, nm)))
        arg == cmd.from[1]
    IN /\ Clean /\ cmd.op = "mcopy" /\ cmd.recursive /\ Len(cmd.from) = 1
       /\ cmd.clash = "skip" /\ job.name = NoName
       /\ signal => ~arg.host
       /\ \A p \in DOMAIN host : host[p].kind = "file" => host[p].data # Part
       => /\ \A s \in Asked \ {Root} :
                LET e == CHOOSE x \in Entries(before.tree, s) : TRUE
                    nm == before.tree[e[1]][e[2]].name
                IN {<< <<>>, before.node[s].kind, before.node[s].data>>}
                      \cup Shape(before.tree, before.node, s) \subseteq copy(nm)
          /\ arg.host => HostShape(before.host, Real(arg.path)) \subseteq copy(Last(arg.path))
\* mattrib -/ reaches everything; mdu's total of a directory is the clusters
\* of all there is below it (for a directory of the root: minus its own).
AllReached ==
    /\ Clean /\ cmd.op = "mattrib" => \A m \in Asked : \A n \in Below(tree, m) \ {Root} :
          Protected(Self(n))
    /\ \A x \in job.printed : x[1] # Root /\ Self(x[1]).dir # Root =>
          x[2] = Cardinality(Below(tree, x[1]))

\* Only a copy leaves an entry behind, and is reported as failed; ^C makes one at
\* most.  Its cluster, which may be another's by now, was no file's before.
StraysRight ==
    /\ strays # {} => cmd.op = "mcopy" /\ "err" \in job.ret
    /\ ~cmd.faulty => Cardinality(strays) <= 1 /\ (strays # {} => signal)
    /\ cmd.clash # "overwrite" => \A x \in strays : x.start \notin Live(before.node)

(***************************************************************************)
(* What a command that has ended has done to the tree, whatever the walk   *)
(* met on its way: recursion, wildcards, clashes, ^C, a full disk.         *)
(***************************************************************************)
ResultRight ==
    job.phase \in {"done", "aborted"} =>
        /\ NothingLost /\ HostIntact /\ StraysRight
        /\ (\A i \in DOMAIN cmd.from : Plain(cmd.from[i])) =>
              DeletedAsNamed /\ CopyComplete /\ AllReached

(***************************************************************************)
(* mtools.texi: mdu lists "the space occupied by a directory, its          *)
(* subdirectories and its files".                                          *)
(***************************************************************************)
TotalsComplete ==
    \A x \in job.printed : x[1] # Root => x[2] = Cardinality(Below(tree, x[1]))

(***************************************************************************)
(* Every command ends, also when a walk meets the copies it has made: the  *)
(* disk or the directory is full at last.  (Or it comes to where the model *)
(* ends: a directory read again in which a failed copy has left an entry.) *)
(***************************************************************************)
WalkEnds == (job.phase = "running") ~> (job.phase \in {"done", "aborted", "beyond"})

=============================================================================
