---------------------------- MODULE MCTreeWalk ----------------------------
EXTENDS TreeWalk

A == <<"a", 0>>
B == <<"b", 0>>
X == <<"x", 0>>
D == <<"d", 0>>
E == <<"e", 0>>
L == <<"l", 0>>
\* "b" is the name that needs a long name entry.
MCShort == {"a", "x"}
MCBases == {"", "*", "..", ".", "a", "b", "x", "d", "e", "l"}
MCHigh == {2}

File(n) == [NoNode EXCEPT !.kind = "file", !.data = n]
Dir(p) == [NoNode EXCEPT !.kind = "dir", !.up = [low |-> p, high |-> p \in High]]
Slot(nm, n) == Entry(nm, n, FALSE)
Blank == [n \in 1 .. 9 |-> <<>>]
\* The host has x, d/a, d/e/b and two links to d, l and d/l.
HFile(n) == [kind |-> "file", data |-> n, to |-> <<>>]
HDir == [kind |-> "dir", data |-> 0, to |-> <<>>]
HLink == [kind |-> "link", data |-> 0, to |-> <<D>>]
Home == <<X>> :> HFile(11) @@ <<D>> :> HDir @@ <<D, A>> :> HFile(12)
        @@ <<D, E>> :> HDir @@ <<D, E, B>> :> HFile(13) @@ <<L>> :> HLink @@ <<D, L>> :> HLink
\* /a/x (read-only), /a/b/x, /a/b/b/ and /b, a file; the mcwd file says /a/b.
Deep ==
    [tree |-> (0 :> <<Slot(A, 1), Slot(B, 5)>>
               @@ 1 :> <<Entry(X, 3, TRUE), Slot(B, 2)>>
               @@ 2 :> <<Slot(X, 4), Free, Slot(B, 6)>> @@ Blank),
     node |-> <<Dir(0), Dir(1), File(3), File(4), File(5), Dir(2), NoNode, NoNode, NoNode>>,
     cwd |-> <<A, B>>, host |-> Home]
\* /a/x, /a/a/ (empty), /b/x, /b/e; a free slot in the root; the mcwd directory is gone.
Wide ==
    [tree |-> (0 :> <<Free, Slot(A, 1), Slot(B, 2)>>
               @@ 1 :> <<Slot(X, 3), Slot(A, 5)>>
               @@ 2 :> <<Slot(X, 4), Slot(E, 6)>> @@ Blank),
     node |-> <<Dir(0), Dir(0), File(3), File(4), Dir(1), File(6), NoNode, NoNode, NoNode>>,
     cwd |-> <<B, B>>, host |-> Home]
MCDisks == {Deep, Wide}

Abs(p) == [abs |-> TRUE, path |-> p, host |-> FALSE]
Unix(p) == [abs |-> TRUE, path |-> p, host |-> TRUE]
Rel(p) == [abs |-> FALSE, path |-> p, host |-> FALSE]
NoArg == Rel(<<>>)
Line(op, from, to, clash, rec) ==
    [op |-> op, from |-> from, to |-> to, clash |-> clash, recursive |-> rec,
     quit |-> FALSE, interruptible |-> FALSE, nowarn |-> FALSE, noclobber |-> FALSE, faulty |-> FALSE,
     backwards |-> FALSE]
Clashes == {"skip", "overwrite", "rename"}
Sources == {<<>>, <<A>>, <<B>>, <<A, B>>, <<A, Star>>, <<Star>>, <<Star, X>>, <<A, B, Up, X>>,
          <<A, B, Star>>, <<Dot, A, Dot>>}
Targets == {<<>>, <<A>>, <<B>>, <<A, A>>, <<A, B>>, <<A, B, B>>, <<A, X>>, <<X>>, <<X, X>>}
Single ==
    {Line("mcopy", <<Abs(p)>>, Abs(t), c, r) :
        p \in Sources, t \in Targets, c \in Clashes, r \in BOOLEAN}
    \cup {Line("mmove", <<Abs(p)>>, Abs(t), c, FALSE) : p \in Sources, t \in Targets, c \in Clashes}
    \cup {Line("mren", <<Rel(p)>>, Rel(<<X>>), c, FALSE) : p \in Sources, c \in Clashes}
    \cup {Line("mmd", <<Rel(p)>>, NoArg, c, FALSE) : p \in Sources, c \in Clashes}
    \cup {Line(op, <<Abs(p)>>, NoArg, "skip", FALSE) :
             op \in {"mdel", "mrd", "mdeltree", "mattrib", "mdu", "mcd"}, p \in Sources}
    \cup {Line(op, <<Rel(p)>>, NoArg, "skip", FALSE) :
             op \in {"mdel", "mcd"}, p \in {<<>>, <<X>>, <<Up>>, <<Up, Star>>}}
Several ==
    {Line(op, <<Abs(<<A, X>>), Rel(<<Star>>)>>, t, "rename", op = "mcopy") :
        op \in {"mcopy", "mmove"}, t \in {Abs(<<B>>), Abs(<<A>>), Abs(<<X>>), Rel(<<Up>>)}}
    \cup {Line("mcopy", <<Abs(<<B, Star>>)>>, t, "skip", FALSE) : t \in {Abs(<<X>>), Unix(<<E>>)}}
    \cup {Line("mdeltree", <<Abs(<<A, X>>), Abs(<<A>>)>>, NoArg, "skip", FALSE)}
\* ^C at any moment, and mcopy -Q.
Broken ==
    {[c EXCEPT !.interruptible = TRUE] :
        c \in {c \in Single : c.op \in {"mcopy", "mmove", "mdeltree"} /\ c.from[1].path = <<Star>>
                              /\ c.to \in {NoArg, Abs(<<A>>), Abs(<<B>>)}}}
    \cup {[c EXCEPT !.quit = TRUE] : c \in {c \in Several : c.op = "mcopy"}}
\* mcopy from and to the host, with -n, with no target, and with ^C.
ToHost ==
    {Line("mcopy", <<Abs(p)>>, Unix(t), c, r) :
        p \in {<<>>, <<A>>, <<B>>, <<A, Star>>, <<A, X>>}, t \in {<<>>, <<D>>, <<X>>, <<D, B>>},
        c \in {"skip", "overwrite"}, r \in BOOLEAN}
FromHost ==
    {[Line("mcopy", <<Unix(p)>>, Abs(t), c, TRUE) EXCEPT !.backwards = (c = "rename")] :
        p \in {<<X>>, <<D>>, <<L>>, <<D, X>>}, t \in {<<>>, <<A>>, <<B>>, <<X>>}, c \in Clashes}
OnHost ==
    {[Line("mcopy", <<Unix(p)>>, Unix(t), c, TRUE) EXCEPT !.nowarn = n, !.backwards = b] :
        p \in {<<X>>, <<D>>, <<L>>, <<L, A>>, <<D, E>>}, t \in {<<>>, <<D>>, <<D, E>>, <<E>>},
        c \in {"skip", "overwrite"}, n \in BOOLEAN, b \in BOOLEAN}
OfHost ==
    ToHost \cup FromHost \cup OnHost
        \cup {[c EXCEPT !.noclobber = TRUE] :
                 c \in {c \in ToHost \cup OnHost : c.to.path = <<>> /\ c.clash = "overwrite"}}
        \cup {[c EXCEPT !.interruptible = TRUE] :
                 c \in {c \in ToHost \cup FromHost : c.recursive /\ c.clash = "skip" /\ c.to.path = <<>>}}
        \cup {[Line("mcopy", <<Abs(<<A, Star>>)>>, Unix(<<E>>), "skip", FALSE) EXCEPT !.interruptible = TRUE]}
        \cup {[c EXCEPT !.faulty = TRUE] :
                 c \in {c \in ToHost \cup OnHost : c.to.path \in {<<X>>, <<D>>} /\ c.clash = "overwrite"
                                                   /\ c.from[1].path \in {<<A, Star>>, <<X>>}}}
        \cup {[Line("mcopy", <<Unix(<<L>>), Abs(<<A>>), Unix(<<D>>)>>, t, "rename", TRUE) EXCEPT !.quit = q] :
                 t \in {Unix(<<>>), Abs(<<B>>)}, q \in BOOLEAN}
\* Copies to the disk that fail while they read: a file, a tree, and a tree
\* before another argument, which may go through what is left of it.
Failing ==
    {[c EXCEPT !.faulty = TRUE] :
        c \in {Line("mcopy", <<Abs(p)>>, Abs(t), c, TRUE) :
                  p \in {<<A>>, <<A, X>>, <<A, Star>>}, t \in {<<A>>, <<B>>, <<X>>}, c \in Clashes}
             \cup {Line("mcopy", <<Unix(<<D>>)>>, Abs(t), "overwrite", TRUE) : t \in {<<>>, <<A>>}}
             \cup {Line("mcopy", <<Abs(q), p>>, Abs(<<A>>), c, TRUE) :
                       q \in {<<B>>, <<A, B>>}, c \in {"overwrite", "rename"},
                       p \in {Abs(<<A, B, Star>>), Abs(<<B>>), Unix(<<X>>), Rel(<<X>>)}}}
MCCommands == Single \cup Several \cup Broken \cup OfHost \cup Failing
=============================================================================
