----------------------------- MODULE MCDirSlots -----------------------------
(* Small directories for TLC: two long names that have the same short name,   *)
(* which is a third name, and the names it is renamed to.                    *)
EXTENDS DirSlots

MCNames == {"report", "results", "re", "re1", "re2", "re3", "old"}
MCShortOf ==
    [n \in MCNames |-> IF n \in {"report", "results"} THEN "re" ELSE n]
MCRenamed == [n \in MCNames |-> CASE n = "re" -> "re1" [] n = "re1" -> "re2" [] OTHER -> "re3"]
MCVses == [n \in MCNames |-> CASE n = "report" -> 1 [] n = "results" -> 2 [] OTHER -> 0]

\* An empty directory and one with a file.
Plain == { <<End, End, End>>, <<Main("re"), End, End>> }
\* A long name without its file, and slots in use behind the end mark.
Orphan == <<Vse("results", 1, FALSE, "re"), End, End>>
Ghost == <<Vse("report", 1, TRUE, "re"), Main("re"), End, Main("old"), End, End>>
MCInitial == Plain \cup {Orphan, Ghost}

\* mmd -D s leaves what is there alone; mcopy and mren ask.
MCAnswers ==
    [c \in Commands |->
        [primary : IF c = "mmd" THEN {"skip"} ELSE {"skip", "overwrite"},
         secondary : {"skip", "autorename"}]]
=============================================================================
