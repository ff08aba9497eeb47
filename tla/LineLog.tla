------------------------------ MODULE LineLog ------------------------------
(***************************************************************************)
(* What a line file promises its users (infrastructure/store/io.py): a log *)
(* that grows by whole lines, which an editor may rewrite, but only the    *)
(* part of it that the editor has seen.                                    *)
(***************************************************************************)
EXTENDS SequencesExt, Integers

CONSTANTS Records,  \* the lines, each appended once
          Editors   \* those who rewrite the log

VARIABLES lines,    \* the log, as a reader finds it
          told,     \* the lines whose append has returned to its caller
          seen      \* for each editor, the lines that its rewrite replaces

vars == <<lines, told, seen>>

Init ==
    /\ lines = <<>>
    /\ told = {}
    /\ seen = [e \in Editors |-> <<>>]

\* A line lands after every line that is there.
Land(r) ==
    /\ lines' = Append(lines, r)
    /\ UNCHANGED <<told, seen>>

\* An append returns: from here its caller relies on the line.
Tell(r) ==
    /\ told' = told \cup {r}
    /\ r \in ToSet(lines)
    /\ UNCHANGED <<lines, seen>>

\* An editor settles what it is to replace. It may be out of date already.
Look(e) ==
    /\ seen' = [seen EXCEPT ![e] = seen'[e]]
    /\ seen'[e] \in Seq(Records)
    /\ UNCHANGED <<lines, told>>

\* A rewrite: the log still begins with what the editor saw, lines that are there take
\* the place of it, and what was appended since stands as it was.
Rewrite(e) ==
    LET since == SubSeq(lines, Len(seen[e]) + 1, Len(lines))
    IN  /\ IsPrefix(seen[e], lines)
        /\ IsSuffix(since, lines')
        /\ ToSet(lines') \subseteq ToSet(lines)
        /\ seen' = [seen EXCEPT ![e] = <<>>]
        /\ UNCHANGED told

Next ==
    \/ \E e \in Editors : Look(e) \/ Rewrite(e)
    \/ \E r \in Records : Land(r) \/ Tell(r)
=============================================================================
