------------------------------ MODULE LineFile ------------------------------
(***************************************************************************)
(* One line file (infrastructure/store/io.py), shared by processes that    *)
(* append to it, that rewrite it, and that read on from where they left    *)
(* off. Nothing but the file and its write lock is shared.                 *)
(*                                                                         *)
(* A file is a sequence of pieces. A line is its head, its body unless it  *)
(* was compacted away, and its tail, which ends in the newline. An append  *)
(* killed inside its write leaves the head alone. The heads of two lines   *)
(* may be the same bytes (Prefix), as the JSON lines of a file begin       *)
(* alike.                                                                  *)
(***************************************************************************)
EXTENDS SequencesExt, FiniteSetsExt, Integers

CONSTANTS Lines,       \* the lines to append, one append_line call each
          Prefix,      \* the bytes a line begins with
          Dataset,     \* the dataset of each line a compaction may move: the rest
                       \* have another role, or no field to move
          Droppers,    \* callers of SiteRecordStore.drop_before
          Compactors,  \* callers of MeasurementArchive.rewrite_cell_file
          Indexers,    \* callers of MeasurementArchive.reindex
          Tails,       \* readers that keep a FileMark between their reads
          Inodes,      \* inode numbers; one that is free is used again
          None

Rewriters == Droppers \cup Compactors
Readers == Tails \cup Rewriters
Editors == Rewriters \cup Indexers

VARIABLES kind,     \* which file of the program this is, and so who uses it
          disk,     \* what each inode holds
          name,     \* the inode the path names, None while no file is there
          lock,     \* the append that holds the write lock
          at,       \* where each append, reader and editor is
          open,     \* a reader's handle, None while it has none
          mark,     \* the FileMark of each reader and editor
          held,     \* the lines a reader took, and those an editor is to replace
          spliced,  \* history: bytes of two lines were taken for one
          likened   \* history: whose mark another file came to fit

vars == <<kind, disk, name, lock, at, open, mark, held, spliced, likened>>

-----------------------------------------------------------------------------
\* Files.

\* Site records are rewritten and read whole; cell files are compacted, the index is
\* replaced, and both have readers that keep a mark.
Kinds == {"records", "cells", "index"}

Uses(x) ==
    \/ kind = "records" /\ x \in Droppers
    \/ kind = "cells" /\ x \in Compactors \cup Tails
    \/ kind = "index" /\ x \in Indexers \cup Tails

\* A line as it stands in a file: which one, and whether it has its body, or else
\* whether what was moved off it may still be had.
Forms == {"full", "compact", "purged"}
Line == Lines \X Forms
Full(l) == <<l, "full">>

HeadOf(l) == <<"head", Prefix[l]>>
TailOf(line) == <<"tail", line>>
Bytes(line) ==
    IF line[2] = "full" THEN <<HeadOf(line[1]), <<"body", line[1]>>, TailOf(line)>>
    ELSE <<HeadOf(line[1]), TailOf(line)>>

Pieces == UNION {ToSet(Bytes(line)) : line \in Line}

\* A FileMark, and a reader's handle: its inode, where it began and whether that is
\* because it takes the whole file, and what it got so far.
Marks == [end : Nat, inode : Inodes \cup {None}, last : Seq(Pieces)]
Handles == [inode : Inodes, start : Nat, whole : BOOLEAN, got : Seq(Pieces)]

ASSUME LineFileAssumption ==
    /\ None \notin Lines \cup Inodes \cup Handles
    /\ DOMAIN Prefix = Lines
    /\ DOMAIN Dataset \subseteq Lines
    /\ Lines \cap (Readers \cup Editors) = {}
    /\ Tails \cap Editors = {} /\ Droppers \cap Compactors = {} /\ Rewriters \cap Indexers = {}
    /\ IsFiniteSet(Inodes)
    /\ Cardinality(Inodes) > 1

Ids(lines) == [k \in DOMAIN lines |-> lines[k][1]]

LineEnds(f) == {i \in DOMAIN f : f[i][1] = "tail"}
LastOf(S) == IF S = {} THEN 0 ELSE Max(S)

\* Where the last newline of f is: what stands past it is no line yet.
WholeEnd(f) == LastOf(LineEnds(f))
Torn(f) == WholeEnd(f) < Len(f)

\* complete_lines: the lines of f that end in a newline.
CompleteLines(f) ==
    LET upTo[n \in 0..Len(f)] ==
            IF n = 0 THEN <<>>
            ELSE IF f[n][1] = "tail" THEN Append(upTo[n - 1], f[n][2]) ELSE upTo[n - 1]
    IN  upTo[Len(f)]

\* The bytes of some lines, one after another.
FileOf(lines) == FlattenSeq([k \in DOMAIN lines |-> Bytes(lines[k])])

Garbled(f) == SubSeq(f, 1, WholeEnd(f)) # FileOf(CompleteLines(f))

\* _last_line: the bytes after the last newline but the one that may end f.
LastLine(f) == SubSeq(f, LastOf({i \in LineEnds(f) : i < Len(f)}) + 1, Len(f))

File == IF name = None THEN <<>> ELSE disk[name]

-----------------------------------------------------------------------------
\* Marks and inodes.

Absent == [end |-> 0, inode |-> None, last |-> <<>>]

\* The inode and the size are believed, the bytes not compared.
MutHoldsMark(m) == m.inode = None \/ (name = m.inode /\ Len(File) >= m.end)

\* holds_mark, asked of the file the path names.
HoldsMark(m) ==
    \/ m.inode = None
    \/ /\ name = m.inode
       /\ Len(File) >= m.end
       /\ SubSeq(File, m.end - Len(m.last) + 1, m.end) = m.last

HeldOpen(i, X) == \E x \in X : open[x] # None /\ open[x].inode = i

\* The kernel gives a new file any number that no name and no handle holds.
NewInode == {i \in Inodes : i # name /\ ~HeldOpen(i, Readers)}

-----------------------------------------------------------------------------
Init ==
    /\ kind \in Kinds
    /\ disk = [i \in Inodes |-> <<>>]
    /\ name = None
    /\ lock = None
    /\ at = [x \in Lines \cup Readers \cup Editors |-> "idle"]
    /\ open = [x \in Readers |-> None]
    /\ mark = [x \in Readers \cup Editors |-> Absent]
    /\ held = [x \in Readers \cup Editors |-> <<>>]
    /\ spliced = FALSE
    /\ likened = {}

Goes(x, from, to) ==
    /\ at[x] = from
    /\ at' = [at EXCEPT ![x] = to]

-----------------------------------------------------------------------------
\* append_line.

TakeLock(l) ==
    /\ lock = None
    /\ Goes(l, "idle", "locked")
    /\ lock' = l
    /\ UNCHANGED <<kind, disk, name, open, mark, held, spliced, likened>>

\* _cut_unterminated: no append is in flight, so what is unterminated is a dead one's.
Cut(l) ==
    /\ at[l] = "locked"
    /\ Torn(File)
    /\ disk' = [disk EXCEPT ![name] = SubSeq(@, 1, WholeEnd(@))]
    /\ UNCHANGED <<kind, name, lock, at, open, mark, held, spliced, likened>>

\* _landed, the first bytes. open_append makes the file where none is.
WriteHead(l) ==
    /\ ~Torn(File)
    /\ Goes(l, "locked", "half")
    /\ name' \in IF name = None THEN NewInode ELSE {name}
    /\ disk' = [disk EXCEPT ![name'] = Append(File, HeadOf(l))]
    /\ UNCHANGED <<kind, lock, open, mark, held, spliced, likened>>

\* _landed, the rest of the line.
WriteTail(l) ==
    /\ Goes(l, "half", "landed")
    /\ disk' = [disk EXCEPT ![name] = @ \o Tail(Bytes(Full(l)))]
    /\ UNCHANGED <<kind, name, lock, open, mark, held, spliced, likened>>

\* The lock is given back and the caller goes on.
Return(l) ==
    /\ Goes(l, "landed", "done")
    /\ lock' = None
    /\ UNCHANGED <<kind, disk, name, open, mark, held, spliced, likened>>

\* The lock is a file that outlives its holder.
MutDie(l) ==
    /\ at[l] \in {"locked", "half", "landed"}
    /\ at' = [at EXCEPT ![l] = "dead"]
    /\ UNCHANGED <<kind, disk, name, lock, open, mark, held, spliced, likened>>

\* The appending process dies, or its write fails: the lock goes, what landed stays.
Die(l) ==
    /\ at[l] \in {"locked", "half", "landed"}
    /\ at' = [at EXCEPT ![l] = "dead"]
    /\ lock' = None
    /\ UNCHANGED <<kind, disk, name, open, mark, held, spliced, likened>>

-----------------------------------------------------------------------------
\* read_tail, which takes no lock.

\* A tail goes on from its mark; rewrite_lines reads from the start (_read_marked).
ReadsFrom(x) == IF x \in Tails THEN mark[x] ELSE Absent
AfterRead(x) == IF x \in Tails THEN "idle" ELSE "read"

ReadAbsent(x) ==
    /\ Uses(x)
    /\ name = None
    /\ Goes(x, "idle", AfterRead(x))
    /\ mark' = [mark EXCEPT ![x] = Absent]
    /\ held' = [held EXCEPT ![x] = <<>>]
    /\ likened' = likened \ {x}
    /\ UNCHANGED <<kind, disk, name, lock, open, spliced>>

\* The file is opened, its identity asked, and read to where it ends now.
OpenRead(x) ==
    LET m == ReadsFrom(x)
        whole == m.inode = None \/ ~HoldsMark(m)
        start == IF whole THEN 0 ELSE m.end
    IN  /\ Uses(x)
        /\ name # None
        /\ Goes(x, "idle", "reading")
        /\ open' = [open EXCEPT ![x] = [inode |-> name, start |-> start, whole |-> whole,
                                        got |-> SubSeq(File, start + 1, Len(File))]]
        /\ UNCHANGED <<kind, disk, name, lock, mark, held, spliced, likened>>

\* Complete lines are asked for until the handle is at its end, so it reads once more,
\* from where it stands. The answer is the lines, and a mark after the last of them.
CloseRead(x) ==
    LET h == open[x]
        file == disk[h.inode]
        got == h.got \o SubSeq(file, h.start + Len(h.got) + 1, Len(file))
        lines == CompleteLines(got)
        newMark ==
            [end |-> h.start + WholeEnd(got), inode |-> h.inode,
             last |-> IF lines # <<>> THEN LastLine(SubSeq(got, 1, WholeEnd(got)))
                      ELSE IF h.whole THEN <<>> ELSE mark[x].last]
    IN  /\ open[x] # None
        /\ Goes(x, "reading", IF Garbled(got) THEN "idle" ELSE AfterRead(x))
        /\ open' = [open EXCEPT ![x] = None]
        /\ held' = [held EXCEPT ![x] = IF h.whole THEN lines ELSE @ \o lines]
        /\ mark' = [mark EXCEPT ![x] = newMark]
        /\ disk' = IF h.inode = name \/ HeldOpen(h.inode, Readers \ {x}) THEN disk
                   ELSE [disk EXCEPT ![h.inode] = <<>>]
        /\ spliced' = (spliced \/ Garbled(got))
        /\ likened' = IF h.whole THEN likened \ {x} ELSE likened
        /\ UNCHANGED <<kind, name, lock>>

-----------------------------------------------------------------------------
\* rewrite_lines (records), rewrite_pair (cells) and replace_lines (index).

\* _end_mark: under the lock, and a fragment is counted in it.
EndMark(p) ==
    /\ Uses(p)
    /\ lock = None
    /\ Goes(p, "idle", "read")
    /\ mark' = [mark EXCEPT ![p] =
            IF name = None THEN Absent
            ELSE [end |-> Len(File), inode |-> name, last |-> LastLine(File)]]
    /\ held' = [held EXCEPT ![p] = CompleteLines(File)]
    /\ likened' = likened \ {p}
    /\ UNCHANGED <<kind, disk, name, lock, open, spliced>>

InOrderOf(there, some) ==
    \A i, j \in DOMAIN some : i < j =>
        \E p, q \in DOMAIN there : p < q /\ there[p] = some[i] /\ there[q] = some[j]

\* _compacted, _restored and _purged: what a pass takes a line from and to. Only lines
\* that were compacted are ever in the forms that the last two begin with.
Passes == {<<"full", "compact">>, <<"compact", "full">>, <<"compact", "purged">>}

\* _in_scope: one dataset's lines, or every dataset's.
Scopes ==
    {DOMAIN Dataset} \cup {{l \in DOMAIN Dataset : Dataset[l] = d} : d \in Range(Dataset)}

Recast(line, scope, pass) ==
    IF line[1] \in scope /\ line[2] = pass[1] THEN <<line[1], pass[2]>> ELSE line

\* _latest and drop_before: fewer lines, a renewed one in its first place. A pass of
\* the maintenance: the same lines, those in its scope in another form. _built_index:
\* such lines as it finds, also ones that landed past the mark.
NewLines(e) ==
    IF e \in Droppers THEN
        UNION {SetToSeqs(K) : K \in SUBSET ToSet(held[e]) \ {ToSet(held[e])}}
    ELSE IF e \in Compactors THEN
        {[k \in DOMAIN held[e] |-> Recast(held[e][k], scope, pass)] :
            scope \in Scopes, pass \in Passes} \ {held[e]}
    ELSE LET there == CompleteLines(File)
         IN  {some \in UNION {SetToSeqs(K) : K \in SUBSET ToSet(there)} : InOrderOf(there, some)}

\* The attempt is over.
Forgets(e) ==
    /\ mark' = [mark EXCEPT ![e] = Absent]
    /\ held' = [held EXCEPT ![e] = <<>>]

\* What landed while the new lines were made is written over.
MutCarried(m) == <<>>

\* What stands in the file past a mark.
Carried(m) == SubSeq(File, m.end + 1, Len(File))

\* Whose mark the file f fits at the inode i, its lines ahead of the marked one being
\* others than those that were taken: all a mark tells of them is how long they are.
Likened(f, i) ==
    {x \in Readers \cup Editors :
        LET m == mark[x]
        IN  /\ m.inode = i
            /\ Len(f) >= m.end
            /\ SubSeq(f, m.end - Len(m.last) + 1, m.end) = m.last
            /\ held[x] # CompleteLines(SubSeq(f, 1, m.end))}

\* _swap: under the lock the new lines, and whatever stands past the mark, become the
\* file, by a rename.
Swap(e) ==
    /\ lock = None
    /\ HoldsMark(mark[e])
    /\ Goes(e, "read", IF e \in Indexers THEN "done" ELSE "idle")
    /\ \E lines \in NewLines(e), i \in NewInode :
        LET file == FileOf(lines) \o Carried(mark[e])
        IN  /\ name' = i
            /\ disk' = [j \in Inodes |->
                            IF j = i THEN file
                            ELSE IF j = name /\ ~HeldOpen(j, Readers) THEN <<>>
                            ELSE disk[j]]
            /\ spliced' = (spliced \/ Garbled(file))
            /\ likened' = (likened \ {e}) \cup Likened(file, i)
    /\ Forgets(e)
    /\ UNCHANGED <<kind, lock, open>>

\* A transform that changes nothing, or finds its companion at odds, writes nothing.
LeaveAsIs(r) ==
    /\ Goes(r, "read", "idle")
    /\ Forgets(r)
    /\ likened' = likened \ {r}
    /\ UNCHANGED <<kind, disk, name, lock, open, spliced>>

\* _swap finds another file than the one marked, or the companion (the cold file, which
\* no append touches) not as the compactor read it. _retry_swap makes the attempt again;
\* after its last one the caller is told of a conflict, and may call again or not.
LoseRace(e) ==
    /\ lock = None
    /\ e \in Compactors \/ ~HoldsMark(mark[e])
    /\ Goes(e, "read", "idle")
    /\ Forgets(e)
    /\ likened' = likened \ {e}
    /\ UNCHANGED <<kind, disk, name, lock, open, spliced>>

-----------------------------------------------------------------------------
Next ==
    \/ \E l \in Lines :
        TakeLock(l) \/ Cut(l) \/ WriteHead(l) \/ WriteTail(l) \/ Return(l) \/ Die(l)
    \/ \E x \in Readers : ReadAbsent(x) \/ OpenRead(x) \/ CloseRead(x)
    \/ \E p \in Indexers : EndMark(p)
    \/ \E e \in Editors : Swap(e) \/ LoseRace(e)
    \/ \E r \in Rewriters : LeaveAsIs(r)

Spec == Init /\ [][Next]_vars

-----------------------------------------------------------------------------
\* The types, and with them: the lock is held by exactly the append that is under it, a
\* reader has a handle while it reads, and an inode that nothing refers to holds nothing.
TypeOK ==
    /\ kind \in Kinds
    /\ disk \in [Inodes -> Seq(Pieces)]
    /\ name \in Inodes \cup {None}
    /\ open \in [Readers -> Handles \cup {None}]
    /\ mark \in [Readers \cup Editors -> Marks]
    /\ held \in [Readers \cup Editors -> Seq(Line)]
    /\ likened \subseteq Readers \cup Editors
    /\ \A l \in Lines : lock = l <=> at[l] \in {"locked", "half", "landed"}
    /\ \A x \in Readers : open[x] # None <=> at[x] = "reading"
    /\ \A i \in Inodes : i # name /\ ~HeldOpen(i, Readers) => disk[i] = <<>>

Log == INSTANCE LineLog WITH
    Records <- Lines,
    lines <- Ids(CompleteLines(File)),
    told <- {l \in Lines : at[l] = "done"},
    seen <- [e \in Editors |-> Ids(held[e])]

\* The file is the log of LineLog, whatever dies and whoever races: a line lands whole
\* and last, an append that returned has its line in the file, and a rewrite replaces
\* exactly what its editor had read, so no line is lost that came in between. There are
\* two ways out. A step splices: a reader counted a torn fragment that the next append
\* cut and outgrew, and takes the end of that line for the fragment's own. And an editor
\* swaps that was likened: another editor's file has the inode that it marked, and the
\* marked line at its byte, behind other lines.
Implements ==
    Log!Init /\ [][Log!Next \/ spliced' \/ \E e \in Editors \cap likened : Swap(e)]_(Log!vars)

\* While a reader's mark is good, the lines the reader has taken are the lines of the
\* file up to the mark, each once, in order and in the form they have there: across torn
\* fragments, appends and rewrites, also where a rewritten file is back at the inode it
\* had, unless the marked line stands at its byte in it behind other lines.
TailFaithful ==
    \A t \in Tails :
        (/\ at[t] = "idle"
         /\ mark[t].inode # None
         /\ HoldsMark(mark[t])
         /\ ~spliced
         /\ t \notin likened)
        => held[t] = CompleteLines(SubSeq(File, 1, mark[t].end))
=============================================================================
