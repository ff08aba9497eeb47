----------------------------- MODULE CellClaims -----------------------------
(***************************************************************************)
(* The claims by which walks of several processes buy a cell once          *)
(* (ReplayFeed and CellClaim of infrastructure/store/measurement_archive,  *)
(* _claim_cell of application/scoring/search_point_scorer, _acquire and    *)
(* Walk of application/scoring/query_loop, take_lock and HeldLock of       *)
(* infrastructure/store/io).                                               *)
(*                                                                         *)
(* A walk measures the cells of its panel ahead and takes them in order.   *)
(* It measures a cell under a claim, an operating-system lock on a file    *)
(* that is unlinked when the claim is released.  What came back is shared  *)
(* at once in a row file beside the lock, and filed in the archive when it *)
(* is taken; a walk that stops before discards it.  A walk that does not   *)
(* get the lock polls for it and for the row.                              *)
(*                                                                         *)
(* Every file operation another process can tell apart is a step.  The     *)
(* tasks of one walk share an event loop, so one of them at most is        *)
(* between two file operations; only a poll, which changes no file that    *)
(* stands, is let interleave with the others.                              *)
(***************************************************************************)
EXTENDS Integers, Sequences, FiniteSets

CONSTANTS
    Walks,          \* walks of one configuration, each of a process of its own
    Cells,
    Panel,          \* Panel[w]: the cells of a walk in the order it takes them
    Depth,          \* cells a walk may have launched and not taken
    LockInodes,     \* numbers a lock file may have
    MaxFaults       \* bound: cells that come back bad, refused calls, and deaths

ASSUME ClaimsAssumption ==
    /\ Panel \in [Walks -> Seq(Cells)]
    /\ Depth \in Nat
    /\ LockInodes \subseteq Nat \ {0}
    /\ MaxFaults \in Nat

NoFile == 0
NoRow == "no row"

VARIABLES
    file,       \* file[c]: the inode the name of the cell's lock leads to
    row,        \* row[c]: the walk whose row stands beside the lock
    filed,      \* cells whose row is filed in the archive
    fd,         \* fd[w][c]: the inode a walk has open
    locked,     \* locked[w][c]: it holds the lock on it
    task,       \* task[w][c]: where the walk's task for a cell stands
    hand,       \* hand[w][c]: what the task came back with
    taken,      \* taken[w]: rows taken
    stage,      \* stage[w]: walking, landing its calls, or over
    faults,         \* counted up to their bound
    paid, lost,             \* history: good rows bought, and bought and lost
    stripped                \* history: cells whose row was dropped under its holder

lockVars == <<file, fd, locked>>
history == <<faults, paid, lost, stripped>>
claimVars == <<file, row, filed, fd, locked, task, hand, taken, stage, history>>

Fault == faults < MaxFaults /\ faults' = faults + 1

Set(f, w, c, v) == [f EXCEPT ![w][c] = v]

Stages == {"no", "asks", "lock", "look", "peek", "sent", "back",
           "unrow", "retire", "gone"}
Hands == {"nothing", "fresh", "bad", "shared", "replay", "failed"}

\* Types, and that a task that claims nothing has no lock left.
ClaimsTypeOK ==
    /\ file \in [Cells -> LockInodes \cup {NoFile}]
    /\ row \in [Cells -> Walks \cup {NoRow}]
    /\ filed \subseteq Cells
    /\ fd \in [Walks -> [Cells -> LockInodes \cup {NoFile}]]
    /\ locked \in [Walks -> [Cells -> BOOLEAN]]
    /\ task \in [Walks -> [Cells -> Stages]]
    /\ \A w \in Walks, c \in Cells :
        locked[w][c] => task[w][c] \in {"look", "sent", "back", "unrow", "retire"}
    /\ hand \in [Walks -> [Cells -> Hands]]
    /\ taken \in [Walks -> Nat] /\ \A w \in Walks : taken[w] <= Len(Panel[w])
    /\ stage \in [Walks -> {"walking", "landing", "over"}]
    /\ faults \in Nat
    /\ paid \in [Cells -> Nat] /\ lost \in [Cells -> Nat]
    /\ stripped \subseteq Cells

ClaimsInit ==
    /\ file = [c \in Cells |-> NoFile]
    /\ row = [c \in Cells |-> NoRow]
    /\ filed = {}
    /\ fd = [w \in Walks |-> [c \in Cells |-> NoFile]]
    /\ locked = [w \in Walks |-> [c \in Cells |-> FALSE]]
    /\ task = [w \in Walks |-> [c \in Cells |-> "no"]]
    /\ hand = [w \in Walks |-> [c \in Cells |-> "nothing"]]
    /\ taken = [w \in Walks |-> 0]
    /\ stage = [w \in Walks |-> "walking"]
    /\ faults = 0
    /\ paid = [c \in Cells |-> 0] /\ lost = [c \in Cells |-> 0]
    /\ stripped = {}

-----------------------------------------------------------------------------
(* Launching a cell.                                                       *)

\* No task of the walk is between two file operations of a claim or a release.
Quiet(w) == \A c \in Cells : task[w][c] \notin {"look", "unrow", "retire"}

Ahead(w) == {i \in (taken[w] + 1)..(taken[w] + Depth) : i <= Len(Panel[w])}

\* A cell the walk knows to be in the archive is replayed; what it knows is
\* some earlier reading of the archive.
Launch(w, c) ==
    /\ Quiet(w) /\ stage[w] = "walking" /\ task[w][c] = "no"
    /\ \E i \in Ahead(w) :
        /\ Panel[w][i] = c
        /\ \A j \in 1..(i - 1) : task[w][Panel[w][j]] # "no"
    /\ \/ task' = Set(task, w, c, "asks") /\ UNCHANGED hand
       \/ /\ c \in filed
          /\ task' = Set(task, w, c, "back") /\ hand' = Set(hand, w, c, "replay")
    /\ UNCHANGED <<row, filed, lockVars, taken, stage, history>>

-----------------------------------------------------------------------------
(* Claiming it: take_lock with no wait, then the stale row, then the       *)
(* archive once more.                                                      *)

Unopened(c) == {i \in LockInodes : \A w \in Walks : fd[w][c] # i}

OpenLock(w, c) ==
    /\ task[w][c] = "asks"
    /\ \/ /\ file[c] # NoFile
          /\ fd' = Set(fd, w, c, file[c]) /\ UNCHANGED file
       \/ /\ file[c] = NoFile
          /\ \E i \in Unopened(c) :
                /\ \A j \in Unopened(c) : i <= j
                /\ file' = [file EXCEPT ![c] = i] /\ fd' = Set(fd, w, c, i)
    /\ task' = Set(task, w, c, "lock")
    /\ UNCHANGED <<row, filed, locked, hand, taken, stage, history>>

\* flock, and the look at the inode's links that tells an unlinked file.
Lockable(w, c) ==
    /\ \A v \in Walks : locked[v][c] => fd[v][c] # fd[w][c]
    /\ fd[w][c] = file[c]

TryLock(w, c) ==
    /\ Quiet(w) /\ task[w][c] = "lock"
    /\ \/ /\ Lockable(w, c)
          /\ locked' = Set(locked, w, c, TRUE) /\ UNCHANGED fd
          /\ task' = Set(task, w, c, "look")
       \/ /\ ~Lockable(w, c)
          /\ fd' = Set(fd, w, c, NoFile) /\ UNCHANGED locked
          /\ task' = Set(task, w, c, "peek")
    /\ UNCHANGED <<file, row, filed, hand, taken, stage, history>>

MutBuys(c) == TRUE

Buys(c) == c \notin filed

\* A row found under a lock just taken outlived its holder.  The archive is
\* then read again: another walk may have filed the cell.
Look(w, c) ==
    /\ task[w][c] = "look"
    /\ row' = [row EXCEPT ![c] = NoRow]
    /\ \/ Buys(c) /\ task' = Set(task, w, c, "sent") /\ UNCHANGED hand
       \/ /\ ~Buys(c)
          /\ task' = Set(task, w, c, "unrow") /\ hand' = Set(hand, w, c, "replay")
    /\ UNCHANGED <<filed, lockVars, taken, stage, history>>

\* Not the holder: its row, if it has shared one, or another poll.
Peek(w, c) ==
    /\ task[w][c] = "peek"
    /\ \/ /\ row[c] # NoRow
          /\ task' = Set(task, w, c, "back") /\ hand' = Set(hand, w, c, "shared")
       \/ row[c] = NoRow /\ task' = Set(task, w, c, "asks") /\ UNCHANGED hand
    /\ UNCHANGED <<row, filed, lockVars, taken, stage, history>>

-----------------------------------------------------------------------------
(* The measurement, and the release of a claim.                            *)

MutShared(c, w) == row

\* The row is shared as the call returns (CellClaim.publish).
Shared(c, w) == [row EXCEPT ![c] = w]

ReturnsGood(w, c) ==
    /\ Quiet(w) /\ task[w][c] = "sent"
    /\ row' = Shared(c, w)
    /\ task' = Set(task, w, c, "back") /\ hand' = Set(hand, w, c, "fresh")
    /\ paid' = [paid EXCEPT ![c] = @ + 1]
    /\ UNCHANGED <<filed, lockVars, taken, stage, faults, lost, stripped>>

\* An errored, deprecated or ungraded row is not shared: the claim goes.
ReturnsBad(w, c) ==
    /\ Quiet(w) /\ task[w][c] = "sent" /\ Fault
    /\ task' = Set(task, w, c, "unrow") /\ hand' = Set(hand, w, c, "bad")
    /\ UNCHANGED <<row, filed, lockVars, taken, stage, paid, lost, stripped>>

\* The call is refused, or cancelled once its walk is over.
Raises(w, c) ==
    /\ Quiet(w) /\ task[w][c] = "sent"
    /\ \/ stage[w] = "over" /\ UNCHANGED faults
       \/ stage[w] # "over" /\ Fault
    /\ task' = Set(task, w, c, "unrow") /\ hand' = Set(hand, w, c, "failed")
    /\ UNCHANGED <<row, filed, lockVars, taken, stage, paid, lost, stripped>>

\* CellClaim.release drops the row by its name, whoever wrote it...
Unrow(w, c) ==
    /\ task[w][c] = "unrow"
    /\ row' = [row EXCEPT ![c] = NoRow]
    /\ stripped' = IF row[c] \in Walks \ {w} THEN stripped \cup {c} ELSE stripped
    /\ task' = Set(task, w, c, "retire")
    /\ UNCHANGED <<filed, lockVars, hand, taken, stage, faults, paid, lost>>

\* ...and retires the lock, unless that was done before.  The cell is still
\* to be taken if something is in hand.
AfterRetire(w, c) == IF hand[w][c] = "nothing" THEN "gone" ELSE "back"

Retire(w, c) ==
    /\ task[w][c] = "retire"
    /\ file' = IF locked[w][c] THEN [file EXCEPT ![c] = NoFile] ELSE file
    /\ fd' = Set(fd, w, c, NoFile) /\ locked' = Set(locked, w, c, FALSE)
    /\ task' = Set(task, w, c, AfterRetire(w, c))
    /\ UNCHANGED <<row, filed, hand, taken, stage, history>>

-----------------------------------------------------------------------------
(* The walk.                                                               *)

\* A row acquired under a claim still carries it.
Carries(w, c) == hand[w][c] \in {"fresh", "bad"}

Let(w, c) == Set(task, w, c, IF Carries(w, c) THEN "unrow" ELSE "gone")

\* Filed, then its claim released.  A shared row has no address: filed too.
Take(w) ==
    /\ Quiet(w) /\ stage[w] = "walking" /\ taken[w] < Len(Panel[w])
    /\ LET c == Panel[w][taken[w] + 1] IN
        /\ task[w][c] = "back" /\ hand[w][c] # "failed"
        /\ filed' = IF hand[w][c] \in {"fresh", "shared"} THEN filed \cup {c} ELSE filed
        /\ task' = Let(w, c) /\ hand' = Set(hand, w, c, "nothing")
    /\ taken' = [taken EXCEPT ![w] = @ + 1]
    /\ UNCHANGED <<row, lockVars, stage, history>>

\* A task that waits for a claim is cancelled; it has sent nothing.
Waits(w, c) == task[w][c] \in {"no", "asks", "lock", "peek"}

DropWaits(w) ==
    /\ task' = [task EXCEPT ![w] = [c \in Cells |-> IF Waits(w, c) THEN "gone" ELSE @[c]]]
    /\ fd' = [fd EXCEPT ![w] = [c \in Cells |-> IF Waits(w, c) THEN NoFile ELSE @[c]]]

\* Decided: all its rows are taken, or a rule or the operator's skip cuts it.
\* What is out is not landed.
Decide(w) ==
    /\ Quiet(w) /\ stage[w] = "walking"
    /\ stage' = [stage EXCEPT ![w] = "over"] /\ DropWaits(w)
    /\ UNCHANGED <<file, row, filed, locked, hand, taken, history>>

\* A pause, a spent ceiling or a failed head.
Stop(w) ==
    /\ Quiet(w) /\ stage[w] = "walking"
    /\ stage' = [stage EXCEPT ![w] = "landing"] /\ DropWaits(w)
    /\ UNCHANGED <<file, row, filed, locked, hand, taken, history>>

\* The calls still out are landed first after a pause or a spent ceiling; after
\* anything else, or where cancelling stops the bill, they are cancelled later.
\* Of what came back fresh, what lies below the horizon and before the first
\* bad row is filed.
Sure(w, i) ==
    {c \in Cells : \E k \in (taken[w] + 1)..i :
        /\ Panel[w][k] = c /\ hand[w][c] = "fresh"
        /\ \A j \in (taken[w] + 1)..k : hand[w][Panel[w][j]] # "bad"}

Bank(w) ==
    /\ Quiet(w) /\ stage[w] = "landing"
    /\ \A c \in Cells : task[w][c] \in {"sent", "back", "gone"}
    /\ \E i \in taken[w]..Len(Panel[w]) : filed' = filed \cup Sure(w, i)
    /\ stage' = [stage EXCEPT ![w] = "over"]
    /\ UNCHANGED <<row, lockVars, task, hand, taken, history>>

Losing(w, c) == IF hand[w][c] = "fresh" /\ c \notin filed THEN 1 ELSE 0

Discard(w, c) ==
    /\ Quiet(w) /\ stage[w] = "over" /\ task[w][c] = "back"
    /\ task' = Let(w, c) /\ hand' = Set(hand, w, c, "nothing")
    /\ lost' = [lost EXCEPT ![c] = @ + Losing(w, c)]
    /\ UNCHANGED <<row, filed, lockVars, taken, stage, faults, paid, stripped>>

\* The kernel drops the locks of a dead process; its files stay.
Dies(w) ==
    /\ Fault
    /\ \E c \in Cells : task[w][c] \notin {"no", "gone"}
    /\ lost' = [c \in Cells |-> lost[c] + Losing(w, c)]
    /\ fd' = [fd EXCEPT ![w] = [c \in Cells |-> NoFile]]
    /\ locked' = [locked EXCEPT ![w] = [c \in Cells |-> FALSE]]
    /\ task' = [task EXCEPT ![w] = [c \in Cells |-> "gone"]]
    /\ hand' = [hand EXCEPT ![w] = [c \in Cells |-> "nothing"]]
    /\ stage' = [stage EXCEPT ![w] = "over"]
    /\ UNCHANGED <<file, row, filed, taken, paid, stripped>>

-----------------------------------------------------------------------------
Begins(w, c) == Launch(w, c) \/ Discard(w, c)
Polls(w, c) == OpenLock(w, c) \/ TryLock(w, c) \/ Peek(w, c)
Returns(w, c) == ReturnsGood(w, c) \/ ReturnsBad(w, c) \/ Raises(w, c)
GoesOn(w, c) == Look(w, c) \/ Unrow(w, c) \/ Retire(w, c)

Cell(w, c) == Begins(w, c) \/ Polls(w, c) \/ Returns(w, c) \/ GoesOn(w, c)
Walk(w) == Take(w) \/ Decide(w) \/ Stop(w) \/ Bank(w) \/ Dies(w)

ClaimsNext == \E w \in Walks : Walk(w) \/ \E c \in Cells : Cell(w, c)

ClaimsSpec == ClaimsInit /\ [][ClaimsNext]_claimVars

HeadFailed(w) ==
    \E i \in DOMAIN Panel[w] :
        i = taken[w] + 1 /\ task[w][Panel[w][i]] = "back" /\ hand[w][Panel[w][i]] = "failed"

\* A walk is decided once it has taken every row, and stopped by a head that
\* failed; nothing else need stop it.
Ends(w) ==
    \/ Decide(w) /\ taken[w] = Len(Panel[w])
    \/ Stop(w) /\ HeadFailed(w)
    \/ Bank(w)

\* The event loop runs every task that is ready, and a call sent returns.
Fairness ==
    \A w \in Walks :
        /\ WF_claimVars(Take(w)) /\ WF_claimVars(Ends(w))
        /\ \A c \in Cells :
            /\ WF_claimVars(Begins(w, c)) /\ WF_claimVars(Polls(w, c))
            /\ WF_claimVars(Returns(w, c)) /\ WF_claimVars(GoesOn(w, c))

FairSpec == ClaimsSpec /\ Fairness

-----------------------------------------------------------------------------
(* What holds the properties up: a task that buys, or holds what it        *)
(* bought, has the lock of the file the name leads to.                     *)

LockInv ==
    \A c \in Cells :
        /\ \A w \in Walks :
            /\ task[w][c] = "lock" => fd[w][c] # NoFile
            /\ locked[w][c] => fd[w][c] = file[c] /\ file[c] # NoFile
            /\ task[w][c] \in {"look", "sent"} \/ hand[w][c] = "fresh" => locked[w][c]
            /\ hand[w][c] = "fresh" => task[w][c] = "back"
            /\ locked[w][c] /\ task[w][c] = "back" => hand[w][c] = "fresh"
        /\ \A w, v \in Walks : locked[w][c] /\ locked[v][c] => w = v

Kept(c) == c \in filed \/ \E w \in Walks : hand[w][c] = "fresh"

PaidInv ==
    \A c \in Cells :
        /\ paid[c] <= lost[c] \/ (paid[c] = lost[c] + 1 /\ Kept(c))
        /\ \A w \in Walks : task[w][c] = "sent" => paid[c] <= lost[c]

ClaimsInv == ClaimsTypeOK /\ LockInv /\ PaidInv

-----------------------------------------------------------------------------
(* Properties.                                                             *)

\* A good row of a cell is bought once more only after one was lost: discarded
\* unfiled by a walk that stopped, or gone with its process.
BoughtOnce == \A c \in Cells : paid[c] <= lost[c] + 1

\* Every walk gets to its end, and then holds no claim, wherever its calls
\* were when it ended: none waits for ever on cells that others hold, unless a
\* row was dropped under its holder.
Rests(w) == stage[w] = "over" /\ \A c \in Cells : ~locked[w][c]

EveryWalkEnds == \A w \in Walks : <>(Rests(w) \/ stripped # {})

\* What a live holder bought is there for the others until it is done with it.
RowIsShared ==
    \A w \in Walks, c \in Cells :
        task[w][c] = "back" /\ hand[w][c] = "fresh" => row[c] = w
=============================================================================
