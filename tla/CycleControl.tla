------------------------------ MODULE CycleControl ------------------------------
(***************************************************************************)
(* Who may drive one cycle, and what its ledger says of it.                *)
(*                                                                         *)
(* A cycle is a directory with an append-only ledger and an OS lock, its   *)
(* producer lock.  Launches, scoring passes, operator commands and the     *)
(* sweep of dead runs all decide by reading the two, one read after the    *)
(* other, and then append.  What the folds of the ledger answer is kept    *)
(* here as variables, moved by each append the way the fold moves:         *)
(* `declared` and `ending` (scan_cycle_facts), `claim` (scan_launch_claim),*)
(* `ask` and `answers` (scan_ledger_controls).                             *)
(*                                                                         *)
(* A launch's job file and its machine slot are JobRegistry's.             *)
(***************************************************************************)
EXTENDS Naturals

CONSTANTS
  Launches,  \* launches asked of this cycle, each by a process of its own
  Passes,    \* scoring passes asked of this cycle
  Pauses,    \* pause-cycle commands
  Stops,     \* pauses sent through the hold of the pass they stop
  Answers,   \* origin-gate-decision commands
  Sweep,     \* the sweep, as a holder of the lock
  Nobody

Commands == Pauses \cup Stops \cup Answers

ASSUME CycleAssumption ==
  /\ Nobody \notin Launches \cup Passes \cup Commands \cup {Sweep}
  /\ Sweep \notin Launches \cup Passes
  /\ Launches \cap Passes = {}
  /\ Pauses \cap Stops = {} /\ Pauses \cap Answers = {} /\ Stops \cap Answers = {}

VARIABLES
  declared,  \* the last RunPhaseRecord: CycleFacts
  ending,    \* the stop reason of a TERMINAL one
  claim,     \* the standing LaunchClaimRecord
  ask,       \* Controls.pause
  answers,   \* Controls.gate_decisions
  lock,      \* who holds the cycle's producer lock
  at,        \* where each launch is
  host,      \* the launching processes that are up
  pass,      \* where each pass is
  stopping,  \* the Stop each pass's hold is sending
  sweep,     \* where the sweep is on this cycle
  cmd,       \* the commands whose guard passed, and those recorded
  gate,      \* the admission gate
  stray,     \* history: a failed launch declared its stop over another's hold
  kept       \* history: commands a launch's RUNNING left standing

ledger == <<declared, ending, claim, ask, answers>>
vars == <<ledger, lock, at, host, pass, stopping, sweep, cmd, gate, stray, kept>>

--------------------------------------------------------------------------------
(* The ledger: what an append does to the folds. *)

NoClaim == [of |-> Nobody, by |-> "host"]

\* _Controls: a launch's RUNNING and every stop empty the inbox.  RUNNING after
\* a GATE reads as the gate's own, passed.
EmptyInbox == ask' = Nobody /\ answers' = {}

\* Mutant: RUNNING leaves the ending of the run it resumes.
MutDeclareRunning ==
  /\ declared' = "running" /\ ending' = ending /\ claim' = NoClaim
  /\ IF declared = "gate" THEN UNCHANGED <<ask, answers>> ELSE EmptyInbox

\* Mutant: every RUNNING empties the inbox, a passed gate's own too.
MutInboxAtRunning ==
  /\ declared' = "running" /\ ending' = "none" /\ claim' = NoClaim
  /\ EmptyInbox

DeclareRunning ==
  /\ declared' = "running" /\ ending' = "none" /\ claim' = NoClaim
  /\ IF declared = "gate" THEN UNCHANGED <<ask, answers>> ELSE EmptyInbox

DeclareGate ==
  /\ declared' = "gate" /\ ending' = "none" /\ claim' = NoClaim
  /\ UNCHANGED <<ask, answers>>

DeclarePaused ==
  /\ declared' = "paused" /\ ending' = "none" /\ claim' = NoClaim
  /\ EmptyInbox

DeclareEnded(reason) ==
  /\ declared' = "terminal" /\ ending' = reason /\ claim' = NoClaim
  /\ EmptyInbox

Claim(l, by) ==
  /\ claim' = [of |-> l, by |-> by]
  /\ UNCHANGED <<declared, ending, ask, answers>>

\* Only the claim this launch made: a later one stands.
ReleaseClaim(l) ==
  /\ claim' = IF claim.of = l THEN NoClaim ELSE claim
  /\ UNCHANGED <<declared, ending, ask, answers>>

\* The ack of an accepted pause arms it, where none stands.
ArmPause(c) ==
  /\ ask' = IF ask = Nobody THEN c ELSE ask
  /\ UNCHANGED <<declared, ending, claim, answers>>

ArmAnswer(c) ==
  /\ answers' = answers \cup {c}
  /\ UNCHANGED <<declared, ending, claim, ask>>

AckPause == ask' = Nobody /\ UNCHANGED <<declared, ending, claim, answers>>

--------------------------------------------------------------------------------
(* What a reader of the cycle sees. *)

InChild == {"spawned", "mine", "adopted", "told", "held", "loop", "gate", "answered",
            "pausing", "stopping", "drain", "refusing", "failing", "unopened"}
InPass == {"asking", "clear", "asked", "holding", "scoring", "letting", "freeing"}
Driving == {"loop", "gate", "answered"}
Holding == Driving \cup {"held", "pausing", "stopping", "drain"}
PassHolding == {"holding", "scoring", "letting", "freeing"}

\* A claim lives with the process whose lock it names.
Live(l, by) == IF by = "host" THEN l \in host ELSE at[l] \in InChild

\* Mutant: a claim lives until a record retires it.
MutClaimLive == claim.of # Nobody

ClaimLive == claim.of # Nobody /\ Live(claim.of, claim.by)

\* JobRegistry.pass_on: a pass registers before it holds the cycle, and its job
\* is released before it lets the cycle go.
PassOn == \E p \in Passes : pass[p] \in {"asked", "holding", "scoring"}

Attached == lock # Nobody \/ Live(claim.of, claim.by)

Init ==
  /\ declared = "none" /\ ending = "none" /\ claim = NoClaim
  /\ ask = Nobody /\ answers = {}
  /\ lock = Nobody
  /\ at = [l \in Launches |-> "none"]
  /\ host = Launches
  /\ pass = [p \in Passes |-> "none"]
  /\ stopping = [p \in Passes |-> Nobody]
  /\ sweep = "idle"
  /\ cmd = [c \in Commands |-> "none"]
  /\ gate = Nobody
  /\ stray = FALSE
  /\ kept = {}

Move(l, from, to) == at[l] \in from /\ at' = [at EXCEPT ![l] = to]
MovePass(p, from, to) == pass[p] \in from /\ pass' = [pass EXCEPT ![p] = to]
Unlock(holder) == lock' = IF lock = holder THEN Nobody ELSE lock

launching == <<at, host>>
passing == <<pass, stopping>>
history == <<stray, kept>>

--------------------------------------------------------------------------------
(* A launch, in the process that asks: request_jobs, _refuse_taken_cycle.    *)
(* The gate keeps every other ask out, and nothing else: the producer lock   *)
(* is read first, then the claim and the passes, then the claim is appended. *)

AskRead(l) ==
  /\ gate = Nobody /\ lock = Nobody
  /\ l \in host
  /\ Move(l, {"none"}, "asking")
  /\ gate' = l
  /\ UNCHANGED <<ledger, lock, host, passing, sweep, cmd, history>>

AskLook(l) ==
  /\ \/ (ClaimLive \/ PassOn) /\ Move(l, {"asking"}, "none") /\ gate' = Nobody
     \/ ~(ClaimLive \/ PassOn) /\ Move(l, {"asking"}, "clear") /\ UNCHANGED gate
  /\ UNCHANGED <<ledger, lock, host, passing, sweep, cmd, history>>

AskClaim(l) ==
  /\ Move(l, {"clear"}, "claimed")
  /\ Claim(l, "host")
  /\ gate' = Nobody
  /\ UNCHANGED <<lock, host, passing, sweep, cmd, history>>

\* Withdrawn from the queue, refused by the ceiling, or a session that does not
\* bind: hold_existing_cycle and withdraw_queued stamp nothing.
GiveUp(l) ==
  /\ Move(l, {"claimed"}, "withdrawn")
  /\ UNCHANGED <<ledger, lock, host, passing, sweep, cmd, gate, history>>

Spawn(l) ==
  /\ Move(l, {"claimed"}, "spawned") \/ Move(l, {"claimed"}, "lost")
  /\ UNCHANGED <<ledger, lock, host, passing, sweep, cmd, gate, history>>

\* withdraw_queued, release_slot with no hop, and spawn_job's watch on a child
\* that exited.
GiveBack(l) ==
  /\ Move(l, {"withdrawn", "gone", "refusing"}, "over")
  /\ ReleaseClaim(l)
  /\ UNCHANGED <<lock, host, passing, sweep, cmd, gate, history>>

--------------------------------------------------------------------------------
(* The run's process: run_job, build_run_observers.                           *)

\* JobRegistry.adopt, which also refuses a job cleared meanwhile: the process
\* then exits, and Dies is that.
Adopt(l) ==
  /\ Move(l, {"spawned"}, "mine")
  /\ UNCHANGED <<ledger, lock, host, passing, sweep, cmd, gate, history>>

ReClaim(l) ==
  /\ Move(l, {"mine"}, "adopted")
  /\ Claim(l, "child")
  /\ UNCHANGED <<lock, host, passing, sweep, cmd, gate, history>>

Tell(l) ==
  /\ Move(l, {"adopted"}, "told")
  /\ UNCHANGED <<ledger, lock, host, passing, sweep, cmd, gate, history>>

OpenFails(l) ==
  /\ Move(l, {"told"}, "unopened")
  /\ UNCHANGED <<ledger, lock, host, passing, sweep, cmd, gate, history>>

\* hold_cycle: a taker who finds the lock held is refused.
Hold(l) ==
  /\ \/ lock = Nobody /\ Move(l, {"told"}, "held") /\ lock' = l
     \/ lock # Nobody /\ Move(l, {"told"}, "refusing") /\ UNCHANGED lock
  /\ UNCHANGED <<ledger, host, passing, sweep, cmd, gate, history>>

BindFails(l) ==
  /\ Move(l, {"held"}, "refusing")
  /\ Unlock(l)
  /\ UNCHANGED <<ledger, host, passing, sweep, cmd, gate, history>>

DeclareRun(l) ==
  /\ Move(l, {"held"}, "loop")
  /\ DeclareRunning
  /\ kept' = answers' \cup ({ask'} \ {Nobody})
  /\ UNCHANGED <<lock, host, passing, sweep, cmd, gate, stray>>

OpenGate(l) ==
  /\ Move(l, {"loop"}, "gate")
  /\ DeclareGate
  /\ UNCHANGED <<lock, host, passing, sweep, cmd, gate, history>>

\* hold_for_operator: a pause before an answer.
TakeAnswer(l) ==
  /\ ask = Nobody
  /\ Move(l, {"gate"}, "answered")
  /\ \E c \in answers : answers' = answers \ {c}
  /\ UNCHANGED <<declared, ending, claim, ask>>
  /\ UNCHANGED <<lock, host, passing, sweep, cmd, gate, history>>

\* Proceed, or a re-score that heals the origin; a re-score that does not holds again.
AnswerGate(l) ==
  /\ \/ Move(l, {"answered"}, "loop") /\ DeclareRunning
     \/ Move(l, {"answered"}, "gate") /\ DeclareGate
  /\ UNCHANGED <<lock, host, passing, sweep, cmd, gate, history>>

SeePause(l) ==
  /\ ask # Nobody
  /\ Move(l, Driving, "pausing")
  /\ UNCHANGED <<ledger, lock, host, passing, sweep, cmd, gate, history>>

\* A signal, a cancellation, or the end of a stepped launch.
Interrupt(l) ==
  /\ Move(l, Driving, "pausing")
  /\ UNCHANGED <<ledger, lock, host, passing, sweep, cmd, gate, history>>

\* declare_run_stop: the pause asked is acked, then the stop declared.
TakePause(l) ==
  /\ Move(l, {"pausing"}, "stopping")
  /\ AckPause
  /\ UNCHANGED <<lock, host, passing, sweep, cmd, gate, history>>

DeclarePause(l) ==
  /\ Move(l, {"stopping"}, "drain")
  /\ DeclarePaused
  /\ UNCHANGED <<lock, host, passing, sweep, cmd, gate, history>>

DeclareEnd(l) ==
  /\ Move(l, {"loop", "answered"}, "drain")
  /\ DeclareEnded("own")
  /\ UNCHANGED <<lock, host, passing, sweep, cmd, gate, history>>

Drain(l) ==
  /\ Move(l, {"drain"}, "over")
  /\ Unlock(l)
  /\ UNCHANGED <<ledger, host, passing, sweep, cmd, gate, history>>

\* What the runner's own try does not catch: the lock is let go, then
\* run_held_job's release_slot declares the stop, but for an interrupt.
Uncaught(l) ==
  /\ \/ Move(l, {"loop", "pausing", "stopping", "drain"}, "failing")
     \/ Move(l, {"loop", "pausing", "stopping", "drain"}, "refusing")
  /\ Unlock(l)
  /\ UNCHANGED <<ledger, host, passing, sweep, cmd, gate, history>>

\* release_slot on the cycle, by the child or by the process that spawned it: it
\* declares the stop and holds no lock.  A session interrupted while it opens
\* reads as paused.
Fail(l) ==
  /\ \/ Move(l, {"failing", "lost", "unopened"}, "over") /\ DeclareEnded("failed")
     \/ Move(l, {"unopened"}, "over") /\ DeclarePaused
  /\ stray' = (stray \/ lock # Nobody)
  /\ UNCHANGED <<lock, host, passing, sweep, cmd, gate, kept>>

--------------------------------------------------------------------------------
(* Deaths.  A process's locks go with it.                                     *)

InHost == {"none", "asking", "clear", "claimed", "withdrawn", "lost", "gone"}

\* A run's process lives on without the one that spawned it.
HostDies(l) ==
  /\ l \in host
  /\ host' = host \ {l}
  /\ at' = [at EXCEPT ![l] = IF @ \in InHost THEN "over" ELSE @]
  /\ gate' = IF gate = l THEN Nobody ELSE gate
  /\ UNCHANGED <<ledger, lock, passing, sweep, cmd, history>>

\* Before it tells its spawner it holds the job, the spawner's adoption answers
\* for it; after, the spawner's watch.
Dies(l) ==
  /\ \/ l \notin host /\ Move(l, InChild, "over")
     \/ l \in host /\ Move(l, {"spawned", "mine", "adopted"}, "lost")
     \/ l \in host /\ Move(l, InChild \ {"spawned", "mine", "adopted"}, "gone")
  /\ Unlock(l)
  /\ UNCHANGED <<ledger, host, passing, sweep, cmd, gate, history>>

--------------------------------------------------------------------------------
(* A scoring pass: paid_pass and PassHold.                                    *)

\* Mutant: a pass asks outside the gate.
MutPassAskRead(p) ==
  /\ lock = Nobody
  /\ MovePass(p, {"none"}, "asking")
  /\ UNCHANGED <<ledger, lock, launching, stopping, sweep, cmd, gate, history>>

PassAskRead(p) ==
  /\ gate = Nobody /\ lock = Nobody
  /\ MovePass(p, {"none"}, "asking")
  /\ gate' = p
  /\ UNCHANGED <<ledger, lock, launching, stopping, sweep, cmd, history>>

PassAskLook(p) ==
  /\ \/ (ClaimLive \/ PassOn) /\ MovePass(p, {"asking"}, "none") /\ gate' = Nobody
     \/ ~(ClaimLive \/ PassOn) /\ MovePass(p, {"asking"}, "clear") /\ UNCHANGED gate
  /\ UNCHANGED <<ledger, lock, launching, stopping, sweep, cmd, history>>

Register(p) ==
  /\ MovePass(p, {"clear"}, "asked")
  /\ gate' = Nobody
  /\ UNCHANGED <<ledger, lock, launching, stopping, sweep, cmd, history>>

TakeHold(p) ==
  /\ \/ lock = Nobody /\ MovePass(p, {"asked"}, "holding") /\ lock' = p
     \/ lock # Nobody /\ MovePass(p, {"asked"}, "over") /\ UNCHANGED lock
  /\ UNCHANGED <<ledger, launching, stopping, sweep, cmd, gate, history>>

\* A pause asked of a producer gone since.
DropStalePause(p) ==
  /\ MovePass(p, {"holding"}, "scoring")
  /\ AckPause
  /\ UNCHANGED <<lock, launching, stopping, sweep, cmd, gate, history>>

\* Scored, failed or paused: the job is released first.
EndScoring(p) ==
  /\ MovePass(p, {"holding", "scoring"}, "letting")
  /\ UNCHANGED <<ledger, lock, launching, stopping, sweep, cmd, gate, history>>

\* Mutant: the let-go does not wait for a Stop being sent.
MutLetGo(p) ==
  /\ MovePass(p, {"letting"}, "freeing")
  /\ AckPause
  /\ UNCHANGED <<lock, launching, stopping, sweep, cmd, gate, history>>

LetGo(p) ==
  /\ stopping[p] = Nobody
  /\ MovePass(p, {"letting"}, "freeing")
  /\ AckPause
  /\ UNCHANGED <<lock, launching, stopping, sweep, cmd, gate, history>>

Free(p) ==
  /\ MovePass(p, {"freeing"}, "over")
  /\ Unlock(p)
  /\ UNCHANGED <<ledger, launching, stopping, sweep, cmd, gate, history>>

PassDies(p) ==
  /\ MovePass(p, InPass, "over")
  /\ Unlock(p)
  /\ stopping' = [stopping EXCEPT ![p] = Nobody]
  /\ gate' = IF gate = p THEN Nobody ELSE gate
  /\ UNCHANGED <<ledger, launching, sweep, cmd, history>>

\* PassHold.stopping: the hold's own lock, from the guard to the send.
Stop(p, c) ==
  /\ stopping[p] = Nobody /\ pass[p] \in PassHolding \ {"freeing"}
  /\ cmd[c] = "none"
  /\ stopping' = [stopping EXCEPT ![p] = c]
  /\ cmd' = [cmd EXCEPT ![c] = "admitted"]
  /\ UNCHANGED <<ledger, lock, launching, pass, sweep, gate, history>>

SendStop(p) ==
  /\ stopping[p] # Nobody
  /\ ArmPause(stopping[p])
  /\ cmd' = [cmd EXCEPT ![stopping[p]] = "sent"]
  /\ stopping' = [stopping EXCEPT ![p] = Nobody]
  /\ UNCHANGED <<lock, launching, pass, sweep, gate, history>>

--------------------------------------------------------------------------------
(* Commands: the guard reads the run state, the record and its ack follow.    *)

\* pause_refusal, gate_refusal.
Admitted(c) ==
  \/ c \in Pauses /\ lock # Nobody
  \/ c \in Answers /\ declared = "gate" /\ ask = Nobody /\ lock \notin Passes \cup {Nobody}

Guard(c) ==
  /\ cmd[c] = "none" /\ Admitted(c)
  /\ cmd' = [cmd EXCEPT ![c] = "admitted"]
  /\ UNCHANGED <<ledger, lock, launching, passing, sweep, gate, history>>

Send(c) ==
  /\ cmd[c] = "admitted"
  /\ \/ c \in Pauses /\ ArmPause(c)
     \/ c \in Answers /\ ArmAnswer(c)
  /\ cmd' = [cmd EXCEPT ![c] = "sent"]
  /\ UNCHANGED <<lock, launching, passing, sweep, gate, history>>

--------------------------------------------------------------------------------
(* The sweep on this cycle: mark_producer_vanished, derive_run_state,         *)
(* _declare_ended.                                                            *)

MoveSweep(from, to) == sweep = from /\ sweep' = to

SweepReadPhase ==
  /\ MoveSweep("idle", "phase")
  /\ declared = "running"
  /\ UNCHANGED <<ledger, lock, launching, passing, cmd, gate, history>>

SweepReadLock ==
  /\ IF lock = Nobody THEN MoveSweep("phase", "free") ELSE MoveSweep("phase", "idle")
  /\ UNCHANGED <<ledger, lock, launching, passing, cmd, gate, history>>

\* A standing pause reads as paused, a live claim as claimed: neither is SILENT.
SweepReadRest ==
  /\ IF ask = Nobody /\ ~ClaimLive THEN MoveSweep("free", "silent") ELSE MoveSweep("free", "idle")
  /\ UNCHANGED <<ledger, lock, launching, passing, cmd, gate, history>>

\* Mutant: the stamp is not made under the lock.
MutSweepTake ==
  /\ MoveSweep("silent", "taken")
  /\ UNCHANGED <<ledger, lock, launching, passing, cmd, gate, history>>

SweepTake ==
  /\ \/ lock = Nobody /\ MoveSweep("silent", "taken") /\ lock' = Sweep
     \/ lock # Nobody /\ MoveSweep("silent", "idle") /\ UNCHANGED lock
  /\ UNCHANGED <<ledger, launching, passing, cmd, gate, history>>

\* The facts are read again under the lock, for an ending and nothing else.
SweepScan ==
  /\ IF declared = "terminal" THEN MoveSweep("taken", "done") ELSE MoveSweep("taken", "owed")
  /\ UNCHANGED <<ledger, lock, launching, passing, cmd, gate, history>>

SweepStamp ==
  /\ MoveSweep("owed", "done")
  /\ DeclareEnded("vanished")
  /\ UNCHANGED <<lock, launching, passing, cmd, gate, history>>

SweepRelease ==
  /\ MoveSweep("done", "idle")
  /\ Unlock(Sweep)
  /\ UNCHANGED <<ledger, launching, passing, cmd, gate, history>>

--------------------------------------------------------------------------------
AskStep(l) == AskLook(l) \/ AskClaim(l) \/ Spawn(l) \/ GiveBack(l)
ChildStep(l) ==
  \/ Adopt(l) \/ ReClaim(l) \/ Tell(l) \/ Hold(l) \/ DeclareRun(l)
  \/ TakePause(l) \/ DeclarePause(l) \/ Drain(l) \/ Fail(l)
RunStep(l) ==
  \/ OpenGate(l) \/ TakeAnswer(l) \/ AnswerGate(l) \/ SeePause(l) \/ DeclareEnd(l)
Disturbed(l) ==
  \/ GiveUp(l) \/ OpenFails(l) \/ BindFails(l) \/ Interrupt(l) \/ Uncaught(l)
  \/ HostDies(l) \/ Dies(l)
PassStep(p) ==
  \/ PassAskLook(p) \/ Register(p) \/ TakeHold(p) \/ DropStalePause(p)
  \/ EndScoring(p) \/ LetGo(p) \/ Free(p)
Sweeps ==
  \/ SweepReadPhase \/ SweepReadLock \/ SweepReadRest \/ SweepTake
  \/ SweepScan \/ SweepStamp \/ SweepRelease

Next ==
  \/ \E l \in Launches :
       AskRead(l) \/ AskStep(l) \/ ChildStep(l) \/ RunStep(l) \/ Disturbed(l)
  \/ \E p \in Passes :
       PassAskRead(p) \/ PassStep(p) \/ PassDies(p) \/ SendStop(p) \/ \E c \in Stops : Stop(p, c)
  \/ \E c \in Pauses \cup Answers : Guard(c) \/ Send(c)
  \/ Sweeps

Spec == Init /\ [][Next]_vars

\* Handlers run to their end while their process lives, the loop polls its inbox
\* at every checkpoint, a pass ends, and the periodic sweep comes back.  A launch
\* need not be asked, a gate need not be answered, a run need not end.
Fairness ==
  /\ \A l \in Launches : WF_vars(AskStep(l)) /\ WF_vars(ChildStep(l))
  /\ \A l \in Launches : WF_vars(SeePause(l)) /\ WF_vars(AnswerGate(l))
  /\ \A p \in Passes : WF_vars(PassStep(p)) /\ WF_vars(SendStop(p))
  /\ WF_vars(Sweeps)

FairSpec == Spec /\ Fairness

--------------------------------------------------------------------------------
LaunchStates == {"none", "asking", "clear", "claimed", "withdrawn", "lost", "gone", "over"} \cup InChild
SweepStates == {"idle", "phase", "free", "silent", "taken", "owed", "done"}

\* Every variable stays in its domain, and an ending stands exactly while the
\* last declaration is a terminal one.
TypeOK ==
  /\ declared \in {"none", "running", "gate", "paused", "terminal"}
  /\ ending \in {"none", "own", "failed", "vanished"}
  /\ ending = "none" <=> declared # "terminal"
  /\ claim \in [of : Launches \cup {Nobody}, by : {"host", "child"}]
  /\ ask \in Pauses \cup Stops \cup {Nobody}
  /\ answers \subseteq Answers
  /\ lock \in Launches \cup Passes \cup {Sweep, Nobody}
  /\ at \in [Launches -> LaunchStates]
  /\ host \subseteq Launches
  /\ pass \in [Passes -> InPass \cup {"none", "over"}]
  /\ stopping \in [Passes -> Stops \cup {Nobody}]
  /\ sweep \in SweepStates
  /\ cmd \in [Commands -> {"none", "admitted", "sent"}]
  /\ gate \in Launches \cup Passes \cup {Nobody}
  /\ stray \in BOOLEAN
  /\ kept \subseteq Commands

\* What the ledger says of a run is what the run is at, whoever else decided
\* something about the cycle before it took the lock: a sweep that read it
\* silent, a launch admitted beside it, a pass.  Only a stop declared with no
\* lock, for a launch that failed, may land over another's run.
RunKeepsItsPhase ==
  \A l \in Launches :
    stray \/ /\ at[l] = "loop" => lock = l /\ declared = "running"
             /\ at[l] \in {"gate", "answered"} => lock = l /\ declared = "gate"
             /\ at[l] \in {"pausing", "stopping"} => lock = l /\ declared \in {"running", "gate"}

\* A launch's own host claim, standing and alive.
HostClaimed(l) == at[l] \in {"claimed", "spawned"} /\ claim = [of |-> l, by |-> "host"] /\ l \in host

\* A launch waiting on its claim and a pass billing the cycle were never both
\* admitted: each registers under the gate that the other reads the cycle under.
OneAdmission ==
  \A l \in Launches, p \in Passes :
    HostClaimed(l) => pass[p] \notin {"asked", "holding", "scoring"}

\* A Stop sent through a pass's hold never reaches a run that holds the cycle
\* after it, unless that run's RUNNING left the inbox of a dead gate standing.
PassStopStaysWithPass ==
  \A l \in Launches : at[l] \in Driving /\ ask \in Stops => ask \in kept

\* A cycle left running with nobody attached is stamped, or a launch, a pass or
\* a pause answers for it.
DeadRunStamped ==
  declared = "running" /\ ~Attached ~> declared # "running" \/ Attached \/ ask # Nobody

\* A pause standing in a run's inbox ends that run's hold of the cycle, whatever it is
\* at: it is not missed at the gate, lost to the RUNNING of an answer that came with it,
\* or acked and forgotten.  A stop declared with no lock, for another launch that failed,
\* empties the inbox of a run it has nothing to do with.
PauseStops ==
  \A l \in Launches : at[l] \in Driving /\ ask # Nobody ~> lock # l \/ stray

--------------------------------------------------------------------------------
(* What makes the properties inductive.                                       *)

\* Who is between taking the lock and letting it go holds it.
LockInv ==
  /\ \A l \in Launches : at[l] \in Holding => lock = l
  /\ \A p \in Passes : pass[p] \in PassHolding => lock = p
  /\ sweep \in {"taken", "owed", "done"} => lock = Sweep

\* Who asks holds the gate, and what it read there still stands.
GateInv ==
  /\ \A l \in Launches : at[l] \in {"asking", "clear"} => gate = l
  /\ \A p \in Passes : pass[p] \in {"asking", "clear"} => gate = p
  /\ \A l \in Launches : at[l] = "clear" => ~PassOn
  /\ \A p \in Passes : pass[p] = "clear" => \A l \in Launches : ~HostClaimed(l)

\* A Stop is being sent only while the pass holds the cycle.
StopInv == \A p \in Passes : stopping[p] # Nobody => pass[p] \in {"holding", "scoring", "letting"}

\* Who holds the lock or the gate is where the code says it does, and the
\* properties above with it: the invariant the proofs carry.
CycleInv ==
  /\ LockInv /\ GateInv /\ StopInv
  /\ RunKeepsItsPhase /\ OneAdmission /\ PassStopStaysWithPass

================================================================================
