------------------------------ MODULE JobRegistry ------------------------------
(***************************************************************************)
(* The machine's launch queue: application/jobs/registry.py with its       *)
(* interlock, its capacity, and the launcher tasks and run processes that  *)
(* drive it.                                                               *)
(*                                                                         *)
(* Every process shares one directory of job files.  A job file is always  *)
(* written whole, from a copy read earlier.  Some writers hold the         *)
(* machine-wide admission gate between their read and their write; two do  *)
(* not: JobRegistry.mark_started and JobRegistry.release.  So each write   *)
(* here is two steps, a read that takes a copy and a write of that copy,   *)
(* and the gate excludes the gated ones from one another only.             *)
(*                                                                         *)
(* A job names the process that answers for it, its producer.  Producer    *)
(* liveness is an OS lock: it ends with the process, at any step.          *)
(***************************************************************************)
EXTENDS Naturals, FiniteSets

CONSTANTS
  MaxJobs,     \* bound: jobs ever asked for; a job's number is its created_at order
  Capacity,    \* settings.MACHINE_RUN_CAPACITY
  Users,       \* accounts
  UserLimit,   \* User.max_concurrent_cycles, the same for every account here
  Servers,     \* launching processes: an API server or a CLI, each one incarnation
  Code,        \* the code revision each server runs, "old" or "new"
  Kinds,       \* which asks the run allows: "launch", "pass", "embedded", "arms"
  Disturb,     \* what else may happen: "interrupt", a launch is cancelled;
               \* "limits", an operator moves a live run's reserve; "flicker",
               \* the throttle's verdict turns within one request
  Child,       \* stands for "the job's own spawned process" as a producer
  Nobody       \* no producer, no process

Jobs == 1..MaxJobs

ASSUME RegistryAssumption ==
  /\ MaxJobs \in Nat
  /\ Capacity \in Nat \ {0}
  /\ UserLimit \in Nat
  /\ Code \in [Servers -> {"old", "new"}]
  /\ Kinds \subseteq {"launch", "pass", "embedded", "arms"}
  /\ Disturb \subseteq {"interrupt", "limits", "flicker"}
  /\ Child \notin Servers /\ Nobody \notin Servers /\ Child # Nobody

VARIABLES
  job,      \* the job files
  owner,    \* the account each job was asked by
  made,     \* the server that asked for each job, and runs its launcher task
  task,     \* where that launcher task is
  child,    \* where the job's spawned process is
  watched,  \* JobRegistry._tasks of the spawner: its task waits on the child's exit
  copy,     \* the copy an ungated writer of the job read and has not written back
  gate,     \* the admission gate: its holder's operation and copy
  up,       \* the servers whose producer lock is held
  landing,  \* the LANDING_FILE names the "new" revision
  late,     \* history: jobs adopted after their spawner died
  astray    \* history: jobs that a cancelled launch left to nobody

vars == <<job, owner, made, task, child, watched, copy, gate, up, landing, late, astray>>

--------------------------------------------------------------------------------
(* A job file. *)

JobRecord ==
  [stage    : {"none", "queued", "starting", "running"},
   ended    : {"no", "refused", "withdrawn", "orphaned", "stopped", "passed"},
   kind     : {"launch", "pass", "embedded"},
   admitted : BOOLEAN,
   producer : Servers \cup {Child, Nobody}]

NoJob == [stage |-> "none", ended |-> "no", kind |-> "launch",
          admitted |-> FALSE, producer |-> Nobody]

NewJob(s, kind, stage, admitted) ==
  [stage |-> stage, ended |-> "no", kind |-> kind,
   admitted |-> admitted, producer |-> s]

WithStage(r, stage) ==
  [stage |-> stage, ended |-> r.ended, kind |-> r.kind,
   admitted |-> r.admitted, producer |-> r.producer]

WithEnding(r, ended) ==
  [stage |-> r.stage, ended |-> ended, kind |-> r.kind,
   admitted |-> r.admitted, producer |-> r.producer]

WithAdmission(r) ==
  [stage |-> r.stage, ended |-> r.ended, kind |-> r.kind,
   admitted |-> TRUE, producer |-> r.producer]

WithProducer(r, p) ==
  [stage |-> r.stage, ended |-> r.ended, kind |-> r.kind,
   admitted |-> r.admitted, producer |-> p]

Released(r)   == r.ended # "no"
Queued(r)     == ~Released(r) /\ r.stage = "queued"
HoldsSpend(r) == ~Released(r) /\ r.stage \in {"starting", "running"}
HoldsSlot(r)  == HoldsSpend(r) /\ r.kind # "embedded"

Exited == {"none", "gone", "lost"}

ProducerAlive(j) ==
  \/ job[j].producer \in up
  \/ job[j].producer = Child /\ child[j] \notin Exited

\* Mutant: liveness is asked of the process that launched the job, never of the
\* one that adopted it.
MutOrphaned(s, j) == ~(watched[j] /\ made[j] = s) /\ made[j] \notin up

\* The spawner asks its own task before it asks the lock.
Orphaned(s, j) == ~(watched[j] /\ made[j] = s) /\ ~ProducerAlive(j)

Running(s) == {j \in Jobs : HoldsSlot(job[j]) /\ ~Orphaned(s, j)}
Waiting(s) == {j \in Jobs : Queued(job[j]) /\ ~Orphaned(s, j)}

\* Mutant: a server counts the launches it asked for itself.
MutInFlight(s, u) ==
  {j \in Running(s) \cup Waiting(s) :
     job[j].kind = "launch" /\ owner[j] = u /\ made[j] = s}

InFlight(s, u) ==
  {j \in Running(s) \cup Waiting(s) : job[j].kind = "launch" /\ owner[j] = u}

--------------------------------------------------------------------------------
(* Capacity: what resolve_run_capacity answers for a count of running jobs.  *)
(* Whether the provider throttle has stalled is read afresh at every call.   *)

\* Mutant: a stalled machine keeps what it holds, and no floor of one.
MutCapacityFor(live, stalled) ==
  IF stalled /\ live < Capacity THEN live ELSE Capacity

CapacityFor(live, stalled) ==
  LET held == IF live < Capacity THEN live ELSE Capacity
  IN  IF ~stalled THEN Capacity ELSE IF held < 1 THEN 1 ELSE held

\* Mutant: off by one.
MutHasSlot(live, stalled) == live <= CapacityFor(live, stalled)

HasSlot(live, stalled) == live < CapacityFor(live, stalled)

Served(s, u) == Cardinality({j \in Running(s) : owner[j] = u})

\* JobRegistry.queue_order: the least-served account first, then the oldest.
Before(s, i, j) ==
  \/ Served(s, owner[i]) < Served(s, owner[j])
  \/ Served(s, owner[i]) = Served(s, owner[j]) /\ i < j

IsHead(s, j) ==
  /\ j \in Waiting(s)
  /\ \A i \in Waiting(s) \ {j} : Before(s, j, i)

--------------------------------------------------------------------------------
(* The gate. *)

Free == [op |-> "free", j |-> 0, by |-> Nobody, rec |-> NoJob]
GateFree == gate.op = "free"
GateHeldFor(op, j) == gate.op = op /\ gate.j = j

TakeGate(op, j, p) == gate' = [op |-> op, j |-> j, by |-> p, rec |-> job[j]]

ClosedTo(s) == landing /\ Code[s] # "new"

\* A launch that was cancelled has ended and will not look at its job again.  The job
\* is left to nobody where the thread it abandoned writes an unreleased copy over its
\* release, and where its process dies before it adopts it.
Strayed(j, lost) == IF lost THEN astray \cup {j} ELSE astray

NoCopy == NoJob

Init ==
  /\ job = [j \in Jobs |-> NoJob]
  /\ owner = [j \in Jobs |-> Nobody]
  /\ made = [j \in Jobs |-> Nobody]
  /\ task = [j \in Jobs |-> "none"]
  /\ child = [j \in Jobs |-> "none"]
  /\ watched = [j \in Jobs |-> FALSE]
  /\ copy = [j \in Jobs |-> NoCopy]
  /\ gate = Free
  /\ up = Servers
  /\ landing = FALSE
  /\ late = {}
  /\ astray = {}

\* The next job to be asked for: jobs are numbered as they are asked.
Unasked(j) == \A i \in Jobs : i < j <=> job[i].stage # "none"

--------------------------------------------------------------------------------
(* Asking for a slot: request_jobs, whole under the gate. *)

\* A lone ask starts or queues; a pass or an impatient launch that queued is
\* refused as busy.  An embedded or inner run holds no slot.
Request(s, u, j, kind) ==
  /\ GateFree /\ s \in up /\ ~ClosedTo(s) /\ Unasked(j)
  /\ kind \in Kinds
  /\ kind = "launch" => Cardinality(InFlight(s, u)) + 1 <= UserLimit
  /\ \E stalled, patient \in BOOLEAN :
       LET live  == Cardinality(Running(s))
           stage == IF kind = "embedded" \/ HasSlot(live, stalled)
                      THEN "starting" ELSE "queued"
       IN  /\ job' = [job EXCEPT ![j] = NewJob(s, kind, stage, FALSE)]
           /\ task' = [task EXCEPT ![j] =
                         IF stage = "starting" THEN "admit"
                         ELSE IF kind = "launch" /\ patient THEN "wait" ELSE "busy"]
  /\ owner' = [owner EXCEPT ![j] = u]
  /\ made' = [made EXCEPT ![j] = s]
  /\ UNCHANGED <<child, watched, copy, gate, up, landing, late, astray>>

Arm(s, stage, admitted, ended) ==
  WithEnding(NewJob(s, "launch", stage, admitted), ended)

\* Two arms of a head-to-head, admitted both or neither under one gate.  Room
\* is asked for both, then each slot is requested on a capacity read afresh.
\* When the first came back queued it alone is withdrawn; when an arm's
\* admission refuses, both are released before the gate is.
RequestArms(s, u, j) ==
  /\ GateFree /\ s \in up /\ ~ClosedTo(s)
  /\ "arms" \in Kinds /\ Unasked(j) /\ j + 1 \in Jobs
  /\ Cardinality(InFlight(s, u)) + 2 <= UserLimit
  /\ \E room, one, two \in BOOLEAN :
       LET live   == Cardinality(Running(s))
           first  == IF HasSlot(live, one) THEN "starting" ELSE "queued"
           second == IF HasSlot(IF first = "starting" THEN live + 1 ELSE live, two)
                       THEN "starting" ELSE "queued"
       IN  /\ "flicker" \in Disturb \/ (one = room /\ two = room)
           /\ HasSlot(live, room) /\ HasSlot(live + 1, room)
           /\ \/ /\ first = "queued"
                 /\ job' = [job EXCEPT ![j] = Arm(s, first, FALSE, "no"),
                                       ![j + 1] = Arm(s, second, FALSE, "no")]
                 /\ task' = [task EXCEPT ![j] = "busy", ![j + 1] = "over"]
              \/ /\ first = "starting"
                 /\ job' = [job EXCEPT ![j] = Arm(s, first, TRUE, "no"),
                                       ![j + 1] = Arm(s, second, TRUE, "no")]
                 /\ task' = [task EXCEPT ![j] = "hold", ![j + 1] = "hold"]
              \/ /\ first = "starting"
                 /\ \E r \in {Arm(s, first, FALSE, "refused"), Arm(s, first, TRUE, "stopped")} :
                      job' = [job EXCEPT ![j] = r,
                                         ![j + 1] = Arm(s, second, FALSE, "refused")]
                 /\ task' = [task EXCEPT ![j] = "over", ![j + 1] = "over"]
  /\ owner' = [owner EXCEPT ![j] = u, ![j + 1] = u]
  /\ made' = [made EXCEPT ![j] = s, ![j + 1] = s]
  /\ UNCHANGED <<child, watched, copy, gate, up, landing, late, astray>>

--------------------------------------------------------------------------------
(* The queue: await_claim polls claim_next, which runs in a worker thread.   *)

\* Mutant: a waiter does not ask whether a landing holds the queue.
MutClaimRead(j) ==
  /\ task[j] = "wait" /\ GateFree /\ IsHead(made[j], j)
  /\ \E stalled \in BOOLEAN : HasSlot(Cardinality(Running(made[j])), stalled)
  /\ TakeGate("claim", j, made[j])
  /\ UNCHANGED <<job, owner, made, task, child, watched, copy, up, landing, late, astray>>

ClaimRead(j) ==
  /\ task[j] = "wait" /\ GateFree
  /\ ~ClosedTo(made[j]) /\ IsHead(made[j], j)
  /\ \E stalled \in BOOLEAN : HasSlot(Cardinality(Running(made[j])), stalled)
  /\ TakeGate("claim", j, made[j])
  /\ UNCHANGED <<job, owner, made, task, child, watched, copy, up, landing, late, astray>>

\* The thread of a cancelled wait still holds the gate and still writes.
ClaimWrite(j) ==
  /\ GateHeldFor("claim", j)
  /\ job' = [job EXCEPT ![j] = WithStage(gate.rec, "starting")]
  /\ gate' = Free
  /\ astray' = Strayed(j, Released(job[j]))
  /\ task' = [task EXCEPT ![j] = IF @ = "wait" THEN "admit" ELSE @]
  /\ UNCHANGED <<owner, made, child, watched, copy, up, landing, late>>

\* A wait ends unclaimed: the job was withdrawn, or the deadline passed.
GiveUpWaiting(j) ==
  /\ task[j] = "wait" /\ ~GateHeldFor("claim", j)
  /\ task' = [task EXCEPT ![j] = "failing"]
  /\ UNCHANGED <<job, owner, made, child, watched, copy, gate, up, landing, late, astray>>

\* JobRegistry.cancel_queued, asked by any server, or by a task refused as busy.
WithdrawRead(s, j) ==
  /\ GateFree /\ s \in up /\ Queued(job[j])
  /\ TakeGate("withdraw", j, s)
  /\ UNCHANGED <<job, owner, made, task, child, watched, copy, up, landing, late, astray>>

WithdrawWrite(j) ==
  /\ GateHeldFor("withdraw", j)
  /\ job' = [job EXCEPT ![j] = WithEnding(gate.rec, "withdrawn")]
  /\ gate' = Free
  /\ UNCHANGED <<owner, made, task, child, watched, copy, up, landing, late, astray>>

BusyRefused(j) ==
  /\ task[j] = "busy" /\ ~Queued(job[j])
  /\ task' = [task EXCEPT ![j] = "over"]
  /\ UNCHANGED <<job, owner, made, child, watched, copy, gate, up, landing, late, astray>>

--------------------------------------------------------------------------------
(* Admission: admit_and_share in a worker thread, then mark_admitted. *)

AdmitRead(j) ==
  /\ task[j] = "admit" /\ GateFree
  /\ TakeGate("admit", j, made[j])
  /\ UNCHANGED <<job, owner, made, task, child, watched, copy, up, landing, late, astray>>

AdmitWrite(j) ==
  /\ GateHeldFor("admit", j)
  /\ job' = [job EXCEPT ![j] = WithAdmission(gate.rec)]
  /\ gate' = Free
  /\ astray' = Strayed(j, Released(job[j]))
  /\ task' = [task EXCEPT ![j] = IF @ = "admit" THEN "hold" ELSE @]
  /\ UNCHANGED <<owner, made, child, watched, copy, up, landing, late>>

\* The backend is down, the wallet or the ceiling refuses, the mint or the
\* bind of the cycle raises, or the process does not start.
Fail(j) ==
  /\ \/ task[j] = "admit" /\ ~GateHeldFor("admit", j)
     \/ task[j] \in {"hold", "run"}
  /\ task' = [task EXCEPT ![j] = "failing"]
  /\ UNCHANGED <<job, owner, made, child, watched, copy, gate, up, landing, late, astray>>

\* A cancelled task abandons the thread it awaits.  One that awaits the
\* child's adoption leaves the job to the child.
Interrupt(j) ==
  /\ "interrupt" \in Disturb
  /\ \/ /\ task[j] \in {"wait", "admit", "hold", "run"}
        /\ task' = [task EXCEPT ![j] = "stopping"]
        /\ UNCHANGED astray
     \/ /\ task[j] = "spawn"
        /\ task' = [task EXCEPT ![j] = "over"]
        /\ astray' = Strayed(j, child[j] = "lost")
  /\ UNCHANGED <<job, owner, made, child, watched, copy, gate, up, landing, late>>

--------------------------------------------------------------------------------
(* Giving the slot back: JobRegistry.release, in the launcher task or the    *)
(* run's process.  It holds no gate.                                          *)

Ending(r, why) ==
  IF why = "failing" /\ ~r.admitted THEN "refused"
  ELSE IF why = "finishing" /\ r.kind = "pass" THEN "passed" ELSE "stopped"

\* Mutant: the ending is the way the work ended, unread.
MutEnded(r, why) == WithEnding(r, why)

Ended(r, why) == IF Released(r) THEN r ELSE WithEnding(r, Ending(r, why))

Giving == {"failing", "stopping", "finishing"}

ReleaseRead(j) ==
  /\ task[j] \in Giving \/ child[j] \in Giving
  /\ copy[j] = NoCopy
  /\ copy' = [copy EXCEPT ![j] = job[j]]
  /\ UNCHANGED <<job, owner, made, task, child, watched, gate, up, landing, late, astray>>

TaskReleaseWrite(j) ==
  /\ task[j] \in Giving /\ copy[j] # NoCopy
  /\ job' = IF Released(copy[j]) THEN job
            ELSE [job EXCEPT ![j] = Ended(copy[j], task[j])]
  /\ copy' = [copy EXCEPT ![j] = NoCopy]
  /\ task' = [task EXCEPT ![j] = "over"]
  /\ UNCHANGED <<owner, made, child, watched, gate, up, landing, late, astray>>

ChildReleaseWrite(j) ==
  /\ child[j] \in Giving /\ copy[j] # NoCopy
  /\ job' = IF Released(copy[j]) THEN job
            ELSE [job EXCEPT ![j] = Ended(copy[j], child[j])]
  /\ copy' = [copy EXCEPT ![j] = NoCopy]
  /\ child' = [child EXCEPT ![j] = "gone"]
  /\ UNCHANGED <<owner, made, task, watched, gate, up, landing, late, astray>>

--------------------------------------------------------------------------------
(* Running: inline in the launcher's process, or detached in its own.        *)

\* JobRegistry.mark_started, which holds no gate either.
StartRead(j) ==
  /\ \/ /\ task[j] = "hold"
        /\ task' = [task EXCEPT ![j] = "begin"]
        /\ UNCHANGED child
     \/ /\ child[j] = "told"
        /\ child' = [child EXCEPT ![j] = "begin"]
        /\ UNCHANGED task
  /\ copy' = [copy EXCEPT ![j] = job[j]]
  /\ UNCHANGED <<job, owner, made, watched, gate, up, landing, late, astray>>

StartWrite(j) ==
  /\ task[j] = "begin" \/ child[j] = "begin"
  /\ job' = [job EXCEPT ![j] = WithStage(copy[j], "running")]
  /\ copy' = [copy EXCEPT ![j] = NoCopy]
  /\ task' = [task EXCEPT ![j] = IF @ = "begin" THEN "run" ELSE @]
  /\ child' = [child EXCEPT ![j] = IF @ = "begin" THEN "run" ELSE @]
  /\ UNCHANGED <<owner, made, watched, gate, up, landing, late, astray>>

RunEnds(j) ==
  /\ \/ /\ task[j] = "run"
        /\ task' = [task EXCEPT ![j] = "finishing"]
        /\ UNCHANGED child
     \/ /\ child[j] = "run"
        /\ child' = [child EXCEPT ![j] = "finishing"]
        /\ UNCHANGED task
  /\ UNCHANGED <<job, owner, made, watched, copy, gate, up, landing, late, astray>>

\* The run's process could not bind its session, or its run raised.
ChildFails(j) ==
  /\ child[j] \in {"told", "run"}
  /\ child' = [child EXCEPT ![j] = "failing"]
  /\ UNCHANGED <<job, owner, made, task, watched, copy, gate, up, landing, late, astray>>

Spawn(j) ==
  /\ task[j] = "hold" /\ job[j].kind = "launch"
  /\ task' = [task EXCEPT ![j] = "spawn"]
  /\ child' = [child EXCEPT ![j] = "spawned"]
  /\ UNCHANGED <<job, owner, made, watched, copy, gate, up, landing, late, astray>>

\* Mutant: the child takes the job without asking whether it was released.
MutAdoptRead(j) ==
  /\ child[j] = "spawned" /\ GateFree
  /\ TakeGate("adopt", j, Child)
  /\ late' = IF made[j] \in up THEN late ELSE late \cup {j}
  /\ UNCHANGED <<job, owner, made, task, child, watched, copy, up, landing, astray>>

\* JobRegistry.adopt: whatever happened to the spawner meanwhile, an unreleased
\* job is the child's.
AdoptRead(j) ==
  /\ child[j] = "spawned" /\ GateFree
  /\ IF Released(job[j])
       THEN /\ child' = [child EXCEPT ![j] = "lost"]
            /\ UNCHANGED <<gate, late>>
       ELSE /\ TakeGate("adopt", j, Child)
            /\ late' = IF made[j] \in up THEN late ELSE late \cup {j}
            /\ UNCHANGED child
  /\ UNCHANGED <<job, owner, made, task, watched, copy, up, landing, astray>>

AdoptWrite(j) ==
  /\ GateHeldFor("adopt", j)
  /\ job' = [job EXCEPT ![j] = WithProducer(gate.rec, Child)]
  /\ gate' = Free
  /\ child' = [child EXCEPT ![j] = "adopted"]
  /\ UNCHANGED <<owner, made, task, watched, copy, up, landing, late, astray>>

Tell(j) ==
  /\ child[j] = "adopted"
  /\ child' = [child EXCEPT ![j] = "told"]
  /\ UNCHANGED <<job, owner, made, task, watched, copy, gate, up, landing, late, astray>>

\* spawn_job returns on the child's word, and keeps a task that waits on its
\* exit; a child that exits without the word is released by its spawner.
HearAdoption(j) ==
  /\ task[j] = "spawn" /\ child[j] \notin {"spawned", "adopted"}
  /\ task' = [task EXCEPT ![j] = IF child[j] = "lost" THEN "failing" ELSE "over"]
  /\ watched' = [watched EXCEPT ![j] = child[j] # "lost"]
  /\ UNCHANGED <<job, owner, made, child, copy, gate, up, landing, late, astray>>

WatchEnds(j) ==
  /\ watched[j] /\ child[j] = "gone"
  /\ watched' = [watched EXCEPT ![j] = FALSE]
  /\ UNCHANGED <<job, owner, made, task, child, copy, gate, up, landing, late, astray>>

--------------------------------------------------------------------------------
(* Deaths.  A dead process drops its producer lock and the gate, and forgets  *)
(* the copy it read.                                                          *)

InTask == {"begin"} \cup Giving

ChildDies(j) ==
  /\ child[j] \notin Exited
  /\ child' = [child EXCEPT ![j] = IF @ \in {"spawned", "adopted"} THEN "lost" ELSE "gone"]
  /\ copy' = [copy EXCEPT ![j] = IF child[j] \in InTask THEN NoCopy ELSE @]
  /\ astray' = Strayed(j, child[j] = "spawned" /\ task[j] = "over" /\ made[j] \in up)
  /\ gate' = IF GateHeldFor("adopt", j) THEN Free ELSE gate
  /\ UNCHANGED <<job, owner, made, task, watched, up, landing, late>>

ServerDies(s) ==
  /\ s \in up
  /\ up' = up \ {s}
  /\ task' = [j \in Jobs |-> IF made[j] = s THEN "over" ELSE task[j]]
  /\ watched' = [j \in Jobs |-> watched[j] /\ made[j] # s]
  /\ copy' = [j \in Jobs |-> IF made[j] = s /\ task[j] \in InTask THEN NoCopy ELSE copy[j]]
  /\ gate' = IF gate.by = s THEN Free ELSE gate
  /\ UNCHANGED <<job, owner, made, child, landing, late, astray>>

--------------------------------------------------------------------------------
(* What other processes write.                                               *)

\* hold_budget_change: set_reserve on the job of a live run, under the gate.
ReserveRead(s, j) ==
  /\ "limits" \in Disturb /\ GateFree /\ s \in up
  /\ HoldsSpend(job[j]) /\ job[j].kind # "pass" /\ ~Orphaned(s, j)
  /\ TakeGate("reserve", j, s)
  /\ UNCHANGED <<job, owner, made, task, child, watched, copy, up, landing, late, astray>>

ReserveWrite(j) ==
  /\ GateHeldFor("reserve", j)
  /\ job' = [job EXCEPT ![j] = gate.rec]
  /\ gate' = Free
  /\ astray' = Strayed(j, Released(job[j]))
  /\ UNCHANGED <<owner, made, task, child, watched, copy, up, landing, late>>

\* JobRegistry.reap_orphans, by the periodic sweep of any server.
Reap(s, j) ==
  /\ GateFree /\ s \in up
  /\ job[j].stage # "none" /\ ~Released(job[j]) /\ Orphaned(s, j)
  /\ job' = [job EXCEPT ![j] = WithEnding(job[j], "orphaned")]
  /\ UNCHANGED <<owner, made, task, child, watched, copy, gate, up, landing, late, astray>>

\* JobRegistry.close_for_landing, by the lander's own process, which launched
\* nothing: it sees a live job by its producer lock alone.
Land ==
  /\ GateFree /\ ~landing
  /\ \A j \in Jobs : HoldsSpend(job[j]) /\ ProducerAlive(j) => Code[made[j]] = "new"
  /\ landing' = TRUE
  /\ UNCHANGED <<job, owner, made, task, child, watched, copy, gate, up, late, astray>>

--------------------------------------------------------------------------------

ServerStep(s) ==
  \/ \E j \in Jobs :
       \/ \E u \in Users, kind \in {"launch", "pass", "embedded"} : Request(s, u, j, kind)
       \/ \E u \in Users : RequestArms(s, u, j)
       \/ WithdrawRead(s, j)
       \/ ReserveRead(s, j)
       \/ Reap(s, j)
  \/ ServerDies(s)

TaskStep(j) ==
  \/ ClaimRead(j) \/ ClaimWrite(j) \/ GiveUpWaiting(j)
  \/ WithdrawWrite(j) \/ BusyRefused(j) \/ ReserveWrite(j)
  \/ AdmitRead(j) \/ AdmitWrite(j) \/ Fail(j) \/ Interrupt(j)
  \/ ReleaseRead(j) \/ TaskReleaseWrite(j) \/ ChildReleaseWrite(j)
  \/ StartRead(j) \/ StartWrite(j) \/ RunEnds(j)
  \/ ChildFails(j) \/ Spawn(j) \/ AdoptRead(j) \/ AdoptWrite(j) \/ Tell(j)
  \/ HearAdoption(j) \/ WatchEnds(j) \/ ChildDies(j)

Next ==
  \/ \E s \in Servers : ServerStep(s)
  \/ \E j \in Jobs : TaskStep(j)
  \/ Land

Spec == Init /\ [][Next]_vars

\* What the launchers and the run processes do on their own, once they hold
\* what they wait for.  Nobody has to ask, fail, interrupt or die, a run ends,
\* and a deadline is never what empties the queue.
Work(j) ==
  \/ Released(job[j]) /\ GiveUpWaiting(j)
  \/ BusyRefused(j) \/ ReleaseRead(j) \/ TaskReleaseWrite(j) \/ ChildReleaseWrite(j)
  \/ StartRead(j) \/ Spawn(j) \/ StartWrite(j) \/ RunEnds(j)
  \/ Tell(j) \/ HearAdoption(j) \/ WatchEnds(j)

UseGate(j) ==
  ClaimWrite(j) \/ WithdrawWrite(j) \/ AdmitWrite(j) \/ AdoptWrite(j) \/ ReserveWrite(j)

AskGate(j) ==
  \/ ClaimRead(j) /\ HasSlot(Cardinality(Running(made[j])), TRUE)
  \/ AdmitRead(j) \/ AdoptRead(j)
  \/ task[j] = "busy" /\ WithdrawRead(made[j], j)

\* A gate taker polls a lock that every holder gives back, so it is strongly
\* fair; so is the sweep of a server that stays up.  A claim is fair only where
\* the capacity a stalled provider leaves would grant it.  A job comes to each of
\* these steps a few times in its life, so what is fair to the jobs together is
\* fair to each.
Fairness ==
  /\ WF_vars(\E j \in Jobs : UseGate(j))
  /\ WF_vars(\E j \in Jobs : Work(j))
  /\ SF_vars(\E j \in Jobs : AskGate(j) \/ \E s \in Servers : Reap(s, j))

FairSpec == Spec /\ Fairness

--------------------------------------------------------------------------------
(* Properties. *)

\* A launcher task: launch()'s worker, from the ask to what it leaves.
Tasks == {"none", "wait", "busy", "admit", "hold", "spawn", "begin", "run",
          "failing", "stopping", "finishing", "over"}

\* A spawned run process: run_job's start, its run, its exit.
Children == {"none", "spawned", "adopted", "told", "begin", "run",
             "failing", "finishing", "gone", "lost"}

\* Every variable stays in its domain.
TypeOK ==
  /\ job \in [Jobs -> JobRecord]
  /\ owner \in [Jobs -> Users \cup {Nobody}]
  /\ made \in [Jobs -> Servers \cup {Nobody}]
  /\ task \in [Jobs -> Tasks]
  /\ child \in [Jobs -> Children]
  /\ watched \in [Jobs -> BOOLEAN]
  /\ copy \in [Jobs -> JobRecord]
  /\ gate \in [op : {"free", "claim", "withdraw", "admit", "adopt", "reserve"},
               j : Jobs \cup {0}, by : Servers \cup {Child, Nobody}, rec : JobRecord]
  /\ up \in SUBSET Servers
  /\ landing \in BOOLEAN
  /\ late \in SUBSET Jobs
  /\ astray \in SUBSET Jobs

SlotLive(j) == HoldsSlot(job[j]) /\ ProducerAlive(j)
SpendLive(j) == HoldsSpend(job[j]) /\ ProducerAlive(j)
Slots == {j \in Jobs \ late : SlotLive(j)}

FlightLive(j) == (Queued(job[j]) \/ HoldsSlot(job[j])) /\ ProducerAlive(j)
Flights(u) ==
  {j \in Jobs \ late : FlightLive(j) /\ job[j].kind = "launch" /\ owner[j] = u}

Executing(j) == task[j] = "run" \/ child[j] = "run"

\* However asks, claims, releases, deaths and stale writes interleave, the jobs
\* holding a machine slot through a live producer never outnumber the ceiling:
\* the one way past it is a job adopted after its spawner died (`late`), which
\* request_slot and claim_next had already stopped counting.
SlotsWithinCapacity ==
  Cardinality(Slots) <= Capacity

\* Once the admission closed for a landing, no live job is on older code: not
\* one claimed, admitted or written back by a process that read before it
\* closed.  A late adoption is again the one exception.
LandingExcludesOldCode ==
  landing => \A j \in Jobs \ late : SpendLive(j) => Code[made[j]] = "new"

\* An account never has more launches in flight, queued ones included, than its
\* limit, whichever of its servers it asks and whatever died between.
AccountWithinLimit == \A u \in Users : Cardinality(Flights(u)) <= UserLimit

\* A search runs only on a job that says so: unreleased, in a slot stage,
\* admitted, answered for by the very process that runs it.  Neither a
\* withdrawal, a sweep nor a stale write takes the job from under it.  (The
\* stage may read STARTING still: set_reserve can write an older copy back.)
RunsAreRegistered ==
  \A j \in Jobs : Executing(j) =>
    /\ HoldsSpend(job[j]) /\ job[j].admitted
    /\ job[j].producer = IF child[j] = "run" THEN Child ELSE made[j]

\* One process at most works on a job: the launcher's inline run and a spawned
\* process never coexist, and the job a child holds is never reaped or given
\* back by its spawner.
OneWorker ==
  \A j \in Jobs :
    /\ ~(task[j] \in {"begin", "run"} /\ child[j] # "none")
    /\ child[j] \in {"adopted", "told", "begin", "run"} => ~Released(job[j])

\* A queued launch whose server lives does not wait for ever: it is promoted or
\* withdrawn, whoever dies at the head of the queue before it, unless a landing
\* closed the queue or a cancelled launch left its slot taken.  Its deadline is
\* not needed, nor that the provider throttle ever recovers.
QueueDrains ==
  \A j \in Jobs :
    (Queued(job[j]) /\ made[j] \in up)
      ~> (~Queued(job[j]) \/ made[j] \notin up \/ landing \/ astray # {})

\* A slot taken comes back: the run ends, its launch fails or is cancelled, or its
\* producer dies and the sweep of a server still up releases the job.  The one slot
\* that does not, while its server lives, is of a job a cancelled launch left to
\* nobody: its stale copy written back live, or its process gone unadopted.
SlotsComeBack ==
  \A j \in Jobs : HoldsSlot(job[j]) ~> (~HoldsSlot(job[j]) \/ up = {} \/ j \in astray)

--------------------------------------------------------------------------------
(* The inductive invariant behind the safety properties. *)

Holding == {"admit", "hold", "begin", "run"}
Cleared == {"hold", "begin", "run", "spawn"}
ChildOwns == {"adopted", "told", "begin", "run"}

Taken(r) == r.stage \in {"starting", "running"}

\* A launcher task past the queue works on an unreleased job of its own process.
TaskInv ==
  \A j \in Jobs :
    /\ job[j].stage = "none" => job[j] = NoJob /\ made[j] = Nobody /\ task[j] = "none"
    /\ task[j] = "spawn" => child[j] # "none"
    /\ task[j] \in {"none", "wait", "busy"} \cup Holding => child[j] = "none"
    /\ task[j] \in {"wait"} \cup Holding =>
         job[j].producer = made[j] /\ made[j] \in up
    /\ task[j] \in Holding => HoldsSpend(job[j])
    /\ task[j] \in Cleared \ {"spawn"} => job[j].admitted

\* A child's job is its own once adopted, and nobody else's before.
ChildInv ==
  \A j \in Jobs :
    /\ child[j] # "none" => Taken(job[j])
    /\ child[j] \notin {"none", "lost"} => task[j] \in {"spawn", "over"}
    /\ child[j] = "spawned" /\ ~Released(job[j]) =>
         HoldsSpend(job[j]) /\ job[j].producer = made[j] /\ job[j].admitted
    /\ child[j] \in ChildOwns =>
         HoldsSpend(job[j]) /\ job[j].producer = Child /\ job[j].admitted

\* An ungated writer's copy disagrees with the file in stage and ending alone.
CopyInv ==
  \A j \in Jobs :
    /\ copy[j] # NoCopy =>
         /\ task[j] \in InTask \/ child[j] \in InTask
         /\ copy[j].producer = job[j].producer /\ copy[j].kind = job[j].kind
         /\ copy[j].stage # "none"
         /\ child[j] # "none" => Taken(copy[j])
    /\ task[j] = "begin" \/ child[j] = "begin" =>
         copy[j] # NoCopy /\ HoldsSpend(copy[j]) /\ copy[j].admitted

\* What the gate's holder read stays what it may write back.
GateInv ==
  LET j == gate.j
  IN  gate.op # "free" =>
        /\ j \in Jobs
        /\ gate.rec.producer = job[j].producer /\ gate.rec.kind = job[j].kind
        /\ gate.rec.stage # "none" /\ job[j].stage # "none"
        /\ gate.op = "claim" =>
             /\ Queued(gate.rec) /\ child[j] = "none" /\ gate.rec.producer = made[j]
             /\ task[j] \in {"wait", "stopping", "over"}
        /\ gate.op = "withdraw" =>
             task[j] \notin Holding \cup {"spawn"} /\ child[j] = "none"
        /\ gate.op = "admit" =>
             /\ HoldsSpend(gate.rec) /\ child[j] = "none"
             /\ task[j] \in {"admit", "stopping", "over"}
        /\ gate.op = "reserve" =>
             /\ HoldsSpend(gate.rec)
             /\ task[j] \in Cleared \ {"spawn"} \/ child[j] \in {"spawned"} \cup ChildOwns
                  => gate.rec.admitted
             /\ child[j] = "spawned" => gate.rec.producer = made[j]
        /\ gate.op = "adopt" =>
             HoldsSpend(gate.rec) /\ gate.rec.admitted /\ child[j] = "spawned"

\* A copy under the gate that could be written back live.
Writable(kinds) ==
  /\ gate.op \in {"claim", "admit", "adopt", "reserve"}
  /\ gate.rec.kind \in kinds /\ gate.j \notin late
  /\ gate.op = "reserve" => ProducerAlive(gate.j)

\* The slot it would take is still there when it is written.
GateHasRoom ==
  Writable({"launch", "pass"}) => Cardinality(Slots \ {gate.j}) < Capacity

\* So is its place within its account's limit.
GateKeepsPlace ==
  Writable({"launch"}) => Cardinality(Flights(owner[gate.j]) \ {gate.j}) < UserLimit

GateHonoursLanding ==
  landing /\ Writable({"launch", "pass", "embedded"}) => Code[made[gate.j]] = "new"

BaseInv == TaskInv /\ ChildInv /\ CopyInv /\ GateInv
================================================================================
