# A TLA+ verification of PromptPotter's control plane

PromptPotter is a bench that runs prompt optimizers. A campaign is searched in cycles, and a cycle
in rounds that propose, measure and select. The machinery around the search decides who may run,
where it runs, what it may spend and what its ledger says afterwards. That machinery is spread over
several operating-system processes that share files, and it is where an interleaving or a death at
the wrong step does harm. It is what these modules specify, check with TLC and prove with TLAPS.

Paths below are relative to `src/promptpotter/`.

## 1. Inventory

| Component | State it keeps | Operations | Talks to | Hard about it |
|---|---|---|---|---|
| **Machine launch queue** `application/jobs/{registry,interlock,capacity}.py` | one JSON file per job (stage, ending, producer, reserve), the admission gate (a file lock), the landing file | request, claim, adopt, start, admit, set reserve, withdraw, release, reap, close for landing | launchers, run processes, sweep, quota | whole-file writes from copies, some under the gate and some not; deaths; capacity read afresh; fair queue |
| **Cycle control** `infrastructure/{producer_lock,runtime_flags}.py`, `store/campaign_store/`, `application/jobs/launcher/`, `application/runner/{loop,origin_gate,operator_hold,cycle_close}.py`, `application/commands/loop_commands.py` | a cycle's ledger as folded (last phase, ending, launch claim, inbox), its producer lock | ask, claim, hold, declare running / gate / paused / terminal, pause, stop a pass, answer a gate, sweep | launch queue, event ledger | every guard is several reads and then an append; a launch has two processes; the sweep acts on an old reading |
| **Event ledger** `infrastructure/ledger.py`, `store/io.py` | JSONL files, readers' marks, each open log's offset | append, catch up, read on from a mark, cut a torn tail, rewrite | everything persisted | several writers, a crash inside a write, rewrites against appends, subscribers' order |
| **Account ceiling and reserves** `application/jobs/quota.py`, `store/account_spend.py` | reserves on job files, the account's spend | quote, admit and share, hold a budget change | launch queue, spend book | simultaneous quotes, an unstamped sibling, a reserve outliving its run |
| **Spend book** `infrastructure/llm/spend_book.py` | a chain of books: held, billed, unreported | hold, settle, give back, take up after a restart | sends, ledger | crash between a send and its bill; nested books; binding ceiling |
| **Send pacing** `infrastructure/llm/send_pacing.py` | per sender: cooldowns opened, strikes, sends at once; per model: window of requests and tokens, waiters | send, throttled, eased, acquire, give back, discover a limit | provider calls, run abort | late answers, halving and recovery, limits learned while others wait |
| **Scoring phase** `application/scoring/query_loop.py` | per walk: cells submitted, returned, taken, settled; horizons; backfills | launch ahead, take in order, stop, bank, discard | spend book, archive, pacing | out-of-order returns, a stop with cells out, waiting walks |
| **Measurement archive** `store/measurement_archive.py` | rows and cell claims on disk | claim, wait, record, release | scoring phase of any process | two processes measure one cell; a claimant dies |
| **Round loop** `application/runner/round.py`, `termination.py`, `arm_gate.py` | a cycle's rounds, population, budget | walk the nodes, close a round, decide to end | scoring, optimizers, cycle control | a stop between nodes, overlap with the next round |
| **Resume and fork** `application/bench/resume_and_fork/` | nothing: rebuilt from a ledger | replay, fork, supersede, repair | ledger, campaign store | a partial round, a fork of a live cycle |
| **Commands and drafts** `application/commands/`, `store/draft_store.py` | command records and acks, drafts | dispatch, replay an idempotent retry, edit, mint | ledger, launch queue | a retry while the first attempt is still being applied |
| **Optimizers** `application/optimizers/` | optimizer state riding the round | propose, select, adapt | round loop | sequential; arithmetic over scores |
| **Read model, views, projections** | folds of the ledger | read | ledger | data, no actor of its own |
| **Scores and evidence, datasets, connectors, providers, identity, tracing, presentation** | – | – | – | statistics, parsing and I/O |

What makes each of the first components correct:

* *launch queue*: never more live slot holders than the ceiling; never more of an account than its
  limit; no search without a job that says so; one worker per job; no old code past a landing;
  a queued launch gets on, and a slot comes back unless a cancelled launch left its job to nobody.
* *cycle control*: what the ledger declares is what the run is at; one driver; a command reaches
  the run it was sent to; a dead run is declared ended and a live one is not; a pause stops its run.
* *event ledger*: whole lines in one order for every reader, none lost, each fanned out once.
* *ceiling and spend book*: what is promised and billed never passes the limit; no hold is lost or
  counted twice over a restart.
* *send pacing*: no more sends at once than allowed, one cooldown per burst of throttles, fairness
  between tenants, no waiter that waits for ever.
* *scoring phase*: rows in order, each settled before it is judged, none paid for twice, a stop
  keeps what is sure.

`PROJECT.json` lists every component, the hazards at their lines, and the lines each definition models.

## 2. Plan

The order was: who runs, who drives a cycle, what a file of lines promises; then what may be sent and
paid, and who buys a cell; then the phase that does the buying.

1. `JobRegistry`: the launch queue. Invariants, liveness, proofs. Done.
2. `CycleControl`: one cycle. Invariants, liveness, proofs. Done.
3. `LineFile`: several writers, readers and rewriters of one line file with torn writes, and
   `LineLog`, the abstract log it implements. Invariants, refinement, proofs. Done.
4. `SendPacing`: backpressure tickets and the shared window. Invariants, liveness, proofs. Done.
5. `AccountCeiling`: the coupon, ceilings and shares of one account's launches. Invariants, action
   properties, proofs. Done.
6. `SpendBook`: holds and bills along a chain of books, over crashes. Invariants, proofs. Done.
7. `CellClaims`: who buys a cell. Invariants, liveness, proofs. Done.
8. `ScoringPhase`, with `SerialPhase`, the phase it implements, and `WalkRules`, what both take from
   the code. Invariants, refinement, liveness, proofs. Done.

`SetFacts` has the lemmas on sums over finite sets, and on least and greatest elements, that the proofs
of several modules rest on.

What is left, in order: a `CycleEventLog`'s own offsets and subscribers over `LineLog`; the launch queue
composed with the shares of `AccountCeiling` (a share is written inside the gate that `JobRegistry`
models); a scoring phase whose cells are claimed from other processes; the retry of a command that is
still being applied.

Runs are few: for each module one run of its safety, a second where its liveness needs other bounds,
and one run for each of two places where the code and its own documentation disagree; the others are
told in section 11. A run does not repeat a type invariant that a proof already covers for every
instance (`SendPacing`, `SpendBook`, `CellClaims`), nor an invariant that only carries a proof. No
module that is proved about declares a RECURSIVE operator.

## 3. `JobRegistry`: the machine's launch queue

**State.** `job` is the directory of job files; `gate` the admission gate with the operation of its
holder and the copy that holder read; `copy` the copy an *ungated* writer read (`mark_started`,
`release`); `up` the servers whose producer lock is held; `landing` the landing file; `watched` the
registry's in-memory tasks. `task[j]` and `child[j]` are the program counters of the launcher task
and of the spawned run process. `owner` and `made` are written once, at the ask. `late` and
`astray` are history.

**Actions.** A gated write is a `...Read` and a `...Write` with the gate held between; an ungated one
is a read into `copy` and a later write of it. Anything may happen between the two, deaths included.

| Action | Code |
|---|---|
| `Request`, `RequestArms` | `launcher/admission.py::request_jobs`, `registry.py::request_slot` |
| `ClaimRead/Write`, `GiveUpWaiting` | `await_claim`, `claim_next` |
| `WithdrawRead/Write`, `BusyRefused` | `cancel_queued`, the busy refusal |
| `AdmitRead/Write` | `admit_and_share`, `mark_admitted` |
| `Spawn`, `AdoptRead/Write`, `Tell`, `HearAdoption`, `WatchEnds` | `spawn_job`, `run_job`, `adopt` |
| `StartRead/Write`, `RunEnds`, `ReleaseRead`, `TaskReleaseWrite`, `ChildReleaseWrite` | `mark_started`, `release` |
| `ReserveRead/Write` | `set_reserve` |
| `Reap`, `Land` | `reap_orphans`, `close_for_landing` |
| `Interrupt`, `Fail`, `ChildFails`, `ChildDies`, `ServerDies` | cancellation, refusals, deaths |

A cancelled worker thread goes on: `ClaimWrite` and `AdmitWrite` stay enabled after `Interrupt`.
The provider throttle's verdict is a free choice at each request and each claim. `"flicker"` in
`Disturb` lets it turn within one request too; the runs and the proofs leave that out, because a pair of
arms then breaks what the code says of them (section 11).

**Runs** (`MCJobRegistry`).

| Run | Bounds | Checks |
|---|---|---|
| `registry_safety` | 2 jobs, capacity 1, 2 servers on two code revisions, 2 accounts with limit 1, launches, passes and embedded runs, interrupts, moved reserves, a landing | `TypeOK`, `SlotsWithinCapacity`, `AccountWithinLimit`, `LandingExcludesOldCode`, `RunsAreRegistered`, `OneWorker` |
| `registry_live` | 3 jobs, capacity 2, 2 servers, 2 accounts, pairs of arms, interrupts and moved reserves, deaths, a throttle that stalls; from the start and from a queue of two behind a running pass or an ended launch (`AskedSpec`) | `QueueDrains`, `SlotsComeBack` |

Two jobs for one slot already give every race of two writers: one job's claim or adoption against
another's, and two writers of one file. Two servers give the two views of a death (the spawner asks
its own task, the other asks the lock). The proofs then cover any
number of jobs and servers.

The liveness run needs a queue with an order in it: a head that dies or is cancelled, and one behind it
that must get on all the same. Three jobs asked one by one are too many states, so `AskedInit` starts
also from the states the asks lead to, one job ahead and two queued by a stalled throttle, made by
servers either way round. `Explored` bounds what such a run goes on to: the job ahead being a pass, the
launches run in their launchers; where it is a launch, the second job has a process of its own; the third
never has; from the empty machine pairs of arms run in their launchers. A landing is left to the safety
run, as both properties end there.
 Deadlock is not checked: with all jobs asked and ended the machine rests.

**Fairness.** `UseGate`: the holder of a file lock finishes its few lines, or dies and drops it.
`Work(j)`: a process that lives runs its next step; a run ends. `AskGate(j)` is strongly fair because
the gate is polled and always given back, but a claim only where a *stalled* provider's capacity
would grant it, so no recovery of the provider is assumed. `Reap` is strongly fair: the reaper is
periodic on every server that stays up. Each is stated once, of all jobs together: a job comes to each
step a few times in its life, so what is fair to the jobs together is fair to each. Nothing is assumed
about asks, failures, interrupts, deaths, deadlines or landings.

`astray` is the exception of both properties: a job whose launch was cancelled, and which the thread that
the cancellation abandoned then wrote back unreleased, or whose process died before it adopted it
(section 11). Its slot stays taken while its server lives, and the queue behind it may stand.

**Proved** (`JobRegistry_proof`), for every number of jobs, servers and
accounts and every capacity: `TypeCorrect` with no assumption but `RegistryAssumption`; and, assuming
`"flicker" \notin Disturb` (the throttle's verdict holds still within one request), `RunsRegistered`,
`OneWorkerOnly`, `CapacityHolds`, `LandingHolds`, `AccountHolds`.

*The invariant.* The properties are not inductive: a process writes what it read earlier. `TaskInv`
and `ChildInv` tie each program counter to the file of its job. `CopyInv` says that an ungated copy
differs from the file in stage and ending alone, so writing it back never moves a job to another
process. `GateInv` says the same of the copy under the gate, by operation. `GateHasRoom` says that
while a gated copy could come back live, its slot is still free among the others, which is what
makes a claim checked at its read still true at its write; `GateHonoursLanding` is its counterpart
for code revisions. They are proved in two parts: `BaseInv` (`TaskInv`, `ChildInv`, `CopyInv`,
`GateInv`) by `BaseInvariant`, then `LimitInv`, which needs the first, by `LimitInvariant`. The limit of
an account has an invariant of its own, `PlaceInv`: only an ask brings a launch into flight, and
`GateKeepsPlace` says that a copy under the gate that would put a launch in flight is of one that still
has its place.

The exception `late` (a job adopted after its spawner died) is not an escape hatch of the model: it
names the one code path past the ceiling, and it is reachable (section 11).

## 4. `CycleControl`: who drives one cycle

**State.** What the folds of one ledger answer: `declared` and `ending` (`scan_cycle_facts`), `claim`
(`scan_launch_claim`), `ask` and `answers` (`scan_ledger_controls`). `lock` is the producer lock. The
program counters are `at[l]` (a launch, in its asking process and then in its run process), `host`
(asking processes still up), `pass[p]`, `stopping[p]` (the Stop a `PassHold` is sending), `sweep` and
`cmd[c]` (a command between its guard and its record). `stray` and `kept` are history.

**Actions.** An append is one step, moving the variables as the folds move. Reads that the code makes
one after another are steps of their own wherever something may happen between them.

| Action | Code |
|---|---|
| `AskRead`, `AskLook`, `AskClaim`, `GiveUp`, `Spawn`, `GiveBack` | `launcher/admission.py::request_jobs`, `_refuse_taken_cycle`, `hold_existing_cycle`, `withdraw_queued`, `spawn_job` |
| `Adopt`, `ReClaim`, `Tell`, `Hold`, `OpenFails`, `BindFails` | `launcher/run_job.py`, `producer_lock.py::hold_cycle`, `runner/entry.py` |
| `DeclareRun`, `OpenGate`, `TakeAnswer`, `AnswerGate` | `runner/loop.py`, `runner/origin_gate.py`, `runner/operator_hold.py` |
| `SeePause`, `Interrupt`, `TakePause`, `DeclarePause`, `DeclareEnd`, `Drain`, `Uncaught`, `Fail` | `runner/cycle_close.py`, `run_phase_control.py`, `release_slot` |
| `PassAskRead` … `Free`, `Stop`, `SendStop` | `paid_pass`, `PassHold` |
| `Guard`, `Send` | `commands/loop_commands.py`, `domain/phases.py` (the refusals), the dispatcher's record and ack |
| `SweepReadPhase` … `SweepRelease` | `jobs/reaper.py`, `derive_run_state`, `CampaignStore._declare_ended` |
| `HostDies`, `Dies`, `PassDies` | deaths; a lock goes with its process |

**Runs** (`MCCycleControl`).

| Run | Bounds | Checks |
|---|---|---|
| `cycle_safety` | 2 launches, 1 pass, 1 Stop, 1 gate answer, the sweep | `TypeOK`, `RunKeepsItsPhase`, `OneAdmission`, `PassStopStaysWithPass` |
| `cycle_live` | 2 launches, 1 pause, 1 gate answer, `FairSpec` | `DeadRunStamped`, `PauseStops` |

Two launches give a run and its successor, and a failed launch beside a running one; one pass gives
the two kinds of holder. `PauseStops` is about the hold, not about the poll: a pause that stands in the
inbox of a run ends that run's hold, whatever it declares in between. The gate answer is what makes
this hard, since the run then declares itself running again, and a declaration that emptied the inbox
there would lose the pause. A launch asked again after a refusal is the same launch: `AskLook` sends it
back to `"none"`. The launches are symmetric in the safety run. The system may stop, so deadlock is
not checked.

**Fairness.** Weak, per launch and pass: handlers run to their end while their process lives; the loop
polls the inbox at every checkpoint (`SeePause`), at its gate on a timer (`operator_hold.py`); a pass
ends; the sweep is periodic. Nobody must ask, answer, interrupt, fail or die, and a run need not end.

**Proved** (`CycleControl_proof`), for any sets of launches, passes and commands, under
`CycleAssumption` (the names are distinct): `CycleTypeCorrect`, `PhaseKept`, `AdmittedAlone`,
`PassStopKept`.

*The invariant.* `LockInv` puts the lock with whoever is between taking it and letting it go.
`GateInv` carries what an asker read under the gate to its append: a launch past its look still sees
no pass, a pass past its look still sees no waiting claim. `StopInv` keeps a Stop being sent inside
its pass's hold, which is why it cannot reach the next run. `CycleInv` is these with the three
properties; `CycleStep` proves it action by action.

Two exceptions are part of the properties. `stray`: a launch that failed declares its stop with no
lock, possibly over another launch's run. `kept`: a launch's own RUNNING after a dead run's GATE
leaves the inbox standing. Both are set by the very steps that do this and are reachable.

## 5. `LineFile` and `LineLog`: one file of lines

Ledgers, the archive's index and cell files, site records and the charge book are all line files of
`infrastructure/store/io.py`. Appends take a write lock; readers take none; a rewrite makes its lines
outside the lock and swaps them in under it, by a rename.

**State.** `disk` gives the bytes of each inode and `name` the inode of the path. A line is a head, a
body unless it is compacted or purged, and a tail, so a write can stop after its head; `Prefix` says
which lines begin alike, `Dataset` whose lines a pass of the maintenance may move. `lock` is the write lock, `at` the program counters, `open` a reader's handle with what
it has read so far, `mark` the `FileMark`s, `held` the lines a reader has taken or an editor is about
to replace. `spliced` and `likened` are history.
`kind` says which file of the program this is, and `Uses` who works on it: site records, which
`drop_before` thins and everyone reads whole; cell files, where a compaction, a restoration or a purge
writes the lines of one dataset, or of all, again in another form and leaves the rest; the archive's index, which `reindex` replaces by lines built
from elsewhere. Cell files and the index have readers that keep a mark.

| Action | Code |
|---|---|
| `TakeLock`, `Cut`, `WriteHead`, `WriteTail`, `Return`, `Die` | `append_line`, `_cut_unterminated`, `_landed` |
| `ReadAbsent`, `OpenRead`, `CloseRead` | `read_tail`, `complete_lines`, `_read_marked`; a read goes on to the end of its handle, so it is at least two |
| `EndMark`, `Swap`, `LeaveAsIs`, `LoseRace` | `_end_mark`, `_swap`, `_retry_swap`, `rewrite_lines`, `replace_lines` |

`LineLog` is the promise: lines land whole and last, an append that returned has its line there, and an
editor's rewrite replaces only what it had seen. `Implements` checks that every step of `LineFile` is a
step of `LineLog` or leaves it alone, under the mapping of `Log`.

| Run | Bounds | Checks |
|---|---|---|
| `linefile_safety` | 3 lines, of which 2 begin alike and 2 are of a dataset each, at most 1 dead append, or 4 records of which none dies; 2 droppers, or 1 compactor and 1 reader, or 1 replacement and 1 reader; 3 inode numbers | `TypeOK`, `TailFaithful`, `Implements` |

Three lines are what a mark needs to be wrong about: one before it, one at it, one after. Three inode
numbers let a file come back to a number it had, which takes two swaps. Two droppers give the lost
race, and a fourth record lets one of them swap twice while the other makes its lines. A build keeps the
order of the lines it finds.

A mark tells two files at one inode number apart by their size and one line only. A file may come back to
its number with the marked line at its byte and other lines before it, and `holds_mark` believes it:
after passes of one dataset each, after two replacements, or between two droppers. `likened` names
whose mark that is, from the swap that brings the file to the read that starts over. `TailFaithful`
excepts those readers, and `Implements` the swap of such an editor. Both exceptions are reached within the bounds. It takes
lines whose bodies are of one length, as they are in the model and hardly ever in a file. The run does not go on past a splice,
where nothing is claimed. There is no fairness: nothing here is about what must happen.

**Proved** (`Archive_proof`), under `LineFileAssumption` (the names are distinct, and there are finitely
many inodes, two at least), for any lines, beginnings they share, appends, readers, editors and inodes:

| Theorem | Says | Assumes besides |
|---|---|---|
| `LineTypes` | `TypeOK` | – |
| `WholeLines` | until a splice every file, also one that is only still open, is whole lines and at most one torn head; what an append landed is there until it returns | – |
| `TailsFaithful` | `TailFaithful` | no inode comes back while a reader's mark names it (`Fresh(Tails)`) |
| `LineFileImplements` | `Implements` | no inode comes back while an editor's mark names it (`Fresh(Editors)`) |
| `LoneEditorImplements` | `Implements` | one editor of each kind (`OneEach`, `OneDropper`) |

*Sequences.* What `CompleteLines` and `FileOf` compute is shown by induction on sequences. The induction
theorems of the library are of no use here, so induction is over a *set*: `CountUp` takes the least
number outside a set of naturals, `GrowSeq` makes of it induction on sequences, and `StepsDefine` shows
that the recursive function in `CompleteLines` exists. From them come that lines go to bytes and back,
that lines of two stretches of bytes are those of the first and of the second, and what an append, a
cut, a read from the middle and a rewrite make of a file that is `Shaped`: whole lines and at most one
head.

*The invariant.* `TypeInv` adds to the types that a file is there while an append is between its writes.
`WholeFiles` is what `WholeLines` says. `MarksOK(X)`, of the readers and editors in X, says that the
named file begins with the lines a mark's owner took, if the mark names it, and (`ReadOK`) where a read
that is on stands in the file it has open, which may have lost its name. `LineInv(X)` is the three, or a
splice. It is inductive in a step that brings no file to an inode a mark of X names, which is what
`Fresh(X)` says of a behaviour and `AloneInv` proves of a file that has one editor: that editor has
marked the file that is named.

The conditions are not there for the proof's sake: where an inode is used again under a mark both
properties hold only with the exception of `likened`, which `linefile_safety` checks and no theorem says.

## 6. `SendPacing`: the sends of one model

**State.** Of the sender's `Backpressure`: `opened`, `strikes`, `atOnce`, `resumes`, `since`, and the
ledgers that `heard` of a hold beside what each was `told`. Of the account's `RateLimiter`: `window`,
the caps `rpm` and `tpm`, `waiting`, and `over`, history for a window a lowered cap found too full. Of
each send: `at`, the `ticket` it took, what it has `resent`. Everything runs on one event loop, so what
the code does between two awaits is one step. Time is in ticks, kept as durations to run or run so far.

| Action | Code |
|---|---|
| `Ask`, `Poll`, `Enter` | `Backpressure` before a send: the cooldown, the cap at once, the ticket |
| `Post`, `NotAdmitted` | `RateLimiter.acquire`, whose turn it is (`NextUp`), the book's refusal after it |
| `Answered`, `Throttled`, `GivenUp`, `Rejected`, `Fails`, `Rested` | `LLMClientBase._admitted_send`: `eased`, `throttled`, headers, bill, resend |
| `Abort` | a pause or a cut, wherever the send stands |
| `Tick` | time |

| Run | Bounds | Checks |
|---|---|---|
| `pacing` | 3 sends, of which one is of a nested run and one may be resent; 2 accounts; a window of 2 ticks; caps learned at 2 requests and 1 token; cooldowns of 2 ticks, then 3; given up after 5 | `WithinAtOnce`, `NoLedgerLeftHeld`, `WindowHoldsCaps`, `CooldownRunsItsCourse`, `EverySendEnds` |

Three sends give an answer older than a cooldown, a send that waits behind another account's, and a
cap on sends at once that falls below what is out. `s1` needs more tokens than the cap that may be
learned while it waits: the case in which a wait for room would never end. **Fairness**: time passes, a
send that may go goes because it polls, its turn is taken, and every post is answered or times out.
Nothing is assumed of new sends or aborts. Each send is made once: that an unending stream of another
account's sends could keep one waiting is not in the run. A cooldown of two ticks can be cut short, and
the next of three is of another length. *Deadlock* is not checked: all sends may have ended.

**Proved** (`SendPacing_proof`), for any sends, accounts, caps, windows and cooldowns, under
`PacingAssumption`: `PacingTypeCorrect`, `PacingInvariant`, `CourseHolds`, `AtOnceHolds`, `LedgersHear`,
`CapsHeld`.
`PacingInv` is why the rest holds: tickets are not ahead of `opened`; while a cooldown runs no send
that is out speaks for the provider (so none can end it or open another); and what the sender remembers
of each ledger is what the ledger says. `CapsHeld` follows the sum of the window's tokens through each
step: time only takes posts out of it, and a bill only lowers what its post had reserved. `EverySendEnds`
stays with TLC.

Left out: jitter, the stall sinks and the give-back of a run's clock. Several models on one account
share a window; one model is modelled.

## 7. `AccountCeiling`: what the launches of one account may spend

**State.** Each job's `phase`, the cycle it is `on`, its `request` and its `reserve`; each campaign's
`ceiling` record; each cycle's `share` record and what it has `spent`; each set-limits command between
its read and its write (`change`). `late` is history.

A launch's ceiling is composed before the gate is taken (`Compose`): what the launch asked for, or else what
the campaign's record says at that moment. Admission uses that, so a set-limits in between is not seen. What was named is
written over it; where nothing was named the configuration's ceiling sizes the share although
another is set by then (`Overtaken`, kept in `late`).

| Action | Code |
|---|---|
| `Ask`, `Compose` | `admission.py`: a launch is asked; `quota.py`: `declare_run_budget`, before the gate |
| `Admit`, `Refuse` | `quota.py`: `read_account_wallet`, `launch_refusal`, `_reserve`, `share_campaign_ceiling`, under the gate |
| `Bill` | a send, admitted within share and reserve and billed |
| `Fork` | `run_prep.py::rebase_held` and the landing of its allotment |
| `ReadLimits`, `ApplyLimits` | `limits_and_queue.py`: the clamp before the gate, then the write and `_reshare_campaign_ceiling` under it |
| `End` | the job ends; its reserve goes |

| Run | Bounds | Checks |
|---|---|---|
| `account_safety` | 3 jobs over 4 cycles: two roots and a fork in one campaign configured to 2, one in another with no ceiling; coupon of 4; ceilings asked 1, 2 or unsaid, moved to 1, 2 or none | `TypeOK`, `SharesStayWithin`, `LaunchLeavesSiblingsRoom`, `CouponStaysCovered` |
| `account_shares` | the same, ceilings raised to 3 | `SharesWithinCeiling` **violated** |

Two root cycles of a campaign and a fork of one are what a share can be wrong about; the second campaign
holds against the same coupon, and a coupon of 4 leaves two or three runs something to send at once. One set-limits
command is enough for its clamp to be stale and for a launch to miss it. `Explored` bounds the third
launch to one beside another that lives or waits, and the first to the root that may fork. The standing
budget of an account is one of the ceilings a launch may ask for.

`SharesWithinCeiling` and `CouponCovers` do not hold as invariants, so the run asks for what does: no
step breaks them but those `SharesStayWithin` and `CouponStaysCovered` name.

* `MovedUnderSeveral`: a ceiling moved under several live cycles.
* `StaleClamp`: a ceiling clamped to an account that changed before the gate.
* `LiftedElsewhere`: a ceiling lifted by a command on another cycle than a live one, whose reserve stays
  what it was. It takes two such commands open over the two root cycles, which is beyond the run's
  bounds: the proof of `CouponStays` did not go through without it, and TLC then found the steps.
* `HasOvertaken`, `MovedUnderLate`: a live run whose ceiling was set after it was composed. Its share is
  not bound by that ceiling, and a later move reckons with it all the same.
* `SpentElsewhere`: a run that is uncapped or a fork, whose reserve counts its own cycle alone.

The exceptions are of steps or of standing runs; what a launch that names a ceiling writes over a
set-limits it did not see is a lost update that no property here speaks of (section 11). The system may stop, so
deadlock is not checked, and nothing here is about what must happen.

**Proved** (`AccountCeiling_proof`), for any campaigns, cycles, jobs, commands and amounts, under
`MoneyAssumption` and `CyclesAssumption`: `AccountTypeCorrect`, `SharesStay`,
`SiblingsKeepRoom`, `ClampFits`, `CouponStays`. The invariant `AccountInv` adds to the types `AloneInv`
(no two runs spend on one cycle, and a cycle without a share never metered anything) and `BoundInv` (a
campaign's ceiling binds each of its live cycles or none, but those it was set too late for). `ClampInv` says that what an open command
would write fits the room it read; whether that room is still there when it writes is what `StaleClamp`
asks. Each property of money compares two sums over the live runs, and a step moves one run's term or
one campaign's shares; what the shares of an admission sum to is bounded by the headroom they were cut
from.

Left out: delegates, an account's own keys, the tokens axis, unpriced grace, the share of an embedded
run, the late landing of a mint, and holds that went unreported. Every send is on the box's key and
billed as it is made; `SpendBook` has the time between.

## 8. `SpendBook`: a run's book

**State.** In memory, of the root's book and the nested run's: how often each holds a send's bound, has
counted a part of its bill, and keeps a bound nobody reported (`holding`, `counted`, `keeping`), and
the open `cell`. On disk: the account's charges (`chargeHeld`, `chargeBilled`), the root ledger's
`holds`, each run's `usage` and the root's `copied`. `at`, `bill`, `wrote` and `unseen` follow a send
and the parts of its bill; `past` are sends of processes that died.

| Action | Code |
|---|---|
| `OpenCell`, `CloseCell`, `Place` | `reserved`, `_Reservation.draw`, the chain of rooms |
| `ChargeHold`, `WriteHold`, `HoldFails` | the hold on the charges and on the root's ledger; a write that raises |
| `Answer`, `NotRun`, `GoesUnreported` | what becomes of a send |
| `ChargePart`, `LandPart`, `LandUnheard`, `MutePart`, `MirrorPart`, `CloseBook` | the writes of a bill and the close of the books |
| `Crash`, `Relaunch` | the process dies; `take_up` starts from the files |

A handler has no await in it, so one send at most is between its writes (`Handling`), and only a crash
or a raise comes there.

| Run | Bounds | Checks |
|---|---|---|
| `spend_safety` | 3 sends: one nested inside a cell, of bound 2 and at most 2 parts; one inside that cell; one beside it. Cell of 2, shares 3 and 2, reserve 3; any number of crashes | `HoldsWhatIsOut`, `CountedOnce`, `RootForgetsNothing`, `AccountForgetsNothing`, `ReserveNeverPassed` |

The reserve is less than the bounds together, so room runs out; the two sends of the cell together pass
its reservation, so one draws less than its bound. The run may stop at any point: deadlock is not
checked.

**Proved** (`SpendBook_proof`), for any sends, parts, prices and bounds: `BookTypeCorrect`,
`OnlyWhatIsOutIsHeld`, `EachPartCountedOnce`, `RootRemembers`, `AccountRemembers`, `ReserveHolds`. The
invariant `BookInv` adds to what it shows: `Standing` (a dead process has nothing open), `Writes` (how far each
part's writes came and which files have it), `Counting` (a part is counted exactly when it was written
or its book closed on it) and `Keeping` (what the files have of every send). For the reserve, `RoomInv` gives
each send one weight, its bound while it is out or unreported and its bill once it is settled, and keeps
their sum, with what an open cell reserves, within the reserve; while nothing is being settled, the
book's three sums come to just that and the bounds of the sends `Reopened`.

Two exceptions are part of the properties, so what they name would not be caught here. `InPart`: the first part of a bill to land closes its hold
for every later reader, so a bill cut short in its parts is counted as far as it got. `Reopened`: a
send closed in a process that died before any part of its bill was on the root's ledger is held again.

Left out: smaller bounds learned from earlier bills, the remainder a provider leaves `unknown`, unpriced
parts, sends on the account's own key, tokens, the wall clock, and what is set aside.

## 9. `CellClaims`: who buys a cell

**State.** Per cell: the inode the name of its lock file leads to (`file`), whose `row` stands beside
it, whether the archive has it (`filed`). Per walk and cell: its descriptor `fd`, whether it is
`locked`, where its task stands (`task`) and what came back (`hand`). Per walk: rows `taken` and its
`stage`. `paid`, `lost` and `stripped` are history. A step is a file operation that another process can
tell apart; `Quiet` keeps the tasks of one walk, which share an event loop, from interleaving with one
another but for their polls.

| Action | Code |
|---|---|
| `Launch`, `OpenLock`, `TryLock`, `Look`, `Peek` | `_claim_cell`, `ReplayFeed.claim`, `take_lock` with its check that the file is still linked |
| `ReturnsGood`, `ReturnsBad`, `Raises` | the measurement and `publish` |
| `Unrow`, `Retire` | the release of a claim: the row, then the lock file, then the lock |
| `Take`, `Decide`, `Stop`, `Bank`, `Discard` | `Walk.take`, `Walk.end`, the landing of a phase |
| `Dies` | the process dies; its locks go, its files stay |

| Run | Bounds | Checks |
|---|---|---|
| `claims` | 2 walks that take 2 cells in opposite orders, both launched ahead, 3 inodes, 2 faults (bad rows, refused calls, deaths), `FairSpec` | `BoughtOnce`, `EveryWalkEnds` |
| `claims_row` | the same | `RowIsShared` **violated** |

The race of a holder and two pollers for one name takes three walks: the run has two, and the theorem
covers any number. Opposite orders with a look-ahead of two are the shape of a deadlock; three inodes let a name lead to a
third file while two older ones are open. **Fairness**: each task runs on and each call returns; a walk
takes what came back and ends when it has its rows or its head failed. Nobody need stop, decide early
or die.

**Proved** (`Archive_proof`), for any walks, panels, depth and faults: `ClaimsTypeCorrect`,
`CellsBoughtOnce`. `LockInv` says that a holder's descriptor is the file the name leads to, and that
there is one holder; `PaidInv` says that a row bought and not lost is filed or in the hands of the
holder, which is where `Look` finds it.

`EveryWalkEnds` excepts a run in which a row was dropped under its holder (`stripped`, section 11).

## 10. `ScoringPhase`, `SerialPhase` and `WalkRules`: the walks of a phase

`WalkRules` is what a taken row decides and whose turn is next. `SerialPhase` is the promise: rows, cuts
and turns as if the walks measured one cell after another, each prior read on a cell before the row is
judged or recorded as `unread` where it gave no scored row, and a stop between two rows. `ScoringPhase` is the code, which measures ahead.

**State.** `rows`, `verdict`, `turn`, `block` as the serial phase has them; `cell[w][i]` and
`catch[p][i]`, where each call stands; `settling`, a row taken that waits for its catch-ups; `pool` and
`has`, the priors and what each was read on; `stage`, what the phase's one task does next; `filler`,
`room`, `upto`, `depth` while it launches; `armed`, `pause`, `skip`, the operator's presses; `left`,
what the book can pay; `stop` and `banked`. `unread` is history. A setting of a phase (`how`) says, beside
the block's size, the priors and the book, what its calls may come back as.

A row is judged by the fast path and then by the rate, as `DegradationCheck.check` does: a row whose
facts are fatal, a backend's 4xx among them, ends its walk on one sighting, and counts as degraded in
the rate. An errored row of another kind counts in the series of errors alone.
A catch-up may come back errored too. Its row is committed and nothing is read off it, so the row that
waits is judged without that prior, and the prior stays owed on that cell to the walks that come to it.

| Action | Code |
|---|---|
| `TakeHead`, `TakeFails`, `Settle`, `FailedCatch` | `take_head`, `Walk.take`, `commit_backfills`, `judged` |
| `HonourSkip`, `HonourStop` | `honour_stop`, `budget_stop`, `_TurnState` |
| `BeginLaunch`, `StartOwed`, `BeginFilling`, `LaunchCell`, `FillNext` | `launch`, `fill`, `affordable`, `Walk.launch_horizon` |
| `Wait`, `Wake`, `CallReturns`, `CatchUpReturns` | `wait`, `_acquire`, `_catch_up` |
| `Presses` | the inbox, seen at any step |
| `Land`, `Bank`, `Finish` | `land`, `bank`, `discard`, `run_walks` |

| Run | Bounds | Checks |
|---|---|---|
| `phase` | 2 walks of 3 cells in 4 settings: a race with catch-ups, races by blocks of 2 and of 1, a race under a book that pays for 2 cells. Depths 1 and 3; a walk stops at two thirds of its rows degraded, from the first on, at a fatal row, or at 2 errors in a row; 2 upsets (presses, answers other than good or degraded); `FairSpec` | `TypeOK`, `BankedAreSure`, `LaunchesFitTheBook`, `CutWastesOne`, `LandsAsSerial`, `PhaseEnds` |

Two walks give a turn to pass, a walk measured before its turn, and a prior made while the next walk is
under way; three cells give one to take, one to be judged ahead of and one to waste. Blocks of one leave
two cells past a block that closes, so that a launch too far would show; a rate of two thirds lets a walk go on
past a degraded row. `LandsAsSerial` is
a refinement: the serial phase's rows are the rows taken but for one that still settles, and its turn is
over once the phase was stopped. **Fairness**: the phase's task runs, and while it waits some call that
was sent returns. Nobody need press.

`BankedAreSure` asks about a cell that was kept: whatever the calls still out would have answered, could
an error, a rule or the close of a block have ended the walk before it? `KeptPastFatal` is its exception: the
horizon (`earliest_stop`) reckons with the rate alone, so what came back past a fatal row is kept. The
last row taken is not asked. `CutWastesOne` counts the cells that are launched and not taken where a row brings its walk
to the rate, as that row is taken, also one that then settles, and where a block closes. It does not
bound two other cuts: by a fatal row, which no horizon expects, and what is launched while a row settles
(section 11).

**Proved** (`ScoringPhase_proof`), for any number of walks and cells, stop rule, setting, depth and
budget, under `RulesAssumption` and `PhaseAssumption`: `PhaseTypeCorrect`, `LandsSerially`,
`LaunchesFit`, `BankedSure`, `CutsWasteOne`. `PhaseInv` says that a walk's rows are its first cells in
order, that cells are launched in order and let go of once their walk is decided, and whose row may
settle. On it rest the others. `LandsSerially` maps each step to one of the serial phase or to none: a
row that waits for its catch-ups is not one of its rows yet, so `Settle` is where that row is taken.
`FitInv` says that what the phase may still launch fits in what the calls out leave of the book, or is
replayed unpaid. `BankInv` says that what is banked is of walks that are not decided, and among the cells
the rate could not stop them before. `AskedInv` says that no prior is caught up on a cell it was read on. `CutInv` carries the horizon: of the cells a walk launched, the rate cannot stop
it with two still past the row (`Guarded`), and so of those it is about to launch (`FillGuarded`). It is
inductive because the worst the rate could come to at a row is the same before and after an earlier row
is taken, or less.

`PhaseEnds` stays with TLC.

Left out: the recorded skip of a phase that is replayed (`skip_at`), walks that are empty or refused, the
labels of a cut, replays of cached cells that the budget meters, `bank_backfills`, the paired statistics
of a race (only fatal rows, the rate of degraded rows and a block's closings end a walk), the setting that
turns the fast path off, the claims of `CellClaims`, the flight gauge, events, and stop reasons other than a pause, the budget or a
failed call.

## 11. Where the code and its documentation part

Two are runs, with their lines quoted in `PROJECT.json`:

* `account_shares`: `_reshare_campaign_ceiling` takes each live cycle's share from what the others held
  before any moved, so a raise goes to every one of them. The test and `docs/decisions.md` say they share it.
* `claims_row`: a bad row's claim is released when it is published and again when it is taken. The second
  release removes the row the cell's next holder has shared meanwhile. With three walks and two bad rows
  two of them can then wait for each other's cells until one is paused.

The others were met while modelling. Each is a step of its module, or an exception a property names, and
no run of its own:

* A process that adopts its job after its spawner died takes a slot that may have been granted again
  (`registry.py:246`; `quota.py:983` says the machine runs at most its ceiling). `late` in `JobRegistry`.
* A launch that is cancelled in a gated write goes on in its worker thread. The task releases the job,
  and the thread then writes back the copy it read before, unreleased and with a live producer
  (`registry.py:168`, `registry.py:189`): no sweep frees that slot while the server lives. A launch cancelled while its process starts
  leaves the job to that process, and if it dies before it adopts the job (`run_job.py:100`) the
  server that made it still answers for it. `astray`.
* `set_reserve` may write back a copy read before an ungated `release`: the ending is lost and the sweep
  stamps another (`registry.py:302`; `registry.py:311` says "Stamped once").
* `_arm_jobs` looks at the first arm's `queued` alone while the throttle is read afresh for each arm
  (`admission.py:402`; `admission.py:150` says arms asked together never queue). `"flicker"`.
* A launch after a run that died at its gate finds that run's inbox (`ledger_scan.py:329`;
  `docs/operations/persistence-and-state.md:131` says a new `running` clears what stood). `kept` in
  `CycleControl`.
* The sweep's stamp may land on a cycle that moved on since it was read (`store.py:677`; the same page at
  127 says only a `running` cycle is stamped). `SweepStamp`.
* `_end_mark` counts a torn fragment (`io.py:600`). If the next append cuts it and lands a line that begins
  with the same bytes, the mark still holds and the replacement carries the second half of that line; the
  comment there says the fragment is dropped. A reader that meets the fragment, and goes on after an append
  has cut it and landed another line, gets there too. `spliced` in `LineFile`.
* `holds_mark` says a file that fits a mark was "grown by appends alone" since (`io.py:535`): a rewritten
  file may fit it at the same inode number. `likened` in `LineFile`.
* A launch composes its ceiling before it takes the gate (`admission.py:264`, `:478`, `:518`; `quota.py:806`). A
  set-limits in between is written over by the ceiling the launch named, or does not bind a launch that named none. `late` in
  `AccountCeiling`.
* After a throttle half of the sends go on (`send_pacing.py:359`; `domain/backend.py:16` says one send
  probes). `OpenCooldown`. Time with nothing to send counts towards giving up (`send_pacing.py:351`).
* A run that forks leaves its reserve as it was while the book it opens counts the fork's spend alone, so an
  uncapped run may draw the same money again (`run_prep.py:150`; `docs/decisions.md:23` says what a coupon
  bounds). `SpentElsewhere` in `AccountCeiling`.
* A row whose catch-ups are out is taken and not judged yet, and `horizon` asks the rows past it alone:
  launching goes on, and a cut may then waste two calls (`docs/methods/candidate-elimination.md:84` and
  `launch_horizon` say one). A fatal row ends a walk on one sighting and may waste all that is out
  (`classification.py:50`). And when one catch-up of a cell raises, those of later priors on it are
  dropped though they are paid for.
* `Walk.bank` keeps "only cells this walk was SURE to take" (`query_loop.py:479`), by a horizon that reckons with
  the rate alone: a cell past a fatal row that came back is kept, and so may be one past a row that still
  settles. `KeptPastFatal`.
* A catch-up that comes back an error leaves its prior unread on the cell and the row judged without
  it (`checks.py:124`, `selection.py:61`). `unread` in `SerialPhase`.

## 12. What is model-checked only

That `LineFile` keeps its promises, `likened` apart, where inodes are used again under a mark, which is a theorem only where
they are not or, for `Implements`, where each file has one editor (section 5); every liveness
property (`QueueDrains`, `SlotsComeBack`, `DeadRunStamped`, `PauseStops`, `EverySendEnds`,
`EveryWalkEnds`, `PhaseEnds`), since liveness under fairness and ENABLED are beyond the proof system used
here; and the two violations. Every other property of a run is a theorem for every value of the constants,
`TailFaithful` and `Implements` under the conditions of section 5.

## 13. What is left out of the first three modules

* The amounts reserved on a job (`AccountCeiling` has them), the daily quota, the principal's rights: a
  refusal is `Fail` or a nondeterministic refusal of the ask.
* The cycle a job names, its hop and the target that landing updates; jobs ended long ago are not
  reckoned or deleted. A child runs its spawner's code.
* `RegistryAssumption` gives every account the same limit.
* In `CycleControl`: fork and supersession, an arm gate's submissions, skips, the look-ahead, a launch
  that runs inline in its asker's process, a run nested in another, the death of the sweeper's own
  process. `derive_run_state` reads the inbox and then the claim; the model reads both at once. A
  command's guard is one read: its parts can only turn stale later, which the free delay before
  `Send` already allows.
* Composition with the job files: a launch's job may be cleared while its cycle is claimed; the process
  then exits, which is `Dies`.
* In `LineFile`: the cache of files known to end whole (`_APPENDED`), which only skips a cut that would
  cut nothing; a reader that takes in its own process's append unread (`_take`); the companion file of
  `rewrite_pair`, to which a compaction moves the bodies (a pass that finds it changed loses the race); a lock that is not had in time (the call fails and has done nothing); deletion of the
  file; the number of attempts of a rewrite, of which none changes anything but the last.
* All components marked `not_modelled` in `PROJECT.json`, each with its reason there: the search itself
  is arithmetic and text over measured scores, and most of what remains is I/O, parsing and presentation
  with no state shared between actors. They are the larger part of the repository's lines.

## 14. Running it

    tlc -workers 2 -config JobRegistry_safety.cfg MCJobRegistry
    tlc -workers 2 -config ScoringPhase_all.cfg MCScoringPhase
    tlapm ScoringPhase_proof.tla

and so on: a run's module and configuration stand in `PROJECT.json`, and the modules with proofs are
`JobRegistry_proof`, `CycleControl_proof`, `Archive_proof` (of `LineFile` and `CellClaims`, the longest:
about ten minutes), `SendPacing_proof`, `SpendBook_proof`, `AccountCeiling_proof`, `ScoringPhase_proof` and `SetFacts`. Each run ends within five minutes on two workers.

Definitions named `Mut...` stand before the definition they alter. No run uses them: each is a
plausible mistake in the code, and putting it in the definition's place must break the property
that `PROJECT.json` pairs it with.
