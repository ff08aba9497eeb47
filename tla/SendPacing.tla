----------------------------- MODULE SendPacing -----------------------------
(***************************************************************************)
(* The pacing of the sends of one model on one provider account            *)
(* (infrastructure/llm/send_pacing.py, as llm/base.py::_admitted_send and  *)
(* infrastructure/backend.py call it).                                     *)
(*                                                                         *)
(* A send first passes the Backpressure of its model: it waits out a       *)
(* cooldown and a cap on the sends out at once, and takes a ticket, the    *)
(* number of cooldowns opened so far.  It then queues for the account's    *)
(* window of requests and tokens (RateLimiter), is admitted by its spend   *)
(* book, and leaves.  Its answer eases the provider or opens a cooldown,   *)
(* but only if no cooldown was opened since its ticket.                    *)
(*                                                                         *)
(* All of it runs on one event loop, so what the code does between two     *)
(* awaits is one step here.  Time is counted in ticks, as durations still  *)
(* to run or run so far; no clock is kept.                                 *)
(***************************************************************************)
EXTENDS Integers, Sequences, FiniteSets, FiniteSetsExt

CONSTANTS
    Sends,          \* the calls that may be made
    Tenant,         \* Tenant[s]: the account a send waits as
    Hears,          \* Hears[s]: the ledger of its run, and that of the enclosing root
    Need,           \* Need[s]: tokens estimated for a send
    Bills,          \* tokens an answer may turn out to have used
    Ledgers,
    FirstRpm, FirstTpm,     \* the caps the account starts with
    Learned,        \* the <<rpm, tpm>> pairs a response's headers may state
    Uncapped,
    Window,         \* ticks a request stays in the window
    Base, Cap,      \* the first cooldown, and the longest
    RetryAfter,     \* what a throttle may ask for
    GiveUpAfter,    \* ticks of throttling after which a send is refused
    Attempts        \* Attempts[s]: posts its budget allows a send, failures included

Caps == Nat \cup {Uncapped}

ASSUME PacingAssumption ==
    /\ Uncapped \notin Nat
    /\ IsFiniteSet(Sends)
    /\ Hears \in [Sends -> SUBSET Ledgers]
    /\ Need \in [Sends -> Nat]
    /\ Bills \subseteq Nat
    /\ FirstRpm \in Caps /\ FirstTpm \in Caps
    /\ Learned \subseteq Caps \X Caps
    /\ RetryAfter \subseteq Nat
    /\ Base \in Nat \ {0} /\ Cap \in Nat \ {0}
    /\ Window \in Nat /\ GiveUpAfter \in Nat /\ Attempts \in [Sends -> Nat \ {0}]

None == -1

VARIABLES
    at,         \* at[s]: where a send stands
    ticket,     \* ticket[s]: while out, the cooldowns opened when it was let through
    resent,     \* resent[s]: attempts spent on failures
    opened,     \* cooldowns opened
    strikes,    \* throttles since the provider last eased
    atOnce,     \* sends that may be out at once
    resumes,    \* ticks the cooldown still has to run
    since,      \* ticks since the provider began throttling, or None
    heard,      \* heard[l]: the strike a ledger last heard a hold of, or 0
    told,       \* told[l]: the hold a ledger's own last record speaks of, or 0 (history)
    waiting,    \* sends queued for the window, by arrival
    window,     \* what was sent within the window, oldest first
    rpm, tpm,   \* the account's caps
    over        \* the window is past a cap by a response's word or one large need (history)

pressure == <<opened, strikes, atOnce, resumes, since, heard, told>>
limiter == <<waiting, window, rpm, tpm, over>>
vars == <<at, ticket, resent, pressure, limiter>>

Places == {"idle", "asking", "window", "posted", "resting", "ended"}

Entry == [of : Sends, age : Nat, tokens : Nat]

\* The sends that count as out: let through and not yet back.
Out == {s \in Sends : at[s] \in {"window", "posted"}}

\* A send moves on; what it counted goes with it when it is done.
Moves(s, place) ==
    /\ at' = [at EXCEPT ![s] = place]
    /\ ticket' = [ticket EXCEPT ![s] = IF place \in {"window", "posted"} THEN @ ELSE 0]
    /\ resent' = [resent EXCEPT ![s] = IF place = "ended" THEN 0 ELSE @]

Init ==
    /\ at = [s \in Sends |-> "idle"]
    /\ ticket = [s \in Sends |-> 0]
    /\ resent = [s \in Sends |-> 0]
    /\ opened = 0 /\ strikes = 0 /\ atOnce = Uncapped /\ resumes = 0 /\ since = None
    /\ heard = [l \in Ledgers |-> 0]
    /\ told = [l \in Ledgers |-> 0]
    /\ waiting = <<>> /\ window = <<>>
    /\ rpm = FirstRpm /\ tpm = FirstTpm /\ over = FALSE

-----------------------------------------------------------------------------
(* What the ledgers are told.                                              *)

\* The ledgers of a send hear of the hold, once per strike.
Announce(s) ==
    IF since' = None
    THEN UNCHANGED <<heard, told>>
    ELSE /\ heard' = [l \in Ledgers |-> IF l \in Hears[s] THEN strikes' ELSE heard[l]]
         /\ told' = [l \in Ledgers |->
                IF l \in Hears[s] /\ heard[l] # strikes' THEN strikes' ELSE told[l]]

-----------------------------------------------------------------------------
(* Backpressure: the way in.                                               *)

\* Mutant: one too many is let through.
MutHeld == resumes > 0 \/ (atOnce # Uncapped /\ Cardinality(Out) > atOnce)

\* Whether a send must wait before it is let through.
Held == resumes > 0 \/ (atOnce # Uncapped /\ Cardinality(Out) >= atOnce)

\* A call begins; it learns of a hold already on.
Ask(s) ==
    /\ at[s] = "idle"
    /\ Moves(s, "asking")
    /\ UNCHANGED <<opened, strikes, atOnce, resumes, since, limiter>>
    /\ Announce(s)

\* A held send wakes to find itself still held.
Poll(s) ==
    /\ at[s] = "asking" /\ Held
    /\ UNCHANGED <<at, ticket, resent, opened, strikes, atOnce, resumes, since, limiter>>
    /\ Announce(s)

\* Larger than the cap as known now: it could never be sent.
TooLarge(s) == tpm # Uncapped /\ Need[s] > tpm

\* Let through: it takes its ticket and joins the queue for the window, where
\* one that is too large is refused at once.
Enter(s) ==
    /\ at[s] = "asking" /\ ~Held
    /\ IF TooLarge(s)
       THEN /\ Moves(s, "ended")
            /\ UNCHANGED waiting
       ELSE /\ at' = [at EXCEPT ![s] = "window"]
            /\ ticket' = [ticket EXCEPT ![s] = opened]
            /\ waiting' = Append(waiting, s)
            /\ UNCHANGED resent
    /\ UNCHANGED <<opened, strikes, atOnce, resumes, since, window, rpm, tpm, over>>
    /\ Announce(s)

-----------------------------------------------------------------------------
(* The window of the account.                                              *)

Tokens(W) == SumFunction([i \in DOMAIN W |-> W[i].tokens])

\* Mutant: room is looked for without the send's own need.
MutReady(s) ==
    /\ rpm # Uncapped => Len(window) < rpm
    /\ tpm # Uncapped /\ Need[s] <= tpm => Tokens(window) <= tpm

\* Mutant: a need above the cap waits for room like any other.
MutReadyNever(s) ==
    /\ rpm # Uncapped => Len(window) < rpm
    /\ tpm # Uncapped => Tokens(window) + Need[s] <= tpm

\* A need above the cap waits for nothing: no wait would make it fit.
Ready(s) ==
    /\ rpm # Uncapped => Len(window) < rpm
    /\ tpm # Uncapped /\ Need[s] <= tpm => Tokens(window) + Need[s] <= tpm

\* What an account was given of the window: tokens where they are capped, else requests.
Served(t) ==
    LET own == {i \in DOMAIN window : Tenant[window[i].of] = t}
    IN  IF tpm = Uncapped THEN Cardinality(own)
        ELSE MapThenSumSet(LAMBDA i : window[i].tokens, own)

\* The place in the queue of the send that may go: among those that fit, the
\* first of the account served least.
NextUp(i) ==
    /\ Ready(waiting[i])
    /\ \A k \in DOMAIN waiting \ {i} :
           Ready(waiting[k]) =>
               LET mine == Served(Tenant[waiting[i]])
                   its == Served(Tenant[waiting[k]])
               IN  mine < its \/ (mine = its /\ i < k)

WithoutAt(seq, i) == [k \in 1 .. Len(seq) - 1 |-> IF k < i THEN seq[k] ELSE seq[k + 1]]

\* Its turn in the window: it takes its slot, is admitted by its book, and leaves.
Post(s) ==
    /\ at[s] = "window"
    /\ \E i \in DOMAIN waiting :
          /\ waiting[i] = s /\ NextUp(i)
          /\ waiting' = WithoutAt(waiting, i)
    /\ window' = Append(window, [of |-> s, age |-> 0, tokens |-> Need[s]])
    /\ over' = (over \/ (tpm # Uncapped /\ Need[s] > tpm))
    /\ Moves(s, "posted")
    /\ UNCHANGED <<pressure, rpm, tpm>>

\* Its book refuses it: the slot it was just given is given back.
NotAdmitted(s) ==
    /\ at[s] = "window"
    /\ \E i \in DOMAIN waiting :
          /\ waiting[i] = s /\ NextUp(i)
          /\ waiting' = WithoutAt(waiting, i)
    /\ Moves(s, "ended")
    /\ UNCHANGED <<pressure, window, rpm, tpm, over>>

-----------------------------------------------------------------------------
(* What comes back.                                                        *)

\* Mutant: every answer speaks.
MutSpeaks(s) == TRUE

\* Only a send made since the latest cooldown opened speaks for the provider.
Speaks(s) == ticket[s] = opened

\* Mutant: the end is told to the ledgers of the send that was answered.
MutEased(s) ==
    /\ since' = None /\ resumes' = 0 /\ strikes' = 0
    /\ atOnce' = IF atOnce # Uncapped /\ Cardinality(Out) >= atOnce THEN atOnce + 1 ELSE atOnce
    /\ heard' = [l \in Ledgers |-> IF l \in Hears[s] THEN 0 ELSE heard[l]]
    /\ told' = [l \in Ledgers |-> IF l \in Hears[s] THEN 0 ELSE told[l]]
    /\ UNCHANGED opened

\* The provider answers again: every ledger that heard of the hold hears of its end.
Eased(s) ==
    /\ since' = None /\ resumes' = 0 /\ strikes' = 0
    /\ atOnce' = IF atOnce # Uncapped /\ Cardinality(Out) >= atOnce THEN atOnce + 1 ELSE atOnce
    /\ heard' = [l \in Ledgers |-> 0]
    /\ told' = [l \in Ledgers |-> IF since # None /\ heard[l] # 0 THEN 0 ELSE told[l]]
    /\ UNCHANGED opened

\* The bill of a send corrects what it reserved, if it is still in the window.
Billed(s, used) ==
    [i \in DOMAIN window |->
        IF window[i].of = s /\ \A k \in DOMAIN window : window[k].of = s => k <= i
        THEN [window[i] EXCEPT !.tokens = used]
        ELSE window[i]]

Overfull(W, r, t) == (r # Uncapped /\ Len(W) > r) \/ (t # Uncapped /\ Tokens(W) > t)

\* An answer, with the caps its headers state and the tokens it used.
Answered(s) ==
    /\ at[s] = "posted"
    /\ IF Speaks(s) THEN Eased(s)
       ELSE /\ UNCHANGED <<opened, strikes, atOnce, resumes, since>>
            /\ Announce(s)
    /\ \E caps \in Learned \cup {<<rpm, tpm>>}, used \in Bills :
          /\ rpm' = caps[1] /\ tpm' = caps[2]
          /\ window' = Billed(s, used)
          /\ over' = Overfull(window', rpm', tpm')
    /\ Moves(s, "ended")
    /\ UNCHANGED <<waiting>>

\* The cooldown doubles with every strike, up to the longest; jitter is left out.
Cooldown(n) == IF Base * 2 ^ (n - 1) \in 1 .. Cap THEN Base * 2 ^ (n - 1) ELSE Cap

\* A throttle that speaks for the provider opens a cooldown and halves what is out.
OpenCooldown ==
    /\ opened' = opened + 1
    /\ strikes' = strikes + 1
    /\ atOnce' = IF Cardinality(Out) \div 2 < 1 THEN 1 ELSE Cardinality(Out) \div 2
    /\ \E wait \in {Cooldown(strikes + 1)} \cup {r + 1 : r \in RetryAfter \ {0}} :
           resumes' = wait
    /\ since' = IF since = None THEN 0 ELSE since

\* A throttle: the send asks again.  A late one, from before the latest cooldown,
\* changes nothing.
Throttled(s) ==
    /\ at[s] = "posted"
    /\ \/ ~Speaks(s) /\ UNCHANGED <<opened, strikes, atOnce, resumes, since>>
       \/ Speaks(s) /\ since < GiveUpAfter /\ OpenCooldown
    /\ Announce(s)
    /\ Moves(s, "asking")
    /\ UNCHANGED <<limiter>>

\* Nothing but throttles for too long: the send is refused.
GivenUp(s) ==
    /\ at[s] = "posted" /\ Speaks(s) /\ since >= GiveUpAfter
    /\ Moves(s, "ended")
    /\ UNCHANGED <<pressure, limiter>>

\* An answer no wait outlasts: a daily quota, no credit, a request at fault.
Rejected(s) ==
    /\ at[s] = "posted"
    /\ Moves(s, "ended")
    /\ UNCHANGED <<pressure, limiter>>

\* A server error or a broken connection spends an attempt; the last one raises.
Fails(s) ==
    /\ at[s] = "posted"
    /\ IF resent[s] + 1 < Attempts[s]
       THEN /\ at' = [at EXCEPT ![s] = "resting"]
            /\ ticket' = [ticket EXCEPT ![s] = 0]
            /\ resent' = [resent EXCEPT ![s] = @ + 1]
       ELSE Moves(s, "ended")
    /\ UNCHANGED <<pressure, limiter>>

\* The wait before a resend is over.
Rested(s) ==
    /\ at[s] = "resting"
    /\ Moves(s, "asking")
    /\ UNCHANGED <<opened, strikes, atOnce, resumes, since, limiter>>
    /\ Announce(s)

\* The run is paused or its cell is cut: the send is given up wherever it stands.
Abort(s) ==
    /\ at[s] \in {"asking", "window", "posted", "resting"}
    /\ Moves(s, "ended")
    /\ \/ /\ at[s] = "window"
          /\ \E i \in DOMAIN waiting : waiting[i] = s /\ waiting' = WithoutAt(waiting, i)
       \/ at[s] # "window" /\ UNCHANGED waiting
    /\ UNCHANGED <<pressure, window, rpm, tpm, over>>

-----------------------------------------------------------------------------
(* Time.                                                                   *)

\* The entries that leave the window with this tick are its oldest.
Expired == Cardinality({i \in DOMAIN window : window[i].age + 1 >= Window})

Tick ==
    /\ resumes > 0 \/ window # <<>> \/ since \in 0 .. GiveUpAfter - 1
    /\ resumes' = IF resumes > 0 THEN resumes - 1 ELSE 0
    /\ since' = IF since \in 0 .. GiveUpAfter - 1 THEN since + 1 ELSE since
    /\ window' = [i \in 1 .. Len(window) - Expired |->
                    [window[i + Expired] EXCEPT !.age = @ + 1]]
    /\ over' = (over /\ Overfull(window', rpm, tpm))
    /\ UNCHANGED <<at, ticket, resent, opened, strikes, atOnce, heard, told, waiting, rpm, tpm>>

Returns(s) == Answered(s) \/ Throttled(s) \/ GivenUp(s) \/ Rejected(s) \/ Fails(s)

Step(s) == Ask(s) \/ Poll(s) \/ Enter(s) \/ Post(s) \/ NotAdmitted(s) \/ Returns(s) \/ Rested(s) \/ Abort(s)

Next == Tick \/ \E s \in Sends : Step(s)

Spec == Init /\ [][Next]_vars

\* Time passes; a send that is let through goes on, since it polls; its turn in
\* the window is taken by whoever wakes; every post is answered or times out.
FairSpec ==
    /\ Spec
    /\ WF_vars(Tick)
    /\ \A s \in Sends : WF_vars(Enter(s)) /\ WF_vars(Post(s) \/ NotAdmitted(s))
                        /\ WF_vars(Returns(s)) /\ WF_vars(Rested(s))

-----------------------------------------------------------------------------
(* Properties.                                                             *)

TypeOK ==
    /\ at \in [Sends -> Places]
    /\ ticket \in [Sends -> Nat]
    /\ resent \in [Sends -> Nat]
    /\ opened \in Nat /\ strikes \in Nat /\ resumes \in Nat
    /\ atOnce \in (Nat \ {0}) \cup {Uncapped}
    /\ since \in 0 .. GiveUpAfter \cup {None}
    /\ heard \in [Ledgers -> Nat] /\ told \in [Ledgers -> Nat]
    /\ waiting \in Seq(Sends)
    /\ window \in Seq(Entry)
    /\ rpm \in Caps /\ tpm \in Caps /\ over \in BOOLEAN

\* No ticket is ahead of the cooldowns opened.
TicketsPast == \A s \in Out : ticket[s] <= opened

\* While a cooldown runs, no send out speaks for the provider.
CoolingIsFinal == resumes > 0 => \A s \in Out : ~Speaks(s)

\* What the sender remembers of each ledger is what the ledger says.
HeardIsTold == \A l \in Ledgers : told[l] = heard[l]

\* Why the rest holds: no answer to a send that is out while a cooldown runs may
\* open another or end it, and every ledger on a hold is remembered till its end.
PacingInv == TicketsPast /\ CoolingIsFinal /\ HeardIsTold

\* A cooldown runs its course: until it is over it is neither shortened,
\* lengthened nor replaced, whatever comes back meanwhile.
CooldownRunsItsCourse ==
    [][resumes > 0 => opened' = opened /\ resumes' \in {resumes, resumes - 1}]_vars

\* The sends let through since the latest cooldown never exceed the cap on the
\* sends at once, however the cap fell and climbed back while others were out.
WithinAtOnce ==
    atOnce # Uncapped => Cardinality({s \in Out : Speaks(s)}) <= atOnce

\* No ledger is left on a hold that is over: the end is told to every ledger
\* that was told of the hold, and no answer that comes late revives it.
NoLedgerLeftHeld ==
    \A l \in Ledgers : told[l] # 0 => since # None /\ told[l] <= strikes

\* The window passes a cap it knows only by what a response said of the cap or
\* of the tokens used, or by one send larger than the cap.
WindowHoldsCaps == Overfull(window, rpm, tpm) => over

\* Every send that asks is answered, refused or aborted in the end, through
\* every throttle, cap learned and turn given to another account.
EverySendEnds == \A s \in Sends : at[s] = "asking" ~> at[s] = "ended"
=============================================================================
