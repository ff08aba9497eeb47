----------------------------- MODULE MCJobRegistry -----------------------------
(* Small machines for JobRegistry. *)
EXTENDS JobRegistry, TLC

CONSTANTS s1, s2, u1, u2

\* Two servers, one on the code a landing brings.
MCCode == [s \in Servers |-> IF s = s2 THEN "new" ELSE "old"]

\* Accounts are interchangeable: no definition names one.
Accounts == Permutations(Users)

\* Three jobs that were asked for: the first got its slot, the others queued behind it
\* while the throttle stalled the machine.  A pass of the first account runs still, ahead
\* of a launch of its own and one of another; or a launch has ended, and both wait.
Asked(first, task1, child1) ==
  /\ job = [j \in Jobs |-> IF j = 1 THEN first ELSE NewJob(made[j], "launch", "queued", FALSE)]
  /\ task = [j \in Jobs |-> IF j = 1 THEN task1 ELSE "wait"]
  /\ child = [j \in Jobs |-> IF j = 1 THEN child1 ELSE "none"]
  /\ watched = [j \in Jobs |-> FALSE]
  /\ copy = [j \in Jobs |-> NoCopy]
  /\ gate = Free
  /\ up = Servers
  /\ landing = FALSE
  /\ late = {}
  /\ astray = {}

RunningPass == NewJob(s1, "pass", "running", TRUE)
EndedLaunch == WithEnding(WithProducer(NewJob(s1, "launch", "running", TRUE), Child), "stopped")

AskedInit ==
  \/ Init
  \/ /\ owner = [j \in Jobs |-> IF j = MaxJobs THEN u2 ELSE u1]
     /\ \/ /\ made \in [Jobs -> Servers] /\ made[1] = s1 /\ made[2] # made[3]
           /\ Asked(RunningPass, "run", "none")
        \/ /\ made = [j \in Jobs |-> IF j = MaxJobs THEN s2 ELSE s1]
           /\ Asked(EndedLaunch, "over", "gone")

AskedSpec == AskedInit /\ [][Next]_vars /\ Fairness

\* Behind the pass the launches run in their launchers, as a CLI's do; behind the launch
\* the second job has a process of its own.  A landing ends what is claimed of the queue.
Explored ==
  /\ ~landing
  /\ child[3] = "none"
  /\ job[1].kind = "pass" => child[2] = "none" /\ gate.op # "reserve"
  /\ job[3].stage = "none" =>
       /\ \A j \in Jobs : owner[j] # u2 /\ made[j] # s2 /\ child[j] = "none"
       /\ gate.op # "reserve"
================================================================================
