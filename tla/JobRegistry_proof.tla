--------------------------- MODULE JobRegistry_proof ---------------------------
(* What holds of the launch queue for every machine, proved of JobRegistry. *)
EXTENDS JobRegistry, FiniteSetTheorems, TLAPS

LEMMA InitTypeOK == Init => TypeOK
<1> SUFFICES ASSUME Init PROVE TypeOK
  OBVIOUS
<1>1. NoJob \in JobRecord
  BY DEF NoJob, JobRecord
<1> QED
  BY <1>1 DEF Init, TypeOK, Tasks, Children, NoCopy, Free

\* Every write of a job file keeps it a job file.
LEMMA RecordTypes ==
  /\ NoJob \in JobRecord
  /\ \A s \in Servers, kind \in {"launch", "pass", "embedded"},
       stage \in {"starting", "queued"}, admitted \in BOOLEAN :
       NewJob(s, kind, stage, admitted) \in JobRecord
  /\ \A r \in JobRecord :
       /\ WithAdmission(r) \in JobRecord
       /\ WithProducer(r, Child) \in JobRecord
       /\ \A stage \in {"starting", "running"} : WithStage(r, stage) \in JobRecord
       /\ \A ended \in {"no", "refused", "withdrawn", "orphaned", "stopped"} :
            WithEnding(r, ended) \in JobRecord
       /\ \A why \in Giving : Ended(r, why) \in JobRecord
<1>1. NoJob \in JobRecord
  BY DEF NoJob, JobRecord
<1>2. ASSUME NEW s \in Servers, NEW kind \in {"launch", "pass", "embedded"},
             NEW stage \in {"starting", "queued"}, NEW admitted \in BOOLEAN
      PROVE NewJob(s, kind, stage, admitted) \in JobRecord
  BY DEF NewJob, JobRecord
<1>3. ASSUME NEW r \in JobRecord
      PROVE /\ WithAdmission(r) \in JobRecord
            /\ WithProducer(r, Child) \in JobRecord
            /\ \A stage \in {"starting", "running"} : WithStage(r, stage) \in JobRecord
            /\ \A ended \in {"no", "refused", "withdrawn", "orphaned", "stopped", "passed"} :
                 WithEnding(r, ended) \in JobRecord
  BY DEF JobRecord, WithAdmission, WithProducer, WithStage, WithEnding
<1>4. ASSUME NEW r \in JobRecord, NEW why \in Giving PROVE Ended(r, why) \in JobRecord
  <2>1. Ending(r, why) \in {"refused", "stopped", "passed"}
    BY DEF Ending
  <2> QED
    BY <1>3, <2>1 DEF Ended
<1> QED
  BY <1>1, <1>2, <1>3, <1>4

\* A slot is granted below the ceiling alone, stalled provider or not.
LEMMA HasSlotBound ==
  \A live \in Nat, stalled \in BOOLEAN : HasSlot(live, stalled) => live < Capacity
BY RegistryAssumption DEF HasSlot, CapacityFor

LEMMA JobSetsFinite ==
  \A S \in SUBSET Jobs : IsFiniteSet(S) /\ Cardinality(S) \in Nat
<1>1. IsFiniteSet(Jobs)
  BY RegistryAssumption, FS_Interval, 1 \in Int, MaxJobs \in Int DEF Jobs
<1> QED
  BY <1>1, FS_Subset, FS_CardinalityType

\* What a lone ask leaves: a fresh file, starting or queued, and its task.
RequestLeaves(s, j, kind, stage, t) ==
  /\ stage = "starting" <=> t = "admit"
  /\ job' = [job EXCEPT ![j] = NewJob(s, kind, stage, FALSE)]
  /\ task' = [task EXCEPT ![j] = t]
  /\ stage = "starting" /\ kind # "embedded" => Cardinality(Running(s)) < Capacity

LEMMA RequestEffect ==
  ASSUME NEW s \in Servers, NEW u \in Users, NEW j \in Jobs,
         NEW kind \in {"launch", "pass", "embedded"}, Request(s, u, j, kind)
  PROVE  \E stage \in {"starting", "queued"}, t \in {"admit", "wait", "busy"} :
           RequestLeaves(s, j, kind, stage, t)
<1> USE DEF RequestLeaves
<1>1. PICK stalled, patient \in BOOLEAN :
        LET live  == Cardinality(Running(s))
            stage == IF kind = "embedded" \/ HasSlot(live, stalled)
                       THEN "starting" ELSE "queued"
        IN  /\ job' = [job EXCEPT ![j] = NewJob(s, kind, stage, FALSE)]
            /\ task' = [task EXCEPT ![j] =
                          IF stage = "starting" THEN "admit"
                          ELSE IF kind = "launch" /\ patient THEN "wait" ELSE "busy"]
  BY DEF Request
<1>2. CASE kind = "embedded" \/ HasSlot(Cardinality(Running(s)), stalled)
  BY <1>1, <1>2, HasSlotBound, JobSetsFinite DEF Running
<1>3. CASE ~(kind = "embedded" \/ HasSlot(Cardinality(Running(s)), stalled))
  BY <1>1, <1>3
<1> QED
  BY <1>2, <1>3

\* What two arms leave: both go on admitted in a slot, or none goes on.  The
\* second may go on without a slot only where the throttle's verdict turned
\* between the two requests, and the first is queued only there.
ArmsLeave(s, j, first, second) ==
  \/ /\ "flicker" \in Disturb /\ first = "queued"
     /\ job' = [job EXCEPT ![j] = Arm(s, first, FALSE, "no"),
                           ![j + 1] = Arm(s, second, FALSE, "no")]
     /\ task' = [task EXCEPT ![j] = "busy", ![j + 1] = "over"]
  \/ /\ "flicker" \in Disturb \/ second = "starting"
     /\ Cardinality(Running(s)) + 1 < Capacity
     /\ job' = [job EXCEPT ![j] = Arm(s, "starting", TRUE, "no"),
                           ![j + 1] = Arm(s, second, TRUE, "no")]
     /\ task' = [task EXCEPT ![j] = "hold", ![j + 1] = "hold"]
  \/ /\ \E r \in {Arm(s, "starting", FALSE, "refused"), Arm(s, "starting", TRUE, "stopped")} :
          job' = [job EXCEPT ![j] = r, ![j + 1] = Arm(s, second, FALSE, "refused")]
     /\ task' = [task EXCEPT ![j] = "over", ![j + 1] = "over"]

LEMMA ArmsEffect ==
  ASSUME NEW s \in Servers, NEW u \in Users, NEW j \in Jobs, RequestArms(s, u, j)
  PROVE  \E first, second \in {"starting", "queued"} : ArmsLeave(s, j, first, second)
<1> DEFINE live == Cardinality(Running(s))
           First(one) == IF HasSlot(live, one) THEN "starting" ELSE "queued"
           Second(one, two) ==
             IF HasSlot(IF First(one) = "starting" THEN live + 1 ELSE live, two)
               THEN "starting" ELSE "queued"
<1>1. PICK room, one, two \in BOOLEAN :
       /\ "flicker" \in Disturb \/ (one = room /\ two = room)
       /\ HasSlot(live, room) /\ HasSlot(live + 1, room)
       /\ \/ /\ First(one) = "queued"
             /\ job' = [job EXCEPT ![j] = Arm(s, First(one), FALSE, "no"),
                                   ![j + 1] = Arm(s, Second(one, two), FALSE, "no")]
             /\ task' = [task EXCEPT ![j] = "busy", ![j + 1] = "over"]
          \/ /\ First(one) = "starting"
             /\ job' = [job EXCEPT ![j] = Arm(s, First(one), TRUE, "no"),
                                   ![j + 1] = Arm(s, Second(one, two), TRUE, "no")]
             /\ task' = [task EXCEPT ![j] = "hold", ![j + 1] = "hold"]
          \/ /\ First(one) = "starting"
             /\ \E r \in {Arm(s, First(one), FALSE, "refused"), Arm(s, First(one), TRUE, "stopped")} :
                  job' = [job EXCEPT ![j] = r,
                                     ![j + 1] = Arm(s, Second(one, two), FALSE, "refused")]
             /\ task' = [task EXCEPT ![j] = "over", ![j + 1] = "over"]
  BY DEF RequestArms
<1>2. First(one) \in {"starting", "queued"} /\ Second(one, two) \in {"starting", "queued"}
  OBVIOUS
<1>3. "flicker" \notin Disturb => First(one) = "starting" /\ Second(one, two) = "starting"
  BY <1>1
<1>4. live + 1 < Capacity
  <2>1. live + 1 \in Nat
    BY JobSetsFinite DEF Running
  <2> QED
    BY <1>1, <2>1, HasSlotBound
<1> HIDE DEF First, Second
<1>5. ArmsLeave(s, j, First(one), Second(one, two))
  BY <1>1, <1>2, <1>3, <1>4 DEF ArmsLeave
<1> QED
  BY <1>2, <1>5

LEMMA RequestTypeOK ==
  ASSUME TypeOK, NEW s \in Servers, NEW u \in Users, NEW j \in Jobs,
         NEW kind \in {"launch", "pass", "embedded"}, Request(s, u, j, kind)
  PROVE  TypeOK'
<1>1. PICK stage \in {"starting", "queued"}, t \in {"admit", "wait", "busy"} :
        RequestLeaves(s, j, kind, stage, t)
  BY RequestEffect
<1>2. NewJob(s, kind, stage, FALSE) \in JobRecord
  BY RecordTypes
<1>3. /\ owner' = [owner EXCEPT ![j] = u] /\ made' = [made EXCEPT ![j] = s]
      /\ UNCHANGED <<child, watched, copy, gate, up, landing, late, astray>>
  BY DEF Request
<1> QED
  BY <1>1, <1>2, <1>3 DEF TypeOK, Tasks, RequestLeaves

LEMMA ArmsTypeOK ==
  ASSUME TypeOK, NEW s \in Servers, NEW u \in Users, NEW j \in Jobs, RequestArms(s, u, j)
  PROVE  TypeOK'
<1>1. PICK first, second \in {"starting", "queued"} : ArmsLeave(s, j, first, second)
  BY ArmsEffect
<1>2. ASSUME NEW stage \in {"starting", "queued"}, NEW admitted \in BOOLEAN,
             NEW ended \in {"no", "refused", "stopped"}
      PROVE Arm(s, stage, admitted, ended) \in JobRecord
  BY RecordTypes DEF Arm
<1>3. /\ owner' = [owner EXCEPT ![j] = u, ![j + 1] = u]
      /\ made' = [made EXCEPT ![j] = s, ![j + 1] = s]
      /\ UNCHANGED <<child, watched, copy, gate, up, landing, late, astray>>
      /\ j + 1 \in Jobs
  BY DEF RequestArms
<1> SUFFICES job' \in [Jobs -> JobRecord] /\ (task \in [Jobs -> Tasks])'
  BY <1>3 DEF TypeOK, Tasks
<1>4. PICK r1, r2 \in JobRecord, t1, t2 \in {"busy", "hold", "over"} :
        /\ job' = [job EXCEPT ![j] = r1, ![j + 1] = r2]
        /\ task' = [task EXCEPT ![j] = t1, ![j + 1] = t2]
  <2> USE DEF ArmsLeave
  <2>1. CASE ArmsLeave(s, j, first, second)!1
    BY <1>2, <2>1
  <2>2. CASE ArmsLeave(s, j, first, second)!2
    BY <1>2, <2>2
  <2>3. CASE ArmsLeave(s, j, first, second)!3
    BY <1>2, <2>3
  <2> QED
    BY <1>1, <2>1, <2>2, <2>3
<1> QED
  BY <1>3, <1>4 DEF TypeOK, Tasks

\* Every step keeps the domains.
LEMMA StepTypeOK == TypeOK /\ [Next]_vars => TypeOK'
<1> SUFFICES ASSUME TypeOK, [Next]_vars PROVE TypeOK'
  OBVIOUS
<1> USE RegistryAssumption, RecordTypes DEF TypeOK, Tasks, Children
<1>1. ASSUME NEW s \in Servers, NEW u \in Users, NEW j \in Jobs, NEW kind \in {"launch", "pass", "embedded"}, Request(s, u, j, kind) PROVE TypeOK'
  BY <1>1, RequestTypeOK
<1>2. ASSUME NEW s \in Servers, NEW u \in Users, NEW j \in Jobs, RequestArms(s, u, j) PROVE TypeOK'
  BY <1>2, ArmsTypeOK
<1>3. ASSUME NEW s \in Servers, NEW j \in Jobs, WithdrawRead(s, j) PROVE TypeOK'
  BY <1>3 DEF WithdrawRead, TakeGate
<1>4. ASSUME NEW s \in Servers, NEW j \in Jobs, ReserveRead(s, j) PROVE TypeOK'
  BY <1>4 DEF ReserveRead, TakeGate
<1>5. ASSUME NEW s \in Servers, NEW j \in Jobs, Reap(s, j) PROVE TypeOK'
  BY <1>5 DEF Reap
<1>6. ASSUME NEW s \in Servers, ServerDies(s) PROVE TypeOK'
  BY <1>6 DEF ServerDies, Free, NoCopy
<1>7. ASSUME NEW j \in Jobs, ClaimRead(j) PROVE TypeOK'
  BY <1>7 DEF ClaimRead, TakeGate
<1>8. ASSUME NEW j \in Jobs, ClaimWrite(j) PROVE TypeOK'
  BY <1>8 DEF ClaimWrite, GateHeldFor, Free, Strayed
<1>9. ASSUME NEW j \in Jobs, GiveUpWaiting(j) PROVE TypeOK'
  BY <1>9 DEF GiveUpWaiting
<1>10. ASSUME NEW j \in Jobs, WithdrawWrite(j) PROVE TypeOK'
  BY <1>10 DEF WithdrawWrite, GateHeldFor, Free
<1>11. ASSUME NEW j \in Jobs, BusyRefused(j) PROVE TypeOK'
  BY <1>11 DEF BusyRefused
<1>12. ASSUME NEW j \in Jobs, ReserveWrite(j) PROVE TypeOK'
  BY <1>12 DEF ReserveWrite, GateHeldFor, Free, Strayed
<1>13. ASSUME NEW j \in Jobs, AdmitRead(j) PROVE TypeOK'
  BY <1>13 DEF AdmitRead, TakeGate
<1>14. ASSUME NEW j \in Jobs, AdmitWrite(j) PROVE TypeOK'
  BY <1>14 DEF AdmitWrite, GateHeldFor, Free, Strayed
<1>15. ASSUME NEW j \in Jobs, Fail(j) PROVE TypeOK'
  BY <1>15 DEF Fail
<1>16. ASSUME NEW j \in Jobs, Interrupt(j) PROVE TypeOK'
  BY <1>16 DEF Interrupt, Strayed
<1>17. ASSUME NEW j \in Jobs, ReleaseRead(j) PROVE TypeOK'
  BY <1>17 DEF ReleaseRead
<1>18. ASSUME NEW j \in Jobs, TaskReleaseWrite(j) PROVE TypeOK'
  BY <1>18 DEF TaskReleaseWrite, NoCopy
<1>19. ASSUME NEW j \in Jobs, ChildReleaseWrite(j) PROVE TypeOK'
  BY <1>19 DEF ChildReleaseWrite, NoCopy
<1>20. ASSUME NEW j \in Jobs, StartRead(j) PROVE TypeOK'
  <2>1. CASE task[j] = "hold"
    BY <1>20, <2>1 DEF StartRead
  <2>2. CASE child[j] = "told"
    BY <1>20, <2>2 DEF StartRead
  <2> QED
    BY <1>20, <2>1, <2>2 DEF StartRead
<1>21. ASSUME NEW j \in Jobs, StartWrite(j) PROVE TypeOK'
  BY <1>21 DEF StartWrite, NoCopy
<1>22. ASSUME NEW j \in Jobs, RunEnds(j) PROVE TypeOK'
  BY <1>22 DEF RunEnds
<1>23. ASSUME NEW j \in Jobs, ChildFails(j) PROVE TypeOK'
  BY <1>23 DEF ChildFails
<1>24. ASSUME NEW j \in Jobs, Spawn(j) PROVE TypeOK'
  BY <1>24 DEF Spawn
<1>25. ASSUME NEW j \in Jobs, AdoptRead(j) PROVE TypeOK'
  <2>1. CASE Released(job[j])
    BY <1>25, <2>1 DEF AdoptRead
  <2>2. CASE ~Released(job[j])
    BY <1>25, <2>2 DEF AdoptRead, TakeGate
  <2> QED
    BY <2>1, <2>2
<1>26. ASSUME NEW j \in Jobs, AdoptWrite(j) PROVE TypeOK'
  BY <1>26 DEF AdoptWrite, GateHeldFor, Free
<1>27. ASSUME NEW j \in Jobs, Tell(j) PROVE TypeOK'
  BY <1>27 DEF Tell
<1>28. ASSUME NEW j \in Jobs, HearAdoption(j) PROVE TypeOK'
  BY <1>28 DEF HearAdoption
<1>29. ASSUME NEW j \in Jobs, WatchEnds(j) PROVE TypeOK'
  BY <1>29 DEF WatchEnds
<1>30. ASSUME NEW j \in Jobs, ChildDies(j) PROVE TypeOK'
  BY <1>30 DEF ChildDies, Free, NoCopy, Strayed
<1>31. ASSUME Land PROVE TypeOK'
  BY <1>31 DEF Land
<1>32. CASE UNCHANGED vars
  BY <1>32 DEF vars
<1> QED
  BY <1>1, <1>2, <1>3, <1>4, <1>5, <1>6, <1>7, <1>8, <1>9, <1>10, <1>11, <1>12, <1>13, <1>14, <1>15, <1>16, <1>17, <1>18, <1>19, <1>20, <1>21, <1>22, <1>23, <1>24, <1>25, <1>26, <1>27, <1>28, <1>29, <1>30, <1>31, <1>32 DEF Next, ServerStep, TaskStep

LEMMA NoJobFields == NoCopy = NoJob /\ NoJob.stage = "none" 
BY DEF NoJob, NoCopy

\* Nobody works on a job that was never asked for.
LEMMA UnaskedIdle ==
  ASSUME TypeOK, BaseInv, NEW j \in Jobs, Unasked(j)
  PROVE  \A k \in Jobs : k >= j => copy[k] = NoCopy /\ child[k] = "none" /\ job[k].stage = "none"
<1> SUFFICES ASSUME NEW k \in Jobs, k >= j
             PROVE  copy[k] = NoCopy /\ child[k] = "none" /\ job[k].stage = "none"
  OBVIOUS
<1>1. job[k].stage = "none"
  BY RegistryAssumption DEF Unasked, Jobs
<1>2. child[k] = "none" /\ task[k] = "none" /\ job[k] = NoJob
  BY <1>1 DEF BaseInv, TaskInv, ChildInv, Taken
<1> QED
  BY <1>1, <1>2 DEF BaseInv, CopyInv, InTask, Giving

LEMMA ArmFields ==
  ASSUME NEW s \in Servers, NEW stage \in {"starting", "queued"}, NEW admitted \in BOOLEAN,
         NEW ended \in {"no", "refused", "stopped"}
  PROVE  LET r == Arm(s, stage, admitted, ended)
         IN  /\ r \in JobRecord
             /\ r.stage = stage /\ r.producer = s /\ r.admitted = admitted
             /\ r.ended = ended /\ r.kind = "launch"
BY RecordTypes DEF Arm, NewJob, WithEnding

LEMMA RequestBase ==
  ASSUME TypeOK, BaseInv, NEW s \in Servers, NEW u \in Users, NEW j \in Jobs,
         NEW kind \in {"launch", "pass", "embedded"}, Request(s, u, j, kind)
  PROVE  BaseInv'
<1>1. PICK stage \in {"starting", "queued"}, t \in {"admit", "wait", "busy"} :
        RequestLeaves(s, j, kind, stage, t)
  BY RequestEffect
<1>2. /\ made' = [made EXCEPT ![j] = s] /\ s \in up /\ GateFree /\ Unasked(j)
      /\ UNCHANGED <<child, watched, copy, gate, up, landing, late>>
  BY DEF Request
<1>3. copy[j] = NoCopy /\ child[j] = "none" /\ job[j].stage = "none"
  BY <1>2, UnaskedIdle, j >= j DEF Jobs
<1> USE RegistryAssumption, NoJobFields DEF TypeOK, JobRecord, Tasks, Children, BaseInv, TaskInv, ChildInv, CopyInv, GateInv, GateHeldFor, Free,  WithStage, WithEnding, WithProducer, WithAdmission, Released, Queued, HoldsSpend, Taken, Cleared, Holding, ChildOwns, InTask, Giving, Exited, Ended, Ending
<1>4. TaskInv'
  BY <1>1, <1>2, <1>3 DEF RequestLeaves, NewJob
<1>5. ChildInv'
  BY <1>1, <1>2, <1>3 DEF RequestLeaves, NewJob
<1>6. CopyInv'
  BY <1>1, <1>2, <1>3 DEF RequestLeaves, NewJob
<1>7. GateInv'
  BY <1>2 DEF GateFree
<1> QED
  BY <1>4, <1>5, <1>6, <1>7

\* The two jobs of an arms request, whichever way it ended.
LEMMA ArmsLeft ==
  ASSUME "flicker" \notin Disturb, NEW s \in Servers, NEW j \in Jobs,
         NEW first \in {"starting", "queued"}, NEW second \in {"starting", "queued"},
         ArmsLeave(s, j, first, second)
  PROVE  \E r1, r2 \in JobRecord, t1, t2 \in {"hold", "over"} :
           /\ job' = [job EXCEPT ![j] = r1, ![j + 1] = r2]
           /\ task' = [task EXCEPT ![j] = t1, ![j + 1] = t2]
           /\ r1.stage # "none" /\ r1.producer = s /\ r2.stage # "none" /\ r2.producer = s
           /\ t1 = "hold" => HoldsSpend(r1) /\ r1.admitted
           /\ t2 = "hold" => HoldsSpend(r2) /\ r2.admitted
<1> USE DEF HoldsSpend, Released
<1>1. CASE ArmsLeave(s, j, first, second)!2
  <2> DEFINE r == Arm(s, "starting", TRUE, "no")
  <2>1. r \in JobRecord /\ r.stage = "starting" /\ r.producer = s /\ HoldsSpend(r) /\ r.admitted
    <3>1. r \in JobRecord
      BY ArmFields
    <3> QED
      BY <3>1 DEF Arm, NewJob, WithEnding
  <2>2. second = "starting"
    BY <1>1
  <2>3. job' = [job EXCEPT ![j] = r, ![j + 1] = r]
        /\ task' = [task EXCEPT ![j] = "hold", ![j + 1] = "hold"]
    BY <1>1, <2>2
  <2> HIDE DEF r
  <2> QED
    BY <2>1, <2>3
<1>2. CASE ArmsLeave(s, j, first, second)!3
  <2> DEFINE r2 == Arm(s, second, FALSE, "refused")
  <2>1. PICK r1 \in {Arm(s, "starting", FALSE, "refused"), Arm(s, "starting", TRUE, "stopped")} :
          job' = [job EXCEPT ![j] = r1, ![j + 1] = r2]
    BY <1>2
  <2>2. r1 \in JobRecord /\ r1.stage # "none" /\ r1.producer = s
    <3>1. CASE r1 = Arm(s, "starting", FALSE, "refused")
      BY <3>1, ArmFields
    <3>2. CASE r1 = Arm(s, "starting", TRUE, "stopped")
      BY <3>2, ArmFields
    <3> QED
      BY <3>1, <3>2
  <2>3. r2 \in JobRecord /\ r2.stage # "none" /\ r2.producer = s
    <3>1. CASE second = "starting"
      BY <3>1, ArmFields
    <3>2. CASE second = "queued"
      BY <3>2, ArmFields
    <3> QED
      BY <3>1, <3>2
  <2>4. task' = [task EXCEPT ![j] = "over", ![j + 1] = "over"]
    BY <1>2
  <2> HIDE DEF r2
  <2> QED
    BY <2>1, <2>2, <2>3, <2>4
<1> QED
  BY <1>1, <1>2 DEF ArmsLeave

LEMMA ArmsBase ==
  ASSUME TypeOK, BaseInv, "flicker" \notin Disturb,
         NEW s \in Servers, NEW u \in Users, NEW j \in Jobs, RequestArms(s, u, j)
  PROVE  BaseInv'
<1>1. PICK first, second \in {"starting", "queued"} : ArmsLeave(s, j, first, second)
  BY ArmsEffect
<1>2. /\ made' = [made EXCEPT ![j] = s, ![j + 1] = s] /\ s \in up /\ GateFree /\ Unasked(j)
      /\ UNCHANGED <<child, watched, copy, gate, up, landing, late>>
      /\ j + 1 \in Jobs
  BY DEF RequestArms
<1>3. j + 1 >= j /\ j >= j /\ j # j + 1
  BY DEF Jobs
<1>4. /\ copy[j] = NoCopy /\ child[j] = "none" /\ job[j].stage = "none"
      /\ copy[j + 1] = NoCopy /\ child[j + 1] = "none" /\ job[j + 1].stage = "none"
  BY <1>2, <1>3, UnaskedIdle
<1>5. PICK r1, r2 \in JobRecord, t1, t2 \in {"hold", "over"} :
        /\ job' = [job EXCEPT ![j] = r1, ![j + 1] = r2]
        /\ task' = [task EXCEPT ![j] = t1, ![j + 1] = t2]
        /\ r1.stage # "none" /\ r1.producer = s /\ r2.stage # "none" /\ r2.producer = s
        /\ t1 = "hold" => HoldsSpend(r1) /\ r1.admitted
        /\ t2 = "hold" => HoldsSpend(r2) /\ r2.admitted
  BY <1>1, ArmsLeft
<1> USE RegistryAssumption, NoJobFields DEF TypeOK, JobRecord, Tasks, Children, BaseInv, TaskInv, ChildInv, CopyInv, GateInv, Released, Queued, HoldsSpend, Taken, Cleared, Holding, ChildOwns, InTask, Giving
<1>6. TaskInv'
  BY <1>2, <1>4, <1>5
<1>7. ChildInv'
  BY <1>2, <1>4, <1>5
<1>8. CopyInv'
  BY <1>2, <1>4, <1>5
<1>9. GateInv'
  BY <1>2 DEF GateFree
<1> QED
  BY <1>6, <1>7, <1>8, <1>9

LEMMA StepBase == TypeOK /\ "flicker" \notin Disturb /\ BaseInv /\ [Next]_vars => BaseInv'
<1> SUFFICES ASSUME TypeOK, "flicker" \notin Disturb, BaseInv, [Next]_vars PROVE BaseInv'
  OBVIOUS
<1> USE RegistryAssumption, NoJobFields DEF TypeOK, JobRecord, Tasks, Children, BaseInv, TaskInv, ChildInv, CopyInv, GateInv, GateHeldFor, Free,  WithStage, WithEnding, WithProducer, WithAdmission, Released, Queued, HoldsSpend, Taken, Cleared, Holding, ChildOwns, InTask, Giving, Exited, Ended, Ending
<1>1. ASSUME NEW s \in Servers, NEW u \in Users, NEW j \in Jobs, NEW kind \in {"launch", "pass", "embedded"}, Request(s, u, j, kind) PROVE BaseInv'
  BY <1>1, RequestBase
<1>2. ASSUME NEW s \in Servers, NEW u \in Users, NEW j \in Jobs, RequestArms(s, u, j) PROVE BaseInv'
  BY <1>2, ArmsBase
<1>3. ASSUME NEW s \in Servers, NEW j \in Jobs, WithdrawRead(s, j) PROVE BaseInv'
  <2>1. TaskInv'
    BY <1>3 DEF WithdrawRead, TakeGate, GateFree
  <2>2. ChildInv'
    BY <1>3 DEF WithdrawRead, TakeGate, GateFree
  <2>3. CopyInv'
    BY <1>3 DEF WithdrawRead, TakeGate, GateFree
  <2>4. GateInv'
    BY <1>3 DEF WithdrawRead, TakeGate, GateFree
  <2> QED
    BY <2>1, <2>2, <2>3, <2>4
<1>4. ASSUME NEW s \in Servers, NEW j \in Jobs, ReserveRead(s, j) PROVE BaseInv'
  <2>1. TaskInv'
    BY <1>4 DEF ReserveRead, TakeGate, GateFree
  <2>2. ChildInv'
    BY <1>4 DEF ReserveRead, TakeGate, GateFree
  <2>3. CopyInv'
    BY <1>4 DEF ReserveRead, TakeGate, GateFree
  <2>4. GateInv'
    BY <1>4 DEF ReserveRead, TakeGate, GateFree
  <2> QED
    BY <2>1, <2>2, <2>3, <2>4
<1>5. ASSUME NEW s \in Servers, NEW j \in Jobs, Reap(s, j) PROVE BaseInv'
  <2>1. TaskInv'
    BY <1>5 DEF Reap, Orphaned, ProducerAlive
  <2>2. ChildInv'
    BY <1>5 DEF Reap, Orphaned, ProducerAlive
  <2>3. CopyInv'
    BY <1>5 DEF Reap, Orphaned, ProducerAlive
  <2>4. GateInv'
    BY <1>5 DEF Reap, Orphaned, ProducerAlive
  <2> QED
    BY <2>1, <2>2, <2>3, <2>4
<1>6. ASSUME NEW s \in Servers, ServerDies(s) PROVE BaseInv'
  <2>1. TaskInv'
    BY <1>6 DEF ServerDies
  <2>2. ChildInv'
    BY <1>6 DEF ServerDies
  <2>3. CopyInv'
    BY <1>6 DEF ServerDies
  <2>4. GateInv'
    BY <1>6 DEF ServerDies
  <2> QED
    BY <2>1, <2>2, <2>3, <2>4
<1>7. ASSUME NEW j \in Jobs, ClaimRead(j) PROVE BaseInv'
  <2>1. TaskInv'
    BY <1>7 DEF ClaimRead, TakeGate, GateFree, IsHead, Waiting
  <2>2. ChildInv'
    BY <1>7 DEF ClaimRead, TakeGate, GateFree, IsHead, Waiting
  <2>3. CopyInv'
    BY <1>7 DEF ClaimRead, TakeGate, GateFree, IsHead, Waiting
  <2>4. GateInv'
    BY <1>7 DEF ClaimRead, TakeGate, GateFree, IsHead, Waiting
  <2> QED
    BY <2>1, <2>2, <2>3, <2>4
<1>8. ASSUME NEW j \in Jobs, ClaimWrite(j) PROVE BaseInv'
  <2>1. TaskInv'
    BY <1>8 DEF ClaimWrite
  <2>2. ChildInv'
    BY <1>8 DEF ClaimWrite
  <2>3. CopyInv'
    BY <1>8 DEF ClaimWrite
  <2>4. GateInv'
    BY <1>8 DEF ClaimWrite
  <2> QED
    BY <2>1, <2>2, <2>3, <2>4
<1>9. ASSUME NEW j \in Jobs, GiveUpWaiting(j) PROVE BaseInv'
  <2>1. TaskInv'
    BY <1>9 DEF GiveUpWaiting
  <2>2. ChildInv'
    BY <1>9 DEF GiveUpWaiting
  <2>3. CopyInv'
    BY <1>9 DEF GiveUpWaiting
  <2>4. GateInv'
    BY <1>9 DEF GiveUpWaiting
  <2> QED
    BY <2>1, <2>2, <2>3, <2>4
<1>10. ASSUME NEW j \in Jobs, WithdrawWrite(j) PROVE BaseInv'
  <2>1. TaskInv'
    BY <1>10 DEF WithdrawWrite
  <2>2. ChildInv'
    BY <1>10 DEF WithdrawWrite
  <2>3. CopyInv'
    BY <1>10 DEF WithdrawWrite
  <2>4. GateInv'
    BY <1>10 DEF WithdrawWrite
  <2> QED
    BY <2>1, <2>2, <2>3, <2>4
<1>11. ASSUME NEW j \in Jobs, BusyRefused(j) PROVE BaseInv'
  <2>1. TaskInv'
    BY <1>11 DEF BusyRefused
  <2>2. ChildInv'
    BY <1>11 DEF BusyRefused
  <2>3. CopyInv'
    BY <1>11 DEF BusyRefused
  <2>4. GateInv'
    BY <1>11 DEF BusyRefused
  <2> QED
    BY <2>1, <2>2, <2>3, <2>4
<1>12. ASSUME NEW j \in Jobs, ReserveWrite(j) PROVE BaseInv'
  <2>1. TaskInv'
    BY <1>12 DEF ReserveWrite
  <2>2. ChildInv'
    BY <1>12 DEF ReserveWrite
  <2>3. CopyInv'
    BY <1>12 DEF ReserveWrite
  <2>4. GateInv'
    BY <1>12 DEF ReserveWrite
  <2> QED
    BY <2>1, <2>2, <2>3, <2>4
<1>13. ASSUME NEW j \in Jobs, AdmitRead(j) PROVE BaseInv'
  <2>1. TaskInv'
    BY <1>13 DEF AdmitRead, TakeGate, GateFree
  <2>2. ChildInv'
    BY <1>13 DEF AdmitRead, TakeGate, GateFree
  <2>3. CopyInv'
    BY <1>13 DEF AdmitRead, TakeGate, GateFree
  <2>4. GateInv'
    BY <1>13 DEF AdmitRead, TakeGate, GateFree
  <2> QED
    BY <2>1, <2>2, <2>3, <2>4
<1>14. ASSUME NEW j \in Jobs, AdmitWrite(j) PROVE BaseInv'
  <2>1. TaskInv'
    BY <1>14 DEF AdmitWrite
  <2>2. ChildInv'
    BY <1>14 DEF AdmitWrite
  <2>3. CopyInv'
    BY <1>14 DEF AdmitWrite
  <2>4. GateInv'
    BY <1>14 DEF AdmitWrite
  <2> QED
    BY <2>1, <2>2, <2>3, <2>4
<1>15. ASSUME NEW j \in Jobs, Fail(j) PROVE BaseInv'
  <2>1. TaskInv'
    BY <1>15 DEF Fail
  <2>2. ChildInv'
    BY <1>15 DEF Fail
  <2>3. CopyInv'
    BY <1>15 DEF Fail
  <2>4. GateInv'
    BY <1>15 DEF Fail
  <2> QED
    BY <2>1, <2>2, <2>3, <2>4
<1>16. ASSUME NEW j \in Jobs, Interrupt(j) PROVE BaseInv'
  <2>1. TaskInv'
    BY <1>16 DEF Interrupt
  <2>2. ChildInv'
    BY <1>16 DEF Interrupt
  <2>3. CopyInv'
    <3>1. CASE task[j] = "spawn"
      <4>1. task' = [task EXCEPT ![j] = "over"] /\ UNCHANGED <<job, owner, made, child, copy>>
        BY <1>16, <3>1 DEF Interrupt
      <4> QED
        BY <3>1, <4>1
    <3>2. CASE task[j] # "spawn"
      BY <1>16, <3>2 DEF Interrupt
    <3> QED
      BY <3>1, <3>2
  <2>4. GateInv'
    BY <1>16 DEF Interrupt
  <2> QED
    BY <2>1, <2>2, <2>3, <2>4
<1>17. ASSUME NEW j \in Jobs, ReleaseRead(j) PROVE BaseInv'
  <2>1. TaskInv'
    BY <1>17 DEF ReleaseRead
  <2>2. ChildInv'
    BY <1>17 DEF ReleaseRead
  <2>3. CopyInv'
    BY <1>17 DEF ReleaseRead
  <2>4. GateInv'
    BY <1>17 DEF ReleaseRead
  <2> QED
    BY <2>1, <2>2, <2>3, <2>4
<1>18. ASSUME NEW j \in Jobs, TaskReleaseWrite(j) PROVE BaseInv'
  <2>1. TaskInv'
    BY <1>18 DEF TaskReleaseWrite
  <2>2. ChildInv'
    BY <1>18 DEF TaskReleaseWrite
  <2>3. CopyInv'
    <3>1. child[j] # "begin"
      BY <1>18 DEF TaskReleaseWrite
    <3>2. CASE Released(copy[j])
      BY <1>18, <3>1, <3>2 DEF TaskReleaseWrite
    <3>3. CASE ~Released(copy[j])
      BY <1>18, <3>1, <3>3 DEF TaskReleaseWrite
    <3> QED
      BY <3>2, <3>3
  <2>4. GateInv'
    BY <1>18 DEF TaskReleaseWrite
  <2> QED
    BY <2>1, <2>2, <2>3, <2>4
<1>19. ASSUME NEW j \in Jobs, ChildReleaseWrite(j) PROVE BaseInv'
  <2>1. TaskInv'
    BY <1>19 DEF ChildReleaseWrite
  <2>2. ChildInv'
    BY <1>19 DEF ChildReleaseWrite
  <2>3. CopyInv'
    BY <1>19 DEF ChildReleaseWrite
  <2>4. GateInv'
    BY <1>19 DEF ChildReleaseWrite
  <2> QED
    BY <2>1, <2>2, <2>3, <2>4
<1>20. ASSUME NEW j \in Jobs, StartRead(j) PROVE BaseInv'
  <2>1. TaskInv'
    BY <1>20 DEF StartRead
  <2>2. ChildInv'
    BY <1>20 DEF StartRead
  <2>3. CopyInv'
    BY <1>20 DEF StartRead
  <2>4. GateInv'
    BY <1>20 DEF StartRead
  <2> QED
    BY <2>1, <2>2, <2>3, <2>4
<1>21. ASSUME NEW j \in Jobs, StartWrite(j) PROVE BaseInv'
  <2>1. TaskInv'
    BY <1>21 DEF StartWrite
  <2>2. ChildInv'
    BY <1>21 DEF StartWrite
  <2>3. CopyInv'
    BY <1>21 DEF StartWrite
  <2>4. GateInv'
    BY <1>21 DEF StartWrite
  <2> QED
    BY <2>1, <2>2, <2>3, <2>4
<1>22. ASSUME NEW j \in Jobs, RunEnds(j) PROVE BaseInv'
  <2>1. TaskInv'
    BY <1>22 DEF RunEnds
  <2>2. ChildInv'
    BY <1>22 DEF RunEnds
  <2>3. CopyInv'
    BY <1>22 DEF RunEnds
  <2>4. GateInv'
    BY <1>22 DEF RunEnds
  <2> QED
    BY <2>1, <2>2, <2>3, <2>4
<1>23. ASSUME NEW j \in Jobs, ChildFails(j) PROVE BaseInv'
  <2>1. TaskInv'
    BY <1>23 DEF ChildFails
  <2>2. ChildInv'
    BY <1>23 DEF ChildFails
  <2>3. CopyInv'
    BY <1>23 DEF ChildFails
  <2>4. GateInv'
    BY <1>23 DEF ChildFails
  <2> QED
    BY <2>1, <2>2, <2>3, <2>4
<1>24. ASSUME NEW j \in Jobs, Spawn(j) PROVE BaseInv'
  <2>1. TaskInv'
    BY <1>24 DEF Spawn
  <2>2. ChildInv'
    BY <1>24 DEF Spawn
  <2>3. CopyInv'
    BY <1>24 DEF Spawn
  <2>4. GateInv'
    BY <1>24 DEF Spawn
  <2> QED
    BY <2>1, <2>2, <2>3, <2>4
<1>25. ASSUME NEW j \in Jobs, AdoptRead(j) PROVE BaseInv'
  <2>1. TaskInv'
    BY <1>25 DEF AdoptRead, TakeGate, GateFree
  <2>2. ChildInv'
    BY <1>25 DEF AdoptRead, TakeGate, GateFree
  <2>3. CopyInv'
    BY <1>25 DEF AdoptRead, TakeGate, GateFree
  <2>4. GateInv'
    BY <1>25 DEF AdoptRead, TakeGate, GateFree
  <2> QED
    BY <2>1, <2>2, <2>3, <2>4
<1>26. ASSUME NEW j \in Jobs, AdoptWrite(j) PROVE BaseInv'
  <2>1. TaskInv'
    BY <1>26 DEF AdoptWrite
  <2>2. ChildInv'
    BY <1>26 DEF AdoptWrite
  <2>3. CopyInv'
    <3>1. copy[j] = NoCopy
      BY <1>26 DEF AdoptWrite
    <3> QED
      BY <1>26, <3>1 DEF AdoptWrite
  <2>4. GateInv'
    BY <1>26 DEF AdoptWrite
  <2> QED
    BY <2>1, <2>2, <2>3, <2>4
<1>27. ASSUME NEW j \in Jobs, Tell(j) PROVE BaseInv'
  <2>1. TaskInv'
    BY <1>27 DEF Tell
  <2>2. ChildInv'
    BY <1>27 DEF Tell
  <2>3. CopyInv'
    BY <1>27 DEF Tell
  <2>4. GateInv'
    BY <1>27 DEF Tell
  <2> QED
    BY <2>1, <2>2, <2>3, <2>4
<1>28. ASSUME NEW j \in Jobs, HearAdoption(j) PROVE BaseInv'
  <2>1. TaskInv'
    BY <1>28 DEF HearAdoption
  <2>2. ChildInv'
    BY <1>28 DEF HearAdoption
  <2>3. CopyInv'
    BY <1>28 DEF HearAdoption
  <2>4. GateInv'
    BY <1>28 DEF HearAdoption
  <2> QED
    BY <2>1, <2>2, <2>3, <2>4
<1>29. ASSUME NEW j \in Jobs, WatchEnds(j) PROVE BaseInv'
  <2>1. TaskInv'
    BY <1>29 DEF WatchEnds
  <2>2. ChildInv'
    BY <1>29 DEF WatchEnds
  <2>3. CopyInv'
    BY <1>29 DEF WatchEnds
  <2>4. GateInv'
    BY <1>29 DEF WatchEnds
  <2> QED
    BY <2>1, <2>2, <2>3, <2>4
<1>30. ASSUME NEW j \in Jobs, ChildDies(j) PROVE BaseInv'
  <2>1. TaskInv'
    BY <1>30 DEF ChildDies
  <2>2. ChildInv'
    BY <1>30 DEF ChildDies
  <2>3. CopyInv'
    BY <1>30 DEF ChildDies
  <2>4. GateInv'
    BY <1>30 DEF ChildDies
  <2> QED
    BY <2>1, <2>2, <2>3, <2>4
<1>31. ASSUME Land PROVE BaseInv'
  <2>1. TaskInv'
    BY <1>31 DEF Land
  <2>2. ChildInv'
    BY <1>31 DEF Land
  <2>3. CopyInv'
    BY <1>31 DEF Land
  <2>4. GateInv'
    BY <1>31 DEF Land
  <2> QED
    BY <2>1, <2>2, <2>3, <2>4
<1>32. CASE UNCHANGED vars
  <2>1. TaskInv'
    BY <1>32 DEF vars
  <2>2. ChildInv'
    BY <1>32 DEF vars
  <2>3. CopyInv'
    BY <1>32 DEF vars
  <2>4. GateInv'
    BY <1>32 DEF vars
  <2> QED
    BY <2>1, <2>2, <2>3, <2>4
<1> HIDE DEF BaseInv, TypeOK
<1> QED
  BY <1>1, <1>2, <1>3, <1>4, <1>5, <1>6, <1>7, <1>8, <1>9, <1>10, <1>11, <1>12, <1>13, <1>14, <1>15, <1>16, <1>17, <1>18, <1>19, <1>20, <1>21, <1>22, <1>23, <1>24, <1>25, <1>26, <1>27, <1>28, <1>29, <1>30, <1>31, <1>32 DEF Next, ServerStep, TaskStep

LEMMA InitBase == Init => BaseInv
BY NoJobFields, RegistryAssumption
   DEF Init, BaseInv, TaskInv, ChildInv, CopyInv, GateInv, Free, InTask, Giving, Holding, Cleared,
       ChildOwns

--------------------------------------------------------------------------------

\* The job files, the tasks, the children and the gate stay in their domains.
THEOREM TypeCorrect == Spec => []TypeOK
<1>1. Init => TypeOK
  BY InitTypeOK
<1>2. TypeOK /\ [Next]_vars => TypeOK'
  BY StepTypeOK
<1> QED
  BY <1>1, <1>2, PTL DEF Spec

\* Whatever stale copies the ungated writers put back, who works on a job and
\* what its file says of it agree.
THEOREM BaseInvariant ==
  ASSUME "flicker" \notin Disturb PROVE Spec => [](TypeOK /\ BaseInv)
<1>1. Init => TypeOK /\ BaseInv
  BY InitTypeOK, InitBase
<1>2. TypeOK /\ BaseInv /\ [Next]_vars => (TypeOK /\ BaseInv)'
  BY StepTypeOK, StepBase
<1> QED
  BY <1>1, <1>2, PTL DEF Spec

\* A search runs only on a job file that says so, through its own process.
THEOREM RunsRegistered ==
  ASSUME "flicker" \notin Disturb PROVE Spec => []RunsAreRegistered
<1>1. BaseInv => RunsAreRegistered
  BY DEF BaseInv, TaskInv, ChildInv, RunsAreRegistered, Executing, Holding, Cleared, ChildOwns
<1> QED
  BY <1>1, BaseInvariant, PTL

\* The launcher's own run and the spawned process never work on one job, and
\* nobody releases the job a child holds.
THEOREM OneWorkerOnly ==
  ASSUME "flicker" \notin Disturb PROVE Spec => []OneWorker
<1>1. BaseInv => OneWorker
  BY DEF BaseInv, TaskInv, ChildInv, OneWorker, Holding, ChildOwns, HoldsSpend
<1> QED
  BY <1>1, BaseInvariant, PTL
--------------------------------------------------------------------------------
(* The ceiling on running jobs and the landing's promise, on every machine on  *)
(* which the throttle's verdict holds still within one request.               *)

AllKinds == {"launch", "pass", "embedded"}

LimitInv ==
  /\ SlotsWithinCapacity /\ GateHasRoom
  /\ LandingExcludesOldCode /\ GateHonoursLanding

\* Whatever any server counts as running covers the live slots.
LEMMA RunningCoversSlots ==
  ASSUME TypeOK, NEW s \in Servers
  PROVE  Cardinality(Slots) \in Nat /\ Cardinality(Slots) <= Cardinality(Running(s))
<1>1. Slots \subseteq Running(s) /\ Running(s) \subseteq Jobs
  BY DEF Slots, SlotLive, Running, Orphaned
<1>2. IsFiniteSet(Running(s))
  BY <1>1, JobSetsFinite
<1> QED
  BY <1>1, <1>2, FS_Subset, JobSetsFinite

\* One more job in a slot is one more in the count, at most.
LEMMA OneMoreSlot ==
  ASSUME NEW S \in SUBSET Jobs, NEW T \in SUBSET Jobs, NEW j \in Jobs,
         T \subseteq S \cup {j}
  PROVE  /\ Cardinality(S) \in Nat /\ Cardinality(T) \in Nat /\ Cardinality(S \ {j}) \in Nat
         /\ Cardinality(T) <= Cardinality(S \ {j}) + 1
         /\ Cardinality(S \ {j}) <= Cardinality(S)
         /\ j \in S => Cardinality(S \ {j}) = Cardinality(S) - 1
<1>1. /\ IsFiniteSet(S) /\ IsFiniteSet(T) /\ IsFiniteSet(S \ {j})
      /\ Cardinality(S) \in Nat /\ Cardinality(T) \in Nat /\ Cardinality(S \ {j}) \in Nat
  BY JobSetsFinite
<1>2. T \subseteq (S \ {j}) \cup {j}
  OBVIOUS
<1>3. Cardinality((S \ {j}) \cup {j}) = Cardinality(S \ {j}) + 1 /\ IsFiniteSet((S \ {j}) \cup {j})
  BY <1>1, FS_AddElement
<1>4. Cardinality(T) <= Cardinality(S \ {j}) + 1
  BY <1>2, <1>3, FS_Subset
<1>5. Cardinality(S \ {j}) = IF j \in S THEN Cardinality(S) - 1 ELSE Cardinality(S)
  BY <1>1, FS_RemoveElement
<1> QED
  BY <1>1, <1>4, <1>5

LEMMA FewerSlots ==
  ASSUME NEW S \in SUBSET Jobs, NEW T \in SUBSET S
  PROVE  Cardinality(S) \in Nat /\ Cardinality(T) \in Nat /\ Cardinality(T) <= Cardinality(S)
BY JobSetsFinite, FS_Subset

\* A step that brings no job to life, and takes the gate for no such write.
Quiet ==
  /\ gate' = gate \/ gate'.op \in {"free", "withdraw"}
  /\ UNCHANGED <<made, owner, landing, late>>
  /\ \A k \in Jobs : /\ ProducerAlive(k)' => ProducerAlive(k)
                     /\ SpendLive(k)' => SpendLive(k)
                     /\ FlightLive(k)' => FlightLive(k)
                     /\ job'[k].kind = job[k].kind

LEMMA QuietKeeps ==
  ASSUME TypeOK, BaseInv, LimitInv, Quiet PROVE LimitInv'
<1>1. \A k \in Jobs : SlotLive(k)' => SlotLive(k)
  BY DEF Quiet, SlotLive, SpendLive, HoldsSlot
<1>2. Slots' \subseteq Slots /\ Slots \subseteq Jobs
  BY <1>1 DEF Slots, Quiet
<1>3. \A kinds : Writable(kinds)' => Writable(kinds) /\ gate' = gate
  <2>1. gate'.op \in {"claim", "admit", "adopt", "reserve"} => gate' = gate
    BY DEF Quiet
  <2>2. gate.op # "free" => gate.j \in Jobs
    BY DEF BaseInv, GateInv
  <2> QED
    BY <2>1, <2>2 DEF Writable, Quiet
<1>4. SlotsWithinCapacity'
  BY <1>2, FewerSlots, RegistryAssumption DEF LimitInv, SlotsWithinCapacity
<1>5. GateHasRoom'
  <2> SUFFICES ASSUME Writable({"launch", "pass"})' PROVE Cardinality(Slots' \ {gate'.j}) < Capacity
    BY DEF GateHasRoom
  <2>1. Cardinality(Slots \ {gate.j}) < Capacity /\ gate' = gate
    BY <1>3 DEF LimitInv, GateHasRoom
  <2>2. Slots' \ {gate.j} \subseteq Slots \ {gate.j} /\ Slots \ {gate.j} \subseteq Jobs
    BY <1>2
  <2> QED
    BY <2>1, <2>2, FewerSlots, RegistryAssumption
<1>6. LandingExcludesOldCode'
  BY DEF LimitInv, LandingExcludesOldCode, Quiet
<1>7. GateHonoursLanding'
  BY <1>3 DEF LimitInv, GateHonoursLanding, Quiet
<1> QED
  BY <1>4, <1>5, <1>6, <1>7 DEF LimitInv

\* A gate taken to write back a job that holds its slot already.
LEMMA ReadKeeps ==
  ASSUME TypeOK, LimitInv, NEW j \in Jobs,
         gate'.j = j, gate'.rec = job[j], late \subseteq late',
         UNCHANGED <<job, made, landing, up>>,
         \A k \in Jobs : ProducerAlive(k)' => ProducerAlive(k),
         Writable(AllKinds)' => SpendLive(j)
  PROVE  LimitInv'
<1>1. \A k \in Jobs : SlotLive(k)' => SlotLive(k)
  BY DEF SlotLive
<1>2. Slots' \subseteq Slots /\ Slots \subseteq Jobs
  BY <1>1 DEF Slots
<1>3. SlotsWithinCapacity'
  BY <1>2, FewerSlots, RegistryAssumption DEF LimitInv, SlotsWithinCapacity
<1>4. GateHasRoom'
  <2> SUFFICES ASSUME Writable({"launch", "pass"})' PROVE Cardinality(Slots' \ {j}) < Capacity
    BY DEF GateHasRoom
  <2>1. j \in Slots
    BY DEF Writable, AllKinds, Slots, SlotLive, SpendLive, HoldsSlot
  <2>2. Cardinality(Slots \ {j}) = Cardinality(Slots) - 1 /\ Cardinality(Slots) \in Nat
    BY <1>2, <2>1, OneMoreSlot
  <2>3. Slots' \ {j} \subseteq Slots \ {j} /\ Slots \ {j} \subseteq Jobs
    BY <1>2
  <2> QED
    BY <2>2, <2>3, FewerSlots, RegistryAssumption DEF LimitInv, SlotsWithinCapacity
<1>5. LandingExcludesOldCode'
  BY DEF LimitInv, LandingExcludesOldCode, SpendLive
<1>6. GateHonoursLanding'
  BY DEF LimitInv, LandingExcludesOldCode, GateHonoursLanding, AllKinds, Writable
<1> QED
  BY <1>3, <1>4, <1>5, <1>6 DEF LimitInv

\* The write that gives the gate back, of a job its copy may put in a slot.
LEMMA WriteKeeps ==
  ASSUME TypeOK, LimitInv, NEW j \in Jobs, gate.j = j, gate'.op = "free",
         UNCHANGED <<made, landing, late>>,
         \A k \in Jobs \ {j} : SpendLive(k)' => SpendLive(k),
         \A k \in Jobs \ {j} : job'[k].kind = job[k].kind,
         job'[j].kind = gate.rec.kind, gate.rec \in JobRecord,
         SpendLive(j)' /\ j \notin late => Writable(AllKinds)
  PROVE  LimitInv'
<1>1. Slots' \subseteq Slots \cup {j} /\ Slots \subseteq Jobs /\ Slots' \subseteq Jobs
  BY DEF Slots, SlotLive, SpendLive, HoldsSlot
<1>2. SlotsWithinCapacity'
  <2>1. CASE j \in Slots'
    <3>1. Writable(AllKinds) /\ gate.rec.kind # "embedded"
      BY <2>1 DEF Slots, SlotLive, SpendLive, HoldsSlot
    <3>2. Writable({"launch", "pass"})
      BY <3>1 DEF Writable, AllKinds
    <3> QED
      BY <1>1, <3>2, OneMoreSlot, RegistryAssumption DEF LimitInv, GateHasRoom, SlotsWithinCapacity
  <2>2. CASE j \notin Slots'
    BY <1>1, <2>2, FewerSlots, RegistryAssumption DEF LimitInv, SlotsWithinCapacity
  <2> QED
    BY <2>1, <2>2
<1>3. LandingExcludesOldCode'
  BY DEF LimitInv, LandingExcludesOldCode, GateHonoursLanding, AllKinds
<1>4. GateHasRoom' /\ GateHonoursLanding'
  BY DEF GateHasRoom, GateHonoursLanding, Writable
<1> QED
  BY <1>2, <1>3, <1>4 DEF LimitInv

\* The gate's readers.
LEMMA AdmitReadLimit ==
  ASSUME TypeOK, BaseInv, LimitInv, NEW j \in Jobs, AdmitRead(j)
  PROVE  LimitInv'
<1>1. SpendLive(j)
  BY DEF AdmitRead, BaseInv, TaskInv, Holding, SpendLive, ProducerAlive
<1> QED
  BY <1>1, ReadKeeps DEF AdmitRead, TakeGate, ProducerAlive

LEMMA ReserveReadLimit ==
  ASSUME TypeOK, BaseInv, LimitInv, NEW s \in Servers, NEW j \in Jobs, ReserveRead(s, j)
  PROVE  LimitInv'
<1>1. /\ gate'.j = j /\ gate'.rec = job[j] /\ gate'.op = "reserve" /\ HoldsSpend(job[j])
      /\ UNCHANGED <<job, made, landing, up, child, late>>
  BY DEF ReserveRead, TakeGate
<1>2. \A k \in Jobs : ProducerAlive(k)' <=> ProducerAlive(k)
  BY <1>1 DEF ProducerAlive
<1>3. Writable(AllKinds)' => SpendLive(j)
  BY <1>1, <1>2 DEF Writable, SpendLive
<1> QED
  BY <1>1, <1>2, <1>3, ReadKeeps

LEMMA AdoptReadLimit ==
  ASSUME TypeOK, BaseInv, LimitInv, NEW j \in Jobs, AdoptRead(j)
  PROVE  LimitInv'
<1>1. CASE Released(job[j])
  <2>1. Quiet
    BY <1>1 DEF Quiet, AdoptRead, SpendLive, FlightLive, ProducerAlive, Exited, TypeOK
  <2> QED
    BY <2>1, QuietKeeps
<1>2. CASE ~Released(job[j])
  <2>1. /\ gate'.j = j /\ gate'.rec = job[j]
        /\ late' = IF made[j] \in up THEN late ELSE late \cup {j}
        /\ UNCHANGED <<job, made, landing, up, child>>
    BY <1>2 DEF AdoptRead, TakeGate
  <2>2. HoldsSpend(job[j]) /\ job[j].producer = made[j]
    BY <1>2 DEF AdoptRead, BaseInv, ChildInv
  <2>3. Writable(AllKinds)' => SpendLive(j)
    BY <2>1, <2>2 DEF Writable, SpendLive, ProducerAlive
  <2> QED
    BY <2>1, <2>3, ReadKeeps DEF ProducerAlive
<1> QED
  BY <1>1, <1>2

\* A claim reads a slot that is free, and asks the landing.
LEMMA ClaimReadLimit ==
  ASSUME TypeOK, BaseInv, LimitInv, NEW j \in Jobs, ClaimRead(j)
  PROVE  LimitInv'
<1>1. /\ gate'.j = j /\ ~ClosedTo(made[j])
      /\ UNCHANGED <<job, made, landing, up, child, late>>
  BY DEF ClaimRead, TakeGate
<1>2. made[j] \in Servers
  BY DEF ClaimRead, BaseInv, TaskInv, TypeOK
<1>3. Cardinality(Running(made[j])) < Capacity
  BY JobSetsFinite, HasSlotBound DEF ClaimRead, Running
<1>4. Slots' = Slots /\ \A k \in Jobs : SpendLive(k)' <=> SpendLive(k)
  BY <1>1 DEF Slots, SlotLive, SpendLive, ProducerAlive
<1>5. Cardinality(Slots \ {j}) < Capacity
  <2>1. Cardinality(Slots) < Capacity /\ Cardinality(Slots) \in Nat
    BY <1>2, <1>3, RunningCoversSlots, JobSetsFinite, RegistryAssumption DEF Running
  <2>2. Slots \ {j} \subseteq Slots /\ Slots \subseteq Jobs
    BY DEF Slots
  <2> QED
    BY <2>1, <2>2, FewerSlots, RegistryAssumption
<1>6. SlotsWithinCapacity' /\ GateHasRoom'
  BY <1>1, <1>4, <1>5 DEF LimitInv, SlotsWithinCapacity, GateHasRoom
<1>7. LandingExcludesOldCode'
  BY <1>1, <1>4 DEF LimitInv, LandingExcludesOldCode
<1>8. GateHonoursLanding'
  BY <1>1, <1>2, RegistryAssumption DEF GateHonoursLanding, ClosedTo
<1> QED
  BY <1>6, <1>7, <1>8 DEF LimitInv

\* The gate's writers.
LEMMA ClaimWriteLimit ==
  ASSUME TypeOK, BaseInv, LimitInv, NEW j \in Jobs, ClaimWrite(j)
  PROVE  LimitInv'
BY WriteKeeps, RegistryAssumption
   DEF ClaimWrite, GateHeldFor, Free, WithStage, SpendLive, HoldsSpend, Released, ProducerAlive,
       Writable, AllKinds, TypeOK, JobRecord

LEMMA AdmitWriteLimit ==
  ASSUME TypeOK, BaseInv, LimitInv, NEW j \in Jobs, AdmitWrite(j)
  PROVE  LimitInv'
BY WriteKeeps, RegistryAssumption
   DEF AdmitWrite, GateHeldFor, Free, WithAdmission, SpendLive, HoldsSpend, Released, ProducerAlive,
       Writable, AllKinds, TypeOK, JobRecord

LEMMA AdoptWriteLimit ==
  ASSUME TypeOK, BaseInv, LimitInv, NEW j \in Jobs, AdoptWrite(j)
  PROVE  LimitInv'
BY WriteKeeps, RegistryAssumption
   DEF AdoptWrite, GateHeldFor, Free, WithProducer, SpendLive, HoldsSpend, Released, ProducerAlive,
       Writable, AllKinds, TypeOK, JobRecord

LEMMA ReserveWriteLimit ==
  ASSUME TypeOK, BaseInv, LimitInv, NEW j \in Jobs, ReserveWrite(j)
  PROVE  LimitInv'
BY WriteKeeps, RegistryAssumption
   DEF ReserveWrite, GateHeldFor, Free, SpendLive, HoldsSpend, Released, ProducerAlive,
       Writable, AllKinds, TypeOK, JobRecord, BaseInv, GateInv

LEMMA LandLimit ==
  ASSUME TypeOK, BaseInv, LimitInv, Land
  PROVE  LimitInv'
<1>1. GateFree /\ UNCHANGED <<job, made, child, gate, up, late>>
  BY DEF Land
<1>2. Slots' = Slots /\ SlotsWithinCapacity'
  BY <1>1 DEF LimitInv, SlotsWithinCapacity, Slots, SlotLive, ProducerAlive
<1>3. LandingExcludesOldCode'
  BY <1>1 DEF Land, LandingExcludesOldCode, SpendLive, ProducerAlive
<1> QED
  BY <1>1, <1>2, <1>3 DEF LimitInv, GateFree, GateHasRoom, GateHonoursLanding, Writable

\* The asks.
LEMMA RequestLimit ==
  ASSUME TypeOK, BaseInv, LimitInv, NEW s \in Servers, NEW u \in Users, NEW j \in Jobs,
         NEW kind \in {"launch", "pass", "embedded"}, Request(s, u, j, kind)
  PROVE  LimitInv'
<1>1. PICK stage \in {"starting", "queued"}, t \in {"admit", "wait", "busy"} :
        RequestLeaves(s, j, kind, stage, t)
  BY RequestEffect
<1>2. /\ made' = [made EXCEPT ![j] = s] /\ ~ClosedTo(s) /\ GateFree
      /\ UNCHANGED <<child, gate, up, landing, late>>
  BY DEF Request
<1>3. job'[j] = NewJob(s, kind, stage, FALSE) /\ made'[j] = s
      /\ \A k \in Jobs \ {j} : job'[k] = job[k] /\ made'[k] = made[k]
  BY <1>1, <1>2 DEF RequestLeaves, TypeOK
<1>4. \A k \in Jobs \ {j} : SpendLive(k)' => SpendLive(k)
  BY <1>2, <1>3 DEF SpendLive, ProducerAlive
<1>5. Slots' \subseteq Slots \cup {j} /\ Slots \subseteq Jobs /\ Slots' \subseteq Jobs
  BY <1>2, <1>3, <1>4 DEF Slots, SlotLive, SpendLive, HoldsSlot
<1>6. SlotsWithinCapacity'
  <2>1. CASE j \in Slots'
    <3>1. stage = "starting" /\ kind # "embedded"
      BY <1>3, <2>1 DEF Slots, SlotLive, HoldsSlot, HoldsSpend, NewJob
    <3>2. Cardinality(Slots) < Capacity
      BY <1>1, <3>1, RunningCoversSlots, JobSetsFinite, RegistryAssumption DEF RequestLeaves, Running
    <3>3. /\ Cardinality(Slots') <= Cardinality(Slots \ {j}) + 1
          /\ Cardinality(Slots \ {j}) <= Cardinality(Slots)
          /\ Cardinality(Slots') \in Nat /\ Cardinality(Slots \ {j}) \in Nat
          /\ Cardinality(Slots) \in Nat
      BY <1>5, OneMoreSlot
    <3> QED
      BY <3>2, <3>3, RegistryAssumption DEF SlotsWithinCapacity
  <2>2. CASE j \notin Slots'
    BY <1>5, <2>2, FewerSlots, RegistryAssumption DEF LimitInv, SlotsWithinCapacity
  <2> QED
    BY <2>1, <2>2
<1>7. LandingExcludesOldCode'
  BY <1>2, <1>3, <1>4, RegistryAssumption DEF LimitInv, LandingExcludesOldCode, ClosedTo
<1> QED
  BY <1>2, <1>6, <1>7 DEF LimitInv, GateFree, GateHasRoom, GateHonoursLanding, Writable

LEMMA RequestArmsLimit ==
  ASSUME TypeOK, BaseInv, LimitInv, "flicker" \notin Disturb,
         NEW s \in Servers, NEW u \in Users, NEW j \in Jobs, RequestArms(s, u, j)
  PROVE  LimitInv'
<1>1. PICK first, second \in {"starting", "queued"} : ArmsLeave(s, j, first, second)
  BY ArmsEffect
<1>2. /\ made' = [made EXCEPT ![j] = s, ![j + 1] = s] /\ ~ClosedTo(s) /\ GateFree
      /\ j + 1 \in Jobs
      /\ UNCHANGED <<child, gate, up, landing, late>>
  BY DEF RequestArms
<1>3. /\ made'[j] = s /\ made'[j + 1] = s
      /\ \A k \in Jobs \ {j, j + 1} : job'[k] = job[k] /\ made'[k] = made[k]
  <2>1. \A k \in Jobs \ {j, j + 1} : job'[k] = job[k]
    BY <1>1, <1>2 DEF ArmsLeave, TypeOK
  <2> QED
    BY <1>2, <2>1 DEF TypeOK
<1>4. \A k \in Jobs \ {j, j + 1} : SpendLive(k)' => SpendLive(k)
  BY <1>2, <1>3 DEF SpendLive, ProducerAlive
<1>5. Slots' \subseteq Slots \cup {j, j + 1} /\ Slots \subseteq Jobs /\ Slots' \subseteq Jobs
  BY <1>2, <1>3, <1>4 DEF Slots, SlotLive, SpendLive, HoldsSlot
<1>6. SlotsWithinCapacity'
  <2>1. CASE ArmsLeave(s, j, first, second)!2
    <3> DEFINE S == (Slots \cup {j}) \cap Jobs
    <3>1. Cardinality(Slots) + 1 < Capacity /\ Cardinality(Slots) \in Nat
      BY <2>1, RunningCoversSlots, JobSetsFinite, RegistryAssumption DEF Running
    <3>2. Cardinality(S) < Capacity /\ Cardinality(S) \in Nat
      <4>1. S \subseteq Slots \cup {j} /\ S \subseteq Jobs
        OBVIOUS
      <4> HIDE DEF S
      <4>2. /\ Cardinality(S) <= Cardinality(Slots \ {j}) + 1
            /\ Cardinality(Slots \ {j}) <= Cardinality(Slots)
            /\ Cardinality(S) \in Nat /\ Cardinality(Slots \ {j}) \in Nat
        BY <1>5, <4>1, OneMoreSlot
      <4> QED
        BY <3>1, <4>2, RegistryAssumption
    <3>3. Slots' \subseteq S \cup {j + 1} /\ S \subseteq Jobs
      BY <1>5
    <3> HIDE DEF S
    <3>4. Cardinality(Slots') <= Cardinality(S \ {j + 1}) + 1 /\ Cardinality(S \ {j + 1}) <= Cardinality(S)
          /\ Cardinality(S \ {j + 1}) \in Nat /\ Cardinality(Slots') \in Nat
      BY <1>2, <1>5, <3>3, OneMoreSlot
    <3> QED
      BY <3>2, <3>4, RegistryAssumption DEF SlotsWithinCapacity
  <2>2. CASE ArmsLeave(s, j, first, second)!3
    <3>1. Released(job'[j]) /\ Released(job'[j + 1])
      <4> DEFINE r2 == Arm(s, second, FALSE, "refused")
      <4>1. PICK r \in {Arm(s, "starting", FALSE, "refused"), Arm(s, "starting", TRUE, "stopped")} :
              job' = [job EXCEPT ![j] = r, ![j + 1] = r2]
        BY <2>2
      <4>2. Released(r)
        <5>1. CASE r = Arm(s, "starting", FALSE, "refused")
          BY <5>1 DEF Arm, WithEnding, Released
        <5>2. CASE r = Arm(s, "starting", TRUE, "stopped")
          BY <5>2 DEF Arm, WithEnding, Released
        <5> QED
          BY <5>1, <5>2
      <4>3. Released(r2)
        BY DEF Arm, WithEnding, Released
      <4>4. j # j + 1
        BY DEF Jobs
      <4> HIDE DEF r2
      <4>5. job'[j + 1] = r2 /\ job'[j] = r
        BY <1>2, <4>1, <4>4 DEF TypeOK
      <4> QED
        BY <4>2, <4>3, <4>5
    <3>2. Slots' \subseteq Slots
      BY <1>5, <3>1 DEF Slots, SlotLive, HoldsSlot, HoldsSpend
    <3> QED
      BY <1>5, <3>2, FewerSlots, RegistryAssumption DEF LimitInv, SlotsWithinCapacity
  <2> QED
    BY <1>1, <2>1, <2>2 DEF ArmsLeave
<1>7. LandingExcludesOldCode'
  BY <1>2, <1>3, <1>4, RegistryAssumption DEF LimitInv, LandingExcludesOldCode, ClosedTo
<1> QED
  BY <1>2, <1>6, <1>7 DEF LimitInv, GateFree, GateHasRoom, GateHonoursLanding, Writable

\* The steps that may bring a job to life, or take or use the gate for it.
Loud ==
  \/ \E s \in Servers, j \in Jobs :
       \/ \E u \in Users, kind \in {"launch", "pass", "embedded"} : Request(s, u, j, kind)
       \/ \E u \in Users : RequestArms(s, u, j)
       \/ ReserveRead(s, j)
  \/ \E j \in Jobs :
       \/ ClaimRead(j) \/ ClaimWrite(j) \/ ReserveWrite(j)
       \/ AdmitRead(j) \/ AdmitWrite(j) \/ AdoptRead(j) \/ AdoptWrite(j)
  \/ Land

\* Every other step is quiet: no withdrawal, release, start, end, sweep or death
\* brings a job to life, whatever copy it writes back.
LEMMA OtherStepsQuiet == TypeOK /\ BaseInv /\ [Next]_vars => Loud \/ Quiet
<1> SUFFICES ASSUME TypeOK, BaseInv, [Next]_vars, ~Loud PROVE Quiet
  OBVIOUS
<1> USE RegistryAssumption
<1>1. ASSUME NEW s \in Servers, NEW j \in Jobs, WithdrawRead(s, j) PROVE Quiet
  BY <1>1
     DEF Quiet, WithdrawRead, TakeGate, SpendLive, FlightLive, ProducerAlive, HoldsSlot, HoldsSpend, Released, GateHeldFor, Free, WithEnding, WithStage, Ended, Ending, Exited, Giving, 
         BaseInv, TaskInv, ChildInv, CopyInv, GateInv, InTask, Cleared, Holding, ChildOwns, Taken, Queued, NoJob, NoCopy, TypeOK, JobRecord
<1>2. ASSUME NEW s \in Servers, NEW j \in Jobs, Reap(s, j) PROVE Quiet
  BY <1>2
     DEF Quiet, Reap, SpendLive, FlightLive, ProducerAlive, HoldsSlot, HoldsSpend, Released, GateHeldFor, Free, WithEnding, WithStage, Ended, Ending, Exited, Giving, 
         BaseInv, TaskInv, ChildInv, CopyInv, GateInv, InTask, Cleared, Holding, ChildOwns, Taken, Queued, NoJob, NoCopy, TypeOK, JobRecord
<1>3. ASSUME NEW s \in Servers, ServerDies(s) PROVE Quiet
  BY <1>3
     DEF Quiet, ServerDies, SpendLive, FlightLive, ProducerAlive, HoldsSlot, HoldsSpend, Released, GateHeldFor, Free, WithEnding, WithStage, Ended, Ending, Exited, Giving, 
         BaseInv, TaskInv, ChildInv, CopyInv, GateInv, InTask, Cleared, Holding, ChildOwns, Taken, Queued, NoJob, NoCopy, TypeOK, JobRecord
<1>4. ASSUME NEW j \in Jobs, GiveUpWaiting(j) PROVE Quiet
  BY <1>4
     DEF Quiet, GiveUpWaiting, SpendLive, FlightLive, ProducerAlive, HoldsSlot, HoldsSpend, Released, GateHeldFor, Free, WithEnding, WithStage, Ended, Ending, Exited, Giving, 
         BaseInv, TaskInv, ChildInv, CopyInv, GateInv, InTask, Cleared, Holding, ChildOwns, Taken, Queued, NoJob, NoCopy, TypeOK, JobRecord
<1>5. ASSUME NEW j \in Jobs, WithdrawWrite(j) PROVE Quiet
  BY <1>5
     DEF Quiet, WithdrawWrite, SpendLive, FlightLive, ProducerAlive, HoldsSlot, HoldsSpend, Released, GateHeldFor, Free, WithEnding, WithStage, Ended, Ending, Exited, Giving, 
         BaseInv, TaskInv, ChildInv, CopyInv, GateInv, InTask, Cleared, Holding, ChildOwns, Taken, Queued, NoJob, NoCopy, TypeOK, JobRecord
<1>6. ASSUME NEW j \in Jobs, BusyRefused(j) PROVE Quiet
  BY <1>6
     DEF Quiet, BusyRefused, SpendLive, FlightLive, ProducerAlive, HoldsSlot, HoldsSpend, Released, GateHeldFor, Free, WithEnding, WithStage, Ended, Ending, Exited, Giving, 
         BaseInv, TaskInv, ChildInv, CopyInv, GateInv, InTask, Cleared, Holding, ChildOwns, Taken, Queued, NoJob, NoCopy, TypeOK, JobRecord
<1>7. ASSUME NEW j \in Jobs, Fail(j) PROVE Quiet
  BY <1>7
     DEF Quiet, Fail, SpendLive, FlightLive, ProducerAlive, HoldsSlot, HoldsSpend, Released, GateHeldFor, Free, WithEnding, WithStage, Ended, Ending, Exited, Giving, 
         BaseInv, TaskInv, ChildInv, CopyInv, GateInv, InTask, Cleared, Holding, ChildOwns, Taken, Queued, NoJob, NoCopy, TypeOK, JobRecord
<1>8. ASSUME NEW j \in Jobs, Interrupt(j) PROVE Quiet
  BY <1>8
     DEF Quiet, Interrupt, SpendLive, FlightLive, ProducerAlive, HoldsSlot, HoldsSpend, Released, GateHeldFor, Free, WithEnding, WithStage, Ended, Ending, Exited, Giving, 
         BaseInv, TaskInv, ChildInv, CopyInv, GateInv, InTask, Cleared, Holding, ChildOwns, Taken, Queued, NoJob, NoCopy, TypeOK, JobRecord
<1>9. ASSUME NEW j \in Jobs, ReleaseRead(j) PROVE Quiet
  BY <1>9
     DEF Quiet, ReleaseRead, SpendLive, FlightLive, ProducerAlive, HoldsSlot, HoldsSpend, Released, GateHeldFor, Free, WithEnding, WithStage, Ended, Ending, Exited, Giving, 
         BaseInv, TaskInv, ChildInv, CopyInv, GateInv, InTask, Cleared, Holding, ChildOwns, Taken, Queued, NoJob, NoCopy, TypeOK, JobRecord
<1>10. ASSUME NEW j \in Jobs, TaskReleaseWrite(j) PROVE Quiet
  BY <1>10
     DEF Quiet, TaskReleaseWrite, SpendLive, FlightLive, ProducerAlive, HoldsSlot, HoldsSpend, Released, GateHeldFor, Free, WithEnding, WithStage, Ended, Ending, Exited, Giving, 
         BaseInv, TaskInv, ChildInv, CopyInv, GateInv, InTask, Cleared, Holding, ChildOwns, Taken, Queued, NoJob, NoCopy, TypeOK, JobRecord
<1>11. ASSUME NEW j \in Jobs, ChildReleaseWrite(j) PROVE Quiet
  BY <1>11
     DEF Quiet, ChildReleaseWrite, SpendLive, FlightLive, ProducerAlive, HoldsSlot, HoldsSpend, Released, GateHeldFor, Free, WithEnding, WithStage, Ended, Ending, Exited, Giving, 
         BaseInv, TaskInv, ChildInv, CopyInv, GateInv, InTask, Cleared, Holding, ChildOwns, Taken, Queued, NoJob, NoCopy, TypeOK, JobRecord
<1>12. ASSUME NEW j \in Jobs, StartRead(j) PROVE Quiet
  BY <1>12
     DEF Quiet, StartRead, SpendLive, FlightLive, ProducerAlive, HoldsSlot, HoldsSpend, Released, GateHeldFor, Free, WithEnding, WithStage, Ended, Ending, Exited, Giving, 
         BaseInv, TaskInv, ChildInv, CopyInv, GateInv, InTask, Cleared, Holding, ChildOwns, Taken, Queued, NoJob, NoCopy, TypeOK, JobRecord
<1>13. ASSUME NEW j \in Jobs, StartWrite(j) PROVE Quiet
  BY <1>13
     DEF Quiet, StartWrite, SpendLive, FlightLive, ProducerAlive, HoldsSlot, HoldsSpend, Released, GateHeldFor, Free, WithEnding, WithStage, Ended, Ending, Exited, Giving, 
         BaseInv, TaskInv, ChildInv, CopyInv, GateInv, InTask, Cleared, Holding, ChildOwns, Taken, Queued, NoJob, NoCopy, TypeOK, JobRecord
<1>14. ASSUME NEW j \in Jobs, RunEnds(j) PROVE Quiet
  BY <1>14
     DEF Quiet, RunEnds, SpendLive, FlightLive, ProducerAlive, HoldsSlot, HoldsSpend, Released, GateHeldFor, Free, WithEnding, WithStage, Ended, Ending, Exited, Giving, 
         BaseInv, TaskInv, ChildInv, CopyInv, GateInv, InTask, Cleared, Holding, ChildOwns, Taken, Queued, NoJob, NoCopy, TypeOK, JobRecord
<1>15. ASSUME NEW j \in Jobs, ChildFails(j) PROVE Quiet
  BY <1>15
     DEF Quiet, ChildFails, SpendLive, FlightLive, ProducerAlive, HoldsSlot, HoldsSpend, Released, GateHeldFor, Free, WithEnding, WithStage, Ended, Ending, Exited, Giving, 
         BaseInv, TaskInv, ChildInv, CopyInv, GateInv, InTask, Cleared, Holding, ChildOwns, Taken, Queued, NoJob, NoCopy, TypeOK, JobRecord
<1>16. ASSUME NEW j \in Jobs, Spawn(j) PROVE Quiet
  BY <1>16
     DEF Quiet, Spawn, SpendLive, FlightLive, ProducerAlive, HoldsSlot, HoldsSpend, Released, GateHeldFor, Free, WithEnding, WithStage, Ended, Ending, Exited, Giving, 
         BaseInv, TaskInv, ChildInv, CopyInv, GateInv, InTask, Cleared, Holding, ChildOwns, Taken, Queued, NoJob, NoCopy, TypeOK, JobRecord
<1>17. ASSUME NEW j \in Jobs, Tell(j) PROVE Quiet
  BY <1>17
     DEF Quiet, Tell, SpendLive, FlightLive, ProducerAlive, HoldsSlot, HoldsSpend, Released, GateHeldFor, Free, WithEnding, WithStage, Ended, Ending, Exited, Giving, 
         BaseInv, TaskInv, ChildInv, CopyInv, GateInv, InTask, Cleared, Holding, ChildOwns, Taken, Queued, NoJob, NoCopy, TypeOK, JobRecord
<1>18. ASSUME NEW j \in Jobs, HearAdoption(j) PROVE Quiet
  BY <1>18
     DEF Quiet, HearAdoption, SpendLive, FlightLive, ProducerAlive, HoldsSlot, HoldsSpend, Released, GateHeldFor, Free, WithEnding, WithStage, Ended, Ending, Exited, Giving, 
         BaseInv, TaskInv, ChildInv, CopyInv, GateInv, InTask, Cleared, Holding, ChildOwns, Taken, Queued, NoJob, NoCopy, TypeOK, JobRecord
<1>19. ASSUME NEW j \in Jobs, WatchEnds(j) PROVE Quiet
  BY <1>19
     DEF Quiet, WatchEnds, SpendLive, FlightLive, ProducerAlive, HoldsSlot, HoldsSpend, Released, GateHeldFor, Free, WithEnding, WithStage, Ended, Ending, Exited, Giving, 
         BaseInv, TaskInv, ChildInv, CopyInv, GateInv, InTask, Cleared, Holding, ChildOwns, Taken, Queued, NoJob, NoCopy, TypeOK, JobRecord
<1>20. ASSUME NEW j \in Jobs, ChildDies(j) PROVE Quiet
  BY <1>20
     DEF Quiet, ChildDies, SpendLive, FlightLive, ProducerAlive, HoldsSlot, HoldsSpend, Released, GateHeldFor, Free, WithEnding, WithStage, Ended, Ending, Exited, Giving, 
         BaseInv, TaskInv, ChildInv, CopyInv, GateInv, InTask, Cleared, Holding, ChildOwns, Taken, Queued, NoJob, NoCopy, TypeOK, JobRecord
<1>21. CASE UNCHANGED vars
  BY <1>21 DEF Quiet, vars, SpendLive, FlightLive, ProducerAlive
<1> QED
  BY <1>1, <1>2, <1>3, <1>4, <1>5, <1>6, <1>7, <1>8, <1>9, <1>10, <1>11, <1>12,
     <1>13, <1>14, <1>15, <1>16, <1>17, <1>18, <1>19, <1>20, <1>21
     DEF Loud, Next, ServerStep, TaskStep

\* Every step keeps both limits.
LEMMA StepLimit ==
  TypeOK /\ "flicker" \notin Disturb /\ BaseInv /\ LimitInv /\ [Next]_vars => LimitInv'
<1> SUFFICES ASSUME TypeOK, "flicker" \notin Disturb, BaseInv, LimitInv, [Next]_vars PROVE LimitInv'
  OBVIOUS
<1>1. CASE Quiet
  BY <1>1, QuietKeeps
<1>2. CASE Loud
  BY <1>2, RequestLimit, RequestArmsLimit, ReserveReadLimit, ClaimReadLimit, ClaimWriteLimit,
     ReserveWriteLimit, AdmitReadLimit, AdmitWriteLimit, AdoptReadLimit, AdoptWriteLimit, LandLimit
     DEF Loud
<1> QED
  BY <1>1, <1>2, OtherStepsQuiet

LEMMA InitLimit == Init => LimitInv
<1> SUFFICES ASSUME Init PROVE LimitInv
  OBVIOUS
<1>1. Slots = {}
  BY DEF Init, Slots, SlotLive, HoldsSlot, HoldsSpend, NoJob
<1> QED
  BY <1>1, FS_EmptySet, RegistryAssumption
     DEF Init, Free, LimitInv, SlotsWithinCapacity, GateHasRoom, LandingExcludesOldCode,
         GateHonoursLanding, Writable

--------------------------------------------------------------------------------

THEOREM LimitInvariant ==
  ASSUME "flicker" \notin Disturb PROVE Spec => [](TypeOK /\ BaseInv /\ LimitInv)
<1>1. Init => LimitInv
  BY InitLimit
<1>2. TypeOK /\ BaseInv /\ LimitInv /\ [Next]_vars => LimitInv'
  BY StepLimit
<1>3. Spec => [](TypeOK /\ BaseInv)
  BY BaseInvariant
<1> QED
  BY <1>1, <1>2, <1>3, PTL DEF Spec

\* The jobs that hold a slot through a live producer never outnumber the
\* ceiling, but for one adopted after its spawner died.
THEOREM CapacityHolds ==
  ASSUME "flicker" \notin Disturb PROVE Spec => []SlotsWithinCapacity
<1>1. LimitInv => SlotsWithinCapacity
  BY DEF LimitInv
<1> QED
  BY <1>1, LimitInvariant, PTL

\* Once the admission closed for a landing no live job is on older code.
THEOREM LandingHolds ==
  ASSUME "flicker" \notin Disturb PROVE Spec => []LandingExcludesOldCode
<1>1. LimitInv => LandingExcludesOldCode
  BY DEF LimitInv
<1> QED
  BY <1>1, LimitInvariant, PTL

--------------------------------------------------------------------------------
(* The account's limit, by the same argument: only an ask brings a launch    *)
(* into flight, and a copy under the gate keeps the place its job had.        *)

Owners == Users \cup {Nobody}

\* An account within its limit stays so even when the gate's copy is written back.
PlaceInv ==
  /\ \A u \in Owners : Cardinality(Flights(u)) <= UserLimit
  /\ GateKeepsPlace

\* What an account has in flight is among what any of its servers counts.
LEMMA FlightsCounted ==
  ASSUME TypeOK, NEW s \in Servers, NEW u \in Users
  PROVE  /\ Cardinality(Flights(u)) \in Nat /\ Cardinality(InFlight(s, u)) \in Nat
         /\ Cardinality(Flights(u)) <= Cardinality(InFlight(s, u))
<1>1. Flights(u) \subseteq InFlight(s, u) /\ InFlight(s, u) \subseteq Jobs
  BY DEF Flights, FlightLive, InFlight, Running, Waiting, Orphaned
<1> QED
  BY <1>1, FewerSlots

LEMMA QuietKeepsPlaces ==
  ASSUME TypeOK, BaseInv, PlaceInv, Quiet PROVE PlaceInv'
<1>1. \A w : Flights(w)' \subseteq Flights(w) /\ Flights(w) \subseteq Jobs
  BY DEF Flights, Quiet
<1>2. Writable({"launch"})' => Writable({"launch"}) /\ gate' = gate
  <2>1. gate'.op \in {"claim", "admit", "adopt", "reserve"} => gate' = gate
    BY DEF Quiet
  <2>2. gate.op # "free" => gate.j \in Jobs
    BY DEF BaseInv, GateInv
  <2> QED
    BY <2>1, <2>2 DEF Writable, Quiet
<1>3. \A u \in Owners : Cardinality(Flights(u)') <= UserLimit
  BY <1>1, FewerSlots, RegistryAssumption DEF PlaceInv
<1>4. GateKeepsPlace'
  <2> SUFFICES ASSUME Writable({"launch"})'
               PROVE Cardinality(Flights(owner[gate.j])' \ {gate.j}') < UserLimit
    BY DEF GateKeepsPlace
  <2>1. Cardinality(Flights(owner[gate.j]) \ {gate.j}) < UserLimit /\ gate' = gate /\ owner' = owner
    BY <1>2 DEF PlaceInv, GateKeepsPlace, Quiet
  <2>2. /\ Flights(owner[gate.j])' \ {gate.j}' \subseteq Flights(owner[gate.j]) \ {gate.j}
        /\ Flights(owner[gate.j]) \ {gate.j} \subseteq Jobs
    BY <2>1 DEF Flights, Quiet
  <2> QED
    BY <2>1, <2>2, FewerSlots, RegistryAssumption
<1> QED
  BY <1>3, <1>4 DEF PlaceInv, Owners

\* A gate taken to write back a job that is in flight already.
LEMMA ReadKeepsPlaces ==
  ASSUME TypeOK, PlaceInv, NEW j \in Jobs,
         gate'.j = j, gate'.rec = job[j], late \subseteq late',
         UNCHANGED <<job, owner, up>>,
         \A k \in Jobs : ProducerAlive(k)' => ProducerAlive(k),
         Writable({"launch"})' => FlightLive(j)
  PROVE  PlaceInv'
<1>1. \A w : Flights(w)' \subseteq Flights(w) /\ Flights(w) \subseteq Jobs
  BY DEF Flights, FlightLive
<1>2. \A u \in Owners : Cardinality(Flights(u)') <= UserLimit
  BY <1>1, FewerSlots, RegistryAssumption DEF PlaceInv
<1>3. GateKeepsPlace'
  <2> SUFFICES ASSUME Writable({"launch"})'
               PROVE Cardinality(Flights(owner[gate.j])' \ {gate.j}') < UserLimit
    BY DEF GateKeepsPlace
  <2> DEFINE F == Flights(owner[j])
  <2>1. j \in F /\ F \subseteq Jobs
    BY DEF Writable, Flights
  <2>2. owner[j] \in Owners
    BY DEF TypeOK, Owners
  <2>3. Flights(owner[gate.j])' \ {gate.j}' \subseteq F \ {j}
    BY DEF Flights, FlightLive
  <2>4. Cardinality(F) <= UserLimit
    BY <2>2 DEF PlaceInv
  <2> HIDE DEF F
  <2>5. Cardinality(F \ {j}) = Cardinality(F) - 1 /\ Cardinality(F) \in Nat
    BY <2>1, OneMoreSlot
  <2>6. F \ {j} \subseteq Jobs
    BY <2>1
  <2> QED
    BY <2>3, <2>4, <2>5, <2>6, FewerSlots, RegistryAssumption
<1> QED
  BY <1>2, <1>3 DEF PlaceInv, Owners

\* The write that gives the gate back, of a job its copy may bring to life.
LEMMA WriteKeepsPlaces ==
  ASSUME TypeOK, PlaceInv, NEW j \in Jobs, gate.j = j, gate'.op = "free",
         UNCHANGED <<owner, late>>,
         \A k \in Jobs \ {j} : FlightLive(k)' => FlightLive(k),
         \A k \in Jobs \ {j} : job'[k].kind = job[k].kind,
         job'[j].kind = gate.rec.kind, gate.rec \in JobRecord,
         FlightLive(j)' /\ j \notin late => Writable(AllKinds)
  PROVE  PlaceInv'
<1>1. \A w : Flights(w)' \subseteq Flights(w) \cup {j} /\ Flights(w) \subseteq Jobs /\ Flights(w)' \subseteq Jobs
  BY DEF Flights
<1>2. ASSUME NEW u \in Owners PROVE Cardinality(Flights(u)') <= UserLimit
  <2>1. CASE j \in Flights(u)'
    <3>1. Writable({"launch"}) /\ owner[j] = u
      BY <2>1 DEF Flights, Writable
    <3>2. Cardinality(Flights(u) \ {j}) < UserLimit
      BY <3>1 DEF PlaceInv, GateKeepsPlace
    <3>3. Cardinality(Flights(u)') <= Cardinality(Flights(u) \ {j}) + 1
          /\ Cardinality(Flights(u)') \in Nat /\ Cardinality(Flights(u) \ {j}) \in Nat
      BY <1>1, OneMoreSlot
    <3> QED
      BY <3>2, <3>3, RegistryAssumption
  <2>2. CASE j \notin Flights(u)'
    <3>1. Flights(u)' \subseteq Flights(u)
      BY <1>1, <2>2
    <3> QED
      BY <1>1, <3>1, FewerSlots, RegistryAssumption DEF PlaceInv
  <2> QED
    BY <2>1, <2>2
<1>3. GateKeepsPlace'
  BY DEF GateKeepsPlace, Writable
<1> QED
  BY <1>2, <1>3 DEF PlaceInv, Owners

\* The gate's readers: what they read is in flight already.
LEMMA ReadersKeepPlaces ==
  ASSUME TypeOK, BaseInv, PlaceInv, NEW j \in Jobs,
         \/ ClaimRead(j) \/ AdmitRead(j) \/ AdoptRead(j)
         \/ \E s \in Servers : ReserveRead(s, j)
  PROVE  PlaceInv'
<1>1. CASE ClaimRead(j)
  <2>1. FlightLive(j)
    BY <1>1 DEF ClaimRead, IsHead, Waiting, FlightLive, BaseInv, TaskInv, ProducerAlive
  <2> QED
    BY <1>1, <2>1, ReadKeepsPlaces DEF ClaimRead, TakeGate, ProducerAlive, Writable
<1>2. CASE AdmitRead(j)
  <2>1. HoldsSpend(job[j]) /\ ProducerAlive(j)
    BY <1>2 DEF AdmitRead, BaseInv, TaskInv, Holding, ProducerAlive
  <2>2. Writable({"launch"})' => FlightLive(j)
    BY <1>2, <2>1 DEF AdmitRead, TakeGate, Writable, FlightLive, HoldsSlot
  <2> QED
    BY <1>2, <2>2, ReadKeepsPlaces DEF AdmitRead, TakeGate, ProducerAlive
<1>3. CASE AdoptRead(j)
  <2>1. CASE Released(job[j])
    <3>1. Quiet
      BY <1>3, <2>1 DEF Quiet, AdoptRead, SpendLive, FlightLive, ProducerAlive, Exited, TypeOK
    <3> QED
      BY <3>1, QuietKeepsPlaces
  <2>2. CASE ~Released(job[j])
    <3>1. /\ gate'.j = j /\ gate'.rec = job[j]
          /\ late' = IF made[j] \in up THEN late ELSE late \cup {j}
          /\ UNCHANGED <<job, owner, up, child>>
      BY <1>3, <2>2 DEF AdoptRead, TakeGate
    <3>2. HoldsSpend(job[j]) /\ job[j].producer = made[j]
      BY <1>3, <2>2 DEF AdoptRead, BaseInv, ChildInv
    <3>3. Writable({"launch"})' => FlightLive(j)
      BY <3>1, <3>2 DEF Writable, FlightLive, HoldsSlot, ProducerAlive
    <3> QED
      BY <3>1, <3>3, ReadKeepsPlaces DEF ProducerAlive
  <2> QED
    BY <2>1, <2>2
<1>4. CASE \E s \in Servers : ReserveRead(s, j)
  <2>1. /\ gate'.j = j /\ gate'.rec = job[j] /\ gate'.op = "reserve" /\ HoldsSpend(job[j])
        /\ UNCHANGED <<job, owner, up, child, late>>
    BY <1>4 DEF ReserveRead, TakeGate
  <2>2. \A k \in Jobs : ProducerAlive(k)' <=> ProducerAlive(k)
    BY <2>1 DEF ProducerAlive
  <2>3. Writable({"launch"})' => FlightLive(j)
    BY <2>1, <2>2 DEF Writable, FlightLive, HoldsSlot
  <2> QED
    BY <2>1, <2>2, <2>3, ReadKeepsPlaces
<1> QED
  BY <1>1, <1>2, <1>3, <1>4

\* Its writers: what they write back was counted when it was read.
LEMMA WritersKeepPlaces ==
  ASSUME TypeOK, BaseInv, PlaceInv, NEW j \in Jobs,
         ClaimWrite(j) \/ AdmitWrite(j) \/ AdoptWrite(j) \/ ReserveWrite(j)
  PROVE  PlaceInv'
<1>1. CASE ClaimWrite(j)
  BY <1>1, WriteKeepsPlaces, RegistryAssumption
     DEF ClaimWrite, GateHeldFor, Free, WithStage, FlightLive, Queued, HoldsSlot, HoldsSpend,
         Released, ProducerAlive, Writable, AllKinds, TypeOK, JobRecord
<1>2. CASE AdmitWrite(j)
  BY <1>2, WriteKeepsPlaces, RegistryAssumption
     DEF AdmitWrite, GateHeldFor, Free, WithAdmission, FlightLive, Queued, HoldsSlot, HoldsSpend,
         Released, ProducerAlive, Writable, AllKinds, TypeOK, JobRecord
<1>3. CASE AdoptWrite(j)
  BY <1>3, WriteKeepsPlaces, RegistryAssumption
     DEF AdoptWrite, GateHeldFor, Free, WithProducer, FlightLive, Queued, HoldsSlot, HoldsSpend,
         Released, ProducerAlive, Writable, AllKinds, TypeOK, JobRecord
<1>4. CASE ReserveWrite(j)
  BY <1>4, WriteKeepsPlaces, RegistryAssumption
     DEF ReserveWrite, GateHeldFor, Free, FlightLive, Queued, HoldsSlot, HoldsSpend,
         Released, ProducerAlive, Writable, AllKinds, TypeOK, JobRecord, BaseInv, GateInv
<1> QED
  BY <1>1, <1>2, <1>3, <1>4

LEMMA RequestKeepsPlaces ==
  ASSUME TypeOK, BaseInv, PlaceInv, NEW s \in Servers, NEW u \in Users, NEW j \in Jobs,
         NEW kind \in {"launch", "pass", "embedded"}, Request(s, u, j, kind)
  PROVE  PlaceInv'
<1>1. PICK stage \in {"starting", "queued"}, t \in {"admit", "wait", "busy"} :
        RequestLeaves(s, j, kind, stage, t)
  BY RequestEffect
<1>2. /\ owner' = [owner EXCEPT ![j] = u] /\ GateFree
      /\ UNCHANGED <<child, gate, up, late>>
  BY DEF Request
<1>3. job'[j] = NewJob(s, kind, stage, FALSE) /\ owner'[j] = u
      /\ \A k \in Jobs \ {j} : job'[k] = job[k] /\ owner'[k] = owner[k]
  BY <1>1, <1>2 DEF RequestLeaves, TypeOK
<1>4. \A k \in Jobs \ {j} : FlightLive(k)' => FlightLive(k)
  BY <1>2, <1>3 DEF FlightLive, ProducerAlive
<1>5. \A w : /\ Flights(w)' \subseteq Flights(w) \cup {j}
             /\ Flights(w) \subseteq Jobs /\ Flights(w)' \subseteq Jobs
             /\ kind # "launch" \/ w # u => Flights(w)' \subseteq Flights(w)
  BY <1>2, <1>3, <1>4 DEF Flights, NewJob
<1>6. ASSUME NEW w \in Owners PROVE Cardinality(Flights(w)') <= UserLimit
  <2>1. CASE kind # "launch" \/ w # u
    BY <1>5, <2>1, FewerSlots, RegistryAssumption DEF PlaceInv
  <2>2. CASE kind = "launch" /\ w = u
    <3>1. Cardinality(InFlight(s, u)) + 1 <= UserLimit
      BY <2>2 DEF Request
    <3>2. /\ Cardinality(Flights(u)) \in Nat /\ Cardinality(InFlight(s, u)) \in Nat
          /\ Cardinality(Flights(u)) <= Cardinality(InFlight(s, u))
      BY FlightsCounted
    <3>3. /\ Cardinality(Flights(u)') <= Cardinality(Flights(u) \ {j}) + 1
          /\ Cardinality(Flights(u) \ {j}) <= Cardinality(Flights(u))
          /\ Cardinality(Flights(u)') \in Nat /\ Cardinality(Flights(u) \ {j}) \in Nat
      BY <1>5, OneMoreSlot
    <3> QED
      BY <2>2, <3>1, <3>2, <3>3, RegistryAssumption
  <2> QED
    BY <2>1, <2>2
<1> QED
  BY <1>2, <1>6 DEF PlaceInv, Owners, GateFree, GateKeepsPlace, Writable

\* The two arms ask for two places at once, before either is filed.
LEMMA RequestArmsKeepsPlaces ==
  ASSUME TypeOK, BaseInv, PlaceInv, "flicker" \notin Disturb,
         NEW s \in Servers, NEW u \in Users, NEW j \in Jobs, RequestArms(s, u, j)
  PROVE  PlaceInv'
<1>1. PICK first, second \in {"starting", "queued"} : ArmsLeave(s, j, first, second)
  BY ArmsEffect
<1>2. /\ owner' = [owner EXCEPT ![j] = u, ![j + 1] = u] /\ GateFree /\ j + 1 \in Jobs
      /\ Cardinality(InFlight(s, u)) + 2 <= UserLimit
      /\ UNCHANGED <<child, gate, up, late>>
  BY DEF RequestArms
<1>3. /\ owner'[j] = u /\ owner'[j + 1] = u
      /\ \A k \in Jobs \ {j, j + 1} : job'[k] = job[k] /\ owner'[k] = owner[k]
  <2>1. \A k \in Jobs \ {j, j + 1} : job'[k] = job[k]
    BY <1>1, <1>2 DEF ArmsLeave, TypeOK
  <2> QED
    BY <1>2, <2>1 DEF TypeOK
<1>4. \A k \in Jobs \ {j, j + 1} : FlightLive(k)' => FlightLive(k)
  BY <1>2, <1>3 DEF FlightLive, ProducerAlive
<1>5. \A w : /\ Flights(w)' \subseteq (Flights(w) \cup {j}) \cup {j + 1}
             /\ Flights(w) \subseteq Jobs /\ Flights(w)' \subseteq Jobs
             /\ w # u => Flights(w)' \subseteq Flights(w)
  BY <1>2, <1>3, <1>4 DEF Flights
<1>6. ASSUME NEW w \in Owners PROVE Cardinality(Flights(w)') <= UserLimit
  <2>1. CASE w # u
    BY <1>5, <2>1, FewerSlots, RegistryAssumption DEF PlaceInv
  <2>2. CASE w = u
    <3> DEFINE S == Flights(u) \cup {j}
    <3>1. /\ Cardinality(Flights(u)) \in Nat /\ Cardinality(InFlight(s, u)) \in Nat
          /\ Cardinality(Flights(u)) <= Cardinality(InFlight(s, u))
      BY FlightsCounted
    <3>2. S \subseteq Flights(u) \cup {j} /\ S \subseteq Jobs
      BY <1>5
    <3>3. Flights(u)' \subseteq S \cup {j + 1}
      BY <1>5
    <3> HIDE DEF S
    <3>4. /\ Cardinality(S) <= Cardinality(Flights(u) \ {j}) + 1
          /\ Cardinality(Flights(u) \ {j}) <= Cardinality(Flights(u))
          /\ Cardinality(S) \in Nat /\ Cardinality(Flights(u) \ {j}) \in Nat
      BY <1>5, <3>2, OneMoreSlot
    <3>5. /\ Cardinality(Flights(u)') <= Cardinality(S \ {j + 1}) + 1
          /\ Cardinality(S \ {j + 1}) <= Cardinality(S)
          /\ Cardinality(Flights(u)') \in Nat /\ Cardinality(S \ {j + 1}) \in Nat
      BY <1>2, <1>5, <3>2, <3>3, OneMoreSlot
    <3> QED
      BY <1>2, <2>2, <3>1, <3>4, <3>5, RegistryAssumption
  <2> QED
    BY <2>1, <2>2
<1> QED
  BY <1>2, <1>6 DEF PlaceInv, Owners, GateFree, GateKeepsPlace, Writable

LEMMA StepPlaces ==
  TypeOK /\ "flicker" \notin Disturb /\ BaseInv /\ PlaceInv /\ [Next]_vars => PlaceInv'
<1> SUFFICES ASSUME TypeOK, "flicker" \notin Disturb, BaseInv, PlaceInv, [Next]_vars PROVE PlaceInv'
  OBVIOUS
<1>1. CASE Quiet
  BY <1>1, QuietKeepsPlaces
<1>2. CASE Land
  BY <1>2 DEF Land, PlaceInv, Flights, FlightLive, ProducerAlive, GateKeepsPlace, Writable
<1>3. CASE Loud /\ ~Land
  BY <1>3, RequestKeepsPlaces, RequestArmsKeepsPlaces, ReadersKeepPlaces, WritersKeepPlaces DEF Loud
<1> QED
  BY <1>1, <1>2, <1>3, OtherStepsQuiet

LEMMA InitPlaces == Init => PlaceInv
<1> SUFFICES ASSUME Init PROVE PlaceInv
  OBVIOUS
<1>1. \A u : Flights(u) = {}
  BY DEF Init, Flights, FlightLive, Queued, HoldsSlot, HoldsSpend, NoJob
<1> QED
  BY <1>1, FS_EmptySet, RegistryAssumption DEF Init, Free, PlaceInv, GateKeepsPlace, Writable

\* No account ever has more launches in flight, queued ones included, than its
\* limit, whichever servers it asked and whatever stale copies were written back.
THEOREM AccountHolds ==
  ASSUME "flicker" \notin Disturb PROVE Spec => []AccountWithinLimit
<1>1. Init => PlaceInv
  BY InitPlaces
<1>2. TypeOK /\ BaseInv /\ PlaceInv /\ [Next]_vars => PlaceInv'
  BY StepPlaces
<1>3. PlaceInv => AccountWithinLimit
  BY DEF PlaceInv, Owners, AccountWithinLimit
<1>4. Spec => [](TypeOK /\ BaseInv)
  BY BaseInvariant
<1> QED
  BY <1>1, <1>2, <1>3, <1>4, PTL DEF Spec
================================================================================
