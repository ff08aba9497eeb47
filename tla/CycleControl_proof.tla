-------------------------- MODULE CycleControl_proof --------------------------
(* What CycleControl promises for any number of launches, passes and commands. *)
EXTENDS CycleControl, TLAPS

\* A step keeps every variable in its domain.
LEMMA TypeStep ==
  ASSUME TypeOK, [Next]_vars
  PROVE  TypeOK'
<1>1. ASSUME NEW l \in Launches, AskRead(l) PROVE TypeOK'
  BY CycleAssumption, <1>1 DEF AskRead, Move, ledger, passing, history, TypeOK, Commands,
     InChild, InPass, LaunchStates, SweepStates, NoClaim
<1>2. ASSUME NEW l \in Launches, AskLook(l) PROVE TypeOK'
  BY CycleAssumption, <1>2 DEF AskLook, ClaimLive, PassOn, Move, ledger, passing, history,
     Live, InChild, TypeOK, Commands, InPass, LaunchStates, SweepStates, NoClaim
<1>3. ASSUME NEW l \in Launches, AskClaim(l) PROVE TypeOK'
  BY CycleAssumption, <1>3 DEF AskClaim, Move, Claim, passing, history, TypeOK, Commands,
     InChild, InPass, LaunchStates, SweepStates, ledger, NoClaim
<1>4. ASSUME NEW l \in Launches, GiveUp(l) PROVE TypeOK'
  BY CycleAssumption, <1>4 DEF GiveUp, Move, ledger, passing, history, TypeOK, Commands,
     InChild, InPass, LaunchStates, SweepStates, NoClaim
<1>5. ASSUME NEW l \in Launches, Spawn(l) PROVE TypeOK'
  BY CycleAssumption, <1>5 DEF Spawn, Move, ledger, passing, history, TypeOK, Commands,
     InChild, InPass, LaunchStates, SweepStates, NoClaim
<1>6. ASSUME NEW l \in Launches, GiveBack(l) PROVE TypeOK'
  BY CycleAssumption, <1>6 DEF GiveBack, Move, ReleaseClaim, passing, history, NoClaim,
     TypeOK, Commands, InChild, InPass, LaunchStates, SweepStates, ledger
<1>7. ASSUME NEW l \in Launches, Adopt(l) PROVE TypeOK'
  BY CycleAssumption, <1>7 DEF Adopt, Move, ledger, passing, history, TypeOK, Commands,
     InChild, InPass, LaunchStates, SweepStates, NoClaim
<1>8. ASSUME NEW l \in Launches, ReClaim(l) PROVE TypeOK'
  BY CycleAssumption, <1>8 DEF ReClaim, Move, Claim, passing, history, TypeOK, Commands,
     InChild, InPass, LaunchStates, SweepStates, ledger, NoClaim
<1>9. ASSUME NEW l \in Launches, Tell(l) PROVE TypeOK'
  BY CycleAssumption, <1>9 DEF Tell, Move, ledger, passing, history, TypeOK, Commands,
     InChild, InPass, LaunchStates, SweepStates, NoClaim
<1>10. ASSUME NEW l \in Launches, OpenFails(l) PROVE TypeOK'
  BY CycleAssumption, <1>10 DEF OpenFails, Move, ledger, passing, history, TypeOK, Commands,
     InChild, InPass, LaunchStates, SweepStates, NoClaim
<1>11. ASSUME NEW l \in Launches, Hold(l) PROVE TypeOK'
  BY CycleAssumption, <1>11 DEF Hold, Move, ledger, passing, history, TypeOK, Commands,
     InChild, InPass, LaunchStates, SweepStates, NoClaim
<1>12. ASSUME NEW l \in Launches, BindFails(l) PROVE TypeOK'
  BY CycleAssumption, <1>12 DEF BindFails, Move, Unlock, ledger, passing, history, TypeOK,
     Commands, InChild, InPass, LaunchStates, SweepStates, NoClaim
<1>13. ASSUME NEW l \in Launches, DeclareRun(l) PROVE TypeOK'
  BY CycleAssumption, <1>13 DEF DeclareRun, Move, DeclareRunning, passing, NoClaim,
     EmptyInbox, TypeOK, Commands, InChild, InPass, LaunchStates, SweepStates, ledger
<1>14. ASSUME NEW l \in Launches, OpenGate(l) PROVE TypeOK'
  BY CycleAssumption, <1>14 DEF OpenGate, Move, DeclareGate, passing, history, NoClaim,
     TypeOK, Commands, InChild, InPass, LaunchStates, SweepStates, ledger
<1>15. ASSUME NEW l \in Launches, TakeAnswer(l) PROVE TypeOK'
  BY CycleAssumption, <1>15 DEF TakeAnswer, Move, passing, history, TypeOK, Commands,
     InChild, InPass, LaunchStates, SweepStates, ledger, NoClaim
<1>16. ASSUME NEW l \in Launches, AnswerGate(l) PROVE TypeOK'
  BY CycleAssumption, <1>16 DEF AnswerGate, Move, DeclareRunning, DeclareGate, passing,
     history, NoClaim, EmptyInbox, TypeOK, Commands, InChild, InPass, LaunchStates,
     SweepStates, ledger
<1>17. ASSUME NEW l \in Launches, SeePause(l) PROVE TypeOK'
  BY CycleAssumption, <1>17 DEF SeePause, Move, Driving, ledger, passing, history, TypeOK,
     Commands, InChild, InPass, LaunchStates, SweepStates, NoClaim
<1>18. ASSUME NEW l \in Launches, Interrupt(l) PROVE TypeOK'
  BY CycleAssumption, <1>18 DEF Interrupt, Move, Driving, ledger, passing, history, TypeOK,
     Commands, InChild, InPass, LaunchStates, SweepStates, NoClaim
<1>19. ASSUME NEW l \in Launches, TakePause(l) PROVE TypeOK'
  BY CycleAssumption, <1>19 DEF TakePause, Move, AckPause, passing, history, TypeOK,
     Commands, InChild, InPass, LaunchStates, SweepStates, ledger, NoClaim
<1>20. ASSUME NEW l \in Launches, DeclarePause(l) PROVE TypeOK'
  BY CycleAssumption, <1>20 DEF DeclarePause, Move, DeclarePaused, passing, history,
     NoClaim, EmptyInbox, TypeOK, Commands, InChild, InPass, LaunchStates, SweepStates,
     ledger
<1>21. ASSUME NEW l \in Launches, DeclareEnd(l) PROVE TypeOK'
  BY CycleAssumption, <1>21 DEF DeclareEnd, Move, DeclareEnded, passing, history, NoClaim,
     EmptyInbox, TypeOK, Commands, InChild, InPass, LaunchStates, SweepStates, ledger
<1>22. ASSUME NEW l \in Launches, Drain(l) PROVE TypeOK'
  BY CycleAssumption, <1>22 DEF Drain, Move, Unlock, ledger, passing, history, TypeOK,
     Commands, InChild, InPass, LaunchStates, SweepStates, NoClaim
<1>23. ASSUME NEW l \in Launches, Uncaught(l) PROVE TypeOK'
  BY CycleAssumption, <1>23 DEF Uncaught, Move, Unlock, ledger, passing, history, TypeOK,
     Commands, InChild, InPass, LaunchStates, SweepStates, NoClaim
<1>24. ASSUME NEW l \in Launches, Fail(l) PROVE TypeOK'
  BY CycleAssumption, <1>24 DEF Fail, Move, DeclareEnded, DeclarePaused, passing, NoClaim,
     EmptyInbox, TypeOK, Commands, InChild, InPass, LaunchStates, SweepStates, ledger
<1>25. ASSUME NEW l \in Launches, HostDies(l) PROVE TypeOK'
  BY CycleAssumption, <1>25 DEF HostDies, InHost, ledger, passing, history, TypeOK,
     Commands, InChild, InPass, LaunchStates, SweepStates, NoClaim
<1>26. ASSUME NEW l \in Launches, Dies(l) PROVE TypeOK'
  BY CycleAssumption, <1>26 DEF Dies, Move, InChild, Unlock, ledger, passing, history,
     TypeOK, Commands, InPass, LaunchStates, SweepStates, NoClaim
<1>27. ASSUME NEW p \in Passes, PassAskRead(p) PROVE TypeOK'
  BY CycleAssumption, <1>27 DEF PassAskRead, MovePass, ledger, launching, history, TypeOK,
     Commands, InChild, InPass, LaunchStates, SweepStates, NoClaim
<1>28. ASSUME NEW p \in Passes, PassAskLook(p) PROVE TypeOK'
  BY CycleAssumption, <1>28 DEF PassAskLook, ClaimLive, PassOn, MovePass, ledger, launching,
     history, Live, InChild, TypeOK, Commands, InPass, LaunchStates, SweepStates, NoClaim
<1>29. ASSUME NEW p \in Passes, Register(p) PROVE TypeOK'
  BY CycleAssumption, <1>29 DEF Register, MovePass, ledger, launching, history, TypeOK,
     Commands, InChild, InPass, LaunchStates, SweepStates, NoClaim
<1>30. ASSUME NEW p \in Passes, TakeHold(p) PROVE TypeOK'
  BY CycleAssumption, <1>30 DEF TakeHold, MovePass, ledger, launching, history, TypeOK,
     Commands, InChild, InPass, LaunchStates, SweepStates, NoClaim
<1>31. ASSUME NEW p \in Passes, DropStalePause(p) PROVE TypeOK'
  BY CycleAssumption, <1>31 DEF DropStalePause, MovePass, AckPause, launching, history,
     TypeOK, Commands, InChild, InPass, LaunchStates, SweepStates, ledger, NoClaim
<1>32. ASSUME NEW p \in Passes, EndScoring(p) PROVE TypeOK'
  BY CycleAssumption, <1>32 DEF EndScoring, MovePass, ledger, launching, history, TypeOK,
     Commands, InChild, InPass, LaunchStates, SweepStates, NoClaim
<1>33. ASSUME NEW p \in Passes, LetGo(p) PROVE TypeOK'
  BY CycleAssumption, <1>33 DEF LetGo, MovePass, AckPause, launching, history, TypeOK,
     Commands, InChild, InPass, LaunchStates, SweepStates, ledger, NoClaim
<1>34. ASSUME NEW p \in Passes, Free(p) PROVE TypeOK'
  BY CycleAssumption, <1>34 DEF Free, MovePass, Unlock, ledger, launching, history, TypeOK,
     Commands, InChild, InPass, LaunchStates, SweepStates, NoClaim
<1>35. ASSUME NEW p \in Passes, PassDies(p) PROVE TypeOK'
  BY CycleAssumption, <1>35 DEF PassDies, MovePass, InPass, Unlock, ledger, launching,
     history, TypeOK, Commands, InChild, LaunchStates, SweepStates, NoClaim
<1>36. ASSUME NEW p \in Passes, NEW c \in Stops, Stop(p, c) PROVE TypeOK'
  BY CycleAssumption, <1>36 DEF Stop, PassHolding, ledger, launching, history, TypeOK,
     Commands, InChild, InPass, LaunchStates, SweepStates, NoClaim
<1>37. ASSUME NEW p \in Passes, SendStop(p) PROVE TypeOK'
  BY CycleAssumption, <1>37 DEF SendStop, ArmPause, launching, history, TypeOK, Commands,
     InChild, InPass, LaunchStates, SweepStates, ledger, NoClaim
<1>38. ASSUME NEW c \in Pauses \cup Answers, Guard(c) PROVE TypeOK'
  BY CycleAssumption, <1>38 DEF Guard, Admitted, ledger, launching, passing, history,
     TypeOK, Commands, InChild, InPass, LaunchStates, SweepStates, NoClaim
<1>39. ASSUME NEW c \in Pauses \cup Answers, Send(c) PROVE TypeOK'
  BY CycleAssumption, <1>39 DEF Send, ArmPause, ArmAnswer, launching, passing, history,
     TypeOK, Commands, InChild, InPass, LaunchStates, SweepStates, ledger, NoClaim
<1>40. ASSUME SweepReadPhase PROVE TypeOK'
  BY CycleAssumption, <1>40 DEF SweepReadPhase, MoveSweep, ledger, launching, passing,
     history, TypeOK, Commands, InChild, InPass, LaunchStates, SweepStates, NoClaim
<1>41. ASSUME SweepReadLock PROVE TypeOK'
  BY CycleAssumption, <1>41 DEF SweepReadLock, MoveSweep, ledger, launching, passing,
     history, TypeOK, Commands, InChild, InPass, LaunchStates, SweepStates, NoClaim
<1>42. ASSUME SweepReadRest PROVE TypeOK'
  BY CycleAssumption, <1>42 DEF SweepReadRest, ClaimLive, MoveSweep, ledger, launching,
     passing, history, Live, InChild, TypeOK, Commands, InPass, LaunchStates, SweepStates,
     NoClaim
<1>43. ASSUME SweepTake PROVE TypeOK'
  BY CycleAssumption, <1>43 DEF SweepTake, MoveSweep, ledger, launching, passing, history,
     TypeOK, Commands, InChild, InPass, LaunchStates, SweepStates, NoClaim
<1>44. ASSUME SweepScan PROVE TypeOK'
  BY CycleAssumption, <1>44 DEF SweepScan, MoveSweep, ledger, launching, passing, history,
     TypeOK, Commands, InChild, InPass, LaunchStates, SweepStates, NoClaim
<1>45. ASSUME SweepStamp PROVE TypeOK'
  BY CycleAssumption, <1>45 DEF SweepStamp, MoveSweep, DeclareEnded, launching, passing,
     history, NoClaim, EmptyInbox, TypeOK, Commands, InChild, InPass, LaunchStates,
     SweepStates, ledger
<1>46. ASSUME SweepRelease PROVE TypeOK'
  BY CycleAssumption, <1>46 DEF SweepRelease, MoveSweep, Unlock, ledger, launching, passing,
     history, TypeOK, Commands, InChild, InPass, LaunchStates, SweepStates, NoClaim
<1>47. CASE UNCHANGED vars
  BY CycleAssumption, <1>47 DEF vars, ledger, TypeOK, Commands, InChild, InPass,
     LaunchStates, SweepStates, ledger, NoClaim
<1> QED
  BY <1>1, <1>2, <1>3, <1>4, <1>5, <1>6, <1>7, <1>8, <1>9, <1>10, <1>11, <1>12, <1>13,
     <1>14, <1>15, <1>16, <1>17, <1>18, <1>19, <1>20, <1>21, <1>22, <1>23, <1>24, <1>25,
     <1>26, <1>27, <1>28, <1>29, <1>30, <1>31, <1>32, <1>33, <1>34, <1>35, <1>36, <1>37,
     <1>38, <1>39, <1>40, <1>41, <1>42, <1>43, <1>44, <1>45, <1>46, <1>47 DEF Next, AskStep,
     ChildStep, RunStep, Disturbed, PassStep, Sweeps

\* A step leaves the lock with whoever is between taking it and letting it go.
LEMMA LockStep ==
  ASSUME TypeOK, LockInv, [Next]_vars
  PROVE  LockInv'
<1>1. ASSUME NEW l \in Launches, AskRead(l) PROVE LockInv'
  BY CycleAssumption, <1>1 DEF AskRead, Move, ledger, passing, history, TypeOK, LockInv,
     launching, InChild, InPass, Holding, PassHolding, Driving
<1>2. ASSUME NEW l \in Launches, AskLook(l) PROVE LockInv'
  BY CycleAssumption, <1>2 DEF AskLook, ClaimLive, PassOn, Move, ledger, passing, history,
     Live, InChild, TypeOK, LockInv, launching, InPass, Holding, PassHolding, Driving
<1>3. ASSUME NEW l \in Launches, AskClaim(l) PROVE LockInv'
  BY CycleAssumption, <1>3 DEF AskClaim, Move, Claim, passing, history, TypeOK, LockInv,
     ledger, launching, InChild, InPass, Holding, PassHolding, Driving
<1>4. ASSUME NEW l \in Launches, GiveUp(l) PROVE LockInv'
  BY CycleAssumption, <1>4 DEF GiveUp, Move, ledger, passing, history, TypeOK, LockInv,
     launching, InChild, InPass, Holding, PassHolding, Driving
<1>5. ASSUME NEW l \in Launches, Spawn(l) PROVE LockInv'
  BY CycleAssumption, <1>5 DEF Spawn, Move, ledger, passing, history, TypeOK, LockInv,
     launching, InChild, InPass, Holding, PassHolding, Driving
<1>6. ASSUME NEW l \in Launches, GiveBack(l) PROVE LockInv'
  BY CycleAssumption, <1>6 DEF GiveBack, Move, ReleaseClaim, passing, history, NoClaim,
     TypeOK, LockInv, ledger, launching, InChild, InPass, Holding, PassHolding, Driving
<1>7. ASSUME NEW l \in Launches, Adopt(l) PROVE LockInv'
  BY CycleAssumption, <1>7 DEF Adopt, Move, ledger, passing, history, TypeOK, LockInv,
     launching, InChild, InPass, Holding, PassHolding, Driving
<1>8. ASSUME NEW l \in Launches, ReClaim(l) PROVE LockInv'
  BY CycleAssumption, <1>8 DEF ReClaim, Move, Claim, passing, history, TypeOK, LockInv,
     ledger, launching, InChild, InPass, Holding, PassHolding, Driving
<1>9. ASSUME NEW l \in Launches, Tell(l) PROVE LockInv'
  BY CycleAssumption, <1>9 DEF Tell, Move, ledger, passing, history, TypeOK, LockInv,
     launching, InChild, InPass, Holding, PassHolding, Driving
<1>10. ASSUME NEW l \in Launches, OpenFails(l) PROVE LockInv'
  BY CycleAssumption, <1>10 DEF OpenFails, Move, ledger, passing, history, TypeOK, LockInv,
     launching, InChild, InPass, Holding, PassHolding, Driving
<1>11. ASSUME NEW l \in Launches, Hold(l) PROVE LockInv'
  BY CycleAssumption, <1>11 DEF Hold, Move, ledger, passing, history, TypeOK, LockInv,
     launching, InChild, InPass, Holding, PassHolding, Driving
<1>12. ASSUME NEW l \in Launches, BindFails(l) PROVE LockInv'
  BY CycleAssumption, <1>12 DEF BindFails, Move, Unlock, ledger, passing, history, TypeOK,
     LockInv, launching, InChild, InPass, Holding, PassHolding, Driving
<1>13. ASSUME NEW l \in Launches, DeclareRun(l) PROVE LockInv'
  BY CycleAssumption, <1>13 DEF DeclareRun, Move, DeclareRunning, passing, NoClaim,
     EmptyInbox, TypeOK, LockInv, ledger, launching, history, InChild, InPass, Holding,
     PassHolding, Driving
<1>14. ASSUME NEW l \in Launches, OpenGate(l) PROVE LockInv'
  BY CycleAssumption, <1>14 DEF OpenGate, Move, DeclareGate, passing, history, NoClaim,
     TypeOK, LockInv, ledger, launching, InChild, InPass, Holding, PassHolding, Driving
<1>15. ASSUME NEW l \in Launches, TakeAnswer(l) PROVE LockInv'
  BY CycleAssumption, <1>15 DEF TakeAnswer, Move, passing, history, TypeOK, LockInv, ledger,
     launching, InChild, InPass, Holding, PassHolding, Driving
<1>16. ASSUME NEW l \in Launches, AnswerGate(l) PROVE LockInv'
  BY CycleAssumption, <1>16 DEF AnswerGate, Move, DeclareRunning, DeclareGate, passing,
     history, NoClaim, EmptyInbox, TypeOK, LockInv, ledger, launching, InChild, InPass,
     Holding, PassHolding, Driving
<1>17. ASSUME NEW l \in Launches, SeePause(l) PROVE LockInv'
  BY CycleAssumption, <1>17 DEF SeePause, Move, Driving, ledger, passing, history, TypeOK,
     LockInv, launching, InChild, InPass, Holding, PassHolding
<1>18. ASSUME NEW l \in Launches, Interrupt(l) PROVE LockInv'
  BY CycleAssumption, <1>18 DEF Interrupt, Move, Driving, ledger, passing, history, TypeOK,
     LockInv, launching, InChild, InPass, Holding, PassHolding
<1>19. ASSUME NEW l \in Launches, TakePause(l) PROVE LockInv'
  BY CycleAssumption, <1>19 DEF TakePause, Move, AckPause, passing, history, TypeOK,
     LockInv, ledger, launching, InChild, InPass, Holding, PassHolding, Driving
<1>20. ASSUME NEW l \in Launches, DeclarePause(l) PROVE LockInv'
  BY CycleAssumption, <1>20 DEF DeclarePause, Move, DeclarePaused, passing, history,
     NoClaim, EmptyInbox, TypeOK, LockInv, ledger, launching, InChild, InPass, Holding,
     PassHolding, Driving
<1>21. ASSUME NEW l \in Launches, DeclareEnd(l) PROVE LockInv'
  BY CycleAssumption, <1>21 DEF DeclareEnd, Move, DeclareEnded, passing, history, NoClaim,
     EmptyInbox, TypeOK, LockInv, ledger, launching, InChild, InPass, Holding, PassHolding,
     Driving
<1>22. ASSUME NEW l \in Launches, Drain(l) PROVE LockInv'
  BY CycleAssumption, <1>22 DEF Drain, Move, Unlock, ledger, passing, history, TypeOK,
     LockInv, launching, InChild, InPass, Holding, PassHolding, Driving
<1>23. ASSUME NEW l \in Launches, Uncaught(l) PROVE LockInv'
  BY CycleAssumption, <1>23 DEF Uncaught, Move, Unlock, ledger, passing, history, TypeOK,
     LockInv, launching, InChild, InPass, Holding, PassHolding, Driving
<1>24. ASSUME NEW l \in Launches, Fail(l) PROVE LockInv'
  BY CycleAssumption, <1>24 DEF Fail, Move, DeclareEnded, DeclarePaused, passing, NoClaim,
     EmptyInbox, TypeOK, LockInv, ledger, launching, history, InChild, InPass, Holding,
     PassHolding, Driving
<1>25. ASSUME NEW l \in Launches, HostDies(l) PROVE LockInv'
  BY CycleAssumption, <1>25 DEF HostDies, InHost, ledger, passing, history, TypeOK, LockInv,
     launching, InChild, InPass, Holding, PassHolding, Driving
<1>26. ASSUME NEW l \in Launches, Dies(l) PROVE LockInv'
  BY CycleAssumption, <1>26 DEF Dies, Move, InChild, Unlock, ledger, passing, history,
     TypeOK, LockInv, launching, InPass, Holding, PassHolding, Driving
<1>27. ASSUME NEW p \in Passes, PassAskRead(p) PROVE LockInv'
  BY CycleAssumption, <1>27 DEF PassAskRead, MovePass, ledger, launching, history, TypeOK,
     LockInv, passing, InChild, InPass, Holding, PassHolding, Driving
<1>28. ASSUME NEW p \in Passes, PassAskLook(p) PROVE LockInv'
  BY CycleAssumption, <1>28 DEF PassAskLook, ClaimLive, PassOn, MovePass, ledger, launching,
     history, Live, InChild, TypeOK, LockInv, passing, InPass, Holding, PassHolding, Driving
<1>29. ASSUME NEW p \in Passes, Register(p) PROVE LockInv'
  BY CycleAssumption, <1>29 DEF Register, MovePass, ledger, launching, history, TypeOK,
     LockInv, passing, InChild, InPass, Holding, PassHolding, Driving
<1>30. ASSUME NEW p \in Passes, TakeHold(p) PROVE LockInv'
  BY CycleAssumption, <1>30 DEF TakeHold, MovePass, ledger, launching, history, TypeOK,
     LockInv, passing, InChild, InPass, Holding, PassHolding, Driving
<1>31. ASSUME NEW p \in Passes, DropStalePause(p) PROVE LockInv'
  BY CycleAssumption, <1>31 DEF DropStalePause, MovePass, AckPause, launching, history,
     TypeOK, LockInv, ledger, passing, InChild, InPass, Holding, PassHolding, Driving
<1>32. ASSUME NEW p \in Passes, EndScoring(p) PROVE LockInv'
  BY CycleAssumption, <1>32 DEF EndScoring, MovePass, ledger, launching, history, TypeOK,
     LockInv, passing, InChild, InPass, Holding, PassHolding, Driving
<1>33. ASSUME NEW p \in Passes, LetGo(p) PROVE LockInv'
  BY CycleAssumption, <1>33 DEF LetGo, MovePass, AckPause, launching, history, TypeOK,
     LockInv, ledger, passing, InChild, InPass, Holding, PassHolding, Driving
<1>34. ASSUME NEW p \in Passes, Free(p) PROVE LockInv'
  BY CycleAssumption, <1>34 DEF Free, MovePass, Unlock, ledger, launching, history, TypeOK,
     LockInv, passing, InChild, InPass, Holding, PassHolding, Driving
<1>35. ASSUME NEW p \in Passes, PassDies(p) PROVE LockInv'
  BY CycleAssumption, <1>35 DEF PassDies, MovePass, InPass, Unlock, ledger, launching,
     history, TypeOK, LockInv, passing, InChild, Holding, PassHolding, Driving
<1>36. ASSUME NEW p \in Passes, NEW c \in Stops, Stop(p, c) PROVE LockInv'
  BY CycleAssumption, <1>36 DEF Stop, PassHolding, ledger, launching, history, TypeOK,
     LockInv, passing, InChild, InPass, Holding, Driving
<1>37. ASSUME NEW p \in Passes, SendStop(p) PROVE LockInv'
  BY CycleAssumption, <1>37 DEF SendStop, ArmPause, launching, history, TypeOK, LockInv,
     ledger, passing, InChild, InPass, Holding, PassHolding, Driving
<1>38. ASSUME NEW c \in Pauses \cup Answers, Guard(c) PROVE LockInv'
  BY CycleAssumption, <1>38 DEF Guard, Admitted, ledger, launching, passing, history,
     TypeOK, LockInv, InChild, InPass, Holding, PassHolding, Driving
<1>39. ASSUME NEW c \in Pauses \cup Answers, Send(c) PROVE LockInv'
  BY CycleAssumption, <1>39 DEF Send, ArmPause, ArmAnswer, launching, passing, history,
     TypeOK, LockInv, ledger, InChild, InPass, Holding, PassHolding, Driving
<1>40. ASSUME SweepReadPhase PROVE LockInv'
  BY CycleAssumption, <1>40 DEF SweepReadPhase, MoveSweep, ledger, launching, passing,
     history, TypeOK, LockInv, InChild, InPass, Holding, PassHolding, Driving
<1>41. ASSUME SweepReadLock PROVE LockInv'
  BY CycleAssumption, <1>41 DEF SweepReadLock, MoveSweep, ledger, launching, passing,
     history, TypeOK, LockInv, InChild, InPass, Holding, PassHolding, Driving
<1>42. ASSUME SweepReadRest PROVE LockInv'
  BY CycleAssumption, <1>42 DEF SweepReadRest, ClaimLive, MoveSweep, ledger, launching,
     passing, history, Live, InChild, TypeOK, LockInv, InPass, Holding, PassHolding, Driving
<1>43. ASSUME SweepTake PROVE LockInv'
  BY CycleAssumption, <1>43 DEF SweepTake, MoveSweep, ledger, launching, passing, history,
     TypeOK, LockInv, InChild, InPass, Holding, PassHolding, Driving
<1>44. ASSUME SweepScan PROVE LockInv'
  BY CycleAssumption, <1>44 DEF SweepScan, MoveSweep, ledger, launching, passing, history,
     TypeOK, LockInv, InChild, InPass, Holding, PassHolding, Driving
<1>45. ASSUME SweepStamp PROVE LockInv'
  BY CycleAssumption, <1>45 DEF SweepStamp, MoveSweep, DeclareEnded, launching, passing,
     history, NoClaim, EmptyInbox, TypeOK, LockInv, ledger, InChild, InPass, Holding,
     PassHolding, Driving
<1>46. ASSUME SweepRelease PROVE LockInv'
  BY CycleAssumption, <1>46 DEF SweepRelease, MoveSweep, Unlock, ledger, launching, passing,
     history, TypeOK, LockInv, InChild, InPass, Holding, PassHolding, Driving
<1>47. CASE UNCHANGED vars
  BY CycleAssumption, <1>47 DEF vars, ledger, TypeOK, LockInv, ledger, launching, passing,
     history, InChild, InPass, Holding, PassHolding, Driving
<1> QED
  BY <1>1, <1>2, <1>3, <1>4, <1>5, <1>6, <1>7, <1>8, <1>9, <1>10, <1>11, <1>12, <1>13,
     <1>14, <1>15, <1>16, <1>17, <1>18, <1>19, <1>20, <1>21, <1>22, <1>23, <1>24, <1>25,
     <1>26, <1>27, <1>28, <1>29, <1>30, <1>31, <1>32, <1>33, <1>34, <1>35, <1>36, <1>37,
     <1>38, <1>39, <1>40, <1>41, <1>42, <1>43, <1>44, <1>45, <1>46, <1>47 DEF Next, AskStep,
     ChildStep, RunStep, Disturbed, PassStep, Sweeps

\* A step leaves the gate with whoever asks, and what it read there standing.
LEMMA GateStep ==
  ASSUME TypeOK, GateInv, OneAdmission, [Next]_vars
  PROVE  GateInv'
<1>1. ASSUME NEW l \in Launches, AskRead(l) PROVE GateInv'
  BY CycleAssumption, <1>1 DEF AskRead, Move, ledger, passing, history, TypeOK, GateInv,
     OneAdmission, HostClaimed, PassOn, ClaimLive, Live, NoClaim, launching, InChild,
     InPass, Holding, PassHolding, Driving
<1>2. ASSUME NEW l \in Launches, AskLook(l) PROVE GateInv'
  BY CycleAssumption, <1>2 DEF AskLook, ClaimLive, PassOn, Move, ledger, passing, history,
     Live, InChild, TypeOK, GateInv, OneAdmission, HostClaimed, NoClaim, launching, InPass,
     Holding, PassHolding, Driving
<1>3. ASSUME NEW l \in Launches, AskClaim(l) PROVE GateInv'
  BY CycleAssumption, <1>3 DEF AskClaim, Move, Claim, passing, history, TypeOK, GateInv,
     OneAdmission, HostClaimed, PassOn, ClaimLive, Live, NoClaim, ledger, launching,
     InChild, InPass, Holding, PassHolding, Driving
<1>4. ASSUME NEW l \in Launches, GiveUp(l) PROVE GateInv'
  BY CycleAssumption, <1>4 DEF GiveUp, Move, ledger, passing, history, TypeOK, GateInv,
     OneAdmission, HostClaimed, PassOn, ClaimLive, Live, NoClaim, launching, InChild,
     InPass, Holding, PassHolding, Driving
<1>5. ASSUME NEW l \in Launches, Spawn(l) PROVE GateInv'
  BY CycleAssumption, <1>5 DEF Spawn, Move, ledger, passing, history, TypeOK, GateInv,
     OneAdmission, HostClaimed, PassOn, ClaimLive, Live, NoClaim, launching, InChild,
     InPass, Holding, PassHolding, Driving
<1>6. ASSUME NEW l \in Launches, GiveBack(l) PROVE GateInv'
  BY CycleAssumption, <1>6 DEF GiveBack, Move, ReleaseClaim, passing, history, NoClaim,
     TypeOK, GateInv, OneAdmission, HostClaimed, PassOn, ClaimLive, Live, ledger, launching,
     InChild, InPass, Holding, PassHolding, Driving
<1>7. ASSUME NEW l \in Launches, Adopt(l) PROVE GateInv'
  BY CycleAssumption, <1>7 DEF Adopt, Move, ledger, passing, history, TypeOK, GateInv,
     OneAdmission, HostClaimed, PassOn, ClaimLive, Live, NoClaim, launching, InChild,
     InPass, Holding, PassHolding, Driving
<1>8. ASSUME NEW l \in Launches, ReClaim(l) PROVE GateInv'
  BY CycleAssumption, <1>8 DEF ReClaim, Move, Claim, passing, history, TypeOK, GateInv,
     OneAdmission, HostClaimed, PassOn, ClaimLive, Live, NoClaim, ledger, launching,
     InChild, InPass, Holding, PassHolding, Driving
<1>9. ASSUME NEW l \in Launches, Tell(l) PROVE GateInv'
  BY CycleAssumption, <1>9 DEF Tell, Move, ledger, passing, history, TypeOK, GateInv,
     OneAdmission, HostClaimed, PassOn, ClaimLive, Live, NoClaim, launching, InChild,
     InPass, Holding, PassHolding, Driving
<1>10. ASSUME NEW l \in Launches, OpenFails(l) PROVE GateInv'
  BY CycleAssumption, <1>10 DEF OpenFails, Move, ledger, passing, history, TypeOK, GateInv,
     OneAdmission, HostClaimed, PassOn, ClaimLive, Live, NoClaim, launching, InChild,
     InPass, Holding, PassHolding, Driving
<1>11. ASSUME NEW l \in Launches, Hold(l) PROVE GateInv'
  BY CycleAssumption, <1>11 DEF Hold, Move, ledger, passing, history, TypeOK, GateInv,
     OneAdmission, HostClaimed, PassOn, ClaimLive, Live, NoClaim, launching, InChild,
     InPass, Holding, PassHolding, Driving
<1>12. ASSUME NEW l \in Launches, BindFails(l) PROVE GateInv'
  BY CycleAssumption, <1>12 DEF BindFails, Move, Unlock, ledger, passing, history, TypeOK,
     GateInv, OneAdmission, HostClaimed, PassOn, ClaimLive, Live, NoClaim, launching,
     InChild, InPass, Holding, PassHolding, Driving
<1>13. ASSUME NEW l \in Launches, DeclareRun(l) PROVE GateInv'
  BY CycleAssumption, <1>13 DEF DeclareRun, Move, DeclareRunning, passing, NoClaim,
     EmptyInbox, TypeOK, GateInv, OneAdmission, HostClaimed, PassOn, ClaimLive, Live,
     ledger, launching, history, InChild, InPass, Holding, PassHolding, Driving
<1>14. ASSUME NEW l \in Launches, OpenGate(l) PROVE GateInv'
  BY CycleAssumption, <1>14 DEF OpenGate, Move, DeclareGate, passing, history, NoClaim,
     TypeOK, GateInv, OneAdmission, HostClaimed, PassOn, ClaimLive, Live, ledger, launching,
     InChild, InPass, Holding, PassHolding, Driving
<1>15. ASSUME NEW l \in Launches, TakeAnswer(l) PROVE GateInv'
  BY CycleAssumption, <1>15 DEF TakeAnswer, Move, passing, history, TypeOK, GateInv,
     OneAdmission, HostClaimed, PassOn, ClaimLive, Live, NoClaim, ledger, launching,
     InChild, InPass, Holding, PassHolding, Driving
<1>16. ASSUME NEW l \in Launches, AnswerGate(l) PROVE GateInv'
  BY CycleAssumption, <1>16 DEF AnswerGate, Move, DeclareRunning, DeclareGate, passing,
     history, NoClaim, EmptyInbox, TypeOK, GateInv, OneAdmission, HostClaimed, PassOn,
     ClaimLive, Live, ledger, launching, InChild, InPass, Holding, PassHolding, Driving
<1>17. ASSUME NEW l \in Launches, SeePause(l) PROVE GateInv'
  BY CycleAssumption, <1>17 DEF SeePause, Move, Driving, ledger, passing, history, TypeOK,
     GateInv, OneAdmission, HostClaimed, PassOn, ClaimLive, Live, NoClaim, launching,
     InChild, InPass, Holding, PassHolding
<1>18. ASSUME NEW l \in Launches, Interrupt(l) PROVE GateInv'
  BY CycleAssumption, <1>18 DEF Interrupt, Move, Driving, ledger, passing, history, TypeOK,
     GateInv, OneAdmission, HostClaimed, PassOn, ClaimLive, Live, NoClaim, launching,
     InChild, InPass, Holding, PassHolding
<1>19. ASSUME NEW l \in Launches, TakePause(l) PROVE GateInv'
  BY CycleAssumption, <1>19 DEF TakePause, Move, AckPause, passing, history, TypeOK,
     GateInv, OneAdmission, HostClaimed, PassOn, ClaimLive, Live, NoClaim, ledger,
     launching, InChild, InPass, Holding, PassHolding, Driving
<1>20. ASSUME NEW l \in Launches, DeclarePause(l) PROVE GateInv'
  BY CycleAssumption, <1>20 DEF DeclarePause, Move, DeclarePaused, passing, history,
     NoClaim, EmptyInbox, TypeOK, GateInv, OneAdmission, HostClaimed, PassOn, ClaimLive,
     Live, ledger, launching, InChild, InPass, Holding, PassHolding, Driving
<1>21. ASSUME NEW l \in Launches, DeclareEnd(l) PROVE GateInv'
  BY CycleAssumption, <1>21 DEF DeclareEnd, Move, DeclareEnded, passing, history, NoClaim,
     EmptyInbox, TypeOK, GateInv, OneAdmission, HostClaimed, PassOn, ClaimLive, Live,
     ledger, launching, InChild, InPass, Holding, PassHolding, Driving
<1>22. ASSUME NEW l \in Launches, Drain(l) PROVE GateInv'
  BY CycleAssumption, <1>22 DEF Drain, Move, Unlock, ledger, passing, history, TypeOK,
     GateInv, OneAdmission, HostClaimed, PassOn, ClaimLive, Live, NoClaim, launching,
     InChild, InPass, Holding, PassHolding, Driving
<1>23. ASSUME NEW l \in Launches, Uncaught(l) PROVE GateInv'
  BY CycleAssumption, <1>23 DEF Uncaught, Move, Unlock, ledger, passing, history, TypeOK,
     GateInv, OneAdmission, HostClaimed, PassOn, ClaimLive, Live, NoClaim, launching,
     InChild, InPass, Holding, PassHolding, Driving
<1>24. ASSUME NEW l \in Launches, Fail(l) PROVE GateInv'
  BY CycleAssumption, <1>24 DEF Fail, Move, DeclareEnded, DeclarePaused, passing, NoClaim,
     EmptyInbox, TypeOK, GateInv, OneAdmission, HostClaimed, PassOn, ClaimLive, Live,
     ledger, launching, history, InChild, InPass, Holding, PassHolding, Driving
<1>25. ASSUME NEW l \in Launches, HostDies(l) PROVE GateInv'
  BY CycleAssumption, <1>25 DEF HostDies, InHost, ledger, passing, history, TypeOK, GateInv,
     OneAdmission, HostClaimed, PassOn, ClaimLive, Live, NoClaim, launching, InChild,
     InPass, Holding, PassHolding, Driving
<1>26. ASSUME NEW l \in Launches, Dies(l) PROVE GateInv'
  BY CycleAssumption, <1>26 DEF Dies, Move, InChild, Unlock, ledger, passing, history,
     TypeOK, GateInv, OneAdmission, HostClaimed, PassOn, ClaimLive, Live, NoClaim,
     launching, InPass, Holding, PassHolding, Driving
<1>27. ASSUME NEW p \in Passes, PassAskRead(p) PROVE GateInv'
  BY CycleAssumption, <1>27 DEF PassAskRead, MovePass, ledger, launching, history, TypeOK,
     GateInv, OneAdmission, HostClaimed, PassOn, ClaimLive, Live, NoClaim, passing, InChild,
     InPass, Holding, PassHolding, Driving
<1>28. ASSUME NEW p \in Passes, PassAskLook(p) PROVE GateInv'
  BY CycleAssumption, <1>28 DEF PassAskLook, ClaimLive, PassOn, MovePass, ledger, launching,
     history, Live, InChild, TypeOK, GateInv, OneAdmission, HostClaimed, NoClaim, passing,
     InPass, Holding, PassHolding, Driving
<1>29. ASSUME NEW p \in Passes, Register(p) PROVE GateInv'
  BY CycleAssumption, <1>29 DEF Register, MovePass, ledger, launching, history, TypeOK,
     GateInv, OneAdmission, HostClaimed, PassOn, ClaimLive, Live, NoClaim, passing, InChild,
     InPass, Holding, PassHolding, Driving
<1>30. ASSUME NEW p \in Passes, TakeHold(p) PROVE GateInv'
  BY CycleAssumption, <1>30 DEF TakeHold, MovePass, ledger, launching, history, TypeOK,
     GateInv, OneAdmission, HostClaimed, PassOn, ClaimLive, Live, NoClaim, passing, InChild,
     InPass, Holding, PassHolding, Driving
<1>31. ASSUME NEW p \in Passes, DropStalePause(p) PROVE GateInv'
  BY CycleAssumption, <1>31 DEF DropStalePause, MovePass, AckPause, launching, history,
     TypeOK, GateInv, OneAdmission, HostClaimed, PassOn, ClaimLive, Live, NoClaim, ledger,
     passing, InChild, InPass, Holding, PassHolding, Driving
<1>32. ASSUME NEW p \in Passes, EndScoring(p) PROVE GateInv'
  BY CycleAssumption, <1>32 DEF EndScoring, MovePass, ledger, launching, history, TypeOK,
     GateInv, OneAdmission, HostClaimed, PassOn, ClaimLive, Live, NoClaim, passing, InChild,
     InPass, Holding, PassHolding, Driving
<1>33. ASSUME NEW p \in Passes, LetGo(p) PROVE GateInv'
  BY CycleAssumption, <1>33 DEF LetGo, MovePass, AckPause, launching, history, TypeOK,
     GateInv, OneAdmission, HostClaimed, PassOn, ClaimLive, Live, NoClaim, ledger, passing,
     InChild, InPass, Holding, PassHolding, Driving
<1>34. ASSUME NEW p \in Passes, Free(p) PROVE GateInv'
  BY CycleAssumption, <1>34 DEF Free, MovePass, Unlock, ledger, launching, history, TypeOK,
     GateInv, OneAdmission, HostClaimed, PassOn, ClaimLive, Live, NoClaim, passing, InChild,
     InPass, Holding, PassHolding, Driving
<1>35. ASSUME NEW p \in Passes, PassDies(p) PROVE GateInv'
  BY CycleAssumption, <1>35 DEF PassDies, MovePass, InPass, Unlock, ledger, launching,
     history, TypeOK, GateInv, OneAdmission, HostClaimed, PassOn, ClaimLive, Live, NoClaim,
     passing, InChild, Holding, PassHolding, Driving
<1>36. ASSUME NEW p \in Passes, NEW c \in Stops, Stop(p, c) PROVE GateInv'
  BY CycleAssumption, <1>36 DEF Stop, PassHolding, ledger, launching, history, TypeOK,
     GateInv, OneAdmission, HostClaimed, PassOn, ClaimLive, Live, NoClaim, passing, InChild,
     InPass, Holding, Driving
<1>37. ASSUME NEW p \in Passes, SendStop(p) PROVE GateInv'
  BY CycleAssumption, <1>37 DEF SendStop, ArmPause, launching, history, TypeOK, GateInv,
     OneAdmission, HostClaimed, PassOn, ClaimLive, Live, NoClaim, ledger, passing, InChild,
     InPass, Holding, PassHolding, Driving
<1>38. ASSUME NEW c \in Pauses \cup Answers, Guard(c) PROVE GateInv'
  BY CycleAssumption, <1>38 DEF Guard, Admitted, ledger, launching, passing, history,
     TypeOK, GateInv, OneAdmission, HostClaimed, PassOn, ClaimLive, Live, NoClaim, InChild,
     InPass, Holding, PassHolding, Driving
<1>39. ASSUME NEW c \in Pauses \cup Answers, Send(c) PROVE GateInv'
  BY CycleAssumption, <1>39 DEF Send, ArmPause, ArmAnswer, launching, passing, history,
     TypeOK, GateInv, OneAdmission, HostClaimed, PassOn, ClaimLive, Live, NoClaim, ledger,
     InChild, InPass, Holding, PassHolding, Driving
<1>40. ASSUME SweepReadPhase PROVE GateInv'
  BY CycleAssumption, <1>40 DEF SweepReadPhase, MoveSweep, ledger, launching, passing,
     history, TypeOK, GateInv, OneAdmission, HostClaimed, PassOn, ClaimLive, Live, NoClaim,
     InChild, InPass, Holding, PassHolding, Driving
<1>41. ASSUME SweepReadLock PROVE GateInv'
  BY CycleAssumption, <1>41 DEF SweepReadLock, MoveSweep, ledger, launching, passing,
     history, TypeOK, GateInv, OneAdmission, HostClaimed, PassOn, ClaimLive, Live, NoClaim,
     InChild, InPass, Holding, PassHolding, Driving
<1>42. ASSUME SweepReadRest PROVE GateInv'
  BY CycleAssumption, <1>42 DEF SweepReadRest, ClaimLive, MoveSweep, ledger, launching,
     passing, history, Live, InChild, TypeOK, GateInv, OneAdmission, HostClaimed, PassOn,
     NoClaim, InPass, Holding, PassHolding, Driving
<1>43. ASSUME SweepTake PROVE GateInv'
  BY CycleAssumption, <1>43 DEF SweepTake, MoveSweep, ledger, launching, passing, history,
     TypeOK, GateInv, OneAdmission, HostClaimed, PassOn, ClaimLive, Live, NoClaim, InChild,
     InPass, Holding, PassHolding, Driving
<1>44. ASSUME SweepScan PROVE GateInv'
  BY CycleAssumption, <1>44 DEF SweepScan, MoveSweep, ledger, launching, passing, history,
     TypeOK, GateInv, OneAdmission, HostClaimed, PassOn, ClaimLive, Live, NoClaim, InChild,
     InPass, Holding, PassHolding, Driving
<1>45. ASSUME SweepStamp PROVE GateInv'
  BY CycleAssumption, <1>45 DEF SweepStamp, MoveSweep, DeclareEnded, launching, passing,
     history, NoClaim, EmptyInbox, TypeOK, GateInv, OneAdmission, HostClaimed, PassOn,
     ClaimLive, Live, ledger, InChild, InPass, Holding, PassHolding, Driving
<1>46. ASSUME SweepRelease PROVE GateInv'
  BY CycleAssumption, <1>46 DEF SweepRelease, MoveSweep, Unlock, ledger, launching, passing,
     history, TypeOK, GateInv, OneAdmission, HostClaimed, PassOn, ClaimLive, Live, NoClaim,
     InChild, InPass, Holding, PassHolding, Driving
<1>47. CASE UNCHANGED vars
  BY CycleAssumption, <1>47 DEF vars, ledger, TypeOK, GateInv, OneAdmission, HostClaimed,
     PassOn, ClaimLive, Live, NoClaim, ledger, launching, passing, history, InChild, InPass,
     Holding, PassHolding, Driving
<1> QED
  BY <1>1, <1>2, <1>3, <1>4, <1>5, <1>6, <1>7, <1>8, <1>9, <1>10, <1>11, <1>12, <1>13,
     <1>14, <1>15, <1>16, <1>17, <1>18, <1>19, <1>20, <1>21, <1>22, <1>23, <1>24, <1>25,
     <1>26, <1>27, <1>28, <1>29, <1>30, <1>31, <1>32, <1>33, <1>34, <1>35, <1>36, <1>37,
     <1>38, <1>39, <1>40, <1>41, <1>42, <1>43, <1>44, <1>45, <1>46, <1>47 DEF Next, AskStep,
     ChildStep, RunStep, Disturbed, PassStep, Sweeps

\* A step never admits a pass beside a launch on its claim.
LEMMA AdmissionStep ==
  ASSUME TypeOK, GateInv, OneAdmission, [Next]_vars
  PROVE  OneAdmission'
<1>1. ASSUME NEW l \in Launches, AskRead(l) PROVE OneAdmission'
  BY CycleAssumption, <1>1 DEF AskRead, Move, ledger, passing, history, TypeOK, GateInv,
     OneAdmission, HostClaimed, PassOn, ClaimLive, Live, NoClaim, launching, InChild,
     InPass, Holding, PassHolding, Driving
<1>2. ASSUME NEW l \in Launches, AskLook(l) PROVE OneAdmission'
  BY CycleAssumption, <1>2 DEF AskLook, ClaimLive, PassOn, Move, ledger, passing, history,
     Live, InChild, TypeOK, GateInv, OneAdmission, HostClaimed, NoClaim, launching, InPass,
     Holding, PassHolding, Driving
<1>3. ASSUME NEW l \in Launches, AskClaim(l) PROVE OneAdmission'
  BY CycleAssumption, <1>3 DEF AskClaim, Move, Claim, passing, history, TypeOK, GateInv,
     OneAdmission, HostClaimed, PassOn, ClaimLive, Live, NoClaim, ledger, launching,
     InChild, InPass, Holding, PassHolding, Driving
<1>4. ASSUME NEW l \in Launches, GiveUp(l) PROVE OneAdmission'
  BY CycleAssumption, <1>4 DEF GiveUp, Move, ledger, passing, history, TypeOK, GateInv,
     OneAdmission, HostClaimed, PassOn, ClaimLive, Live, NoClaim, launching, InChild,
     InPass, Holding, PassHolding, Driving
<1>5. ASSUME NEW l \in Launches, Spawn(l) PROVE OneAdmission'
  BY CycleAssumption, <1>5 DEF Spawn, Move, ledger, passing, history, TypeOK, GateInv,
     OneAdmission, HostClaimed, PassOn, ClaimLive, Live, NoClaim, launching, InChild,
     InPass, Holding, PassHolding, Driving
<1>6. ASSUME NEW l \in Launches, GiveBack(l) PROVE OneAdmission'
  BY CycleAssumption, <1>6 DEF GiveBack, Move, ReleaseClaim, passing, history, NoClaim,
     TypeOK, GateInv, OneAdmission, HostClaimed, PassOn, ClaimLive, Live, ledger, launching,
     InChild, InPass, Holding, PassHolding, Driving
<1>7. ASSUME NEW l \in Launches, Adopt(l) PROVE OneAdmission'
  BY CycleAssumption, <1>7 DEF Adopt, Move, ledger, passing, history, TypeOK, GateInv,
     OneAdmission, HostClaimed, PassOn, ClaimLive, Live, NoClaim, launching, InChild,
     InPass, Holding, PassHolding, Driving
<1>8. ASSUME NEW l \in Launches, ReClaim(l) PROVE OneAdmission'
  BY CycleAssumption, <1>8 DEF ReClaim, Move, Claim, passing, history, TypeOK, GateInv,
     OneAdmission, HostClaimed, PassOn, ClaimLive, Live, NoClaim, ledger, launching,
     InChild, InPass, Holding, PassHolding, Driving
<1>9. ASSUME NEW l \in Launches, Tell(l) PROVE OneAdmission'
  BY CycleAssumption, <1>9 DEF Tell, Move, ledger, passing, history, TypeOK, GateInv,
     OneAdmission, HostClaimed, PassOn, ClaimLive, Live, NoClaim, launching, InChild,
     InPass, Holding, PassHolding, Driving
<1>10. ASSUME NEW l \in Launches, OpenFails(l) PROVE OneAdmission'
  BY CycleAssumption, <1>10 DEF OpenFails, Move, ledger, passing, history, TypeOK, GateInv,
     OneAdmission, HostClaimed, PassOn, ClaimLive, Live, NoClaim, launching, InChild,
     InPass, Holding, PassHolding, Driving
<1>11. ASSUME NEW l \in Launches, Hold(l) PROVE OneAdmission'
  BY CycleAssumption, <1>11 DEF Hold, Move, ledger, passing, history, TypeOK, GateInv,
     OneAdmission, HostClaimed, PassOn, ClaimLive, Live, NoClaim, launching, InChild,
     InPass, Holding, PassHolding, Driving
<1>12. ASSUME NEW l \in Launches, BindFails(l) PROVE OneAdmission'
  BY CycleAssumption, <1>12 DEF BindFails, Move, Unlock, ledger, passing, history, TypeOK,
     GateInv, OneAdmission, HostClaimed, PassOn, ClaimLive, Live, NoClaim, launching,
     InChild, InPass, Holding, PassHolding, Driving
<1>13. ASSUME NEW l \in Launches, DeclareRun(l) PROVE OneAdmission'
  BY CycleAssumption, <1>13 DEF DeclareRun, Move, DeclareRunning, passing, NoClaim,
     EmptyInbox, TypeOK, GateInv, OneAdmission, HostClaimed, PassOn, ClaimLive, Live,
     ledger, launching, history, InChild, InPass, Holding, PassHolding, Driving
<1>14. ASSUME NEW l \in Launches, OpenGate(l) PROVE OneAdmission'
  BY CycleAssumption, <1>14 DEF OpenGate, Move, DeclareGate, passing, history, NoClaim,
     TypeOK, GateInv, OneAdmission, HostClaimed, PassOn, ClaimLive, Live, ledger, launching,
     InChild, InPass, Holding, PassHolding, Driving
<1>15. ASSUME NEW l \in Launches, TakeAnswer(l) PROVE OneAdmission'
  BY CycleAssumption, <1>15 DEF TakeAnswer, Move, passing, history, TypeOK, GateInv,
     OneAdmission, HostClaimed, PassOn, ClaimLive, Live, NoClaim, ledger, launching,
     InChild, InPass, Holding, PassHolding, Driving
<1>16. ASSUME NEW l \in Launches, AnswerGate(l) PROVE OneAdmission'
  BY CycleAssumption, <1>16 DEF AnswerGate, Move, DeclareRunning, DeclareGate, passing,
     history, NoClaim, EmptyInbox, TypeOK, GateInv, OneAdmission, HostClaimed, PassOn,
     ClaimLive, Live, ledger, launching, InChild, InPass, Holding, PassHolding, Driving
<1>17. ASSUME NEW l \in Launches, SeePause(l) PROVE OneAdmission'
  BY CycleAssumption, <1>17 DEF SeePause, Move, Driving, ledger, passing, history, TypeOK,
     GateInv, OneAdmission, HostClaimed, PassOn, ClaimLive, Live, NoClaim, launching,
     InChild, InPass, Holding, PassHolding
<1>18. ASSUME NEW l \in Launches, Interrupt(l) PROVE OneAdmission'
  BY CycleAssumption, <1>18 DEF Interrupt, Move, Driving, ledger, passing, history, TypeOK,
     GateInv, OneAdmission, HostClaimed, PassOn, ClaimLive, Live, NoClaim, launching,
     InChild, InPass, Holding, PassHolding
<1>19. ASSUME NEW l \in Launches, TakePause(l) PROVE OneAdmission'
  BY CycleAssumption, <1>19 DEF TakePause, Move, AckPause, passing, history, TypeOK,
     GateInv, OneAdmission, HostClaimed, PassOn, ClaimLive, Live, NoClaim, ledger,
     launching, InChild, InPass, Holding, PassHolding, Driving
<1>20. ASSUME NEW l \in Launches, DeclarePause(l) PROVE OneAdmission'
  BY CycleAssumption, <1>20 DEF DeclarePause, Move, DeclarePaused, passing, history,
     NoClaim, EmptyInbox, TypeOK, GateInv, OneAdmission, HostClaimed, PassOn, ClaimLive,
     Live, ledger, launching, InChild, InPass, Holding, PassHolding, Driving
<1>21. ASSUME NEW l \in Launches, DeclareEnd(l) PROVE OneAdmission'
  BY CycleAssumption, <1>21 DEF DeclareEnd, Move, DeclareEnded, passing, history, NoClaim,
     EmptyInbox, TypeOK, GateInv, OneAdmission, HostClaimed, PassOn, ClaimLive, Live,
     ledger, launching, InChild, InPass, Holding, PassHolding, Driving
<1>22. ASSUME NEW l \in Launches, Drain(l) PROVE OneAdmission'
  BY CycleAssumption, <1>22 DEF Drain, Move, Unlock, ledger, passing, history, TypeOK,
     GateInv, OneAdmission, HostClaimed, PassOn, ClaimLive, Live, NoClaim, launching,
     InChild, InPass, Holding, PassHolding, Driving
<1>23. ASSUME NEW l \in Launches, Uncaught(l) PROVE OneAdmission'
  BY CycleAssumption, <1>23 DEF Uncaught, Move, Unlock, ledger, passing, history, TypeOK,
     GateInv, OneAdmission, HostClaimed, PassOn, ClaimLive, Live, NoClaim, launching,
     InChild, InPass, Holding, PassHolding, Driving
<1>24. ASSUME NEW l \in Launches, Fail(l) PROVE OneAdmission'
  BY CycleAssumption, <1>24 DEF Fail, Move, DeclareEnded, DeclarePaused, passing, NoClaim,
     EmptyInbox, TypeOK, GateInv, OneAdmission, HostClaimed, PassOn, ClaimLive, Live,
     ledger, launching, history, InChild, InPass, Holding, PassHolding, Driving
<1>25. ASSUME NEW l \in Launches, HostDies(l) PROVE OneAdmission'
  BY CycleAssumption, <1>25 DEF HostDies, InHost, ledger, passing, history, TypeOK, GateInv,
     OneAdmission, HostClaimed, PassOn, ClaimLive, Live, NoClaim, launching, InChild,
     InPass, Holding, PassHolding, Driving
<1>26. ASSUME NEW l \in Launches, Dies(l) PROVE OneAdmission'
  BY CycleAssumption, <1>26 DEF Dies, Move, InChild, Unlock, ledger, passing, history,
     TypeOK, GateInv, OneAdmission, HostClaimed, PassOn, ClaimLive, Live, NoClaim,
     launching, InPass, Holding, PassHolding, Driving
<1>27. ASSUME NEW p \in Passes, PassAskRead(p) PROVE OneAdmission'
  BY CycleAssumption, <1>27 DEF PassAskRead, MovePass, ledger, launching, history, TypeOK,
     GateInv, OneAdmission, HostClaimed, PassOn, ClaimLive, Live, NoClaim, passing, InChild,
     InPass, Holding, PassHolding, Driving
<1>28. ASSUME NEW p \in Passes, PassAskLook(p) PROVE OneAdmission'
  BY CycleAssumption, <1>28 DEF PassAskLook, ClaimLive, PassOn, MovePass, ledger, launching,
     history, Live, InChild, TypeOK, GateInv, OneAdmission, HostClaimed, NoClaim, passing,
     InPass, Holding, PassHolding, Driving
<1>29. ASSUME NEW p \in Passes, Register(p) PROVE OneAdmission'
  BY CycleAssumption, <1>29 DEF Register, MovePass, ledger, launching, history, TypeOK,
     GateInv, OneAdmission, HostClaimed, PassOn, ClaimLive, Live, NoClaim, passing, InChild,
     InPass, Holding, PassHolding, Driving
<1>30. ASSUME NEW p \in Passes, TakeHold(p) PROVE OneAdmission'
  BY CycleAssumption, <1>30 DEF TakeHold, MovePass, ledger, launching, history, TypeOK,
     GateInv, OneAdmission, HostClaimed, PassOn, ClaimLive, Live, NoClaim, passing, InChild,
     InPass, Holding, PassHolding, Driving
<1>31. ASSUME NEW p \in Passes, DropStalePause(p) PROVE OneAdmission'
  BY CycleAssumption, <1>31 DEF DropStalePause, MovePass, AckPause, launching, history,
     TypeOK, GateInv, OneAdmission, HostClaimed, PassOn, ClaimLive, Live, NoClaim, ledger,
     passing, InChild, InPass, Holding, PassHolding, Driving
<1>32. ASSUME NEW p \in Passes, EndScoring(p) PROVE OneAdmission'
  BY CycleAssumption, <1>32 DEF EndScoring, MovePass, ledger, launching, history, TypeOK,
     GateInv, OneAdmission, HostClaimed, PassOn, ClaimLive, Live, NoClaim, passing, InChild,
     InPass, Holding, PassHolding, Driving
<1>33. ASSUME NEW p \in Passes, LetGo(p) PROVE OneAdmission'
  BY CycleAssumption, <1>33 DEF LetGo, MovePass, AckPause, launching, history, TypeOK,
     GateInv, OneAdmission, HostClaimed, PassOn, ClaimLive, Live, NoClaim, ledger, passing,
     InChild, InPass, Holding, PassHolding, Driving
<1>34. ASSUME NEW p \in Passes, Free(p) PROVE OneAdmission'
  BY CycleAssumption, <1>34 DEF Free, MovePass, Unlock, ledger, launching, history, TypeOK,
     GateInv, OneAdmission, HostClaimed, PassOn, ClaimLive, Live, NoClaim, passing, InChild,
     InPass, Holding, PassHolding, Driving
<1>35. ASSUME NEW p \in Passes, PassDies(p) PROVE OneAdmission'
  BY CycleAssumption, <1>35 DEF PassDies, MovePass, InPass, Unlock, ledger, launching,
     history, TypeOK, GateInv, OneAdmission, HostClaimed, PassOn, ClaimLive, Live, NoClaim,
     passing, InChild, Holding, PassHolding, Driving
<1>36. ASSUME NEW p \in Passes, NEW c \in Stops, Stop(p, c) PROVE OneAdmission'
  BY CycleAssumption, <1>36 DEF Stop, PassHolding, ledger, launching, history, TypeOK,
     GateInv, OneAdmission, HostClaimed, PassOn, ClaimLive, Live, NoClaim, passing, InChild,
     InPass, Holding, Driving
<1>37. ASSUME NEW p \in Passes, SendStop(p) PROVE OneAdmission'
  BY CycleAssumption, <1>37 DEF SendStop, ArmPause, launching, history, TypeOK, GateInv,
     OneAdmission, HostClaimed, PassOn, ClaimLive, Live, NoClaim, ledger, passing, InChild,
     InPass, Holding, PassHolding, Driving
<1>38. ASSUME NEW c \in Pauses \cup Answers, Guard(c) PROVE OneAdmission'
  BY CycleAssumption, <1>38 DEF Guard, Admitted, ledger, launching, passing, history,
     TypeOK, GateInv, OneAdmission, HostClaimed, PassOn, ClaimLive, Live, NoClaim, InChild,
     InPass, Holding, PassHolding, Driving
<1>39. ASSUME NEW c \in Pauses \cup Answers, Send(c) PROVE OneAdmission'
  BY CycleAssumption, <1>39 DEF Send, ArmPause, ArmAnswer, launching, passing, history,
     TypeOK, GateInv, OneAdmission, HostClaimed, PassOn, ClaimLive, Live, NoClaim, ledger,
     InChild, InPass, Holding, PassHolding, Driving
<1>40. ASSUME SweepReadPhase PROVE OneAdmission'
  BY CycleAssumption, <1>40 DEF SweepReadPhase, MoveSweep, ledger, launching, passing,
     history, TypeOK, GateInv, OneAdmission, HostClaimed, PassOn, ClaimLive, Live, NoClaim,
     InChild, InPass, Holding, PassHolding, Driving
<1>41. ASSUME SweepReadLock PROVE OneAdmission'
  BY CycleAssumption, <1>41 DEF SweepReadLock, MoveSweep, ledger, launching, passing,
     history, TypeOK, GateInv, OneAdmission, HostClaimed, PassOn, ClaimLive, Live, NoClaim,
     InChild, InPass, Holding, PassHolding, Driving
<1>42. ASSUME SweepReadRest PROVE OneAdmission'
  BY CycleAssumption, <1>42 DEF SweepReadRest, ClaimLive, MoveSweep, ledger, launching,
     passing, history, Live, InChild, TypeOK, GateInv, OneAdmission, HostClaimed, PassOn,
     NoClaim, InPass, Holding, PassHolding, Driving
<1>43. ASSUME SweepTake PROVE OneAdmission'
  BY CycleAssumption, <1>43 DEF SweepTake, MoveSweep, ledger, launching, passing, history,
     TypeOK, GateInv, OneAdmission, HostClaimed, PassOn, ClaimLive, Live, NoClaim, InChild,
     InPass, Holding, PassHolding, Driving
<1>44. ASSUME SweepScan PROVE OneAdmission'
  BY CycleAssumption, <1>44 DEF SweepScan, MoveSweep, ledger, launching, passing, history,
     TypeOK, GateInv, OneAdmission, HostClaimed, PassOn, ClaimLive, Live, NoClaim, InChild,
     InPass, Holding, PassHolding, Driving
<1>45. ASSUME SweepStamp PROVE OneAdmission'
  BY CycleAssumption, <1>45 DEF SweepStamp, MoveSweep, DeclareEnded, launching, passing,
     history, NoClaim, EmptyInbox, TypeOK, GateInv, OneAdmission, HostClaimed, PassOn,
     ClaimLive, Live, ledger, InChild, InPass, Holding, PassHolding, Driving
<1>46. ASSUME SweepRelease PROVE OneAdmission'
  BY CycleAssumption, <1>46 DEF SweepRelease, MoveSweep, Unlock, ledger, launching, passing,
     history, TypeOK, GateInv, OneAdmission, HostClaimed, PassOn, ClaimLive, Live, NoClaim,
     InChild, InPass, Holding, PassHolding, Driving
<1>47. CASE UNCHANGED vars
  BY CycleAssumption, <1>47 DEF vars, ledger, TypeOK, GateInv, OneAdmission, HostClaimed,
     PassOn, ClaimLive, Live, NoClaim, ledger, launching, passing, history, InChild, InPass,
     Holding, PassHolding, Driving
<1> QED
  BY <1>1, <1>2, <1>3, <1>4, <1>5, <1>6, <1>7, <1>8, <1>9, <1>10, <1>11, <1>12, <1>13,
     <1>14, <1>15, <1>16, <1>17, <1>18, <1>19, <1>20, <1>21, <1>22, <1>23, <1>24, <1>25,
     <1>26, <1>27, <1>28, <1>29, <1>30, <1>31, <1>32, <1>33, <1>34, <1>35, <1>36, <1>37,
     <1>38, <1>39, <1>40, <1>41, <1>42, <1>43, <1>44, <1>45, <1>46, <1>47 DEF Next, AskStep,
     ChildStep, RunStep, Disturbed, PassStep, Sweeps

\* A step lets no pass go while a Stop of it is being sent.
LEMMA StopStep ==
  ASSUME TypeOK, StopInv, [Next]_vars
  PROVE  StopInv'
<1>1. ASSUME UNCHANGED passing PROVE StopInv'
  BY <1>1 DEF passing, StopInv
<1>2. ASSUME NEW l \in Launches,
          AskRead(l) \/ AskLook(l) \/ AskClaim(l) \/ GiveUp(l) \/ Spawn(l) \/ GiveBack(l) \/
             Adopt(l) \/ ReClaim(l) \/ Tell(l) \/ OpenFails(l) \/ Hold(l) \/ BindFails(l) \/
             DeclareRun(l) \/ OpenGate(l) \/ TakeAnswer(l) \/ AnswerGate(l) \/ SeePause(l)
             \/ Interrupt(l) \/ TakePause(l) \/ DeclarePause(l) \/ DeclareEnd(l) \/ Drain(l)
             \/ Uncaught(l) \/ Fail(l) \/ HostDies(l) \/ Dies(l)
     PROVE StopInv'
  BY <1>2, <1>1 DEF AskRead, AskLook, AskClaim, GiveUp, Spawn, GiveBack, Adopt, ReClaim,
     Tell, OpenFails, Hold, BindFails, DeclareRun, OpenGate, TakeAnswer, AnswerGate,
     SeePause, Interrupt, TakePause, DeclarePause, DeclareEnd, Drain, Uncaught, Fail,
     HostDies, Dies
<1>3. ASSUME NEW c \in Pauses \cup Answers,
          Guard(c) \/ Send(c)
     PROVE StopInv'
  BY <1>3, <1>1 DEF Guard, Send
<1>4. ASSUME 
          SweepReadPhase \/ SweepReadLock \/ SweepReadRest \/ SweepTake \/ SweepScan \/
             SweepStamp \/ SweepRelease
     PROVE StopInv'
  BY <1>4, <1>1 DEF SweepReadPhase, SweepReadLock, SweepReadRest, SweepTake, SweepScan,
     SweepStamp, SweepRelease
<1>5. ASSUME NEW p \in Passes, PassAskRead(p) PROVE StopInv'
  BY CycleAssumption, <1>5 DEF PassAskRead, MovePass, TypeOK, StopInv, Commands
<1>6. ASSUME NEW p \in Passes, PassAskLook(p) PROVE StopInv'
  BY CycleAssumption, <1>6 DEF PassAskLook, MovePass, TypeOK, StopInv, Commands
<1>7. ASSUME NEW p \in Passes, Register(p) PROVE StopInv'
  BY CycleAssumption, <1>7 DEF Register, MovePass, TypeOK, StopInv, Commands
<1>8. ASSUME NEW p \in Passes, TakeHold(p) PROVE StopInv'
  BY CycleAssumption, <1>8 DEF TakeHold, MovePass, TypeOK, StopInv, Commands
<1>9. ASSUME NEW p \in Passes, DropStalePause(p) PROVE StopInv'
  BY CycleAssumption, <1>9 DEF DropStalePause, MovePass, TypeOK, StopInv, Commands
<1>10. ASSUME NEW p \in Passes, EndScoring(p) PROVE StopInv'
  BY CycleAssumption, <1>10 DEF EndScoring, MovePass, TypeOK, StopInv, Commands
<1>11. ASSUME NEW p \in Passes, LetGo(p) PROVE StopInv'
  BY CycleAssumption, <1>11 DEF LetGo, MovePass, TypeOK, StopInv, Commands
<1>12. ASSUME NEW p \in Passes, Free(p) PROVE StopInv'
  BY CycleAssumption, <1>12 DEF Free, MovePass, TypeOK, StopInv, Commands
<1>13. ASSUME NEW p \in Passes, PassDies(p) PROVE StopInv'
  BY CycleAssumption, <1>13 DEF PassDies, MovePass, TypeOK, StopInv, Commands, InPass
<1>14. ASSUME NEW p \in Passes, NEW c \in Stops, Stop(p, c) PROVE StopInv'
  BY CycleAssumption, <1>14 DEF Stop, TypeOK, StopInv, Commands, PassHolding
<1>15. ASSUME NEW p \in Passes, SendStop(p) PROVE StopInv'
  BY CycleAssumption, <1>15 DEF SendStop, TypeOK, StopInv, Commands
<1>16. CASE UNCHANGED vars
  BY <1>16, <1>1 DEF vars, passing
<1> QED
  BY <1>2, <1>3, <1>4, <1>5, <1>6, <1>7, <1>8, <1>9, <1>10, <1>11, <1>12, <1>13, <1>14,
     <1>15, <1>16 DEF Next, AskStep, ChildStep, RunStep, Disturbed, PassStep, Sweeps

\* A step keeps what the ledger says of a run with where the run is.
LEMMA PhaseStep ==
  ASSUME TypeOK, LockInv, LockInv', RunKeepsItsPhase, [Next]_vars
  PROVE  RunKeepsItsPhase'
<1>1. ASSUME NEW l \in Launches, AskRead(l) PROVE RunKeepsItsPhase'
  BY CycleAssumption, <1>1 DEF AskRead, Move, ledger, passing, history, TypeOK, LockInv,
     RunKeepsItsPhase, launching, InChild, InPass, Holding, PassHolding, Driving
<1>2. ASSUME NEW l \in Launches, AskLook(l) PROVE RunKeepsItsPhase'
  BY CycleAssumption, <1>2 DEF AskLook, ClaimLive, PassOn, Move, ledger, passing, history,
     Live, InChild, TypeOK, LockInv, RunKeepsItsPhase, launching, InPass, Holding,
     PassHolding, Driving
<1>3. ASSUME NEW l \in Launches, AskClaim(l) PROVE RunKeepsItsPhase'
  BY CycleAssumption, <1>3 DEF AskClaim, Move, Claim, passing, history, TypeOK, LockInv,
     RunKeepsItsPhase, ledger, launching, InChild, InPass, Holding, PassHolding, Driving
<1>4. ASSUME NEW l \in Launches, GiveUp(l) PROVE RunKeepsItsPhase'
  BY CycleAssumption, <1>4 DEF GiveUp, Move, ledger, passing, history, TypeOK, LockInv,
     RunKeepsItsPhase, launching, InChild, InPass, Holding, PassHolding, Driving
<1>5. ASSUME NEW l \in Launches, Spawn(l) PROVE RunKeepsItsPhase'
  BY CycleAssumption, <1>5 DEF Spawn, Move, ledger, passing, history, TypeOK, LockInv,
     RunKeepsItsPhase, launching, InChild, InPass, Holding, PassHolding, Driving
<1>6. ASSUME NEW l \in Launches, GiveBack(l) PROVE RunKeepsItsPhase'
  BY CycleAssumption, <1>6 DEF GiveBack, Move, ReleaseClaim, passing, history, NoClaim,
     TypeOK, LockInv, RunKeepsItsPhase, ledger, launching, InChild, InPass, Holding,
     PassHolding, Driving
<1>7. ASSUME NEW l \in Launches, Adopt(l) PROVE RunKeepsItsPhase'
  BY CycleAssumption, <1>7 DEF Adopt, Move, ledger, passing, history, TypeOK, LockInv,
     RunKeepsItsPhase, launching, InChild, InPass, Holding, PassHolding, Driving
<1>8. ASSUME NEW l \in Launches, ReClaim(l) PROVE RunKeepsItsPhase'
  BY CycleAssumption, <1>8 DEF ReClaim, Move, Claim, passing, history, TypeOK, LockInv,
     RunKeepsItsPhase, ledger, launching, InChild, InPass, Holding, PassHolding, Driving
<1>9. ASSUME NEW l \in Launches, Tell(l) PROVE RunKeepsItsPhase'
  BY CycleAssumption, <1>9 DEF Tell, Move, ledger, passing, history, TypeOK, LockInv,
     RunKeepsItsPhase, launching, InChild, InPass, Holding, PassHolding, Driving
<1>10. ASSUME NEW l \in Launches, OpenFails(l) PROVE RunKeepsItsPhase'
  BY CycleAssumption, <1>10 DEF OpenFails, Move, ledger, passing, history, TypeOK, LockInv,
     RunKeepsItsPhase, launching, InChild, InPass, Holding, PassHolding, Driving
<1>11. ASSUME NEW l \in Launches, Hold(l) PROVE RunKeepsItsPhase'
  BY CycleAssumption, <1>11 DEF Hold, Move, ledger, passing, history, TypeOK, LockInv,
     RunKeepsItsPhase, launching, InChild, InPass, Holding, PassHolding, Driving
<1>12. ASSUME NEW l \in Launches, BindFails(l) PROVE RunKeepsItsPhase'
  BY CycleAssumption, <1>12 DEF BindFails, Move, Unlock, ledger, passing, history, TypeOK,
     LockInv, RunKeepsItsPhase, launching, InChild, InPass, Holding, PassHolding, Driving
<1>13. ASSUME NEW l \in Launches, DeclareRun(l) PROVE RunKeepsItsPhase'
  BY CycleAssumption, <1>13 DEF DeclareRun, Move, DeclareRunning, passing, NoClaim,
     EmptyInbox, TypeOK, LockInv, RunKeepsItsPhase, ledger, launching, history, InChild,
     InPass, Holding, PassHolding, Driving
<1>14. ASSUME NEW l \in Launches, OpenGate(l) PROVE RunKeepsItsPhase'
  BY CycleAssumption, <1>14 DEF OpenGate, Move, DeclareGate, passing, history, NoClaim,
     TypeOK, LockInv, RunKeepsItsPhase, ledger, launching, InChild, InPass, Holding,
     PassHolding, Driving
<1>15. ASSUME NEW l \in Launches, TakeAnswer(l) PROVE RunKeepsItsPhase'
  BY CycleAssumption, <1>15 DEF TakeAnswer, Move, passing, history, TypeOK, LockInv,
     RunKeepsItsPhase, ledger, launching, InChild, InPass, Holding, PassHolding, Driving
<1>16. ASSUME NEW l \in Launches, AnswerGate(l) PROVE RunKeepsItsPhase'
  BY CycleAssumption, <1>16 DEF AnswerGate, Move, DeclareRunning, DeclareGate, passing,
     history, NoClaim, EmptyInbox, TypeOK, LockInv, RunKeepsItsPhase, ledger, launching,
     InChild, InPass, Holding, PassHolding, Driving
<1>17. ASSUME NEW l \in Launches, SeePause(l) PROVE RunKeepsItsPhase'
  BY CycleAssumption, <1>17 DEF SeePause, Move, Driving, ledger, passing, history, TypeOK,
     LockInv, RunKeepsItsPhase, launching, InChild, InPass, Holding, PassHolding
<1>18. ASSUME NEW l \in Launches, Interrupt(l) PROVE RunKeepsItsPhase'
  BY CycleAssumption, <1>18 DEF Interrupt, Move, Driving, ledger, passing, history, TypeOK,
     LockInv, RunKeepsItsPhase, launching, InChild, InPass, Holding, PassHolding
<1>19. ASSUME NEW l \in Launches, TakePause(l) PROVE RunKeepsItsPhase'
  BY CycleAssumption, <1>19 DEF TakePause, Move, AckPause, passing, history, TypeOK,
     LockInv, RunKeepsItsPhase, ledger, launching, InChild, InPass, Holding, PassHolding,
     Driving
<1>20. ASSUME NEW l \in Launches, DeclarePause(l) PROVE RunKeepsItsPhase'
  BY CycleAssumption, <1>20 DEF DeclarePause, Move, DeclarePaused, passing, history,
     NoClaim, EmptyInbox, TypeOK, LockInv, RunKeepsItsPhase, ledger, launching, InChild,
     InPass, Holding, PassHolding, Driving
<1>21. ASSUME NEW l \in Launches, DeclareEnd(l) PROVE RunKeepsItsPhase'
  BY CycleAssumption, <1>21 DEF DeclareEnd, Move, DeclareEnded, passing, history, NoClaim,
     EmptyInbox, TypeOK, LockInv, RunKeepsItsPhase, ledger, launching, InChild, InPass,
     Holding, PassHolding, Driving
<1>22. ASSUME NEW l \in Launches, Drain(l) PROVE RunKeepsItsPhase'
  BY CycleAssumption, <1>22 DEF Drain, Move, Unlock, ledger, passing, history, TypeOK,
     LockInv, RunKeepsItsPhase, launching, InChild, InPass, Holding, PassHolding, Driving
<1>23. ASSUME NEW l \in Launches, Uncaught(l) PROVE RunKeepsItsPhase'
  BY CycleAssumption, <1>23 DEF Uncaught, Move, Unlock, ledger, passing, history, TypeOK,
     LockInv, RunKeepsItsPhase, launching, InChild, InPass, Holding, PassHolding, Driving
<1>24. ASSUME NEW l \in Launches, Fail(l) PROVE RunKeepsItsPhase'
  <2>1. CASE lock # Nobody
    <3>1. stray'
      BY <1>24, <2>1, Zenon DEF Fail
    <3> QED
      BY <3>1, Zenon DEF RunKeepsItsPhase
  <2>2. CASE lock = Nobody
    <3>1. \A k \in Launches : at[k] \notin Holding
      BY <2>2, CycleAssumption DEF LockInv
    <3>2. at' = [at EXCEPT ![l] = "over"]
      BY <1>24 DEF Fail, Move
    <3>3. \A k \in Launches : at'[k] \notin Holding
      BY <3>1, <3>2 DEF TypeOK, Holding, Driving
    <3> QED
      BY <3>3 DEF RunKeepsItsPhase, Holding, Driving
  <2> QED
    BY <2>1, <2>2
<1>25. ASSUME NEW l \in Launches, HostDies(l) PROVE RunKeepsItsPhase'
  BY CycleAssumption, <1>25 DEF HostDies, InHost, ledger, passing, history, TypeOK, LockInv,
     RunKeepsItsPhase, launching, InChild, InPass, Holding, PassHolding, Driving
<1>26. ASSUME NEW l \in Launches, Dies(l) PROVE RunKeepsItsPhase'
  BY CycleAssumption, <1>26 DEF Dies, Move, InChild, Unlock, ledger, passing, history,
     TypeOK, LockInv, RunKeepsItsPhase, launching, InPass, Holding, PassHolding, Driving
<1>27. ASSUME NEW p \in Passes, PassAskRead(p) PROVE RunKeepsItsPhase'
  BY CycleAssumption, <1>27 DEF PassAskRead, MovePass, ledger, launching, history, TypeOK,
     LockInv, RunKeepsItsPhase, passing, InChild, InPass, Holding, PassHolding, Driving
<1>28. ASSUME NEW p \in Passes, PassAskLook(p) PROVE RunKeepsItsPhase'
  BY CycleAssumption, <1>28 DEF PassAskLook, ClaimLive, PassOn, MovePass, ledger, launching,
     history, Live, InChild, TypeOK, LockInv, RunKeepsItsPhase, passing, InPass, Holding,
     PassHolding, Driving
<1>29. ASSUME NEW p \in Passes, Register(p) PROVE RunKeepsItsPhase'
  BY CycleAssumption, <1>29 DEF Register, MovePass, ledger, launching, history, TypeOK,
     LockInv, RunKeepsItsPhase, passing, InChild, InPass, Holding, PassHolding, Driving
<1>30. ASSUME NEW p \in Passes, TakeHold(p) PROVE RunKeepsItsPhase'
  BY CycleAssumption, <1>30 DEF TakeHold, MovePass, ledger, launching, history, TypeOK,
     LockInv, RunKeepsItsPhase, passing, InChild, InPass, Holding, PassHolding, Driving
<1>31. ASSUME NEW p \in Passes, DropStalePause(p) PROVE RunKeepsItsPhase'
  BY CycleAssumption, <1>31 DEF DropStalePause, MovePass, AckPause, launching, history,
     TypeOK, LockInv, RunKeepsItsPhase, ledger, passing, InChild, InPass, Holding,
     PassHolding, Driving
<1>32. ASSUME NEW p \in Passes, EndScoring(p) PROVE RunKeepsItsPhase'
  BY CycleAssumption, <1>32 DEF EndScoring, MovePass, ledger, launching, history, TypeOK,
     LockInv, RunKeepsItsPhase, passing, InChild, InPass, Holding, PassHolding, Driving
<1>33. ASSUME NEW p \in Passes, LetGo(p) PROVE RunKeepsItsPhase'
  BY CycleAssumption, <1>33 DEF LetGo, MovePass, AckPause, launching, history, TypeOK,
     LockInv, RunKeepsItsPhase, ledger, passing, InChild, InPass, Holding, PassHolding,
     Driving
<1>34. ASSUME NEW p \in Passes, Free(p) PROVE RunKeepsItsPhase'
  BY CycleAssumption, <1>34 DEF Free, MovePass, Unlock, ledger, launching, history, TypeOK,
     LockInv, RunKeepsItsPhase, passing, InChild, InPass, Holding, PassHolding, Driving
<1>35. ASSUME NEW p \in Passes, PassDies(p) PROVE RunKeepsItsPhase'
  BY CycleAssumption, <1>35 DEF PassDies, MovePass, InPass, Unlock, ledger, launching,
     history, TypeOK, LockInv, RunKeepsItsPhase, passing, InChild, Holding, PassHolding,
     Driving
<1>36. ASSUME NEW p \in Passes, NEW c \in Stops, Stop(p, c) PROVE RunKeepsItsPhase'
  BY CycleAssumption, <1>36 DEF Stop, PassHolding, ledger, launching, history, TypeOK,
     LockInv, RunKeepsItsPhase, passing, InChild, InPass, Holding, Driving
<1>37. ASSUME NEW p \in Passes, SendStop(p) PROVE RunKeepsItsPhase'
  BY CycleAssumption, <1>37 DEF SendStop, ArmPause, launching, history, TypeOK, LockInv,
     RunKeepsItsPhase, ledger, passing, InChild, InPass, Holding, PassHolding, Driving
<1>38. ASSUME NEW c \in Pauses \cup Answers, Guard(c) PROVE RunKeepsItsPhase'
  BY CycleAssumption, <1>38 DEF Guard, Admitted, ledger, launching, passing, history,
     TypeOK, LockInv, RunKeepsItsPhase, InChild, InPass, Holding, PassHolding, Driving
<1>39. ASSUME NEW c \in Pauses \cup Answers, Send(c) PROVE RunKeepsItsPhase'
  BY CycleAssumption, <1>39 DEF Send, ArmPause, ArmAnswer, launching, passing, history,
     TypeOK, LockInv, RunKeepsItsPhase, ledger, InChild, InPass, Holding, PassHolding,
     Driving
<1>40. ASSUME SweepReadPhase PROVE RunKeepsItsPhase'
  BY CycleAssumption, <1>40 DEF SweepReadPhase, MoveSweep, ledger, launching, passing,
     history, TypeOK, LockInv, RunKeepsItsPhase, InChild, InPass, Holding, PassHolding,
     Driving
<1>41. ASSUME SweepReadLock PROVE RunKeepsItsPhase'
  BY CycleAssumption, <1>41 DEF SweepReadLock, MoveSweep, ledger, launching, passing,
     history, TypeOK, LockInv, RunKeepsItsPhase, InChild, InPass, Holding, PassHolding,
     Driving
<1>42. ASSUME SweepReadRest PROVE RunKeepsItsPhase'
  BY CycleAssumption, <1>42 DEF SweepReadRest, ClaimLive, MoveSweep, ledger, launching,
     passing, history, Live, InChild, TypeOK, LockInv, RunKeepsItsPhase, InPass, Holding,
     PassHolding, Driving
<1>43. ASSUME SweepTake PROVE RunKeepsItsPhase'
  BY CycleAssumption, <1>43 DEF SweepTake, MoveSweep, ledger, launching, passing, history,
     TypeOK, LockInv, RunKeepsItsPhase, InChild, InPass, Holding, PassHolding, Driving
<1>44. ASSUME SweepScan PROVE RunKeepsItsPhase'
  BY CycleAssumption, <1>44 DEF SweepScan, MoveSweep, ledger, launching, passing, history,
     TypeOK, LockInv, RunKeepsItsPhase, InChild, InPass, Holding, PassHolding, Driving
<1>45. ASSUME SweepStamp PROVE RunKeepsItsPhase'
  BY CycleAssumption, <1>45 DEF SweepStamp, MoveSweep, DeclareEnded, launching, passing,
     history, NoClaim, EmptyInbox, TypeOK, LockInv, RunKeepsItsPhase, ledger, InChild,
     InPass, Holding, PassHolding, Driving
<1>46. ASSUME SweepRelease PROVE RunKeepsItsPhase'
  BY CycleAssumption, <1>46 DEF SweepRelease, MoveSweep, Unlock, ledger, launching, passing,
     history, TypeOK, LockInv, RunKeepsItsPhase, InChild, InPass, Holding, PassHolding,
     Driving
<1>47. CASE UNCHANGED vars
  BY CycleAssumption, <1>47 DEF vars, ledger, TypeOK, LockInv, RunKeepsItsPhase, ledger,
     launching, passing, history, InChild, InPass, Holding, PassHolding, Driving
<1> QED
  BY <1>1, <1>2, <1>3, <1>4, <1>5, <1>6, <1>7, <1>8, <1>9, <1>10, <1>11, <1>12, <1>13,
     <1>14, <1>15, <1>16, <1>17, <1>18, <1>19, <1>20, <1>21, <1>22, <1>23, <1>24, <1>25,
     <1>26, <1>27, <1>28, <1>29, <1>30, <1>31, <1>32, <1>33, <1>34, <1>35, <1>36, <1>37,
     <1>38, <1>39, <1>40, <1>41, <1>42, <1>43, <1>44, <1>45, <1>46, <1>47 DEF Next, AskStep,
     ChildStep, RunStep, Disturbed, PassStep, Sweeps

\* A step takes no Stop of a pass to a run.
LEMMA PassStopStep ==
  ASSUME TypeOK, LockInv, StopInv, PassStopStaysWithPass, LockInv', [Next]_vars
  PROVE  PassStopStaysWithPass'
<1>1. ASSUME NEW l \in Launches, AskRead(l) PROVE PassStopStaysWithPass'
  BY CycleAssumption, <1>1 DEF AskRead, Move, ledger, passing, history, TypeOK, LockInv,
     StopInv, PassStopStaysWithPass, launching, InChild, InPass, Holding, PassHolding,
     Driving
<1>2. ASSUME NEW l \in Launches, AskLook(l) PROVE PassStopStaysWithPass'
  BY CycleAssumption, <1>2 DEF AskLook, ClaimLive, PassOn, Move, ledger, passing, history,
     Live, InChild, TypeOK, LockInv, StopInv, PassStopStaysWithPass, launching, InPass,
     Holding, PassHolding, Driving
<1>3. ASSUME NEW l \in Launches, AskClaim(l) PROVE PassStopStaysWithPass'
  BY CycleAssumption, <1>3 DEF AskClaim, Move, Claim, passing, history, TypeOK, LockInv,
     StopInv, PassStopStaysWithPass, ledger, launching, InChild, InPass, Holding,
     PassHolding, Driving
<1>4. ASSUME NEW l \in Launches, GiveUp(l) PROVE PassStopStaysWithPass'
  BY CycleAssumption, <1>4 DEF GiveUp, Move, ledger, passing, history, TypeOK, LockInv,
     StopInv, PassStopStaysWithPass, launching, InChild, InPass, Holding, PassHolding,
     Driving
<1>5. ASSUME NEW l \in Launches, Spawn(l) PROVE PassStopStaysWithPass'
  BY CycleAssumption, <1>5 DEF Spawn, Move, ledger, passing, history, TypeOK, LockInv,
     StopInv, PassStopStaysWithPass, launching, InChild, InPass, Holding, PassHolding,
     Driving
<1>6. ASSUME NEW l \in Launches, GiveBack(l) PROVE PassStopStaysWithPass'
  BY CycleAssumption, <1>6 DEF GiveBack, Move, ReleaseClaim, passing, history, NoClaim,
     TypeOK, LockInv, StopInv, PassStopStaysWithPass, ledger, launching, InChild, InPass,
     Holding, PassHolding, Driving
<1>7. ASSUME NEW l \in Launches, Adopt(l) PROVE PassStopStaysWithPass'
  BY CycleAssumption, <1>7 DEF Adopt, Move, ledger, passing, history, TypeOK, LockInv,
     StopInv, PassStopStaysWithPass, launching, InChild, InPass, Holding, PassHolding,
     Driving
<1>8. ASSUME NEW l \in Launches, ReClaim(l) PROVE PassStopStaysWithPass'
  BY CycleAssumption, <1>8 DEF ReClaim, Move, Claim, passing, history, TypeOK, LockInv,
     StopInv, PassStopStaysWithPass, ledger, launching, InChild, InPass, Holding,
     PassHolding, Driving
<1>9. ASSUME NEW l \in Launches, Tell(l) PROVE PassStopStaysWithPass'
  BY CycleAssumption, <1>9 DEF Tell, Move, ledger, passing, history, TypeOK, LockInv,
     StopInv, PassStopStaysWithPass, launching, InChild, InPass, Holding, PassHolding,
     Driving
<1>10. ASSUME NEW l \in Launches, OpenFails(l) PROVE PassStopStaysWithPass'
  BY CycleAssumption, <1>10 DEF OpenFails, Move, ledger, passing, history, TypeOK, LockInv,
     StopInv, PassStopStaysWithPass, launching, InChild, InPass, Holding, PassHolding,
     Driving
<1>11. ASSUME NEW l \in Launches, Hold(l) PROVE PassStopStaysWithPass'
  BY CycleAssumption, <1>11 DEF Hold, Move, ledger, passing, history, TypeOK, LockInv,
     StopInv, PassStopStaysWithPass, launching, InChild, InPass, Holding, PassHolding,
     Driving
<1>12. ASSUME NEW l \in Launches, BindFails(l) PROVE PassStopStaysWithPass'
  BY CycleAssumption, <1>12 DEF BindFails, Move, Unlock, ledger, passing, history, TypeOK,
     LockInv, StopInv, PassStopStaysWithPass, launching, InChild, InPass, Holding,
     PassHolding, Driving
<1>13. ASSUME NEW l \in Launches, DeclareRun(l) PROVE PassStopStaysWithPass'
  <2>1. kept' = answers' \cup ({ask'} \ {Nobody})
    BY <1>13 DEF DeclareRun
  <2>2. Nobody \notin Stops
    BY CycleAssumption DEF Commands
  <2> QED
    BY <2>1, <2>2 DEF PassStopStaysWithPass
<1>14. ASSUME NEW l \in Launches, OpenGate(l) PROVE PassStopStaysWithPass'
  BY CycleAssumption, <1>14 DEF OpenGate, Move, DeclareGate, passing, history, NoClaim,
     TypeOK, LockInv, StopInv, PassStopStaysWithPass, ledger, launching, InChild, InPass,
     Holding, PassHolding, Driving
<1>15. ASSUME NEW l \in Launches, TakeAnswer(l) PROVE PassStopStaysWithPass'
  BY CycleAssumption, <1>15 DEF TakeAnswer, Move, passing, history, TypeOK, LockInv,
     StopInv, PassStopStaysWithPass, ledger, launching, InChild, InPass, Holding,
     PassHolding, Driving
<1>16. ASSUME NEW l \in Launches, AnswerGate(l) PROVE PassStopStaysWithPass'
  <2>1. kept' = kept /\ (ask' = ask \/ ask' = Nobody)
    BY <1>16 DEF AnswerGate, DeclareRunning, DeclareGate, EmptyInbox, history
  <2>2. Nobody \notin Stops
    BY CycleAssumption DEF Commands
  <2>3. at[l] \in Driving /\ \A k \in Launches \ {l} : at'[k] = at[k]
    BY <1>16 DEF AnswerGate, Move, Driving, TypeOK
  <2> QED
    BY <2>1, <2>2, <2>3 DEF PassStopStaysWithPass
<1>17. ASSUME NEW l \in Launches, SeePause(l) PROVE PassStopStaysWithPass'
  BY CycleAssumption, <1>17 DEF SeePause, Move, Driving, ledger, passing, history, TypeOK,
     LockInv, StopInv, PassStopStaysWithPass, launching, InChild, InPass, Holding,
     PassHolding
<1>18. ASSUME NEW l \in Launches, Interrupt(l) PROVE PassStopStaysWithPass'
  BY CycleAssumption, <1>18 DEF Interrupt, Move, Driving, ledger, passing, history, TypeOK,
     LockInv, StopInv, PassStopStaysWithPass, launching, InChild, InPass, Holding,
     PassHolding
<1>19. ASSUME NEW l \in Launches, TakePause(l) PROVE PassStopStaysWithPass'
  BY CycleAssumption, <1>19 DEF TakePause, Move, AckPause, passing, history, TypeOK,
     LockInv, StopInv, PassStopStaysWithPass, ledger, launching, InChild, InPass, Holding,
     PassHolding, Driving
<1>20. ASSUME NEW l \in Launches, DeclarePause(l) PROVE PassStopStaysWithPass'
  BY CycleAssumption, <1>20 DEF DeclarePause, Move, DeclarePaused, passing, history,
     NoClaim, EmptyInbox, TypeOK, LockInv, StopInv, PassStopStaysWithPass, ledger,
     launching, InChild, InPass, Holding, PassHolding, Driving
<1>21. ASSUME NEW l \in Launches, DeclareEnd(l) PROVE PassStopStaysWithPass'
  BY CycleAssumption, <1>21 DEF DeclareEnd, Move, DeclareEnded, passing, history, NoClaim,
     EmptyInbox, TypeOK, LockInv, StopInv, PassStopStaysWithPass, ledger, launching,
     InChild, InPass, Holding, PassHolding, Driving
<1>22. ASSUME NEW l \in Launches, Drain(l) PROVE PassStopStaysWithPass'
  BY CycleAssumption, <1>22 DEF Drain, Move, Unlock, ledger, passing, history, TypeOK,
     LockInv, StopInv, PassStopStaysWithPass, launching, InChild, InPass, Holding,
     PassHolding, Driving
<1>23. ASSUME NEW l \in Launches, Uncaught(l) PROVE PassStopStaysWithPass'
  BY CycleAssumption, <1>23 DEF Uncaught, Move, Unlock, ledger, passing, history, TypeOK,
     LockInv, StopInv, PassStopStaysWithPass, launching, InChild, InPass, Holding,
     PassHolding, Driving
<1>24. ASSUME NEW l \in Launches, Fail(l) PROVE PassStopStaysWithPass'
  <2>1. ask' = Nobody
    BY <1>24 DEF Fail, DeclareEnded, DeclarePaused, EmptyInbox
  <2> QED
    BY <2>1, CycleAssumption DEF PassStopStaysWithPass, Commands
<1>25. ASSUME NEW l \in Launches, HostDies(l) PROVE PassStopStaysWithPass'
  BY CycleAssumption, <1>25 DEF HostDies, InHost, ledger, passing, history, TypeOK, LockInv,
     StopInv, PassStopStaysWithPass, launching, InChild, InPass, Holding, PassHolding,
     Driving
<1>26. ASSUME NEW l \in Launches, Dies(l) PROVE PassStopStaysWithPass'
  BY CycleAssumption, <1>26 DEF Dies, Move, InChild, Unlock, ledger, passing, history,
     TypeOK, LockInv, StopInv, PassStopStaysWithPass, launching, InPass, Holding,
     PassHolding, Driving
<1>27. ASSUME NEW p \in Passes, PassAskRead(p) PROVE PassStopStaysWithPass'
  BY CycleAssumption, <1>27 DEF PassAskRead, MovePass, ledger, launching, history, TypeOK,
     LockInv, StopInv, PassStopStaysWithPass, passing, InChild, InPass, Holding,
     PassHolding, Driving
<1>28. ASSUME NEW p \in Passes, PassAskLook(p) PROVE PassStopStaysWithPass'
  BY CycleAssumption, <1>28 DEF PassAskLook, ClaimLive, PassOn, MovePass, ledger, launching,
     history, Live, InChild, TypeOK, LockInv, StopInv, PassStopStaysWithPass, passing,
     InPass, Holding, PassHolding, Driving
<1>29. ASSUME NEW p \in Passes, Register(p) PROVE PassStopStaysWithPass'
  BY CycleAssumption, <1>29 DEF Register, MovePass, ledger, launching, history, TypeOK,
     LockInv, StopInv, PassStopStaysWithPass, passing, InChild, InPass, Holding,
     PassHolding, Driving
<1>30. ASSUME NEW p \in Passes, TakeHold(p) PROVE PassStopStaysWithPass'
  BY CycleAssumption, <1>30 DEF TakeHold, MovePass, ledger, launching, history, TypeOK,
     LockInv, StopInv, PassStopStaysWithPass, passing, InChild, InPass, Holding,
     PassHolding, Driving
<1>31. ASSUME NEW p \in Passes, DropStalePause(p) PROVE PassStopStaysWithPass'
  BY CycleAssumption, <1>31 DEF DropStalePause, MovePass, AckPause, launching, history,
     TypeOK, LockInv, StopInv, PassStopStaysWithPass, ledger, passing, InChild, InPass,
     Holding, PassHolding, Driving
<1>32. ASSUME NEW p \in Passes, EndScoring(p) PROVE PassStopStaysWithPass'
  BY CycleAssumption, <1>32 DEF EndScoring, MovePass, ledger, launching, history, TypeOK,
     LockInv, StopInv, PassStopStaysWithPass, passing, InChild, InPass, Holding,
     PassHolding, Driving
<1>33. ASSUME NEW p \in Passes, LetGo(p) PROVE PassStopStaysWithPass'
  BY CycleAssumption, <1>33 DEF LetGo, MovePass, AckPause, launching, history, TypeOK,
     LockInv, StopInv, PassStopStaysWithPass, ledger, passing, InChild, InPass, Holding,
     PassHolding, Driving
<1>34. ASSUME NEW p \in Passes, Free(p) PROVE PassStopStaysWithPass'
  BY CycleAssumption, <1>34 DEF Free, MovePass, Unlock, ledger, launching, history, TypeOK,
     LockInv, StopInv, PassStopStaysWithPass, passing, InChild, InPass, Holding,
     PassHolding, Driving
<1>35. ASSUME NEW p \in Passes, PassDies(p) PROVE PassStopStaysWithPass'
  BY CycleAssumption, <1>35 DEF PassDies, MovePass, InPass, Unlock, ledger, launching,
     history, TypeOK, LockInv, StopInv, PassStopStaysWithPass, passing, InChild, Holding,
     PassHolding, Driving
<1>36. ASSUME NEW p \in Passes, NEW c \in Stops, Stop(p, c) PROVE PassStopStaysWithPass'
  BY CycleAssumption, <1>36 DEF Stop, PassHolding, ledger, launching, history, TypeOK,
     LockInv, StopInv, PassStopStaysWithPass, passing, InChild, InPass, Holding, Driving
<1>37. ASSUME NEW p \in Passes, SendStop(p) PROVE PassStopStaysWithPass'
  BY CycleAssumption, <1>37 DEF SendStop, ArmPause, launching, history, TypeOK, LockInv,
     StopInv, PassStopStaysWithPass, ledger, passing, InChild, InPass, Holding, PassHolding,
     Driving
<1>38. ASSUME NEW c \in Pauses \cup Answers, Guard(c) PROVE PassStopStaysWithPass'
  BY CycleAssumption, <1>38 DEF Guard, Admitted, ledger, launching, passing, history,
     TypeOK, LockInv, StopInv, PassStopStaysWithPass, InChild, InPass, Holding, PassHolding,
     Driving
<1>39. ASSUME NEW c \in Pauses \cup Answers, Send(c) PROVE PassStopStaysWithPass'
  BY CycleAssumption, <1>39 DEF Send, ArmPause, ArmAnswer, launching, passing, history,
     TypeOK, LockInv, StopInv, PassStopStaysWithPass, ledger, InChild, InPass, Holding,
     PassHolding, Driving
<1>40. ASSUME SweepReadPhase PROVE PassStopStaysWithPass'
  BY CycleAssumption, <1>40 DEF SweepReadPhase, MoveSweep, ledger, launching, passing,
     history, TypeOK, LockInv, StopInv, PassStopStaysWithPass, InChild, InPass, Holding,
     PassHolding, Driving
<1>41. ASSUME SweepReadLock PROVE PassStopStaysWithPass'
  BY CycleAssumption, <1>41 DEF SweepReadLock, MoveSweep, ledger, launching, passing,
     history, TypeOK, LockInv, StopInv, PassStopStaysWithPass, InChild, InPass, Holding,
     PassHolding, Driving
<1>42. ASSUME SweepReadRest PROVE PassStopStaysWithPass'
  BY CycleAssumption, <1>42 DEF SweepReadRest, ClaimLive, MoveSweep, ledger, launching,
     passing, history, Live, InChild, TypeOK, LockInv, StopInv, PassStopStaysWithPass,
     InPass, Holding, PassHolding, Driving
<1>43. ASSUME SweepTake PROVE PassStopStaysWithPass'
  BY CycleAssumption, <1>43 DEF SweepTake, MoveSweep, ledger, launching, passing, history,
     TypeOK, LockInv, StopInv, PassStopStaysWithPass, InChild, InPass, Holding, PassHolding,
     Driving
<1>44. ASSUME SweepScan PROVE PassStopStaysWithPass'
  BY CycleAssumption, <1>44 DEF SweepScan, MoveSweep, ledger, launching, passing, history,
     TypeOK, LockInv, StopInv, PassStopStaysWithPass, InChild, InPass, Holding, PassHolding,
     Driving
<1>45. ASSUME SweepStamp PROVE PassStopStaysWithPass'
  BY CycleAssumption, <1>45 DEF SweepStamp, MoveSweep, DeclareEnded, launching, passing,
     history, NoClaim, EmptyInbox, TypeOK, LockInv, StopInv, PassStopStaysWithPass, ledger,
     InChild, InPass, Holding, PassHolding, Driving
<1>46. ASSUME SweepRelease PROVE PassStopStaysWithPass'
  BY CycleAssumption, <1>46 DEF SweepRelease, MoveSweep, Unlock, ledger, launching, passing,
     history, TypeOK, LockInv, StopInv, PassStopStaysWithPass, InChild, InPass, Holding,
     PassHolding, Driving
<1>47. CASE UNCHANGED vars
  BY CycleAssumption, <1>47 DEF vars, ledger, TypeOK, LockInv, StopInv,
     PassStopStaysWithPass, ledger, launching, passing, history, InChild, InPass, Holding,
     PassHolding, Driving
<1> QED
  BY <1>1, <1>2, <1>3, <1>4, <1>5, <1>6, <1>7, <1>8, <1>9, <1>10, <1>11, <1>12, <1>13,
     <1>14, <1>15, <1>16, <1>17, <1>18, <1>19, <1>20, <1>21, <1>22, <1>23, <1>24, <1>25,
     <1>26, <1>27, <1>28, <1>29, <1>30, <1>31, <1>32, <1>33, <1>34, <1>35, <1>36, <1>37,
     <1>38, <1>39, <1>40, <1>41, <1>42, <1>43, <1>44, <1>45, <1>46, <1>47 DEF Next, AskStep,
     ChildStep, RunStep, Disturbed, PassStep, Sweeps

\* The invariant holds at the start.
LEMMA CycleInit == Init => TypeOK /\ CycleInv
<1> SUFFICES ASSUME Init PROVE TypeOK /\ CycleInv
  OBVIOUS
<1>1. TypeOK
  BY CycleAssumption DEF Init, TypeOK, LaunchStates, SweepStates, NoClaim
<1>2. LockInv /\ StopInv
  BY DEF Init, LockInv, StopInv, Holding, PassHolding, Driving
<1>3. GateInv /\ OneAdmission
  BY DEF Init, GateInv, OneAdmission, HostClaimed
<1>4. RunKeepsItsPhase
  BY DEF Init, RunKeepsItsPhase
<1>5. PassStopStaysWithPass
  BY DEF Init, PassStopStaysWithPass, Driving
<1> QED
  BY <1>1, <1>2, <1>3, <1>4, <1>5 DEF CycleInv

\* The invariant is inductive.
LEMMA CycleStep == TypeOK /\ CycleInv /\ [Next]_vars => TypeOK' /\ CycleInv'
<1> SUFFICES ASSUME TypeOK, CycleInv, [Next]_vars PROVE TypeOK' /\ CycleInv'
  OBVIOUS
<1>1. LockInv /\ GateInv /\ StopInv /\ RunKeepsItsPhase /\ OneAdmission /\ PassStopStaysWithPass
  BY DEF CycleInv
<1>2. TypeOK'
  BY TypeStep
<1>3. LockInv'
  BY <1>1, LockStep
<1>4. GateInv' /\ OneAdmission'
  BY <1>1, GateStep, AdmissionStep
<1>5. StopInv'
  BY <1>1, StopStep
<1>6. RunKeepsItsPhase' /\ PassStopStaysWithPass'
  BY <1>1, <1>3, PhaseStep, PassStopStep
<1> QED
  BY <1>2, <1>3, <1>4, <1>5, <1>6 DEF CycleInv

\* The invariant holds of every behaviour.
THEOREM CycleCorrect == Spec => [](TypeOK /\ CycleInv)
BY CycleInit, CycleStep, PTL DEF Spec

\* Every variable of a cycle's control stays in its domain.
THEOREM CycleTypeCorrect == Spec => []TypeOK
BY CycleCorrect, PTL

\* A run finds its own phase declared, whoever else decided about its cycle, the
\* stops declared with no lock apart.
THEOREM PhaseKept == Spec => []RunKeepsItsPhase
<1>1. CycleInv => RunKeepsItsPhase
  BY DEF CycleInv
<1> QED
  BY <1>1, CycleCorrect, PTL

\* No pass is admitted beside a launch waiting on its claim.
THEOREM AdmittedAlone == Spec => []OneAdmission
<1>1. CycleInv => OneAdmission
  BY DEF CycleInv
<1> QED
  BY <1>1, CycleCorrect, PTL

\* A Stop sent through a pass's hold reaches no run after it, but through the
\* inbox of a dead gate.
THEOREM PassStopKept == Spec => []PassStopStaysWithPass
<1>1. CycleInv => PassStopStaysWithPass
  BY DEF CycleInv
<1> QED
  BY <1>1, CycleCorrect, PTL

================================================================================
