SPECIFICATION Spec
CONSTANTS
  l1 = l1
  l2 = l2
  p1 = p1
  c1 = c1
  c2 = c2
  c3 = c3
  Nobody = Nobody
  Sweep = Sweep
  Launches = {l1, l2}
  Passes = {p1}
  Pauses = {}
  Stops = {c2}
  Answers = {c3}
SYMMETRY Symmetric
INVARIANTS
  TypeOK
  RunKeepsItsPhase
  OneAdmission
  PassStopStaysWithPass
CHECK_DEADLOCK FALSE
