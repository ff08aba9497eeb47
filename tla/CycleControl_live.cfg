SPECIFICATION FairSpec
CONSTANTS
  l1 = l1
  l2 = l2
  p1 = p1
  c1 = c1
  c2 = c2
  c3 = c3
  Nobody = Nobody
  Sweep = Sweep
  Launches = {l1, l2}
  Passes = {}
  Pauses = {c1}
  Stops = {}
  Answers = {c3}
PROPERTIES
  DeadRunStamped
  PauseStops
CHECK_DEADLOCK FALSE
