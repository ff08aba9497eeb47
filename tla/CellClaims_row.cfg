SPECIFICATION ClaimsSpec
CONSTANTS
  w1 = w1
  w2 = w2
  w3 = w3
  x = x
  y = y
  Walks <- TwoWalks
  Cells = {x, y}
  Panel <- Crossed
  Depth = 2
  LockInodes = {1, 2, 3}
  MaxFaults = 2
INVARIANTS RowIsShared
CHECK_DEADLOCK FALSE
