SPECIFICATION FairSpec
CONSTANTS
  s1 = s1
  s2 = s2
  s3 = s3
  s4 = s4
  root = root
  inner = inner
  NoCap = NoCap
  Uncapped = NoCap
  Sends <- ThreeSends
  Tenant <- TwoTenants
  Hears <- NestedHears
  Need <- Needs
  Bills = {1}
  Ledgers = {root, inner}
  FirstRpm = NoCap
  FirstTpm = NoCap
  Learned <- LearnedCaps
  Window = 2
  Base = 2
  Cap = 3
  RetryAfter = {}
  GiveUpAfter = 5
  Attempts <- Budgets

INVARIANTS WithinAtOnce NoLedgerLeftHeld WindowHoldsCaps
PROPERTIES CooldownRunsItsCourse EverySendEnds
CHECK_DEADLOCK FALSE
