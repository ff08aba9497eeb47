SPECIFICATION Spec
CONSTANTS
  s1 = s1
  s2 = s2
  u1 = u1
  u2 = u2
  Child = Child
  Nobody = Nobody
  MaxJobs = 2
  Capacity = 1
  UserLimit = 1
  Servers = {s1, s2}
  Users = {u1, u2}
  Kinds = {"launch", "pass", "embedded"}
  Disturb = {"interrupt", "limits"}
  Code <- MCCode
SYMMETRY Accounts
INVARIANTS
  TypeOK
  SlotsWithinCapacity
  AccountWithinLimit
  LandingExcludesOldCode
  RunsAreRegistered
  OneWorker
CHECK_DEADLOCK FALSE
