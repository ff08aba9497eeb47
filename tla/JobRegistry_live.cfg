SPECIFICATION AskedSpec
CONSTANTS
  s1 = s1
  s2 = s2
  u1 = u1
  u2 = u2
  Child = Child
  Nobody = Nobody
  MaxJobs = 3
  Capacity = 2
  UserLimit = 3
  Servers = {s1, s2}
  Users = {u1,u2}
  Kinds = {"arms"}
  Disturb = {"interrupt","limits"}
  Code <- MCCode
PROPERTIES QueueDrains SlotsComeBack
CONSTRAINT Explored
CHECK_DEADLOCK FALSE
