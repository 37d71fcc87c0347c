SPECIFICATION FairSpec
CONSTANTS
  u1 = u1
  u2 = u2
  r1 = r1
  r2 = r2
  p1 = p1
  p2 = p2
  Users = {u1}
  Replicas = {r1}
  Plans = {p1}
  PlanOptions <- MCOptionsToggle
  InitialPlans <- MCPlans1
  Subscribed = {u1}
  MayFail = {u1}
  Backoffs <- MCBackoffs
  OpBackoff = 1
  Century = 10
  Starts = {0}
  Batch = 2
  Faults <- DropOnly
  MaxTime = 2
  MaxTx = 2
  MaxBumps = 0
  MaxCalls = 0
  MaxCrashes = 1
PROPERTIES
  ResolveReturns
CHECK_DEADLOCK FALSE
