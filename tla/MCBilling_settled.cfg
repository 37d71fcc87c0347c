SPECIFICATION Spec
CONSTANTS
  u1 = u1
  u2 = u2
  r1 = r1
  r2 = r2
  p1 = p1
  p2 = p2
  Users = {u1}
  Replicas = {r1}
  Plans = {p1, p2}
  PlanOptions <- MCOptionsTwo
  InitialPlans <- MCPlans2
  Subscribed = {u1}
  MayFail = {u1}
  Backoffs <- MCBackoffs
  OpBackoff = 1
  Century = 10
  Starts = {0}
  Batch = 2
  Faults <- NoFaults
  MaxTime = 3
  MaxTx = 3
  MaxBumps = 1
  MaxCalls = 2
  MaxCrashes = 1
INVARIANTS
  SettledAsBroadcast
CHECK_DEADLOCK FALSE
