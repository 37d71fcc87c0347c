SPECIFICATION FairSpec
CONSTANTS
  u1 = u1
  u2 = u2
  r1 = r1
  r2 = r2
  p1 = p1
  p2 = p2
  Users = {u1, u2}
  Replicas = {r1, r2}
  Plans = {p1}
  PlanOptions <- MCOptionsMixed
  InitialPlans <- MCPlans1
  Subscribed = {u1, u2}
  MayFail = {u1}
  Backoffs <- MCBackoffs
  OpBackoff = 1
  Century = 10
  Starts = {0}
  Batch = 1
  Faults <- NoFaults
  MaxTime = 2
  MaxTx = 4
  MaxBumps = 0
  MaxCalls = 1
  MaxCrashes = 1
INVARIANTS
  OncePerDate
PROPERTIES
  InFlightResolved
  DueServed
CHECK_DEADLOCK FALSE
