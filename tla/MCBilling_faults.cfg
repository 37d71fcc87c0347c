SPECIFICATION Spec
CONSTANTS
  u1 = u1
  u2 = u2
  r1 = r1
  r2 = r2
  p1 = p1
  p2 = p2
  Users = {u1}
  Replicas = {r1, r2}
  Plans = {p1}
  PlanOptions <- MCOptionsFixed
  InitialPlans <- MCPlans1
  Subscribed = {u1}
  MayFail = {}
  Backoffs <- MCBackoffs
  OpBackoff = 1
  Century = 10
  Starts = {0}
  Batch = 2
  Faults <- LossFaults
  MaxTime = 1
  MaxTx = 2
  MaxBumps = 2
  MaxCalls = 1
  MaxCrashes = 1
SYMMETRY MCSymmetry
INVARIANTS
  
  PollsNewestVersion
CHECK_DEADLOCK FALSE
