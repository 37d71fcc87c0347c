SPECIFICATION Spec
CONSTANTS
  u1 = u1
  u2 = u2
  r1 = r1
  r2 = r2
  p1 = p1
  p2 = p2
  Users = {u1}
  Replicas = {r1, r2}
  Plans = {p1, p2}
  PlanOptions <- MCOptionsAll
  InitialPlans <- MCPlans2
  Subscribed = {u1}
  MayFail = {u1}
  Backoffs <- MCBackoffs
  OpBackoff = 1
  Century = 10
  Starts = {0}
  Batch = 2
  Faults <- SafetyFaults
  MaxTime = 3
  MaxTx = 3
  MaxBumps = 1
  MaxCalls = 2
  MaxCrashes = 1
SYMMETRY MCSymmetry
INVARIANTS
  TypeOK
  NoPullLost
  OneOpenPull
  
  
  PastDueOnLadder
PROPERTIES
  RecordedOnce
  ImplementsLedger
CHECK_DEADLOCK FALSE
