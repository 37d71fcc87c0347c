SPECIFICATION FairSpec
CONSTANTS
  r1 = r1
  r2 = r2
  none = none
  Replicas = {r1, r2}
  NoReplica = none
  LockTTL = 6
  Renew = 2
  Slack = 1
  Batch = 2
  MaxFaults = 1
  MaxPauses = 1
  MaxCrashes = 1
INVARIANTS
  TypeOK
PROPERTIES
  ImplementsMutex
  StartsAsHolder
  DeadHolderLosesKey
  
