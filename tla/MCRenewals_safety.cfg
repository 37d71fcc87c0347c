SPECIFICATION FairSpec
CONSTANTS
  BaseYear = 2028
  u1 = u1
  u2 = u2
  basic = basic
  pro = pro
  Users = {u1}
  Plans = {basic, pro}
  Price <- MCPrice
  Period <- MCPeriod
  Start <- MCStart
  Clock <- MCClock
  Backoffs <- MCBackoffs
  Batch = 1
  MaxCalls = 4
  MaxGlitches = 1
INVARIANTS
  TypeOK
  
  
  
  LoadedAreDue
PROPERTIES
  PendingServed
CHECK_DEADLOCK FALSE
