SPECIFICATION FairSpec
CONSTANTS
  BaseFees = {2, 10, 40}
  Tips = {1, 3}
  MaxBumps = 2
  MaxAttempts = 6
  MaxMoves = 3
  MaxErrors = 2
INVARIANTS
  TypeOK
  OffersItsFee
PROPERTIES
  
  
  Returns
CHECK_DEADLOCK FALSE
