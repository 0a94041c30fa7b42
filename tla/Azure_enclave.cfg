SPECIFICATION FairSpec
CONSTANTS
  HasInput = TRUE
  MaxFaults = 3
  MaxEdits = 3
INVARIANTS CompleteIsReal IdentityIsReal
PROPERTIES Settles
CHECK_DEADLOCK FALSE
