SPECIFICATION FairSpec
CONSTANTS
  Job = {j1}
  Kinds = {"provision"}
  Backends = {"atomic"}
  Hangs = TRUE
  Operator = FALSE
  MaxFaults = 0
PROPERTIES HungIsKilled
CHECK_DEADLOCK FALSE
