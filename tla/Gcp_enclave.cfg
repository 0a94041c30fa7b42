SPECIFICATION FairSpec
CONSTANTS
  e1 = e1
  p1 = p1
  Enclave = {e1}
  Project = {p1}
  ProjectOf <- OneProject
  Wants <- Everything
  MaxFaults = 4
  MaxEdits = 4
INVARIANTS TypeOK CompleteIsReal
PROPERTY Settles
CHECK_DEADLOCK FALSE
