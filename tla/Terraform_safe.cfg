SPECIFICATION FairSpec
CONSTANTS
  Job = {j1, j2}
  Kinds = {"provision", "teardown"}
  Backends = {"atomic", "postgres"}
  Hangs = TRUE
  Operator = TRUE
  MaxFaults = 2
INVARIANTS OneWriter StateTellsTruth RunsTruthful
PROPERTIES NoLostState ReleasedByOwner JobsEnd
CHECK_DEADLOCK FALSE
