SPECIFICATION Spec
CONSTANTS
  Id = {"a", "b", "c", "z"}
  Name = {"x", "y"}
  Part = {"web", "jobs"}
  Configs <- All
INVARIANTS AcceptedSound ExportersFirst RefusedForCause
CHECK_DEADLOCK FALSE
