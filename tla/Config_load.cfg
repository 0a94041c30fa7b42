SPECIFICATION LoaderSpec
CONSTANTS
  Dir <- TheDirs
  Root = "enclaves"
  Parent <- TheParent
  IdOf <- TheIds
  Stored <- TheStored
  Kinds = {"none", "enclave", "misfit", "broken", "partition", "badpartition", "bare"}
  MaxFaults = 1
INVARIANTS WalkInv LoadsThemAll TornOnlyIfUndeclared
CHECK_DEADLOCK FALSE
