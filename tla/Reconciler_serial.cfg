SPECIFICATION FairSpec
CONSTANTS
  a = a
  b = b
  p1 = p1
  p2 = p2
  Enclave = {a, b}
  Part = {p1}
  Request = {r1}
  Imports <- OneImport
  ExportOf <- ExportsP1
  Removable = {b}
  DriverSets <- SomeDrivers
  Ops <- EveryOp
  ResourcesOnly <- Never
  Overlap = FALSE
  Reverts = FALSE
  MaxVersion = 2
  MaxFaults = 1
INVARIANTS SerialInv LoopInv
PROPERTIES RecordedBeforeCreated ConvergedWhenClean NoSilentForget PartitionLifecycle RequestsEnd EventuallyApplied
