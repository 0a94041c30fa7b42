SPECIFICATION Spec
CONSTANTS
  a = a
  b = b
  p1 = p1
  p2 = p2
  Enclave = {a}
  Part = {p1}
  Request = {r1}
  Imports <- NoImports
  ExportOf <- ExportsP1
  Removable = {a}
  DriverSets <- AllDrivers
  Ops <- JustApply
  ResourcesOnly <- Never
  Overlap = FALSE
  Reverts = TRUE
  MaxVersion = 3
  MaxFaults = 1
PROPERTIES CleanApplyIsActive
