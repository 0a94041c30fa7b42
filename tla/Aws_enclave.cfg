SPECIFICATION Spec
CONSTANTS
  e1 = e1
  e2 = e2
  a1 = a1
  Enclave = {e1, e2}
  Account = {a1}
  AccountOf <- OneAccount
  HasInput <- FirstHas
  MaxFaults = 5
  MaxEdits = 4
INVARIANTS MadeOnce CompleteIsReal RoleIsReal
CHECK_DEADLOCK FALSE
