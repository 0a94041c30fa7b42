SPECIFICATION Spec
CONSTANTS
  Enclave = {e1}
  Part = {p1, p2}
  Value = {v1, v2}
  Caller = {c1, c2}
  Postgres = TRUE
SYMMETRY Symmetry
PROPERTY AtomicUnlessOvertaken
