SPECIFICATION IamSpec
CONSTANTS
  q1 = q1
  q2 = q2
  o1 = o1
  o2 = o2
  Partition = {q1, q2}
  Other = {o1, o2}
  MaxFailures = 2
  MaxChanges = 3
SYMMETRY Symmetry
INVARIANTS PolicyIsMeant Ensured
