SPECIFICATION Spec
CONSTANTS
  None = None
  Device = {d1, d2}
  Pair = {p1, p2, p3}
  Request = {q1, q2}
SYMMETRY Interchangeable
INVARIANTS FamilyIsChain RevocationComplete
CHECK_DEADLOCK FALSE
