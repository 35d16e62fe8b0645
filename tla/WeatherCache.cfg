SPECIFICATION Spec
CONSTANTS
  near1 = near1
  near2 = near2
  far = far
  cellA = cellA
  cellB = cellB
  None = None
  Callers = {near1, near2, far}
  Cells = {cellA, cellB}
  CellOf <- Place
  FreshFor = 2
  StaleFor = 3
  MaxEntries = 1
  BreakerThreshold = 2
  BreakerCooldown = 2
  MaxRequestsPerMinute = 2
  Minute = 2
  FetchTimeout = 1
  Attempts = 2
INVARIANTS
  SingleProbe
  AnswersInTime
  NoLostWaiter
  RequestsBounded
PROPERTIES
  MonotonicAnswers
SYMMETRY Neighbours
