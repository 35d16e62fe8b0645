SPECIFICATION Spec
CONSTANTS
  r1 = r1  p1 = p1  p2 = p2  w1 = w1  w2 = w2  c1 = c1  c2 = c2
  None = None
  Report = {r1}
  Photo = {p1, p2}
  ReportOf <- OneReport
  Client = {c1, c2}
  Worker = {w1, w2}
  MaxPhotosPerReport = 1
  SlotTTL = 1
  AbandonAfter = 2
  FailedFor = 0
  Lease = 2
  FirstBackoff = 1
  MaxAttempts = 2
INVARIANTS PublishedClean OneWorkerPerPhoto SlotsBounded
SYMMETRY Peers
