SPECIFICATION FairRetention
CONSTANTS
  flood = flood  copy = copy  p1 = p1  c1 = c1  w1 = w1
  None = None
  Report = {flood, copy}
  Photo = {p1}
  ReportOf <- PhotoOfCopy
  DuplicateOf <- CopyOfFlood
  CreatedAt <- FloodFirst
  RetentionBatch = 2
  Client = {c1}
  Worker = {w1}
  MaxPhotosPerReport = 1
  SlotTTL = 1
  AbandonAfter = 2
  FailedFor = 0
  Lease = 1
  FirstBackoff = 1
  MaxAttempts = 1
INVARIANTS KeptPhotosIntact
PROPERTIES EventuallySettled EventuallyErased
