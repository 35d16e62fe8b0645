SPECIFICATION Spec
CONSTANTS
  r1 = r1  r2 = r2  r3 = r3  m1 = m1  m2 = m2  i1 = i1  i2 = i2  a1 = a1  a2 = a2
  None = None
  Report = {r1, r2, r3}
  Moderator = {m1}
  Instance = {i1}
  Account = {a1, a2}
  Group = {"water"}
  Note = {"t1", "t2", "t3"}
  County = {"Kisumu"}
  Contents <- Loner
  SimilarText <- NearTexts
  SimilarTextRadius = 0
  SameReporterRadius = 1
  CorroborationRadius = 2
  SameReporterWindow = 1
  SimilarTextWindow = 2
  CorroborationWindow = 1
  VerifyLookback = 3
  CandidateLimit = 3
  VerifyBatch = 3
  MaxTime = 0
  MaxEvents = 1
INVARIANTS TypeOK FlatDuplicates AutoVerifiedOnEvidence
CHECK_DEADLOCK FALSE
