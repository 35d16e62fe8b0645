SPECIFICATION FairSpec
CONSTANTS
  r1 = r1  r2 = r2  p1 = p1  p2 = p2  p3 = p3  i1 = i1  i2 = i2  m1 = m1
  None = None
  Report = {r1}
  Moderator = {m1}
  County <- Kisumu
  Responder = {p1, p2, p3}
  Desk <- Desks
  Webhooks = {"Kisumu"}
  Instance = {i1, i2}
  Lookback = 1
  MaxAttempts = 3
  MaxBackoff = 2
  Batch = 1
  MaxFaults = 1
INVARIANTS ResponseTrail AnnouncedOnce
PROPERTIES RespondedInScope EventuallySettled
