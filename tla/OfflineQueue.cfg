SPECIFICATION FairSpec
CONSTANTS
  flood = flood  road = road  p1 = p1
  Nil = Nil
  Report = {flood, road}
  Photo = {p1}
  PhotosOf <- OnePhoto
  MAX_RETRIES = 2
  MaxFaults = 2
INVARIANTS NothingLost FiledOnce PhotosSurvive
PROPERTIES EventuallyEmptied
