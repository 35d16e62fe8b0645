SPECIFICATION FairSpec
CONSTANTS
  get1 = get1  get2 = get2  None = None
  Request = {get1, get2}
  HistoryHours = 4  ShortWindow = 2  ForecastHours = 2
  RiverPastDays = 3  RiverPeakDays = 2  RiverForecastDays = 2
  MaxObservationAge = 2  MaxClientObservationAge = 2  MaxClientHours = 12
  RiverFreshFor = 1  RiverStaleFor = 1  RetryAfter = 1
  Now = 7  Told <- ToldByHour
  Elevation <- Ground  Flood <- FloodByAge  DayFlood <- FloodAround
  DeviceElevation <- DeviceGround  DeviceFlood <- DeviceCells
  Weathers <- Responses
INVARIANTS ConfidenceHonest DeviceWeatherScored RiverInTime
PROPERTIES EventuallyComplete
