SPECIFICATION FairSpec
CONSTANTS
  a1 = a1  d1 = d1  t1 = t1  s1 = s1  i1 = i1  i2 = i2
  home = home
  None = None
  Account = {a1}
  Device = {d1}
  Token = {t1}
  Sub = {s1}
  Owner <- OneSub
  Place = {home}
  Setting <- Settings
  Forecast = {1, 3}
  Instance = {i1, i2}
  DayLength = 2
  RenotifyAfter = 1
  MaxSubscriptions = 1
  MaxFaults = 1
INVARIANTS SilenceEarned QuietHoursKept
PROPERTIES NeverTwiceWithoutFault EventuallyAlerted
