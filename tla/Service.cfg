SPECIFICATION Spec
CONSTANTS
  old = old  new = new  first = first  second = second  None = None
  Instance = {old, new}
  Callback = {first, second}
  Latest = 3  Legacy = 1  Known <- Release
  PerMinute = 1  ReportsPerHour = 1  Window = 2
  HealthInterval = 1  DrainDelay = 2  ShutdownTimeout = 1
  MaxStarts = 4
SYMMETRY Callers
INVARIANTS SchemaInStep NothingRefused OneAccountPerPhone ReportsLimited
