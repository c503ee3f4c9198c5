\* A request that ends in the first ticks of a day.
CONSTANTS
  Day = 8
  Word = 11
  UsecPerTick = 2
  UsecWord = 64
  PM_IDLE_USEC = 5
  PM_ACTIVE_USEC = 3
  Latency = 2
  Residency = 2
  MaxLocks = 1
  Lockable = {}
  Notifiers = {}
  HasEntry = {}
  HasExit = {}
  CallerIrqs = {"open"}
  MaxRun = 1
SPECIFICATION Spec
INVARIANTS AlarmInTime
