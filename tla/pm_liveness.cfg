\* Fair behaviours.
CONSTANTS
  Day = 6
  Word = 9
  UsecPerTick = 2
  UsecWord = 64
  PM_IDLE_USEC = 5
  PM_ACTIVE_USEC = 3
  Latency = 2
  Residency = 2
  MaxLocks = 1
  Lockable = {}
  Notifiers = {}
  HasEntry = {}
  HasExit = {}
  CallerIrqs = {"open", "locked"}
  MaxRun = 1
SPECIFICATION FairSpec
PROPERTIES SuspendReturns
