\* One notifier, one lock on each sleep state, callers of both kinds; a day of 6 ticks,
\* of which the microseconds of more than 4 do not fit their word.
CONSTANTS
  Day = 6
  Word = 9
  UsecPerTick = 2
  UsecWord = 9
  PM_IDLE_USEC = 5
  PM_ACTIVE_USEC = 3
  Latency = 2
  Residency = 2
  MaxLocks = 1
  Lockable = {"SUSPEND_TO_RAM", "SUSPEND_TO_IDLE"}
  Notifiers = {n1}
  HasEntry = {n1}
  HasExit = {n1}
  CallerIrqs = {"open", "locked"}
  MaxRun = 1
SPECIFICATION Spec
INVARIANTS TypeOK NoOversleep CleanReturn NotifierPaired ReturnCode ChosenNotLocked
