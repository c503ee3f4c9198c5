\* A wait over the end of the day.
CONSTANTS
  TICKLESS_KERNEL = TRUE
  Day = 8
  Word = 12
  CyclesPerSec = 2
  UsecPerSec = 3
  MaxUsec = 6
  MaxGap = 2
SPECIFICATION Spec
INVARIANTS WaitAcrossRollover
