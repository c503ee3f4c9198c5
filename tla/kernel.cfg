\* The clock: waits of up to 6 us, 4 cycles, at every point of a day of 8.
\* Conversions with words of 4 and 8 bits.  A start with three devices.  Two
\* contexts over 16 words of memory.
CONSTANTS
  TICKLESS_KERNEL = TRUE
  Day = 8
  Word = 12
  CyclesPerSec = 2
  UsecPerSec = 3
  MaxUsec = 6
  MaxGap = 2
  W32 = 16
  HzMs = 3
  HzUs = 6
  HzNs = 12
  ChipHz = {2, 4, 5}
  MaxTimeout = 8
  Entries <- MCEntries
  NoDevice = NoDevice
  NotRun = NotRun
  Stateless = {"rtc"}
  Sources = {"rtc"}
  Results <- MCResults
  UINT8_MAX = 255
  Slots = 8
  MemBits = 4
  Ctx = {p1, p2}
  TorRegions <- MCTorRegions
  NapotRegions <- MCNapotRegions
  Stack <- MCStack
  Rom <- MCRom
  MaxAdds = 2
  MaxInits = 1
SYMMETRY Sym
SPECIFICATION MCSpec
INVARIANTS
  WaitInTime ElapsedInDay
  ConversionExact
  ReadyIsInitialised EnabledCanWake
  AsAdded ValidateAgrees
