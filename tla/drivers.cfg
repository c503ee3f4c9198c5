\* Four callbacks; reads of up to three samples while the BLE library measures; a
\* FIFO of three places; all clock sources, formats of every kind.
CONSTANTS
  Node = {c1, c2, c3, c4}
  NULL = NULL
  HandlersAnytime = FALSE
  PortPins <- MCPortPins
  SUPPORT_INTERRUPT = TRUE
  BleTemp = TRUE
  Channels = {0}
  BadChannel = 2
  Gain = {"1/6", "1"}
  Calibrate = {FALSE}
  MaxExtra = 2
  BufLen = 2
  MaxRepeat = 1
  None = None
  FIFO_SIZE = 3
  TRIG = 2
  MaxFill = 2
  MaxSize = 2
  MaxRead = 4
  Source <- MCSource
  Mode <- MCMode
  Div <- MCDiv
  Mhz <- MCMhz
  Requests <- MCRequests
  Nothing = Nothing
SPECIFICATION MCSpec
INVARIANTS
  FiredOnce RegisteredListed EventReported TriggerAsAsked
  NoOverrun AllSamplesWritten
  NoneLostOut ReadInOrder
  FormatWritten RateNearest
PROPERTIES ReadCompletes MeasurementEnds FillEnds
