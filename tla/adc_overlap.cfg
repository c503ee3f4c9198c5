\* A measurement of the BLE library falls into a read of the application.
CONSTANTS
  SUPPORT_INTERRUPT = TRUE
  BleTemp = TRUE
  Channels = {0, 1}
  BadChannel = 2
  Gain = {"1/6", "1/4", "1/2", "1", "2"}
  Calibrate = {FALSE}
  MaxExtra = 2
  BufLen = 2
  MaxRepeat = 2
  None = None
SPECIFICATION AdcSpec
INVARIANTS ReadFilled
