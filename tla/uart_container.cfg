\* A FIFO of three places with an interrupt at two.
CONSTANTS
  FIFO_SIZE = 3
  TRIG = 2
  MaxFill = 2
  MaxSize = 2
  MaxRead = 4
SPECIFICATION UartSpec
INVARIANTS ReadWithinContainer
