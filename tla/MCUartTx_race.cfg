\* UART0 transmitter, interrupt taken at: AllWindows.
SPECIFICATION FairSpec
CONSTANTS
  Size = 3
  FifoLen = 2
  Thresh = 1
  Lens <- MCLensSmall
  Windows <- AllWindows
  MaxBytes = 5
INVARIANT WireInOrder
CHECK_DEADLOCK FALSE
