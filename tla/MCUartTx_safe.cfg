\* UART0 transmitter, interrupt taken at: SafeWindows.
SPECIFICATION FairSpec
CONSTANTS
  Size = 5
  FifoLen = 3
  Thresh = 2
  Lens <- MCLens
  Windows <- SafeWindows
  MaxBytes = 10
INVARIANTS TypeOK WireInOrder
PROPERTY ImplementsQueue
CHECK_DEADLOCK FALSE
