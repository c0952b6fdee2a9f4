\* All traffic; the interrupt is not taken between the broadcast of - and the flag's set.
SPECIFICATION FlowFairSpec
CONSTANTS
  Size = 4
  FifoLen = 2
  Thresh = 1
  Lens <- MCLens
  Windows <- AllWindows
  MaxBytes = 7
  SockLens <- MCSockLens
  OtherLens <- MCOtherLens
  LowWater = 2
  SetWindow = FALSE
  Reloads = TRUE
CHECK_DEADLOCK FALSE
INVARIANTS TxArmed NeverOvercommitted XonOwed NothingLost
PROPERTY Resumes
