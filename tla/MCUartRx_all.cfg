\* Both senders, fair scheduling.
SPECIFICATION FairSpec
CONSTANTS
  Size = 5
  FifoLen = 3
  FullThres = 2
  Chunk = 2
  QueueLen = 2
  MaxBytes = 9
  Paces <- BothSenders
CHECK_DEADLOCK FALSE
INVARIANTS TypeOK NothingForgotten NeverDiscards
PROPERTIES ImplementsQueue AllParsed
