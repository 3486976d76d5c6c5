SPECIFICATION FairUpSpec
CONSTANTS
  PoolSize = 2
  Budget = 2
  Lockup = 0
  NCpus = 2
  Senders = {0, 1}
  MaxTimeouts = 0
  NULL = NULL
PROPERTIES LoopedBack
CHECK_DEADLOCK FALSE
