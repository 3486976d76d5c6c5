SPECIFICATION FairSpec
CONSTANTS
  PoolSize = 2
  Budget = 2
  Lockup = 0
  NCpus = 1
  Senders = {0, 1}
  MaxTimeouts = 0
  NULL = NULL
PROPERTIES LoopedBack
CHECK_DEADLOCK FALSE
