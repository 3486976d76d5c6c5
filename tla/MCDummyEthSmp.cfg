SPECIFICATION Spec
CONSTANTS
  PoolSize = 2
  Budget = 2
  Lockup = 2
  NCpus = 2
  Senders = {0}
  MaxTimeouts = 1
  NULL = NULL
INVARIANTS SmpInv
CHECK_DEADLOCK FALSE
