SPECIFICATION WlSpec
CONSTANTS
  Requests = {r1, r2}
  MayUnload = TRUE
  Quiet = FALSE
  WlNULL = NULL
INVARIANTS NoWorkAfterFree
CHECK_DEADLOCK FALSE
