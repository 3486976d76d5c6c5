SPECIFICATION DwSpec
CONSTANTS DwModules={"kthread"}
 DwCpus = 1
 DwPresses = 4

PROPERTIES KthreadStopReturns
CHECK_DEADLOCK FALSE
