CONSTANTS
  NBuffers = 10
  BuffersPerSlab = 2
  NUsersMax = 2
  Caches <- MCPorts
  NPorts = 2
  NThreads = 2
  fill_size = 2
  tx_size = 2
  comp_size = 1
  NoBuffer = NoBuffer
SPECIFICATION Spec
INVARIANTS
  ForwardInv
PROPERTIES
  PoolSpec
VIEW CountView
