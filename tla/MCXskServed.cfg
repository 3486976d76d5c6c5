CONSTANTS
  NBuffers = 10
  BuffersPerSlab = 2
  NUsersMax = 2
  Caches <- MCPorts
  NPorts = 2
  NThreads = 1
  fill_size = 1
  tx_size = 1
  comp_size = 1
  NoBuffer = NoBuffer
SPECIFICATION FairSpec
PROPERTIES PortsServed
VIEW CountView
