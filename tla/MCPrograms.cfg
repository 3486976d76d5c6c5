SPECIFICATION ProgramsSpec
CONSTANTS
  NBuffers = 5
  BuffersPerSlab = 2
  NUsersMax = 2
  Caches = {c1, c2}
  SfPeers = {1,2}
  SfAttempts = 1
  SfChats = 1
  MaSize = 5
  MaHeight = 3
  SlLength = 5
  SlDigits = 2
  VcPrograms = {"string", "int", "pushback", "append", "pushback2","grep","grepint"}
  VcValues = {1,2}
  VcSize = 3
  VcBlocks = 7
  CfPrograms = {"cbc","gcm","asym"}
  CfRuns = 5
  CfKills = 2
  CdBytes = {0, 1, 15, 43, 37, 97, 175, 255}
  CdWords = {0, 1, 32768, 65535}
  CdLength = 3
  CdBlockSize = 2
  MAX_STDINPUT_WIDTH = 3
INVARIANTS
  PoolInv
  EmptySlabGuaranteed
  MaxAreaRight
  
  
  
PROPERTIES
  OnlyFreeLosesBuffers
  
  
VIEW ProgramsView
