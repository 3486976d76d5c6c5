SPECIFICATION NetworkSpec
CONSTANTS
  NBuffers = 4
  BuffersPerSlab = 1
  NUsersMax = 1
  Caches <- MCPorts
  NPorts = 1
  NThreads = 1
  fill_size = 1
  tx_size = 1
  comp_size = 1
  NoBuffer = NoBuffer
  DtlsClients = {c1}
  DtlsStrays = {x1}
  DtlsMessages = 2
  DtlsMaxTimeouts = 2
  DtlsMaxFaults = 2
  DtlsNone = None
  TlsPrograms = {"tcp","ctx"}
  TlsMessages = 3
  TsMaxConn = 3
  TsSessions = 6
  EsPrograms = {"select","poll","epoll","thread"}
  EsClients = {1,2}
  EsMessages = 1
  EsMaxConn = 1
  EsMaxEvents = 2
  TcPrograms = {"select","poll","epoll","thread"}
  TcRounds = 3
  CONF_RING_FRAMES = 2
  PrPackets = 3
  PrSendFaults = 1
  PrSignals = 1
  HtPrograms = {"fork","uring"}
  HtConns = 3
  MAX_CONNECTIONS = 2
  NcBuff = 2
  NcLines = 3
  NcContent = 2
  WsPrograms = {"client","server"}
  WsFrames = 3
  WsPings = 1
  WsBottles = 2
  WsThreads = {1,2}
  WsConnects = 3
  XdPrograms = {"dev","xsk","def","block","allow"}
  XdAddresses = {1,2}
  XdPorts = {0,256,9999}
  XdChecks = {1,255,256,4095,65534,65535}
  XdMapIds = 2
INVARIANTS
  DtlsInv
  
  TsTableKept
  
  PrShownOnce
  HtInv
  
  WsInv
  
PROPERTIES
  PacketsForwarded
  DtlsProgress
  
  
  PrSentIntact
  
  NcLossNoticed
