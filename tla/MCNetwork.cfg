SPECIFICATION NetworkSpec
CONSTANTS
  Width <- MCWidth
  Words = {0, 1}
  Blocks <- MCBlocks
  MsgMax = 3
  SrvMax = 2
  MaxCalls = 3
  MaxFaults = 2
  None = None
  RxStop = 15
  RamEnd = 19
  EncHdr = 2
  EncCrc = 2
  Frames <- MCFrames
  MaxRead = 2
  MaxQueue = 3
  Sockets = {0, 1}
  Mem = 8
  Counters = 16
  UdpHdr = 2
  EthHdr = 1
  Packets <- MCPackets
  MaxPackets = 3
  MaxTimeouts = 1
INVARIANTS
  OkIsForThisCall
  TakenWhole
  OkWhenSent
PROPERTY ImplementsRemote
CHECK_DEADLOCK FALSE
