SPECIFICATION StorageSpec
CONSTANTS
  MaxFree = 32
  HdrSize = 6
  Requests <- MCRequests
  Chips = {"mk20", "avr"}
  Table <- MCTable
  Total <- MCTotal
  Settings <- MCSettings
  MaxVersion = 3
  MaxCluster = 7
  Epb = 3
  MaxChain = 4
  MaxPerClus = 2
  MaxDir = 3
  Map = 2
  MapEntry = 2
  CardKinds = {"mmc", "sd", "sdhc", "none"}
  Blocks = 2
  BlockSize = 2
  Values = {"x"}
  Retries = 2
  IdleRetries = 2
  MaxFaults = 3
INVARIANTS
  Apart
  Reusable
  ReadsBack
  StartsFromSync
  ValidIsSafe
  ReadsTheFile
  BusIsFree
  ReadsWhatWasWritten
CHECK_DEADLOCK FALSE
