SPECIFICATION Spec
CONSTANTS
  Channels <- OneChannel
  Ids <- OneAndNone
  Handles <- OneChannel
  OffsetMode <- OneChannel
  DefMtu = 2
  Mtus <- TwoWords
  MaxWords = 3
  Offsets <- TwoOffsets
  MaxBusy = 1
  Msgs <- WriteAndRead
  NoMsg = NoMsg
  MaxFaults = 1
VIEW DriverView
INVARIANTS
  OwnsWhatItMoves
  BeginsAtOffset
PROPERTIES
  ReportsWhatMoved
  KeepsService
