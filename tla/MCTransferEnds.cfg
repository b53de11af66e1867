SPECIFICATION FairSpec
CONSTANTS
  Channels <- OneChannel
  Ids <- OneAndNone
  Handles <- OneChannel
  OffsetMode <- None
  DefMtu = 1
  Mtus <- OneMtu
  MaxWords = 1
  Offsets <- NoOffset
  MaxBusy = 1
  Msgs <- SmallWrite
  NoMsg = NoMsg
  MaxFaults = 0
PROPERTY
  TransferEnds
