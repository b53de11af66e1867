SPECIFICATION FairSpec
CONSTANTS
  Channels <- OneChannel
  Ids <- OneAndNone
  Handles <- OneChannel
  OffsetMode <- None
  DefMtu = 1
  Mtus <- OneMtu
  MaxWords = 2
  Offsets <- NoOffset
  MaxBusy = 1
  Msgs <- SmallRead
  NoMsg = NoMsg
  MaxFaults = 1
PROPERTY
  WorkEnds
