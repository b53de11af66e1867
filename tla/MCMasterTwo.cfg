SPECIFICATION Spec
CONSTANTS
  Channels <- TwoChannels
  Ids <- TwoChannels
  Handles <- TwoChannels
  OffsetMode <- None
  DefMtu = 1
  Mtus <- OneMtu
  MaxWords = 1
  Offsets <- NoOffset
  MaxBusy = 1
  Msgs <- None
  NoMsg = NoMsg
  MaxFaults = 1
INVARIANTS
  OpenedIsOpen
PROPERTY
  ForeignChannelsUntouched
