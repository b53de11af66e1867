SPECIFICATION DevSpec
CONSTANTS
  Channels <- MCChannels
  Ids <- MCIds
  DefMtu = 1
  Mtus <- MCMtus
  MaxWords = 1
  Offsets <- MCOffsets
  MaxBusy = 1
INVARIANTS
  HandlerInStep
  ErrorBitTellsTruth
PROPERTY
  TransferKept
