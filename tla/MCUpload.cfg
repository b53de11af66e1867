CONSTANTS
  Sizes = {1, 2, 3, 4, 5, 6}
  Buffer = 3
  Polls = 7
  Ends = 3
  BusyPolls = 2
  Key <- MCKey
  Lines <- MCLines
  Readable = {"g", "o"}
  Wants = {2, 6, 8}
  MaxUses = 3
SPECIFICATION UploadSpec
INVARIANT OkMeansRead
PROPERTY ReaderGetsImage
CHECK_DEADLOCK FALSE
