SPECIFICATION MCSpec
CONSTANTS
  Programs = {p, q}
  other = other
  none = none
INVARIANTS
  TimeoutsAreOwn
  NoTriggerLost
  GivesAllBack
PROPERTY
  CallsReturn
