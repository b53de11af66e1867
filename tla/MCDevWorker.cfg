CONSTANTS
  t1 = t1
  t2 = t2
  t3 = t3
  Clients = {t1, t2, t3}
  none = none
  term = term
SPECIFICATION LiveSpec
INVARIANTS
  OneOwner
  UnitInUse
PROPERTY
  CallsEnd
CHECK_DEADLOCK FALSE
