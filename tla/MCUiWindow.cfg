SPECIFICATION Spec
CONSTANTS
  Endpoints = {home, other}
  Own = home
  NoEndpoint = empty
  Attempts = 2
  MaxMoves = 2
  Listed = {"usb", "wifi"}
CHECK_DEADLOCK FALSE
INVARIANTS
  TypeOK
  NoReadLost
  ShownIsTrue
  LabelIsForEntry
  BusyHasCause
