SPECIFICATION FairSpec
CONSTANTS
  p1 = p1
  p2 = p2
  a1 = a1
  Phones = {p1, p2}
  Addrs = {a1}
  Owner <- MCOwner
  Others = {w}
  Commands = {c}
  Looks = 2
  Dials = 2
  None = None
INVARIANTS
  TypeOK
  PickIsReady
PROPERTIES
  StartsAskedPhone
  HandlersAdvance
  RequestsAnswered
