SPECIFICATION Spec
CONSTANTS
  Clients = {c1}
  Watches = {w1, w2}
  Serials = {s1}
  MaxAttempts = 1
  NoProc = NoProc
  NoSerial = NoSerial
PROPERTIES
  MicStopsWithCamera
