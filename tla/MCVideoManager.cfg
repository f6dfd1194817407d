SPECIFICATION FairSpec
CONSTANTS
  Clients = {c1, c2}
  Watches = {w1, w2}
  Serials = {s1, s2}
  MaxAttempts = 3
  NoProc = NoProc
  NoSerial = NoSerial
INVARIANTS
  TypeOK
  OneWatch
  NoStrayCamera
  QuietWhenStopped
  WatchedWhileRunning
  NotOverwritten
PROPERTIES
  NeverReplacesLiveCamera
  ImplementsCameraService
  RequestsAnswered
  LostCameraResolved
