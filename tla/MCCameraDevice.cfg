SPECIFICATION FairSpec
CONSTANTS
  Callers = {m, s}
  Manager = m
  Stopper = s
  Pids = {p1, p2}
  NoPid = NoPid
  Helpers = {h1, h2}
  NoHelper = NoHelper
INVARIANTS
  TypeOK
  Tracked
  OneWriter
  OwnCameraGone
  LaunchedOnReady
PROPERTIES
  OperationsEnd
