SPECIFICATION Spec
CONSTANTS
  Clients = {c1, c2}
  ModuleIds = {m1, m2, m3, m4}
  Nobody = Nobody
  ToolSets = {{"pactl"}, {"pw-cli", "pw-loopback"}, {}}
  DiskFaults = TRUE
  Crashes = TRUE
SYMMETRY Symmetry
INVARIANTS
  TypeOK
  FileNamesBackend
  SecondMicIsStuck
PROPERTIES
  ImplementsMicrophoneService
