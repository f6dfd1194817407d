SPECIFICATION FairSpec
CONSTANTS
  Clients = {c1, c2}
  ModuleIds = {m1, m2}
  Nobody = Nobody
  ToolSets = {{"pactl"}, {"pw-cli", "pw-loopback"}, {}}
  DiskFaults = FALSE
  Crashes = FALSE
INVARIANTS
  SilentUnlessStuck
PROPERTIES
  StreamIsRouted
  RequestsAnswered
