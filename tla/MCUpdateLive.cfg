SPECIFICATION FairSpec
CONSTANTS
  Callers = {c1}
  Installers = {c1}
  AutoTask = auto
  MaxVersion = 3
  TimeoutIsBuiltin = TRUE
  Crashes = FALSE
PROPERTIES
  CallsAnswered
  UpdateApplied
  AutoCheckRuns
