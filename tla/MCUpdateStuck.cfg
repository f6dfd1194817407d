SPECIFICATION Spec
CONSTANTS
  Callers = {c1}
  Installers = {c1}
  AutoTask = auto
  MaxVersion = 2
  TimeoutIsBuiltin = TRUE
  Crashes = FALSE
INVARIANTS
  FailedInstallAllowsCheck
