SPECIFICATION Spec
CONSTANTS
  Callers = {c1, c2}
  Installers = {c1, c2}
  AutoTask = auto
  MaxVersion = 2
  TimeoutIsBuiltin = TRUE
  Crashes = FALSE
INVARIANTS
  OneInstall
