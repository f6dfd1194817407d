SPECIFICATION Spec
CONSTANTS
  Callers = {c1, c2}
  Installers = {c1}
  AutoTask = auto
  MaxVersion = 3
  TimeoutIsBuiltin = FALSE
  Crashes = TRUE
INVARIANTS
  TypeOK
  InstallsWhatWasVerified
PROPERTIES
  UpToDateIsTrue
  ImplementsUpdateService
