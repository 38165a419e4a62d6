SPECIFICATION Spec
CONSTANTS
  Procs = {p1, p2}
  Contents = {c1, c2}
  MaxCommands = 4
  MaxTime = 1
  Nothing = Nothing
INVARIANTS
  TypeOK
  VersionSurvives
  EditsAreRefused
  TokenIsWhole
  ReportedOnce
  ExitZeroIsTrue
CHECK_DEADLOCK FALSE
SYMMETRY Symmetry
