\* Two runs of one warm process: the second must not meet the first one's child.
SPECIFICATION FairSpec
CONSTANT MaxRuns = 2
INVARIANTS
  TypeOK
  NoWorkSurvives
PROPERTIES
  NoFabricatedSuccess
  FirstVerdictStands
  EveryRunResolves
CHECK_DEADLOCK FALSE
