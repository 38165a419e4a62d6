SPECIFICATION Spec
CONSTANTS
  Commands = {c1, c2}
  Tokens = {alice, bob}
  Timeout = 1
  Interval = 1
  MaxJobs = 2
  MaxMoves = 3
INVARIANTS SubmittedOnce WatchIsTrue
PROPERTY CommandsEnd
CHECK_DEADLOCK FALSE
