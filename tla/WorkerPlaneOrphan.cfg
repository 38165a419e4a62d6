\* The entrypoint of callback mode against the comment it carries.
SPECIFICATION FairSpec
CONSTANTS
  Jobs = {j1}
  Workers = {w1, w2}
  MaxAttempt = 2
  Modes = {"callback"}
  Transports = {"inline"}
  NoWorker = NoWorker
  Tombstone = Tombstone
PROPERTY FailedClaimHoldsNoJob
CHECK_DEADLOCK FALSE
