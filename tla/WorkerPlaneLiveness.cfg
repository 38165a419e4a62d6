\* Liveness, under the fairness of the worker alone: no symmetry, and one attempt,
\* for an invocation's end does not depend on which attempt it serves.
SPECIFICATION FairSpec
CONSTANTS
  Jobs = {j1}
  Workers = {w1, w2}
  MaxAttempt = 1
  Modes = {"callback", "native"}
  Transports = {"inline", "s3"}
  NoWorker = NoWorker
  Tombstone = Tombstone
PROPERTY InvocationsEnd
CHECK_DEADLOCK FALSE
