\* Two invocations and two attempts: a duplicate dispatch of one attempt, or a
\* reaped attempt beside its successor, in every mix of runtimes and transports.
SPECIFICATION Spec
CONSTANTS
  Jobs = {j1}
  Workers = {w1, w2}
  MaxAttempt = 2
  Modes = {"callback", "native"}
  Transports = {"inline", "s3"}
  NoWorker = NoWorker
  Tombstone = Tombstone
SYMMETRY WorkerSymmetry
INVARIANTS
  TypeOK
  OneExecutionPerAttempt
  ResultIsClaimants
  CleanExitIsRecorded
  StoredBytesAreClaimants
PROPERTIES
  ImplementsLedger
CHECK_DEADLOCK FALSE
