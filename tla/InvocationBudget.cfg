\* The numbers of the source, in seconds, with two compute limits and a kill that
\* takes up to two seconds. Lambda budgets of 40 s are
\* refused, and 92 s for the longer limit.
SPECIFICATION Spec
CONSTANTS
  Timeouts = {1, 3}
  LambdaBudgets = {40, 91, 92, 93, 124}
  Reserve = 90
  BatchReserve = 120
  SecretBound = 15
  CallbackBound = 30
  Guard = 5
  Floor = 1
  KillBound = 2
  MaxLag = 72
INVARIANTS
  LambdaAlwaysReturns
  EngineKeepsItsTimeout
  DeliveryHasTime
CHECK_DEADLOCK FALSE
