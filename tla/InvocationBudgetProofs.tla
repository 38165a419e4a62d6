----------------------- MODULE InvocationBudgetProofs -----------------------
(***************************************************************************)
(* The time budget of a native invocation holds for every compute limit,    *)
(* every budget and every lag, not only for the numbers of the run. The     *)
(* argument is an account of what each phase may have spent (Spent), and of  *)
(* what the guard leaves once callbacks eat into it.                         *)
(***************************************************************************)
EXTENDS InvocationBudget, TLAPS

USE BudgetAssumption, RoomAssumption

\* The budget account holds before anything is awaited.
LEMMA BudgetInit == Init => BudgetInv
BY DEF Init, BudgetInv, TypeOK, Phases, Spent, Remaining, LambdaAlwaysReturns, EngineKeepsItsTimeout

\* A callback is given between Floor and CallbackBound seconds, and all that is
\* left but Guard when that is less.
LEMMA WindowBounds ==
  ASSUME TypeOK
  PROVE  /\ CallbackWindow \in Nat
         /\ CallbackWindow >= Floor
         /\ CallbackWindow <= CallbackBound
         /\ Remaining - Guard >= Floor => CallbackWindow <= Remaining - Guard
         /\ Remaining - Guard < Floor => CallbackWindow = Floor
         /\ Remaining - Guard >= CallbackBound => CallbackWindow = CallbackBound
BY DEF TypeOK, CallbackWindow, Larger, Smaller, Remaining

\* An await ends within its window and before the platform's kill.
LEMMA AwaitTakes ==
  ASSUME TypeOK, NEW p \in Phases, Await(p)
  PROVE  /\ alive /\ phase = p /\ alive' = alive
         /\ UNCHANGED settings
         /\ clock' \in Nat
         /\ p = "secret" => clock' <= clock + SecretBound
         /\ p = "run" => clock' <= clock + limit + KillBound
         /\ p \notin {"secret", "run"} => clock' <= clock + CallbackWindow
<1>1. Window \in Nat
  BY WindowBounds DEF Window, TypeOK
<1>2. PICK d \in 0..Window : clock' = clock + d
  BY DEF Await
<1>3. d \in Nat /\ d <= Window
  BY <1>1, <1>2
<1> QED
  BY <1>2, <1>3, WindowBounds DEF Await, Window, TypeOK

\* Every step keeps the account.
LEMMA BudgetNext == BudgetInv /\ [Next]_vars => BudgetInv'
<1> SUFFICES ASSUME BudgetInv, [Next]_vars
             PROVE  BudgetInv'
  OBVIOUS
<1> USE DEF BudgetInv
<1>w. /\ CallbackWindow \in Nat
      /\ CallbackWindow <= CallbackBound
      /\ Remaining - Guard >= Floor => CallbackWindow <= Remaining - Guard
      /\ Remaining - Guard < Floor => CallbackWindow = Floor
  BY WindowBounds
<1>1. CASE Check
  BY <1>1 DEF Check, settings, TypeOK, Phases, Spent, Remaining, LambdaAlwaysReturns, EngineKeepsItsTimeout
<1>2. CASE Secret
  BY <1>2, AwaitTakes DEF Secret, settings, TypeOK, Phases, Spent, Remaining,
     LambdaAlwaysReturns, EngineKeepsItsTimeout
<1>3. CASE Claim
  BY <1>3, <1>w, AwaitTakes DEF Claim, Matches, settings, TypeOK, Phases, Spent, Remaining,
     LambdaAlwaysReturns, EngineKeepsItsTimeout
<1>4. CASE Run
  BY <1>4, AwaitTakes DEF Run, settings, TypeOK, Phases, Spent, Remaining,
     LambdaAlwaysReturns, EngineKeepsItsTimeout
<1>5. CASE Upload
  BY <1>5, <1>w, AwaitTakes DEF Upload, settings, TypeOK, Phases, Spent, Remaining,
     LambdaAlwaysReturns, EngineKeepsItsTimeout
<1>6. CASE Put
  BY <1>6, <1>w, AwaitTakes DEF Put, settings, TypeOK, Phases, Spent, Remaining,
     LambdaAlwaysReturns, EngineKeepsItsTimeout
<1>7. CASE Result
  BY <1>7, AwaitTakes DEF Result, settings, TypeOK, Phases, Spent, Remaining,
     LambdaAlwaysReturns, EngineKeepsItsTimeout
<1>8. CASE PlatformKills
  <2>1. mode = "batch" /\ phase \in {"upload", "put", "result"}
    BY <1>8, <1>w DEF PlatformKills, Window, TypeOK, Phases, Spent, Remaining
  <2>2. clock' \in Nat /\ alive' = FALSE /\ UNCHANGED <<settings, phase, limit>>
    BY <1>8 DEF PlatformKills, Larger, TypeOK
  <2>3. TypeOK'
    BY <2>2 DEF TypeOK, settings
  <2> QED
    BY <2>1, <2>2, <2>3 DEF settings, LambdaAlwaysReturns, EngineKeepsItsTimeout
<1>9. CASE UNCHANGED vars
  BY <1>9 DEF vars, TypeOK, Spent, Remaining, LambdaAlwaysReturns, EngineKeepsItsTimeout
<1> QED
  BY <1>1, <1>2, <1>3, <1>4, <1>5, <1>6, <1>7, <1>8, <1>9 DEF Next

\* The account holds in every reachable state.
THEOREM BudgetInvariance == Spec => []BudgetInv
BY BudgetInit, BudgetNext, PTL DEF Spec

\* Whatever the limits, no Lambda invocation that was admitted by its budget check
\* is killed by the platform (invocation, handler.mjs:18).
THEOREM LambdaReturns == Spec => []LambdaAlwaysReturns
BY BudgetInvariance, PTL DEF BudgetInv

\* Every variable of the account keeps its type: the deadline and the clock
\* remain numbers, and the engine's limit is always one a job may have.
THEOREM TypeCorrect == Spec => []TypeOK
<1>1. BudgetInv => TypeOK
  BY DEF BudgetInv
<1> QED
  BY <1>1, BudgetInvariance, PTL

\* Whatever the lag between a Batch container's start and runBatch, up to the
\* reserve, the platform never cuts a claim or a computation short.
THEOREM EngineTimeKept == Spec => []EngineKeepsItsTimeout
BY BudgetInvariance, PTL DEF BudgetInv

\* An inline report always has the whole callback bound, and the completion of an
\* S3 report has more than the least length under Batch's reserve.
THEOREM DeliveryTime == Spec => []DeliveryHasTime
<1>1. BudgetInv => DeliveryHasTime
  <2> SUFFICES ASSUME BudgetInv, phase = "result", alive
               PROVE  /\ transport = "inline" => CallbackWindow = CallbackBound
                      /\ deadline + lag >= asked + BatchReserve => CallbackWindow > Floor
    BY DEF DeliveryHasTime
  <2>1. TypeOK /\ clock <= Spent /\ deadline + lag >= asked + Reserve
    BY DEF BudgetInv
  <2>2. CASE transport = "inline"
    <3>1. Remaining - Guard >= CallbackBound
      BY <2>1, <2>2 DEF TypeOK, Spent, Remaining
    <3> QED
      BY <2>1, <3>1, WindowBounds
  <2>3. CASE transport = "s3"
    <3>1. deadline + lag >= asked + BatchReserve => Remaining - Guard > Floor
      BY <2>1, <2>3 DEF TypeOK, Spent, Remaining
    <3> QED
      BY <2>1, <2>3, <3>1 DEF CallbackWindow, Larger, Smaller, TypeOK, Remaining
  <2> QED
    BY <2>1, <2>2, <2>3 DEF TypeOK
<1> QED
  BY <1>1, BudgetInvariance, PTL
==============================================================================
