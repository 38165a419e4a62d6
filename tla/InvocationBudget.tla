-------------------------- MODULE InvocationBudget --------------------------
(***************************************************************************)
(* The time one invocation of a native worker may take, phase by phase,     *)
(* against the deadline at which its platform kills it.                     *)
(*                                                                         *)
(*   worker/lambda/handler.mjs   invocation, ssmSecret, createHandler       *)
(*   worker/lambda/batch.mjs     runBatch, the local deadline               *)
(*   src/worker/callback.ts      reportResult, the calls it makes           *)
(*                                                                         *)
(* Lambda tells the handler how long is left. Batch does not: runBatch      *)
(* counts from the start of the Node process, and the platform's clock has  *)
(* been running since the container started. Time is counted in seconds     *)
(* and passes only while the handler awaits something.                      *)
(***************************************************************************)
EXTENDS Integers

CONSTANTS
  Timeouts,       \* the values timeout_seconds may have
  LambdaBudgets,  \* what may be left when a Lambda handler starts
  Reserve,        \* seconds required above the compute limit (90)
  BatchReserve,   \* seconds Batch's deadline allows above the compute limit (120)
  SecretBound,    \* AbortSignal of the SSM request (15)
  CallbackBound,  \* AbortSignal of a callback (30)
  Guard,          \* what a callback leaves before the deadline (5)
  Floor,          \* the least time a callback is given (1 ms), rounded up
  KillBound,      \* from SIGKILL to the child's close event
  MaxLag          \* from the container's start to runBatch's first line

ASSUME BudgetAssumption ==
  /\ Timeouts # {} /\ Timeouts \subseteq Nat
  /\ LambdaBudgets \subseteq Nat
  /\ Reserve \in Nat /\ BatchReserve \in Nat /\ SecretBound \in Nat /\ CallbackBound \in Nat
  /\ Guard \in Nat /\ Floor \in Nat /\ KillBound \in Nat /\ MaxLag \in Nat
  /\ Reserve <= BatchReserve

\* The numbers of the source leave room for SSM, the claim and one whole callback
\* (15 + 30 + 30 + 5 of 90), the guard outlasts two callbacks of the least length,
\* and Batch's reserve covers what precedes the computation (15 + 30 of 120) and
\* the first two callbacks of an S3 report.
ASSUME RoomAssumption ==
  /\ SecretBound + CallbackBound + KillBound + CallbackBound + Guard <= Reserve
  /\ 2 * Floor < Guard
  /\ Floor < CallbackBound
  /\ SecretBound + CallbackBound + KillBound + MaxLag < BatchReserve
  /\ SecretBound + 3 * CallbackBound + KillBound + Guard + Floor < BatchReserve

VARIABLES
  mode,       \* "lambda" or "batch"
  transport,  \* "inline" or "s3"
  phase,      \* what the handler is awaiting
  alive,      \* FALSE once the platform has killed the process
  clock,      \* the time
  deadline,   \* when the platform kills
  lag,        \* how much later the handler believes the deadline is
  asked,      \* event.timeoutSeconds, what the dispatch asked for
  limit       \* job.limits.timeout_seconds of the claimed job

settings == <<mode, transport, deadline, lag, asked>>
vars == <<mode, transport, phase, alive, clock, deadline, lag, asked, limit>>

Phases == {"check", "secret", "claim", "run", "upload", "put", "result", "ended"}

TypeOK ==
  /\ mode \in {"lambda", "batch"}
  /\ transport \in {"inline", "s3"}
  /\ phase \in Phases
  /\ alive \in BOOLEAN
  /\ clock \in Nat
  /\ deadline \in Int
  /\ lag \in Nat
  /\ asked \in Timeouts
  /\ limit \in Timeouts

\* Batch's platform deadline is compute + 120 s after the container's start, which
\* is lag seconds before the handler's zero.
Init ==
  /\ transport \in {"inline", "s3"}
  /\ phase = "check"
  /\ alive = TRUE
  /\ clock = 0
  /\ asked \in Timeouts
  /\ limit = asked
  /\ \/ mode = "lambda" /\ lag = 0 /\ deadline \in LambdaBudgets
     \/ mode = "batch" /\ lag \in 0..MaxLag /\ deadline = asked + BatchReserve - lag

\* context.getRemainingTimeInMillis()
Remaining == deadline + lag - clock

Smaller(a, b) == IF a <= b THEN a ELSE b
Larger(a, b) == IF a >= b THEN a ELSE b

\* Variant: a callback has its own bound and no regard for what is left.
CallbackWindow_Unguarded == CallbackBound

\* The AbortSignal of one callback.
CallbackWindow == Larger(Floor, Smaller(CallbackBound, Remaining - Guard))

\* The longest wait of each phase. The job's own limit arms the child's deadline.
Window ==
  CASE phase = "secret" -> SecretBound
    [] phase = "run" -> limit + KillBound
    [] OTHER -> CallbackWindow

\* Some time passes, within the phase's window and before the platform's kill.
Await(p) ==
  /\ alive
  /\ phase = p
  /\ \E d \in 0..Window : clock + d < deadline /\ clock' = clock + d
  /\ UNCHANGED <<settings, alive>>

\* Variant: only the compute time is required, not the reserve.
Check_NoReserve ==
  /\ alive /\ phase = "check"
  /\ \/ Remaining >= asked /\ phase' = "secret"
     \/ Remaining < asked /\ phase' = "ended"
  /\ UNCHANGED <<settings, alive, clock, limit>>

Check ==
  /\ alive /\ phase = "check"
  /\ \/ Remaining >= asked + Reserve /\ phase' = "secret"
     \/ Remaining < asked + Reserve /\ phase' = "ended"
  /\ UNCHANGED <<settings, alive, clock, limit>>

\* The secret arrives, or its failure ends the invocation. A warm invocation has
\* it at once.
Secret == Await("secret") /\ phase' \in {"claim", "ended"} /\ UNCHANGED limit

\* Variant: the claimed job's timeout is not compared with the dispatch.
Matches_Any == limit' \in Timeouts

\* The claimed job's timeout must be the one the budget was checked for.
Matches == limit' = asked

Claim ==
  /\ Await("claim")
  /\ limit' \in Timeouts
  /\ \/ Matches /\ phase' = "run"
     \/ phase' = "ended"

Run ==
  /\ Await("run")
  /\ phase' = IF transport = "s3" THEN "upload" ELSE "result"
  /\ UNCHANGED limit

Upload == Await("upload") /\ phase' \in {"put", "ended"} /\ UNCHANGED limit

\* A lost PUT goes on to the completion, a refused one does not.
Put == Await("put") /\ phase' \in {"result", "ended"} /\ UNCHANGED limit

Result == Await("result") /\ phase' = "ended" /\ UNCHANGED limit

\* The deadline comes within the wait.
PlatformKills ==
  /\ alive
  /\ phase \notin {"check", "ended"}
  /\ clock + Window >= deadline
  /\ alive' = FALSE
  /\ clock' = Larger(clock, deadline)
  /\ UNCHANGED <<settings, phase, limit>>

Next == Check \/ Secret \/ Claim \/ Run \/ Upload \/ Put \/ Result \/ PlatformKills

Spec == Init /\ [][Next]_vars

------------------------------------------------------------------------------
(* Properties *)

\* A Lambda invocation that passed its budget check ends by itself, however slow
\* the secret, the claim, the computation and the report are: every outcome
\* reaches the caller, none is cut off by the platform.
LambdaAlwaysReturns == mode = "lambda" => alive

\* "CPU timeout stays unchanged" (batch.mjs): the platform's deadline may cut the
\* report short, but never the claim or the computation, even on Batch, whose
\* handler believes it has longer than it has.
EngineKeepsItsTimeout == ~alive => phase \in {"upload", "put", "result"}

\* "The local budget also reserves time for SSM, claim and report" (batch.mjs): an
\* inline report is given the callback's own bound whatever came before it, and
\* the completion of an S3 report more than the least length when the invocation
\* had Batch's reserve. (With Lambda's 90 s alone it may be given 1 ms.)
DeliveryHasTime ==
  phase = "result" /\ alive =>
    /\ transport = "inline" => CallbackWindow = CallbackBound
    /\ deadline + lag >= asked + BatchReserve => CallbackWindow > Floor

------------------------------------------------------------------------------
(* The inductive invariant behind them *)

\* By the time a phase is entered, so much has been spent at most.
Spent ==
  CASE phase \in {"check", "secret"} -> 0
    [] phase = "claim" -> SecretBound
    [] phase = "run" -> SecretBound + CallbackBound
    [] phase = "upload" \/ (phase = "result" /\ transport = "inline") ->
         SecretBound + CallbackBound + asked + KillBound
    [] phase = "put" -> SecretBound + 2 * CallbackBound + asked + KillBound
    [] OTHER -> SecretBound + 3 * CallbackBound + asked + KillBound

BudgetInv ==
  /\ TypeOK
  /\ IF mode = "lambda" THEN lag = 0 ELSE lag <= MaxLag /\ deadline + lag = asked + BatchReserve
  /\ phase \notin {"check", "ended"} => deadline + lag >= asked + Reserve
  /\ phase = "run" => limit = asked
  /\ phase # "ended" /\ alive => clock <= Spent
  /\ phase \in {"upload", "put"} => transport = "s3"
  /\ phase = "put" /\ alive => Remaining >= Guard
  /\ phase = "result" /\ alive => Remaining >= Guard - Floor
  /\ LambdaAlwaysReturns
  /\ EngineKeepsItsTimeout
==============================================================================
