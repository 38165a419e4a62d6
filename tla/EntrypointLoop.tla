--------------------------- MODULE EntrypointLoop ---------------------------
(***************************************************************************)
(* runWithTimeout of worker/entrypoint.mjs on the event loop it shares with *)
(* the engine.                                                              *)
(*                                                                         *)
(* The timer is armed, then executeJob is called. executeJob and            *)
(* runOperation (src/worker/execute.ts) are async functions without an       *)
(* asynchronous step: the whole computation runs on the stack of that call,  *)
(* and what follows it are microtasks, which run before any timer callback.  *)
(* The platform counts its own deadline and kills the process.               *)
(***************************************************************************)
EXTENDS Integers, Sequences

CONSTANTS
  Limit,     \* limits.timeout_seconds of the job, a natural number
  Platform,  \* the platform's task timeout, at least Limit
  MaxWork    \* bound on how long the engine may compute

VARIABLES
  clock,       \* seconds since the timer was armed
  work,        \* seconds of computation left on the stack
  microtasks,  \* the continuations that are due
  settled,     \* the race's value
  process      \* "alive", "exited" or "killed"

vars == <<clock, work, microtasks, settled, process>>

\* What remains once runOperation returns: the await in executeJob, the .then
\* that calls enforceResultSize, and Promise.race.
Continuations == <<"finish", "enforceResultSize", "race">>

Init ==
  /\ clock = 0
  /\ work \in 1..MaxWork
  /\ microtasks = <<>>
  /\ settled = "none"
  /\ process = "alive"

Compute ==
  /\ process = "alive"
  /\ work > 0
  /\ clock' = clock + 1
  /\ work' = work - 1
  /\ microtasks' = IF work = 1 THEN Continuations ELSE <<>>
  /\ UNCHANGED <<settled, process>>

RunMicrotask ==
  /\ process = "alive"
  /\ microtasks # <<>>
  /\ microtasks' = Tail(microtasks)
  /\ \/ /\ Head(microtasks) = "race" /\ settled = "none"
        /\ \E s \in {"SUCCEEDED", "FAILED"} : settled' = s
     \/ (Head(microtasks) # "race" \/ settled # "none") /\ UNCHANGED settled
  /\ UNCHANGED <<clock, work, process>>

\* A timer callback needs an empty stack and no due microtask.
FireTimer ==
  /\ process = "alive"
  /\ work = 0 /\ microtasks = <<>>
  /\ clock >= Limit
  /\ settled = "none"
  /\ settled' = "TIMED_OUT"
  /\ UNCHANGED <<clock, work, microtasks, process>>

Exit ==
  /\ process = "alive"
  /\ work = 0 /\ microtasks = <<>> /\ settled # "none"
  /\ process' = "exited"
  /\ UNCHANGED <<clock, work, microtasks, settled>>

PlatformKills ==
  /\ process = "alive"
  /\ clock >= Platform
  /\ process' = "killed"
  /\ UNCHANGED <<clock, work, microtasks, settled>>

Next == Compute \/ RunMicrotask \/ FireTimer \/ Exit \/ PlatformKills

Spec == Init /\ [][Next]_vars

\* The comment of runWithTimeout: "the platform kills the container without
\* producing a record. This one resolves first and yields a TIMED_OUT result, so
\* the submitter learns the job timed out rather than that it vanished." A job
\* past its limit settles as TIMED_OUT, before the platform's kill.
OverrunIsReported ==
  /\ process = "killed" => settled # "none"
  /\ clock > Limit /\ settled # "none" => settled = "TIMED_OUT"
==============================================================================
