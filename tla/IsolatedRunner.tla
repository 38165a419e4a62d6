--------------------------- MODULE IsolatedRunner ---------------------------
(***************************************************************************)
(* One warm worker process running jobs one after the other, each in a      *)
(* child process of its own.                                                *)
(*                                                                         *)
(*   worker/lambda/run-isolated.mjs   the parent: createIsolatedRunner      *)
(*   worker/lambda/engine-child.mjs   the child                             *)
(*                                                                         *)
(* The parent is an event loop: the child's message, its spawn error, a     *)
(* failed send, the deadline timer and the child's close reach it in any     *)
(* order the operating system produces. The child may block for ever, crash  *)
(* at any point, and answer while the signal that kills it is on its way.    *)
(***************************************************************************)
EXTENDS Integers

CONSTANT MaxRuns  \* how many invocations the warm process serves

ASSUME RunsAssumption == MaxRuns \in Nat \ {0}

VARIABLES
  \* the child and what is between the two processes
  child,     \* child[i]: how far run i's child process is
  wire,      \* wire[i]: the message the child sent, not yet read
  signal,    \* signal[i]: SIGKILL was sent
  faults,    \* faults[i]: the error events the parent has not yet seen
  \* the parent's closure
  timer,     \* timer[i]: the deadline timer is armed
  result,    \* result[i]: the first value given to finish
  resolved   \* resolved[i]: what the promise resolved to

childVars == <<child, wire, signal, faults>>
parentVars == <<timer, result, resolved>>
vars == <<child, wire, signal, faults, timer, result, resolved>>

Runs == 1..MaxRuns
Alive == {"started", "computing", "replied"}
Statuses == {"SUCCEEDED", "FAILED", "TIMED_OUT"}
Messages == {"SUCCEEDED", "FAILED", "garbage"}
Faults == {"error", "send"}

TypeOK ==
  /\ child \in [Runs -> Alive \cup {"none", "dead"}]
  /\ wire \in [Runs -> Messages \cup {"none"}]
  /\ signal \in [Runs -> BOOLEAN]
  /\ faults \in [Runs -> SUBSET Faults]
  /\ timer \in [Runs -> BOOLEAN]
  /\ result \in [Runs -> Statuses \cup {"none"}]
  /\ resolved \in [Runs -> Statuses \cup {"none"}]

Init ==
  /\ child = [i \in Runs |-> "none"]
  /\ wire = [i \in Runs |-> "none"]
  /\ signal = [i \in Runs |-> FALSE]
  /\ faults = [i \in Runs |-> {}]
  /\ timer = [i \in Runs |-> FALSE]
  /\ result = [i \in Runs |-> "none"]
  /\ resolved = [i \in Runs |-> "none"]

------------------------------------------------------------------------------
(* The parent *)

\* Fork, arm the timer, send the job. The handler awaits each run, so the next
\* one starts after the last one resolved. The spawn may fail.
Fork(i) ==
  /\ child[i] = "none"
  /\ \A k \in 1..(i - 1) : resolved[k] # "none"
  /\ \/ child' = [child EXCEPT ![i] = "started"] /\ UNCHANGED faults
     \/ /\ child' = [child EXCEPT ![i] = "dead"]
        /\ faults' = [faults EXCEPT ![i] = {"error"}]
  /\ timer' = [timer EXCEPT ![i] = TRUE]
  /\ UNCHANGED <<wire, signal, result, resolved>>

\* Variant: finish without its early return.
Finish_Overwriting(i, value) ==
  /\ result' = [result EXCEPT ![i] = value]
  /\ timer' = [timer EXCEPT ![i] = FALSE]
  /\ signal' = [signal EXCEPT ![i] = TRUE]

\* Variant: finish leaves the child to end by itself.
Finish_NoKill(i, value) ==
  \/ /\ result[i] = "none"
     /\ result' = [result EXCEPT ![i] = value]
     /\ timer' = [timer EXCEPT ![i] = FALSE]
     /\ UNCHANGED signal
  \/ result[i] # "none" /\ UNCHANGED <<result, timer, signal>>

\* The first value wins; the child is killed, and the promise is left to close.
Finish(i, value) ==
  \/ /\ result[i] = "none"
     /\ result' = [result EXCEPT ![i] = value]
     /\ timer' = [timer EXCEPT ![i] = FALSE]
     /\ signal' = [signal EXCEPT ![i] = TRUE]
  \/ result[i] # "none" /\ UNCHANGED <<result, timer, signal>>

\* Variants: the child's message is not validated, or any reply counts as a success.
Judge_Unvalidated(message) == message
Judge_Trusting(message) == IF message = "FAILED" THEN "FAILED" ELSE "SUCCEEDED"

\* A message that is not a valid result of this job is a failure.
Judge(message) == IF message = "garbage" THEN "FAILED" ELSE message

OnMessage(i) ==
  /\ wire[i] # "none"
  /\ wire' = [wire EXCEPT ![i] = "none"]
  /\ Finish(i, Judge(wire[i]))
  /\ UNCHANGED <<child, faults, resolved>>

\* The child's "error" event, or the send callback with an error.
OnFault(i) ==
  /\ \E f \in faults[i] : faults' = [faults EXCEPT ![i] = @ \ {f}]
  /\ Finish(i, "FAILED")
  /\ UNCHANGED <<child, wire, resolved>>

OnTimer(i) ==
  /\ timer[i]
  /\ Finish(i, "TIMED_OUT")
  /\ UNCHANGED <<child, wire, faults, resolved>>

\* Variant: the promise resolves with the verdict and not with the close.
OnClose_AtVerdict(i) ==
  /\ result[i] # "none"
  /\ resolved[i] = "none"
  /\ resolved' = [resolved EXCEPT ![i] = result[i]]
  /\ UNCHANGED <<childVars, timer, result>>

\* The child has exited and its channel is drained.
OnClose(i) ==
  /\ child[i] = "dead"
  /\ wire[i] = "none"
  /\ resolved[i] = "none"
  /\ timer' = [timer EXCEPT ![i] = FALSE]
  /\ resolved' = [resolved EXCEPT ![i] = IF result[i] = "none" THEN "FAILED" ELSE result[i]]
  /\ UNCHANGED <<childVars, result>>

------------------------------------------------------------------------------
(* The child and the operating system *)

ChildReceives(i) ==
  /\ child[i] = "started"
  /\ child' = [child EXCEPT ![i] = "computing"]
  /\ UNCHANGED <<wire, signal, faults, parentVars>>

\* {result}, or {failed: true} when validation or the engine's caller throws.
ChildReplies(i) ==
  /\ child[i] = "computing"
  /\ child' = [child EXCEPT ![i] = "replied"]
  /\ \E m \in Messages : wire' = [wire EXCEPT ![i] = m]
  /\ UNCHANGED <<signal, faults, parentVars>>

\* The child ends by itself: after its reply, by a crash, or out of memory. If it
\* never took the job, the send may report an error.
ChildExits(i) ==
  /\ child[i] \in Alive
  /\ child' = [child EXCEPT ![i] = "dead"]
  /\ \/ UNCHANGED faults
     \/ child[i] = "started" /\ faults' = [faults EXCEPT ![i] = @ \cup {"send"}]
  /\ UNCHANGED <<wire, signal, parentVars>>

KillLands(i) ==
  /\ signal[i]
  /\ child[i] \in Alive
  /\ child' = [child EXCEPT ![i] = "dead"]
  /\ UNCHANGED <<wire, signal, faults, parentVars>>

------------------------------------------------------------------------------
Next ==
  \E i \in Runs :
    \/ Fork(i) \/ OnMessage(i) \/ OnFault(i) \/ OnTimer(i) \/ OnClose(i)
    \/ ChildReceives(i) \/ ChildReplies(i) \/ ChildExits(i) \/ KillLands(i)

Spec == Init /\ [][Next]_vars

\* The parent's event loop dispatches what is due and the system delivers SIGKILL.
\* The child is trusted with nothing: it may compute for ever.
FairSpec ==
  /\ Spec
  /\ \A i \in Runs :
       /\ WF_vars(Fork(i))
       /\ WF_vars(OnMessage(i))
       /\ WF_vars(OnTimer(i))
       /\ WF_vars(OnClose(i))
       /\ WF_vars(KillLands(i))

------------------------------------------------------------------------------
(* Properties *)

\* "No work survives a warm Lambda invocation or continues after its scientific
\* timeout" (run-isolated.mjs): a run that resolved has no live child, so two
\* children never compute side by side.
NoWorkSurvives ==
  /\ \A i \in Runs : resolved[i] # "none" => child[i] = "dead"
  /\ \A i, k \in Runs : child[i] \in Alive /\ child[k] \in Alive => i = k

\* "There is no fabricated success" (worker/lambda/README.md): only a reply of the
\* child's can make a run succeed; a crash, a refused message or a missing reply
\* cannot. A success is always taken from the wire, never invented at close.
NoFabricatedSuccess ==
  [][\A i \in Runs :
       /\ result'[i] = "SUCCEEDED" /\ result[i] # "SUCCEEDED" => wire[i] = "SUCCEEDED"
       /\ resolved'[i] = "SUCCEEDED" /\ resolved[i] # "SUCCEEDED" => result[i] = "SUCCEEDED"]_vars

\* The verdict stands once it is reached: a reply that was on the wire when the
\* deadline passed, or the failure events that follow the kill, cannot change it,
\* and it is what the caller gets.
FirstVerdictStands ==
  [][\A i \in Runs :
       /\ result[i] # "none" => result'[i] = result[i]
       /\ resolved[i] # "none" => resolved'[i] = resolved[i]
       /\ resolved'[i] # resolved[i] /\ result[i] # "none" => resolved'[i] = result[i]]_vars

\* "A blocked event loop cannot defeat the parent deadline": every run resolves,
\* whatever its child does.
EveryRunResolves == \A i \in Runs : <>(resolved[i] # "none")

------------------------------------------------------------------------------
(* The inductive invariant behind NoWorkSurvives *)

\* A run is resolved only by a close, which follows the child's death; a run is
\* forked only when every earlier one is resolved.
RunnerInv ==
  /\ TypeOK
  /\ \A i \in Runs : resolved[i] # "none" => child[i] = "dead"
  /\ \A i, k \in Runs : child[i] # "none" /\ k < i => resolved[k] # "none"
==============================================================================
