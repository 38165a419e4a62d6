------------------------------ MODULE JobLedger ------------------------------
(***************************************************************************)
(* What the execution plane promises to whoever submitted a job, with no   *)
(* worker, request or object store in sight: each attempt of a job is       *)
(* executed at most once, and a job settles on what the execution of its    *)
(* current attempt produced, or on what the control plane decides without   *)
(* an execution, and then never changes.                                    *)
(*                                                                         *)
(* The statuses are those of JobStatusSchema (src/worker/job.ts).           *)
(***************************************************************************)
EXTENDS Integers

CONSTANTS
  Jobs,       \* the jobs the control plane holds
  MaxAttempt  \* the control plane's retry ceiling, at least 1

VARIABLES
  status,   \* status[j]: the job's status
  attempt,  \* attempt[j]: the attempt that may be claimed, or that was
  verdict   \* verdict[<<j, a>>]: how far attempt a's execution has come

ledgerVars == <<status, attempt, verdict>>

Attempts == 1..MaxAttempt
Keys == Jobs \X Attempts

\* The outcomes of an execution, and the statuses a job never leaves.
Outcomes == {"SUCCEEDED", "FAILED", "TIMED_OUT"}
Terminal == Outcomes \cup {"CANCELLED"}
JobStatus == {"QUEUED", "RUNNING"} \cup Terminal
Verdicts == {"none", "claimed", "running"} \cup Outcomes

LedgerInit ==
  /\ status = [j \in Jobs |-> "QUEUED"]
  /\ attempt = [j \in Jobs |-> 1]
  /\ verdict = [k \in Keys |-> "none"]

\* A claim takes the current attempt, once.
Claim(j) ==
  /\ status[j] = "QUEUED"
  /\ verdict[<<j, attempt[j]>>] = "none"
  /\ status' = [status EXCEPT ![j] = "RUNNING"]
  /\ verdict' = [verdict EXCEPT ![<<j, attempt[j]>>] = "claimed"]
  /\ UNCHANGED attempt

\* An attempt that was claimed starts executing, once.
Execute(j, a) ==
  /\ verdict[<<j, a>>] = "claimed"
  /\ verdict' = [verdict EXCEPT ![<<j, a>>] = "running"]
  /\ UNCHANGED <<status, attempt>>

Finish(j, a, s) ==
  /\ verdict[<<j, a>>] = "running"
  /\ verdict' = [verdict EXCEPT ![<<j, a>>] = s]
  /\ UNCHANGED <<status, attempt>>

\* The job settles on what its current attempt produced.
Commit(j) ==
  /\ status[j] = "RUNNING"
  /\ verdict[<<j, attempt[j]>>] \in Outcomes
  /\ status' = [status EXCEPT ![j] = verdict[<<j, attempt[j]>>]]
  /\ UNCHANGED <<attempt, verdict>>

\* An attempt that came to nothing is given up for the next one.
Retry(j) ==
  /\ status[j] \in {"QUEUED", "RUNNING"}
  /\ attempt[j] < MaxAttempt
  /\ status' = [status EXCEPT ![j] = "QUEUED"]
  /\ attempt' = [attempt EXCEPT ![j] = @ + 1]
  /\ UNCHANGED verdict

\* The job settles without a result.
Abandon(j) ==
  /\ \/ status[j] \in {"QUEUED", "RUNNING"} /\ status' = [status EXCEPT ![j] = "TIMED_OUT"]
     \/ status[j] = "QUEUED" /\ status' = [status EXCEPT ![j] = "CANCELLED"]
  /\ UNCHANGED <<attempt, verdict>>

LedgerNext ==
  \E j \in Jobs :
    \/ Claim(j) \/ Commit(j) \/ Retry(j) \/ Abandon(j)
    \/ \E a \in Attempts : Execute(j, a) \/ \E s \in Outcomes : Finish(j, a, s)

LedgerSpec == LedgerInit /\ [][LedgerNext]_ledgerVars
==============================================================================
