----------------------------- MODULE WorkerPlane -----------------------------
(***************************************************************************)
(* The execution plane: worker invocations that claim a job, execute it and *)
(* report, against a control plane and an object store they reach only over *)
(* HTTP.                                                                    *)
(*                                                                         *)
(*   src/worker/callback.ts         claimJob, reportResult, authorizedFetch *)
(*   worker/entrypoint.mjs          runCallbackMode ("callback" workers)    *)
(*   worker/lambda/handler.mjs      createHandler   ("native" workers)      *)
(*   worker/lambda/batch.mjs        exit codes of the native workers        *)
(*                                                                         *)
(* A worker is one invocation: it runs once, and may crash at any step. A    *)
(* request stays in flight until it is served, which may be long after the   *)
(* worker stopped waiting for it, or never. The control plane and the object *)
(* store live in another repository; their actions, named Serve..., are what *)
(* the code, its tests and worker/lambda/README.md rely on.                  *)
(*                                                                         *)
(* The bytes a worker reports are distinct for each worker (they carry its   *)
(* timestamps), so a worker's name stands for them and for their SHA-256.    *)
(***************************************************************************)
EXTENDS Integers

CONSTANTS
  Jobs,        \* the jobs the control plane holds
  Workers,     \* the invocations a behaviour may contain
  MaxAttempt,  \* the control plane's retry ceiling
  Modes,       \* the deployed workers: "callback" (entrypoint.mjs), "native" (handler.mjs)
  Transports,  \* how results travel: "inline", "s3"
  NoWorker,    \* no claimant, no stored bytes
  Tombstone    \* the empty object left after a commit

ASSUME PlaneAssumption ==
  /\ Jobs # {}
  /\ Modes # {} /\ Modes \subseteq {"callback", "native"}
  /\ Transports # {} /\ Transports \subseteq {"inline", "s3"}
  /\ MaxAttempt \in Nat \ {0}
  /\ NoWorker \notin Workers
  /\ Tombstone \notin Workers \cup {NoWorker}

VARIABLES
  \* the control plane's row of each job, and its audit of accepted claims
  status, attempt, result, claimant,
  \* the object store: the bytes under results/<job>/<attempt>.json
  object,
  \* the network
  requests, responses,
  \* the workers
  pc, task, outcome, exit

planeVars == <<status, attempt, result, claimant>>
netVars == <<requests, responses>>
workerVars == <<pc, task, outcome, exit>>
vars == <<status, attempt, result, claimant, object, requests, responses,
          pc, task, outcome, exit>>

Attempts == 1..MaxAttempt
Keys == Jobs \X Attempts
Outcomes == {"SUCCEEDED", "FAILED", "TIMED_OUT"}
Terminal == Outcomes \cup {"CANCELLED"}
JobStatus == {"QUEUED", "RUNNING"} \cup Terminal

Tasks == [job : Jobs, attempt : Attempts, mode : Modes, transport : Transports]

Calls == {"claim", "upload", "put", "result"}
Answers == {"ok", "invalid", "mismatch", "malformed", "exists", "refused", "error"}
Requests == [call : Calls, worker : Workers]
Responses == [call : Calls, worker : Workers, answer : Answers]

NotExited == -1
ExitCodes == {NotExited, 0, 1, 2, 124}

\* The call a worker at each step is waiting for.
Awaits == [claiming |-> "claim", uploading |-> "upload", putting |-> "put",
           reporting |-> "result"]
Waiting == DOMAIN Awaits

\* The request a worker at each of these steps will send once it has an identity
\* token to send it with.
Tokens == [claimToken |-> "claiming", reportToken |-> "reporting"]
AwaitsToken == DOMAIN Tokens
Steps == Waiting \cup AwaitsToken \cup {"idle", "running", "ended", "crashed"}

Key(w) == <<task[w].job, task[w].attempt>>

TypeOK ==
  /\ status \in [Jobs -> JobStatus]
  /\ attempt \in [Jobs -> Attempts]
  /\ result \in [Jobs -> Workers \cup {NoWorker}]
  /\ claimant \in [Keys -> Workers \cup {NoWorker}]
  /\ object \in [Keys -> Workers \cup {NoWorker, Tombstone}]
  /\ requests \subseteq Requests
  /\ responses \subseteq Responses
  /\ pc \in [Workers -> Steps]
  /\ task \in [Workers -> Tasks]
  /\ outcome \in [Workers -> {"none", "running"} \cup Outcomes]
  /\ exit \in [Workers -> ExitCodes]

\* A worker's task is unread until Begin writes it.
Init ==
  /\ status = [j \in Jobs |-> "QUEUED"]
  /\ attempt = [j \in Jobs |-> 1]
  /\ result = [j \in Jobs |-> NoWorker]
  /\ claimant = [k \in Keys |-> NoWorker]
  /\ object = [k \in Keys |-> NoWorker]
  /\ requests = {}
  /\ responses = {}
  /\ pc = [w \in Workers |-> "idle"]
  /\ task = [w \in Workers |-> CHOOSE t \in Tasks : TRUE]
  /\ outcome = [w \in Workers |-> "none"]
  /\ exit = [w \in Workers |-> NotExited]

------------------------------------------------------------------------------
(* Worker steps *)

\* authorizedFetch has its identity token and puts one request on the wire; the
\* worker then awaits the answer.
Send(w, step) ==
  /\ pc' = [pc EXCEPT ![w] = step]
  /\ requests' = requests \cup {[call |-> Awaits[step], worker |-> w]}

\* Before that, a callback worker may have to fetch the token of each request from
\* the platform's metadata server. The native handler signs its own, and so does
\* every worker that reports through S3 (callbackConfigFromEnv): no await there.
FetchesToken(t) == t.mode = "callback" /\ t.transport = "inline"

AwaitToken(w, step) ==
  /\ step \in AwaitsToken
  /\ pc' = [pc EXCEPT ![w] = step]
  /\ UNCHANGED requests

Exit(w, code) ==
  /\ pc' = [pc EXCEPT ![w] = "ended"]
  /\ exit' = [exit EXCEPT ![w] = code]

\* Nothing on its way to the worker will be read any more.
StopListening(w) == responses' = {r \in responses : r.worker # w}

\* The answer the worker is waiting for has arrived.
Receive(w, step, answer) ==
  /\ pc[w] = step
  /\ [call |-> Awaits[step], worker |-> w, answer |-> answer] \in responses
  /\ StopListening(w)

\* A dispatch starts an invocation. The dispatcher names an attempt the job has
\* reached; the dispatch may be a duplicate, or one delivered late.
Begin(w, j, a, mode, transport) ==
  /\ pc[w] = "idle"
  /\ a <= attempt[j]
  /\ task' = [task EXCEPT ![w] =
       [job |-> j, attempt |-> a, mode |-> mode, transport |-> transport]]
  /\ IF FetchesToken(task'[w]) THEN AwaitToken(w, "claimToken") ELSE Send(w, "claiming")
  /\ UNCHANGED <<planeVars, object, responses, outcome, exit>>

\* The configuration, the event, the time budget or the secret is refused before
\* anything is sent.
RefuseInvocation(w) ==
  /\ pc[w] = "idle"
  /\ Exit(w, 1)
  /\ UNCHANGED <<planeVars, object, netVars, task, outcome>>

\* The metadata server answers with a token, or with an error, an empty body or no
\* connection, which are all a permanent CallbackError. It may also never answer:
\* this one fetch carries no AbortSignal.
TokenAnswered(w) ==
  /\ pc[w] \in AwaitsToken
  /\ \/ Send(w, Tokens[pc[w]]) /\ UNCHANGED exit
     \/ Exit(w, IF pc[w] = "claimToken" THEN 2 ELSE 1) /\ UNCHANGED requests
  /\ UNCHANGED <<planeVars, object, responses, task, outcome>>

\* Variant: a refused claim is not an error (authorizedFetch without its !ok check).
Usable_Unchecked(w, answer) ==
  answer \in {"ok", "refused"} \/ (answer = "mismatch" /\ task[w].mode = "callback")

\* validateJob rejects the manifest in either mode; only the native handler
\* compares its id and timeout with the dispatch.
Usable(w, answer) ==
  answer = "ok" \/ (answer = "mismatch" /\ task[w].mode = "callback")

\* error.retryable === false only for a CallbackError classify() calls permanent:
\* a JobRejectedError carries no such field. The native handler throws one error
\* for every cause.
ClaimExit(w, answer) ==
  IF answer = "refused" /\ task[w].mode = "callback" THEN 2 ELSE 1

ClaimAnswered(w) ==
  /\ \E answer \in Answers :
       /\ Receive(w, "claiming", answer)
       /\ \/ /\ Usable(w, answer)
             /\ pc' = [pc EXCEPT ![w] = "running"]
             /\ outcome' = [outcome EXCEPT ![w] = "running"]
             /\ UNCHANGED exit
          \/ /\ ~Usable(w, answer)
             /\ Exit(w, ClaimExit(w, answer))
             /\ UNCHANGED outcome
  /\ UNCHANGED <<planeVars, object, requests, task>>

\* Variant: the record local mode prints for a rejected job is posted as a result.
EngineOutcomes_Rejected(w) == Outcomes \cup {"REJECTED"}

\* In callback mode the engine runs on the worker's own event loop, where the
\* TIMED_OUT timer cannot fire (see EntrypointLoop); an overrun there is a Crash.
EngineOutcomes(w) ==
  IF task[w].mode = "native" THEN Outcomes ELSE Outcomes \ {"TIMED_OUT"}

\* The engine ends and reportResult turns to its first request.
Compute(w) ==
  /\ pc[w] = "running"
  /\ \E s \in EngineOutcomes(w) : outcome' = [outcome EXCEPT ![w] = s]
  /\ IF FetchesToken(task[w]) THEN AwaitToken(w, "reportToken")
     ELSE Send(w, IF task[w].transport = "s3" THEN "uploading" ELSE "reporting")
  /\ UNCHANGED <<planeVars, object, responses, task, exit>>

\* The capability is checked field by field before any byte is sent to it.
UploadAnswered(w) ==
  /\ \E answer \in Answers :
       /\ Receive(w, "uploading", answer)
       /\ \/ answer = "ok" /\ Send(w, "putting") /\ UNCHANGED exit
          \/ answer # "ok" /\ Exit(w, 1) /\ UNCHANGED requests
  /\ UNCHANGED <<planeVars, object, task, outcome>>

\* 2xx and 412 go on to the completion, any other status is a refusal.
PutAnswered(w) ==
  /\ \E answer \in Answers :
       /\ Receive(w, "putting", answer)
       /\ \/ answer \in {"ok", "exists"} /\ Send(w, "reporting") /\ UNCHANGED exit
          \/ answer \notin {"ok", "exists"} /\ Exit(w, 1) /\ UNCHANGED requests
  /\ UNCHANGED <<planeVars, object, task, outcome>>

StatusExit(s) ==
  CASE s = "SUCCEEDED" -> 0 [] s = "TIMED_OUT" -> 124 [] OTHER -> 1

\* Variant: the error of the last callback is not caught, the exit code is the engine's.
ReportAnswered_Unchecked(w) ==
  /\ \E answer \in Answers :
       /\ Receive(w, "reporting", answer)
       /\ Exit(w, StatusExit(outcome[w]))
  /\ UNCHANGED <<planeVars, object, requests, task, outcome>>

ReportAnswered(w) ==
  /\ \E answer \in Answers :
       /\ Receive(w, "reporting", answer)
       /\ Exit(w, IF answer = "ok" THEN StatusExit(outcome[w]) ELSE 1)
  /\ UNCHANGED <<planeVars, object, requests, task, outcome>>

\* Variant: a claim whose answer was lost is taken for granted.
TransportFailure_ClaimAssumed(w) ==
  /\ pc[w] = "claiming"
  /\ StopListening(w)
  /\ pc' = [pc EXCEPT ![w] = "running"]
  /\ outcome' = [outcome EXCEPT ![w] = "running"]
  /\ UNCHANGED <<planeVars, object, requests, task, exit>>

\* Variant: a lost report runs the job again.
TransportFailure_Rerun(w) ==
  /\ pc[w] = "reporting"
  /\ StopListening(w)
  /\ pc' = [pc EXCEPT ![w] = "running"]
  /\ outcome' = [outcome EXCEPT ![w] = "running"]
  /\ UNCHANGED <<planeVars, object, requests, task, exit>>

\* Variant: the PUT carries no AbortSignal.
TransportFailure_PutUnbounded(w) ==
  /\ pc[w] \in Waiting \ {"putting"}
  /\ StopListening(w)
  /\ Exit(w, 1)
  /\ UNCHANGED <<planeVars, object, requests, task, outcome>>

\* The await of a request that was sent rejects: no connection, an unreadable body, or
\* its AbortSignal fired. The request may still be served later, or never. A lost
\* PUT answer is swallowed and the completion sent; every other loss ends the
\* invocation.
TransportFailure(w) ==
  /\ pc[w] \in Waiting
  /\ StopListening(w)
  /\ \/ pc[w] = "putting" /\ Send(w, "reporting") /\ UNCHANGED exit
     \/ pc[w] # "putting" /\ Exit(w, 1) /\ UNCHANGED requests
  /\ UNCHANGED <<planeVars, object, task, outcome>>

\* The platform kills the process, at any point.
Crash(w) ==
  /\ pc[w] \in Waiting \cup AwaitsToken \cup {"running"}
  /\ pc' = [pc EXCEPT ![w] = "crashed"]
  /\ StopListening(w)
  /\ UNCHANGED <<planeVars, object, requests, task, outcome, exit>>

------------------------------------------------------------------------------
(* The control plane and the object store *)

Listens(w, call) == pc[w] \in Waiting /\ Awaits[pc[w]] = call

\* Answer a request, if its worker still listens. The request leaves the wire,
\* except that the network may deliver an idempotent PUT again.
Serve(w, call, answer) ==
  LET q == [call |-> call, worker |-> w]
      r == [call |-> call, worker |-> w, answer |-> answer]
  IN  /\ q \in requests
      /\ \/ requests' = requests \ {q}
         \/ call = "put" /\ UNCHANGED requests
      /\ responses' = IF Listens(w, call) THEN responses \cup {r} ELSE responses

\* 4xx, or 5xx/408/429, with nothing done.
ServeFailure(w) ==
  /\ \E call \in Calls, answer \in {"refused", "error"} : Serve(w, call, answer)
  /\ UNCHANGED <<planeVars, object, workerVars>>

\* The control plane accepts exactly one claim of an attempt. The manifest it
\* returns may fail the worker's validation or differ from the dispatch.
ServeClaim(w) ==
  LET j == task[w].job IN
  /\ status[j] = "QUEUED"
  /\ task[w].attempt = attempt[j]
  /\ \E answer \in {"ok", "invalid", "mismatch"} : Serve(w, "claim", answer)
  /\ status' = [status EXCEPT ![j] = "RUNNING"]
  /\ claimant' = [claimant EXCEPT ![Key(w)] = w]
  /\ UNCHANGED <<attempt, result, object, workerVars>>

\* Only the current attempt of a running job is heard.
Current(w) ==
  /\ status[task[w].job] = "RUNNING"
  /\ task[w].attempt = attempt[task[w].job]

ServeUpload(w) ==
  /\ Current(w)
  /\ \E answer \in {"ok", "malformed"} : Serve(w, "upload", answer)
  /\ UNCHANGED <<planeVars, object, workerVars>>

\* The conditional PUT (if-none-match: *) stores once, then answers 412.
ServePut(w) ==
  /\ \/ /\ object[Key(w)] = NoWorker
        /\ Serve(w, "put", "ok")
        /\ object' = [object EXCEPT ![Key(w)] = w]
     \/ /\ object[Key(w)] # NoWorker
        /\ Serve(w, "put", "exists")
        /\ UNCHANGED object
  /\ UNCHANGED <<planeVars, workerVars>>

\* A result is saved once. An S3 completion must find the exact bytes its ticket
\* was signed for; the body is then replaced, or the clean-up fails.
ServeResult(w) ==
  LET j == task[w].job IN
  /\ Current(w)
  /\ Serve(w, "result", "ok")
  /\ status' = [status EXCEPT ![j] = outcome[w]]
  /\ result' = [result EXCEPT ![j] = w]
  /\ \/ task[w].transport = "inline" /\ UNCHANGED object
     \/ /\ task[w].transport = "s3"
        /\ object[Key(w)] = w
        /\ \/ object' = [object EXCEPT ![Key(w)] = Tombstone]
           \/ UNCHANGED object
  /\ UNCHANGED <<attempt, claimant, workerVars>>

\* A job whose worker never claimed or never reported is given its next attempt,
\* up to the ceiling, or settled without a result.
Reap(j) ==
  /\ status[j] \in {"QUEUED", "RUNNING"}
  /\ \/ /\ attempt[j] < MaxAttempt
        /\ attempt' = [attempt EXCEPT ![j] = @ + 1]
        /\ status' = [status EXCEPT ![j] = "QUEUED"]
     \/ /\ status' = [status EXCEPT ![j] = "TIMED_OUT"]
        /\ UNCHANGED attempt
  /\ UNCHANGED <<result, claimant, object, netVars, workerVars>>

\* A queued job can be cancelled; a running one is not interrupted.
Cancel(j) ==
  /\ status[j] = "QUEUED"
  /\ status' = [status EXCEPT ![j] = "CANCELLED"]
  /\ UNCHANGED <<attempt, result, claimant, object, netVars, workerVars>>

------------------------------------------------------------------------------
WorkerStep(w) ==
  \/ ClaimAnswered(w) \/ Compute(w) \/ UploadAnswered(w)
  \/ PutAnswered(w) \/ ReportAnswered(w) \/ TransportFailure(w)

ControlPlaneStep(w) ==
  ServeFailure(w) \/ ServeClaim(w) \/ ServeUpload(w) \/ ServePut(w) \/ ServeResult(w)

Next ==
  \/ \E w \in Workers :
       \/ \E j \in Jobs, a \in Attempts, mode \in Modes, transport \in Transports :
            Begin(w, j, a, mode, transport)
       \/ RefuseInvocation(w)
       \/ TokenAnswered(w)
       \/ WorkerStep(w)
       \/ Crash(w)
       \/ ControlPlaneStep(w)
  \/ \E j \in Jobs : Reap(j) \/ Cancel(j)

Spec == Init /\ [][Next]_vars

\* The await of a request that was sent settles, through an answer or its
\* AbortSignal, and the engine's work is finite. Nothing is assumed of the network,
\* the control plane or the platform; not even that its metadata server answers.
FairSpec == Spec /\ \A w \in Workers : WF_vars(WorkerStep(w))

------------------------------------------------------------------------------
(* Properties *)

Started(w) == outcome[w] # "none"

\* Two workers never both execute the same attempt of a job, however often it is
\* dispatched and whatever is lost (callback.ts, claimJob: "must not both execute
\* it"): the engine starts only on the answer that carries the claim.
OneExecutionPerAttempt ==
  \A v, w \in Workers : Started(v) /\ Started(w) /\ Key(v) = Key(w) => v = w

\* A saved result is what the claimant of the job's current attempt computed. A
\* worker whose attempt was reaped while it computed cannot get its bytes in, by
\* a late report or through the object store.
ResultIsClaimants ==
  \A j \in Jobs : \A w \in Workers :
    result[j] = w =>
      /\ claimant[<<j, attempt[j]>>] = w
      /\ Started(w)
      /\ status[j] = outcome[w]

\* Exit codes 0 and 124 tell the dispatcher that the outcome is on record: the job
\* has settled on this very worker's result, and an S3 body was stored. Losing the
\* answer of the last callback must not look like a delivery.
CleanExitIsRecorded ==
  \A w \in Workers :
    exit[w] \in {0, 124} =>
      LET j == task[w].job IN
      /\ result[j] = w
      /\ exit[w] = StatusExit(status[j])
      /\ task[w].transport = "s3" => object[Key(w)] \in {w, Tombstone}

\* The bytes under results/<job>/<attempt>.json are those of the attempt's
\* claimant, so a 412 can only mean the worker's own earlier PUT, and treating it
\* as stored is sound.
StoredBytesAreClaimants ==
  \A k \in Keys :
    /\ object[k] # NoWorker => claimant[k] # NoWorker
    /\ object[k] \in Workers => object[k] = claimant[k]

\* Every invocation that was begun ends, unless it waits for ever for the identity
\* token of a request, the one await without a bound (metadataIdentity). No lost
\* request, lost answer or silent control plane or object store leaves a worker
\* waiting.
InvocationsEnd ==
  \A w \in Workers :
    \/ pc[w] # "idle" ~> pc[w] \in {"ended", "crashed"}
    \/ <>[](pc[w] \in AwaitsToken)

\* The comment of runCallbackMode: "A claim that fails leaves no job to report
\* against, so there is nothing to post back." An invocation that ends on the
\* answer to its claim is not the claimant of the job.
FailedClaimHoldsNoJob ==
  [][\A w \in Workers :
       ClaimAnswered(w) /\ pc'[w] = "ended" => claimant[Key(w)] # w]_vars

------------------------------------------------------------------------------
(* The inductive invariant behind the safety properties *)

\* Where a worker stands fixes how far its execution has come; an invocation that
\* has not begun has nothing on the wire.
StepsFollowOutcome ==
  /\ \A w \in Workers :
       /\ pc[w] \in {"idle", "claimToken", "claiming"} => outcome[w] = "none"
       /\ pc[w] = "running" => outcome[w] = "running"
       /\ pc[w] \in {"uploading", "putting", "reportToken", "reporting"} =>
            outcome[w] \in Outcomes
       /\ pc[w] # "ended" => exit[w] = NotExited
  /\ \A r \in requests :
       /\ pc[r.worker] # "idle"
       /\ r.call # "claim" => outcome[r.worker] \in Outcomes
  /\ \A r \in responses : pc[r.worker] # "idle"

\* A claim is held by a worker dispatched for that attempt, and never for one that
\* may still be claimed.
ClaimsAreTaken ==
  \A k \in Keys :
    claimant[k] # NoWorker =>
      /\ Key(claimant[k]) = k
      /\ pc[claimant[k]] # "idle"
      /\ k[2] <= attempt[k[1]]
      /\ k[2] = attempt[k[1]] => status[k[1]] # "QUEUED"

\* Whoever has been given a manifest, or has started on one, is the claimant.
HoldersAreClaimants ==
  /\ \A w \in Workers : Started(w) => claimant[Key(w)] = w
  /\ \A r \in responses :
       r.call = "claim" /\ r.answer \in {"ok", "invalid", "mismatch"} =>
         claimant[Key(r.worker)] = r.worker

\* What is saved, and what the worker has been told is saved.
SavedResults ==
  /\ \A j \in Jobs : \A w \in Workers :
       result[j] = w =>
         /\ Key(w) = <<j, attempt[j]>>
         /\ outcome[w] \in Outcomes
         /\ status[j] = outcome[w]
         /\ task[w].transport = "s3" => object[Key(w)] \in {w, Tombstone}
  /\ \A r \in responses :
       r.call = "result" /\ r.answer = "ok" => result[task[r.worker].job] = r.worker
  /\ \A w \in Workers :
       exit[w] \in {0, 124} =>
         result[task[w].job] = w /\ exit[w] = StatusExit(outcome[w])

PlaneInv ==
  /\ TypeOK
  /\ StepsFollowOutcome
  /\ ClaimsAreTaken
  /\ HoldersAreClaimants
  /\ StoredBytesAreClaimants
  /\ SavedResults

------------------------------------------------------------------------------
\* The plane implements the ledger: an attempt's verdict is its claimant's outcome.
Verdict ==
  [k \in Keys |-> IF claimant[k] = NoWorker THEN "none"
                  ELSE IF outcome[claimant[k]] = "none" THEN "claimed"
                  ELSE outcome[claimant[k]]]

Ledger == INSTANCE JobLedger WITH verdict <- Verdict

ImplementsLedger == Ledger!LedgerSpec
==============================================================================
