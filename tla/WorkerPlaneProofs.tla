-------------------------- MODULE WorkerPlaneProofs --------------------------
(***************************************************************************)
(* Proofs about WorkerPlane, for every set of jobs and invocations, every   *)
(* retry ceiling and every mix of runtimes and transports.                  *)
(*                                                                         *)
(* PlaneInv is inductive. Each of its conjuncts has a lemma with one step   *)
(* per action; the safety properties follow from it in one state.           *)
(***************************************************************************)
EXTENDS WorkerPlane, TLAPS

USE PlaneAssumption

\* The values that records, steps and messages range over.
LEMMA Awaited ==
  /\ Waiting = {"claiming", "uploading", "putting", "reporting"}
  /\ Awaits["claiming"] = "claim"
  /\ Awaits["uploading"] = "upload"
  /\ Awaits["putting"] = "put"
  /\ Awaits["reporting"] = "result"
  /\ AwaitsToken = {"claimToken", "reportToken"}
  /\ Tokens["claimToken"] = "claiming"
  /\ Tokens["reportToken"] = "reporting"
BY DEF Waiting, Awaits, AwaitsToken, Tokens

\* The initial state is typed. A task exists to be chosen, for no set it is drawn
\* from is empty.
LEMMA InitType == Init => TypeOK
<1> SUFFICES ASSUME Init PROVE TypeOK OBVIOUS
<1>1. PICK j \in Jobs : TRUE
  OBVIOUS
<1>2. PICK m \in Modes : TRUE
  OBVIOUS
<1>3. PICK t \in Transports : TRUE
  OBVIOUS
<1>4. [job |-> j, attempt |-> 1, mode |-> m, transport |-> t] \in Tasks
  BY <1>1, <1>2, <1>3 DEF Tasks, Attempts
<1>5. (CHOOSE x \in Tasks : TRUE) \in Tasks
  BY <1>4
<1> QED
  BY <1>5 DEF Init, TypeOK, Attempts, JobStatus, Outcomes, Terminal, Steps, ExitCodes, NotExited

\* Sending a request keeps the steps and the requests typed (authorizedFetch).
LEMMA SendType ==
  ASSUME TypeOK, NEW w \in Workers, NEW step \in Waiting, Send(w, step)
  PROVE  /\ pc' \in [Workers -> Steps]
         /\ requests' \subseteq Requests
BY Awaited DEF TypeOK, Send, Steps, Requests, Calls

\* Turning to the identity token of a request keeps them typed too.
LEMMA TokenType ==
  ASSUME TypeOK, NEW w \in Workers, NEW step, AwaitToken(w, step)
  PROVE  /\ pc' \in [Workers -> Steps]
         /\ requests' \subseteq Requests
BY DEF TypeOK, AwaitToken, Steps

\* An exit keeps the steps and the exit codes typed.
LEMMA ExitType ==
  ASSUME TypeOK, NEW w \in Workers, NEW code \in {0, 1, 2, 124}, Exit(w, code)
  PROVE  /\ pc' \in [Workers -> Steps]
         /\ exit' \in [Workers -> ExitCodes]
BY DEF TypeOK, Exit, Steps, ExitCodes

\* Serving a request keeps the wire typed, whether or not the worker still listens.
LEMMA ServeType ==
  ASSUME TypeOK, NEW w \in Workers, NEW call \in Calls, NEW answer \in Answers,
         Serve(w, call, answer)
  PROVE  /\ requests' \subseteq Requests
         /\ responses' \subseteq Responses
BY DEF TypeOK, Serve, Requests, Responses

\* Every action keeps every variable in its type; what ServeResult saves is an
\* outcome because only a worker that has one reports.
LEMMA NextType == TypeOK /\ StepsFollowOutcome /\ [Next]_vars => TypeOK'
<1> SUFFICES ASSUME TypeOK, StepsFollowOutcome, [Next]_vars PROVE TypeOK' OBVIOUS
<1> USE DEF planeVars, netVars, workerVars
<1>1. ASSUME NEW w \in Workers, NEW j \in Jobs, NEW a \in Attempts,
             NEW mode \in Modes, NEW transport \in Transports,
             Begin(w, j, a, mode, transport)
      PROVE  TypeOK'
  <2>1. [job |-> j, attempt |-> a, mode |-> mode, transport |-> transport] \in Tasks
    BY DEF Tasks
  <2> QED
    BY <1>1, <2>1, SendType, TokenType, Awaited DEF Begin, TypeOK
<1>2. ASSUME NEW w \in Workers, RefuseInvocation(w) PROVE TypeOK'
  BY <1>2, ExitType DEF RefuseInvocation, TypeOK
<1>2a. ASSUME NEW w \in Workers, TokenAnswered(w) PROVE TypeOK'
  BY <1>2a, SendType, ExitType, Awaited DEF TokenAnswered, TypeOK
<1>3. ASSUME NEW w \in Workers, ClaimAnswered(w) PROVE TypeOK'
  <2>1. responses' \subseteq Responses
    BY <1>3 DEF ClaimAnswered, Receive, StopListening, TypeOK
  <2>2. PICK answer \in Answers :
          \/ /\ pc' = [pc EXCEPT ![w] = "running"]
             /\ outcome' = [outcome EXCEPT ![w] = "running"]
             /\ UNCHANGED exit
          \/ /\ Exit(w, ClaimExit(w, answer))
             /\ UNCHANGED outcome
    BY <1>3 DEF ClaimAnswered
  <2>3. ClaimExit(w, answer) \in {0, 1, 2, 124}
    BY DEF ClaimExit
  <2> QED
    BY <1>3, <2>1, <2>2, <2>3, ExitType DEF ClaimAnswered, TypeOK, Steps
<1>4. ASSUME NEW w \in Workers, Compute(w) PROVE TypeOK'
  BY <1>4, SendType, TokenType, Awaited DEF Compute, EngineOutcomes, TypeOK
<1>5. ASSUME NEW w \in Workers, UploadAnswered(w) PROVE TypeOK'
  BY <1>5, SendType, ExitType, Awaited DEF UploadAnswered, Receive, StopListening, TypeOK
<1>6. ASSUME NEW w \in Workers, PutAnswered(w) PROVE TypeOK'
  BY <1>6, SendType, ExitType, Awaited DEF PutAnswered, Receive, StopListening, TypeOK
<1>7. ASSUME NEW w \in Workers, ReportAnswered(w) PROVE TypeOK'
  <2>1. StatusExit(outcome[w]) \in {0, 1, 2, 124}
    BY DEF StatusExit
  <2> QED
    BY <1>7, <2>1, ExitType DEF ReportAnswered, Receive, StopListening, TypeOK
<1>8. ASSUME NEW w \in Workers, TransportFailure(w) PROVE TypeOK'
  BY <1>8, SendType, ExitType, Awaited DEF TransportFailure, StopListening, TypeOK
<1>9. ASSUME NEW w \in Workers, Crash(w) PROVE TypeOK'
  BY <1>9 DEF Crash, StopListening, TypeOK, Steps
<1>10. ASSUME NEW w \in Workers, ServeFailure(w) PROVE TypeOK'
  BY <1>10, ServeType DEF ServeFailure, Answers, TypeOK
<1>11. ASSUME NEW w \in Workers, ServeClaim(w) PROVE TypeOK'
  <2>1. requests' \subseteq Requests /\ responses' \subseteq Responses
    BY <1>11, ServeType DEF ServeClaim, Answers, Calls
  <2>2. status' \in [Jobs -> JobStatus] /\ claimant' \in [Keys -> Workers \cup {NoWorker}]
    BY <1>11 DEF ServeClaim, TypeOK, JobStatus
  <2> QED
    BY <1>11, <2>1, <2>2 DEF ServeClaim, TypeOK
<1>12. ASSUME NEW w \in Workers, ServeUpload(w) PROVE TypeOK'
  BY <1>12, ServeType DEF ServeUpload, Answers, Calls, TypeOK
<1>13. ASSUME NEW w \in Workers, ServePut(w) PROVE TypeOK'
  BY <1>13, ServeType DEF ServePut, Answers, Calls, TypeOK
<1>14. ASSUME NEW w \in Workers, ServeResult(w) PROVE TypeOK'
  <2>1. [call |-> "result", worker |-> w] \in requests
    BY <1>14 DEF ServeResult, Serve
  <2>2. outcome[w] \in JobStatus
    BY <2>1 DEF StepsFollowOutcome, JobStatus, Terminal
  <2> QED
    BY <1>14, <2>2, ServeType DEF ServeResult, Answers, Calls, TypeOK
<1>15. ASSUME NEW j \in Jobs, Reap(j) \/ Cancel(j) PROVE TypeOK'
  BY <1>15 DEF Reap, Cancel, TypeOK, JobStatus, Terminal, Outcomes, Attempts
<1>16. CASE UNCHANGED vars
  BY <1>16 DEF vars, TypeOK
<1> QED
  BY <1>1, <1>2, <1>2a, <1>3, <1>4, <1>5, <1>6, <1>7, <1>8, <1>9, <1>10, <1>11, <1>12, <1>13,
     <1>14, <1>15, <1>16 DEF Next, WorkerStep, ControlPlaneStep

------------------------------------------------------------------------------

\* Every step keeps a worker's outcome, its exit and its messages in line with
\* the step it is at (runCallbackMode, createHandler).
LEMMA StepsNext ==
  TypeOK /\ StepsFollowOutcome /\ [Next]_vars => StepsFollowOutcome'
<1> SUFFICES ASSUME TypeOK, StepsFollowOutcome, [Next]_vars
             PROVE  StepsFollowOutcome'
  OBVIOUS
<1> USE DEF planeVars, netVars, workerVars, StepsFollowOutcome, TypeOK
<1>1. ASSUME NEW w \in Workers, NEW j \in Jobs, NEW a \in Attempts,
             NEW mode \in Modes, NEW transport \in Transports,
             Begin(w, j, a, mode, transport)
      PROVE  StepsFollowOutcome'
  BY <1>1, Awaited DEF Begin, Send, AwaitToken, Requests, Responses
<1>2. ASSUME NEW w \in Workers, RefuseInvocation(w) PROVE StepsFollowOutcome'
  BY <1>2 DEF RefuseInvocation, Exit, Requests, Responses
<1>2a. ASSUME NEW w \in Workers, TokenAnswered(w) PROVE StepsFollowOutcome'
  BY <1>2a, Awaited DEF TokenAnswered, Send, Exit, Requests, Responses
<1>3. ASSUME NEW w \in Workers, ClaimAnswered(w) PROVE StepsFollowOutcome'
  BY <1>3 DEF ClaimAnswered, Receive, StopListening, Exit, Requests, Responses, Outcomes
<1>4. ASSUME NEW w \in Workers, Compute(w) PROVE StepsFollowOutcome'
  BY <1>4, Awaited DEF Compute, EngineOutcomes, Send, AwaitToken, Requests, Responses
<1>5. ASSUME NEW w \in Workers, UploadAnswered(w) PROVE StepsFollowOutcome'
  BY <1>5, Awaited DEF UploadAnswered, Receive, StopListening, Send, Exit, Requests, Responses
<1>6. ASSUME NEW w \in Workers, PutAnswered(w) PROVE StepsFollowOutcome'
  BY <1>6, Awaited DEF PutAnswered, Receive, StopListening, Send, Exit, Requests, Responses
<1>7. ASSUME NEW w \in Workers, ReportAnswered(w) PROVE StepsFollowOutcome'
  BY <1>7 DEF ReportAnswered, Receive, StopListening, Exit, Requests, Responses
<1>8. ASSUME NEW w \in Workers, TransportFailure(w) PROVE StepsFollowOutcome'
  BY <1>8, Awaited DEF TransportFailure, StopListening, Send, Exit, Requests, Responses
<1>9. ASSUME NEW w \in Workers, Crash(w) PROVE StepsFollowOutcome'
  BY <1>9, Awaited DEF Crash, StopListening, Requests, Responses
<1>10. ASSUME NEW w \in Workers, ControlPlaneStep(w) PROVE StepsFollowOutcome'
  <2>1. UNCHANGED workerVars
    BY <1>10 DEF ControlPlaneStep, ServeFailure, ServeClaim, ServeUpload, ServePut, ServeResult
  <2>2. PICK call \in Calls, answer \in Answers : Serve(w, call, answer)
    BY <1>10 DEF ControlPlaneStep, ServeFailure, ServeClaim, ServeUpload, ServePut,
         ServeResult, Calls, Answers
  <2> QED
    BY <2>1, <2>2 DEF Serve, Requests, Responses
<1>11. ASSUME NEW j \in Jobs, Reap(j) \/ Cancel(j) PROVE StepsFollowOutcome'
  BY <1>11 DEF Reap, Cancel
<1>12. CASE UNCHANGED vars
  BY <1>12 DEF vars
<1> QED
  BY <1>1, <1>2, <1>2a, <1>3, <1>4, <1>5, <1>6, <1>7, <1>8, <1>9, <1>10, <1>11, <1>12
  DEF Next, WorkerStep

\* Every step keeps claims where they were given: a claimed attempt is never
\* queued again, it can only be given up for the next one.
LEMMA ClaimsNext ==
  TypeOK /\ StepsFollowOutcome /\ ClaimsAreTaken /\ [Next]_vars
    => ClaimsAreTaken'
<1> SUFFICES ASSUME TypeOK, StepsFollowOutcome, ClaimsAreTaken, [Next]_vars
             PROVE  ClaimsAreTaken'
  OBVIOUS
<1> USE DEF planeVars, netVars, workerVars, TypeOK, Key, Keys, Tasks, Attempts, StepsFollowOutcome, ClaimsAreTaken
<1>1. ASSUME NEW w \in Workers, NEW j \in Jobs, NEW a \in Attempts,
             NEW mode \in Modes, NEW transport \in Transports,
             Begin(w, j, a, mode, transport)
      PROVE  ClaimsAreTaken'
  BY <1>1, Awaited DEF Begin, Send, AwaitToken
<1>2. ASSUME NEW w \in Workers, RefuseInvocation(w) PROVE ClaimsAreTaken'
  BY <1>2 DEF RefuseInvocation, Exit
<1>2a. ASSUME NEW w \in Workers, TokenAnswered(w) PROVE ClaimsAreTaken'
  BY <1>2a, Awaited DEF TokenAnswered, Send, Exit
<1>3. ASSUME NEW w \in Workers, ClaimAnswered(w) PROVE ClaimsAreTaken'
  BY <1>3 DEF ClaimAnswered, Receive, StopListening, Exit
<1>4. ASSUME NEW w \in Workers, Compute(w) PROVE ClaimsAreTaken'
  BY <1>4, Awaited DEF Compute, Send, AwaitToken, EngineOutcomes
<1>5. ASSUME NEW w \in Workers, UploadAnswered(w) PROVE ClaimsAreTaken'
  BY <1>5, Awaited DEF UploadAnswered, Receive, StopListening, Send, Exit
<1>6. ASSUME NEW w \in Workers, PutAnswered(w) PROVE ClaimsAreTaken'
  BY <1>6, Awaited DEF PutAnswered, Receive, StopListening, Send, Exit
<1>7. ASSUME NEW w \in Workers, ReportAnswered(w) PROVE ClaimsAreTaken'
  BY <1>7 DEF ReportAnswered, Receive, StopListening, Exit
<1>8. ASSUME NEW w \in Workers, TransportFailure(w) PROVE ClaimsAreTaken'
  BY <1>8, Awaited DEF TransportFailure, StopListening, Send, Exit
<1>9. ASSUME NEW w \in Workers, Crash(w) PROVE ClaimsAreTaken'
  BY <1>9, Awaited DEF Crash, StopListening
<1>10. ASSUME NEW w \in Workers, ServeFailure(w) PROVE ClaimsAreTaken'
  BY <1>10 DEF ServeFailure, Serve
<1>11. ASSUME NEW w \in Workers, ServeClaim(w) PROVE ClaimsAreTaken'
  BY <1>11 DEF ServeClaim, Serve
<1>12. ASSUME NEW w \in Workers, ServeUpload(w) PROVE ClaimsAreTaken'
  BY <1>12 DEF ServeUpload, Serve
<1>13. ASSUME NEW w \in Workers, ServePut(w) PROVE ClaimsAreTaken'
  BY <1>13 DEF ServePut, Serve
<1>14. ASSUME NEW w \in Workers, ServeResult(w) PROVE ClaimsAreTaken'
  <2>1. outcome[w] \in Outcomes
    BY <1>14 DEF ServeResult, Serve
  <2> QED
    BY <1>14, <2>1 DEF ServeResult, Outcomes
<1>15. ASSUME NEW j \in Jobs, Reap(j) PROVE ClaimsAreTaken'
  BY <1>15 DEF Reap
<1>16. ASSUME NEW j \in Jobs, Cancel(j) PROVE ClaimsAreTaken'
  BY <1>16 DEF Cancel
<1>17. CASE UNCHANGED vars
  BY <1>17 DEF vars
<1> QED
  BY <1>1, <1>2, <1>2a, <1>3, <1>4, <1>5, <1>6, <1>7, <1>8, <1>9, <1>10, <1>11, <1>12, <1>13,
     <1>14, <1>15, <1>16, <1>17 DEF Next, WorkerStep, ControlPlaneStep

\* Every step keeps execution with the claimant: only the answer that carries
\* the claim starts the engine (claimJob).
LEMMA HoldersNext ==
  TypeOK /\ StepsFollowOutcome /\ ClaimsAreTaken /\ HoldersAreClaimants /\ [Next]_vars
    => HoldersAreClaimants'
<1> SUFFICES ASSUME TypeOK, StepsFollowOutcome, ClaimsAreTaken, HoldersAreClaimants, [Next]_vars
             PROVE  HoldersAreClaimants'
  OBVIOUS
<1> USE DEF planeVars, netVars, workerVars, TypeOK, Key, Keys, Tasks, Started, StepsFollowOutcome, ClaimsAreTaken, HoldersAreClaimants, Requests, Responses
<1>1. ASSUME NEW w \in Workers, NEW j \in Jobs, NEW a \in Attempts,
             NEW mode \in Modes, NEW transport \in Transports,
             Begin(w, j, a, mode, transport)
      PROVE  HoldersAreClaimants'
  BY <1>1, Awaited DEF Begin, Send, AwaitToken
<1>2. ASSUME NEW w \in Workers, RefuseInvocation(w) PROVE HoldersAreClaimants'
  BY <1>2 DEF RefuseInvocation, Exit
<1>2a. ASSUME NEW w \in Workers, TokenAnswered(w) PROVE HoldersAreClaimants'
  BY <1>2a, Awaited DEF TokenAnswered, Send, Exit
<1>3. ASSUME NEW w \in Workers, ClaimAnswered(w) PROVE HoldersAreClaimants'
  <2>1. /\ UNCHANGED <<claimant, task>>
        /\ responses' \subseteq responses
        /\ \A v \in Workers : v # w => outcome'[v] = outcome[v]
    BY <1>3 DEF ClaimAnswered, Receive, StopListening, Exit
  <2>2. outcome'[w] # outcome[w] => claimant[Key(w)] = w
    BY <1>3, Awaited DEF ClaimAnswered, Receive, Usable
  <2>3. \A v \in Workers : Started(v)' => claimant[Key(v)] = v
    BY <2>1, <2>2
  <2> QED
    BY <2>1, <2>3
<1>4. ASSUME NEW w \in Workers, Compute(w) PROVE HoldersAreClaimants'
  BY <1>4, Awaited DEF Compute, Send, AwaitToken, EngineOutcomes
<1>5. ASSUME NEW w \in Workers, UploadAnswered(w) PROVE HoldersAreClaimants'
  BY <1>5, Awaited DEF UploadAnswered, Receive, StopListening, Send, Exit
<1>6. ASSUME NEW w \in Workers, PutAnswered(w) PROVE HoldersAreClaimants'
  BY <1>6, Awaited DEF PutAnswered, Receive, StopListening, Send, Exit
<1>7. ASSUME NEW w \in Workers, ReportAnswered(w) PROVE HoldersAreClaimants'
  BY <1>7 DEF ReportAnswered, Receive, StopListening, Exit
<1>8. ASSUME NEW w \in Workers, TransportFailure(w) PROVE HoldersAreClaimants'
  BY <1>8, Awaited DEF TransportFailure, StopListening, Send, Exit
<1>9. ASSUME NEW w \in Workers, Crash(w) PROVE HoldersAreClaimants'
  BY <1>9, Awaited DEF Crash, StopListening
<1>10. ASSUME NEW w \in Workers, ServeFailure(w) PROVE HoldersAreClaimants'
  BY <1>10 DEF ServeFailure, Serve
<1>11. ASSUME NEW w \in Workers, ServeClaim(w) PROVE HoldersAreClaimants'
  BY <1>11 DEF ServeClaim, Serve
<1>12. ASSUME NEW w \in Workers, ServeUpload(w) PROVE HoldersAreClaimants'
  BY <1>12 DEF ServeUpload, Serve
<1>13. ASSUME NEW w \in Workers, ServePut(w) PROVE HoldersAreClaimants'
  BY <1>13 DEF ServePut, Serve
<1>14. ASSUME NEW w \in Workers, ServeResult(w) PROVE HoldersAreClaimants'
  BY <1>14 DEF ServeResult, Serve
<1>15. ASSUME NEW j \in Jobs, Reap(j) PROVE HoldersAreClaimants'
  BY <1>15 DEF Reap
<1>16. ASSUME NEW j \in Jobs, Cancel(j) PROVE HoldersAreClaimants'
  BY <1>16 DEF Cancel
<1>17. CASE UNCHANGED vars
  BY <1>17 DEF vars
<1> QED
  BY <1>1, <1>2, <1>2a, <1>3, <1>4, <1>5, <1>6, <1>7, <1>8, <1>9, <1>10, <1>11, <1>12, <1>13,
     <1>14, <1>15, <1>16, <1>17 DEF Next, WorkerStep, ControlPlaneStep

\* Every step keeps the stored bytes those of the attempt's claimant (the
\* conditional PUT of reportResult, and the tombstone).
LEMMA BytesNext ==
  TypeOK /\ StepsFollowOutcome /\ ClaimsAreTaken /\ HoldersAreClaimants /\ StoredBytesAreClaimants /\ [Next]_vars
    => StoredBytesAreClaimants'
<1> SUFFICES ASSUME TypeOK, StepsFollowOutcome, ClaimsAreTaken, HoldersAreClaimants, StoredBytesAreClaimants, [Next]_vars
             PROVE  StoredBytesAreClaimants'
  OBVIOUS
<1> USE DEF planeVars, netVars, workerVars, TypeOK, Key, Keys, Tasks, Attempts, StoredBytesAreClaimants
<1>1. ASSUME NEW w \in Workers, NEW j \in Jobs, NEW a \in Attempts,
             NEW mode \in Modes, NEW transport \in Transports,
             Begin(w, j, a, mode, transport)
      PROVE  StoredBytesAreClaimants'
  BY <1>1 DEF Begin, Send, AwaitToken
<1>2. ASSUME NEW w \in Workers, RefuseInvocation(w) PROVE StoredBytesAreClaimants'
  BY <1>2 DEF RefuseInvocation, Exit
<1>2a. ASSUME NEW w \in Workers, TokenAnswered(w) PROVE StoredBytesAreClaimants'
  BY <1>2a, Awaited DEF TokenAnswered, Send, Exit
<1>3. ASSUME NEW w \in Workers, ClaimAnswered(w) PROVE StoredBytesAreClaimants'
  BY <1>3 DEF ClaimAnswered, Receive, StopListening, Exit
<1>4. ASSUME NEW w \in Workers, Compute(w) PROVE StoredBytesAreClaimants'
  BY <1>4 DEF Compute, Send, AwaitToken, EngineOutcomes
<1>5. ASSUME NEW w \in Workers, UploadAnswered(w) PROVE StoredBytesAreClaimants'
  BY <1>5 DEF UploadAnswered, Receive, StopListening, Send, Exit
<1>6. ASSUME NEW w \in Workers, PutAnswered(w) PROVE StoredBytesAreClaimants'
  BY <1>6 DEF PutAnswered, Receive, StopListening, Send, Exit
<1>7. ASSUME NEW w \in Workers, ReportAnswered(w) PROVE StoredBytesAreClaimants'
  BY <1>7 DEF ReportAnswered, Receive, StopListening, Exit
<1>8. ASSUME NEW w \in Workers, TransportFailure(w) PROVE StoredBytesAreClaimants'
  BY <1>8 DEF TransportFailure, StopListening, Send, Exit
<1>9. ASSUME NEW w \in Workers, Crash(w) PROVE StoredBytesAreClaimants'
  BY <1>9 DEF Crash, StopListening
<1>10. ASSUME NEW w \in Workers, ServeFailure(w) PROVE StoredBytesAreClaimants'
  BY <1>10 DEF ServeFailure, Serve
<1>11. ASSUME NEW w \in Workers, ServeClaim(w) PROVE StoredBytesAreClaimants'
  BY <1>11 DEF ServeClaim, ClaimsAreTaken
<1>12. ASSUME NEW w \in Workers, ServeUpload(w) PROVE StoredBytesAreClaimants'
  BY <1>12 DEF ServeUpload, Serve
<1>13. ASSUME NEW w \in Workers, ServePut(w) PROVE StoredBytesAreClaimants'
  <2>1. \E r \in requests : r.call = "put" /\ r.worker = w
    BY <1>13 DEF ServePut, Serve
  <2>2. outcome[w] \in Outcomes
    BY <2>1 DEF StepsFollowOutcome
  <2>3. claimant[Key(w)] = w
    BY <2>2 DEF HoldersAreClaimants, Started, Outcomes
  <2> QED
    BY <1>13, <2>3 DEF ServePut
<1>14. ASSUME NEW w \in Workers, ServeResult(w) PROVE StoredBytesAreClaimants'
  BY <1>14 DEF ServeResult, Serve
<1>15. ASSUME NEW j \in Jobs, Reap(j) PROVE StoredBytesAreClaimants'
  BY <1>15 DEF Reap
<1>16. ASSUME NEW j \in Jobs, Cancel(j) PROVE StoredBytesAreClaimants'
  BY <1>16 DEF Cancel
<1>17. CASE UNCHANGED vars
  BY <1>17 DEF vars
<1> QED
  BY <1>1, <1>2, <1>2a, <1>3, <1>4, <1>5, <1>6, <1>7, <1>8, <1>9, <1>10, <1>11, <1>12, <1>13,
     <1>14, <1>15, <1>16, <1>17 DEF Next, WorkerStep, ControlPlaneStep

\* Every step keeps saved results, the answers that acknowledge them and the exit
\* codes in agreement (reportResult).
LEMMA SavedNext ==
  TypeOK /\ StepsFollowOutcome /\ ClaimsAreTaken /\ HoldersAreClaimants /\ SavedResults /\ [Next]_vars
    => SavedResults'
<1> SUFFICES ASSUME TypeOK, StepsFollowOutcome, ClaimsAreTaken, HoldersAreClaimants, SavedResults, [Next]_vars
             PROVE  SavedResults'
  OBVIOUS
<1>0. \A i \in Jobs : \A v \in Workers :
        result[i] = v => status[i] = outcome[v] /\ outcome[v] \in Outcomes
  BY DEF SavedResults
<1> USE DEF planeVars, netVars, workerVars, TypeOK, Key, Keys, Tasks, StepsFollowOutcome, SavedResults
<1>1. ASSUME NEW w \in Workers, NEW j \in Jobs, NEW a \in Attempts,
             NEW mode \in Modes, NEW transport \in Transports,
             Begin(w, j, a, mode, transport)
      PROVE  SavedResults'
  <2>1. outcome[w] = "none" /\ exit[w] = NotExited /\ result \in [Jobs -> Workers \cup {NoWorker}]
    BY <1>1 DEF Begin
  <2>2. /\ UNCHANGED <<result, attempt, status, object, responses, outcome, exit>>
        /\ \A v \in Workers \ {w} : task'[v] = task[v]
    BY <1>1 DEF Begin
  <2>3. \A r \in responses : r.worker \in Workers /\ r.worker # w
    BY <1>1 DEF Begin, Responses
  <2>4. \A i \in Jobs : result[i] # w
    BY <2>1 DEF Outcomes
  <2>5. \A i \in Jobs : \A v \in Workers :
          result[i] = v =>
            /\ v # w
            /\ Key(v)' = Key(v)
            /\ task'[v] = task[v]
    BY <2>2, <2>4
  <2>6. exit[w] \notin {0, 124}
    BY <2>1 DEF NotExited
  <2> QED
    BY <2>2, <2>3, <2>5, <2>6
<1>2. ASSUME NEW w \in Workers, RefuseInvocation(w) PROVE SavedResults'
  BY <1>2 DEF RefuseInvocation, Exit
<1>2a. ASSUME NEW w \in Workers, TokenAnswered(w) PROVE SavedResults'
  BY <1>2a, Awaited DEF TokenAnswered, Send, Exit
<1>3. ASSUME NEW w \in Workers, ClaimAnswered(w) PROVE SavedResults'
  <2>1. outcome[w] = "none" /\ exit[w] = NotExited
    BY <1>3 DEF ClaimAnswered, Receive
  <2>2. /\ responses' \subseteq responses
        /\ UNCHANGED <<result, attempt, status, object, task>>
        /\ \A v \in Workers \ {w} : outcome'[v] = outcome[v] /\ exit'[v] = exit[v]
        /\ exit'[w] \in {NotExited, 1, 2}
    BY <1>3, <2>1 DEF ClaimAnswered, Receive, StopListening, Exit, ClaimExit
  <2> QED
    BY <2>1, <2>2 DEF Outcomes, NotExited, Responses
<1>4. ASSUME NEW w \in Workers, Compute(w) PROVE SavedResults'
  BY <1>4, Awaited DEF Compute, Send, AwaitToken, EngineOutcomes, Outcomes, NotExited
<1>5. ASSUME NEW w \in Workers, UploadAnswered(w) PROVE SavedResults'
  BY <1>5, Awaited DEF UploadAnswered, Receive, StopListening, Send, Exit
<1>6. ASSUME NEW w \in Workers, PutAnswered(w) PROVE SavedResults'
  BY <1>6, Awaited DEF PutAnswered, Receive, StopListening, Send, Exit
<1>7. ASSUME NEW w \in Workers, ReportAnswered(w) PROVE SavedResults'
  BY <1>7, Awaited DEF ReportAnswered, Receive, StopListening, Exit, Responses
<1>8. ASSUME NEW w \in Workers, TransportFailure(w) PROVE SavedResults'
  BY <1>8, Awaited DEF TransportFailure, StopListening, Send, Exit
<1>9. ASSUME NEW w \in Workers, Crash(w) PROVE SavedResults'
  BY <1>9, Awaited DEF Crash, StopListening
<1>10. ASSUME NEW w \in Workers, ServeFailure(w) PROVE SavedResults'
  BY <1>10 DEF ServeFailure, Serve
<1>11. ASSUME NEW w \in Workers, ServeClaim(w) PROVE SavedResults'
  BY <1>11 DEF ServeClaim, Serve, Outcomes
<1>12. ASSUME NEW w \in Workers, ServeUpload(w) PROVE SavedResults'
  BY <1>12 DEF ServeUpload, Serve
<1>13. ASSUME NEW w \in Workers, ServePut(w) PROVE SavedResults'
  BY <1>13 DEF ServePut, Serve
<1>14. ASSUME NEW w \in Workers, ServeResult(w) PROVE SavedResults'
  <2> DEFINE k == task[w].job
  <2>1. /\ outcome[w] \in Outcomes
        /\ claimant[Key(w)] = w
        /\ Key(w) = <<k, attempt[k]>>
        /\ status[k] = "RUNNING"
    BY <1>14 DEF ServeResult, Serve, Current, HoldersAreClaimants, Started, Outcomes
  <2>2. result[k] \notin Workers
    <3> SUFFICES ASSUME NEW v \in Workers, result[k] = v PROVE FALSE
      OBVIOUS
    <3>1. k \in Jobs
      OBVIOUS
    <3>2. status[k] = outcome[v] /\ outcome[v] \in Outcomes
      BY <1>0, <3>1
    <3> QED
      BY <2>1, <3>2 DEF Outcomes
  <2>3. /\ result' = [result EXCEPT ![k] = w]
        /\ status' = [status EXCEPT ![k] = outcome[w]]
        /\ UNCHANGED <<attempt, task, outcome, exit>>
        /\ task[w].transport = "s3" => object'[Key(w)] \in {w, Tombstone}
        /\ \A x \in Keys : x # Key(w) => object'[x] = object[x]
        /\ \A r \in responses' : r \in responses \/ r.worker = w
    BY <1>14 DEF ServeResult, Serve
  <2>4. \A v \in Workers : Started(v) /\ Key(v) = Key(w) => v = w
    BY <2>1 DEF HoldersAreClaimants
  <2>5. \A i \in Jobs : \A v \in Workers :
          result'[i] = v =>
            /\ Key(v) = <<i, attempt[i]>>
            /\ outcome[v] \in Outcomes
            /\ status'[i] = outcome[v]
            /\ task[v].transport = "s3" => object'[Key(v)] \in {v, Tombstone}
    <3> SUFFICES ASSUME NEW i \in Jobs, NEW v \in Workers, result'[i] = v
                 PROVE  /\ Key(v) = <<i, attempt[i]>>
                        /\ outcome[v] \in Outcomes
                        /\ status'[i] = outcome[v]
                        /\ task[v].transport = "s3" => object'[Key(v)] \in {v, Tombstone}
      OBVIOUS
    <3>1. CASE i = k
      <4>1. v = w
        BY <2>3, <3>1
      <4> QED
        BY <2>1, <2>3, <3>1, <4>1
    <3>2. CASE i # k
      <4>1. result[i] = v /\ status'[i] = status[i]
        BY <2>3, <3>2
      <4>2. Key(v) = <<i, attempt[i]>> /\ Key(v) # Key(w) /\ Key(v) \in Keys
        BY <2>1, <3>2, <4>1
      <4> QED
        BY <2>3, <4>1, <4>2
    <3> QED
      BY <3>1, <3>2
  <2>6. \A r \in responses' :
          r.call = "result" /\ r.answer = "ok" => result'[task[r.worker].job] = r.worker
    BY <2>1, <2>2, <2>3 DEF Responses
  <2>7. \A v \in Workers :
          exit[v] \in {0, 124} =>
            result'[task[v].job] = v /\ exit[v] = StatusExit(outcome[v])
    BY <2>2, <2>3
  <2> QED
    BY <2>3, <2>5, <2>6, <2>7
<1>15. ASSUME NEW j \in Jobs, Reap(j) PROVE SavedResults'
  BY <1>15 DEF Reap, Outcomes
<1>16. ASSUME NEW j \in Jobs, Cancel(j) PROVE SavedResults'
  BY <1>16 DEF Cancel, Outcomes
<1>17. CASE UNCHANGED vars
  BY <1>17 DEF vars
<1> HIDE DEF TypeOK, Key, Keys, Tasks, StepsFollowOutcome, SavedResults
<1> QED
  BY <1>1, <1>2, <1>2a, <1>3, <1>4, <1>5, <1>6, <1>7, <1>8, <1>9, <1>10, <1>11, <1>12, <1>13,
     <1>14, <1>15, <1>16, <1>17 DEF Next, WorkerStep, ControlPlaneStep

------------------------------------------------------------------------------

\* PlaneInv holds in every reachable state: the types, and the four relations
\* between rows, claims, messages and workers that the safety properties rest on.
THEOREM PlaneInvariance == Spec => []PlaneInv
<1>1. Init => PlaneInv
  <2> SUFFICES ASSUME Init PROVE PlaneInv
    OBVIOUS
  <2>1. TypeOK
    BY InitType
  <2>2. StepsFollowOutcome
    BY DEF Init, StepsFollowOutcome
  <2>3. ClaimsAreTaken /\ HoldersAreClaimants
    BY DEF Init, ClaimsAreTaken, HoldersAreClaimants, Started
  <2>4. StoredBytesAreClaimants
    BY DEF Init, StoredBytesAreClaimants
  <2>5. SavedResults
    BY DEF Init, SavedResults, NotExited
  <2> QED
    BY <2>1, <2>2, <2>3, <2>4, <2>5 DEF PlaneInv
<1>2. PlaneInv /\ [Next]_vars => PlaneInv'
  BY NextType, StepsNext, ClaimsNext, HoldersNext, BytesNext, SavedNext DEF PlaneInv
<1> QED
  BY <1>1, <1>2, PTL DEF Spec

\* Type correctness. It needs the rest of the invariant: a job's status is typed
\* because only a worker with an outcome reports (reportResult in callback.ts).
THEOREM TypeCorrect == Spec => []TypeOK
BY PlaneInvariance, PTL DEF PlaneInv

\* However a job is dispatched, and whatever the network and the workers lose, no
\* attempt of it is executed by two workers (claimJob in callback.ts).
THEOREM ExecutedOnce == Spec => []OneExecutionPerAttempt
<1>1. PlaneInv => OneExecutionPerAttempt
  BY DEF PlaneInv, HoldersAreClaimants, OneExecutionPerAttempt
<1> QED
  BY <1>1, PlaneInvariance, PTL

\* A settled result is the claimant's of the job's current attempt.
THEOREM ResultProvenance == Spec => []ResultIsClaimants
<1>1. PlaneInv => ResultIsClaimants
  BY DEF PlaneInv, SavedResults, HoldersAreClaimants, ResultIsClaimants, Started, Outcomes
<1> QED
  BY <1>1, PlaneInvariance, PTL

\* The object store never mixes up two workers' bytes, so 412 means "mine".
THEOREM ObjectProvenance == Spec => []StoredBytesAreClaimants
BY PlaneInvariance, PTL DEF PlaneInv

\* A worker that exits 0 or 124 has its outcome on record and its body stored.
THEOREM ExitsAreTruthful == Spec => []CleanExitIsRecorded
<1>1. PlaneInv => CleanExitIsRecorded
  <2> SUFFICES ASSUME PlaneInv, NEW w \in Workers, exit[w] \in {0, 124}
               PROVE  /\ result[task[w].job] = w
                      /\ exit[w] = StatusExit(status[task[w].job])
                      /\ task[w].transport = "s3" => object[Key(w)] \in {w, Tombstone}
    BY DEF CleanExitIsRecorded
  <2>1. task[w].job \in Jobs
    BY DEF PlaneInv, TypeOK, Tasks
  <2>2. result[task[w].job] = w /\ exit[w] = StatusExit(outcome[w])
    BY DEF PlaneInv, SavedResults
  <2> QED
    BY <2>1, <2>2 DEF PlaneInv, SavedResults
<1> QED
  BY <1>1, PlaneInvariance, PTL

------------------------------------------------------------------------------
(* The refinement of the ledger *)

USE DEF Ledger!Attempts, Ledger!Keys, Ledger!Outcomes, Attempts, Keys

\* The initial states of the plane are initial states of the ledger.
LEMMA InitRefines == Init => Ledger!LedgerInit
BY DEF Init, Ledger!LedgerInit, Verdict

\* A step that leaves rows, claims and outcomes alone is invisible to the ledger.
LEMMA Invisible ==
  UNCHANGED <<status, attempt, claimant, outcome>> => UNCHANGED Ledger!ledgerVars
BY DEF Ledger!ledgerVars, Verdict

\* Every step of the plane is a step of the ledger, or invisible to it.
LEMMA NextRefines == PlaneInv /\ [Next]_vars => [Ledger!LedgerNext]_(Ledger!ledgerVars)
<1> SUFFICES ASSUME PlaneInv, [Next]_vars
             PROVE  Ledger!LedgerNext \/ UNCHANGED Ledger!ledgerVars
  OBVIOUS
<1> USE DEF planeVars, netVars, workerVars
<1> DEFINE Goal == Ledger!LedgerNext \/ UNCHANGED Ledger!ledgerVars
<1>1. ASSUME NEW w \in Workers, NEW j \in Jobs, NEW a \in Attempts,
             NEW mode \in Modes, NEW transport \in Transports,
             Begin(w, j, a, mode, transport)
      PROVE  Goal
  BY <1>1, Invisible DEF Begin
<1>2. ASSUME NEW w \in Workers,
             \/ RefuseInvocation(w) \/ TokenAnswered(w)
             \/ UploadAnswered(w) \/ PutAnswered(w)
             \/ ReportAnswered(w) \/ TransportFailure(w) \/ Crash(w)
             \/ ServeFailure(w) \/ ServeUpload(w) \/ ServePut(w)
      PROVE  Goal
  <2>1. UNCHANGED <<status, attempt, claimant, outcome>>
    BY <1>2 DEF RefuseInvocation, TokenAnswered, UploadAnswered, PutAnswered, ReportAnswered,
         TransportFailure, Crash, ServeFailure, ServeUpload, ServePut
  <2> QED
    BY <2>1, Invisible
<1>3. ASSUME NEW w \in Workers, ClaimAnswered(w) PROVE Goal
  <2> DEFINE k == Key(w)
  <2>1. k \in Keys /\ k = <<task[w].job, task[w].attempt>>
    BY DEF PlaneInv, TypeOK, Key, Tasks
  <2>2. CASE outcome' = [outcome EXCEPT ![w] = "running"] /\ claimant[k] = w
    <3>1. outcome[w] = "none" /\ UNCHANGED <<status, attempt, claimant, task>>
      BY <1>3 DEF ClaimAnswered, Receive, PlaneInv, StepsFollowOutcome
    <3>2. Verdict[k] = "claimed"
      BY <2>1, <2>2, <3>1 DEF Verdict
    <3>3. Verdict' = [Verdict EXCEPT ![k] = "running"]
      BY <2>1, <2>2, <3>1 DEF Verdict, PlaneInv, ClaimsAreTaken, TypeOK
    <3>4. Ledger!Execute(task[w].job, task[w].attempt)
      BY <2>1, <3>1, <3>2, <3>3 DEF Ledger!Execute
    <3> QED
      BY <2>1, <3>4 DEF Ledger!LedgerNext
  <2>3. CASE UNCHANGED outcome
    BY <1>3, <2>3, Invisible DEF ClaimAnswered
  <2>4. PICK answer \in Answers :
          /\ Receive(w, "claiming", answer)
          /\ \/ Usable(w, answer) /\ outcome' = [outcome EXCEPT ![w] = "running"]
             \/ UNCHANGED outcome
    BY <1>3 DEF ClaimAnswered
  <2>5. Usable(w, answer) => claimant[k] = w
    BY <2>4, Awaited DEF Usable, Receive, PlaneInv, HoldersAreClaimants
  <2> QED
    BY <2>2, <2>3, <2>4, <2>5
<1>4. ASSUME NEW w \in Workers, Compute(w) PROVE Goal
  <2> DEFINE k == Key(w)
  <2>1. k \in Keys /\ k = <<task[w].job, task[w].attempt>>
    BY DEF PlaneInv, TypeOK, Key, Tasks
  <2>2. outcome[w] = "running" /\ UNCHANGED <<status, attempt, claimant, task>>
    BY <1>4 DEF Compute, PlaneInv, StepsFollowOutcome
  <2>3. claimant[k] = w /\ Verdict[k] = "running"
    BY <2>1, <2>2 DEF PlaneInv, HoldersAreClaimants, Started, Verdict
  <2>4. PICK s \in Outcomes : outcome' = [outcome EXCEPT ![w] = s]
    BY <1>4 DEF Compute, EngineOutcomes
  <2>5. Verdict' = [Verdict EXCEPT ![k] = s]
    BY <2>1, <2>2, <2>3, <2>4 DEF Verdict, PlaneInv, ClaimsAreTaken, TypeOK, Outcomes
  <2>6. Ledger!Finish(task[w].job, task[w].attempt, s)
    BY <2>1, <2>2, <2>3, <2>5 DEF Ledger!Finish
  <2> QED
    BY <2>1, <2>6 DEF Ledger!LedgerNext, Outcomes
<1>5. ASSUME NEW w \in Workers, ServeClaim(w) PROVE Goal
  <2> DEFINE j == task[w].job
             k == Key(w)
  <2>1. /\ j \in Jobs /\ k \in Keys /\ k = <<j, attempt[j]>>
        /\ status[j] = "QUEUED"
        /\ status' = [status EXCEPT ![j] = "RUNNING"]
        /\ claimant' = [claimant EXCEPT ![k] = w]
        /\ UNCHANGED <<attempt, outcome>>
    BY <1>5 DEF ServeClaim, PlaneInv, TypeOK, Key, Tasks
  <2>2. claimant[k] = NoWorker /\ Verdict[k] = "none"
    BY <2>1 DEF PlaneInv, TypeOK, ClaimsAreTaken, Verdict
  <2>3. outcome[w] = "none"
    BY <2>2 DEF PlaneInv, HoldersAreClaimants, Started
  <2>4. Verdict' = [Verdict EXCEPT ![k] = "claimed"]
    BY <2>1, <2>3 DEF Verdict, PlaneInv, TypeOK
  <2>5. Ledger!Claim(j)
    BY <2>1, <2>2, <2>4 DEF Ledger!Claim
  <2> QED
    BY <2>1, <2>5 DEF Ledger!LedgerNext
<1>6. ASSUME NEW w \in Workers, ServeResult(w) PROVE Goal
  <2> DEFINE j == task[w].job
             k == Key(w)
  <2>1. /\ j \in Jobs /\ k \in Keys /\ k = <<j, attempt[j]>>
        /\ status[j] = "RUNNING"
        /\ status' = [status EXCEPT ![j] = outcome[w]]
        /\ UNCHANGED <<attempt, claimant, outcome>>
    BY <1>6 DEF ServeResult, Current, PlaneInv, TypeOK, Key, Tasks
  <2>2. outcome[w] \in Outcomes
    BY <1>6 DEF ServeResult, Serve, PlaneInv, StepsFollowOutcome
  <2>3. Verdict[k] = outcome[w]
    BY <2>1, <2>2 DEF Verdict, PlaneInv, HoldersAreClaimants, Started, Outcomes
  <2>4. UNCHANGED Verdict
    BY <2>1 DEF Verdict
  <2>5. Ledger!Commit(j)
    BY <2>1, <2>2, <2>3, <2>4 DEF Ledger!Commit, Outcomes
  <2> QED
    BY <2>1, <2>5 DEF Ledger!LedgerNext
<1>7. ASSUME NEW j \in Jobs, Reap(j) PROVE Goal
  <2>1. UNCHANGED Verdict
    BY <1>7 DEF Reap, Verdict
  <2>2. Ledger!Retry(j) \/ Ledger!Abandon(j)
    BY <1>7, <2>1 DEF Reap, Ledger!Retry, Ledger!Abandon
  <2> QED
    BY <2>2 DEF Ledger!LedgerNext
<1>8. ASSUME NEW j \in Jobs, Cancel(j) PROVE Goal
  <2>1. UNCHANGED Verdict
    BY <1>8 DEF Cancel, Verdict
  <2>2. Ledger!Abandon(j)
    BY <1>8, <2>1 DEF Cancel, Ledger!Abandon
  <2> QED
    BY <2>2 DEF Ledger!LedgerNext
<1>9. CASE UNCHANGED vars
  BY <1>9, Invisible DEF vars
<1> QED
  BY <1>1, <1>2, <1>3, <1>4, <1>5, <1>6, <1>7, <1>8, <1>9
  DEF Next, WorkerStep, ControlPlaneStep

\* The plane implements the ledger: each attempt executes at most once and only
\* after its claim, and a job settles once, on its current attempt's outcome.
THEOREM PlaneImplementsLedger == Spec => ImplementsLedger
BY InitRefines, NextRefines, PlaneInvariance, PTL DEF Spec, ImplementsLedger, Ledger!LedgerSpec
==============================================================================
