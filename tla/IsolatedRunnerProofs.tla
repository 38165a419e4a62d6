------------------------ MODULE IsolatedRunnerProofs ------------------------
(***************************************************************************)
(* The safety of the isolated runner for any number of runs of one warm     *)
(* process.                                                                 *)
(***************************************************************************)
EXTENDS IsolatedRunner, TLAPS

USE RunsAssumption

\* A warm process starts with no child.
LEMMA RunnerInit == Init => RunnerInv
BY DEF Init, RunnerInv, TypeOK, Runs

\* What finish writes has the type of what it is given.
LEMMA FinishType ==
  ASSUME TypeOK, NEW i \in Runs, NEW value \in Statuses, Finish(i, value)
  PROVE  /\ result' \in [Runs -> Statuses \cup {"none"}]
         /\ timer' \in [Runs -> BOOLEAN]
         /\ signal' \in [Runs -> BOOLEAN]
<1>1. CASE result[i] = "none"
  <2>1. /\ result' = [result EXCEPT ![i] = value]
        /\ timer' = [timer EXCEPT ![i] = FALSE]
        /\ signal' = [signal EXCEPT ![i] = TRUE]
    BY <1>1 DEF Finish
  <2>2. result' \in [Runs -> Statuses \cup {"none"}]
    BY <2>1 DEF TypeOK
  <2>3. timer' \in [Runs -> BOOLEAN] /\ signal' \in [Runs -> BOOLEAN]
    BY <2>1 DEF TypeOK
  <2> QED
    BY <2>2, <2>3
<1>2. CASE result[i] # "none"
  BY <1>2 DEF TypeOK, Finish
<1> QED
  BY <1>1, <1>2

\* Every step keeps the types, the order of the runs, and the close after death.
LEMMA RunnerNext == RunnerInv /\ [Next]_vars => RunnerInv'
<1> SUFFICES ASSUME RunnerInv, [Next]_vars
             PROVE  RunnerInv'
  OBVIOUS
<1> USE DEF RunnerInv
<1>1. ASSUME NEW i \in Runs, Fork(i) PROVE RunnerInv'
  <2>1. TypeOK'
    BY <1>1 DEF Fork, TypeOK, Alive, Faults
  <2>2. resolved[i] = "none"
    BY <1>1 DEF Fork
  <2>3. \A k \in Runs : k < i => resolved[k] # "none"
    BY <1>1 DEF Fork, Runs
  <2> QED
    BY <1>1, <2>1, <2>2, <2>3 DEF Fork, TypeOK
<1>2. ASSUME NEW i \in Runs, OnMessage(i) PROVE RunnerInv'
  <2>1. Judge(wire[i]) \in Statuses
    BY <1>2 DEF OnMessage, Judge, TypeOK, Messages, Statuses
  <2>2. TypeOK'
    BY <1>2, <2>1, FinishType DEF OnMessage, TypeOK
  <2> QED
    BY <1>2, <2>2 DEF OnMessage
<1>3. ASSUME NEW i \in Runs, OnFault(i) PROVE RunnerInv'
  <2>1. faults' \in [Runs -> SUBSET Faults]
    <3>1. PICK f \in faults[i] : faults' = [faults EXCEPT ![i] = @ \ {f}]
      BY <1>3 DEF OnFault
    <3> QED
      BY <3>1 DEF TypeOK
  <2>2. TypeOK'
    BY <1>3, <2>1, FinishType DEF OnFault, TypeOK, Statuses
  <2> QED
    BY <1>3, <2>2 DEF OnFault
<1>4. ASSUME NEW i \in Runs, OnTimer(i) PROVE RunnerInv'
  <2>1. TypeOK'
    BY <1>4, FinishType DEF OnTimer, TypeOK, Statuses
  <2> QED
    BY <1>4, <2>1 DEF OnTimer
<1>5. ASSUME NEW i \in Runs, OnClose(i) PROVE RunnerInv'
  <2>1. TypeOK'
    BY <1>5 DEF OnClose, childVars, TypeOK, Statuses
  <2> QED
    BY <1>5, <2>1 DEF OnClose, childVars, TypeOK, Statuses
<1>6. ASSUME NEW i \in Runs, ChildReceives(i) PROVE RunnerInv'
  BY <1>6 DEF ChildReceives, parentVars, TypeOK, Alive
<1>7. ASSUME NEW i \in Runs, ChildReplies(i) PROVE RunnerInv'
  BY <1>7 DEF ChildReplies, parentVars, TypeOK, Alive
<1>8. ASSUME NEW i \in Runs, ChildExits(i) PROVE RunnerInv'
  <2>1. faults' \in [Runs -> SUBSET Faults]
    BY <1>8 DEF ChildExits, TypeOK, Faults
  <2> QED
    BY <1>8, <2>1 DEF ChildExits, parentVars, TypeOK, Alive
<1>9. ASSUME NEW i \in Runs, KillLands(i) PROVE RunnerInv'
  BY <1>9 DEF KillLands, parentVars, TypeOK, Alive
<1>10. CASE UNCHANGED vars
  BY <1>10 DEF vars, TypeOK
<1> QED
  BY <1>1, <1>2, <1>3, <1>4, <1>5, <1>6, <1>7, <1>8, <1>9, <1>10 DEF Next

\* The invariant holds in every reachable state.
THEOREM RunnerInvariance == Spec => []RunnerInv
BY RunnerInit, RunnerNext, PTL DEF Spec

\* The parent's closure and the child's state keep their types.
THEOREM RunnerTypes == Spec => []TypeOK
BY RunnerInvariance, PTL DEF RunnerInv

\* No child outlives its run, and no two children of one warm process are alive
\* together, for any number of runs (the comment in finish, run-isolated.mjs:27).
THEOREM WorkEndsWithItsRun == Spec => []NoWorkSurvives
<1>1. RunnerInv => NoWorkSurvives
  <2> SUFFICES ASSUME RunnerInv PROVE NoWorkSurvives
    OBVIOUS
  <2>1. \A i, k \in Runs : i < k => ~(child[i] \in Alive /\ child[k] \in Alive)
    BY DEF RunnerInv, Alive
  <2> QED
    BY <2>1 DEF RunnerInv, NoWorkSurvives, Runs
<1> QED
  BY <1>1, RunnerInvariance, PTL

\* A success comes from the child's reply and from nothing else.
THEOREM SuccessIsReported == Spec => NoFabricatedSuccess
<1> DEFINE Reported(i) ==
      /\ result'[i] = "SUCCEEDED" /\ result[i] # "SUCCEEDED" => wire[i] = "SUCCEEDED"
      /\ resolved'[i] = "SUCCEEDED" /\ resolved[i] # "SUCCEEDED" => result[i] = "SUCCEEDED"
<1>1. TypeOK /\ Next => \A i \in Runs : Reported(i)
  <2> SUFFICES ASSUME TypeOK, NEW j \in Runs, NEW i \in Runs,
                      \/ Fork(j) \/ OnMessage(j) \/ OnFault(j) \/ OnTimer(j) \/ OnClose(j)
                      \/ ChildReceives(j) \/ ChildReplies(j) \/ ChildExits(j) \/ KillLands(j)
               PROVE  Reported(i)
    BY DEF Next
  <2>1. CASE OnMessage(j)
    BY <2>1 DEF OnMessage, Finish, Judge, TypeOK
  <2>2. CASE OnFault(j) \/ OnTimer(j)
    BY <2>2 DEF OnFault, OnTimer, Finish, TypeOK
  <2>3. CASE OnClose(j)
    BY <2>3 DEF OnClose, TypeOK
  <2>4. CASE Fork(j) \/ ChildReceives(j) \/ ChildReplies(j) \/ ChildExits(j) \/ KillLands(j)
    BY <2>4 DEF Fork, ChildReceives, ChildReplies, ChildExits, KillLands, parentVars
  <2> QED
    BY <2>1, <2>2, <2>3, <2>4
<1>2. TypeOK /\ [Next]_vars => [\A i \in Runs : Reported(i)]_vars
  BY <1>1
<1> QED
  BY <1>2, RunnerTypes, PTL DEF Spec, NoFabricatedSuccess

\* Neither a late reply nor a late failure event changes a verdict that stands.
THEOREM VerdictStands == Spec => FirstVerdictStands
<1> DEFINE Stands(i) ==
      /\ result[i] # "none" => result'[i] = result[i]
      /\ resolved[i] # "none" => resolved'[i] = resolved[i]
      /\ resolved'[i] # resolved[i] /\ result[i] # "none" => resolved'[i] = result[i]
<1>1. TypeOK /\ Next => \A i \in Runs : Stands(i)
  <2> SUFFICES ASSUME TypeOK, NEW j \in Runs, NEW i \in Runs,
                      \/ Fork(j) \/ OnMessage(j) \/ OnFault(j) \/ OnTimer(j) \/ OnClose(j)
                      \/ ChildReceives(j) \/ ChildReplies(j) \/ ChildExits(j) \/ KillLands(j)
               PROVE  Stands(i)
    BY DEF Next
  <2>1. CASE OnMessage(j) \/ OnFault(j) \/ OnTimer(j)
    BY <2>1 DEF OnMessage, OnFault, OnTimer, Finish, TypeOK
  <2>2. CASE OnClose(j)
    BY <2>2 DEF OnClose, TypeOK
  <2>3. CASE Fork(j) \/ ChildReceives(j) \/ ChildReplies(j) \/ ChildExits(j) \/ KillLands(j)
    BY <2>3 DEF Fork, ChildReceives, ChildReplies, ChildExits, KillLands, parentVars
  <2> QED
    BY <2>1, <2>2, <2>3
<1>2. TypeOK /\ [Next]_vars => [\A i \in Runs : Stands(i)]_vars
  BY <1>1
<1> QED
  BY <1>2, RunnerTypes, PTL DEF Spec, FirstVerdictStands
==============================================================================
