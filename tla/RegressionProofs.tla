-------------------------- MODULE RegressionProofs --------------------------
(***************************************************************************)
(* Regression for every set of circuits, policies and baselines, and every *)
(* number of captures and uploads: RegressionInv holds in every reachable  *)
(* state, and the invariants of the run follow from it.                    *)
(***************************************************************************)
EXTENDS Regression, FiniteSetTheorems, TLAPS

------------------------------------------------------------------------------
(* What capture() can return.                                               *)

\* A captured snapshot holds what its execution allows it to be off by.
LEMMA CapturedIsFaithful ==
  ASSUME NEW commit, NEW c \in Circuits, NEW e \in Executions,
         NEW s \in Captured("case", commit, c, e)
  PROVE  s.case = "case" /\ s.status = "EXECUTED" /\ Consistent(s) /\ Faithful(s)
<1>1. PICK d \in 0..Scale :
        /\ Apart(d, Truth[c]) <= Wander(e)
        /\ s = [case |-> "case", status |-> "EXECUTED", commit |-> commit, circuit |-> c,
                execution |-> e, size |-> {Size[c]}, dist |-> {d}]
  BY DEF Captured
<1> QED
  BY <1>1 DEF Consistent, Faithful

\* Of the files compare may find, the consistent ones are faithful.
LEMMA CandidateShape ==
  ASSUME NEW s \in Candidates
  PROVE  /\ s.case = "case" /\ s.status \in {"EXECUTED", "ERROR", "NOT_RUN"}
         /\ Consistent(s) => Faithful(s)
<1>1. CASE s \in Unexecuted
  BY <1>1 DEF Unexecuted, NotExecuted, Faithful
<1>2. CASE s = Broken
  BY <1>2 DEF Broken, NotExecuted, Consistent, Executions
<1>3. CASE \E c \in Circuits, e \in Executions : s \in Captured("case", 1, c, e)
  BY <1>3, CapturedIsFaithful
<1> QED
  BY <1>1, <1>2, <1>3 DEF Candidates

\* What the child may save is one of them.
LEMMA ObservedIsCandidate ==
  ASSUME factory \in [circuit : Circuits, execution : Executions]
  PROVE  Observable \cup {Broken} \subseteq Candidates
BY DEF Observable, Candidates

\* So is the record of a run that failed, which is consistent.
LEMMA FailureIsCandidate ==
  /\ Broken \in Candidates
  /\ NotExecuted("case", "ERROR") \in Candidates
  /\ Consistent(NotExecuted("case", "ERROR"))
  /\ NotExecuted("case", "ERROR").status # "EXECUTED"
BY DEF Candidates, Unexecuted, NotExecuted, Consistent

------------------------------------------------------------------------------
(* compare().                                                               *)

\* ExitCode gives 0 and 1 to one verdict each.
LEMMA ExitCodes ==
  ASSUME NEW v \in Verdicts
  PROVE  /\ ExitCode[v] \in 0..5
         /\ ExitCode[v] = 0 <=> v = "WITHIN_POLICY"
         /\ ExitCode[v] = 1 <=> v = "REGRESSION"
BY DEF ExitCode, Verdicts

\* Verdict ends in one of its six words.
LEMMA VerdictType ==
  ASSUME NEW b, Faithful(b), NEW c, c.status \in {"EXECUTED", "ERROR", "NOT_RUN"}, NEW pol
  PROVE  Verdict(b, c, pol) \in Verdicts
BY DEF Verdict, Verdicts, Faithful

\* An interval as wide as both samples may wander contains the truth.
LEMMA IntervalHoldsTruth ==
  ASSUME NEW x \in 0..Scale, NEW y \in 0..Scale, NEW s \in 0..Scale, NEW t \in 0..Scale,
         NEW w \in Nat, Apart(x, s) <= w, Apart(y, t) <= w
  PROVE  /\ Apart(x, y) \in Nat /\ Apart(s, t) \in Nat /\ Apart(s, t) <= Scale
         /\ Apart(s, t) <= Apart(x, y) + 2 * w
         /\ Apart(x, y) <= Apart(s, t) + 2 * w
BY RegressionAssumption DEF Apart

\* The check of one tolerance tells of the circuits' real distributions.
LEMMA DistributionIsSound ==
  ASSUME NEW b, Faithful(b), NEW c, Faithful(c), b.status = "EXECUTED", c.status = "EXECUTED",
         b.execution = c.execution, NEW tolerance \in Int
  PROVE  LET far == Apart(Truth[b.circuit], Truth[c.circuit]) IN
         /\ DistributionCheck(b, c, tolerance) = "WITHIN_POLICY" => far <= tolerance
         /\ DistributionCheck(b, c, tolerance) = "REGRESSION" => far > tolerance
<1> SUFFICES ASSUME b.dist # {}, c.dist # {}
             PROVE  LET far == Apart(Truth[b.circuit], Truth[c.circuit]) IN
                    /\ DistributionCheck(b, c, tolerance) = "WITHIN_POLICY" => far <= tolerance
                    /\ DistributionCheck(b, c, tolerance) = "REGRESSION" => far > tolerance
  BY DEF DistributionCheck
<1> DEFINE x == CHOOSE d \in b.dist : TRUE
           y == CHOOSE d \in c.dist : TRUE
           w == Wander(b.execution)
           s == Truth[b.circuit]
           t == Truth[c.circuit]
<1>1. x \in b.dist /\ y \in c.dist
  OBVIOUS
<1>2. /\ x \in 0..Scale /\ Apart(x, s) <= w
      /\ y \in 0..Scale /\ Apart(y, t) <= w
  BY <1>1 DEF Faithful
<1>3. s \in 0..Scale /\ t \in 0..Scale
  BY RegressionAssumption DEF Faithful
<1>4. w \in Nat /\ Radius(b, c) = 2 * w
  BY RegressionAssumption DEF Wander, Radius
<1> HIDE DEF x, y, w, s, t
<1>5. /\ Apart(x, y) \in Nat /\ Apart(s, t) \in Nat /\ Apart(s, t) <= Scale
      /\ Apart(s, t) <= Apart(x, y) + 2 * w
      /\ Apart(x, y) <= Apart(s, t) + 2 * w
  BY <1>2, <1>3, <1>4, IntervalHoldsTruth
<1>6. DistributionCheck(b, c, tolerance) =
        LET tv   == Apart(x, y)
            low  == IF tv < 2 * w THEN 0 ELSE tv - 2 * w
            high == IF tv + 2 * w > Scale THEN Scale ELSE tv + 2 * w
        IN  IF high <= tolerance THEN "WITHIN_POLICY"
            ELSE IF low > tolerance THEN "REGRESSION" ELSE "INCONCLUSIVE"
  BY <1>4 DEF DistributionCheck, x, y
<1>7. /\ DistributionCheck(b, c, tolerance) = "WITHIN_POLICY" => Apart(s, t) <= tolerance
      /\ DistributionCheck(b, c, tolerance) = "REGRESSION" => Apart(s, t) > tolerance
  BY <1>4, <1>5, <1>6, RegressionAssumption
<1> QED
  BY <1>7 DEF s, t

\* The check of one limit tells of the circuits' real sizes.
LEMMA ResourceIsSound ==
  ASSUME NEW b, Faithful(b), NEW c, Faithful(c), b.status = "EXECUTED", c.status = "EXECUTED",
         NEW limit \in Int
  PROVE  /\ ResourceCheck(b, c, limit) = "WITHIN_POLICY" => Size[c.circuit] <= Size[b.circuit] + limit
         /\ ResourceCheck(b, c, limit) = "REGRESSION" => Size[c.circuit] > Size[b.circuit] + limit
<1>1. b.size = {} \/ b.size = {Size[b.circuit]}
  BY DEF Faithful
<1>2. c.size = {} \/ c.size = {Size[c.circuit]}
  BY DEF Faithful
<1>3. Size[b.circuit] \in Nat /\ Size[c.circuit] \in Nat
  BY RegressionAssumption DEF Faithful
<1> QED
  BY <1>1, <1>2, <1>3 DEF ResourceCheck

\* compare()'s two conclusive verdicts are true of the circuits.
LEMMA VerdictSoundness ==
  ASSUME NEW b, Faithful(b), NEW c, Faithful(c), NEW pol \in Policies,
         Verdict(b, c, pol) \in {"WITHIN_POLICY", "REGRESSION"}
  PROVE  /\ b.status = "EXECUTED" /\ c.status = "EXECUTED" /\ b.execution = c.execution
         /\ Verdict(b, c, pol) = "WITHIN_POLICY" =>
              /\ \A t \in pol.tolerance : Apart(Truth[b.circuit], Truth[c.circuit]) <= t
              /\ \A i \in pol.increase : Size[c.circuit] <= Size[b.circuit] + i
         /\ Verdict(b, c, pol) = "REGRESSION" =>
              \/ \E t \in pol.tolerance : Apart(Truth[b.circuit], Truth[c.circuit]) > t
              \/ \E i \in pol.increase : Size[c.circuit] > Size[b.circuit] + i
<1>1. b.status = "EXECUTED" /\ c.status = "EXECUTED"
  BY DEF Verdict, Faithful
<1>2. Differences(b, c) \subseteq Permitted(pol)
  BY DEF Verdict, Faithful
<1>3. "execution" \notin Permitted(pol)
  BY InputsAssumption DEF Permitted, Allowed
<1>4. b.execution = c.execution
  BY <1>2, <1>3 DEF Differences
<1>5. pol.tolerance \subseteq Int /\ pol.increase \subseteq Int
  BY InputsAssumption
<1> DEFINE checks == ResourceChecks(b, c, pol) \cup DistributionChecks(b, c, pol)
<1>6. /\ Verdict(b, c, pol) = "WITHIN_POLICY" => "REGRESSION" \notin checks /\ "INCONCLUSIVE" \notin checks
      /\ Verdict(b, c, pol) = "REGRESSION" => "REGRESSION" \in checks
  BY <1>1, <1>2 DEF Verdict
<1>7. /\ \A t \in pol.tolerance : DistributionCheck(b, c, t) \in {"WITHIN_POLICY", "REGRESSION", "INCONCLUSIVE"}
      /\ \A i \in pol.increase : ResourceCheck(b, c, i) \in {"WITHIN_POLICY", "REGRESSION", "INCONCLUSIVE"}
  BY DEF DistributionCheck, ResourceCheck
<1>8. ASSUME Verdict(b, c, pol) = "WITHIN_POLICY"
      PROVE  /\ \A t \in pol.tolerance : DistributionCheck(b, c, t) = "WITHIN_POLICY"
             /\ \A i \in pol.increase : ResourceCheck(b, c, i) = "WITHIN_POLICY"
  BY <1>6, <1>7, <1>8 DEF DistributionChecks, ResourceChecks
<1>9. ASSUME Verdict(b, c, pol) = "REGRESSION"
      PROVE  \/ \E t \in pol.tolerance : DistributionCheck(b, c, t) = "REGRESSION"
             \/ \E i \in pol.increase : ResourceCheck(b, c, i) = "REGRESSION"
  BY <1>6, <1>9 DEF DistributionChecks, ResourceChecks
<1>10. \A t \in pol.tolerance :
         /\ DistributionCheck(b, c, t) = "WITHIN_POLICY" => Apart(Truth[b.circuit], Truth[c.circuit]) <= t
         /\ DistributionCheck(b, c, t) = "REGRESSION" => Apart(Truth[b.circuit], Truth[c.circuit]) > t
  BY <1>1, <1>4, <1>5, DistributionIsSound
<1>11. \A i \in pol.increase :
         /\ ResourceCheck(b, c, i) = "WITHIN_POLICY" => Size[c.circuit] <= Size[b.circuit] + i
         /\ ResourceCheck(b, c, i) = "REGRESSION" => Size[c.circuit] > Size[b.circuit] + i
  BY <1>1, <1>5, ResourceIsSound
<1> QED
  BY <1>1, <1>4, <1>8, <1>9, <1>10, <1>11

------------------------------------------------------------------------------
(* Types.                                                                   *)

\* A comparison of a reviewed baseline with a candidate is a report, and its
\* verdict an exit code.
LEMMA ReportType ==
  ASSUME NEW b \in Baselines, NEW c \in Candidates, NEW pol \in Policies
  PROVE  /\ [baseline |-> b, candidate |-> c, policy |-> pol, verdict |-> Verdict(b, c, pol)] \in Reports
         /\ ExitCode[Verdict(b, c, pol)] \in 0..5
<1>1. Verdict(b, c, pol) \in Verdicts
  BY InputsAssumption, CandidateShape, VerdictType
<1> QED
  BY <1>1, ExitCodes DEF Reports

\* A report whose verdict is written over is still a report.
LEMMA EditType ==
  ASSUME NEW r \in Reports
  PROVE  [r EXCEPT !.verdict = "WITHIN_POLICY"] \in Reports /\ r # Nothing
BY InputsAssumption DEF Reports, Verdicts

\* What may come back to an upload is an answer.
LEMMA AnswerType ==
  /\ Denial("none") \in Answers /\ Denials \subseteq Answers
  /\ \A w \in {"STORED", "DUPLICATE"}, v \in Verdicts : Acknowledgement(w, v) \in Answers
BY DEF Answers, Denial, Denials, Acknowledgement, Verdicts

\* Whichever way the server reads a summary, it arrives at a verdict.
LEMMA ReadingsType == ASSUME NEW r \in Reports PROVE Readings(r) \subseteq Verdicts
<1>1. r.verdict \in Verdicts /\ r.baseline \in Baselines /\ r.candidate \in Candidates
  BY DEF Reports
<1>2. Verdict(r.baseline, r.candidate, r.policy) \in Verdicts
  BY <1>1, InputsAssumption, CandidateShape, VerdictType
<1> QED
  BY <1>1, <1>2 DEF Readings

\* The initial states have their types.
LEMMA InitTypes == Init => TypeOK
BY FailureIsCandidate, AnswerType DEF Init, TypeOK, Attempts

\* Every step keeps them.
LEMMA StepTypes == TypeOK /\ CapturesAreHonest /\ UploadsAreReviewed /\ [Next]_vars => TypeOK'
<1> SUFFICES ASSUME TypeOK, CapturesAreHonest, UploadsAreReviewed, [Next]_vars PROVE TypeOK'
  OBVIOUS
<1> USE FailureIsCandidate
<1>1. ASSUME NEW p \in Captures, StartCapture(p) PROVE TypeOK'
  BY <1>1 DEF StartCapture, Exits, Go, Forget, ExitCode, TypeOK, compared, chosen, reading, uploaded
<1>2. ASSUME NEW p \in Captures, ChildSaves(p) PROVE TypeOK'
  BY <1>2, ObservedIsCandidate DEF ChildSaves, TypeOK, compared, chosen, reading, uploaded
<1>3. ASSUME NEW p \in Captures, Collect(p) PROVE TypeOK'
  BY <1>3 DEF Collect, Go, Discard, TypeOK, compared, chosen, reading, uploaded
<1>4. ASSUME NEW p \in Captures, TimesOut(p) PROVE TypeOK'
  BY <1>4 DEF TimesOut, Go, Discard, TypeOK, compared, chosen, reading, uploaded
<1>5. ASSUME NEW p \in Captures, CreateOutput(p) PROVE TypeOK'
  BY <1>5 DEF CreateOutput, Exits, Go, Forget, ExitCode, TypeOK, compared, chosen, reading, uploaded
<1>6. ASSUME NEW p \in Captures, WriteOutput(p) PROVE TypeOK'
  <2>1. snap[p] \in Candidates /\ Consistent(snap[p])
    BY <1>6 DEF WriteOutput, CapturesAreHonest, TypeOK
  <2>2. (IF snap[p].status = "EXECUTED" THEN 0 ELSE ExitCode[snap[p].status]) \in -1..5
    BY <2>1, CandidateShape DEF ExitCode
  <2> QED
    BY <1>6, <2>1, <2>2 DEF WriteOutput, Exits, Go, Forget, TypeOK, compared, chosen, reading, uploaded
<1>7. ASSUME NEW p \in Captures, CaptureDies(p) PROVE TypeOK'
  BY <1>7 DEF CaptureDies, Go, Forget, Discard, TypeOK, compared, chosen, reading, uploaded
<1>8. ASSUME Compare PROVE TypeOK'
  <2>1. output.snapshot \in Candidates /\ policy \in Policies /\ baseline \in Baselines
    BY DEF TypeOK
  <2> QED
    BY <1>8, <2>1, ReportType DEF Compare, ExitCode, TypeOK, captured, chosen, reading, uploaded
<1>9. ASSUME EditReport PROVE TypeOK'
  BY <1>9, EditType DEF EditReport, TypeOK, captured, chosen, reading, uploaded
<1>10. ASSUME Preview PROVE TypeOK'
  BY <1>10 DEF Preview, TypeOK, captured, compared, chosen, reading, uploaded
<1>11. ASSUME Review PROVE TypeOK'
  BY <1>11 DEF Review, TypeOK, captured, compared, chosen, reading, uploaded
<1>12. ASSUME EditPreview PROVE TypeOK'
  BY <1>12, EditType DEF EditPreview, TypeOK, captured, compared, chosen, reading, uploaded
<1>13. ASSUME NEW u \in Uploads, ReadSummary(u) PROVE TypeOK'
  BY <1>13, AnswerType DEF ReadSummary, Prints, Climb, Attempts, TypeOK, captured, compared, chosen, reading
<1>14. ASSUME NEW u \in Uploads, RequestDenied(u) \/ AnswerRead(u) \/ ExchangeLost(u)
       PROVE  TypeOK'
  BY <1>14, AnswerType DEF RequestDenied, AnswerRead, ExchangeLost, Respond, Prints, Climb, Attempts, TypeOK,
               captured, compared, chosen, reading
<1>15. ASSUME NEW u \in Uploads, RequestArrives(u) PROVE TypeOK'
  <2>1. payload[u] \in Reports
    BY <1>15 DEF RequestArrives, UploadsAreReviewed, TypeOK
  <2>2. Readings(Body(u)) \subseteq Verdicts
    BY <2>1, ReadingsType DEF Body
  <2>3. \A v \in Readings(Body(u)) : v \in Verdicts
    BY <2>2
  <2>4. \A s \in stored' : s.verdict \in Verdicts
    BY <1>15, <2>3 DEF RequestArrives, TypeOK
  <2>5. PICK a \in Answers : Respond(u, a)
    BY <1>15, <2>3, AnswerType DEF RequestArrives, TypeOK
  <2>6. up' \in [Uploads -> {"idle", "sending", "retrying", "answered", "ended"}]
        /\ answer' \in [Uploads -> Answers]
    BY <2>5 DEF Respond, TypeOK
  <2> QED
    BY <1>15, <2>4, <2>6 DEF RequestArrives, TypeOK, captured, compared, chosen, reading
<1>17. ASSUME NEW u \in Uploads, Retry(u) PROVE TypeOK'
  BY <1>17, AnswerType DEF Retry, Prints, Climb, Attempts, TypeOK, captured, compared, chosen, reading
<1>16. CASE UNCHANGED vars
  BY <1>16 DEF vars, captured, compared, chosen, reading, uploaded, TypeOK
<1> QED
  BY <1>1, <1>2, <1>3, <1>4, <1>5, <1>6, <1>7, <1>8, <1>9, <1>10, <1>11, <1>12, <1>13, <1>14, <1>15, <1>16, <1>17
     DEF Next

------------------------------------------------------------------------------
(* The captures and the output file.                                        *)

\* Only a capture's own steps touch what captures hold.
LEMMA CaptureFrame ==
  ASSUME [Next]_vars
  PROVE  \/ UNCHANGED captured
         \/ \E p \in Captures : \/ StartCapture(p) \/ ChildSaves(p) \/ Collect(p) \/ TimesOut(p)
                                \/ CreateOutput(p) \/ WriteOutput(p) \/ CaptureDies(p)
BY DEF Next, vars, Compare, EditReport, Preview, Review, EditPreview, ReadSummary, RequestDenied,
       RequestArrives, AnswerRead, ExchangeLost, Retry

\* CapturesAreHonest and CaptureExitIsTrue, which need each other, are kept by
\* every step: only the command that has the output open writes it.
LEMMA CaptureStep ==
  TypeOK /\ CapturesAreHonest /\ CaptureExitIsTrue /\ [Next]_vars
    => CapturesAreHonest' /\ CaptureExitIsTrue'
<1> SUFFICES ASSUME TypeOK, CapturesAreHonest, CaptureExitIsTrue, [Next]_vars
             PROVE  CapturesAreHonest' /\ CaptureExitIsTrue'
  OBVIOUS
<1> USE FailureIsCandidate DEF TypeOK, CapturesAreHonest, CaptureExitIsTrue
<1>1. ASSUME NEW p \in Captures, StartCapture(p) PROVE CapturesAreHonest' /\ CaptureExitIsTrue'
  BY <1>1 DEF StartCapture, Exits, Go, Forget, ExitCode
<1>2. ASSUME NEW p \in Captures, ChildSaves(p) PROVE CapturesAreHonest' /\ CaptureExitIsTrue'
  BY <1>2 DEF ChildSaves
<1>3. ASSUME NEW p \in Captures, Collect(p) PROVE CapturesAreHonest' /\ CaptureExitIsTrue'
  BY <1>3 DEF Collect, Go, Discard
<1>4. ASSUME NEW p \in Captures, TimesOut(p) PROVE CapturesAreHonest' /\ CaptureExitIsTrue'
  BY <1>4 DEF TimesOut, Go, Discard
<1>5. ASSUME NEW p \in Captures, CreateOutput(p) PROVE CapturesAreHonest' /\ CaptureExitIsTrue'
  BY <1>5 DEF CreateOutput, Exits, Go, Forget, ExitCode
<1>6. ASSUME NEW p \in Captures, WriteOutput(p) PROVE CapturesAreHonest' /\ CaptureExitIsTrue'
  <2>1. output.state = "partial" /\ output.by = p /\ pc[p] = "writing" /\ snap[p] \in Candidates
    BY <1>6 DEF WriteOutput
  <2>2. snap[p].status = "EXECUTED" => child[p] = "zero"
    BY <2>1
  <2>3. snap[p].status # "EXECUTED" => ExitCode[snap[p].status] \in {4, 5}
    BY <2>1, CandidateShape DEF ExitCode
  <2>4. output' = [state |-> "whole", snapshot |-> snap[p], by |-> p]
    BY <1>6 DEF WriteOutput
  <2>5. \A q \in Captures \ {p} : pc[q] # "writing" /\ code[q] # 0
    BY <2>1
  <2> QED
    BY <1>6, <2>1, <2>2, <2>3, <2>4, <2>5 DEF WriteOutput, Exits, Go, Forget
<1>7. ASSUME NEW p \in Captures, CaptureDies(p) PROVE CapturesAreHonest' /\ CaptureExitIsTrue'
  BY <1>7 DEF CaptureDies, Go, Forget, Discard
<1>8. CASE UNCHANGED captured
  BY <1>8 DEF captured
<1> QED
  BY <1>1, <1>2, <1>3, <1>4, <1>5, <1>6, <1>7, <1>8, CaptureFrame

------------------------------------------------------------------------------
(* The report.                                                              *)

\* A whole output stays what it is.
LEMMA WholeStays ==
  ASSUME CapturesAreHonest, [Next]_vars
  PROVE  output.state # "absent" => /\ output'.by = output.by
                                    /\ output.state = "whole" => output' = output
<1>1. ASSUME NEW p \in Captures, WriteOutput(p) PROVE output.state = "partial" /\ output.by = p
  BY <1>1 DEF WriteOutput, CapturesAreHonest
<1> QED
  BY <1>1, CaptureFrame DEF StartCapture, ChildSaves, Collect, TimesOut, CreateOutput, WriteOutput,
     CaptureDies, captured

\* The job's inputs do not change while it runs.
LEMMA InputsStay == [Next]_vars => UNCHANGED chosen
BY DEF Next, vars, compared, StartCapture, ChildSaves, Collect, TimesOut, CreateOutput, WriteOutput,
       CaptureDies, Compare, EditReport, Preview, Review, EditPreview, ReadSummary, RequestDenied,
       RequestArrives, AnswerRead, ExchangeLost, Retry

\* Compare and a hand with an editor are all that touch the report.
LEMMA ReportFrame ==
  ASSUME [Next]_vars
  PROVE  Compare \/ EditReport \/ UNCHANGED <<report, exit>>
BY DEF Next, vars, compared, StartCapture, ChildSaves, Collect, TimesOut, CreateOutput, WriteOutput,
       CaptureDies, Preview, Review, EditPreview, ReadSummary, RequestDenied,
       RequestArrives, AnswerRead, ExchangeLost, Retry

\* ReportIsOfOutput is kept.
LEMMA ReportStep ==
  TypeOK /\ CapturesAreHonest /\ ReportIsOfOutput /\ [Next]_vars => ReportIsOfOutput'
<1> SUFFICES ASSUME TypeOK, CapturesAreHonest, ReportIsOfOutput, [Next]_vars
             PROVE  ReportIsOfOutput'
  OBVIOUS
<1>1. baseline' = baseline /\ policy' = policy
  BY InputsStay DEF chosen
<1>2. output.state = "whole" => output' = output
  BY WholeStays
<1>3. CASE Compare
  BY <1>1, <1>2, <1>3 DEF Compare, ReportIsOfOutput
<1>4. CASE EditReport
  BY <1>1, <1>2, <1>4, EditType DEF EditReport, ReportIsOfOutput, TypeOK, Reports
<1>5. CASE UNCHANGED <<report, exit>>
  BY <1>1, <1>2, <1>5 DEF ReportIsOfOutput
<1> QED
  BY <1>3, <1>4, <1>5, ReportFrame

------------------------------------------------------------------------------
(* Preview, review and upload.                                              *)

\* Steps before the preview leave it and the uploads alone.
LEMMA UploadFrame ==
  ASSUME [Next]_vars
  PROVE  \/ UNCHANGED <<reading, uploaded>>
         \/ Preview \/ Review \/ EditPreview
         \/ \E u \in Uploads : \/ ReadSummary(u) \/ RequestDenied(u) \/ RequestArrives(u)
                               \/ AnswerRead(u) \/ ExchangeLost(u) \/ Retry(u)
BY DEF Next, vars, StartCapture, ChildSaves, Collect, TimesOut, CreateOutput, WriteOutput,
       CaptureDies, Compare, EditReport

\* Only an acknowledgement says more than "other", and it is an "ok".
LEMMA DenialsSayNothing ==
  /\ Denial("none").upload = "other"
  /\ \A a \in Denials : a.upload = "other"
  /\ \A w, v : Acknowledgement(w, v).upload = w /\ Acknowledgement(w, v).verdict = v
BY DEF Denial, Denials, Acknowledgement

\* UploadsAreReviewed is kept.
LEMMA UploadStep == TypeOK /\ UploadsAreReviewed /\ [Next]_vars => UploadsAreReviewed'
<1> SUFFICES ASSUME TypeOK, UploadsAreReviewed, [Next]_vars PROVE UploadsAreReviewed'
  OBVIOUS
<1> USE DenialsSayNothing DEF TypeOK, UploadsAreReviewed, Recomputed, reading
<1>1. CASE UNCHANGED <<reading, uploaded>>
  BY <1>1 DEF uploaded
<1>2. CASE Preview
  BY <1>2 DEF Preview, uploaded
<1>3. CASE Review
  BY <1>3 DEF Review, uploaded
<1>4. CASE EditPreview
  BY <1>4 DEF EditPreview, uploaded
<1>5. ASSUME NEW u \in Uploads, ReadSummary(u) PROVE UploadsAreReviewed'
  BY <1>5 DEF ReadSummary, Prints, Climb
<1>6. ASSUME NEW u \in Uploads, RequestDenied(u) \/ ExchangeLost(u) PROVE UploadsAreReviewed'
  BY <1>6 DEF RequestDenied, ExchangeLost, Respond, Prints, Climb
<1>7. ASSUME NEW u \in Uploads, RequestArrives(u) PROVE UploadsAreReviewed'
  <2>1. reviewed # Nothing /\ payload[u] = reviewed
    BY <1>7 DEF RequestArrives
  <2>2. payload[u] \in Reports
    BY <2>1
  <2>3. PICK v, a :
          /\ v \in Verdicts
          /\ stored' = {[key |-> reviewed, summary |-> reviewed, verdict |-> v, copy |-> 0]}
          /\ Respond(u, a)
          /\ a.upload # "other" => a.verdict = v
          /\ stored = {} \/ stored' = stored
    <3>1. CASE stored = {}
      <4>1. PICK v \in Readings(Body(u)) :
              /\ stored' = stored \cup {[key |-> IdempotencyKey(u), summary |-> Body(u),
                                         verdict |-> v, copy |-> Cardinality(stored)]}
              /\ \E a \in {Acknowledgement("STORED", v)} \cup Denials : Respond(u, a)
        BY <1>7, <3>1 DEF RequestArrives
      <4>2. v \in Verdicts
        BY <2>2, <4>1, ReadingsType DEF Body
      <4>3. stored' = {[key |-> reviewed, summary |-> reviewed, verdict |-> v, copy |-> 0]}
        BY <2>1, <3>1, <4>1, FS_EmptySet DEF IdempotencyKey, Body
      <4> QED
        BY <3>1, <4>1, <4>2, <4>3
    <3>2. CASE stored # {}
      <4>1. PICK v \in Verdicts :
              stored = {[key |-> reviewed, summary |-> reviewed, verdict |-> v, copy |-> 0]}
        BY <3>2
      <4> DEFINE held == { s \in stored : s.key = IdempotencyKey(u) }
      <4>2. PICK s \in stored : s.key = reviewed
        BY <4>1
      <4>3. s \in held
        BY <4>2 DEF IdempotencyKey
      <4>4. PICK r \in held : /\ UNCHANGED stored
                             /\ \E a \in {Acknowledgement("DUPLICATE", r.verdict)} \cup Denials :
                                  Respond(u, a)
        BY <1>7, <4>3 DEF RequestArrives
      <4>5. r.verdict = v
        BY <4>1
      <4> QED
        BY <4>1, <4>4, <4>5
    <3> QED
      BY <3>1, <3>2
  <2>4. /\ UNCHANGED <<reading, payload, outcome>>
        /\ up' = [up EXCEPT ![u] = "answered"] /\ answer' = [answer EXCEPT ![u] = a]
    BY <1>7, <2>3 DEF RequestArrives, Respond
  <2>5. \A x \in Uploads : x # u => up'[x] = up[x] /\ answer'[x] = answer[x]
    BY <2>4
  <2>6. up'[u] = "answered" /\ answer'[u] = a
    BY <2>4
  <2>7. \E s \in stored' : s.verdict = v
    BY <2>3
  <2>8. \A s \in stored : s \in stored'
    BY <2>3
  <2> QED
    BY <2>1, <2>3, <2>4, <2>5, <2>6, <2>7, <2>8
<1>8. ASSUME NEW u \in Uploads, AnswerRead(u) PROVE UploadsAreReviewed'
  BY <1>8 DEF AnswerRead, Acknowledges, Prints, Climb
<1>9. ASSUME NEW u \in Uploads, Retry(u) PROVE UploadsAreReviewed'
  BY <1>9 DEF Retry, Prints, Climb
<1> QED
  BY <1>1, <1>2, <1>3, <1>4, <1>5, <1>6, <1>7, <1>8, <1>9, UploadFrame

------------------------------------------------------------------------------
(* The theorems.                                                            *)

\* The parts of RegressionInv together are inductive: what is on its way to
\* the output, the output, the report and the uploads.
THEOREM RegressionInvariance == Spec => []RegressionInv
<1>1. Init => RegressionInv
  <2> SUFFICES ASSUME Init PROVE RegressionInv
    OBVIOUS
  <2>1. TypeOK
    BY InitTypes
  <2>2. CapturesAreHonest /\ CaptureExitIsTrue /\ ReportIsOfOutput /\ UploadsAreReviewed
    BY DenialsSayNothing
       DEF Init, CapturesAreHonest, CaptureExitIsTrue, ReportIsOfOutput, UploadsAreReviewed
  <2> QED
    BY <2>1, <2>2 DEF RegressionInv
<1>2. RegressionInv /\ [Next]_vars => RegressionInv'
  BY StepTypes, CaptureStep, ReportStep, UploadStep DEF RegressionInv
<1> QED
  BY <1>1, <1>2, PTL DEF Spec

\* Types, and only consistent snapshots reach the output (run_capture, save_snapshot).
THEOREM RegressionTypes == Spec => []TypeOK
BY RegressionInvariance, PTL DEF RegressionInv

\* A capture's exit 0 is its own executed snapshot, whole, at the output (run_capture).
THEOREM CaptureExitsTrue == Spec => []CaptureExitIsTrue
BY RegressionInvariance, PTL DEF RegressionInv

\* compare()'s exits 0 and 1 are true of the circuits that were run, whatever
\* the samples drawn and the policies' limits.
THEOREM VerdictsSound == Spec => []VerdictIsSound
<1>1. RegressionInv => VerdictIsSound
  <2> SUFFICES ASSUME RegressionInv, report # Nothing, exit \in {0, 1}
               PROVE  VerdictIsSound
    BY DEF VerdictIsSound
  <2> DEFINE b == baseline
             c == output.snapshot
  <2>1. /\ report.baseline = b /\ report.candidate = c /\ exit = ExitCode[Verdict(b, c, policy)]
        /\ output.state = "whole"
    BY DEF RegressionInv, ReportIsOfOutput
  <2>2. b \in Baselines /\ c \in Candidates /\ policy \in Policies /\ Consistent(c)
    BY <2>1 DEF RegressionInv, TypeOK
  <2>3. Faithful(b) /\ Faithful(c)
    BY <2>2, InputsAssumption, CandidateShape
  <2> HIDE DEF b, c
  <2>4. Verdict(b, c, policy) \in Verdicts
    BY <2>3, <2>2, VerdictType, CandidateShape
  <2>5. /\ exit = 0 <=> Verdict(b, c, policy) = "WITHIN_POLICY"
        /\ exit = 1 <=> Verdict(b, c, policy) = "REGRESSION"
    BY <2>1, <2>4, ExitCodes
  <2> QED
    BY <2>1, <2>2, <2>3, <2>5, VerdictSoundness DEF VerdictIsSound
<1> QED
  BY <1>1, RegressionInvariance, PTL

\* What the server holds was read and confirmed, and if that is what preview()
\* wrote its verdict is the one its evidence gives (prepare_summary, upload).
THEOREM UploadsReviewed == Spec => []UploadedAsReviewed
<1>1. RegressionInv => UploadedAsReviewed
  <2> SUFFICES ASSUME RegressionInv, NEW s \in stored
               PROVE  s.summary = reviewed /\ (reviewed = prepared => Recomputed(s.summary))
    BY DEF UploadedAsReviewed
  <2>1. s.summary = reviewed /\ reviewed # Nothing
    BY DEF RegressionInv, UploadsAreReviewed
  <2>2. reviewed = prepared => Recomputed(prepared)
    BY <2>1 DEF RegressionInv, UploadsAreReviewed
  <2> QED
    BY <2>1, <2>2
<1> QED
  BY <1>1, RegressionInvariance, PTL

\* One report is stored however often it is sent, and an acknowledgement means it
\* is there under the verdict that was sent (upload's key, its retries and its
\* checks of the answer).
THEOREM UploadsTrue == Spec => []UploadIsTrue
<1>1. RegressionInv => UploadIsTrue
  <2> SUFFICES ASSUME RegressionInv PROVE UploadIsTrue
    OBVIOUS
  <2>1. Cardinality(stored) <= 1
    <3>1. CASE stored = {}
      BY <3>1, FS_EmptySet
    <3>2. CASE stored # {}
      BY <3>2, FS_Singleton DEF RegressionInv, UploadsAreReviewed
    <3> QED
      BY <3>1, <3>2
  <2>2. ASSUME NEW u \in Uploads, outcome[u] = "ACKNOWLEDGED"
        PROVE  \E s \in stored : s.summary = payload[u] /\ s.verdict = payload[u].verdict
    BY <2>2 DEF RegressionInv, UploadsAreReviewed
  <2> QED
    BY <2>1, <2>2 DEF UploadIsTrue
<1> QED
  BY <1>1, RegressionInvariance, PTL

\* The file at --output is never replaced by another capture (save_snapshot's
\* exclusive creation).
THEOREM EvidenceKept == Spec => EvidenceIsKept
<1>1. RegressionInv /\ [Next]_vars =>
        [output.state # "absent" => /\ output'.by = output.by
                                    /\ output.state = "whole" => output' = output]_vars
  BY WholeStays DEF RegressionInv
<1> QED
  BY <1>1, RegressionInvariance, PTL DEF Spec, EvidenceIsKept
=============================================================================
