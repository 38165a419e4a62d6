----------------------------- MODULE Regression -----------------------------
(***************************************************************************)
(* `ketqat regression`: capture runs a user's circuit factory in a child   *)
(* process and writes a snapshot; compare judges a candidate against a     *)
(* reviewed baseline under a policy; preview writes the summary a person   *)
(* reads; upload sends that summary, and no other, with bounded retries.   *)
(*                                                                         *)
(* Distributions have two outcomes: one probability in units of 1/Scale,   *)
(* so the total variation of two of them is a difference.  A sampled       *)
(* snapshot is off its circuit's Truth by at most Slack, which is half the *)
(* Hoeffding radius compare() adds for two samples of one shot budget.     *)
(* An optional field is a set of at most one value.                        *)
(***************************************************************************)
EXTENDS Integers, FiniteSets

CONSTANTS Captures,     \* capture commands, all writing one output path
          Uploads,      \* upload commands for one preview file
          Circuits, Truth, Size,  \* what a circuit's distribution and compiled size really are
          Scale, Slack,
          Baselines,    \* reviewed baseline snapshots to compare with
          Policies,
          Nothing

VARIABLES
  pc, child, temporary, snap, code,  \* per capture: place, its child, the child's file, its snapshot, exit
  output,                            \* the file at --output
  factory,                           \* what the user's code builds and how it is sampled
  policy, baseline,                  \* the files compare is given
  report, exit,                      \* the report directory, compare's exit code
  preview, reviewed,                 \* the preview file, the content whose SHA256 a person confirmed
  prepared,                          \* history: the preview file as preview() wrote it
  up, attempt, payload,              \* per upload: place, attempt, bytes read,
  answer, outcome,                   \*   the answer on its way, what it printed
  stored                             \* external: the server's copies, [key, summary, verdict, copy]

captured == <<pc, child, temporary, snap, code, output>>
chosen   == <<factory, policy, baseline>>
compared == <<chosen, report, exit>>
reading  == <<preview, reviewed, prepared>>
uploaded == <<up, attempt, payload, answer, outcome, stored>>
vars == <<captured, compared, reading, uploaded>>

Executions == {"exact", "sampled"}
ExitCode == [WITHIN_POLICY |-> 0, REGRESSION |-> 1, INCONCLUSIVE |-> 2,
             INCOMPATIBLE |-> 3, ERROR |-> 4, NOT_RUN |-> 5]
Attempts == 3

Apart(a, b) == IF a > b THEN a - b ELSE b - a

(* Snapshot.consistent: what an executed snapshot must hold, and what any   *)
(* other must not.                                                          *)
Consistent(s) ==
  IF s.status # "EXECUTED"
  THEN {s.circuit, s.execution} = {"none"} /\ s.size = {} /\ s.dist = {}
  ELSE s.circuit \in Circuits /\ s.execution \in Executions

NotExecuted(case, status) ==
  [case |-> case, status |-> status, commit |-> 0, circuit |-> "none",
   execution |-> "none", size |-> {}, dist |-> {}]

Wander(execution) == IF execution = "exact" THEN 0 ELSE Slack

(* capture(): the snapshots it can return for the factory's circuit at a    *)
(* commit: sampled counts wander from the truth by at most Slack.           *)
Captured(case, commit, c, execution) ==
  { [case |-> case, status |-> "EXECUTED", commit |-> commit, circuit |-> c,
     execution |-> execution, size |-> {Size[c]}, dist |-> {d}] :
      d \in { e \in 0..Scale : Apart(e, Truth[c]) <= Wander(execution) } }

Unexecuted == { NotExecuted("case", s) : s \in {"ERROR", "NOT_RUN"} }

Observable == Captured("case", 1, factory.circuit, factory.execution) \cup Unexecuted

(* A snapshot file that is missing, cut short or too large: it claims an    *)
(* execution and does not hold one.                                         *)
Broken == NotExecuted("case", "EXECUTED")

Candidates == (UNION { Captured("case", 1, c, e) : c \in Circuits, e \in Executions })
                \cup Unexecuted \cup {Broken}

Verdicts == {"WITHIN_POLICY", "REGRESSION", "INCONCLUSIVE", "INCOMPATIBLE", "ERROR", "NOT_RUN"}
Reports  == [baseline : Baselines, candidate : Candidates, policy : Policies, verdict : Verdicts]

(* What can come back to an upload: a status class (busy is 429, 502, 503 or *)
(* 504) and, of a 2xx, what its body says, which may be no acknowledgement.  *)
Answers == [status : {"none", "ok", "busy", "refused"},
            upload : {"STORED", "DUPLICATE", "other"}, verdict : Verdicts]
Denial(status)  == [status |-> status, upload |-> "other", verdict |-> "NOT_RUN"]
Denials         == { Denial(status) : status \in {"ok", "busy", "refused"} }
Acknowledgement(word, verdict) == [status |-> "ok", upload |-> word, verdict |-> verdict]

(* A snapshot that claims an execution is of a circuit, and what it         *)
(* observed is as far from the truth as its execution allows.               *)
Faithful(s) ==
  /\ s.status \in {"EXECUTED", "ERROR", "NOT_RUN"}
  /\ s.status = "EXECUTED" =>
       /\ s.circuit \in Circuits /\ s.execution \in Executions
       /\ s.size \subseteq {Size[s.circuit]}
       /\ \A d \in s.dist : /\ d \in 0..Scale /\ s.dist = {d}
                            /\ Apart(d, Truth[s.circuit]) <= Wander(s.execution)

ASSUME RegressionAssumption ==
  /\ Truth \in [Circuits -> 0..Scale] /\ Size \in [Circuits -> Nat]
  /\ Scale \in Nat /\ Slack \in 0..Scale

(* A baseline was captured and reviewed, and a policy is what                *)
(* RegressionPolicy validates.                                              *)
ASSUME InputsAssumption ==
  /\ \A b \in Baselines : Faithful(b)
  /\ \A pol \in Policies : /\ pol.axes \subseteq {"source_commit", "circuit"}
                            /\ pol.increase \subseteq Int /\ pol.tolerance \subseteq Int
  /\ Nothing \notin Reports

(***************************************************************************)
(* compare()                                                               *)
(***************************************************************************)
Allowed == [source_commit |-> {"commit"}, circuit |-> {"circuit"}]
Differences(b, c) == { f \in {"commit", "circuit", "execution"} : b[f] # c[f] }
Permitted(pol) == UNION { Allowed[axis] : axis \in pol.axes }

ResourceCheck(b, c, limit) ==
  IF b.size = {} \/ c.size = {} THEN "INCONCLUSIVE"
  ELSE IF \E x \in b.size, y \in c.size : y <= x + limit THEN "WITHIN_POLICY"
  ELSE "REGRESSION"
ResourceChecks(b, c, pol) == { ResourceCheck(b, c, limit) : limit \in pol.increase }

(* exact against exact has no radius; two samples share 2 * Slack; one of   *)
(* each was refused before, since the execution differs.                    *)
Radius(b, c) == IF b.execution = "exact" THEN 0 ELSE 2 * Slack

(* The interval's half-width left out: the estimate taken for the truth.    *)
DistributionChecks_NoRadius(b, c, pol) ==
  { IF b.dist = {} \/ c.dist = {} THEN "INCONCLUSIVE"
    ELSE IF \E x \in b.dist, y \in c.dist : Apart(x, y) <= tolerance THEN "WITHIN_POLICY"
    ELSE "REGRESSION" : tolerance \in pol.tolerance }

DistributionCheck(b, c, tolerance) ==
  IF b.dist = {} \/ c.dist = {} THEN "INCONCLUSIVE"
  ELSE LET tv   == Apart(CHOOSE x \in b.dist : TRUE, CHOOSE y \in c.dist : TRUE)
           low  == IF tv < Radius(b, c) THEN 0 ELSE tv - Radius(b, c)
           high == IF tv + Radius(b, c) > Scale THEN Scale ELSE tv + Radius(b, c)
       IN  IF high <= tolerance THEN "WITHIN_POLICY"
           ELSE IF low > tolerance THEN "REGRESSION" ELSE "INCONCLUSIVE"
DistributionChecks(b, c, pol) == { DistributionCheck(b, c, tolerance) : tolerance \in pol.tolerance }

Verdict(b, c, pol) ==
  LET checks == ResourceChecks(b, c, pol) \cup DistributionChecks(b, c, pol) IN
  IF b.case # c.case THEN "INCOMPATIBLE"
  ELSE IF b.status # "EXECUTED" THEN b.status
  ELSE IF c.status # "EXECUTED" THEN c.status
  ELSE IF ~(Differences(b, c) \subseteq Permitted(pol)) THEN "INCOMPATIBLE"
  ELSE IF "REGRESSION" \in checks THEN "REGRESSION"
  ELSE IF checks = {} \/ "INCONCLUSIVE" \in checks THEN "INCONCLUSIVE"
  ELSE "WITHIN_POLICY"

Init ==
  /\ factory \in [circuit : Circuits, execution : Executions]
  /\ pc = [p \in Captures |-> "idle"] /\ child = [p \in Captures |-> "none"]
  /\ temporary = [p \in Captures |-> Broken] /\ snap = [p \in Captures |-> Broken]
  /\ code = [p \in Captures |-> -1]
  /\ output = [state |-> "absent", snapshot |-> Broken, by |-> Nothing]
  /\ policy \in Policies /\ baseline \in Baselines
  /\ report = Nothing /\ exit = -1
  /\ preview = Nothing /\ reviewed = Nothing /\ prepared = Nothing
  /\ up = [u \in Uploads |-> "idle"] /\ attempt = [u \in Uploads |-> 0]
  /\ payload = [u \in Uploads |-> Nothing] /\ answer = [u \in Uploads |-> Denial("none")]
  /\ outcome = [u \in Uploads |-> "none"]
  /\ stored = {}

(***************************************************************************)
(* run_capture() and its child, worker()                                   *)
(***************************************************************************)
Go(p, place) == pc' = [pc EXCEPT ![p] = place]
Forget(p)    == snap' = [snap EXCEPT ![p] = Broken]
Discard(p)   == temporary' = [temporary EXCEPT ![p] = Broken]   \* the temporary directory goes

(* A command that fails leaves its code; one that succeeds is also known by  *)
(* how its child ended.                                                      *)
Exits(p, n) == /\ Go(p, "exited") /\ code' = [code EXCEPT ![p] = n] /\ Forget(p)
               /\ child' = IF n = 0 THEN child ELSE [child EXCEPT ![p] = "none"]

(* The destination must be free before any of the user's code runs.         *)
StartCapture(p) ==
  /\ pc[p] = "idle"
  /\ IF output.state # "absent" THEN Exits(p, ExitCode.ERROR)
     ELSE Go(p, "waiting") /\ child' = [child EXCEPT ![p] = "running"] /\ UNCHANGED <<code, snap>>
  /\ UNCHANGED <<temporary, output, compared, reading, uploaded>>

(* worker(): the factory runs and its snapshot is saved in the temporary    *)
(* directory, or the save breaks off; user code may end the process with    *)
(* any status at any point.                                                 *)
ChildSaves(p) ==
  /\ child[p] = "running"
  /\ \E file \in Observable \cup {Broken}, status \in {"zero", "nonzero"} :
       /\ temporary' = [temporary EXCEPT ![p] = file]
       /\ child' = [child EXCEPT ![p] = status]
  /\ UNCHANGED <<pc, snap, code, output, compared, reading, uploaded>>

(* The child's file taken as it is.                                         *)
Collect_Trusts(p) ==
  /\ pc[p] = "waiting" /\ child[p] \in {"zero", "nonzero"}
  /\ snap' = [snap EXCEPT ![p] = IF child[p] = "zero" THEN temporary[p] ELSE NotExecuted("case", "ERROR")]
  /\ Go(p, "saving") /\ Discard(p)
  /\ UNCHANGED <<child, code, output, compared, reading, uploaded>>

(* wait() returned: a clean exit is believed only with a valid snapshot.    *)
Collect(p) ==
  /\ pc[p] = "waiting" /\ child[p] \in {"zero", "nonzero"}
  /\ snap' = [snap EXCEPT ![p] =
       IF child[p] = "zero" /\ Consistent(temporary[p])
       THEN temporary[p] ELSE NotExecuted("case", "ERROR")]
  /\ Go(p, "saving") /\ Discard(p)
  /\ UNCHANGED <<child, code, output, compared, reading, uploaded>>

(* wait() timed out: the group is killed, even one that has just finished,  *)
(* and the timeout is what is recorded.                                     *)
TimesOut(p) ==
  /\ pc[p] = "waiting"
  /\ child' = [child EXCEPT ![p] = "killed"]
  /\ snap' = [snap EXCEPT ![p] = NotExecuted("case", "ERROR")]
  /\ Go(p, "saving") /\ Discard(p)
  /\ UNCHANGED <<code, output, compared, reading, uploaded>>

(* The early exists() taken for the whole protection.                       *)
CreateOutput_Truncates(p) ==
  /\ pc[p] = "saving"
  /\ Go(p, "writing")
  /\ output' = [state |-> "partial", snapshot |-> Broken, by |-> p]
  /\ UNCHANGED <<code, child, temporary, snap, compared, reading, uploaded>>

(* save_snapshot(): created exclusively, then written and closed.           *)
CreateOutput(p) ==
  /\ pc[p] = "saving"
  /\ IF output.state # "absent" THEN Exits(p, ExitCode.ERROR) /\ UNCHANGED output
     ELSE /\ Go(p, "writing")
          /\ output' = [state |-> "partial", snapshot |-> Broken, by |-> p]
          /\ UNCHANGED <<child, code, snap>>
  /\ UNCHANGED <<temporary, compared, reading, uploaded>>

(* The exit code taken from the child and not from its snapshot.            *)
WriteOutput_ChildCode(p) ==
  /\ pc[p] = "writing"
  /\ output' = [state |-> "whole", snapshot |-> snap[p], by |-> p]
  /\ Exits(p, IF child[p] = "zero" THEN 0 ELSE ExitCode.ERROR)
  /\ UNCHANGED <<temporary, compared, reading, uploaded>>

WriteOutput(p) ==
  /\ pc[p] = "writing"
  /\ output' = [state |-> "whole", snapshot |-> snap[p], by |-> p]
  /\ Exits(p, IF snap[p].status = "EXECUTED" THEN 0 ELSE ExitCode[snap[p].status])
  /\ UNCHANGED <<temporary, compared, reading, uploaded>>

(* The command is killed, or its disk fills: what it wrote stays.           *)
CaptureDies(p) ==
  /\ pc[p] \in {"waiting", "saving", "writing"} /\ Go(p, "dead")
  /\ Forget(p) /\ Discard(p) /\ child' = [child EXCEPT ![p] = "killed"]
  /\ UNCHANGED <<code, output, compared, reading, uploaded>>

(***************************************************************************)
(* compare, and the edits a workspace may see                              *)
(***************************************************************************)
(* The steps of a CI job run in order: compare starts after the captures.   *)
Compare ==
  /\ \A p \in Captures : pc[p] \in {"exited", "dead"}
  /\ report = Nothing /\ output.state # "absent"
  /\ LET verdict == Verdict(baseline, output.snapshot, policy) IN
     IF output.state = "whole"
     THEN /\ report' = [baseline |-> baseline, candidate |-> output.snapshot,
                        policy |-> policy, verdict |-> verdict]
          /\ exit' = ExitCode[verdict]
     ELSE exit' = ExitCode.ERROR /\ UNCHANGED report
  /\ UNCHANGED <<captured, chosen, reading, uploaded>>

(* The report's verdict is changed by hand before it is previewed; nothing   *)
(* reads it afterwards.                                                      *)
EditReport ==
  /\ report # Nothing /\ preview = Nothing
  /\ report' = [report EXCEPT !.verdict = "WITHIN_POLICY"]
  /\ UNCHANGED <<captured, chosen, exit, reading, uploaded>>

(* prepare_summary() compares the recorded snapshots again; preview()       *)
(* creates its file exclusively.                                            *)
Preview ==
  /\ report # Nothing /\ preview = Nothing
  /\ Verdict(report.baseline, report.candidate, report.policy) = report.verdict
  /\ preview' = report /\ prepared' = report
  /\ UNCHANGED <<captured, compared, reviewed, uploaded>>

(* A person reads the preview as it now is and will pass its SHA256.        *)
Review == /\ preview # Nothing /\ reviewed = Nothing /\ reviewed' = preview
          /\ UNCHANGED <<captured, compared, preview, prepared, uploaded>>

(* The file's verdict is changed by hand, before it was confirmed or after.  *)
EditPreview == /\ preview # Nothing
               /\ preview' = [preview EXCEPT !.verdict = "WITHIN_POLICY"]
               /\ UNCHANGED <<captured, compared, reviewed, prepared, uploaded>>

(***************************************************************************)
(* upload()                                                                *)
(***************************************************************************)
Climb(u, place) == /\ up' = [up EXCEPT ![u] = place]
                   /\ answer' = [answer EXCEPT ![u] = Denial("none")]
Prints(u, word) == /\ Climb(u, "ended") /\ outcome' = [outcome EXCEPT ![u] = word]
                   /\ attempt' = [attempt EXCEPT ![u] = 0]

(* The bytes are read once and hashed, and those bytes are what is sent. The *)
(* verdict in them is not computed again: only the hash and the schema are   *)
(* checked.                                                                  *)
ReadSummary(u) ==
  /\ up[u] = "idle" /\ preview # Nothing /\ reviewed # Nothing
  /\ IF preview = reviewed
     THEN /\ payload' = [payload EXCEPT ![u] = preview]
          /\ attempt' = [attempt EXCEPT ![u] = 1] /\ Climb(u, "sending") /\ UNCHANGED outcome
     ELSE Prints(u, "REFUSED") /\ UNCHANGED payload
  /\ UNCHANGED <<captured, compared, reading, stored>>

IdempotencyKey(u) == reviewed

Body_Reread(u) == preview

(* What the upload puts on the wire: the bytes it hashed, or, in a variant, *)
(* the file as it now is.                                                   *)
Body(u) == payload[u]

Respond(u, a) == /\ up' = [up EXCEPT ![u] = "answered"]
                 /\ answer' = [answer EXCEPT ![u] = a]

(* Something before the server answers, or the server itself, and nothing   *)
(* is stored.                                                               *)
RequestDenied(u) ==
  /\ up[u] = "sending" /\ \E a \in Denials : Respond(u, a)
  /\ UNCHANGED <<captured, compared, reading, attempt, payload, outcome, stored>>

(* external: the server keeps one report for each key, with the verdict it   *)
(* takes from the summary or computes from its figures, and acknowledges it  *)
(* with that verdict; a gateway may replace the acknowledgement.             *)
Readings(summary) ==
  {summary.verdict, Verdict(summary.baseline, summary.candidate, summary.policy)}

RequestArrives(u) ==
  LET held == { s \in stored : s.key = IdempotencyKey(u) } IN
  /\ up[u] = "sending"
  /\ \/ /\ held = {}
        /\ \E v \in Readings(Body(u)) :
             /\ stored' = stored \cup {[key |-> IdempotencyKey(u), summary |-> Body(u),
                                        verdict |-> v, copy |-> Cardinality(stored)]}
             /\ \E a \in {Acknowledgement("STORED", v)} \cup Denials : Respond(u, a)
     \/ \E s \in held : /\ UNCHANGED stored
                        /\ \E a \in {Acknowledgement("DUPLICATE", s.verdict)} \cup Denials :
                             Respond(u, a)
  /\ UNCHANGED <<captured, compared, reading, attempt, payload, outcome>>

(* The answer's verdict is not compared with the summary's.                 *)
Acknowledges_AnyVerdict(a, summary) == a.status = "ok" /\ a.upload \in {"STORED", "DUPLICATE"}

Acknowledges(a, summary) ==
  a.status = "ok" /\ a.upload \in {"STORED", "DUPLICATE"} /\ a.verdict = summary.verdict

(* Only a busy status is worth another attempt; any other status, and a 2xx  *)
(* that is not the acknowledgement of this summary, ends the upload at once. *)
AnswerRead(u) ==
  /\ up[u] = "answered"
  /\ IF Acknowledges(answer[u], payload[u]) THEN Prints(u, "ACKNOWLEDGED")
     ELSE IF answer[u].status = "busy" THEN Climb(u, "retrying") /\ UNCHANGED <<attempt, outcome>>
     ELSE Prints(u, "UPLOAD_FAILED")
  /\ UNCHANGED <<captured, compared, reading, payload, stored>>

(* The request or its answer is lost: a URLError or a TimeoutError is         *)
(* retried, a connection that breaks in any other way is not.                 *)
ExchangeLost(u) ==
  /\ up[u] \in {"sending", "answered"}
  /\ \/ Climb(u, "retrying") /\ UNCHANGED <<attempt, outcome>>
     \/ Prints(u, "UPLOAD_FAILED")
  /\ UNCHANGED <<captured, compared, reading, payload, stored>>

Retry(u) ==
  /\ up[u] = "retrying"
  /\ IF attempt[u] < Attempts
     THEN attempt' = [attempt EXCEPT ![u] = @ + 1] /\ Climb(u, "sending") /\ UNCHANGED outcome
     ELSE Prints(u, "UPLOAD_FAILED")
  /\ UNCHANGED <<captured, compared, reading, payload, stored>>

Next == \/ \E p \in Captures : \/ StartCapture(p) \/ ChildSaves(p) \/ Collect(p) \/ TimesOut(p)
                               \/ CreateOutput(p) \/ WriteOutput(p) \/ CaptureDies(p)
        \/ Compare \/ EditReport \/ Preview \/ Review \/ EditPreview
        \/ \E u \in Uploads : \/ ReadSummary(u) \/ RequestDenied(u) \/ RequestArrives(u)
                              \/ AnswerRead(u) \/ ExchangeLost(u) \/ Retry(u)

Spec == Init /\ [][Next]_vars

-----------------------------------------------------------------------------
(* The files and the per-command state have their shapes, and whatever      *)
(* reaches the output path is a consistent snapshot.                        *)
TypeOK ==
  /\ pc \in [Captures -> {"idle", "waiting", "saving", "writing", "exited", "dead"}]
  /\ child \in [Captures -> {"none", "running", "zero", "nonzero", "killed"}]
  /\ temporary \in [Captures -> Candidates] /\ snap \in [Captures -> Candidates]
  /\ code \in [Captures -> -1..5]
  /\ output \in [state : {"absent", "partial", "whole"}, snapshot : Candidates,
                 by : Captures \cup {Nothing}]
  /\ output.state = "whole" => Consistent(output.snapshot)
  /\ factory \in [circuit : Circuits, execution : Executions]
  /\ policy \in Policies /\ baseline \in Baselines
  /\ report \in Reports \cup {Nothing} /\ exit \in -1..5
  /\ up \in [Uploads -> {"idle", "sending", "retrying", "answered", "ended"}]
  /\ attempt \in [Uploads -> 0..Attempts] /\ payload \in [Uploads -> Reports \cup {Nothing}]
  /\ answer \in [Uploads -> Answers]
  /\ outcome \in [Uploads -> {"none", "REFUSED", "ACKNOWLEDGED", "UPLOAD_FAILED"}]
  /\ \A s \in stored : s.verdict \in Verdicts
  /\ preview \in Reports \cup {Nothing} /\ reviewed \in Reports \cup {Nothing}
  /\ prepared \in Reports \cup {Nothing}

(* A green comparison is a true statement about the circuits, and so is a   *)
(* regression blamed on the distribution: both executed the same case, what *)
(* changed was declared, and the circuits' real distributions lie within    *)
(* (or beyond) the tolerance, not merely the sampled ones.                  *)
VerdictIsSound ==
  report # Nothing /\ exit \in {0, 1} =>
    LET b == report.baseline   c == report.candidate IN
    /\ b.status = "EXECUTED" /\ c.status = "EXECUTED" /\ b.execution = c.execution
    /\ exit = 0 => /\ \A t \in policy.tolerance : Apart(Truth[b.circuit], Truth[c.circuit]) <= t
                   /\ \A i \in policy.increase : Size[c.circuit] <= Size[b.circuit] + i
    /\ exit = 1 => \/ \E t \in policy.tolerance : Apart(Truth[b.circuit], Truth[c.circuit]) > t
                   \/ \E i \in policy.increase : Size[c.circuit] > Size[b.circuit] + i

(* Evidence written to the output path is never replaced: once a capture    *)
(* has created the file, no other command's snapshot appears in it.         *)
EvidenceIsKept ==
  [][output.state # "absent" => /\ output'.by = output.by
                                /\ output.state = "whole" => output' = output]_vars

(* A capture that exits 0 left, whole and under the name it was given, an   *)
(* executed snapshot of its own; a child that was killed or broke off never *)
(* passes for one.                                                          *)
CaptureExitIsTrue ==
  \A p \in Captures : code[p] = 0 =>
    /\ output.state = "whole" /\ output.by = p /\ output.snapshot.status = "EXECUTED"
    /\ child[p] = "zero"

(* The verdict a report carries is the one its own evidence gives.          *)
Recomputed(r) == r.verdict = Verdict(r.baseline, r.candidate, r.policy)

(* What the server holds is what a person read and confirmed, whatever is    *)
(* edited after that; and it carries the verdict its own evidence gives if   *)
(* what was confirmed is what preview() wrote. A file that was edited before *)
(* it was confirmed is stored with the verdict of the edit: upload() checks  *)
(* the hash and the schema and computes nothing again.                       *)
UploadedAsReviewed ==
  \A s \in stored : /\ s.summary = reviewed
                    /\ reviewed = prepared => Recomputed(s.summary)

(* Retries and a second upload store one report, and an upload that prints   *)
(* an acknowledgement finds it stored, under the verdict it sent: an answer  *)
(* that is no acknowledgement, or a server that reads another verdict in the *)
(* figures, never passes for one.                                            *)
UploadIsTrue ==
  /\ Cardinality(stored) <= 1
  /\ \A u \in Uploads : outcome[u] = "ACKNOWLEDGED" =>
       \E s \in stored : s.summary = payload[u] /\ s.verdict = payload[u].verdict

-----------------------------------------------------------------------------
(* The inductive invariants.                                                *)

(* A snapshot on its way to the output is consistent, and executed only if  *)
(* its child ended cleanly; one command at most has the output open, and    *)
(* one that exited 0 has ended.                                             *)
CapturesAreHonest ==
  \A p \in Captures :
    /\ pc[p] \in {"saving", "writing"} =>
         Consistent(snap[p]) /\ (snap[p].status = "EXECUTED" => child[p] = "zero")
    /\ pc[p] = "writing" => output.state = "partial" /\ output.by = p
    /\ code[p] = 0 => pc[p] = "exited"

(* A report is about the inputs of this job and the file at the output, and *)
(* compare's exit code is the verdict on them.                              *)
ReportIsOfOutput ==
  report # Nothing =>
    /\ output.state = "whole" /\ report.candidate = output.snapshot
    /\ report.baseline = baseline /\ report.policy = policy
    /\ exit = ExitCode[Verdict(baseline, output.snapshot, policy)]

(* What preview() wrote was recomputed; what an upload holds is what was     *)
(* reviewed; the server has it, once, or nothing; an acknowledgement on its  *)
(* way, or printed, is of the server's copy.                                 *)
UploadsAreReviewed ==
  /\ prepared # Nothing => Recomputed(prepared)
  /\ stored = {} \/ \E v \in Verdicts :
       reviewed # Nothing /\ stored = {[key |-> reviewed, summary |-> reviewed, verdict |-> v, copy |-> 0]}
  /\ \A u \in Uploads :
       /\ up[u] \in {"sending", "retrying", "answered"} \/ outcome[u] = "ACKNOWLEDGED" =>
            reviewed # Nothing /\ payload[u] = reviewed
       /\ answer[u].upload # "other" => \E s \in stored : s.verdict = answer[u].verdict
       /\ outcome[u] = "ACKNOWLEDGED" => \E s \in stored : s.verdict = payload[u].verdict

RegressionInv == TypeOK /\ CapturesAreHonest /\ CaptureExitIsTrue /\ ReportIsOfOutput /\ UploadsAreReviewed
=============================================================================
