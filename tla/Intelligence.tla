---------------------------- MODULE Intelligence ----------------------------
(***************************************************************************)
(* An assessment from its document to its verdict                          *)
(* (src/src/intelligence, and the `intelligence` commands of               *)
(* src/src/cli/index.ts).                                                  *)
(*                                                                         *)
(* A document names a workload, perhaps a classical baseline, and          *)
(* scenarios; a scenario may be revised. `report` builds the bundle and    *)
(* writes it to a file. Anyone may then edit the file, and put a fresh     *)
(* hash on it, before somebody else runs `verify`.                         *)
(***************************************************************************)
EXTENDS Advantage

CONSTANTS
    Workloads,      \* the workloads a document may carry
    Baselines,      \* its baselines, Null among them
    PresetOptions,  \* the options applied to every preset
    Selections,     \* which presets are wanted: sets of preset names
    Changes,        \* what a revision may change: functions from scenario fields
    MaxSteps        \* bound: revisions and edits of one assessment

VARIABLES
    workload, baseline, scenarios,  \* the resolved document
    file,       \* the bundle on disk, Null before `report`
    written,    \* the bundle `report` wrote
    verdict,    \* exit code of the last `verify` of this file, Null if none
    failed,     \* `report` threw
    steps       \* revisions and edits so far

vars == <<workload, baseline, scenarios, file, written, verdict, failed, steps>>

-----------------------------------------------------------------------------
(* What the schemas let a document hold.                                   *)

Presets == {"CONSERVATIVE", "BASE", "OPTIMISTIC", "CUSTOM"}
Confidences == {"HIGH", "MEDIUM", "LOW"}
HardwareBases == {"OBSERVATION", "ROADMAP", "USER_ASSUMPTION"}
EconomicBases == {"USER_PROVIDED", "PUBLISHED_QUOTE", "MODELLED"}
Layouts == {"BARE_REGISTER", "LATTICE_SURGERY_2D"}

Positive == Nat \ {0}

\* A price names at least one of its two rates.
Economies ==
    {Null} \cup {price \in [machine : Nat \cup {Null}, qubit : Nat \cup {Null}, basis : EconomicBases] :
                    Known(price.machine) \/ Known(price.qubit)}

\* An error rate is at most one: a quality is not negative.
LegalValue ==
    [preset |-> Presets, revision |-> Positive, supersedes |-> {Null} \cup Presets \X Positive,
     rate |-> {r \in Int : r + THRESHOLD_QUALITY >= 0}, cycle |-> Positive, basis |-> HardwareBases,
     confidence |-> Confidences, capacity |-> Positive \cup {Null}, prefactor |-> Positive, layout |-> Layouts,
     protocol |-> {"FIFTEEN_TO_ONE", "NONE"}, raw |-> Nat, goal |-> Nat,
     factoryDistance |-> {Null} \cup {d \in Nat : d >= 3 /\ d % 2 = 1},
     parallel |-> Positive, rounds |-> Positive, toffoliCost |-> Positive,
     budget |-> 1 .. 1000, target |-> Positive \cup {Null}, economics |-> Economies]

\* Distillation has something to do, and a revision names the one it replaces.
LegalScenario(s) ==
    /\ DOMAIN s = DOMAIN LegalValue
    /\ \A field \in DOMAIN s : s[field] \in LegalValue[field]
    /\ s.protocol = "FIFTEEN_TO_ONE" => s.raw < s.goal
    /\ s.revision > 1 <=> Known(s.supersedes)

LegalWorkloads ==
    [qubits : Positive, depth : Nat, t : Nat, toffoli : Nat, unsupported : Nat,
     evidence : {"DERIVED", "USER_PROVIDED", "MODELLED"}, demo : BOOLEAN]

\* A baseline has a runtime or a cost, and then it says where it is from.
LegalBaselines ==
    {Null} \cup {b \in [evidence : {"MEASURED", "USER_PROVIDED", "DERIVED", "MODELLED"},
                        runtime : Positive \cup {Null}, cost : Nat \cup {Null}] :
                    Known(b.runtime) \/ Known(b.cost)}

LegalInputs(w, b, ss) ==
    /\ w \in LegalWorkloads
    /\ b \in LegalBaselines
    /\ \A i \in DOMAIN ss : LegalScenario(ss[i])

ASSUME DocumentAssumption ==
    /\ Workloads \subseteq LegalWorkloads
    /\ Baselines \subseteq LegalBaselines
    /\ PresetOptions \subseteq
          [capacity : Positive \cup {Null}, target : Positive \cup {Null}, layout : Layouts, economics : Economies]

-----------------------------------------------------------------------------
(* The document.                                                           *)

Shape(name, rate, cycle, confidence) == [name |-> name, rate |-> rate, cycle |-> cycle, confidence |-> confidence]

\* 3e-3, 1e-3 and 1e-4 against the threshold of 1e-2; 1000 ns and 200 ns.
PRESET_SHAPES ==
    <<Shape("CONSERVATIVE", 2, 20, "MEDIUM"), Shape("BASE", 3, 20, "MEDIUM"), Shape("OPTIMISTIC", 7, 4, "LOW")>>

PresetScenario(shape, options) ==
    [preset |-> shape.name, revision |-> 1, supersedes |-> Null,
     rate |-> shape.rate, cycle |-> shape.cycle, basis |-> "USER_ASSUMPTION", confidence |-> shape.confidence,
     capacity |-> options.capacity, prefactor |-> 3, layout |-> options.layout,
     protocol |-> "FIFTEEN_TO_ONE", raw |-> shape.rate + THRESHOLD_QUALITY, goal |-> 33,
     factoryDistance |-> Null, parallel |-> 1, rounds |-> 10, toffoliCost |-> 4,
     budget |-> 10, target |-> options.target, economics |-> options.economics]

ResolveAssessment(options, wanted) ==
    LET Preset(i) ==
            IF PRESET_SHAPES[i].name \in wanted THEN <<PresetScenario(PRESET_SHAPES[i], options)>> ELSE <<>>
    IN Preset(1) \o Preset(2) \o Preset(3)

\* The next revision of a scenario; its hash stands for the one it replaces.
ReviseScenario(current, change) ==
    LET renewed == [current EXCEPT !.preset = "CUSTOM", !.revision = @ + 1,
                                   !.supersedes = <<current.preset, current.revision>>]
    IN [field \in DOMAIN current |-> IF field \in DOMAIN change THEN change[field] ELSE renewed[field]]

-----------------------------------------------------------------------------
(* The bundle.                                                             *)

ScenariosComparable(left, right) ==
    /\ left.prefactor = right.prefactor
    /\ left.budget = right.budget
    /\ left.toffoliCost = right.toffoliCost

RequiredCycle(thresholds) ==
    IF Known(thresholds.maxCycleToBeatClassical) THEN thresholds.maxCycleToBeatClassical
    ELSE thresholds.maxCycleForTarget

ComparisonRow(estimate, thresholds, assessment) ==
    [feasible |-> estimate.core.feasible, total |-> estimate.core.total, runtime |-> estimate.core.runtime,
     requiredCycle |-> RequiredCycle(thresholds), economic |-> assessment.economic, status |-> assessment.status]

Inputs == {"workload", "baseline", "scenarios"}
Results == {"estimates", "thresholds", "assessments"}

\* The hash stands for the content it is taken over.
Sealed(content) == [content |-> content, hash |-> content]

Assessments(w, b, ss, estimates, thresholds) ==
    [i \in DOMAIN ss |-> AssessDecision(w, ss[i], b, estimates[i], thresholds[i])]

Bundle(w, b, ss, estimates, thresholds, assessments) ==
    Sealed([workload |-> w, baseline |-> b, scenarios |-> ss,
            estimates |-> estimates, thresholds |-> thresholds, assessments |-> assessments,
            rows |-> [i \in DOMAIN ss |-> ComparisonRow(estimates[i], thresholds[i], assessments[i])],
            comparable |-> \A i, j \in DOMAIN ss : ScenariosComparable(ss[i], ss[j]),
            demo |-> w.demo])

BuildBundle(w, b, ss) ==
    LET Assessed(estimates, thresholds) ==
            Bundle(w, b, ss, estimates, thresholds, Assessments(w, b, ss, estimates, thresholds))
    IN Assessed([i \in DOMAIN ss |-> EstimateForScenario(w, ss[i])],
                [i \in DOMAIN ss |-> ComputeAdvantageThresholds(w, ss[i], b)])

\* Variant: the file's own hash is checked, and nothing is rebuilt.
Verifies_HashOnly(bundle) == Sealed(bundle.content).hash = bundle.hash

\* A bundle whose inputs the schemas accept is rebuilt from them. The hash it
\* claims is compared with the rebuilt one.
Verifies(bundle) ==
    LET content == bundle.content
        Agrees(rebuilt) ==
            /\ rebuilt.hash = bundle.hash
            /\ rebuilt.content.estimates = content.estimates
            /\ rebuilt.content.thresholds = content.thresholds
            /\ rebuilt.content.assessments = content.assessments
    IN /\ LegalInputs(content.workload, content.baseline, content.scenarios)
       /\ Agrees(BuildBundle(content.workload, content.baseline, content.scenarios))

-----------------------------------------------------------------------------
(* The commands, and what happens between them.                            *)

Init ==
    /\ workload \in Workloads
    /\ baseline \in Baselines
    /\ \E options \in PresetOptions, wanted \in Selections : scenarios = ResolveAssessment(options, wanted)
    /\ file = Null
    /\ written = Null
    /\ verdict = Null
    /\ failed = FALSE
    /\ steps = 0

\* A revision the schema refuses throws, and there is none.
Revise(i, change) ==
    /\ file = Null
    /\ ~failed
    /\ steps < MaxSteps
    /\ LegalScenario(ReviseScenario(scenarios[i], change))
    /\ scenarios' = [scenarios EXCEPT ![i] = ReviseScenario(@, change)]
    /\ steps' = steps + 1
    /\ UNCHANGED <<workload, baseline, file, written, verdict, failed>>

\* No bundle is written if one of its numbers is not finite.
Write(bundle) ==
    IF \E i \in DOMAIN scenarios : NotFinite(bundle.content.thresholds[i])
    THEN failed' = TRUE /\ UNCHANGED <<file, written>>
    ELSE file' = bundle /\ written' = bundle /\ UNCHANGED failed

Report ==
    /\ file = Null
    /\ ~failed
    /\ Write(BuildBundle(workload, baseline, scenarios))
    /\ UNCHANGED <<workload, baseline, scenarios, verdict, steps>>

\* Somebody edits one part of the file: a lower rate, more confidence, a raw
\* state as good as the goal, no baseline; or what was made of them.
Edited(content) ==
    {[content EXCEPT !.scenarios[1].rate = @ + 1],
     [content EXCEPT !.scenarios[1].raw = content.scenarios[1].goal],
     [content EXCEPT !.scenarios[1].confidence = "HIGH"],
     [content EXCEPT !.baseline = Null],
     [content EXCEPT !.workload.demo = ~@],
     [content EXCEPT !.estimates[1].core.total = 1],
     [content EXCEPT !.thresholds[1].capacityHeadroom = <<2, 1>>],
     [content EXCEPT !.assessments[1].status = "ECONOMICALLY_COMPETITIVE_UNDER_ASSUMPTIONS"],
     [content EXCEPT !.rows[1].status = "ECONOMICALLY_COMPETITIVE_UNDER_ASSUMPTIONS"]}

Edit ==
    /\ Known(file)
    /\ steps < MaxSteps
    /\ \E content \in Edited(file.content), fresh \in BOOLEAN :
          file' = IF fresh THEN Sealed(content) ELSE [file EXCEPT !.content = content]
    /\ verdict' = Null
    /\ steps' = steps + 1
    /\ UNCHANGED <<workload, baseline, scenarios, written, failed>>

Verify ==
    /\ Known(file)
    /\ ~Known(verdict)
    /\ verdict' = IF Verifies(file) THEN 0 ELSE 1
    /\ UNCHANGED <<workload, baseline, scenarios, file, written, failed, steps>>

Next ==
    \/ \E i \in DOMAIN scenarios, change \in Changes : Revise(i, change)
    \/ Report
    \/ Edit
    \/ Verify

Spec == Init /\ [][Next]_vars

-----------------------------------------------------------------------------
(* Properties.                                                             *)

\* What a reader may rely on: the file as `report` wrote it, or as `verify`
\* passed it.
Trusted == Known(file) /\ (file = written \/ verdict = 0)

\* Whether the machine this scenario needs fits, and whether it is in time.
Fits(s, e) == Known(s.capacity) => e.total <= s.capacity
OnTime(s, e) == Known(s.target) => e.runtime <= Shares(s, s.target)

QuantumIsFaster(b, s, e) == HasRuntime(b) /\ e.runtime < Shares(s, b.runtime)

\* At the scenario's own rate: per machine-second if one is stated, else per
\* qubit-second.
QuantumIsCheaper(b, s, e) ==
    /\ HasCost(b) /\ Known(s.economics)
    /\ e.runtime * (IF Known(s.economics.machine) THEN s.economics.machine ELSE s.economics.qubit * e.total)
          < Shares(s, b.cost)

Earned(status, b, s, e) ==
    /\ status = "INFEASIBLE_UNDER_ASSUMPTIONS" <=> ~Known(e.distance)
    /\ status = "INSUFFICIENT_EVIDENCE" <=> ~Known(e.total) /\ Known(e.distance)
    /\ status = "CONDITIONALLY_FEASIBLE" <=> Known(e.total) /\ ~(Fits(s, e) /\ OnTime(s, e))
    /\ status = "TECHNICALLY_FEASIBLE" => Known(s.capacity) \/ Known(s.target)
    /\ status \in {"POTENTIALLY_ECONOMIC", "ECONOMICALLY_COMPETITIVE_UNDER_ASSUMPTIONS"} =>
          Known(s.economics) /\ (QuantumIsFaster(b, s, e) \/ QuantumIsCheaper(b, s, e))
    /\ status = "ECONOMICALLY_COMPETITIVE_UNDER_ASSUMPTIONS" =>
          QuantumIsFaster(b, s, e) /\ QuantumIsCheaper(b, s, e)

\* What an assessment says beside its status, with what the estimate warns of.
Explained(assessment, warnings, e) ==
    /\ assessment.status = "INSUFFICIENT_EVIDENCE" =>
          assessment.missing \cap {"SYNTHESIS", "DISTILLATION"} \cap assessment.next # {}
    /\ warnings \cap {"FACTORY_NOT_SIZED", "UNDETERMINED"} # {} =>
          assessment.status \in {"INSUFFICIENT_EVIDENCE", "INFEASIBLE_UNDER_ASSUMPTIONS"}
    /\ "NO_MAGIC_STATES" \in warnings /\ e.feasible => e.factory = 0

\* The status of a file a reader may rely on is what the inputs in that file
\* support, as the comments of decision.ts:32-47 describe each status: a
\* machine is called feasible only if its whole size and runtime are known
\* and every stated constraint is met, and economic only on a baseline, a cost
\* model and a comparison that comes out in its favour. A file that lacks
\* evidence names what it lacks and says to get it, and its status is never
\* better than what the estimate's own warnings leave.
StatusIsEarned ==
    Trusted =>
        \A i \in DOMAIN file.content.scenarios :
            LET s == file.content.scenarios[i]
                assessment == file.content.assessments[i]
                e == Evaluate(file.content.workload, s)
            IN /\ Earned(assessment.status, file.content.baseline, s, e)
               /\ Explained(assessment, file.content.estimates[i].warnings, e)

\* Whether the thresholds count the factory as the estimate does: they also
\* count one where the scenario has no distillation protocol.
SameFactory(s, e) == s.protocol # "NONE" \/ e.magic = 0

CycleBoundsAgree(b, s, e, t) ==
    /\ Known(t.maxCycleForTarget) => (AtLeast(t.maxCycleForTarget, s.cycle) <=> OnTime(s, e))
    /\ Known(t.maxCycleToBeatClassical) => (Exceeds(t.maxCycleToBeatClassical, s.cycle) <=> QuantumIsFaster(b, s, e))

ThroughputSuffices(w, s, e, t) ==
    Known(t.minThroughputForTarget) /\ e.magic > 0 /\ OnTime(s, e) =>
        s.parallel * t.minThroughputForTarget[2] >= t.minThroughputForTarget[1] * s.rounds * s.cycle

FeasibleRateAgrees(s, e, t) == e.feasible <=> s.rate > 0 /\ s.rate >= t.maxErrorRate

\* The search ends at its floor, and what it would find beyond is not asked.
CapacityRateAgrees(s, e, t) ==
    Known(s.capacity) /\ s = AtRate(s, s.rate) /\ s.rate <= t.maxErrorRate + BISECTION_SPAN =>
        (Known(e.total) /\ e.total <= s.capacity
            <=> Known(t.maxErrorRateWithinCapacity) /\ s.rate >= t.maxErrorRateWithinCapacity)

PricesAgree(b, s, e, t) ==
    Known(t.breakEvenRuntime) =>
        /\ Below(t.costRatio, 1) <=> Exceeds(t.breakEvenRuntime, e.runtime)
        /\ Below(t.costRatio, 1) <=> Exceeds(t.maxMachineCost, s.economics.machine)

\* A condition is true of the scenario's own device exactly if the estimate
\* says so: at the stated cycle time the run meets its target, and beats the
\* classical one, exactly if that time is within the bound given for it; the
\* stated error rate has a distance exactly if it is within the rate given for
\* it; the three ways of pricing a run agree.
ConditionsAgree ==
    Trusted =>
        \A i \in DOMAIN file.content.scenarios :
            LET s == file.content.scenarios[i]
                b == file.content.baseline
                w == file.content.workload
                e == Evaluate(w, s)
                t == file.content.thresholds[i]
            IN /\ SameFactory(s, e) /\ Known(e.runtime) => CycleBoundsAgree(b, s, e, t) /\ ThroughputSuffices(w, s, e, t)
               /\ FeasibleRateAgrees(s, e, t)
               /\ PricesAgree(b, s, e, t)

\* So it is of the rate the bisection finds: a stated one above the search's
\* floor fits the stated capacity exactly if it is within that rate.
ThresholdsAgree ==
    /\ ConditionsAgree
    /\ Trusted =>
          \A i \in DOMAIN file.content.scenarios :
              LET s == file.content.scenarios[i]
              IN CapacityRateAgrees(s, Evaluate(file.content.workload, s), file.content.thresholds[i])

\* What the engine's panel says of the factory, in the scenario's own numbers.
PanelFactory(w, s, e) ==
    EstimateFactoryCost(e.magic, w.qubits, s.raw, s.goal,
                        IF Known(s.factoryDistance) THEN s.factoryDistance ELSE e.distance, e.distance)

CostsAgree(w, s, e, panel) ==
    LET cost == PanelFactory(w, s, e)
    IN /\ ~e.undetermined /\ SameFactory(s, e) /\ cost.reached => e.factory = s.parallel * cost.factory
       /\ Known(e.total) => e.total = panel.layouts[s.layout] + e.factory
       /\ Known(e.runtime) => e.runtime >= Shares(s, panel.runtime)
       /\ e.limiter = "LOGICAL_CYCLES" => e.runtime = Shares(s, panel.runtime)

CurvesAgree(curves, panel) ==
    /\ SelectSeq(panel.sensitivity, Known) = curves.PHYSICAL_ERROR_RATE
    /\ SelectSeq(panel.models, Known) = curves.LOGICAL_ERROR_PREFACTOR

\* The estimate in the file and the engine's own panels, which each vary the
\* assumptions by themselves, do not disagree about one circuit
\* (estimate.ts:25-28): the same distance and the same magic states; as many
\* physical qubits, once routing and factories are set apart; a runtime that
\* only the factories can lengthen; and, for a bare register that distils
\* nothing, the same curves.
PanelsAgree ==
    Trusted =>
        \A i \in DOMAIN file.content.scenarios :
            LET s == file.content.scenarios[i]
                w == file.content.workload
                e == file.content.estimates[i].core
                panel == EstimateFaultTolerantResources(w, s)
            IN /\ panel.feasible = e.feasible
               /\ panel.distance = e.distance
               /\ ~e.undetermined /\ s.toffoliCost = 4 => panel.magic = e.magic
               /\ e.feasible => CostsAgree(w, s, e, panel)
               /\ s.layout = "BARE_REGISTER" /\ e.magic = 0 /\ ~e.undetermined =>
                     CurvesAgree(file.content.estimates[i].sensitivity, panel)

Same(parts) == \A part \in parts : file.content[part] = written.content[part]

\* `verify` passes the file that `report` wrote. Under the hash `report` gave
\* it, it passes no file whose inputs, numbers or decisions were edited; and
\* under a fresh hash, which anybody can take, none whose numbers or decisions
\* are not those of its inputs (the message of bundle.ts:359-361). It does not
\* look at the comparison rows.
EditsAreSeen ==
    Known(verdict) =>
        /\ file = written => verdict = 0
        /\ verdict = 0 /\ file.hash = written.hash => Same(Inputs \cup Results)
        /\ verdict = 0 /\ Same(Inputs) => Same(Results)

-----------------------------------------------------------------------------
(* The inductive invariant.                                                *)

\* `report` wrote what the document's inputs give, which are legal; `verify`
\* answered for the file as it is.
IntelligenceInv ==
    /\ LegalInputs(workload, baseline, scenarios)
    /\ Known(file) => written = BuildBundle(workload, baseline, scenarios)
    /\ Known(verdict) => Known(file) /\ verdict = IF Verifies(file) THEN 0 ELSE 1

=============================================================================
