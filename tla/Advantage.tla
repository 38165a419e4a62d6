----------------------------- MODULE Advantage -----------------------------
(***************************************************************************)
(* The conditions a device or a price would have to meet, and the decision *)
(* drawn from them (src/src/intelligence/thresholds.ts and decision.ts).   *)
(*                                                                         *)
(* A threshold that the code refuses by name is Null. A threshold that is  *)
(* a quotient stays one, <<numerator, denominator>>.                       *)
(***************************************************************************)
EXTENDS Estimator

\* How far below the ceiling the search for a rate that fits begins (10^-9).
BISECTION_SPAN == 30

Below(ratio, n) == ratio[1] < n * ratio[2]
AtLeast(ratio, n) == ratio[1] >= n * ratio[2]
Exceeds(ratio, n) == ratio[1] > n * ratio[2]

-----------------------------------------------------------------------------
(* Technical conditions.                                                   *)

\* The highest error rate for which some distance meets the budget, as the
\* lowest exponent; 0 when the threshold itself is what binds.
MaxErrorRateForFeasibility(w, s) ==
    LET K == (MaxDistance + 1) \div 2
        needed == Halvings(w, s)
    IN IF s.budget >= Demand(w, s) THEN 0 ELSE Min({r \in 0 .. needed : r * K >= needed})

\* The search moves the raw state error with the rate, ten times (here eight
\* times) above the target at least.
AtRate(s, rate) == [s EXCEPT !.rate = rate, !.raw = Lesser(rate + THRESHOLD_QUALITY, s.goal - 3)]

FitsAt(w, s, rate) ==
    LET e == Evaluate(w, AtRate(s, rate))
    IN e.feasible /\ Known(e.total) /\ e.total <= s.capacity

Bisect(w, s, from, to) ==       \* low fits, high does not
    LET bisect[bracket \in Nat \X Nat] ==
            LET low == bracket[1]
                high == bracket[2]
                middle == (low + high) \div 2
            IN IF low - high <= 1 THEN low
               ELSE IF FitsAt(w, s, middle) THEN bisect[<<middle, high>>] ELSE bisect[<<low, middle>>]
    IN bisect[<<from, to>>]

MaxErrorRateWithinCapacity(w, s) ==
    LET high == MaxErrorRateForFeasibility(w, s)
        low == high + BISECTION_SPAN
    IN IF ~Known(s.capacity) THEN Null
       ELSE IF ~FitsAt(w, s, low) THEN Null
       ELSE IF FitsAt(w, s, high) THEN high
       ELSE Bisect(w, s, low, high)

\* Variant: a run lasts as long as its logical cycles.
RoundsPerRun_NoFactory(w, s, e) ==
    IF ~Known(e.distance) \/ e.undetermined THEN Null ELSE Shares(s, LogicalCycles(w) * e.distance)

RoundsPerRun(w, s, e) ==
    IF ~Known(e.distance) \/ e.undetermined THEN Null
    ELSE Greater(Shares(s, LogicalCycles(w) * e.distance),
                 IF e.magic > 0 /\ e.reached THEN FactoryRounds(w, s) ELSE 0)

-----------------------------------------------------------------------------
(* Economic conditions.                                                    *)

HasBaseline(baseline) == Known(baseline) /\ baseline.evidence # "UNKNOWN"

HasRuntime(baseline) == HasBaseline(baseline) /\ Known(baseline.runtime)
HasCost(baseline) == HasBaseline(baseline) /\ Known(baseline.cost)

Or(condition, value) == IF condition THEN value ELSE Null

\* Each from the evaluation e and, where it counts, the surface-code rounds of
\* one run, in shares as its runtime is.
MaxCycleForTarget(s, rounds) == Or(Known(s.target) /\ Known(rounds), <<Shares(s, s.target), rounds>>)

MinThroughputForTarget(s, e) == Or(Known(s.target) /\ ~e.undetermined, <<e.magic, s.target>>)

CapacityHeadroom(s, e) == Or(Known(s.capacity) /\ Known(e.total), <<s.capacity, e.total>>)

ComparesRuntime(baseline, e, rounds) == HasRuntime(baseline) /\ Known(rounds) /\ Known(e.runtime)

MaxMachineCost(s, baseline, e) ==
    Or(HasCost(baseline) /\ Known(e.runtime), <<Shares(s, baseline.cost), e.runtime>>)

Priced(s, baseline, e) == HasCost(baseline) /\ Known(e.runtime) /\ Known(s.economics)

\* A rate per machine-second is taken before a rate per qubit-second.
Hourly(s, baseline, e) == Priced(s, baseline, e) /\ Known(s.economics.machine)

BreakEvenRuntime(s, baseline, e) ==
    Or(Hourly(s, baseline, e), <<Shares(s, baseline.cost), s.economics.machine>>)

ProjectedCost(s, baseline, e) ==
    IF Hourly(s, baseline, e) THEN s.economics.machine * e.runtime
    ELSE Or(Priced(s, baseline, e) /\ Known(s.economics.qubit) /\ Known(e.total),
            s.economics.qubit * e.total * e.runtime)

CostRatio(s, baseline, projected) == Or(Known(projected), <<projected, Shares(s, baseline.cost)>>)

ThresholdsOf(w, s, baseline, e, rounds) ==
    [maxErrorRate |-> MaxErrorRateForFeasibility(w, s),
     maxErrorRateWithinCapacity |-> MaxErrorRateWithinCapacity(w, s),
     maxCycleForTarget |-> MaxCycleForTarget(s, rounds),
     minThroughputForTarget |-> MinThroughputForTarget(s, e),
     capacityHeadroom |-> CapacityHeadroom(s, e),
     maxCycleToBeatClassical |->
        Or(ComparesRuntime(baseline, e, rounds), <<Shares(s, baseline.runtime), rounds>>),
     speedup |-> Or(ComparesRuntime(baseline, e, rounds), <<Shares(s, baseline.runtime), e.runtime>>),
     maxMachineCost |-> MaxMachineCost(s, baseline, e),
     breakEvenRuntime |-> BreakEvenRuntime(s, baseline, e),
     projectedCost |-> ProjectedCost(s, baseline, e),
     costRatio |-> CostRatio(s, baseline, ProjectedCost(s, baseline, e))]

ComputeAdvantageThresholds(w, s, baseline) ==
    LET Thresholds(e) == ThresholdsOf(w, s, baseline, e, RoundsPerRun(w, s, e))
    IN Thresholds(Evaluate(w, s))

\* A quotient with a zero below it is no finite number, and the schema of a
\* quantity throws: no bundle is built.
NotFinite(thresholds) ==
    \E ratio \in {thresholds.breakEvenRuntime, thresholds.costRatio} : Known(ratio) /\ ratio[2] = 0

-----------------------------------------------------------------------------
(* The six dimensions.                                                     *)

Scientific(w, e) ==
    IF w.unsupported > 0 /\ w.t = 0 /\ w.toffoli = 0 THEN "INSUFFICIENT_EVIDENCE"
    ELSE IF Known(e.code) THEN "NOT_SATISFIED" ELSE "SATISFIED"

ExceedsTarget(s, e) == Known(e.total) /\ Known(s.target) /\ Known(e.runtime) /\ e.runtime > Shares(s, s.target)

\* Variant: a target that is missed is left to the thresholds.
Engineering_NoTarget(s, e) ==
    IF ~e.feasible \/ ~Known(e.total) THEN "INSUFFICIENT_EVIDENCE" ELSE "SATISFIED"

Engineering(s, e) ==
    IF ~e.feasible \/ ~Known(e.total) THEN "INSUFFICIENT_EVIDENCE"
    ELSE IF ExceedsTarget(s, e) THEN "NOT_SATISFIED" ELSE "SATISFIED"

Hardware(s, e, thresholds) ==
    IF ~Known(s.capacity) \/ ~Known(e.total) THEN "INSUFFICIENT_EVIDENCE"
    ELSE IF Known(thresholds.capacityHeadroom) /\ AtLeast(thresholds.capacityHeadroom, 1) THEN "SATISFIED"
    ELSE "NOT_SATISFIED"

Faster(thresholds) == Known(thresholds.speedup) /\ Exceeds(thresholds.speedup, 1)
Cheaper(thresholds) == Known(thresholds.costRatio) /\ Below(thresholds.costRatio, 1)

ComparisonAvailable(s, baseline, thresholds) ==
    /\ HasBaseline(baseline)
    /\ Known(s.economics)
    /\ Known(thresholds.speedup) \/ Known(thresholds.costRatio)

Economic(s, baseline, thresholds) ==
    IF ~ComparisonAvailable(s, baseline, thresholds) THEN "INSUFFICIENT_EVIDENCE"
    ELSE IF (Known(thresholds.speedup) => Faster(thresholds)) /\ (Known(thresholds.costRatio) => Cheaper(thresholds))
         THEN "SATISFIED"
    ELSE "NOT_SATISFIED"

EvidenceGrade(w, s, baseline) ==
    LET claims == <<w.evidence = "DERIVED", s.basis = "OBSERVATION", s.confidence = "HIGH",
                    HasBaseline(baseline) /\ baseline.evidence = "MEASURED",
                    Known(s.economics) /\ s.economics.basis = "PUBLISHED_QUOTE">>
        score == Cardinality({i \in DOMAIN claims : claims[i]})
    IN IF score >= 4 THEN "HIGH" ELSE IF score >= 2 THEN "MEDIUM" ELSE "LOW"

Spreads(sensitivity) ==
    {<<Max(ToSet(sensitivity[p])), Min(ToSet(sensitivity[p]))>> :
        p \in {p \in DOMAIN sensitivity : Len(sensitivity[p]) >= 2}}

SensitivityGrade(sensitivity) ==
    LET spreads == Spreads(sensitivity)
    IN IF spreads = {} THEN "UNCHARACTERIZED"
       ELSE IF \E spread \in spreads : AtLeast(spread, 10) THEN "HIGH"
       ELSE IF \E spread \in spreads : AtLeast(spread, 2) THEN "MEDIUM"
       ELSE "LOW"

-----------------------------------------------------------------------------
(* The decision.                                                           *)

BindingConstraint(s, e, hardware) ==
    CASE e.code = "ABOVE_SURFACE_CODE_THRESHOLD" -> "PHYSICAL_ERROR_RATE"
      [] e.code = "NO_DISTANCE_MEETS_BUDGET" -> "CODE_DISTANCE_ERROR_BUDGET"
      [] ~Known(e.code) ->
            IF hardware = "NOT_SATISFIED" THEN "TOTAL_PHYSICAL_QUBIT_CAPACITY"
            ELSE IF e.limiter = "MAGIC_STATE_THROUGHPUT" THEN "MAGIC_STATE_THROUGHPUT"
            ELSE IF ExceedsTarget(s, e) THEN "CYCLE_TIME"
            ELSE IF Known(e.factory) /\ 2 * e.factory > e.total THEN "FACTORY_FOOTPRINT"
            ELSE "LOGICAL_QUBIT_CAPACITY"

TechnicalStatus(s, e, scientific, engineering, hardware) ==
    IF ~e.feasible THEN "INFEASIBLE_UNDER_ASSUMPTIONS"
    ELSE IF "INSUFFICIENT_EVIDENCE" \in {scientific, engineering} THEN "INSUFFICIENT_EVIDENCE"
    ELSE IF "NOT_SATISFIED" \in {hardware, engineering} THEN "CONDITIONALLY_FEASIBLE"
    ELSE IF ~Known(s.capacity) /\ ~Known(s.target) THEN "RESEARCH_ONLY"
    ELSE "TECHNICALLY_FEASIBLE"

\* The economic ladder stands on a sound technical result.
Status(s, baseline, thresholds, technical) ==
    IF /\ ComparisonAvailable(s, baseline, thresholds)
       /\ technical \in {"TECHNICALLY_FEASIBLE", "RESEARCH_ONLY"}
       /\ Faster(thresholds) \/ Cheaper(thresholds)
    THEN IF Faster(thresholds) /\ Cheaper(thresholds)
         THEN "ECONOMICALLY_COMPETITIVE_UNDER_ASSUMPTIONS" ELSE "POTENTIALLY_ECONOMIC"
    ELSE technical

\* The spreads the report warns of: the parameters that move the total this
\* many times.
SPREAD_LIMITS == [PHYSICAL_ERROR_RATE |-> 10, LOGICAL_ERROR_PREFACTOR |-> 2, LAYOUT_MODEL |-> 2]

UncertaintyWarnings(sensitivity) ==
    {p \in DOMAIN SPREAD_LIMITS :
        LET totals == ToSet(sensitivity[p])
        IN Len(sensitivity[p]) >= 2 /\ AtLeast(<<Max(totals), Min(totals)>>, SPREAD_LIMITS[p])}

\* What the report says it had not got.
MissingEvidence(w, s, baseline, e) ==
    {missing \in {"SYNTHESIS", "DISTILLATION", "CAPACITY", "OBSERVATION", "BASELINE", "COST_MODEL"} :
        CASE missing = "SYNTHESIS"    -> Scientific(w, e) = "INSUFFICIENT_EVIDENCE"
          [] missing = "DISTILLATION" -> e.feasible /\ ~Known(e.total)
          [] missing = "CAPACITY"     -> ~Known(s.capacity)
          [] missing = "OBSERVATION"  -> s.basis # "OBSERVATION"
          [] missing = "BASELINE"     -> ~HasBaseline(baseline)
          [] missing = "COST_MODEL"   -> HasBaseline(baseline) /\ ~Known(s.economics)}

\* Whatever is missing, and what binds; an observation if that is nothing.
RecommendedNextMeasurement(missing, binding, spreads) ==
    LET recommended ==
            (missing \ {"OBSERVATION"})
            \cup (IF binding = "MAGIC_STATE_THROUGHPUT" THEN {"FACTORY_THROUGHPUT"} ELSE {})
            \cup (IF binding = "PHYSICAL_ERROR_RATE" \/ "PHYSICAL_ERROR_RATE" \in spreads
                  THEN {"ERROR_RATE"} ELSE {})
    IN IF recommended = {} THEN {"OBSERVATION"} ELSE recommended

AssessDecision(w, s, baseline, estimate, thresholds) ==
    LET e == estimate.core
        scientific == Scientific(w, e)
        engineering == Engineering(s, e)
        hardware == Hardware(s, e, thresholds)
        technical == TechnicalStatus(s, e, scientific, engineering, hardware)
        binding == BindingConstraint(s, e, hardware)
        missing == MissingEvidence(w, s, baseline, e)
        spreads == UncertaintyWarnings(estimate.sensitivity)
    IN [status |-> Status(s, baseline, thresholds, technical),
        scientific |-> scientific, engineering |-> engineering, hardware |-> hardware,
        economic |-> Economic(s, baseline, thresholds),
        evidence |-> EvidenceGrade(w, s, baseline),
        sensitivity |-> SensitivityGrade(estimate.sensitivity),
        binding |-> binding, missing |-> missing, spreads |-> spreads,
        next |-> RecommendedNextMeasurement(missing, binding, spreads)]

=============================================================================
