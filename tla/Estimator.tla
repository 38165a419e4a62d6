----------------------------- MODULE Estimator -----------------------------
(***************************************************************************)
(* What one workload costs under one scenario                              *)
(* (src/src/intelligence/estimate.ts), on the surface-code and             *)
(* distillation arithmetic of src/src/engine.                              *)
(*                                                                         *)
(* An error rate is a power of two and is written as its exponent: a       *)
(* device of `rate` r has the physical error rate threshold / 2^r, a state *)
(* of quality q the error 2^-q. Times are surface-code rounds multiplied   *)
(* by an integer cycle time. What a scenario takes is counted in shares,   *)
(* one of which is a unit of time divided among its factories. Null is a   *)
(* number that was not computed.                                           *)
(***************************************************************************)
EXTENDS Integers, Sequences, FiniteSets, SequencesExt

CONSTANTS
    Null,
    MaxDistance     \* bound of the distance search, 201 in the code

ASSUME EstimatorAssumption ==
    /\ MaxDistance \in Nat /\ MaxDistance >= 3
    /\ Null \notin Int /\ Null \notin Int \X Int

THRESHOLD_QUALITY == 7          \* the 1% threshold, as a quality
MAX_DISTILLATION_LEVELS == 6
STATES_PER_BLOCK == 15

Known(value) == value # Null
Lesser(a, b) == IF a < b THEN a ELSE b
Greater(a, b) == IF a < b THEN b ELSE a

-----------------------------------------------------------------------------
(* Code distance.                                                          *)

LogicalCycles(w) == Greater(w.depth, 1)

\* What a code that suppresses nothing exceeds the budget by, over s.budget.
Demand(w, s) == 10 * s.prefactor * w.qubits * LogicalCycles(w)

\* How often that must be halved: the least n with Demand <= s.budget * 2^n. The
\* bound is beyond every circuit of the runs.
MOST_HALVINGS == 20

Halvings(w, s) ==
    LET demand == Demand(w, s)
    IN Cardinality({n \in 0 .. MOST_HALVINGS : s.budget * 2 ^ n < demand})

\* prefactor / 100 * 2^-(rate * (d+1)/2) <= budget / 1000 / (qubits * cycles)
MeetsBudget(s, needed, d) == s.rate * ((d + 1) \div 2) >= needed

AboveThreshold(s) == s.rate <= 0

Distances(w, s) ==
    LET needed == Halvings(w, s)
    IN {d \in 3 .. MaxDistance : d % 2 = 1 /\ MeetsBudget(s, needed, d)}

RequiredCodeDistance(w, s) ==
    LET distances == Distances(w, s)
    IN IF AboveThreshold(s) \/ distances = {} THEN Null ELSE Min(distances)

-----------------------------------------------------------------------------
(* Distillation: 35 p^3, one round of 15-to-1, is the quality 3q - 5.      *)

Improves(quality) == 3 * quality - 5 > quality

\* The quality after each of the rounds, and the first that is good enough.
Rounds(raw) ==
    LET quality[level \in 0 .. MAX_DISTILLATION_LEVELS] ==
            IF level = 0 THEN raw ELSE 3 * quality[level - 1] - 5
    IN quality

Distilled(raw, goal) ==
    LET enough == {level \in 0 .. MAX_DISTILLATION_LEVELS : Rounds(raw)[level] >= goal}
    IN IF enough = {} THEN [levels |-> MAX_DISTILLATION_LEVELS, reached |-> FALSE]
       ELSE [levels |-> Min(enough), reached |-> TRUE]

RequiredLevels(raw, goal) ==
    IF Improves(raw) THEN Distilled(raw, goal) ELSE [levels |-> 0, reached |-> raw >= goal]

-----------------------------------------------------------------------------
(* The evaluation.                                                         *)

CeilingOfRoot(m) == Cardinality({k \in 0 .. m : k * k < m})

OccupiedLogicalQubits(n, layout) ==
    IF layout = "BARE_REGISTER" THEN n ELSE 2 * n + CeilingOfRoot(8 * n) + 1

MagicStates(w, s) == w.t + s.toffoliCost * w.toffoli

Undetermined(w, s) == MagicStates(w, s) = 0 /\ w.unsupported > 0

\* Fault: a factory is charged to a circuit that consumes nothing.
NeedsFactory_Always(w, s) == s.protocol # "NONE"

NeedsFactory(w, s) == MagicStates(w, s) > 0 /\ s.protocol # "NONE"

PerPatch(d) == 2 * d * d

Shares(s, time) == s.parallel * time

\* Shares of a round until the factories have made every magic state.
FactoryRounds(w, s) == MagicStates(w, s) * s.rounds

Infeasible(w, s, code) ==
    [feasible |-> FALSE, code |-> code, distance |-> Null, occupied |-> OccupiedLogicalQubits(w.qubits, s.layout),
     magic |-> MagicStates(w, s), undetermined |-> Undetermined(w, s), levels |-> 0, reached |-> TRUE,
     factory |-> Null, total |-> Null, runtime |-> Null, limiter |-> "NOT_DETERMINED"]

Feasible(w, s, d) ==
    LET distillation ==
            IF Undetermined(w, s) THEN [levels |-> 0, reached |-> FALSE]
            ELSE IF NeedsFactory(w, s) THEN RequiredLevels(s.raw, s.goal)
            ELSE [levels |-> 0, reached |-> TRUE]
        factoryDistance == IF Known(s.factoryDistance) THEN s.factoryDistance ELSE d
        factory ==
            IF ~distillation.reached THEN Null
            ELSE distillation.levels * STATES_PER_BLOCK * PerPatch(factoryDistance)
                 * (IF NeedsFactory(w, s) THEN s.parallel ELSE 0)
        layoutAdjusted == PerPatch(d) * OccupiedLogicalQubits(w.qubits, s.layout)
        cycleLimited == Shares(s, LogicalCycles(w) * d) * s.cycle
        factoryLimited ==
            IF ~distillation.reached THEN Null
            ELSE IF NeedsFactory(w, s) THEN FactoryRounds(w, s) * s.cycle ELSE 0
    IN [feasible |-> TRUE, code |-> Null, distance |-> d, occupied |-> OccupiedLogicalQubits(w.qubits, s.layout),
        magic |-> MagicStates(w, s), undetermined |-> Undetermined(w, s),
        levels |-> distillation.levels, reached |-> distillation.reached, factory |-> factory,
        total |-> IF Known(factory) THEN layoutAdjusted + factory ELSE Null,
        runtime |-> IF Known(factoryLimited) THEN Greater(cycleLimited, factoryLimited) ELSE Null,
        limiter |->
            IF ~Known(factoryLimited) THEN "NOT_DETERMINED"
            ELSE IF factoryLimited > cycleLimited THEN "MAGIC_STATE_THROUGHPUT" ELSE "LOGICAL_CYCLES"]

Evaluate(w, s) ==
    LET d == RequiredCodeDistance(w, s)
    IN IF AboveThreshold(s) THEN Infeasible(w, s, "ABOVE_SURFACE_CODE_THRESHOLD")
       ELSE IF ~Known(d) THEN Infeasible(w, s, "NO_DISTANCE_MEETS_BUDGET")
       ELSE Feasible(w, s, d)

-----------------------------------------------------------------------------
(* Sensitivity: the scenario with one parameter moved. The totals of a     *)
(* parameter are what the decision reads.                                  *)

Varied(s) ==
    [PHYSICAL_ERROR_RATE |-> [i \in 1 .. 5 |-> [s EXCEPT !.rate = @ + 3 - i]],
     LOGICAL_ERROR_PREFACTOR |-> <<[s EXCEPT !.prefactor = 3], [s EXCEPT !.prefactor = 10]>>,
     LAYOUT_MODEL |-> <<[s EXCEPT !.layout = "BARE_REGISTER"], [s EXCEPT !.layout = "LATTICE_SURGERY_2D"]>>,
     CYCLE_TIME |-> [i \in 1 .. 5 |-> [s EXCEPT !.cycle = (@ * 2 ^ (i - 1)) \div 4]],
     ERROR_BUDGET |-> <<[s EXCEPT !.budget = @ \div 10], s, [s EXCEPT !.budget = Lesser(@ * 10, 999)]>>,
     RAW_MAGIC_STATE_ERROR |->
        SelectSeq(<<[s EXCEPT !.raw = @ + 3], s, [s EXCEPT !.raw = Greater(@ - 3, 0)]>>,
                  LAMBDA v : v.raw < s.goal)]

SensitivityFor(w, s) ==
    [parameter \in DOMAIN Varied(s) |->
        LET points == Varied(s)[parameter]
        IN SelectSeq([i \in DOMAIN points |-> Evaluate(w, points[i]).total], Known)]

\* What the report warns of beside its figures.
Warnings(w, s, e) ==
    {warning \in {"FACTORY_NOT_SIZED", "FACTORY_DOMINATES", "UNDERESTIMATE", "UNDETERMINED",
                  "NO_MAGIC_STATES", "ROADMAP", "DEMO"} :
        CASE warning = "FACTORY_NOT_SIZED" -> e.feasible /\ ~e.reached /\ e.magic > 0
          [] warning = "FACTORY_DOMINATES" -> Known(e.total) /\ 2 * e.factory > e.total
          [] warning = "UNDERESTIMATE"     -> w.unsupported > 0 /\ ~e.undetermined
          [] warning = "UNDETERMINED"      -> e.undetermined
          [] warning = "NO_MAGIC_STATES"   -> e.magic = 0 /\ ~e.undetermined
          [] warning = "ROADMAP"           -> s.basis = "ROADMAP"
          [] warning = "DEMO"              -> w.demo}

\* The figures as reported: what was not computed is unknown, and never zero.
Snapshot(e) == [e EXCEPT !.magic = IF e.undetermined THEN Null ELSE @,
                         !.levels = IF e.magic > 0 /\ ~e.reached THEN Null ELSE @]

EstimateForScenario(w, s) ==
    [core |-> Snapshot(Evaluate(w, s)), warnings |-> Warnings(w, s, Evaluate(w, s)),
     sensitivity |-> SensitivityFor(w, s)]

-----------------------------------------------------------------------------
(* The engine's own panel: engine/fault-tolerant.ts, which counts magic    *)
(* states and costs none, and engine/distillation.ts, which costs one      *)
(* factory. Each varies the assumptions by itself.                         *)

Footprint(w, s, patches) ==
    LET d == RequiredCodeDistance(w, s)
    IN IF Known(d) THEN PerPatch(d) * patches ELSE Null

SensitivityCurve(w, s) == [i \in 1 .. 5 |-> Footprint(w, [s EXCEPT !.rate = @ + 3 - i], w.qubits)]

ModelSensitivityCurve(w, s) ==
    [i \in 1 .. 2 |-> Footprint(w, [s EXCEPT !.prefactor = <<3, 10>>[i]], w.qubits)]

LayoutSensitivityCurve(w, s) ==
    [layout \in {"BARE_REGISTER", "LATTICE_SURGERY_2D"} |->
        Footprint(w, s, OccupiedLogicalQubits(w.qubits, layout))]

EstimateFaultTolerantResources(w, s) ==
    LET d == RequiredCodeDistance(w, s)
    IN [feasible |-> Known(d), distance |-> d,
        physical |-> Footprint(w, s, w.qubits),
        magic |-> w.t + 4 * w.toffoli,
        runtime |-> IF Known(d) THEN LogicalCycles(w) * d * s.cycle ELSE Null,
        sensitivity |-> SensitivityCurve(w, s),
        models |-> ModelSensitivityCurve(w, s),
        layouts |-> LayoutSensitivityCurve(w, s)]

EstimateFactoryCost(magic, qubits, raw, goal, factoryDistance, distance) ==
    LET plan == RequiredLevels(raw, goal)
        algorithm == qubits * PerPatch(distance)
        factory == IF magic > 0 THEN plan.levels * STATES_PER_BLOCK * PerPatch(factoryDistance) ELSE 0
    IN [reached |-> plan.reached, algorithm |-> algorithm, factory |-> factory,
        total |-> algorithm + factory]

=============================================================================
