-------------------------- MODULE IntelligenceProofs --------------------------
(***************************************************************************)
(* Intelligence for every document, options, changes and bound: what       *)
(* IntelligenceInv says holds in every reachable state; with it `verify`   *)
(* sees every edit, the status a reader may rely on is what the inputs of  *)
(* the file support, the engine's panel and the estimate agree, and so do  *)
(* the thresholds.  All but the first need what an evaluation computes,    *)
(* which comes down to the least of a set of distances and of a set of     *)
(* levels; the bisection's threshold also needs that a lower error rate    *)
(* never takes a larger machine.                                           *)
(***************************************************************************)
EXTENDS Intelligence, SequenceTheorems, FiniteSetTheorems, WellFoundedInduction, TLAPS

-----------------------------------------------------------------------------
(* The invariant: the inputs stay legal.                                   *)

\* A preset is a legal scenario, whatever options it is given.
LEMMA PresetsAreLegal ==
    ASSUME NEW options \in PresetOptions, NEW shape \in {PRESET_SHAPES[1], PRESET_SHAPES[2], PRESET_SHAPES[3]}
    PROVE  LegalScenario(PresetScenario(shape, options))
<1>1. options \in [capacity : Positive \cup {Null}, target : Positive \cup {Null}, layout : Layouts, economics : Economies]
  BY DocumentAssumption
<1>2. shape.name \in Presets /\ shape.rate \in 0 .. 7 /\ shape.cycle \in Positive /\ shape.confidence \in Confidences
  <2>1. /\ PRESET_SHAPES[1] = Shape("CONSERVATIVE", 2, 20, "MEDIUM")
        /\ PRESET_SHAPES[2] = Shape("BASE", 3, 20, "MEDIUM")
        /\ PRESET_SHAPES[3] = Shape("OPTIMISTIC", 7, 4, "LOW")
    BY DEF PRESET_SHAPES
  <2>2. CASE shape = Shape("CONSERVATIVE", 2, 20, "MEDIUM")
    BY <2>2 DEF Shape, Presets, Confidences, Positive
  <2>3. CASE shape = Shape("BASE", 3, 20, "MEDIUM")
    BY <2>3 DEF Shape, Presets, Confidences, Positive
  <2>4. CASE shape = Shape("OPTIMISTIC", 7, 4, "LOW")
    BY <2>4 DEF Shape, Presets, Confidences, Positive
  <2> QED
    BY <2>1, <2>2, <2>3, <2>4
<1> DEFINE s == PresetScenario(shape, options)
<1>3. DOMAIN s = DOMAIN LegalValue
  BY DEF LegalValue, PresetScenario
<1>4. ASSUME NEW field \in DOMAIN s PROVE s[field] \in LegalValue[field]
  <2>1. /\ options.capacity \in Positive \cup {Null} /\ options.target \in Positive \cup {Null}
        /\ options.layout \in Layouts /\ options.economics \in Economies
    BY <1>1
  <2>2. field \in {"preset", "revision", "supersedes", "rate", "cycle", "basis", "confidence", "capacity",
                   "prefactor", "layout", "protocol", "raw", "goal", "factoryDistance", "parallel", "rounds",
                   "toffoliCost", "budget", "target", "economics"}
    BY <1>4 DEF PresetScenario
  <2>3. CASE field \in {"preset", "revision", "supersedes", "rate", "cycle", "basis", "confidence"}
    BY <1>2, <2>3 DEF LegalValue, PresetScenario, Presets, HardwareBases, Positive, THRESHOLD_QUALITY
  <2>4. CASE field \in {"capacity", "layout", "target", "economics"}
    BY <2>1, <2>4 DEF LegalValue, PresetScenario
  <2>5. CASE field \in {"prefactor", "protocol", "raw", "goal", "factoryDistance", "parallel", "rounds",
                        "toffoliCost", "budget"}
    BY <1>2, <2>5 DEF LegalValue, PresetScenario, Positive, THRESHOLD_QUALITY
  <2> QED
    BY <2>2, <2>3, <2>4, <2>5
<1>5. s.raw < s.goal /\ s.revision = 1 /\ ~Known(s.supersedes)
  BY <1>2 DEF PresetScenario, THRESHOLD_QUALITY, Known
<1> QED
  BY <1>3, <1>4, <1>5 DEF LegalScenario

\* So is each scenario of a resolved document: its presets in their order.
LEMMA ResolvedIsLegal ==
    ASSUME NEW options \in PresetOptions, NEW wanted, NEW i \in DOMAIN ResolveAssessment(options, wanted)
    PROVE  LegalScenario(ResolveAssessment(options, wanted)[i])
<1> DEFINE S == {PresetScenario(PRESET_SHAPES[k], options) : k \in 1 .. 3}
           Preset(k) ==
              IF PRESET_SHAPES[k].name \in wanted THEN <<PresetScenario(PRESET_SHAPES[k], options)>> ELSE <<>>
<1>1. \A s \in S : LegalScenario(s)
  BY PresetsAreLegal
<1>2. Preset(1) \in Seq(S) /\ Preset(2) \in Seq(S) /\ Preset(3) \in Seq(S)
  <2>1. \A k \in 1 .. 3 : PresetScenario(PRESET_SHAPES[k], options) \in S
    OBVIOUS
  <2> HIDE DEF S
  <2> QED
    BY <2>1
<1>3. ResolveAssessment(options, wanted) = Preset(1) \o Preset(2) \o Preset(3)
  BY DEF ResolveAssessment
<1> HIDE DEF S, Preset
<1>4. ResolveAssessment(options, wanted) \in Seq(S)
  BY <1>2, <1>3, ConcatProperties
<1> QED
  BY <1>1, <1>4

\* A built bundle carries the inputs it was built from, under their hash.
LEMMA BundleInputs ==
    ASSUME NEW w, NEW b, NEW ss
    PROVE  /\ BuildBundle(w, b, ss).hash = BuildBundle(w, b, ss).content
           /\ DOMAIN BuildBundle(w, b, ss).content =
                 {"workload", "baseline", "scenarios", "estimates", "thresholds",
                  "assessments", "rows", "comparable", "demo"}
           /\ BuildBundle(w, b, ss).content.workload = w
           /\ BuildBundle(w, b, ss).content.baseline = b
           /\ BuildBundle(w, b, ss).content.scenarios = ss
BY DEF BuildBundle, Bundle, Sealed

\* For each scenario it holds its estimate, its thresholds and the decision
\* drawn from both.
LEMMA BundleResults ==
    ASSUME NEW w, NEW b, NEW ss, NEW i \in DOMAIN ss
    PROVE  LET content == BuildBundle(w, b, ss).content
               estimate == EstimateForScenario(w, ss[i])
               thresholds == ComputeAdvantageThresholds(w, ss[i], b)
           IN /\ content.estimates[i] = estimate
              /\ content.thresholds[i] = thresholds
              /\ content.assessments[i] = AssessDecision(w, ss[i], b, estimate, thresholds)
BY DEF BuildBundle, Bundle, Sealed, Assessments

\* The documents a run may begin with satisfy the invariant.
LEMMA InitInv == Init => IntelligenceInv
<1> SUFFICES ASSUME Init PROVE IntelligenceInv
  OBVIOUS
<1>1. workload \in LegalWorkloads /\ baseline \in LegalBaselines
  BY DocumentAssumption DEF Init
<1>2. \A i \in DOMAIN scenarios : LegalScenario(scenarios[i])
  BY ResolvedIsLegal DEF Init
<1>3. ~Known(file) /\ ~Known(verdict)
  BY DEF Init, Known
<1> QED
  BY <1>1, <1>2, <1>3 DEF IntelligenceInv, LegalInputs

\* Every command, every edit and every revision preserves it.
LEMMA NextInv == IntelligenceInv /\ [Next]_vars => IntelligenceInv'
<1> SUFFICES ASSUME IntelligenceInv, [Next]_vars PROVE IntelligenceInv'
  OBVIOUS
<1>1. ASSUME NEW i \in DOMAIN scenarios, NEW change \in Changes, Revise(i, change) PROVE IntelligenceInv'
  <2>1. \A j \in DOMAIN scenarios' : LegalScenario(scenarios'[j])
    BY <1>1 DEF IntelligenceInv, LegalInputs, Revise
  <2>2. LegalInputs(workload, baseline, scenarios)'
    BY <1>1, <2>1 DEF IntelligenceInv, LegalInputs, Revise
  <2>3. ~Known(file') /\ ~Known(verdict')
    BY <1>1 DEF IntelligenceInv, Revise, Known
  <2> QED
    BY <2>2, <2>3 DEF IntelligenceInv
<1>2. CASE Report
  <2>1. UNCHANGED <<workload, baseline, scenarios, verdict>> /\ ~Known(file) /\ ~Known(verdict)
    BY <1>2 DEF Report, IntelligenceInv, Known
  <2>2. Known(file') => file' = BuildBundle(workload, baseline, scenarios) /\ written' = file'
    BY <1>2, <2>1 DEF Report, Write
  <2> QED
    BY <2>1, <2>2 DEF IntelligenceInv
<1>3. CASE Edit
  <2>1. UNCHANGED <<workload, baseline, scenarios, written>> /\ Known(file) /\ ~Known(verdict')
    BY <1>3 DEF Edit, Known
  <2> QED
    BY <2>1 DEF IntelligenceInv
<1>4. CASE Verify
  BY <1>4 DEF Verify, IntelligenceInv
<1>5. CASE UNCHANGED vars
  BY <1>5 DEF IntelligenceInv, vars
<1> QED
  BY <1>1, <1>2, <1>3, <1>4, <1>5 DEF Next

\* In every state the document is legal, `report` wrote what its inputs give,
\* and the verdict is the one `verify` gives of the file as it is.
THEOREM IntelligenceInvariance == Spec => []IntelligenceInv
BY InitInv, NextInv, PTL DEF Spec

-----------------------------------------------------------------------------
(* What `verify` sees.                                                     *)

\* A file that passes holds legal inputs, and their numbers and decisions.
LEMMA VerifiedResults ==
    ASSUME NEW bundle, Verifies(bundle)
    PROVE  LET rebuilt == BuildBundle(bundle.content.workload, bundle.content.baseline, bundle.content.scenarios)
           IN /\ LegalInputs(bundle.content.workload, bundle.content.baseline, bundle.content.scenarios)
              /\ rebuilt.hash = bundle.hash
              /\ \A part \in Results : rebuilt.content[part] = bundle.content[part]
BY DEF Verifies, Results

\* EditsAreSeen holds in every state that satisfies the invariant: the hash is
\* taken over the whole content and what passes is rebuilt from its inputs.
THEOREM EditsSeen == Spec => []EditsAreSeen
<1> SUFFICES ASSUME IntelligenceInv, Known(verdict) PROVE EditsAreSeen
  BY IntelligenceInvariance, PTL DEF EditsAreSeen
<1> DEFINE content == file.content
           rebuilt == BuildBundle(content.workload, content.baseline, content.scenarios)
<1>1. /\ verdict = IF Verifies(file) THEN 0 ELSE 1
      /\ written = BuildBundle(workload, baseline, scenarios)
  BY DEF IntelligenceInv
<1>2. ASSUME file = written PROVE verdict = 0
  <2>1. content.workload = workload /\ content.baseline = baseline /\ content.scenarios = scenarios
    BY <1>1, <1>2, BundleInputs
  <2>2. rebuilt = file
    BY <1>1, <1>2, <2>1
  <2>3. Verifies(file)
    BY <2>1, <2>2 DEF Verifies, IntelligenceInv
  <2> QED
    BY <1>1, <2>3
<1>3. ASSUME verdict = 0 PROVE rebuilt.hash = file.hash /\ \A part \in Results : rebuilt.content[part] = content[part]
  BY <1>1, <1>3, VerifiedResults
<1>4. ASSUME verdict = 0, file.hash = written.hash PROVE Same(Inputs \cup Results)
  <2>1. rebuilt.content = written.content
    BY <1>1, <1>3, <1>4, BundleInputs
  <2>2. Same(Results)
    BY <1>3, <1>4, <2>1 DEF Same
  <2>3. /\ rebuilt.content.workload = content.workload
        /\ rebuilt.content.baseline = content.baseline
        /\ rebuilt.content.scenarios = content.scenarios
    BY BundleInputs
  <2>4. Same(Inputs)
    BY <2>1, <2>3 DEF Same, Inputs
  <2> QED
    BY <2>2, <2>4 DEF Same
<1>5. ASSUME verdict = 0, Same(Inputs) PROVE Same(Results)
  <2>1. content.workload = workload /\ content.baseline = baseline /\ content.scenarios = scenarios
    BY <1>1, <1>5, BundleInputs DEF Same, Inputs
  <2>2. rebuilt = written
    BY <1>1, <2>1
  <2> QED
    BY <1>3, <1>5, <2>2 DEF Same
<1> QED
  BY <1>2, <1>4, <1>5 DEF EditsAreSeen

-----------------------------------------------------------------------------
(* What an evaluation computes.                                            *)

\* Any set of naturals that is not empty has a least member: its intervals from
\* zero, ordered by inclusion, have a least one.
LEMMA LeastExists == ASSUME NEW T, T \subseteq Nat, T # {}
  PROVE \E x \in T : \A y \in T : x <= y
<1> DEFINE F == {0 .. x : x \in T}
           R == StrictSubsetOrdering(Nat)
<1>1. F \subseteq FiniteSubsetsOf(Nat) /\ F # {}
  <2>1. \A x \in T : IsFiniteSet(0 .. x) /\ 0 .. x \subseteq Nat
    BY FS_Interval
  <2> QED
    BY <2>1 DEF FiniteSubsetsOf
<1>2. PICK m \in F : \A z \in F : ~ (<<z, m>> \in R)
  <2>1. IsWellFoundedOn(R, FiniteSubsetsOf(Nat))
    BY FS_StrictSubsetOrderingWellFounded
  <2> HIDE DEF F, R
  <2> QED
    BY <1>1, <2>1, WFMin
<1>3. PICK x \in T : m = 0 .. x
  BY <1>2
<1>4. ASSUME NEW y \in T, y < x PROVE FALSE
  <2>1. 0 .. y \subseteq 0 .. x /\ 0 .. y # 0 .. x /\ 0 .. y \in F
    BY <1>4
  <2>2. <<0 .. y, 0 .. x>> \in R
    BY <2>1 DEF StrictSubsetOrdering
  <2> QED
    BY <1>2, <1>3, <2>1, <2>2
<1> QED
  BY <1>4

\* The minimum of such a set is that member.
LEMMA MinIsLeast == ASSUME NEW T, T \subseteq Nat, T # {}
  PROVE Min(T) \in T /\ \A y \in T : Min(T) <= y
BY LeastExists DEF Min

\* The arithmetic of naturals that the estimates use.
LEMMA Naturals ==
    /\ \A a, b \in Nat : a * b \in Nat /\ a + b \in Nat
    /\ \A a, b \in Nat : Lesser(a, b) \in Nat /\ Greater(a, b) \in Nat
    /\ \A a \in Nat, b \in Nat \ {0} : a \div b \in Nat
<1>1. \A a, b \in Nat : a * b \in Nat /\ a + b \in Nat
  OBVIOUS
<1>2. \A a, b \in Nat : Lesser(a, b) \in Nat /\ Greater(a, b) \in Nat
  BY DEF Lesser, Greater
<1>3. \A a \in Nat, b \in Nat \ {0} : a \div b \in Nat
  OBVIOUS
<1> QED
  BY <1>1, <1>2, <1>3

\* A distance that was found is a number.
LEMMA DistanceIsNumber ==
    ASSUME NEW w, NEW s
    PROVE  RequiredCodeDistance(w, s) \in Nat \cup {Null}
<1>1. Distances(w, s) \subseteq Nat
  BY EstimatorAssumption DEF Distances
<1> QED
  BY <1>1, MinIsLeast DEF RequiredCodeDistance

\* A distillation plan has so many levels, and says whether it is good enough.
LEMMA LevelsAreNumbers ==
    ASSUME NEW raw, NEW goal
    PROVE  RequiredLevels(raw, goal).levels \in Nat /\ RequiredLevels(raw, goal).reached \in BOOLEAN
<1> DEFINE enough == {level \in 0 .. MAX_DISTILLATION_LEVELS : Rounds(raw)[level] >= goal}
<1>1. enough \subseteq Nat
  BY DEF MAX_DISTILLATION_LEVELS
<1>2. enough # {} => Min(enough) \in Nat
  <2> HIDE DEF enough
  <2> QED
    BY <1>1, MinIsLeast
<1>3. Distilled(raw, goal) = IF enough = {} THEN [levels |-> MAX_DISTILLATION_LEVELS, reached |-> FALSE]
                             ELSE [levels |-> Min(enough), reached |-> TRUE]
  BY DEF Distilled
<1> HIDE DEF enough
<1>4. Distilled(raw, goal).levels \in Nat /\ Distilled(raw, goal).reached \in BOOLEAN
  BY <1>2, <1>3 DEF MAX_DISTILLATION_LEVELS
<1>5. (raw >= goal) \in BOOLEAN
  OBVIOUS
<1> QED
  BY <1>4, <1>5 DEF RequiredLevels

\* A layout occupies a number of logical qubits.
LEMMA OccupiedIsNumber ==
    ASSUME NEW n \in Nat, NEW layout
    PROVE  OccupiedLogicalQubits(n, layout) \in Nat
<1> DEFINE S == {k \in 0 .. 8 * n : k * k < 8 * n}
<1>1. IsFiniteSet(0 .. 8 * n)
  BY FS_Interval
<1>2. S \subseteq 0 .. 8 * n
  OBVIOUS
<1>3. Cardinality(S) \in Nat
  <2> HIDE DEF S
  <2> QED
    BY <1>1, <1>2, FS_Subset, FS_CardinalityType
<1> QED
  BY <1>3 DEF OccupiedLogicalQubits, CeilingOfRoot

\* What an evaluation says: an infeasible one has no figures; a feasible one has
\* its figures exactly if its factories are sized, and they are numbers.
Evaluated(w, s, e) ==
    /\ e.undetermined <=> Undetermined(w, s)
    /\ e.magic = MagicStates(w, s)
    /\ ~e.feasible => ~Known(e.distance) /\ ~Known(e.total) /\ ~Known(e.runtime)
    /\ e.feasible =>
          /\ Known(e.distance)
          /\ e.reached => e.total \in Nat /\ e.runtime \in Nat
          /\ ~e.reached => ~Known(e.total) /\ ~Known(e.runtime)
          /\ e.undetermined => ~e.reached
          /\ e.magic = 0 /\ ~e.undetermined => e.factory = 0

\* The fields of a legal scenario that the evaluation reads.
LEMMA LegalFields ==
    ASSUME NEW s, LegalScenario(s)
    PROVE  /\ s.cycle \in Nat /\ s.rounds \in Nat /\ s.toffoliCost \in Nat /\ s.parallel \in Nat \ {0}
           /\ s.factoryDistance \in Nat \cup {Null}
           /\ s.capacity \in Nat \cup {Null} /\ s.target \in Nat \cup {Null}
           /\ s.economics \in Economies
<1>1. \A field \in DOMAIN LegalValue : s[field] \in LegalValue[field]
  BY DEF LegalScenario
<1>2. {"cycle", "rounds", "toffoliCost", "parallel", "factoryDistance", "capacity", "target", "economics"}
        \subseteq DOMAIN LegalValue
  BY DEF LegalValue
<1>3. /\ LegalValue["cycle"] = Positive /\ LegalValue["rounds"] = Positive
      /\ LegalValue["toffoliCost"] = Positive /\ LegalValue["parallel"] = Positive
      /\ LegalValue["factoryDistance"] = {Null} \cup {d \in Nat : d >= 3 /\ d % 2 = 1}
      /\ LegalValue["capacity"] = Positive \cup {Null} /\ LegalValue["target"] = Positive \cup {Null}
      /\ LegalValue["economics"] = Economies
  BY DEF LegalValue
<1> QED
  BY <1>1, <1>2, <1>3 DEF Positive

\* A time is as whole in shares, and a multiple of it as many.
LEMMA SharesAreNumbers ==
    ASSUME NEW s, LegalScenario(s), NEW time \in Nat
    PROVE  /\ Shares(s, time) \in Nat
           /\ \A n \in Nat : Shares(s, time) * n = Shares(s, time * n)
<1>1. s.parallel \in Nat
  BY LegalFields
<1>2. \A a, b, c \in Nat : a * b * c = a * (b * c)
  OBVIOUS
<1> QED
  BY <1>1, <1>2, Naturals DEF Shares

\* A feasible evaluation, figure by figure.
LEMMA FeasibleIsEvaluated ==
    ASSUME NEW w \in LegalWorkloads, NEW s, LegalScenario(s), NEW d \in Nat
    PROVE  Feasible(w, s, d).feasible /\ Evaluated(w, s, Feasible(w, s, d))
<1> DEFINE distillation ==
              IF Undetermined(w, s) THEN [levels |-> 0, reached |-> FALSE]
              ELSE IF NeedsFactory(w, s) THEN RequiredLevels(s.raw, s.goal)
              ELSE [levels |-> 0, reached |-> TRUE]
           patches == IF Known(s.factoryDistance) THEN s.factoryDistance ELSE d
           factories == IF NeedsFactory(w, s) THEN s.parallel ELSE 0
           sized == distillation.levels * STATES_PER_BLOCK * PerPatch(patches) * factories
           layoutAdjusted == PerPatch(d) * OccupiedLogicalQubits(w.qubits, s.layout)
           cycleLimited == Shares(s, LogicalCycles(w) * d) * s.cycle
           factoryLimited == IF NeedsFactory(w, s) THEN FactoryRounds(w, s) * s.cycle ELSE 0
           e == Feasible(w, s, d)
<1>1. /\ e.feasible = TRUE
      /\ e.distance = d
      /\ e.magic = MagicStates(w, s)
      /\ e.undetermined = Undetermined(w, s)
      /\ e.reached = distillation.reached
      /\ e.factory = IF ~distillation.reached THEN Null ELSE sized
  BY Zenon DEF Feasible
<1>2. ~distillation.reached => e.total = Null /\ e.runtime = Null
  BY DEF Feasible, Known
<1>3. distillation.levels \in Nat /\ distillation.reached \in BOOLEAN
  BY LevelsAreNumbers
<1>4. PerPatch(d) \in Nat /\ PerPatch(patches) \in Nat
  BY LegalFields, Naturals DEF PerPatch, Known
<1>5. factories \in Nat /\ w.qubits \in Nat /\ w.t \in Nat /\ w.toffoli \in Nat /\ w.depth \in Nat
  BY LegalFields DEF LegalWorkloads, Positive
<1>6. sized \in Nat
  <2>1. distillation.levels * STATES_PER_BLOCK \in Nat
    BY <1>3, Naturals DEF STATES_PER_BLOCK
  <2> HIDE DEF distillation, patches, factories
  <2> QED
    BY <1>4, <1>5, <2>1, Naturals
<1>7. layoutAdjusted \in Nat
  BY <1>4, <1>5, OccupiedIsNumber, Naturals
<1>8. cycleLimited \in Nat
  <2>1. LogicalCycles(w) \in Nat
    BY <1>5, Naturals DEF LogicalCycles
  <2>2. Shares(s, LogicalCycles(w) * d) \in Nat
    BY <2>1, SharesAreNumbers, Naturals
  <2> QED
    BY <2>2, LegalFields, Naturals
<1>9. factoryLimited \in Nat
  <2>1. MagicStates(w, s) \in Nat
    BY <1>5, LegalFields, Naturals DEF MagicStates
  <2>2. FactoryRounds(w, s) \in Nat
    BY <2>1, LegalFields, Naturals DEF FactoryRounds
  <2> QED
    BY <2>2, LegalFields, Naturals
<1>10. Undetermined(w, s) => ~distillation.reached
  OBVIOUS
<1>11. MagicStates(w, s) = 0 /\ ~Undetermined(w, s) => distillation.reached /\ sized = 0
  <2>1. MagicStates(w, s) = 0 => ~NeedsFactory(w, s)
    BY DEF NeedsFactory
  <2>2. ASSUME MagicStates(w, s) = 0, ~Undetermined(w, s) PROVE distillation.reached /\ factories = 0
    BY <2>1, <2>2
  <2>3. distillation.levels * STATES_PER_BLOCK * PerPatch(patches) \in Nat
    <3>1. distillation.levels * STATES_PER_BLOCK \in Nat
      BY <1>3, Naturals DEF STATES_PER_BLOCK
    <3> HIDE DEF distillation, patches, factories
    <3> QED
      BY <1>4, <3>1, Naturals
  <2> HIDE DEF distillation, patches, factories
  <2> QED
    BY <2>2, <2>3
<1>12. distillation.reached =>
         /\ e.total = layoutAdjusted + sized
         /\ e.runtime = Greater(cycleLimited, factoryLimited)
  <2>1. sized # Null /\ factoryLimited # Null
    BY <1>6, <1>9, EstimatorAssumption
  <2> HIDE DEF layoutAdjusted, cycleLimited
  <2> QED
    BY <2>1, Zenon DEF Feasible, Known, layoutAdjusted, cycleLimited
<1> HIDE DEF distillation, patches, factories, sized, layoutAdjusted, cycleLimited, factoryLimited, e
<1>13. distillation.reached => e.total \in Nat /\ e.runtime \in Nat
  BY <1>6, <1>7, <1>8, <1>9, <1>12, Naturals
<1>14. Known(e.distance)
  BY <1>1, EstimatorAssumption DEF Known
<1>15. Evaluated(w, s, e)
  BY <1>1, <1>2, <1>10, <1>11, <1>13, <1>14 DEF Evaluated, Known
<1> QED
  BY <1>1, <1>15 DEF e

\* Every evaluation of legal inputs is as Evaluated says.
LEMMA EvaluateIsEvaluated ==
    ASSUME NEW w \in LegalWorkloads, NEW s, LegalScenario(s)
    PROVE  Evaluated(w, s, Evaluate(w, s))
<1>1. ASSUME NEW code PROVE Evaluated(w, s, Infeasible(w, s, code))
  BY Zenon DEF Infeasible, Evaluated, Known
<1>2. ASSUME Known(RequiredCodeDistance(w, s))
      PROVE  Evaluated(w, s, Feasible(w, s, RequiredCodeDistance(w, s)))
  BY <1>2, DistanceIsNumber, FeasibleIsEvaluated DEF Known
<1> QED
  BY <1>1, <1>2, Zenon DEF Evaluate

-----------------------------------------------------------------------------
(* What a decision says.                                                   *)

\* What the decision takes from an estimate is what was evaluated.
LEMMA SnapshotKeeps ==
    ASSUME NEW w, NEW s
    PROVE  LET e == Evaluate(w, s)
               core == Snapshot(e)
           IN /\ core.feasible = e.feasible
              /\ core.code = e.code
              /\ core.total = e.total
              /\ core.runtime = e.runtime
              /\ core.limiter = e.limiter
              /\ core.factory = e.factory
<1>1. ASSUME NEW e, DOMAIN e = {"feasible", "code", "distance", "occupied", "magic", "undetermined", "levels",
                                "reached", "factory", "total", "runtime", "limiter"}
      PROVE  /\ Snapshot(e).feasible = e.feasible
             /\ Snapshot(e).code = e.code
             /\ Snapshot(e).total = e.total
             /\ Snapshot(e).runtime = e.runtime
             /\ Snapshot(e).limiter = e.limiter
             /\ Snapshot(e).factory = e.factory
  BY <1>1 DEF Snapshot
<1>2. DOMAIN Evaluate(w, s) = {"feasible", "code", "distance", "occupied", "magic", "undetermined", "levels",
                               "reached", "factory", "total", "runtime", "limiter"}
  BY DEF Evaluate, Infeasible, Feasible
<1> QED
  BY <1>1, <1>2

\* The technical part of a status: with the evaluation's figures in hand it is
\* earned.
LEMMA TechnicalIsEarned ==
    ASSUME NEW w \in LegalWorkloads, NEW s, LegalScenario(s), NEW e, Evaluated(w, s, e), NEW thresholds,
           thresholds.capacityHeadroom = CapacityHeadroom(s, e)
    PROVE  LET technical ==
                  TechnicalStatus(s, e, Scientific(w, e), Engineering(s, e), Hardware(s, e, thresholds))
           IN /\ technical = "INFEASIBLE_UNDER_ASSUMPTIONS" <=> ~Known(e.distance)
              /\ technical = "INSUFFICIENT_EVIDENCE" <=> ~Known(e.total) /\ Known(e.distance)
              /\ technical = "CONDITIONALLY_FEASIBLE" <=> Known(e.total) /\ ~(Fits(s, e) /\ OnTime(s, e))
              /\ technical \in {"TECHNICALLY_FEASIBLE", "RESEARCH_ONLY"} <=>
                    Known(e.total) /\ Fits(s, e) /\ OnTime(s, e)
              /\ technical = "TECHNICALLY_FEASIBLE" => Known(s.capacity) \/ Known(s.target)
              /\ technical \in {"INFEASIBLE_UNDER_ASSUMPTIONS", "INSUFFICIENT_EVIDENCE", "CONDITIONALLY_FEASIBLE",
                                "TECHNICALLY_FEASIBLE", "RESEARCH_ONLY"}
<1> DEFINE scientific == Scientific(w, e)
           engineering == Engineering(s, e)
           hardware == Hardware(s, e, thresholds)
           technical == TechnicalStatus(s, e, scientific, engineering, hardware)
<1>1. e.feasible /\ scientific = "INSUFFICIENT_EVIDENCE" => ~Known(e.total)
  <2>1. ASSUME scientific = "INSUFFICIENT_EVIDENCE" PROVE Undetermined(w, s)
    <3>1. w.unsupported > 0 /\ w.t = 0 /\ w.toffoli = 0
      BY <2>1 DEF Scientific
    <3>2. MagicStates(w, s) = 0
      BY <3>1, LegalFields DEF MagicStates
    <3> QED
      BY <3>1, <3>2 DEF Undetermined
  <2> QED
    BY <2>1 DEF Evaluated
<1>2. e.feasible /\ Known(e.total) => e.total \in Nat /\ e.runtime \in Nat /\ Known(e.runtime)
  BY EstimatorAssumption DEF Evaluated, Known
<1>3. ASSUME e.feasible, Known(e.total)
      PROVE  /\ engineering = IF OnTime(s, e) THEN "SATISFIED" ELSE "NOT_SATISFIED"
             /\ hardware = "NOT_SATISFIED" <=> ~Fits(s, e)
  <2>1. engineering = IF OnTime(s, e) THEN "SATISFIED" ELSE "NOT_SATISFIED"
    <3>1. Known(s.target) => Shares(s, s.target) \in Nat
      BY LegalFields, SharesAreNumbers DEF Known
    <3> QED
      BY <1>2, <1>3, <3>1 DEF Engineering, ExceedsTarget, OnTime, Known
  <2>2. ASSUME Known(s.capacity)
        PROVE  Known(thresholds.capacityHeadroom) /\ (AtLeast(thresholds.capacityHeadroom, 1) <=> e.total <= s.capacity)
    <3>1. s.capacity \in Int /\ e.total \in Int
      BY <1>2, <1>3, <2>2, LegalFields DEF Known
    <3>2. thresholds.capacityHeadroom = <<s.capacity, e.total>>
      BY <1>3, <2>2 DEF CapacityHeadroom, Or
    <3> QED
      BY <3>1, <3>2, EstimatorAssumption DEF AtLeast, Known
  <2>3. hardware = "NOT_SATISFIED" <=> ~Fits(s, e)
    BY <1>3, <2>2 DEF Hardware, Fits
  <2> QED
    BY <2>1, <2>3
<1>4. CASE ~e.feasible
  BY <1>4 DEF Evaluated, TechnicalStatus
<1>5. CASE e.feasible /\ ~Known(e.total)
  <2>1. engineering = "INSUFFICIENT_EVIDENCE" /\ Known(e.distance)
    BY <1>5 DEF Engineering, Evaluated
  <2> QED
    BY <1>5, <2>1 DEF TechnicalStatus
<1>6. CASE e.feasible /\ Known(e.total)
  <2>1. scientific # "INSUFFICIENT_EVIDENCE" /\ Known(e.distance)
    BY <1>1, <1>6 DEF Evaluated
  <2> HIDE DEF scientific, engineering, hardware
  <2>2. technical = IF ~(Fits(s, e) /\ OnTime(s, e)) THEN "CONDITIONALLY_FEASIBLE"
                    ELSE IF ~Known(s.capacity) /\ ~Known(s.target) THEN "RESEARCH_ONLY"
                    ELSE "TECHNICALLY_FEASIBLE"
    BY <1>3, <1>6, <2>1 DEF TechnicalStatus
  <2> QED
    BY <1>6, <2>1, <2>2 DEF scientific, engineering, hardware
<1> QED
  BY <1>4, <1>5, <1>6

\* A speed-up above one means the run is shorter than the classical one.
LEMMA FasterIsTrue ==
    ASSUME NEW b \in LegalBaselines, NEW s, LegalScenario(s), NEW e, Known(e.runtime) => e.runtime \in Nat,
           NEW rounds, NEW thresholds,
           thresholds.speedup = Or(ComparesRuntime(b, e, rounds), <<Shares(s, b.runtime), e.runtime>>),
           Faster(thresholds)
    PROVE  QuantumIsFaster(b, s, e)
<1>1. ComparesRuntime(b, e, rounds)
  BY DEF Faster, Or, Known
<1>2. thresholds.speedup = <<Shares(s, b.runtime), e.runtime>>
  BY <1>1 DEF Or
<1>3. b.runtime \in Nat \cup {Null} /\ b.cost \in Nat \cup {Null}
  BY <1>1 DEF LegalBaselines, Positive, ComparesRuntime, HasRuntime, HasBaseline, Known
<1>4. b.runtime \in Nat /\ e.runtime \in Nat
  BY <1>1, <1>3 DEF ComparesRuntime, HasRuntime, Known
<1>5. Shares(s, b.runtime) > 1 * e.runtime
  BY <1>2 DEF Faster, Exceeds
<1>6. Shares(s, b.runtime) \in Nat
  BY <1>4, SharesAreNumbers
<1> QED
  BY <1>1, <1>4, <1>5, <1>6 DEF QuantumIsFaster, ComparesRuntime

\* A cost ratio below one means the run is cheaper than the classical one at
\* the price the scenario states.
LEMMA CheaperIsTrue ==
    ASSUME NEW b \in LegalBaselines, NEW s, LegalScenario(s), NEW e,
           Known(e.runtime) => e.runtime \in Nat,
           Known(e.total) => e.total \in Nat,
           NEW thresholds,
           thresholds.costRatio = CostRatio(s, b, ProjectedCost(s, b, e)),
           Cheaper(thresholds)
    PROVE  QuantumIsCheaper(b, s, e)
<1> DEFINE projected == ProjectedCost(s, b, e)
<1>1. Known(projected) /\ thresholds.costRatio = <<projected, Shares(s, b.cost)>>
  BY DEF Cheaper, CostRatio, Or, Known
<1>2. Priced(s, b, e)
  BY <1>1 DEF ProjectedCost, Hourly, Or, Known
<1>3. b.runtime \in Nat \cup {Null} /\ b.cost \in Nat \cup {Null}
  BY <1>2 DEF LegalBaselines, Positive, Priced, HasCost, HasBaseline, Known
<1>4. Shares(s, b.cost) \in Nat /\ e.runtime \in Nat
  BY <1>2, <1>3, SharesAreNumbers DEF Priced, HasCost, Known
<1>5. s.economics.machine \in Nat \cup {Null} /\ s.economics.qubit \in Nat \cup {Null}
  BY <1>2, LegalFields DEF Priced, Economies, Known
<1>6. projected < 1 * Shares(s, b.cost)
  BY <1>1 DEF Cheaper, Below
<1>7. CASE Known(s.economics.machine)
  <2>1. projected = s.economics.machine * e.runtime
    BY <1>2, <1>7 DEF ProjectedCost, Hourly
  <2>2. s.economics.machine \in Nat
    BY <1>5, <1>7 DEF Known
  <2>3. e.runtime * s.economics.machine < Shares(s, b.cost)
    <3>1. ASSUME NEW m \in Nat, NEW r \in Nat, NEW c \in Nat, m * r < 1 * c PROVE r * m < c
      BY <3>1
    <3> QED
      BY <1>4, <1>6, <2>1, <2>2, <3>1
  <2> QED
    BY <1>2, <1>7, <2>3 DEF QuantumIsCheaper, Priced
<1>8. CASE ~Known(s.economics.machine)
  <2>1. Known(s.economics.qubit) /\ Known(e.total) /\ projected = s.economics.qubit * e.total * e.runtime
    BY <1>1, <1>2, <1>8 DEF ProjectedCost, Hourly, Or, Known
  <2>2. s.economics.qubit \in Nat /\ e.total \in Nat
    BY <1>5, <2>1 DEF Known
  <2>3. e.runtime * (s.economics.qubit * e.total) < Shares(s, b.cost)
    <3>1. ASSUME NEW m \in Nat, NEW r \in Nat, NEW c \in Nat, m * r < 1 * c PROVE r * m < c
      BY <3>1
    <3>2. s.economics.qubit * e.total \in Nat
      BY <2>2, Naturals
    <3> QED
      BY <1>4, <1>6, <2>1, <3>1, <3>2
  <2> QED
    BY <1>2, <1>8, <2>3 DEF QuantumIsCheaper, Priced
<1> QED
  BY <1>7, <1>8

\* The decision on legal inputs is earned, and says what is missing.
LEMMA DecisionIsEarned ==
    ASSUME NEW w \in LegalWorkloads, NEW b \in LegalBaselines, NEW s, LegalScenario(s)
    PROVE  LET e == Evaluate(w, s)
               estimate == EstimateForScenario(w, s)
               assessment == AssessDecision(w, s, b, estimate, ComputeAdvantageThresholds(w, s, b))
           IN Earned(assessment.status, b, s, e) /\ Explained(assessment, estimate.warnings, e)
<1> DEFINE e == Evaluate(w, s)
           core == Snapshot(e)
           estimate == EstimateForScenario(w, s)
           thresholds == ComputeAdvantageThresholds(w, s, b)
           rounds == RoundsPerRun(w, s, e)
           assessment == AssessDecision(w, s, b, estimate, thresholds)
           scientific == Scientific(w, e)
           technical == TechnicalStatus(s, e, scientific, Engineering(s, e), Hardware(s, e, thresholds))
<1>1. Evaluated(w, s, e)
  BY EvaluateIsEvaluated
<1>2. /\ thresholds.capacityHeadroom = CapacityHeadroom(s, e)
      /\ thresholds.speedup = Or(ComparesRuntime(b, e, rounds), <<Shares(s, b.runtime), e.runtime>>)
      /\ thresholds.costRatio = CostRatio(s, b, ProjectedCost(s, b, e))
  BY DEF ComputeAdvantageThresholds, ThresholdsOf
<1>3. estimate.core = core /\ estimate.warnings = Warnings(w, s, e)
  BY DEF EstimateForScenario
<1> HIDE DEF thresholds, estimate
<1>4. /\ assessment.status = Status(s, b, thresholds, technical)
      /\ MissingEvidence(w, s, b, e) = assessment.missing
      /\ assessment.missing \ {"OBSERVATION"} \subseteq assessment.next
  <2>1. /\ Scientific(w, core) = scientific
        /\ Engineering(s, core) = Engineering(s, e)
        /\ Hardware(s, core, thresholds) = Hardware(s, e, thresholds)
        /\ MissingEvidence(w, s, b, core) = MissingEvidence(w, s, b, e)
    BY SnapshotKeeps DEF Scientific, Engineering, ExceedsTarget, Hardware, MissingEvidence
  <2>2. TechnicalStatus(s, core, Scientific(w, core), Engineering(s, core), Hardware(s, core, thresholds)) = technical
    BY <2>1, SnapshotKeeps DEF TechnicalStatus
  <2>3. /\ assessment.status = Status(s, b, thresholds, technical)
        /\ assessment.missing = MissingEvidence(w, s, b, e)
    BY <1>3, <2>1, <2>2 DEF AssessDecision
  <2>4. \E binding, spreads : assessment.next = RecommendedNextMeasurement(assessment.missing, binding, spreads)
    BY DEF AssessDecision
  <2>5. ASSUME NEW missing, NEW binding, NEW spreads
        PROVE  missing \ {"OBSERVATION"} \subseteq RecommendedNextMeasurement(missing, binding, spreads)
    BY DEF RecommendedNextMeasurement
  <2> QED
    BY <2>3, <2>4, <2>5
<1>5. /\ Known(e.runtime) => e.runtime \in Nat
      /\ Known(e.total) => e.total \in Nat
  BY <1>1 DEF Evaluated, Known
<1>6. Faster(thresholds) => QuantumIsFaster(b, s, e)
  <2> HIDE DEF e, rounds
  <2> QED
    BY <1>2, <1>5, FasterIsTrue
<1>7. Cheaper(thresholds) => QuantumIsCheaper(b, s, e)
  <2> HIDE DEF e
  <2> QED
    BY <1>2, <1>5, CheaperIsTrue
<1> DEFINE status == assessment.status
           economic == {"POTENTIALLY_ECONOMIC", "ECONOMICALLY_COMPETITIVE_UNDER_ASSUMPTIONS"}
<1> HIDE DEF assessment, e
<1>8. /\ technical = "INFEASIBLE_UNDER_ASSUMPTIONS" <=> ~Known(e.distance)
      /\ technical = "INSUFFICIENT_EVIDENCE" <=> ~Known(e.total) /\ Known(e.distance)
      /\ technical = "CONDITIONALLY_FEASIBLE" <=> Known(e.total) /\ ~(Fits(s, e) /\ OnTime(s, e))
      /\ technical = "TECHNICALLY_FEASIBLE" => Known(s.capacity) \/ Known(s.target)
      /\ technical \in {"INFEASIBLE_UNDER_ASSUMPTIONS", "INSUFFICIENT_EVIDENCE", "CONDITIONALLY_FEASIBLE",
                        "TECHNICALLY_FEASIBLE", "RESEARCH_ONLY"}
  BY <1>1, <1>2, TechnicalIsEarned
<1> HIDE DEF technical
<1>9. /\ status # technical =>
            status \in economic /\ technical \in {"TECHNICALLY_FEASIBLE", "RESEARCH_ONLY"}
      /\ status \in economic => Known(s.economics) /\ (Faster(thresholds) \/ Cheaper(thresholds))
      /\ status = "ECONOMICALLY_COMPETITIVE_UNDER_ASSUMPTIONS" => Faster(thresholds) /\ Cheaper(thresholds)
  BY <1>4, <1>8 DEF Status, ComparisonAvailable
<1>10. Earned(status, b, s, e)
  BY <1>6, <1>7, <1>8, <1>9 DEF Earned
<1>11. status = "INSUFFICIENT_EVIDENCE" =>
         assessment.missing \cap {"SYNTHESIS", "DISTILLATION"} \cap assessment.next # {}
  <2>1. ASSUME status = "INSUFFICIENT_EVIDENCE" PROVE ~Known(e.total) /\ e.feasible
    BY <1>1, <1>8, <1>9, <2>1 DEF Evaluated
  <2>2. e.feasible /\ ~Known(e.total) => "DISTILLATION" \in MissingEvidence(w, s, b, e)
    BY DEF MissingEvidence
  <2> QED
    BY <1>4, <2>1, <2>2
<1>12. estimate.warnings \cap {"FACTORY_NOT_SIZED", "UNDETERMINED"} # {} =>
         status \in {"INSUFFICIENT_EVIDENCE", "INFEASIBLE_UNDER_ASSUMPTIONS"}
  <2>1. "FACTORY_NOT_SIZED" \in estimate.warnings => e.feasible /\ ~e.reached
    BY <1>3 DEF Warnings
  <2>2. "UNDETERMINED" \in estimate.warnings => e.undetermined
    BY <1>3 DEF Warnings
  <2>3. e.feasible /\ ~e.reached => ~Known(e.total) /\ Known(e.distance)
    BY <1>1 DEF Evaluated
  <2>4. e.undetermined => ~e.feasible \/ ~e.reached
    BY <1>1 DEF Evaluated
  <2>5. ~e.feasible => ~Known(e.distance)
    BY <1>1 DEF Evaluated
  <2> QED
    BY <1>8, <1>9, <2>1, <2>2, <2>3, <2>4, <2>5
<1>13. "NO_MAGIC_STATES" \in estimate.warnings /\ e.feasible => e.factory = 0
  <2>1. "NO_MAGIC_STATES" \in estimate.warnings => e.magic = 0 /\ ~e.undetermined
    BY <1>3 DEF Warnings
  <2> QED
    BY <1>1, <2>1 DEF Evaluated
<1>14. Explained(assessment, estimate.warnings, e)
  BY <1>11, <1>12, <1>13 DEF Explained
<1> QED
  BY <1>10, <1>14 DEF assessment, e, estimate, thresholds

\* A file a reader may rely on holds legal inputs, and what they give.
LEMMA TrustedResults ==
    ASSUME IntelligenceInv, Trusted
    PROVE  LET content == file.content
               rebuilt == BuildBundle(content.workload, content.baseline, content.scenarios).content
           IN /\ LegalInputs(content.workload, content.baseline, content.scenarios)
              /\ \A part \in Results : content[part] = rebuilt[part]
<1> DEFINE content == file.content
<1>1. CASE file = written
  <2>1. written = BuildBundle(workload, baseline, scenarios)
    BY DEF IntelligenceInv, Trusted
  <2>2. content.workload = workload /\ content.baseline = baseline /\ content.scenarios = scenarios
    BY <1>1, <2>1, BundleInputs
  <2> QED
    BY <1>1, <2>1, <2>2 DEF IntelligenceInv
<1>2. CASE verdict = 0
  <2>1. Known(verdict)
    BY <1>2, EstimatorAssumption DEF Known
  <2>2. Verifies(file)
    BY <1>2, <2>1 DEF IntelligenceInv
  <2> QED
    BY <2>2, VerifiedResults
<1> QED
  BY <1>1, <1>2 DEF Trusted

\* StatusIsEarned holds in every state that satisfies the invariant: what was
\* written, and what passed, are the decisions on the inputs in the file.
THEOREM StatusEarned == Spec => []StatusIsEarned
<1> DEFINE content == file.content
           rebuilt == BuildBundle(content.workload, content.baseline, content.scenarios).content
<1>1. ASSUME IntelligenceInv, Trusted
      PROVE  /\ LegalInputs(content.workload, content.baseline, content.scenarios)
             /\ \A part \in Results : content[part] = rebuilt[part]
  BY <1>1, TrustedResults
<1>2. ASSUME IntelligenceInv, Trusted, NEW i \in DOMAIN content.scenarios
      PROVE  LET s == content.scenarios[i]
                 assessment == content.assessments[i]
                 e == Evaluate(content.workload, s)
             IN /\ Earned(assessment.status, content.baseline, s, e)
                /\ Explained(assessment, content.estimates[i].warnings, e)
  <2> DEFINE s == content.scenarios[i]
             estimate == EstimateForScenario(content.workload, s)
             thresholds == ComputeAdvantageThresholds(content.workload, s, content.baseline)
  <2>1. content.assessments = rebuilt.assessments /\ content.estimates = rebuilt.estimates
    BY <1>1, <1>2 DEF Results
  <2>2. /\ content.assessments[i] = AssessDecision(content.workload, s, content.baseline, estimate, thresholds)
        /\ content.estimates[i] = estimate
    BY <2>1, BundleResults
  <2>3. content.workload \in LegalWorkloads /\ content.baseline \in LegalBaselines /\ LegalScenario(s)
    BY <1>1, <1>2 DEF LegalInputs
  <2> QED
    BY <2>2, <2>3, DecisionIsEarned
<1>3. IntelligenceInv => StatusIsEarned
  BY <1>2 DEF StatusIsEarned
<1> QED
  BY <1>3, IntelligenceInvariance, PTL

-----------------------------------------------------------------------------
(* The engine's own panels.                                                *)

\* Equal sequences have the same known members.
LEMMA KnownOfEquals ==
    ASSUME NEW left, NEW right, left = right
    PROVE  SelectSeq(left, Known) = SelectSeq(right, Known)
OBVIOUS

\* A bare register that distils nothing takes its patches, at any distance.
LEMMA BareTotal ==
    ASSUME NEW w \in LegalWorkloads, NEW s, s.layout = "BARE_REGISTER",
           s.factoryDistance \in Nat \cup {Null}, MagicStates(w, s) = 0, ~Undetermined(w, s)
    PROVE  Evaluate(w, s).total = Footprint(w, s, w.qubits)
<1> DEFINE d == RequiredCodeDistance(w, s)
           patches == IF Known(s.factoryDistance) THEN s.factoryDistance ELSE d
<1>1. ~Known(d) => Evaluate(w, s).total = Null
  BY Zenon DEF Evaluate, Infeasible
<1>2. AboveThreshold(s) => ~Known(d)
  BY DEF RequiredCodeDistance, Known
<1>3. ASSUME Known(d) PROVE Feasible(w, s, d).total = PerPatch(d) * w.qubits
  <2>1. d \in Nat /\ patches \in Nat
    BY <1>3, DistanceIsNumber DEF Known
  <2>2. PerPatch(d) \in Nat /\ PerPatch(patches) \in Nat
    BY <2>1, Naturals DEF PerPatch
  <2>3. w.qubits \in Nat
    BY DEF LegalWorkloads, Positive
  <2>4. 0 * STATES_PER_BLOCK * PerPatch(patches) * 0 = 0
    BY <2>2 DEF STATES_PER_BLOCK
  <2>5. ~NeedsFactory(w, s)
    BY DEF NeedsFactory
  <2>6. OccupiedLogicalQubits(w.qubits, s.layout) = w.qubits
    BY DEF OccupiedLogicalQubits
  <2>7. Known(0)
    BY EstimatorAssumption DEF Known
  <2>8. Feasible(w, s, d).total = PerPatch(d) * w.qubits + 0
    <3> HIDE DEF d
    <3> QED
      BY <2>4, <2>5, <2>6, <2>7, Zenon DEF Feasible, patches
  <2>9. PerPatch(d) * w.qubits \in Nat
    BY <2>2, <2>3, Naturals
  <2>10. \A x \in Nat : x + 0 = x
    OBVIOUS
  <2> QED
    BY <2>8, <2>9, <2>10
<1>4. Known(d) => Evaluate(w, s) = Feasible(w, s, d)
  BY <1>2 DEF Evaluate
<1> QED
  BY <1>1, <1>3, <1>4 DEF Footprint, Known

\* With a curve's parameter moved the register stays bare and distils nothing,
\* so that the estimate's totals are the panel's footprints.
LEMMA CurvesOfBareRegister ==
    ASSUME NEW w \in LegalWorkloads, NEW s, LegalScenario(s), s.layout = "BARE_REGISTER",
           MagicStates(w, s) = 0, ~Undetermined(w, s)
    PROVE  CurvesAgree(SensitivityFor(w, s), EstimateFaultTolerantResources(w, s))
<1> DEFINE Rate(i) == [s EXCEPT !.rate = @ + 3 - i]
           Prefactor(i) == [s EXCEPT !.prefactor = <<3, 10>>[i]]
<1>1. ASSUME NEW v, \E x : v = [s EXCEPT !.rate = x] \/ v = [s EXCEPT !.prefactor = x]
      PROVE  Evaluate(w, v).total = Footprint(w, v, w.qubits)
  <2>1. DOMAIN s = DOMAIN LegalValue
    BY DEF LegalScenario
  <2>2. /\ v.layout = s.layout /\ v.factoryDistance = s.factoryDistance
        /\ v.toffoliCost = s.toffoliCost
    BY <1>1, <2>1 DEF LegalValue
  <2>3. MagicStates(w, v) = 0 /\ ~Undetermined(w, v)
    BY <2>2 DEF MagicStates, Undetermined
  <2> QED
    BY <2>2, <2>3, BareTotal, LegalFields
<1>2. [i \in DOMAIN [j \in 1 .. 5 |-> Rate(j)] |-> Evaluate(w, [j \in 1 .. 5 |-> Rate(j)][i]).total]
        = SensitivityCurve(w, s)
  <2>1. \A i \in 1 .. 5 : Evaluate(w, Rate(i)).total = Footprint(w, Rate(i), w.qubits)
    BY <1>1
  <2> QED
    BY <2>1, Zenon DEF SensitivityCurve
<1>3. [i \in DOMAIN <<[s EXCEPT !.prefactor = 3], [s EXCEPT !.prefactor = 10]>> |->
          Evaluate(w, <<[s EXCEPT !.prefactor = 3], [s EXCEPT !.prefactor = 10]>>[i]).total]
        = ModelSensitivityCurve(w, s)
  <2>1. \A i \in 1 .. 2 : Evaluate(w, Prefactor(i)).total = Footprint(w, Prefactor(i), w.qubits)
    BY <1>1
  <2> DEFINE points == <<[s EXCEPT !.prefactor = 3], [s EXCEPT !.prefactor = 10]>>
  <2>2. DOMAIN points = 1 .. 2 /\ \A i \in 1 .. 2 : points[i] = Prefactor(i)
    OBVIOUS
  <2>3. ModelSensitivityCurve(w, s) = [i \in 1 .. 2 |-> Footprint(w, Prefactor(i), w.qubits)]
    BY Zenon DEF ModelSensitivityCurve
  <2> HIDE DEF points, Prefactor
  <2>4. [i \in DOMAIN points |-> Evaluate(w, points[i]).total] = ModelSensitivityCurve(w, s)
    BY <2>1, <2>2, <2>3
  <2> QED
    BY <2>4 DEF points
<1>4. SensitivityFor(w, s).PHYSICAL_ERROR_RATE
        = SelectSeq([i \in DOMAIN [j \in 1 .. 5 |-> Rate(j)] |-> Evaluate(w, [j \in 1 .. 5 |-> Rate(j)][i]).total], Known)
  BY DEF SensitivityFor, Varied
<1>5. SensitivityFor(w, s).LOGICAL_ERROR_PREFACTOR
        = SelectSeq([i \in DOMAIN <<[s EXCEPT !.prefactor = 3], [s EXCEPT !.prefactor = 10]>> |->
              Evaluate(w, <<[s EXCEPT !.prefactor = 3], [s EXCEPT !.prefactor = 10]>>[i]).total], Known)
  BY DEF SensitivityFor, Varied
<1>6. /\ EstimateFaultTolerantResources(w, s).sensitivity = SensitivityCurve(w, s)
      /\ EstimateFaultTolerantResources(w, s).models = ModelSensitivityCurve(w, s)
  BY DEF EstimateFaultTolerantResources
<1> QED
  BY <1>2, <1>3, <1>4, <1>5, <1>6, KnownOfEquals DEF CurvesAgree

\* A feasible estimate whose factories are sized: its patches by layout, its
\* factories, and a runtime of its cycles that they may lengthen.
LEMMA FeasibleFigures ==
    ASSUME NEW w \in LegalWorkloads, NEW s, LegalScenario(s), NEW d \in Nat
    PROVE  LET e == Feasible(w, s, d)
               plan == RequiredLevels(s.raw, s.goal)
               patches == IF Known(s.factoryDistance) THEN s.factoryDistance ELSE d
               cycles == Shares(s, LogicalCycles(w) * d) * s.cycle
           IN /\ Known(e.total) => e.total = PerPatch(d) * OccupiedLogicalQubits(w.qubits, s.layout) + e.factory
              /\ Known(e.runtime) => e.runtime >= cycles
              /\ e.limiter = "LOGICAL_CYCLES" => e.runtime = cycles
              /\ Known(e.runtime) =>
                    /\ e.reached
                    /\ e.runtime = Greater(cycles, IF NeedsFactory(w, s) THEN FactoryRounds(w, s) * s.cycle ELSE 0)
              /\ ~Undetermined(w, s) /\ NeedsFactory(w, s) /\ plan.reached =>
                    e.factory = plan.levels * STATES_PER_BLOCK * PerPatch(patches) * s.parallel
              /\ ~Undetermined(w, s) /\ ~NeedsFactory(w, s) => e.factory = 0
<1> DEFINE e == Feasible(w, s, d)
           plan == RequiredLevels(s.raw, s.goal)
           patches == IF Known(s.factoryDistance) THEN s.factoryDistance ELSE d
           distillation ==
              IF Undetermined(w, s) THEN [levels |-> 0, reached |-> FALSE]
              ELSE IF NeedsFactory(w, s) THEN plan
              ELSE [levels |-> 0, reached |-> TRUE]
           factories == IF NeedsFactory(w, s) THEN s.parallel ELSE 0
           sized == distillation.levels * STATES_PER_BLOCK * PerPatch(patches) * factories
           cycles == Shares(s, LogicalCycles(w) * d) * s.cycle
           made == IF ~distillation.reached THEN Null
                   ELSE IF NeedsFactory(w, s) THEN FactoryRounds(w, s) * s.cycle ELSE 0
<1>1. e.factory = IF ~distillation.reached THEN Null ELSE sized
  BY Zenon DEF Feasible
<1>2. /\ e.total = IF Known(e.factory)
                   THEN PerPatch(d) * OccupiedLogicalQubits(w.qubits, s.layout) + e.factory ELSE Null
      /\ e.runtime = IF Known(made) THEN Greater(cycles, made) ELSE Null
      /\ e.limiter = IF ~Known(made) THEN "NOT_DETERMINED"
                     ELSE IF made > cycles THEN "MAGIC_STATE_THROUGHPUT" ELSE "LOGICAL_CYCLES"
  BY Zenon DEF Feasible
<1>3. cycles \in Nat /\ (Known(made) => made \in Nat)
  <2>1. w.t \in Nat /\ w.toffoli \in Nat /\ w.depth \in Nat
    BY DEF LegalWorkloads
  <2>2. LogicalCycles(w) \in Nat
    BY <2>1, Naturals DEF LogicalCycles
  <2>3. MagicStates(w, s) \in Nat
    BY <2>1, LegalFields, Naturals DEF MagicStates
  <2>4. FactoryRounds(w, s) \in Nat
    BY <2>3, LegalFields, Naturals DEF FactoryRounds
  <2>6. Shares(s, LogicalCycles(w) * d) \in Nat
    BY <2>2, SharesAreNumbers, Naturals
  <2>5. FactoryRounds(w, s) * s.cycle \in Nat
    BY <2>4, LegalFields, Naturals
  <2> QED
    BY <2>5, <2>6, LegalFields, Naturals DEF Known
<1>4. distillation.levels \in Nat
  BY LevelsAreNumbers
<1>5. PerPatch(patches) \in Nat
  BY LegalFields, Naturals DEF PerPatch, Known
<1>6. ~NeedsFactory(w, s) => sized = 0
  <2>1. distillation.levels * STATES_PER_BLOCK \in Nat
    BY <1>4, Naturals DEF STATES_PER_BLOCK
  <2>2. distillation.levels * STATES_PER_BLOCK * PerPatch(patches) \in Nat
    <3> HIDE DEF distillation, patches
    <3> QED
      BY <1>5, <2>1, Naturals
  <2> HIDE DEF distillation, patches
  <2> QED
    BY <2>2
<1> HIDE DEF sized, made, cycles
<1>7. /\ Known(e.runtime) => e.runtime >= cycles
      /\ e.limiter = "LOGICAL_CYCLES" => e.runtime = cycles
  <2>1. "LOGICAL_CYCLES" # "NOT_DETERMINED" /\ "LOGICAL_CYCLES" # "MAGIC_STATE_THROUGHPUT"
    OBVIOUS
  <2> HIDE DEF e
  <2> QED
    BY <1>2, <1>3, <2>1 DEF Greater, Known
<1>8. Known(e.total) => e.total = PerPatch(d) * OccupiedLogicalQubits(w.qubits, s.layout) + e.factory
  BY <1>2, Zenon DEF Known
<1>9. ~Undetermined(w, s) /\ ~NeedsFactory(w, s) => e.factory = 0
  <2> HIDE DEF e
  <2> QED
    BY <1>1, <1>6
<1>10. ASSUME ~Undetermined(w, s), NeedsFactory(w, s), plan.reached
       PROVE  e.factory = plan.levels * STATES_PER_BLOCK * PerPatch(patches) * s.parallel
  <2> HIDE DEF e, plan, patches
  <2> QED
    BY <1>1, <1>10, Zenon DEF sized
<1>11. Known(e.runtime) =>
          /\ e.reached
          /\ e.runtime = Greater(cycles, IF NeedsFactory(w, s) THEN FactoryRounds(w, s) * s.cycle ELSE 0)
  <2>1. e.reached = distillation.reached
    BY Zenon DEF Feasible
  <2> HIDE DEF e, distillation
  <2> QED
    BY <1>2, <2>1, Zenon DEF Known, made
<1> QED
  BY <1>7, <1>8, <1>9, <1>10, <1>11 DEF cycles

\* The panel prices one factory for the magic states in the estimate, which
\* has so many of them in parallel.
LEMMA CostsOfFeasible ==
    ASSUME NEW w \in LegalWorkloads, NEW s, LegalScenario(s), Known(RequiredCodeDistance(w, s))
    PROVE  CostsAgree(w, s, Snapshot(Feasible(w, s, RequiredCodeDistance(w, s))), EstimateFaultTolerantResources(w, s))
<1> DEFINE d == RequiredCodeDistance(w, s)
           e == Feasible(w, s, d)
           core == Snapshot(e)
           panel == EstimateFaultTolerantResources(w, s)
           patches == IF Known(s.factoryDistance) THEN s.factoryDistance ELSE d
           cost == PanelFactory(w, s, core)
           plan == RequiredLevels(s.raw, s.goal)
<1>1. d \in Nat
  BY DistanceIsNumber DEF Known
<1>2. /\ core.total = e.total /\ core.runtime = e.runtime /\ core.limiter = e.limiter
      /\ core.factory = e.factory /\ core.distance = d /\ core.undetermined = Undetermined(w, s)
      /\ ~core.undetermined => core.magic = MagicStates(w, s)
  <2>1. ASSUME NEW x, DOMAIN x = {"feasible", "code", "distance", "occupied", "magic", "undetermined", "levels",
                                  "reached", "factory", "total", "runtime", "limiter"}
        PROVE  /\ Snapshot(x).total = x.total /\ Snapshot(x).runtime = x.runtime
               /\ Snapshot(x).limiter = x.limiter /\ Snapshot(x).factory = x.factory
               /\ Snapshot(x).distance = x.distance /\ Snapshot(x).undetermined = x.undetermined
               /\ ~x.undetermined => Snapshot(x).magic = x.magic
    BY <2>1 DEF Snapshot
  <2>2. DOMAIN e = {"feasible", "code", "distance", "occupied", "magic", "undetermined", "levels",
                    "reached", "factory", "total", "runtime", "limiter"}
    BY DEF Feasible
  <2>3. e.distance = d /\ e.undetermined = Undetermined(w, s) /\ e.magic = MagicStates(w, s)
    BY Zenon DEF Feasible
  <2> HIDE DEF e
  <2> QED
    BY <2>1, <2>2, <2>3
<1>3. s.layout \in Layouts
  <2>1. "layout" \in DOMAIN LegalValue /\ LegalValue["layout"] = Layouts
    BY DEF LegalValue
  <2> QED
    BY <2>1 DEF LegalScenario
<1>4. /\ panel.layouts[s.layout] = PerPatch(d) * OccupiedLogicalQubits(w.qubits, s.layout)
      /\ panel.runtime = LogicalCycles(w) * d * s.cycle
  <2>1. panel.layouts = LayoutSensitivityCurve(w, s)
    BY DEF EstimateFaultTolerantResources
  <2>2. LayoutSensitivityCurve(w, s)[s.layout] = Footprint(w, s, OccupiedLogicalQubits(w.qubits, s.layout))
    BY <1>3 DEF LayoutSensitivityCurve, Layouts
  <2>3. panel.runtime = LogicalCycles(w) * d * s.cycle
    BY DEF EstimateFaultTolerantResources
  <2> QED
    BY <2>1, <2>2, <2>3 DEF Footprint
<1>5. /\ Known(e.total) => e.total = PerPatch(d) * OccupiedLogicalQubits(w.qubits, s.layout) + e.factory
      /\ Known(e.runtime) => e.runtime >= Shares(s, LogicalCycles(w) * d) * s.cycle
      /\ e.limiter = "LOGICAL_CYCLES" => e.runtime = Shares(s, LogicalCycles(w) * d) * s.cycle
      /\ ~Undetermined(w, s) /\ NeedsFactory(w, s) /\ plan.reached =>
            e.factory = plan.levels * STATES_PER_BLOCK * PerPatch(patches) * s.parallel
      /\ ~Undetermined(w, s) /\ ~NeedsFactory(w, s) => e.factory = 0
  BY <1>1, FeasibleFigures
<1>8. Shares(s, LogicalCycles(w) * d) * s.cycle = Shares(s, panel.runtime)
  <2>1. LogicalCycles(w) * d \in Nat
    BY <1>1, Naturals DEF LogicalCycles, LegalWorkloads
  <2> HIDE DEF panel, d
  <2>2. \A x \in Nat : Shares(s, x) * s.cycle = Shares(s, x * s.cycle)
    BY LegalFields, SharesAreNumbers
  <2> QED
    BY <1>4, <2>1, <2>2, Zenon
<1> HIDE DEF e, d, panel
<1>6. ASSUME ~core.undetermined
      PROVE  /\ cost.reached = plan.reached
             /\ cost.factory = IF MagicStates(w, s) > 0
                               THEN plan.levels * STATES_PER_BLOCK * PerPatch(patches) ELSE 0
  BY <1>2, <1>6 DEF PanelFactory, EstimateFactoryCost
<1>7. ASSUME ~core.undetermined, SameFactory(s, core), cost.reached
      PROVE  core.factory = s.parallel * cost.factory
  <2>1. s.parallel \in Nat /\ plan.levels \in Nat /\ PerPatch(patches) \in Nat
    BY <1>1, LegalFields, LevelsAreNumbers, Naturals DEF PerPatch, Known
  <2>2. plan.levels * STATES_PER_BLOCK * PerPatch(patches) \in Nat
    <3>1. plan.levels * STATES_PER_BLOCK \in Nat
      BY <2>1, Naturals DEF STATES_PER_BLOCK
    <3> HIDE DEF plan, patches
    <3> QED
      BY <2>1, <3>1, Naturals
  <2>3. \A x, y \in Nat : x * y = y * x /\ x * 0 = 0
    OBVIOUS
  <2>4. MagicStates(w, s) \in Nat
    BY LegalFields, Naturals DEF LegalWorkloads, MagicStates
  <2> HIDE DEF plan, patches, cost, core
  <2>5. CASE MagicStates(w, s) = 0
    BY <1>2, <1>5, <1>6, <1>7, <2>1, <2>3, <2>5 DEF NeedsFactory
  <2>6. CASE MagicStates(w, s) > 0
    <3>1. NeedsFactory(w, s)
      BY <1>2, <1>7, <2>6 DEF SameFactory, NeedsFactory
    <3> QED
      BY <1>2, <1>5, <1>6, <1>7, <2>1, <2>2, <2>3, <2>6, <3>1
  <2> QED
    BY <2>4, <2>5, <2>6
<1> QED
  BY <1>2, <1>4, <1>5, <1>7, <1>8 DEF CostsAgree, d, e, panel

\* The panels agree with the estimate of any legal workload and scenario.
LEMMA PanelsOfEstimate ==
    ASSUME NEW w \in LegalWorkloads, NEW s, LegalScenario(s)
    PROVE  LET e == Snapshot(Evaluate(w, s))
               panel == EstimateFaultTolerantResources(w, s)
           IN /\ panel.feasible = e.feasible
              /\ panel.distance = e.distance
              /\ ~e.undetermined /\ s.toffoliCost = 4 => panel.magic = e.magic
              /\ e.feasible => CostsAgree(w, s, e, panel)
              /\ s.layout = "BARE_REGISTER" /\ e.magic = 0 /\ ~e.undetermined =>
                    CurvesAgree(SensitivityFor(w, s), panel)
<1> DEFINE d == RequiredCodeDistance(w, s)
           x == Evaluate(w, s)
           e == Snapshot(x)
           panel == EstimateFaultTolerantResources(w, s)
<1>1. \/ x = Feasible(w, s, d) /\ Known(d)
      \/ ~Known(d) /\ \E code : x = Infeasible(w, s, code)
  <2>1. AboveThreshold(s) => ~Known(d)
    BY DEF RequiredCodeDistance, Known
  <2>2. AboveThreshold(s) => x = Infeasible(w, s, "ABOVE_SURFACE_CODE_THRESHOLD")
    BY DEF Evaluate
  <2>3. ~AboveThreshold(s) /\ ~Known(d) => x = Infeasible(w, s, "NO_DISTANCE_MEETS_BUDGET")
    BY DEF Evaluate
  <2>4. ~AboveThreshold(s) /\ Known(d) => x = Feasible(w, s, d)
    BY DEF Evaluate
  <2> HIDE DEF x, d
  <2> QED
    BY <2>1, <2>2, <2>3, <2>4, Zenon
<1>2. /\ x.feasible = Known(d) /\ x.distance = d /\ x.magic = MagicStates(w, s)
      /\ x.undetermined = Undetermined(w, s)
      /\ DOMAIN x = {"feasible", "code", "distance", "occupied", "magic", "undetermined", "levels",
                     "reached", "factory", "total", "runtime", "limiter"}
  <2>1. CASE x = Feasible(w, s, d) /\ Known(d)
    <3>1. /\ Feasible(w, s, d).feasible = TRUE /\ Feasible(w, s, d).distance = d
          /\ Feasible(w, s, d).magic = MagicStates(w, s)
          /\ Feasible(w, s, d).undetermined = Undetermined(w, s)
      BY Zenon DEF Feasible
    <3>2. DOMAIN Feasible(w, s, d) = {"feasible", "code", "distance", "occupied", "magic", "undetermined", "levels",
                                      "reached", "factory", "total", "runtime", "limiter"}
      BY DEF Feasible
    <3>3. Known(d) = TRUE
      BY <2>1 DEF Known
    <3> HIDE DEF d, x
    <3> QED
      BY <2>1, <3>1, <3>2, <3>3, Zenon
  <2>2. ASSUME ~Known(d), NEW code, x = Infeasible(w, s, code)
        PROVE  /\ x.feasible = Known(d) /\ x.distance = d /\ x.magic = MagicStates(w, s)
               /\ x.undetermined = Undetermined(w, s)
               /\ DOMAIN x = {"feasible", "code", "distance", "occupied", "magic", "undetermined", "levels",
                              "reached", "factory", "total", "runtime", "limiter"}
    <3>1. /\ Infeasible(w, s, code).feasible = FALSE /\ Infeasible(w, s, code).distance = Null
          /\ Infeasible(w, s, code).magic = MagicStates(w, s)
          /\ Infeasible(w, s, code).undetermined = Undetermined(w, s)
      BY Zenon DEF Infeasible
    <3>2. DOMAIN Infeasible(w, s, code) =
             {"feasible", "code", "distance", "occupied", "magic", "undetermined", "levels",
              "reached", "factory", "total", "runtime", "limiter"}
      BY DEF Infeasible
    <3>3. Known(d) = FALSE /\ d = Null
      BY <2>2 DEF Known
    <3> HIDE DEF d, x
    <3> QED
      BY <2>2, <3>1, <3>2, <3>3, Zenon
  <2> QED
    BY <1>1, <2>1, <2>2
<1>3. /\ e.feasible = Known(d) /\ e.distance = d /\ e.undetermined = Undetermined(w, s)
      /\ e.undetermined => e.magic = Null
      /\ ~e.undetermined => e.magic = MagicStates(w, s)
  <2> HIDE DEF x, d
  <2> QED
    BY <1>2 DEF Snapshot
<1>4. panel.feasible = Known(d) /\ panel.distance = d /\ panel.magic = w.t + 4 * w.toffoli
  BY Zenon DEF EstimateFaultTolerantResources
<1>5. e.feasible => CostsAgree(w, s, e, panel)
  BY <1>1, <1>3, CostsOfFeasible
<1>6. s.layout = "BARE_REGISTER" /\ e.magic = 0 /\ ~e.undetermined => CurvesAgree(SensitivityFor(w, s), panel)
  BY <1>3, CurvesOfBareRegister
<1> HIDE DEF e, panel, d
<1>7. ~e.undetermined /\ s.toffoliCost = 4 => panel.magic = e.magic
  BY <1>3, <1>4 DEF MagicStates
<1> QED
  BY <1>3, <1>4, <1>5, <1>6, <1>7 DEF e, panel

\* PanelsAgree holds in every state that satisfies the invariant: the estimates
\* in the file are those of the inputs in it, and the panels agree with those.
THEOREM PanelsAgreement == Spec => []PanelsAgree
<1> DEFINE content == file.content
           rebuilt == BuildBundle(content.workload, content.baseline, content.scenarios).content
<1>1. ASSUME IntelligenceInv, Trusted, NEW i \in DOMAIN content.scenarios
      PROVE  LET s == content.scenarios[i]
                 w == content.workload
                 e == content.estimates[i].core
                 panel == EstimateFaultTolerantResources(w, s)
             IN /\ panel.feasible = e.feasible
                /\ panel.distance = e.distance
                /\ ~e.undetermined /\ s.toffoliCost = 4 => panel.magic = e.magic
                /\ e.feasible => CostsAgree(w, s, e, panel)
                /\ s.layout = "BARE_REGISTER" /\ e.magic = 0 /\ ~e.undetermined =>
                      CurvesAgree(content.estimates[i].sensitivity, panel)
  <2>1. LegalInputs(content.workload, content.baseline, content.scenarios) /\ content.estimates = rebuilt.estimates
    BY <1>1, TrustedResults DEF Results
  <2>2. content.estimates[i] = EstimateForScenario(content.workload, content.scenarios[i])
    BY <2>1, BundleResults
  <2>3. content.workload \in LegalWorkloads /\ LegalScenario(content.scenarios[i])
    BY <1>1, <2>1 DEF LegalInputs
  <2>4. /\ content.estimates[i].core = Snapshot(Evaluate(content.workload, content.scenarios[i]))
        /\ content.estimates[i].sensitivity = SensitivityFor(content.workload, content.scenarios[i])
    BY <2>2 DEF EstimateForScenario
  <2> QED
    BY <2>3, <2>4, PanelsOfEstimate
<1>2. IntelligenceInv => PanelsAgree
  BY <1>1 DEF PanelsAgree
<1> QED
  BY <1>2, IntelligenceInvariance, PTL

-----------------------------------------------------------------------------
(* The conditions.                                                         *)

\* Where the thresholds count the factory as the estimate does, the rounds they
\* divide by are those of the estimate's runtime.
LEMMA RuntimeIsItsRounds ==
    ASSUME NEW w \in LegalWorkloads, NEW s, LegalScenario(s),
           SameFactory(s, Evaluate(w, s)), Known(Evaluate(w, s).runtime)
    PROVE  LET e == Evaluate(w, s)
           IN /\ RoundsPerRun(w, s, e) \in Nat
              /\ e.runtime = RoundsPerRun(w, s, e) * s.cycle
              /\ e.magic > 0 => e.magic \in Nat /\ RoundsPerRun(w, s, e) >= e.magic * s.rounds
<1> DEFINE d == RequiredCodeDistance(w, s)
           e == Evaluate(w, s)
           logical == Shares(s, LogicalCycles(w) * d)
           made == IF NeedsFactory(w, s) THEN FactoryRounds(w, s) ELSE 0
<1>1. e = Feasible(w, s, d) /\ Known(d)
  <2>1. \A code : ~Known(Infeasible(w, s, code).runtime)
    BY DEF Infeasible, Known
  <2> HIDE DEF d
  <2> QED
    BY <2>1 DEF Evaluate, d
<1>2. d \in Nat
  BY <1>1, DistanceIsNumber DEF Known
<1>3. /\ e.reached
      /\ e.runtime = Greater(logical * s.cycle, IF NeedsFactory(w, s) THEN FactoryRounds(w, s) * s.cycle ELSE 0)
  BY <1>1, <1>2, FeasibleFigures
<1>4. e.distance = d /\ e.magic = MagicStates(w, s) /\ (e.undetermined <=> Undetermined(w, s))
  <2>1. /\ Feasible(w, s, d).distance = d /\ Feasible(w, s, d).magic = MagicStates(w, s)
        /\ Feasible(w, s, d).undetermined = Undetermined(w, s)
    BY Zenon DEF Feasible
  <2> HIDE DEF e, d
  <2> QED
    BY <1>1, <2>1
<1>5. ~e.undetermined
  <2>1. Evaluated(w, s, e)
    BY EvaluateIsEvaluated
  <2>2. e.feasible
    <3>1. Feasible(w, s, d).feasible
      BY Zenon DEF Feasible
    <3> HIDE DEF e, d
    <3> QED
      BY <1>1, <3>1
  <2> HIDE DEF e
  <2> QED
    BY <1>3, <2>1, <2>2 DEF Evaluated
<1>6. MagicStates(w, s) \in Nat /\ logical \in Nat /\ s.cycle \in Nat /\ s.rounds \in Nat
  <2>1. w.t \in Nat /\ w.toffoli \in Nat /\ w.depth \in Nat
    BY DEF LegalWorkloads
  <2>2. LogicalCycles(w) * d \in Nat
    BY <1>2, <2>1, Naturals DEF LogicalCycles
  <2> QED
    BY <2>1, <2>2, LegalFields, SharesAreNumbers, Naturals DEF MagicStates
<1>7. FactoryRounds(w, s) = MagicStates(w, s) * s.rounds /\ FactoryRounds(w, s) \in Nat
  BY <1>6, Naturals DEF FactoryRounds
<1>8. MagicStates(w, s) > 0 <=> NeedsFactory(w, s)
  <2> HIDE DEF e
  <2> QED
    BY <1>4, <1>6 DEF SameFactory, NeedsFactory, e
<1>9. RoundsPerRun(w, s, e) = Greater(logical, made)
  <2> HIDE DEF e, d
  <2> QED
    BY <1>1, <1>3, <1>4, <1>5, <1>8 DEF RoundsPerRun
<1>10. made \in Nat
  BY <1>7
<1>11. e.runtime = Greater(logical * s.cycle, made * s.cycle)
  <2> HIDE DEF e, logical
  <2> QED
    BY <1>3, <1>6
<1> HIDE DEF d, e, logical, made
<1>12. \A a, b, c \in Nat : Greater(a * c, b * c) = Greater(a, b) * c
  <2>1. ASSUME NEW a \in Nat, NEW b \in Nat, NEW c \in Nat PROVE Greater(a * c, b * c) = Greater(a, b) * c
    <3>1. CASE a < b
      <4>1. a * c <= b * c
        BY <3>1
      <4> QED
        BY <3>1, <4>1 DEF Greater
    <3>2. CASE b <= a
      <4>1. b * c <= a * c
        BY <3>2
      <4> QED
        BY <3>2, <4>1 DEF Greater
    <3> QED
      BY <3>1, <3>2
  <2> QED
    BY <2>1
<1>13. e.runtime = RoundsPerRun(w, s, e) * s.cycle
  <2>1. Greater(logical * s.cycle, made * s.cycle) = Greater(logical, made) * s.cycle
    BY <1>6, <1>10, <1>12, Zenon
  <2> QED
    BY <1>9, <1>11, <2>1, Zenon
<1>14. RoundsPerRun(w, s, e) \in Nat
  BY <1>6, <1>9, <1>10, Naturals
<1>15. ASSUME e.magic > 0 PROVE RoundsPerRun(w, s, e) >= e.magic * s.rounds
  <2>1. made = e.magic * s.rounds
    BY <1>4, <1>7, <1>8, <1>15 DEF made
  <2> QED
    BY <1>6, <1>9, <1>10, <2>1 DEF Greater
<1> QED
  BY <1>4, <1>6, <1>13, <1>14, <1>15 DEF e

\* So the bounds on the cycle time are met exactly by the runs that are in time,
\* and those that are give their factories enough of it.
LEMMA TimesAgree ==
    ASSUME NEW w \in LegalWorkloads, NEW s, LegalScenario(s), NEW b \in LegalBaselines,
           SameFactory(s, Evaluate(w, s)), Known(Evaluate(w, s).runtime)
    PROVE  LET e == Evaluate(w, s)
               t == ComputeAdvantageThresholds(w, s, b)
           IN CycleBoundsAgree(b, s, e, t) /\ ThroughputSuffices(w, s, e, t)
<1> DEFINE e == Evaluate(w, s)
           t == ComputeAdvantageThresholds(w, s, b)
           rounds == RoundsPerRun(w, s, e)
<1>1. /\ t.maxCycleForTarget = MaxCycleForTarget(s, rounds)
      /\ t.maxCycleToBeatClassical = Or(ComparesRuntime(b, e, rounds), <<Shares(s, b.runtime), rounds>>)
      /\ t.minThroughputForTarget = MinThroughputForTarget(s, e)
  BY DEF ComputeAdvantageThresholds, ThresholdsOf
<1>2. /\ rounds \in Nat /\ e.runtime = rounds * s.cycle
      /\ e.magic > 0 => e.magic \in Nat /\ rounds >= e.magic * s.rounds
  BY RuntimeIsItsRounds
<1>3. s.cycle \in Nat /\ s.rounds \in Nat /\ s.parallel \in Nat
  BY LegalFields
<1> HIDE DEF e, t, rounds
<1>4. rounds * s.cycle = s.cycle * rounds /\ rounds * s.cycle \in Nat
  BY <1>2, <1>3
<1>5. ASSUME Known(t.maxCycleForTarget)
      PROVE  AtLeast(t.maxCycleForTarget, s.cycle) <=> OnTime(s, e)
  <2>1. Known(s.target) /\ t.maxCycleForTarget = <<Shares(s, s.target), rounds>>
    BY <1>1, <1>5 DEF MaxCycleForTarget, Or, Known
  <2>2. Shares(s, s.target) \in Nat
    BY <2>1, LegalFields, SharesAreNumbers DEF Known
  <2> QED
    BY <1>2, <1>4, <2>1, <2>2 DEF AtLeast, OnTime
<1>6. ASSUME Known(t.maxCycleToBeatClassical)
      PROVE  Exceeds(t.maxCycleToBeatClassical, s.cycle) <=> QuantumIsFaster(b, s, e)
  <2>1. HasRuntime(b) /\ t.maxCycleToBeatClassical = <<Shares(s, b.runtime), rounds>>
    BY <1>1, <1>6 DEF Or, ComparesRuntime, Known
  <2>2. b.runtime \in Nat
    BY <2>1 DEF LegalBaselines, Positive, HasRuntime, HasBaseline, Known
  <2>3. Shares(s, b.runtime) \in Nat
    BY <2>2, SharesAreNumbers
  <2> QED
    BY <1>2, <1>4, <2>1, <2>3 DEF Exceeds, QuantumIsFaster
<1>7. ThroughputSuffices(w, s, e, t)
  <2>1. SUFFICES ASSUME Known(t.minThroughputForTarget), e.magic > 0, OnTime(s, e)
        PROVE  s.parallel * t.minThroughputForTarget[2] >= t.minThroughputForTarget[1] * s.rounds * s.cycle
    BY DEF ThroughputSuffices
  <2>2. Known(s.target) /\ t.minThroughputForTarget = <<e.magic, s.target>>
    BY <1>1, <2>1 DEF MinThroughputForTarget, Or, Known
  <2>3. rounds * s.cycle <= s.parallel * s.target
    BY <1>2, <2>1, <2>2 DEF OnTime, Shares
  <2>4. s.target \in Nat
    BY <2>2, LegalFields DEF Known
  <2>5. e.magic \in Nat /\ e.magic * s.rounds \in Nat /\ rounds >= e.magic * s.rounds
    BY <1>2, <1>3, <2>1, Naturals
  <2>6. \A x, y, c \in Nat : x >= y => x * c >= y * c
    OBVIOUS
  <2>7. rounds * s.cycle >= e.magic * s.rounds * s.cycle
    BY <1>2, <1>3, <2>5, <2>6
  <2>8. e.magic * s.rounds * s.cycle \in Nat /\ s.parallel * s.target \in Nat
    BY <1>3, <2>4, <2>5, Naturals
  <2>9. \A x, y, z \in Nat : x <= y /\ x >= z => y >= z
    OBVIOUS
  <2>10. s.parallel * s.target >= e.magic * s.rounds * s.cycle
    BY <1>4, <2>3, <2>7, <2>8, <2>9
  <2> QED
    BY <2>2, <2>10
<1> QED
  BY <1>5, <1>6, <1>7 DEF CycleBoundsAgree, e, t

\* Three quotients of one cost: they are on the same side of one.
LEMMA PricesOfThresholds ==
    ASSUME NEW w \in LegalWorkloads, NEW s, LegalScenario(s), NEW b \in LegalBaselines
    PROVE  PricesAgree(b, s, Evaluate(w, s), ComputeAdvantageThresholds(w, s, b))
<1> DEFINE e == Evaluate(w, s)
           t == ComputeAdvantageThresholds(w, s, b)
           machine == s.economics.machine
<1>1. /\ t.costRatio = CostRatio(s, b, ProjectedCost(s, b, e))
      /\ t.breakEvenRuntime = BreakEvenRuntime(s, b, e)
      /\ t.maxMachineCost = MaxMachineCost(s, b, e)
  BY DEF ComputeAdvantageThresholds, ThresholdsOf
<1>2. Evaluated(w, s, e)
  BY EvaluateIsEvaluated
<1> HIDE DEF e, t
<1> SUFFICES ASSUME Known(t.breakEvenRuntime)
             PROVE  /\ Below(t.costRatio, 1) <=> Exceeds(t.breakEvenRuntime, e.runtime)
                    /\ Below(t.costRatio, 1) <=> Exceeds(t.maxMachineCost, machine)
  BY DEF PricesAgree, e, t
<1>3. Hourly(s, b, e) /\ t.breakEvenRuntime = <<Shares(s, b.cost), machine>>
  BY <1>1 DEF BreakEvenRuntime, Or, Known
<1>4. t.maxMachineCost = <<Shares(s, b.cost), e.runtime>>
  BY <1>1, <1>3 DEF Hourly, Priced, MaxMachineCost, Or
<1>5. machine \in Nat /\ e.runtime \in Nat
  <2>1. machine \in Nat \cup {Null}
    BY <1>3, LegalFields DEF Hourly, Priced, Economies, Known
  <2>2. e.runtime \in Nat
    BY <1>2, <1>3 DEF Evaluated, Hourly, Priced
  <2> QED
    BY <1>3, <2>1, <2>2 DEF Hourly, Known
<1>6. ProjectedCost(s, b, e) = machine * e.runtime /\ machine * e.runtime \in Nat
  BY <1>3, <1>5, Naturals DEF ProjectedCost
<1>7. t.costRatio = <<machine * e.runtime, Shares(s, b.cost)>>
  BY <1>1, <1>6, EstimatorAssumption DEF CostRatio, Or, Known
<1>8. Shares(s, b.cost) \in Nat
  <2>1. b.cost \in Nat
    BY <1>3 DEF LegalBaselines, Hourly, Priced, HasCost, HasBaseline, Known
  <2> QED
    BY <2>1, SharesAreNumbers
<1>9. machine * e.runtime = e.runtime * machine
  BY <1>5
<1>10. Below(t.costRatio, 1) <=> machine * e.runtime < Shares(s, b.cost)
  BY <1>6, <1>7, <1>8 DEF Below
<1>11. Exceeds(t.breakEvenRuntime, e.runtime) <=> machine * e.runtime < Shares(s, b.cost)
  BY <1>3, <1>6, <1>8, <1>9 DEF Exceeds
<1>12. Exceeds(t.maxMachineCost, machine) <=> machine * e.runtime < Shares(s, b.cost)
  BY <1>4, <1>6, <1>8 DEF Exceeds
<1> QED
  BY <1>10, <1>11, <1>12

\* The powers of two that are compared are positive: the provers know each.
LEMMA PowersArePositive ==
    ASSUME NEW n \in 0 .. MOST_HALVINGS
    PROVE  2 ^ n \in Nat /\ 2 ^ n >= 1
<1>0. n \in 0 .. 20
  BY DEF MOST_HALVINGS
<1>1. CASE n = 0 BY <1>1
<1>2. CASE n = 1 BY <1>2
<1>3. CASE n = 2 BY <1>3
<1>4. CASE n = 3 BY <1>4
<1>5. CASE n = 4 BY <1>5
<1>6. CASE n = 5 BY <1>6
<1>7. CASE n = 6 BY <1>7
<1>8. CASE n = 7 BY <1>8
<1>9. CASE n = 8 BY <1>9
<1>10. CASE n = 9 BY <1>10
<1>11. CASE n = 10 BY <1>11
<1>12. CASE n = 11 BY <1>12
<1>13. CASE n = 12 BY <1>13
<1>14. CASE n = 13 BY <1>14
<1>15. CASE n = 14 BY <1>15
<1>16. CASE n = 15 BY <1>16
<1>17. CASE n = 16 BY <1>17
<1>18. CASE n = 17 BY <1>18
<1>19. CASE n = 18 BY <1>19
<1>20. CASE n = 19 BY <1>20
<1>21. CASE n = 20 BY <1>21
<1> QED
  BY <1>0, <1>1, <1>2, <1>3, <1>4, <1>5, <1>6, <1>7, <1>8, <1>9, <1>10, <1>11,
     <1>12, <1>13, <1>14, <1>15, <1>16, <1>17, <1>18, <1>19, <1>20, <1>21

\* The halvings are so many.
LEMMA HalvingsAreNumbers ==
    ASSUME NEW w, NEW s
    PROVE  Halvings(w, s) \in Nat
<1> DEFINE S == {n \in 0 .. MOST_HALVINGS : s.budget * 2 ^ n < Demand(w, s)}
<1>1. IsFiniteSet(0 .. MOST_HALVINGS)
  <2>1. \A m \in Nat : IsFiniteSet(0 .. m)
    BY FS_Interval
  <2> QED
    BY <2>1 DEF MOST_HALVINGS
<1>2. S \subseteq 0 .. MOST_HALVINGS
  OBVIOUS
<1>3. Cardinality(S) \in Nat
  <2> HIDE DEF S
  <2> QED
    BY <1>1, <1>2, FS_Subset, FS_CardinalityType
<1> QED
  BY <1>3 DEF Halvings

\* An error rate has a distance exactly if it is within the rate that the
\* largest distance allows.
LEMMA FeasibleRate ==
    ASSUME NEW w \in LegalWorkloads, NEW s, LegalScenario(s), NEW b
    PROVE  FeasibleRateAgrees(s, Evaluate(w, s), ComputeAdvantageThresholds(w, s, b))
<1> DEFINE K == (MaxDistance + 1) \div 2
           needed == Halvings(w, s)
           bound == MaxErrorRateForFeasibility(w, s)
           Enough == {r \in 0 .. needed : r * K >= needed}
<1>1. s.rate \in Int /\ s.budget \in Nat \ {0} /\ s.prefactor \in Nat
  <2>1. /\ "rate" \in DOMAIN LegalValue /\ LegalValue["rate"] = {r \in Int : r + THRESHOLD_QUALITY >= 0}
        /\ "budget" \in DOMAIN LegalValue /\ LegalValue["budget"] = 1 .. 1000
        /\ "prefactor" \in DOMAIN LegalValue /\ LegalValue["prefactor"] = Nat \ {0}
    BY DEF LegalValue, Positive
  <2> QED
    BY <2>1 DEF LegalScenario
<1>2. MaxDistance \in Nat /\ K \in Nat /\ K >= 2
  BY EstimatorAssumption
<1>3. needed \in Nat
  BY HalvingsAreNumbers
<1>4. Evaluate(w, s).feasible <=> s.rate > 0 /\ s.rate * K >= needed
  <2>1. Evaluate(w, s).feasible <=> ~AboveThreshold(s) /\ Distances(w, s) # {}
    <3>1. Known(RequiredCodeDistance(w, s)) <=> ~AboveThreshold(s) /\ Distances(w, s) # {}
      <4>1. ASSUME Distances(w, s) # {} PROVE Known(Min(Distances(w, s)))
        <5>1. Distances(w, s) \subseteq Nat
          BY <1>2 DEF Distances
        <5> QED
          BY <4>1, <5>1, MinIsLeast, EstimatorAssumption DEF Known
      <4> QED
        BY <4>1 DEF RequiredCodeDistance, Known
    <3>2. /\ \A code : Infeasible(w, s, code).feasible = FALSE
          /\ \A d : Feasible(w, s, d).feasible = TRUE
      BY Zenon DEF Infeasible, Feasible
    <3> QED
      BY <3>1, <3>2 DEF Evaluate
  <2>2. ASSUME s.rate > 0, s.rate * K >= needed PROVE Distances(w, s) # {}
    <3> DEFINE d == 2 * K - 1
    <3>1. d \in 3 .. MaxDistance /\ d % 2 = 1 /\ (d + 1) \div 2 = K
      BY <1>2
    <3>2. d \in Distances(w, s)
      <4> HIDE DEF K, d, needed
      <4> QED
        BY <2>2, <3>1 DEF Distances, MeetsBudget, needed
    <3> QED
      BY <3>2
  <2>3. ASSUME s.rate > 0, Distances(w, s) # {} PROVE s.rate * K >= needed
    <3>1. PICK d \in 3 .. MaxDistance : s.rate * ((d + 1) \div 2) >= needed
      BY <2>3 DEF Distances, MeetsBudget
    <3>2. (d + 1) \div 2 \in Nat /\ (d + 1) \div 2 <= K
      BY <1>2
    <3>3. \A x, y, r \in Nat : x <= y => r * x <= r * y
      OBVIOUS
    <3>4. s.rate \in Nat
      BY <1>1, <2>3
    <3> HIDE DEF K, needed
    <3>5. s.rate * ((d + 1) \div 2) <= s.rate * K
      BY <1>2, <3>2, <3>3, <3>4
    <3>6. s.rate * ((d + 1) \div 2) \in Nat /\ s.rate * K \in Nat
      BY <1>2, <3>2, <3>4, Naturals
    <3>7. \A x, y, z \in Nat : x >= z /\ x <= y => y >= z
      OBVIOUS
    <3> QED
      BY <1>3, <3>1, <3>5, <3>6, <3>7
  <2> QED
    BY <1>1, <2>1, <2>2, <2>3 DEF AboveThreshold
<1>5. ASSUME s.budget >= Demand(w, s)
      PROVE  s.rate > 0 => (s.rate * K >= needed <=> s.rate >= bound)
  <2>1. bound = 0
    BY <1>5 DEF MaxErrorRateForFeasibility
  <2>2. needed = 0
    <3>1. \A n \in 0 .. MOST_HALVINGS : 2 ^ n \in Nat /\ 2 ^ n >= 1
      BY PowersArePositive
    <3>2. Demand(w, s) \in Nat
      <4>1. w.qubits \in Nat /\ w.depth \in Nat
        BY DEF LegalWorkloads, Positive
      <4>2. 10 * s.prefactor \in Nat /\ LogicalCycles(w) \in Nat
        BY <1>1, <4>1, Naturals DEF LogicalCycles
      <4> QED
        BY <4>1, <4>2, Naturals DEF Demand
    <3>3. \A n \in 0 .. MOST_HALVINGS : ~(s.budget * 2 ^ n < Demand(w, s))
      <4>1. \A x, y, z \in Nat : y >= 1 /\ x >= z => ~(x * y < z)
        OBVIOUS
      <4> QED
        BY <1>1, <1>5, <3>1, <3>2, <4>1
    <3>4. {n \in 0 .. MOST_HALVINGS : s.budget * 2 ^ n < Demand(w, s)} = {}
      BY <3>3
    <3> QED
      BY <3>4, FS_EmptySet DEF Halvings
  <2> QED
    BY <1>1, <1>2, <2>1, <2>2
<1>6. ASSUME ~(s.budget >= Demand(w, s))
      PROVE  s.rate > 0 => (s.rate * K >= needed <=> s.rate >= bound)
  <2>1. bound = Min(Enough)
    BY <1>6 DEF MaxErrorRateForFeasibility
  <2>2. needed \in Enough
    BY <1>2, <1>3
  <2>3. Enough \subseteq Nat
    BY <1>3
  <2>4. bound \in Enough /\ \A r \in Enough : bound <= r
    <3> HIDE DEF Enough, bound
    <3> QED
      BY <2>1, <2>2, <2>3, MinIsLeast
  <2>5. ASSUME s.rate \in Nat, s.rate * K >= needed PROVE s.rate >= bound
    <3>1. CASE s.rate <= needed
      <4>1. s.rate \in Enough
        BY <1>2, <1>3, <2>5, <3>1
      <4> QED
        BY <2>3, <2>4, <2>5, <4>1
    <3>2. CASE s.rate > needed
      BY <1>3, <2>2, <2>3, <2>4, <2>5, <3>2
    <3> QED
      BY <1>3, <2>5, <3>1, <3>2
  <2>6. ASSUME s.rate \in Nat, s.rate >= bound PROVE s.rate * K >= needed
    <3>1. bound \in Nat /\ bound * K >= needed
      BY <1>3, <2>4
    <3>2. \A x, y, k, n \in Nat : x >= y /\ y * k >= n => x * k >= n
      <4>1. ASSUME NEW x \in Nat, NEW y \in Nat, NEW k \in Nat, NEW n \in Nat, x >= y, y * k >= n PROVE x * k >= n
        <5>1. x * k >= y * k
          BY <4>1
        <5>2. x * k \in Nat /\ y * k \in Nat
          BY Naturals
        <5> QED
          BY <4>1, <5>1, <5>2
      <4> QED
        BY <4>1
    <3> HIDE DEF bound, K, needed
    <3> QED
      BY <1>2, <1>3, <2>6, <3>1, <3>2
  <2> QED
    BY <1>1, <2>5, <2>6
<1>7. ComputeAdvantageThresholds(w, s, b).maxErrorRate = bound
  BY DEF ComputeAdvantageThresholds, ThresholdsOf
<1> QED
  BY <1>4, <1>5, <1>6, <1>7 DEF FeasibleRateAgrees

\* ConditionsAgree holds in every state that satisfies the invariant: the
\* thresholds in the file are those of the inputs in it, and every one that has
\* a formula agrees with the evaluation of those.
THEOREM ConditionsAgreement == Spec => []ConditionsAgree
<1> DEFINE content == file.content
           rebuilt == BuildBundle(content.workload, content.baseline, content.scenarios).content
<1>1. ASSUME IntelligenceInv, Trusted, NEW i \in DOMAIN content.scenarios
      PROVE  LET s == content.scenarios[i]
                 b == content.baseline
                 w == content.workload
                 e == Evaluate(w, s)
                 t == content.thresholds[i]
             IN /\ SameFactory(s, e) /\ Known(e.runtime) => CycleBoundsAgree(b, s, e, t) /\ ThroughputSuffices(w, s, e, t)
                /\ FeasibleRateAgrees(s, e, t)
                /\ PricesAgree(b, s, e, t)
  <2>1. LegalInputs(content.workload, content.baseline, content.scenarios) /\ content.thresholds = rebuilt.thresholds
    BY <1>1, TrustedResults DEF Results
  <2>2. content.thresholds[i] = ComputeAdvantageThresholds(content.workload, content.scenarios[i], content.baseline)
    BY <2>1, BundleResults
  <2>3. /\ content.workload \in LegalWorkloads /\ content.baseline \in LegalBaselines
        /\ LegalScenario(content.scenarios[i])
    BY <1>1, <2>1 DEF LegalInputs
  <2> QED
    BY <2>2, <2>3, TimesAgree, FeasibleRate, PricesOfThresholds
<1>2. IntelligenceInv => ConditionsAgree
  BY <1>1 DEF ConditionsAgree
<1> QED
  BY <1>2, IntelligenceInvariance, PTL

-----------------------------------------------------------------------------
(* What a lower error rate does: the bisection.                             *)

\* The qualities after each of the rounds, written out.
Qualities(raw) ==
    [level \in 0 .. 6 |->
        CASE level = 0 -> raw
          [] level = 1 -> 3 * raw - 5
          [] level = 2 -> 9 * raw - 20
          [] level = 3 -> 27 * raw - 65
          [] level = 4 -> 81 * raw - 200
          [] level = 5 -> 243 * raw - 605
          [] level = 6 -> 729 * raw - 1820]

\* They are the only ones that start at raw and follow from each other.
LEMMA QualitiesAreRounds ==
    ASSUME NEW raw \in Int
    PROVE  Rounds(raw) = Qualities(raw)
<1> DEFINE g == Qualities(raw)
           Follows(f) == f = [level \in 0 .. MAX_DISTILLATION_LEVELS |-> IF level = 0 THEN raw ELSE 3 * f[level - 1] - 5]
<1>1. Rounds(raw) = CHOOSE f : Follows(f)
  BY DEF Rounds
<1>2. /\ g[0] = raw /\ g[1] = 3 * raw - 5 /\ g[2] = 9 * raw - 20 /\ g[3] = 27 * raw - 65
      /\ g[4] = 81 * raw - 200 /\ g[5] = 243 * raw - 605 /\ g[6] = 729 * raw - 1820
      /\ DOMAIN g = 0 .. 6
  BY DEF Qualities
<1>3. Follows(g)
  <2>1. \A level \in 0 .. 6 : g[level] = IF level = 0 THEN raw ELSE 3 * g[level - 1] - 5
    BY <1>2
  <2>2. g = [level \in 0 .. 6 |-> g[level]]
    BY DEF Qualities
  <2> QED
    BY <2>1, <2>2 DEF MAX_DISTILLATION_LEVELS
<1>4. ASSUME NEW f, Follows(f) PROVE f = g
  <2>1. \A level \in 0 .. 6 : f[level] = IF level = 0 THEN raw ELSE 3 * f[level - 1] - 5
    BY <1>4 DEF MAX_DISTILLATION_LEVELS
  <2>2. DOMAIN f = 0 .. 6 /\ f = [level \in 0 .. 6 |-> f[level]]
    BY <1>4, Zenon DEF MAX_DISTILLATION_LEVELS
  <2>3. f[0] = raw /\ f[1] = 3 * raw - 5
    BY <2>1
  <2>4. f[2] = 9 * raw - 20 /\ f[3] = 27 * raw - 65
    BY <2>1, <2>3
  <2>5. f[4] = 81 * raw - 200 /\ f[5] = 243 * raw - 605 /\ f[6] = 729 * raw - 1820
    BY <2>1, <2>4
  <2>6. \A level \in 0 .. 6 : f[level] = g[level]
    BY <1>2, <2>3, <2>4, <2>5
  <2> HIDE DEF g
  <2>7. g = [level \in 0 .. 6 |-> g[level]]
    BY DEF g, Qualities
  <2> QED
    BY <2>2, <2>6, <2>7
<1> HIDE DEF Follows, g
<1>5. Follows(Rounds(raw))
  BY <1>1, <1>3
<1> QED
  BY <1>4, <1>5 DEF g

\* A better raw state is better after every round.
LEMMA RoundsGrow ==
    ASSUME NEW raw \in Int, NEW better \in Int, raw <= better, NEW level \in 0 .. MAX_DISTILLATION_LEVELS
    PROVE  Rounds(raw)[level] \in Int /\ Rounds(better)[level] \in Int /\ Rounds(raw)[level] <= Rounds(better)[level]
<1>1. level \in 0 .. 6
  BY DEF MAX_DISTILLATION_LEVELS
<1> QED
  BY <1>1, QualitiesAreRounds DEF Qualities

\* A state that a round does not improve is taken as it is.
LEMMA UndistilledLevels ==
    ASSUME NEW q, NEW goal, ~Improves(q)
    PROVE  RequiredLevels(q, goal).levels = 0 /\ (RequiredLevels(q, goal).reached <=> q >= goal)
<1> DEFINE enough == q >= goal
<1>1. RequiredLevels(q, goal) = [levels |-> 0, reached |-> enough]
  BY DEF RequiredLevels
<1> HIDE DEF enough
<1>2. RequiredLevels(q, goal).levels = 0 /\ RequiredLevels(q, goal).reached = enough
  BY <1>1
<1> QED
  BY <1>2, Zenon DEF enough

\* A better state needs no more rounds, if any number of them does.
LEMMA LevelsFall ==
    ASSUME NEW raw \in Int, NEW better \in Int, NEW goal \in Int, raw <= better,
           RequiredLevels(raw, goal).reached
    PROVE  RequiredLevels(better, goal).reached /\ RequiredLevels(better, goal).levels <= RequiredLevels(raw, goal).levels
<1> DEFINE Enough(q) == {level \in 0 .. MAX_DISTILLATION_LEVELS : Rounds(q)[level] >= goal}
<1>1. \A q : Distilled(q, goal) = IF Enough(q) = {} THEN [levels |-> MAX_DISTILLATION_LEVELS, reached |-> FALSE]
                                  ELSE [levels |-> Min(Enough(q)), reached |-> TRUE]
  BY DEF Distilled
<1>2. \A level \in Enough(raw) : level \in Enough(better)
  BY RoundsGrow
<1>3. /\ \A level \in Enough(raw) : level \in Nat
      /\ \A level \in Enough(better) : level \in Nat
  BY DEF MAX_DISTILLATION_LEVELS
<1>4. 0 \in 0 .. MAX_DISTILLATION_LEVELS /\ \A q \in Int : Rounds(q)[0] = q
  BY QualitiesAreRounds DEF Qualities, MAX_DISTILLATION_LEVELS
<1>5. better >= goal => 0 \in Enough(better)
  BY <1>4
<1> HIDE DEF Enough
<1>6. /\ Enough(raw) # {} => Min(Enough(raw)) \in Enough(raw)
      /\ Enough(better) # {} => /\ Min(Enough(better)) \in Enough(better)
                                /\ \A level \in Enough(better) : Min(Enough(better)) <= level
  BY <1>3, MinIsLeast
<1>7. CASE Improves(raw)
  <2>1. Improves(better)
    BY <1>7 DEF Improves
  <2>2. Enough(raw) # {} /\ RequiredLevels(raw, goal).levels = Min(Enough(raw))
    BY <1>1, <1>7 DEF RequiredLevels
  <2>3. Min(Enough(raw)) \in Enough(better)
    BY <1>2, <1>6, <2>2
  <2>4. RequiredLevels(better, goal) = [levels |-> Min(Enough(better)), reached |-> TRUE]
    BY <1>1, <2>1, <2>3 DEF RequiredLevels
  <2> QED
    BY <1>6, <2>2, <2>3, <2>4
<1>8. CASE ~Improves(raw)
  <2>1. raw >= goal /\ RequiredLevels(raw, goal).levels = 0
    BY <1>8, UndistilledLevels
  <2>3. better >= goal
    BY <2>1
  <2>4. CASE Improves(better)
    <3>1. 0 \in Enough(better)
      BY <1>5, <2>3
    <3>2. RequiredLevels(better, goal) = [levels |-> Min(Enough(better)), reached |-> TRUE]
      BY <1>1, <2>4, <3>1 DEF RequiredLevels
    <3> QED
      BY <1>6, <2>1, <3>1, <3>2
  <2>5. CASE ~Improves(better)
    BY <2>1, <2>3, <2>5, UndistilledLevels
  <2> QED
    BY <2>4, <2>5
<1> QED
  BY <1>7, <1>8

\* What a feasible machine takes, from its distance and its levels.
TotalOf(w, s, d, levels) ==
    PerPatch(d) * OccupiedLogicalQubits(w.qubits, s.layout)
    + levels * STATES_PER_BLOCK * PerPatch(IF Known(s.factoryDistance) THEN s.factoryDistance ELSE d)
      * (IF NeedsFactory(w, s) THEN s.parallel ELSE 0)

\* The levels of its factories, if it needs any.
PlanOf(w, s) ==
    IF Undetermined(w, s) THEN [levels |-> 0, reached |-> FALSE]
    ELSE IF NeedsFactory(w, s) THEN RequiredLevels(s.raw, s.goal)
    ELSE [levels |-> 0, reached |-> TRUE]

\* The numbers that the total reads besides the rate and the raw states.
SizeFields(s) ==
    /\ s.parallel \in Nat /\ s.factoryDistance \in Nat \cup {Null}

\* There are so many of them, and they are good enough or not.
LEMMA PlanIsNumber ==
    ASSUME NEW w, NEW s
    PROVE  PlanOf(w, s).levels \in Nat /\ PlanOf(w, s).reached \in BOOLEAN
BY LevelsAreNumbers DEF PlanOf

\* A larger distance or more levels never make a smaller machine.
LEMMA TotalGrows ==
    ASSUME NEW w \in LegalWorkloads, NEW s, SizeFields(s),
           NEW d \in Nat, NEW D \in Nat, d <= D, NEW levels \in Nat, NEW Levels \in Nat, levels <= Levels
    PROVE  TotalOf(w, s, d, levels) \in Nat /\ TotalOf(w, s, d, levels) <= TotalOf(w, s, D, Levels)
<1> DEFINE occupied == OccupiedLogicalQubits(w.qubits, s.layout)
           at(x) == IF Known(s.factoryDistance) THEN s.factoryDistance ELSE x
           factories == IF NeedsFactory(w, s) THEN s.parallel ELSE 0
<1>1. occupied \in Nat /\ factories \in Nat
  BY OccupiedIsNumber DEF LegalWorkloads, Positive, SizeFields
<1>2. at(d) \in Nat /\ at(D) \in Nat /\ at(d) <= at(D)
  BY DEF SizeFields, Known
<1>3. \A x, y \in Nat : x <= y => /\ \A z \in Nat : x * z \in Nat /\ y * z \in Nat /\ x * z <= y * z
                                  /\ PerPatch(x) \in Nat /\ PerPatch(y) \in Nat /\ PerPatch(x) <= PerPatch(y)
  <2>1. \A x, y, z \in Nat : x <= y => x * z \in Nat /\ y * z \in Nat /\ x * z <= y * z /\ z * x <= z * y
    OBVIOUS
  <2>2. ASSUME NEW x \in Nat, NEW y \in Nat, x <= y
        PROVE  PerPatch(x) \in Nat /\ PerPatch(y) \in Nat /\ PerPatch(x) <= PerPatch(y)
    <3>1. x * x <= y * x /\ y * x <= y * y /\ x * x \in Nat /\ y * y \in Nat /\ y * x \in Nat
      BY <2>1, <2>2
    <3>2. PerPatch(x) = 2 * (x * x) /\ PerPatch(y) = 2 * (y * y)
      BY DEF PerPatch
    <3> QED
      BY <3>1, <3>2
  <2> QED
    BY <2>1, <2>2
<1>4. \A a, b, x, y \in Nat : a <= b /\ x <= y => a * x \in Nat /\ b * y \in Nat /\ a * x <= b * y
  <2> SUFFICES ASSUME NEW a \in Nat, NEW b \in Nat, NEW x \in Nat, NEW y \in Nat, a <= b, x <= y
               PROVE  a * x \in Nat /\ b * y \in Nat /\ a * x <= b * y
    OBVIOUS
  <2>1. a * x <= b * x /\ x * b <= y * b /\ a * x \in Nat /\ b * x \in Nat /\ b * y \in Nat
    BY <1>3, Naturals
  <2>2. x * b = b * x /\ y * b = b * y
    OBVIOUS
  <2> QED
    BY <2>1, <2>2
<1> HIDE DEF occupied, at, factories
<1>5. PerPatch(d) * occupied \in Nat /\ PerPatch(D) * occupied \in Nat /\ PerPatch(d) * occupied <= PerPatch(D) * occupied
  BY <1>1, <1>3
<1>6. /\ levels * STATES_PER_BLOCK \in Nat /\ Levels * STATES_PER_BLOCK \in Nat
      /\ levels * STATES_PER_BLOCK <= Levels * STATES_PER_BLOCK
  BY DEF STATES_PER_BLOCK
<1>7. /\ levels * STATES_PER_BLOCK * PerPatch(at(d)) \in Nat /\ Levels * STATES_PER_BLOCK * PerPatch(at(D)) \in Nat
      /\ levels * STATES_PER_BLOCK * PerPatch(at(d)) <= Levels * STATES_PER_BLOCK * PerPatch(at(D))
  BY <1>2, <1>3, <1>4, <1>6
<1>8. /\ levels * STATES_PER_BLOCK * PerPatch(at(d)) * factories \in Nat
      /\ Levels * STATES_PER_BLOCK * PerPatch(at(D)) * factories \in Nat
      /\ levels * STATES_PER_BLOCK * PerPatch(at(d)) * factories <= Levels * STATES_PER_BLOCK * PerPatch(at(D)) * factories
  BY <1>1, <1>3, <1>7
<1> QED
  BY <1>5, <1>8 DEF TotalOf, occupied, at, factories

\* It is what the evaluation reports, if the factories are sized.
LEMMA TotalIsReported ==
    ASSUME NEW w \in LegalWorkloads, NEW s, SizeFields(s), NEW d \in Nat
    PROVE  Feasible(w, s, d).total = IF PlanOf(w, s).reached THEN TotalOf(w, s, d, PlanOf(w, s).levels) ELSE Null
<1> DEFINE plan == PlanOf(w, s)
           factory == IF ~plan.reached THEN Null
                      ELSE plan.levels * STATES_PER_BLOCK
                           * PerPatch(IF Known(s.factoryDistance) THEN s.factoryDistance ELSE d)
                           * (IF NeedsFactory(w, s) THEN s.parallel ELSE 0)
<1>1. Feasible(w, s, d).total = IF Known(factory)
                                THEN PerPatch(d) * OccupiedLogicalQubits(w.qubits, s.layout) + factory ELSE Null
  BY Zenon DEF Feasible, PlanOf
<1>2. CASE ~plan.reached
  BY <1>1, <1>2 DEF Known
<1>3. CASE plan.reached
  <2>1. factory \in Nat
    <3>1. plan.levels * STATES_PER_BLOCK \in Nat
      BY PlanIsNumber, Naturals DEF STATES_PER_BLOCK
    <3>2. PerPatch(IF Known(s.factoryDistance) THEN s.factoryDistance ELSE d) \in Nat
      BY Naturals DEF SizeFields, Known, PerPatch
    <3>3. plan.levels * STATES_PER_BLOCK * PerPatch(IF Known(s.factoryDistance) THEN s.factoryDistance ELSE d) \in Nat
      <4> HIDE DEF plan
      <4> QED
        BY <3>1, <3>2, Naturals
    <3>4. (IF NeedsFactory(w, s) THEN s.parallel ELSE 0) \in Nat
      BY DEF SizeFields
    <3> HIDE DEF plan
    <3> QED
      BY <1>3, <3>3, <3>4, Naturals
  <2>2. Known(factory)
    BY <2>1, EstimatorAssumption DEF Known
  <2> QED
    BY <1>1, <1>3, <2>2, Zenon DEF TotalOf
<1>4. plan.reached \in BOOLEAN
  BY PlanIsNumber
<1> QED
  BY <1>2, <1>3

\* What the search keeps of the scenario.
LEMMA AtRateFields ==
    ASSUME NEW s, LegalScenario(s), NEW rate \in Int
    PROVE  LET at == AtRate(s, rate)
           IN  /\ at.rate = rate /\ at.raw = Lesser(rate + THRESHOLD_QUALITY, s.goal - 3)
               /\ at.parallel = s.parallel /\ at.factoryDistance = s.factoryDistance /\ at.layout = s.layout
               /\ at.prefactor = s.prefactor /\ at.budget = s.budget /\ at.goal = s.goal
               /\ at.protocol = s.protocol /\ at.toffoliCost = s.toffoliCost
               /\ SizeFields(at)
<1>1. {"rate", "raw", "parallel", "factoryDistance", "layout", "prefactor", "budget", "goal", "protocol",
       "toffoliCost"} \subseteq DOMAIN s
  BY DEF LegalScenario, LegalValue
<1>2. s.parallel \in Nat /\ s.factoryDistance \in Nat \cup {Null}
  BY LegalFields
<1> QED
  BY <1>1, <1>2 DEF AtRate, SizeFields

\* A lower error rate is met by no greater distance.
LEMMA DistanceFalls ==
    ASSUME NEW w, NEW s, NEW better, s.rate \in Int, better.rate \in Int, s.rate <= better.rate,
           Halvings(w, better) = Halvings(w, s), Known(RequiredCodeDistance(w, s))
    PROVE  /\ RequiredCodeDistance(w, s) \in Nat /\ RequiredCodeDistance(w, better) \in Nat
           /\ RequiredCodeDistance(w, better) <= RequiredCodeDistance(w, s)
           /\ ~AboveThreshold(s) /\ ~AboveThreshold(better)
<1>1. Distances(w, s) \subseteq Nat /\ Distances(w, better) \subseteq Nat
  BY EstimatorAssumption DEF Distances
<1>2. ~AboveThreshold(s) /\ Distances(w, s) # {} /\ RequiredCodeDistance(w, s) = Min(Distances(w, s))
  BY DEF RequiredCodeDistance, Known
<1>3. s.rate > 0 /\ better.rate > 0 /\ ~AboveThreshold(better)
  BY <1>2 DEF AboveThreshold
<1>4. ASSUME NEW d \in Distances(w, s) PROVE d \in Distances(w, better)
  <2>1. d \in 3 .. MaxDistance /\ d % 2 = 1 /\ s.rate * ((d + 1) \div 2) >= Halvings(w, s)
    BY DEF Distances, MeetsBudget
  <2>2. (d + 1) \div 2 \in Nat
    BY <2>1, EstimatorAssumption
  <2>3. \A x, y, z, n \in Nat : x <= y /\ x * z >= n => y * z >= n
    <3>1. \A x, y, z \in Nat : x <= y => x * z <= y * z /\ x * z \in Nat /\ y * z \in Nat
      OBVIOUS
    <3>2. \A x, y, z, n \in Nat : x <= y /\ y >= z /\ x >= n => y >= n
      OBVIOUS
    <3>3. ASSUME NEW x \in Nat, NEW y \in Nat, NEW z \in Nat, NEW n \in Nat, x <= y, x * z >= n PROVE y * z >= n
      <4>1. x * z <= y * z /\ x * z \in Nat /\ y * z \in Nat
        BY <3>1, <3>3
      <4> QED
        BY <3>3, <4>1
    <3> QED
      BY <3>3
  <2>4. better.rate * ((d + 1) \div 2) >= Halvings(w, better)
    BY <1>3, <2>1, <2>2, <2>3, HalvingsAreNumbers
  <2> QED
    BY <2>1, <2>4 DEF Distances, MeetsBudget
<1>5. Min(Distances(w, s)) \in Distances(w, s)
  BY <1>1, <1>2, MinIsLeast
<1>6. /\ Min(Distances(w, better)) \in Distances(w, better)
      /\ Min(Distances(w, better)) <= Min(Distances(w, s))
  BY <1>1, <1>4, <1>5, MinIsLeast
<1>7. RequiredCodeDistance(w, better) = Min(Distances(w, better))
  BY <1>3, <1>6 DEF RequiredCodeDistance
<1> QED
  BY <1>1, <1>2, <1>3, <1>5, <1>6, <1>7

\* What is evaluated once there is a distance.
LEMMA FeasibleEvaluation ==
    ASSUME NEW w, NEW s
    PROVE  /\ Evaluate(w, s).feasible =>
                Known(RequiredCodeDistance(w, s)) /\ Evaluate(w, s) = Feasible(w, s, RequiredCodeDistance(w, s))
           /\ ~AboveThreshold(s) /\ Known(RequiredCodeDistance(w, s)) =>
                Evaluate(w, s).feasible /\ Evaluate(w, s) = Feasible(w, s, RequiredCodeDistance(w, s))
<1>1. /\ \A code : Infeasible(w, s, code).feasible = FALSE
      /\ \A d : Feasible(w, s, d).feasible = TRUE
  BY Zenon DEF Infeasible, Feasible
<1> QED
  BY <1>1 DEF Evaluate

\* A machine that fits at an error rate fits at any lower one.
LEMMA FitsWithFewerErrors ==
    ASSUME NEW w \in LegalWorkloads, NEW s, LegalScenario(s), s.capacity \in Nat,
           NEW rate \in Int, NEW better \in Int, rate <= better, FitsAt(w, s, rate)
    PROVE  FitsAt(w, s, better)
<1> DEFINE at == AtRate(s, rate)
           then == AtRate(s, better)
           d == RequiredCodeDistance(w, at)
           D == RequiredCodeDistance(w, then)
<1>0. s.goal \in Nat
  <2>1. "goal" \in DOMAIN LegalValue /\ LegalValue["goal"] = Nat
    BY DEF LegalValue
  <2> QED
    BY <2>1 DEF LegalScenario
<1>1. /\ at.rate = rate /\ then.rate = better /\ at.goal = s.goal /\ then.goal = s.goal
      /\ at.raw \in Int /\ then.raw \in Int /\ at.raw <= then.raw
  BY <1>0, AtRateFields DEF Lesser, THRESHOLD_QUALITY
<1>2. SizeFields(at) /\ SizeFields(then)
  BY AtRateFields
<1>3. /\ Halvings(w, then) = Halvings(w, at)
      /\ Undetermined(w, then) = Undetermined(w, at)
      /\ NeedsFactory(w, then) = NeedsFactory(w, at)
      /\ \A x, levels : TotalOf(w, then, x, levels) = TotalOf(w, at, x, levels)
  <2>1. /\ then.parallel = at.parallel /\ then.factoryDistance = at.factoryDistance /\ then.layout = at.layout
        /\ then.prefactor = at.prefactor /\ then.budget = at.budget
        /\ then.protocol = at.protocol /\ then.toffoliCost = at.toffoliCost
    BY AtRateFields
  <2> HIDE DEF at, then
  <2>2. MagicStates(w, then) = MagicStates(w, at) /\ Demand(w, then) = Demand(w, at)
    BY <2>1 DEF MagicStates, Demand
  <2>3. NeedsFactory(w, then) = NeedsFactory(w, at) /\ Undetermined(w, then) = Undetermined(w, at)
    BY <2>1, <2>2 DEF NeedsFactory, Undetermined
  <2> QED
    BY <2>1, <2>2, <2>3 DEF Halvings, TotalOf
<1>4. /\ Evaluate(w, at).feasible /\ Known(Evaluate(w, at).total) /\ Evaluate(w, at).total <= at.capacity
      /\ at.capacity = s.capacity /\ then.capacity = s.capacity
  <2>1. "capacity" \in DOMAIN s
    BY DEF LegalScenario, LegalValue
  <2> QED
    BY <2>1 DEF FitsAt, AtRate
<1> HIDE DEF at, then
<1>5. Known(d) /\ Evaluate(w, at).total = Feasible(w, at, d).total
  BY <1>4, FeasibleEvaluation
<1>6. d \in Nat /\ D \in Nat /\ D <= d /\ ~AboveThreshold(then)
  BY <1>1, <1>3, <1>5, DistanceFalls
<1>7. Evaluate(w, then).feasible /\ Evaluate(w, then) = Feasible(w, then, D)
  BY <1>6, FeasibleEvaluation, EstimatorAssumption DEF Known
<1>8. PlanOf(w, at).reached /\ Feasible(w, at, d).total = TotalOf(w, at, d, PlanOf(w, at).levels)
  BY <1>2, <1>4, <1>5, <1>6, TotalIsReported DEF Known
<1>9. PlanOf(w, then).reached /\ PlanOf(w, then).levels <= PlanOf(w, at).levels
  <2>1. CASE Undetermined(w, at)
    BY <1>8, <2>1 DEF PlanOf
  <2>2. CASE ~Undetermined(w, at) /\ NeedsFactory(w, at)
    <3>1. PlanOf(w, at) = RequiredLevels(at.raw, s.goal) /\ PlanOf(w, then) = RequiredLevels(then.raw, s.goal)
      BY <1>1, <1>3, <2>2 DEF PlanOf
    <3> QED
      BY <1>0, <1>1, <1>8, <3>1, LevelsFall
  <2>3. CASE ~Undetermined(w, at) /\ ~NeedsFactory(w, at)
    BY <1>3, <2>3 DEF PlanOf
  <2> QED
    BY <2>1, <2>2, <2>3
<1>10. /\ Feasible(w, then, D).total = TotalOf(w, at, D, PlanOf(w, then).levels)
       /\ TotalOf(w, at, D, PlanOf(w, then).levels) \in Nat
       /\ TotalOf(w, at, D, PlanOf(w, then).levels) <= TotalOf(w, at, d, PlanOf(w, at).levels)
  BY <1>2, <1>3, <1>6, <1>9, PlanIsNumber, TotalIsReported, TotalGrows
<1>11. TotalOf(w, at, d, PlanOf(w, at).levels) \in Nat
  BY <1>2, <1>6, PlanIsNumber, TotalGrows
<1>12. Known(Evaluate(w, then).total) /\ Evaluate(w, then).total <= s.capacity
  BY <1>4, <1>5, <1>7, <1>8, <1>10, <1>11, EstimatorAssumption DEF Known
<1>13. FitsAt(w, s, better)
  BY <1>4, <1>7, <1>12 DEF FitsAt, then
<1> QED
  BY <1>13

\* The bisection's equation, of a function f of the rates that fit.
Bisects(f, fitting) ==
    f = [bracket \in Nat \X Nat |->
            LET low == bracket[1]
                high == bracket[2]
                middle == (low + high) \div 2
            IN IF low - high <= 1 THEN low
               ELSE IF middle \in fitting THEN f[<<middle, high>>] ELSE f[<<low, middle>>]]

\* The highest rate (the least exponent) between the two that fits, if any does
\* but the lowest.
BestBetween(m, low, high, fitting) ==
    /\ m \in high + 1 .. low
    /\ m \in fitting \/ m = low
    /\ \A k \in high + 1 .. low : k < m => k \notin fitting

\* If whatever is lower than a rate that fits does too, the equation has a solution.
LEMMA BisectionExists ==
    ASSUME NEW fitting, \A k \in fitting, m \in Nat : k <= m => m \in fitting
    PROVE  \E f : Bisects(f, fitting)
<1> DEFINE Best(low, high) == CHOOSE m \in Nat : BestBetween(m, low, high, fitting)
           g == [b \in Nat \X Nat |-> IF b[1] - b[2] <= 1 THEN b[1] ELSE Best(b[1], b[2])]
<1>1. ASSUME NEW low \in Nat, NEW high \in Nat, low > high
      PROVE  /\ \E m \in Nat : BestBetween(m, low, high, fitting)
             /\ \A m, n \in Nat : BestBetween(m, low, high, fitting) /\ BestBetween(n, low, high, fitting) => m = n
  <2> DEFINE T == {m \in high + 1 .. low : m \in fitting \/ m = low}
  <2>1. low \in T /\ T \subseteq Nat
    BY <1>1
  <2>2. PICK m \in T : \A k \in T : m <= k
    <3> HIDE DEF T
    <3> QED
      BY <2>1, LeastExists
  <2>3. BestBetween(m, low, high, fitting)
    BY <1>1, <2>2 DEF BestBetween
  <2>4. ASSUME NEW a \in Nat, NEW b \in Nat, BestBetween(a, low, high, fitting), BestBetween(b, low, high, fitting)
        PROVE  a = b
    <3>1. ~(a < b) /\ ~(b < a)
      BY <2>4 DEF BestBetween
    <3> QED
      BY <3>1
  <2> QED
    BY <2>1, <2>3, <2>4
<1>2. ASSUME NEW low \in Nat, NEW high \in Nat, low > high
      PROVE  BestBetween(g[<<low, high>>], low, high, fitting) /\ g[<<low, high>>] \in Nat
  <2>1. CASE low - high <= 1
    <3>1. g[<<low, high>>] = low /\ low = high + 1
      BY <1>2, <2>1
    <3> HIDE DEF g
    <3> QED
      BY <3>1 DEF BestBetween
  <2>2. CASE ~(low - high <= 1)
    <3>1. g[<<low, high>>] = Best(low, high)
      BY <2>2
    <3>2. Best(low, high) \in Nat /\ BestBetween(Best(low, high), low, high, fitting)
      BY <1>1, <1>2
    <3> QED
      BY <3>1, <3>2
  <2> QED
    BY <2>1, <2>2
<1>3. ASSUME NEW low \in Nat, NEW high \in Nat
      PROVE  g[<<low, high>>] = LET middle == (low + high) \div 2
                            IN IF low - high <= 1 THEN low
                               ELSE IF middle \in fitting THEN g[<<middle, high>>] ELSE g[<<low, middle>>]
  <2> DEFINE middle == (low + high) \div 2
  <2>1. CASE low - high <= 1
    BY <2>1
  <2>2. CASE ~(low - high <= 1)
    <3>1. middle \in Nat /\ high < middle /\ middle < low /\ low > high
      BY <2>2
    <3> HIDE DEF g, middle
    <3>2. BestBetween(g[<<low, high>>], low, high, fitting) /\ g[<<low, high>>] \in Nat
      BY <1>2, <3>1
    <3>3. CASE middle \in fitting
      <4>1. BestBetween(g[<<middle, high>>], middle, high, fitting) /\ g[<<middle, high>>] \in Nat
        BY <1>2, <3>1
      <4>2. BestBetween(g[<<middle, high>>], low, high, fitting)
        BY <3>1, <3>3, <4>1 DEF BestBetween
      <4>3. g[<<low, high>>] = g[<<middle, high>>]
        BY <1>1, <3>1, <3>2, <4>1, <4>2
      <4> QED
        BY <2>2, <3>3, <4>3 DEF middle
    <3>4. CASE middle \notin fitting
      <4>1. BestBetween(g[<<low, middle>>], low, middle, fitting) /\ g[<<low, middle>>] \in Nat
        BY <1>2, <3>1
      <4>2. \A k \in Nat : k <= middle => k \notin fitting
        BY <3>1, <3>4
      <4>3. BestBetween(g[<<low, middle>>], low, high, fitting)
        BY <3>1, <4>1, <4>2 DEF BestBetween
      <4>4. g[<<low, high>>] = g[<<low, middle>>]
        BY <1>1, <3>1, <3>2, <4>1, <4>3
      <4> QED
        BY <2>2, <3>4, <4>4 DEF middle
    <3> QED
      BY <3>3, <3>4
  <2> QED
    BY <2>1, <2>2
<1>4. Bisects(g, fitting)
  <2>1. g = [b \in Nat \X Nat |-> g[b]]
    OBVIOUS
  <2>2. \A b \in Nat \X Nat : b = <<b[1], b[2]>> /\ b[1] \in Nat /\ b[2] \in Nat
    OBVIOUS
  <2> HIDE DEF g
  <2> QED
    BY <1>3, <2>1, <2>2 DEF Bisects
<1> QED
  BY <1>4

\* A solution ends between a rate that fits and the next, which does not.
LEMMA BisectionEnds ==
    ASSUME NEW fitting, NEW f, Bisects(f, fitting),
           NEW from \in Nat, NEW to \in Nat, from > to, from \in fitting, to \notin fitting
    PROVE  f[<<from, to>>] \in Nat \ {0} /\ f[<<from, to>>] \in fitting /\ f[<<from, to>>] - 1 \notin fitting
<1> DEFINE Ends(m) == m \in Nat \ {0} /\ m \in fitting /\ m - 1 \notin fitting
           Open(low, high) == low > high /\ low \in fitting /\ high \notin fitting
           T == {n \in Nat : \E low, high \in Nat : n = low - high /\ Open(low, high) /\ ~Ends(f[<<low, high>>])}
<1>1. ASSUME T # {} PROVE FALSE
  <2>0. T \subseteq Nat
    OBVIOUS
  <2>1. PICK n \in T : \A k \in T : n <= k
    <3> HIDE DEF T
    <3> QED
      BY <1>1, <2>0, LeastExists
  <2>2. PICK low \in Nat, high \in Nat : n = low - high /\ Open(low, high) /\ ~Ends(f[<<low, high>>])
    BY <2>1
  <2> DEFINE middle == (low + high) \div 2
  <2>3. f[<<low, high>>] = IF low - high <= 1 THEN low
                       ELSE IF middle \in fitting THEN f[<<middle, high>>] ELSE f[<<low, middle>>]
    BY Zenon DEF Bisects
  <2>4. CASE low - high <= 1
    <3>1. f[<<low, high>>] = low /\ high = low - 1
      BY <2>2, <2>3, <2>4
    <3> QED
      BY <2>2, <3>1
  <2>5. CASE ~(low - high <= 1)
    <3>1. middle \in Nat /\ high < middle /\ middle < low
      BY <2>2, <2>5
    <3> HIDE DEF middle, Ends
    <3>2. CASE middle \in fitting
      <4>1. Open(middle, high) /\ middle - high \in Nat /\ middle - high < n
        BY <2>2, <3>1, <3>2
      <4>2. ~Ends(f[<<middle, high>>]) => middle - high \in T
        BY <3>1, <4>1
      <4>3. middle - high \notin T
        <5> HIDE DEF T, Open
        <5> QED
          BY <2>0, <2>1, <4>1
      <4> QED
        BY <2>2, <2>3, <2>5, <3>2, <4>2, <4>3
    <3>3. CASE middle \notin fitting
      <4>1. Open(low, middle) /\ low - middle \in Nat /\ low - middle < n
        BY <2>2, <3>1, <3>3
      <4>2. ~Ends(f[<<low, middle>>]) => low - middle \in T
        BY <3>1, <4>1
      <4>3. low - middle \notin T
        <5> HIDE DEF T, Open
        <5> QED
          BY <2>0, <2>1, <4>1
      <4> QED
        BY <2>2, <2>3, <2>5, <3>3, <4>2, <4>3
    <3> QED
      BY <3>2, <3>3
  <2> QED
    BY <2>4, <2>5
<1>2. from - to \in Nat /\ Open(from, to)
  OBVIOUS
<1>3. ~Ends(f[<<from, to>>]) => from - to \in T
  <2> HIDE DEF Ends, Open
  <2> QED
    BY <1>2
<1>4. from - to \notin T
  BY <1>1
<1> HIDE DEF T, Open
<1>5. Ends(f[<<from, to>>])
  BY <1>3, <1>4
<1> QED
  BY <1>5

\* The search's result is that of a solution of its equation.
LEMMA BisectSolves ==
    ASSUME NEW w \in LegalWorkloads, NEW s, LegalScenario(s), s.capacity \in Nat, NEW from \in Nat, NEW to \in Nat
    PROVE  \E f : Bisects(f, {r \in Nat : FitsAt(w, s, r)}) /\ Bisect(w, s, from, to) = f[<<from, to>>]
<1> DEFINE fitting == {r \in Nat : FitsAt(w, s, r)}
           Follows(f) ==
              f = [bracket \in Nat \X Nat |->
                    LET low == bracket[1]
                        high == bracket[2]
                        middle == (low + high) \div 2
                    IN IF low - high <= 1 THEN low
                       ELSE IF FitsAt(w, s, middle) THEN f[<<middle, high>>] ELSE f[<<low, middle>>]]
<1>1. Bisect(w, s, from, to) = (CHOOSE f : Follows(f))[<<from, to>>]
  BY DEF Bisect
<1>2. ASSUME NEW f PROVE Follows(f) <=> Bisects(f, fitting)
  <2>1. ASSUME NEW bracket \in Nat \X Nat
        PROVE  FitsAt(w, s, (bracket[1] + bracket[2]) \div 2) <=> (bracket[1] + bracket[2]) \div 2 \in fitting
    <3>1. (bracket[1] + bracket[2]) \div 2 \in Nat
      OBVIOUS
    <3> QED
      BY <3>1
  <2> HIDE DEF fitting
  <2> QED
    BY <2>1 DEF Bisects
<1>3. \A k \in fitting, m \in Nat : k <= m => m \in fitting
  <2>1. ASSUME NEW k \in fitting, NEW m \in Nat, k <= m PROVE m \in fitting
    BY <2>1, FitsWithFewerErrors
  <2> QED
    BY <2>1
<1> HIDE DEF fitting, Follows
<1>4. \E f : Follows(f)
  BY <1>2, <1>3, BisectionExists
<1> QED
  BY <1>1, <1>2, <1>4 DEF fitting

\* The ceiling of the search is a number.
LEMMA CeilingIsNumber ==
    ASSUME NEW w, NEW s
    PROVE  MaxErrorRateForFeasibility(w, s) \in Nat
<1> DEFINE K == (MaxDistance + 1) \div 2
           needed == Halvings(w, s)
           Enough == {r \in 0 .. needed : r * K >= needed}
<1>1. K \in Nat /\ K >= 2 /\ needed \in Nat
  BY EstimatorAssumption, HalvingsAreNumbers
<1>2. needed \in Enough /\ Enough \subseteq Nat
  BY <1>1
<1> HIDE DEF Enough
<1>3. Min(Enough) \in Nat
  BY <1>2, MinIsLeast
<1> QED
  BY <1>3 DEF MaxErrorRateForFeasibility, Enough

\* A stated rate above the search's floor fits exactly if it is within the
\* rate that the search finds.
LEMMA CapacityRate ==
    ASSUME NEW w \in LegalWorkloads, NEW s, LegalScenario(s), NEW b
    PROVE  CapacityRateAgrees(s, Evaluate(w, s), ComputeAdvantageThresholds(w, s, b))
<1> DEFINE e == Evaluate(w, s)
           t == ComputeAdvantageThresholds(w, s, b)
           high == MaxErrorRateForFeasibility(w, s)
           low == high + BISECTION_SPAN
           found == MaxErrorRateWithinCapacity(w, s)
<1>1. t.maxErrorRate = high /\ t.maxErrorRateWithinCapacity = found
  BY DEF ComputeAdvantageThresholds, ThresholdsOf
<1>2. e.feasible <=> s.rate > 0 /\ s.rate >= high
  BY <1>1, FeasibleRate DEF FeasibleRateAgrees
<1>3. s.rate \in Int /\ high \in Nat /\ low \in Nat /\ high < low
  <2>1. "rate" \in DOMAIN LegalValue /\ LegalValue["rate"] \subseteq Int
    BY DEF LegalValue
  <2>2. s.rate \in Int
    BY <2>1 DEF LegalScenario
  <2> QED
    BY <2>2, CeilingIsNumber DEF BISECTION_SPAN
<1> SUFFICES ASSUME Known(s.capacity), s = AtRate(s, s.rate), s.rate <= low
             PROVE  Known(e.total) /\ e.total <= s.capacity <=> Known(found) /\ s.rate >= found
  BY <1>1 DEF CapacityRateAgrees
<1>4. s.capacity \in Nat
  BY LegalFields DEF Known
<1>5. FitsAt(w, s, s.rate) <=> Known(e.total) /\ e.total <= s.capacity
  <2>1. Known(e.total) => e.feasible
    BY EvaluateIsEvaluated DEF Evaluated
  <2> QED
    BY <2>1, Zenon DEF FitsAt
<1>6. FitsAt(w, s, s.rate) => e.feasible
  BY Zenon DEF FitsAt
<1>7. \A rate, better \in Int : rate <= better /\ FitsAt(w, s, rate) => FitsAt(w, s, better)
  BY <1>4, FitsWithFewerErrors
<1>8. found = IF ~FitsAt(w, s, low) THEN Null ELSE IF FitsAt(w, s, high) THEN high ELSE Bisect(w, s, low, high)
  BY DEF MaxErrorRateWithinCapacity
<1> HIDE DEF e, t, high, low, found
<1>9. CASE ~FitsAt(w, s, low)
  BY <1>3, <1>5, <1>7, <1>8, <1>9 DEF Known
<1>10. CASE FitsAt(w, s, low) /\ FitsAt(w, s, high)
  <2>1. found = high /\ Known(found)
    BY <1>3, <1>8, <1>10, EstimatorAssumption DEF Known
  <2> QED
    BY <1>2, <1>3, <1>5, <1>6, <1>7, <1>10, <2>1
<1>11. CASE FitsAt(w, s, low) /\ ~FitsAt(w, s, high)
  <2> DEFINE fitting == {r \in Nat : FitsAt(w, s, r)}
  <2>1. PICK f : Bisects(f, fitting) /\ found = f[<<low, high>>]
    <3> HIDE DEF fitting
    <3> QED
      BY <1>3, <1>4, <1>8, <1>11, BisectSolves DEF fitting
  <2>2. low \in fitting /\ high \notin fitting
    BY <1>3, <1>11
  <2>3. found \in Nat \ {0} /\ found \in fitting /\ found - 1 \notin fitting
    <3> HIDE DEF fitting
    <3> QED
      BY <1>3, <2>1, <2>2, BisectionEnds
  <2>4. FitsAt(w, s, found) /\ ~FitsAt(w, s, found - 1) /\ Known(found)
    BY <2>3, EstimatorAssumption DEF Known
  <2>5. s.rate >= found \/ s.rate <= found - 1
    BY <1>3, <2>3
  <2> QED
    BY <1>3, <1>5, <1>7, <2>3, <2>4, <2>5
<1> QED
  BY <1>9, <1>10, <1>11

\* ThresholdsAgree holds in every state that satisfies the invariant: the one
\* threshold without a formula agrees with the evaluation as well.
THEOREM ThresholdsAgreement == Spec => []ThresholdsAgree
<1> DEFINE content == file.content
           rebuilt == BuildBundle(content.workload, content.baseline, content.scenarios).content
<1>1. ASSUME IntelligenceInv, Trusted, NEW i \in DOMAIN content.scenarios
      PROVE  CapacityRateAgrees(content.scenarios[i], Evaluate(content.workload, content.scenarios[i]),
                                content.thresholds[i])
  <2>1. LegalInputs(content.workload, content.baseline, content.scenarios) /\ content.thresholds = rebuilt.thresholds
    BY <1>1, TrustedResults DEF Results
  <2>2. content.thresholds[i] = ComputeAdvantageThresholds(content.workload, content.scenarios[i], content.baseline)
    BY <2>1, BundleResults
  <2>3. content.workload \in LegalWorkloads /\ LegalScenario(content.scenarios[i])
    BY <1>1, <2>1 DEF LegalInputs
  <2> QED
    BY <2>2, <2>3, CapacityRate
<1>2. IntelligenceInv /\ ConditionsAgree => ThresholdsAgree
  BY <1>1 DEF ThresholdsAgree
<1> QED
  BY <1>2, IntelligenceInvariance, ConditionsAgreement, PTL

=============================================================================
