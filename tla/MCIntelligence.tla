--------------------------- MODULE MCIntelligence ---------------------------
(***************************************************************************)
(* Documents for TLC: a circuit of each kind the estimator tells apart,    *)
(* baselines and prices on either side of the break-even, constraints on   *)
(* either side of what the machine needs.                                  *)
(***************************************************************************)
EXTENDS Intelligence

Workload(qubits, depth, t, toffoli, unsupported) ==
    [qubits |-> qubits, depth |-> depth, t |-> t, toffoli |-> toffoli, unsupported |-> unsupported,
     evidence |-> "DERIVED", demo |-> FALSE]

MCWorkloads ==
    {Workload(2, 5, 0, 0, 0),       \* Clifford only
     Workload(2, 5, 1, 1, 1),       \* T gates, and one gate still to synthesize
     Workload(1, 30, 1, 0, 0),      \* long, with few magic states
     Workload(1, 0, 0, 0, 2)}       \* nothing synthesized: no T count

Baseline(runtime, cost) == [evidence |-> "MEASURED", runtime |-> runtime, cost |-> cost]

MCBaselines == {Null, Baseline(600, Null), Baseline(Null, 3000), Baseline(1100, 2500)}

Economics(machine, qubit, basis) == [machine |-> machine, qubit |-> qubit, basis |-> basis]

Options(capacity, target, layout, economics) ==
    [capacity |-> capacity, target |-> target, layout |-> layout, economics |-> economics]

Prices == {Null, Economics(3, Null, "USER_PROVIDED"), Economics(Null, 1, "PUBLISHED_QUOTE")}

MCPresetOptions ==
    {Options(Null, Null, "LATTICE_SURGERY_2D", p) : p \in Prices}
    \cup {Options(1500, 1000, "LATTICE_SURGERY_2D", p) : p \in Prices}
    \cup {Options(2000, Null, "BARE_REGISTER", Economics(3, Null, "USER_PROVIDED")),
          Options(Null, 1000, "LATTICE_SURGERY_2D", Economics(0, Null, "USER_PROVIDED"))}

MCSelections == {{"CONSERVATIVE", "OPTIMISTIC"}, {"BASE"}}

MCChanges ==
    {[rate |-> 0], [rate |-> 1, raw |-> 8], [rate |-> 3, raw |-> 2], [rate |-> 3],
     [protocol |-> "NONE"], [parallel |-> 3, factoryDistance |-> 3], [prefactor |-> 10, budget |-> 100],
     [confidence |-> "HIGH", basis |-> "OBSERVATION"],
     [goal |-> 5], [factoryDistance |-> 4]}      \* refused

=============================================================================
