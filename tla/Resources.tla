------------------------------ MODULE Resources ------------------------------
(***************************************************************************)
(* What a circuit is said to need: the static counts of                    *)
(* src/engine/resources.ts, the depth of src/engine/transpile.ts, the      *)
(* optimizer's own counts in src/engine/zx.ts, and the workload that       *)
(* src/intelligence/workload.ts makes of them for the estimator.           *)
(***************************************************************************)
EXTENDS CircuitRewrites, Estimator

CLIFFORD_GATES == {"id", "x", "y", "z", "h", "s", "sdg", "sx", "cx", "cz", "cy", "swap"}
T_GATES == {"t", "tdg"}

\* The body of a condition counts as if it were unconditional.
Count(ops, Test(_)) == Cardinality({i \in DOMAIN ops : Test(ops[i])})

Gates(ops, Test(_)) == Count(ops, LAMBDA op : op.kind = "gate" /\ Test(op))

\* A barrier occupies no qubit.
LayeredOn(op) == IF op.kind = "barrier" THEN {} ELSE ToQubits(op)

\* An operation is one layer above the highest of the earlier ones that share
\* a qubit with it: the map from each qubit to the layer of the last operation
\* on it says no more.
LayerOf(ops) ==
    LET layer[i \in DOMAIN ops] ==
            LET below == {j \in 1 .. i - 1 : LayeredOn(ops[j]) \cap LayeredOn(ops[i]) # {}}
            IN  IF LayeredOn(ops[i]) = {} THEN 0 ELSE Max({layer[j] : j \in below} \cup {0}) + 1
    IN  layer

CircuitDepth(ops) == Max(Range(LayerOf(ops)) \cup {0})

-----------------------------------------------------------------------------
(* The summary printed of a circuit, by graph.ts.                          *)

GateCount(ops) == Gates(ops, LAMBDA op : TRUE)

TwoQubitGateCount(ops) == Gates(ops, LAMBDA op : Len(op.qubits) = 2)

\* Something other than a measurement or a barrier follows a measurement; a
\* conditional one is neither.
UsesMidCircuitMeasurement(ops) ==
    LET Is(i, kind) == ops[i].kind = kind /\ ops[i].cond = {}
    IN  \E i, j \in DOMAIN ops : i < j /\ Is(i, "measure") /\ ~Is(j, "measure") /\ ~Is(j, "barrier")

UsesClassicalControl(ops) == \E op \in ToSet(ops) : op.cond # {}

UsesReset(ops) == \E op \in ToSet(ops) : op.kind = "reset"

CircuitSummary(ops) ==
    [gates |-> GateCount(ops), twoQubit |-> TwoQubitGateCount(ops), depth |-> CircuitDepth(ops),
     features |-> {feature \in {"mid_circuit_measurement", "classical_control", "reset"} :
                    CASE feature = "mid_circuit_measurement" -> UsesMidCircuitMeasurement(ops)
                      [] feature = "classical_control"       -> UsesClassicalControl(ops)
                      [] feature = "reset"                   -> UsesReset(ops)}]

-----------------------------------------------------------------------------
EstimateResources(ops, n) ==
    [qubits      |-> n,
     depth       |-> CircuitDepth(ops),
     gates       |-> Gates(ops, LAMBDA op : TRUE),
     oneQubit    |-> Gates(ops, LAMBDA op : Len(op.qubits) = 1),
     twoQubit    |-> Gates(ops, LAMBDA op : Len(op.qubits) = 2),
     swap        |-> Gates(ops, LAMBDA op : op.name = "swap"),
     measure     |-> Count(ops, LAMBDA op : op.kind = "measure"),
     reset       |-> Count(ops, LAMBDA op : op.kind = "reset"),
     barrier     |-> Count(ops, LAMBDA op : op.kind = "barrier"),
     conditional |-> Count(ops, LAMBDA op : op.cond # {}),
     t           |-> Gates(ops, LAMBDA op : op.name \in T_GATES),
     clifford    |-> Gates(ops, LAMBDA op : op.name \in CLIFFORD_GATES),
     unsupported |-> Gates(ops, LAMBDA op : op.name \notin T_GATES \cup CLIFFORD_GATES)]

\* The optimizer's `before` and `after`.
CountGates(ops) ==
    [gates    |-> Gates(ops, LAMBDA op : TRUE),
     twoQubit |-> Gates(ops, LAMBDA op : Len(op.qubits) = 2),
     t        |-> Gates(ops, LAMBDA op : op.name \in T_GATES),
     depth    |-> CircuitDepth(ops)]

\* No gate on three qubits is modelled, so there is no Toffoli.
WorkloadFromResourceEstimate(r) ==
    [qubits |-> r.qubits, depth |-> r.depth, t |-> r.t, toffoli |-> 0, unsupported |-> r.unsupported,
     evidence |-> "DERIVED", demo |-> FALSE]

=============================================================================
