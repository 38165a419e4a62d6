------------------------------- MODULE Engine -------------------------------
(***************************************************************************)
(* The circuit engine as a user drives it: a program is read and printed;  *)
(* a circuit, or a ZX diagram that becomes one, is simplified, given       *)
(* decoupling pulses and routed onto a device, and every step but the      *)
(* decoupling comes with evidence that it changed nothing.                 *)
(*                                                                         *)
(* The functions are synchronous; their loops are steps here so that a     *)
(* wrong rewrite or a wrong layout is seen where it happens.               *)
(***************************************************************************)
EXTENDS Resources, ZxGraph, Qasm

CONSTANTS
    Sources,        \* circuits given to the engine: [n |-> qubits, ops |-> operations]
    Diagrams,       \* diagrams given to it
    Programs,       \* programs given to it, in OpenQASM
    Placements,     \* [device, layout]: a device and an initial layout on it
    VerifyLimits,   \* values of maxVerificationQubits
    MaxIterations,  \* sweeps of one optimization
    Scenarios       \* what the circuit is costed under

ASSUME PlacementAssumption ==
    \A p \in Placements : p.layout \in Seq(Nat) /\ IsFiniteSet(p.device.operational)

ASSUME ScenarioAssumption ==
    \A s \in Scenarios :
        /\ s.rate \in Int /\ s.factoryDistance \in Nat \cup {Null}
        /\ {s.prefactor, s.budget, s.cycle, s.toffoliCost, s.rounds, s.parallel} \subseteq Nat

VARIABLES
    stage,      \* what was last done
    text,       \* the program, and what was read: {} or {[program, read]}
    diagram,    \* the diagram, as given and as rewritten: {} or {[given, now]}
    circuit,    \* the circuit as given: [n, ops]
    working,    \* its operations after the transformations so far
    iterations, \* sweeps done
    evidence,   \* verdict of the last check
    route       \* the circuit being routed: {} or
                \* {[device, initial, layout, path, ops, done, swapCount, twoQubitGateCount]}

vars == <<stage, text, diagram, circuit, working, iterations, evidence, route>>

Init ==
    /\ \/ /\ stage = "given" /\ diagram = {} /\ text = {} /\ circuit \in Sources
       \/ /\ stage = "drawn" /\ text = {} /\ circuit = [n |-> 0, ops |-> <<>>]
          /\ diagram \in {{[given |-> g, now |-> g]} : g \in Diagrams}
       \/ /\ stage = "written" /\ diagram = {} /\ circuit = [n |-> 0, ops |-> <<>>]
          /\ text \in {{[program |-> p, read |-> InitialReader]} : p \in Programs}
    /\ working = circuit.ops
    /\ iterations = 0 /\ evidence = "none" /\ route = {}

-----------------------------------------------------------------------------
(***************************************************************************)
(* parseQasm3, emitQasm3 and emitQasm2.  What is read is a circuit like    *)
(* any of Sources, once its registers are laid side by side.               *)
(***************************************************************************)
Parse ==
    /\ stage = "written"
    /\ text' = {[t EXCEPT !.read = ParseQasm3(t.program)] : t \in text}
    /\ stage' = "read"
    /\ UNCHANGED <<diagram, circuit, working, iterations, evidence, route>>

Emission ==
    /\ stage = "read"
    /\ \E t \in text :
        /\ ~t.read.failed
        /\ \/ text' = {[t EXCEPT !.program = EmitQasm3(t.read)]}
           \/ HasQasm2Form(t.read) /\ text' = {[t EXCEPT !.program = EmitQasm2(t.read)]}
    /\ stage' = "printed"
    /\ UNCHANGED <<diagram, circuit, working, iterations, evidence, route>>

-----------------------------------------------------------------------------
(***************************************************************************)
(* applyVerified: a rewrite that applies, and the comparison of the maps.  *)
(***************************************************************************)
Rewritten(g, h) ==
    /\ diagram' = {[given |-> d.given, now |-> h] : d \in diagram}
    /\ evidence' = IF SameUpToScalar(LinearMap(g), LinearMap(h)) THEN "preserved" ELSE "changed"
    /\ UNCHANGED <<stage, text, circuit, working, iterations, route>>

Complement ==
    /\ stage = "drawn"
    /\ \E d \in diagram : \E id \in Spiders(d.now) :
        /\ Complementable(d.now, id)
        /\ Rewritten(d.now, LocalComplementation(d.now, id))

PivotPair ==
    /\ stage = "drawn"
    /\ \E d \in diagram : \E u, v \in Spiders(d.now) :
        /\ Pivotable(d.now, u, v)
        /\ Rewritten(d.now, Pivot(d.now, u, v))

\* extractVerified: the gates become a circuit like any other.
Extract ==
    /\ stage = "drawn"
    /\ \E d \in diagram :
        LET n == Len(d.now.inputs)
            gates == ExtractedGates(d.now)
        IN  /\ Extractable(d.now)
            /\ circuit' = [n |-> n, ops |-> gates]
            /\ working' = gates
            /\ evidence' = IF SameUpToScalar(LinearMap(d.now), UnitaryAsMap(gates, n))
                           THEN "matches" ELSE "differs"
    /\ stage' = "given"
    /\ UNCHANGED <<text, diagram, iterations, route>>

-----------------------------------------------------------------------------
(***************************************************************************)
(* optimizeWithZx.                                                         *)
(***************************************************************************)
Sweep ==
    /\ stage = "given"
    /\ iterations < MaxIterations
    /\ working' \in SweepOf(working)
    /\ iterations' = iterations + 1
    /\ UNCHANGED <<stage, text, diagram, circuit, evidence, route>>

\* The check runs each circuit once; a reset's random outcome is any outcome
\* that can happen.
Optimized ==
    /\ stage = "given"
    /\ iterations >= MaxIterations \/ SweepOf(working) = {}
    /\ \E maxQubits \in VerifyLimits, b \in FromZero(circuit.ops, circuit.n) :
        /\ \E i \in DOMAIN b.columns[0] : b.columns[0][i] # 0
        /\ evidence' = CircuitEquivalence(circuit.ops, working, circuit.n, maxQubits, b.past)
    /\ stage' = "optimized"
    /\ UNCHANGED <<text, diagram, circuit, working, iterations, route>>

ApplyDynamicalDecoupling ==
    /\ stage = "optimized"
    /\ \E name \in DOMAIN DECOUPLING_SEQUENCES :
        working' = Decoupled(working, DECOUPLING_SEQUENCES[name])
    /\ stage' = "decoupled"
    /\ evidence' = "none"
    /\ UNCHANGED <<text, diagram, circuit, iterations, route>>

-----------------------------------------------------------------------------
(***************************************************************************)
(* transpileForHardware.  A device has its operational qubits and the      *)
(* pairs of them that are coupled.                                         *)
(***************************************************************************)
Coupled(device, a, b) == {a, b} \in device.couplings

PathsBetween(device, from, to) ==
    {p \in UNION {[1 .. k -> device.operational] : k \in 1 .. Cardinality(device.operational)} :
        /\ p[1] = from /\ p[Len(p)] = to
        /\ \A i \in 1 .. Len(p) - 1 : Coupled(device, p[i], p[i + 1])}

ShortestPaths(device, from, to) ==
    LET paths == PathsBetween(device, from, to)
    IN  {p \in paths : \A other \in paths : Len(p) <= Len(other)}

\* Fault: the SWAP is emitted and the layout is not told.
SwapLogical_Stale(layout, a, b) == layout

SwapLogical(layout, a, b) ==
    [l \in DOMAIN layout |->
        IF layout[l] = a THEN b ELSE IF layout[l] = b THEN a ELSE layout[l]]

\* What is emitted for an operation is wrapped in its condition, the SWAPs
\* included; the wrapper tests the whole register.
Wrapped(op, cond) == [op EXCEPT !.cond = {[bit |-> Whole, equals |-> t.equals] : t \in cond}]

Placed(op, layout) ==
    [op EXCEPT !.cond = {}, !.qubits = [i \in DOMAIN @ |-> layout[@[i] + 1]]]

OnTwoQubits(op) == op.kind = "gate" /\ Len(op.qubits) = 2

RoutesOf(op, r) ==
    IF OnTwoQubits(op)
    THEN ShortestPaths(r.device, r.layout[op.qubits[1] + 1], r.layout[op.qubits[2] + 1])
    ELSE {<<>>}

\* Once chosen, a path is followed to its end.
PathsOf(op, r) == IF r.path # <<>> THEN {r.path} ELSE RoutesOf(op, r)

Transpile ==
    /\ stage \in {"given", "optimized", "decoupled"}
    /\ stage = "given" => iterations = 0
    /\ \E p \in Placements :
        /\ Len(p.layout) = circuit.n
        /\ ToSet(p.layout) \subseteq p.device.operational
        /\ route' = {[device |-> p.device, initial |-> p.layout, layout |-> p.layout,
                      path |-> <<>>, ops |-> <<>>, done |-> 0, swapCount |-> 0, twoQubitGateCount |-> 0]}
    /\ stage' = "routing"
    /\ evidence' = "none"
    /\ UNCHANGED <<text, diagram, circuit, working, iterations>>

\* Fault: the SWAPs are two-qubit gates as well.
Swapped_Counted(r, op, path) ==
    [r EXCEPT !.ops = Append(@, Wrapped(Gate("swap", <<path[1], path[2]>>), op.cond)),
              !.layout = SwapLogical(@, path[1], path[2]), !.path = Tail(path),
              !.swapCount = @ + 1, !.twoQubitGateCount = @ + 1]

\* One step of the first qubit's walk towards the second.
Swapped(r, op, path) ==
    [r EXCEPT !.ops = Append(@, Wrapped(Gate("swap", <<path[1], path[2]>>), op.cond)),
              !.layout = SwapLogical(@, path[1], path[2]), !.path = Tail(path), !.swapCount = @ + 1]

Emitted(r, op) ==
    [r EXCEPT !.ops = Append(@, Wrapped(Placed(op, r.layout), op.cond)), !.path = <<>>, !.done = @ + 1,
              !.twoQubitGateCount = @ + (IF OnTwoQubits(op) THEN 1 ELSE 0)]

EmitSwap ==
    /\ stage = "routing"
    /\ \E r \in route :
        /\ r.done < Len(working)
        /\ \E path \in PathsOf(working[r.done + 1], r) :
            Len(path) > 2 /\ route' = {Swapped(r, working[r.done + 1], path)}
    /\ UNCHANGED <<stage, text, diagram, circuit, working, iterations, evidence>>

EmitOperation ==
    /\ stage = "routing"
    /\ \E r \in route :
        /\ r.done < Len(working)
        /\ \E path \in PathsOf(working[r.done + 1], r) :
            Len(path) <= 2 /\ route' = {Emitted(r, working[r.done + 1])}
    /\ UNCHANGED <<stage, text, diagram, circuit, working, iterations, evidence>>

-----------------------------------------------------------------------------
(***************************************************************************)
(* verifyRouting.                                                          *)
(***************************************************************************)
StripMeasurements(ops) ==
    SelectSeq(ops, LAMBDA op : op.cond # {} \/ op.kind \notin {"measure", "reset"})

OffCoupling(r) ==
    {op \in ToSet(r.ops) : /\ IsGate(op) /\ Len(op.qubits) = 2
                           /\ ~Coupled(r.device, op.qubits[1], op.qubits[2])}

\* Physical qubits that carry nothing map to themselves.
CompleteLayout(r) ==
    LET spare == {q \in 0 .. r.device.size - 1 : q \notin ToSet(r.layout)}
    IN  r.layout \o SetToSortSeq(spare, <)

LogicalIndex(layout, i) ==
    FoldLeftDomain(LAMBDA sum, l : sum + Bit(i, layout[l]) * 2 ^ (l - 1), 0, layout)

RoutingVerdict(r) ==
    LET left == StripMeasurements(working)
        right == StripMeasurements(r.ops)
        State(ops, n) == (CHOOSE b \in FromZero(ops, n) : TRUE).columns[0]
        original == State(left, circuit.n)
        routed == State(right, r.device.size)
        Padded(i) == IF i \in DOMAIN original THEN original[i] ELSE 0
    IN  IF HasMeasurement(left) THEN "inconclusive"
        ELSE IF /\ OffCoupling(r) = {}
                /\ \A i \in DOMAIN routed : Padded(LogicalIndex(CompleteLayout(r), i)) = routed[i]
        THEN "equivalent"
        ELSE "differs"

VerifyRouting ==
    /\ stage = "routing"
    /\ \E r \in route : r.done = Len(working) /\ evidence' = RoutingVerdict(r)
    /\ stage' = "verified"
    /\ UNCHANGED <<text, diagram, circuit, working, iterations, route>>

-----------------------------------------------------------------------------
Next ==
    \/ Parse \/ Emission
    \/ Complement \/ PivotPair \/ Extract
    \/ Sweep \/ Optimized \/ ApplyDynamicalDecoupling
    \/ Transpile \/ EmitSwap \/ EmitOperation \/ VerifyRouting

Spec == Init /\ [][Next]_vars

-----------------------------------------------------------------------------
(***************************************************************************)
(* What is read of a program is what the program says: its operations, in  *)
(* order, each under the conditions of its block, registers spread, custom *)
(* gates inlined with every formal replaced at once; each call's span      *)
(* holds the call's operations and lies in its caller's; and what is       *)
(* printed, in either dialect, reads back as the same circuit, with        *)
(* nothing lost but an older spelling (qasm3.ts: the circuit that ran must *)
(* not stop "being the circuit the author wrote"; "Inlining is exact";     *)
(* "these say which operations came from it"; emission "in the same shape  *)
(* it was read"; qasm2.ts: "anything present here means the same as it did *)
(* in OpenQASM 3").  The reading of the programs of TakenWrongly is        *)
(* excepted: none of this holds for them.                                  *)
(***************************************************************************)
ReadAsWritten ==
    \A t \in text :
        /\ stage = "read" /\ ~t.read.failed /\ WellFormed(t.program)
               /\ ~TakenWrongly(t.program, t.read.qubits) =>
            LET At(i) == WrittenAt(t.program, i, t.read.qubits, t.read.clbits)
                Before(i) == MapThenSumSet(LAMBDA j : Len(At(j)), 1 .. i - 1)
                calls == {i \in DOMAIN t.program : Inner(t.program, i, "gate") = {}
                                                   /\ IsCustom(GatesBefore(t.program, i), t.program[i])}
                spans == ToSet(t.read.spans)
            IN  /\ t.read.ops = Written(t.program, t.read.qubits, t.read.clbits)
                /\ {<<s.name, s.start, s.end>> : s \in {u \in spans : u.depth = 0}}
                      = {<<t.program[i].name, Before(i), Before(i + 1)>> : i \in calls}
                /\ \A s \in spans : s.depth > 0 =>
                        \E u \in spans : u.depth = s.depth - 1 /\ u.start <= s.start /\ s.end <= u.end
        /\ stage = "printed" =>
            LET again == ParseQasm3(t.program)
            IN  /\ ~again.failed /\ again.ops = t.read.ops
                /\ t.program[1].number = 3 => again.loss = {}
                /\ "custom_gate_definition" \notin again.loss
                /\ ToSet(again.qubits) = ToSet(t.read.qubits) /\ again.clbits = t.read.clbits

(***************************************************************************)
(* No sweep, fusion, colour change or pulse changes what the circuit does: *)
(* after each of them, whatever the input and whatever the outcomes of its *)
(* measurements and resets, the classical bits are those of the circuit    *)
(* the user gave and the state differs by a global phase at most (zx.ts:   *)
(* "a small, named set of sound rewrites", applied only where valid).  And *)
(* the evidence never accuses them (RFC 0002 in differential.ts: FAILED    *)
(* "is reserved for an actual counterexample").                            *)
(***************************************************************************)
RewritesKeepMeaning ==
    /\ stage \in {"given", "optimized", "decoupled"} => SameMeaning(circuit.ops, working, circuit.n)
    /\ evidence # "FAILED"

(***************************************************************************)
(* Any sequence of local complementations and pivots leaves the diagram's  *)
(* linear map as it was, up to a scalar, and the circuit finally extracted *)
(* has that map (zx-graph.ts: "Both rules preserve the diagram's linear    *)
(* map exactly, up to a scalar"), and the check of each step agrees.       *)
(***************************************************************************)
DiagramsKeepTheirMap ==
    \A d \in diagram :
        /\ stage \in {"drawn", "given"} => evidence \notin {"changed", "differs"}
        /\ IF stage = "drawn" THEN SameUpToScalar(LinearMap(d.given), LinearMap(d.now))
           ELSE SameUpToScalar(LinearMap(d.given), UnitaryAsMap(circuit.ops, circuit.n))

\* The index of the physical basis state that holds a logical one, by a layout.
PhysicalIndex(layout, i) ==
    MapThenSumSet(LAMBDA l : Bit(i, l - 1) * 2 ^ layout[l], DOMAIN layout)

OneQubitGates == {"id", "x", "y", "z", "h", "s", "sdg", "t", "tdg", "sx", "rx", "ry", "rz", "p"}
Others == {"measure", "reset", "barrier"}

\* Operations on the given qubits, no gate on one of them twice.
OperationsOn(qubits) ==
    {op \in [kind : {"gate"} \cup Others, name : OneQubitGates \cup DOMAIN BaseGate \cup {"swap"} \cup Others,
             angle : Int, qubits : Seq(qubits), clbit : Nat, cond : SUBSET [bit : Int, equals : Int]] :
        OnTwoQubits(op) => op.qubits[1] # op.qubits[2]}

IsCircuit(ops, n) == ops \in Seq(OperationsOn(0 .. n - 1))

\* Every operation is on operational qubits, and on a coupling if it is a
\* gate on two of them, conditional or not.
RoutedOnDevice(r) ==
    \A op \in ToSet(r.ops) :
        /\ ToSet(op.qubits) \subseteq r.device.operational
        /\ OnTwoQubits(op) => Coupled(r.device, op.qubits[1], op.qubits[2])

(***************************************************************************)
(* At every point of the routing, the operations emitted so far do to the  *)
(* physical qubits what the operations routed so far do to the logical     *)
(* ones, under the initial layout before and the current layout after, for *)
(* every input and every outcome; and nothing emitted, conditional or not, *)
(* leaves the operational qubits and the couplings of the device, nor is   *)
(* anything but a circuit handed to the router (transpile.ts: "Routing     *)
(* preserves the unitary up to the final qubit permutation, which is       *)
(* recorded in final_layout").  The evidence, which undoes that            *)
(* permutation (routing-verification.ts), finds no difference.             *)
(***************************************************************************)
RoutedIsFaithful ==
    \A r \in route :
        LET logical == 0 .. 2 ^ circuit.n - 1
            before == Meaning(SubSeq(working, 1, r.done), circuit.n)
            after == ExecuteFrom(r.ops, r.device.size, {PhysicalIndex(r.initial, i) : i \in logical})
            held == {PhysicalIndex(r.layout, i) : i \in logical}
        IN  /\ IsCircuit(working, circuit.n) /\ RoutedOnDevice(r)
            /\ evidence # "differs"
            /\ \A b \in before : \E c \in after :
                /\ b.past = c.past
                /\ b.clbits = c.clbits
                /\ \A in \in logical :
                    LET w == c.columns[PhysicalIndex(r.initial, in)]
                    IN  /\ \A i \in logical : w[PhysicalIndex(r.layout, i)] = b.columns[in][i]
                        /\ \A i \in DOMAIN w \ held : w[i] = 0

\* SWAPs of a circuit that some condition wraps.
ConditionalSwaps(ops) == Gates(ops, LAMBDA op : op.name = "swap" /\ op.cond # {})

(***************************************************************************)
(* The numbers shown beside a transformation add up.  An optimized circuit *)
(* has no more gates, T gates or layers than the one given, and no         *)
(* scenario finds it dearer or slower, or finds a cost for the one and     *)
(* none for the other.  A routed circuit has what the router says it added *)
(* and nothing else: recounting it gives the SWAPs and two-qubit gates it  *)
(* reported, and it is no shallower (zx.ts: before, after; transpile.ts:   *)
(* swap_count, two_qubit_gate_count, depth).  Of the other counts of an    *)
(* estimate only two move, Clifford gates by every SWAP, since it is one,  *)
(* and conditional operations by every SWAP that was wrapped in the        *)
(* condition of a gate waiting for it: by none if no gate on two qubits is *)
(* conditional, by all of them if every one is.  And the summary of the    *)
(* result asks of a device no feature (measurement in mid-circuit,         *)
(* feed-forward, reset) that the circuit given did not.                    *)
(***************************************************************************)
CountsAgree ==
    /\ stage = "optimized" =>
        LET before == CountGates(circuit.ops)
            after == CountGates(working)
        IN  /\ \A count \in DOMAIN after : after[count] <= before[count]
            /\ CircuitSummary(working).features \subseteq CircuitSummary(circuit.ops).features
            /\ \A s \in Scenarios :
                LET Cost(ops) == Evaluate(WorkloadFromResourceEstimate(EstimateResources(ops, circuit.n)), s)
                    given == Cost(circuit.ops)
                    optimized == Cost(working)
                IN  Known(given.total) => /\ Known(optimized.total) /\ optimized.total <= given.total
                                          /\ optimized.runtime <= given.runtime
    /\ stage = "verified" =>
        \A r \in route :
            LET given == EstimateResources(working, circuit.n)
                routed == EstimateResources(r.ops, r.device.size)
                wrappers == routed.conditional - given.conditional
            IN  /\ CircuitSummary(r.ops).features = CircuitSummary(working).features
                /\ routed.twoQubit = r.twoQubitGateCount + r.swapCount
                /\ routed.depth >= given.depth
                /\ \A count \in {"swap", "gates", "twoQubit", "clifford"} :
                    routed[count] = given[count] + r.swapCount
                /\ \A count \in {"oneQubit", "t", "unsupported", "measure", "reset", "barrier"} :
                    routed[count] = given[count]
                /\ wrappers = ConditionalSwaps(r.ops) - ConditionalSwaps(working)
                /\ (\A op \in ToSet(working) : OnTwoQubits(op) => op.cond = {}) => wrappers = 0
                /\ (\A op \in ToSet(working) : OnTwoQubits(op) => op.cond # {}) => wrappers = r.swapCount

\* Pairs of places that come in the same order on both sides.
InOrder(pairs) ==
    \A p, q \in pairs : p = q \/ (p[1] < q[1] /\ p[2] < q[2]) \/ (q[1] < p[1] /\ q[2] < p[2])

(***************************************************************************)
(* The diff of an optimization accounts for every operation of both        *)
(* circuits, in order, and marks as few of them changed as any way of      *)
(* pairing equal operations could (diff.ts: "every operation in both       *)
(* inputs appears in it exactly once"; "minimal in edit count rather than  *)
(* merely valid").                                                         *)
(***************************************************************************)
DiffIsMinimal ==
    stage = "optimized" =>
        LET entries == DiffEntries(circuit.ops, working)
            equal == {p \in (DOMAIN circuit.ops) \X (DOMAIN working) : circuit.ops[p[1]] = working[p[2]]}
        IN  /\ DiffIsSound(circuit.ops, working, entries)
            /\ \A pairs \in SUBSET equal : InOrder(pairs) => Cardinality(pairs) <= Unchanged(entries)

=============================================================================
