--------------------------- MODULE CircuitRewrites ---------------------------
(***************************************************************************)
(* What the engine does to a list of operations without a device: the      *)
(* sweeps of src/engine/zx.ts, the decoupling pulses of                    *)
(* src/engine/decoupling.ts, the evidence of src/engine/differential.ts    *)
(* and the structural diff of src/circuit/diff.ts.                         *)
(***************************************************************************)
EXTENDS Circuits

PHASE_FAMILIES == {"rz", "rx", "ry", "p"}
SELF_INVERSE == {"x", "y", "z", "h", "cx", "cz", "cy", "swap", "id"}
CONJUGABLE == [z |-> "x", x |-> "z", rz |-> "rx", rx |-> "rz", s |-> "sx"]

\* (-pi, pi], in quarters of pi.
NormalizeAngle(k) == ((k + 3) % 8) - 3

ToQubits(op) == ToSet(op.qubits)

RotationAxis(name) ==
    IF name \in {"rz", "p"} THEN "z" ELSE IF name = "rx" THEN "x" ELSE "none"

\* Fault: the wrong end of a CX lets a Z rotation through.
CommutesWithZOn_Target(op, q) ==
    \/ q \notin ToQubits(op)
    \/ op.name \in {"z", "s", "sdg", "t", "tdg", "rz", "p", "cz"}
    \/ op.name = "cx" /\ op.qubits[2] = q

CommutesWithZOn(op, q) ==
    \/ q \notin ToQubits(op)
    \/ op.name \in {"z", "s", "sdg", "t", "tdg", "rz", "p", "cz"}
    \/ op.name = "cx" /\ op.qubits[1] = q

CommutesWithXOn(op, q) ==
    \/ q \notin ToQubits(op)
    \/ op.name \in {"x", "rx", "sx"}
    \/ op.name = "cx" /\ op.qubits[2] = q

Commutes(axis, op, q) == IF axis = "z" THEN CommutesWithZOn(op, q) ELSE CommutesWithXOn(op, q)

TouchesAny(op, qubits) ==
    \/ op.kind = "barrier" /\ op.qubits = <<>>
    \/ ToQubits(op) \cap qubits # {}

\* The next operation on any of the qubits, when no operation that is not a
\* gate comes first: {} or {its index}.
NextInteracting(ops, from, qubits) ==
    LET stops == {j \in from + 1 .. Len(ops) : ~IsGate(ops[j]) \/ TouchesAny(ops[j], qubits)}
    IN  {j \in stops : TouchesAny(ops[j], qubits) /\ \A k \in stops : j <= k}

\* The rotation that the one at i may be fused with across what commutes with
\* both.  The neighbour is left to phase fusion.
FusionPartner(ops, i) ==
    LET axis == RotationAxis(ops[i].name)
        Same(j) == ops[j].name = ops[i].name /\ ops[j].qubits = ops[i].qubits
        Reaches(j) == /\ \A k \in i + 1 .. j : IsGate(ops[k])
                      /\ \A k \in i + 1 .. j - 1 : Commutes(axis, ops[k], ops[i].qubits[1])
        found == {j \in i + 2 .. Len(ops) : axis # "none" /\ Same(j) /\ Reaches(j)}
    IN  {j \in found : \A k \in found : j <= k}

\* The two angles become one, at the place of the first.
Fuse(ops, i, j) ==
    LET total == NormalizeAngle(ops[i].angle + ops[j].angle)
    IN  IF total = 0 THEN RemoveAt(RemoveAt(ops, j), i)
        ELSE RemoveAt([ops EXCEPT ![i].angle = total], j)

\* h A h is B: the partner changes colour and both Hadamards go.
Conjugated(ops, i, j) ==
    {RemoveAt(RemoveAt([ops EXCEPT ![j].name = CONJUGABLE[@]], k), i) :
        k \in {c \in NextInteracting(ops, j, ToQubits(ops[j])) :
                 IsGate(ops[c]) /\ ops[c].name = "h" /\ ops[c].qubits = ops[i].qubits}}

\* Rewriting the gate at i with the next one on its qubits: {} or {the result}.
PairRewrites(ops, i, j) ==
    IF ~IsGate(ops[j]) \/ ops[j].qubits # ops[i].qubits THEN {}
    ELSE IF ops[i].name = ops[j].name /\ ops[i].name \in SELF_INVERSE
         THEN {RemoveAt(RemoveAt(ops, j), i)}
    ELSE IF ops[i].name = "h" /\ ops[j].name \in DOMAIN CONJUGABLE THEN Conjugated(ops, i, j)
    ELSE IF ops[i].name = ops[j].name /\ ops[i].name \in PHASE_FAMILIES THEN {Fuse(ops, i, j)}
    ELSE {}

RewritesAt(ops, i) ==
    IF ~IsGate(ops[i]) THEN {}
    ELSE IF \/ ops[i].name = "id"
            \/ ops[i].name \in PHASE_FAMILIES /\ NormalizeAngle(ops[i].angle) = 0
         THEN {RemoveAt(ops, i)}
    ELSE IF FusionPartner(ops, i) # {} THEN {Fuse(ops, i, j) : j \in FusionPartner(ops, i)}
    ELSE UNION {PairRewrites(ops, i, j) : j \in NextInteracting(ops, i, ToQubits(ops[i]))}

\* One sweep ends at its first rewrite: {} when there is none.
SweepOf(ops) ==
    LET at == {i \in DOMAIN ops : RewritesAt(ops, i) # {}}
    IN  UNION {RewritesAt(ops, i) : i \in {j \in at : \A k \in at : j <= k}}

-----------------------------------------------------------------------------
(***************************************************************************)
(* checkCircuitEquivalence compares the images of |0...0> and nothing      *)
(* else.  past is the outcome of the resets in its one run.                *)
(***************************************************************************)
CircuitEquivalence(left, right, n, maxQubits, past) ==
    IF n > maxQubits \/ HasMeasurement(left) \/ HasMeasurement(right) THEN "INCONCLUSIVE"
    ELSE IF \E b \in FromZero(left, n), c \in FromZero(right, n) :
                b.past = past /\ c.past = past /\ EqualUpToPhase(b.columns, c.columns)
         THEN "NUMERICALLY_CHECKED"
    ELSE "FAILED"

-----------------------------------------------------------------------------
(***************************************************************************)
(* Decoupling.  An operation's layer is one more than the last layer of    *)
(* any qubit it touches; what touches none (a barrier, or a condition      *)
(* whatever its body) has layer -1.                                        *)
(***************************************************************************)
DECOUPLING_SEQUENCES == [XX |-> <<"x", "x">>, XYXY |-> <<"x", "y", "x", "y">>]

TouchedQubits(op) == IF op.cond # {} \/ op.kind = "barrier" THEN {} ELSE ToQubits(op)

LayersOf(ops) ==
    LET before(layers, i, q) == {layers[j] : j \in {k \in 1 .. i - 1 : q \in TouchedQubits(ops[k])}}
        layers[i \in 0 .. Len(ops)] ==
            IF i = 0 THEN <<>>
            ELSE LET at == UNION {before(layers[i - 1], i, q) : q \in TouchedQubits(ops[i])} \cup {0}
                 IN  Append(layers[i - 1], IF TouchedQubits(ops[i]) = {} THEN -1 ELSE Max(at) + 1)
    IN  layers[Len(ops)]

\* The qubits idle in a layer: already used, not busy, and not yet measured or reset.
IdleIn(ops, layer) ==
    LET layers == LayersOf(ops)
        On(q) == {i \in DOMAIN ops : q \in TouchedQubits(ops[i])}
    IN  {q \in UNION {TouchedQubits(op) : op \in ToSet(ops)} :
            /\ \A i \in On(q) : layers[i] # layer
            /\ \E i \in On(q) : layers[i] < layer
            /\ \A i \in On(q) : ops[i].kind # "gate" => layer <= layers[i]}

\* Pulses go in front of the first operation of their layer.
Decoupled(ops, pulses) ==
    LET layers == LayersOf(ops)
        Opens(i) == layers[i] > 0 /\ \A j \in 1 .. i - 1 : layers[j] < layers[i]
        Pulses(q) == [p \in DOMAIN pulses |-> Gate(pulses[p], <<q>>)]
        Window(i) == FlattenSeq([w \in 1 .. Cardinality(IdleIn(ops, layers[i])) |->
                                   Pulses(SetToSeq(IdleIn(ops, layers[i]))[w])])
    IN  FlattenSeq([i \in DOMAIN ops |->
            IF Opens(i) THEN Append(Window(i), ops[i]) ELSE <<ops[i]>>])

-----------------------------------------------------------------------------
(***************************************************************************)
(* The diff: an alignment by longest common subsequence, and the entries   *)
(* around it.                                                              *)
(***************************************************************************)
\* Fault: the side that leaves less to match is followed.
SkipsLeft_Shorter(table, row, column) == table[<<row + 1, column>>] < table[<<row, column + 1>>]

SkipsLeft(table, row, column) == table[<<row + 1, column>>] >= table[<<row, column + 1>>]

CommonSubsequence(left, right) ==
    LET rows == Len(left)
        columns == Len(right)
        table[at \in (1 .. rows + 1) \X (1 .. columns + 1)] ==
            LET row == at[1]
                column == at[2]
            IN  IF row > rows \/ column > columns THEN 0
                ELSE IF left[row] = right[column] THEN table[<<row + 1, column + 1>>] + 1
                ELSE Max({table[<<row + 1, column>>], table[<<row, column + 1>>]})
        walk[at \in (1 .. rows + 1) \X (1 .. columns + 1)] ==
            LET row == at[1]
                column == at[2]
            IN  IF row > rows \/ column > columns THEN <<>>
                ELSE IF left[row] = right[column] THEN <<<<row, column>>>> \o walk[<<row + 1, column + 1>>]
                ELSE IF SkipsLeft(table, row, column) THEN walk[<<row + 1, column>>]
                ELSE walk[<<row, column + 1>>]
    IN  walk[<<1, 1>>]

\* The removals and then the additions strictly between two places.
Gap(left, right, from, to) ==
    [i \in 1 .. to[1] - from[1] - 1 |-> [kind |-> "removed", op |-> left[from[1] + i]]]
    \o [i \in 1 .. to[2] - from[2] - 1 |-> [kind |-> "added", op |-> right[from[2] + i]]]

DiffEntries(left, right) ==
    LET matched == CommonSubsequence(left, right)
        Cursor(m) == IF m = 0 THEN <<0, 0>> ELSE matched[m]
        entries[m \in 0 .. Len(matched)] ==
            IF m = 0 THEN <<>>
            ELSE Append(entries[m - 1] \o Gap(left, right, Cursor(m - 1), matched[m]),
                        [kind |-> "unchanged", op |-> left[matched[m][1]]])
    IN  entries[Len(matched)]
        \o Gap(left, right, Cursor(Len(matched)), <<Len(left) + 1, Len(right) + 1>>)

OperationsOf(entries, kind) ==
    LET kept[i \in 0 .. Len(entries)] ==
            IF i = 0 THEN <<>>
            ELSE IF entries[i].kind \in {kind, "unchanged"} THEN Append(kept[i - 1], entries[i].op)
            ELSE kept[i - 1]
    IN  kept[Len(entries)]

\* verifyDiff: both sides can be read back from the entries.
DiffIsSound(left, right, entries) ==
    /\ OperationsOf(entries, "removed") = left
    /\ OperationsOf(entries, "added") = right

Unchanged(entries) == Len(OperationsOf(entries, "unchanged"))

=============================================================================
