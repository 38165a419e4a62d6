------------------------------ MODULE Circuits ------------------------------
(***************************************************************************)
(* What a circuit means: the exact simulator of src/engine/statevector.ts, *)
(* over the circuit graph of src/circuit/graph.ts.                         *)
(*                                                                         *)
(* Angles are multiples of pi/4 and amplitudes are taken in the field of   *)
(* 257 elements, where 2 has order 16 and stands for e^(i pi/8), so that   *)
(* 16 is i and 227 is 1/sqrt(2).  Every identity between amplitudes holds  *)
(* there too, and arithmetic is exact where the code's is within 1e-9.     *)
(*                                                                         *)
(* A random outcome is both of them: the meaning of a list of operations   *)
(* is a set of branches, one for each outcome of its measurements and      *)
(* resets, each with its classical bits and its columns: the unnormalised  *)
(* image of every basis state.                                             *)
(***************************************************************************)
EXTENDS Integers, SequencesExt

P == 257
Imag == 16
Half == 129
RootHalf == 227

Powers == [k \in 0 .. 15 |-> 2 ^ k % P]

Phase(k) == Powers[k % 16]

\* cos(k pi/8) and i sin(k pi/8), half of the rotation by k quarters of pi.
Cosine(k) == Half * (Phase(k) + Phase(-k))

ISine(k) == Half * (Phase(k) - Phase(-k))

(***************************************************************************)
(* An operation: kind is what it does, cond is empty, or the one condition *)
(* under which it does it (a ConditionalOperation of graph.ts).  A         *)
(* condition reads one bit, or the whole register when bit is Whole.       *)
(***************************************************************************)
Whole == -1

Operation(kind, name, angle, qubits, clbit) ==
    [kind |-> kind, name |-> name, angle |-> angle, qubits |-> qubits,
     clbit |-> clbit, cond |-> {}]

Gate(name, qubits) == Operation("gate", name, 0, qubits, 0)
Rotation(name, angle, q) == Operation("gate", name, angle, <<q>>, 0)
Measure(q, c) == Operation("measure", "measure", 0, <<q>>, c)
Reset(q) == Operation("reset", "reset", 0, <<q>>, 0)
Barrier(qubits) == Operation("barrier", "barrier", 0, qubits, 0)
If(bit, equals, op) == [op EXCEPT !.cond = {[bit |-> bit, equals |-> equals]}]

IsGate(op) == op.kind = "gate" /\ op.cond = {}

\* circuitHasMeasurement: the bodies of conditions count.
HasMeasurement(ops) == \E i \in DOMAIN ops : ops[i].kind = "measure"

SingleQubitMatrix(name, k) ==
    CASE name = "id"  -> <<1, 0, 0, 1>>
      [] name = "x"   -> <<0, 1, 1, 0>>
      [] name = "y"   -> <<0, -Imag, Imag, 0>>
      [] name = "z"   -> <<1, 0, 0, -1>>
      [] name = "h"   -> <<RootHalf, RootHalf, RootHalf, -RootHalf>>
      [] name = "s"   -> <<1, 0, 0, Phase(4)>>
      [] name = "sdg" -> <<1, 0, 0, Phase(-4)>>
      [] name = "t"   -> <<1, 0, 0, Phase(2)>>
      [] name = "tdg" -> <<1, 0, 0, Phase(-2)>>
      [] name = "sx"  -> LET a == Half * (1 + Imag) b == Half * (1 - Imag)
                         IN  <<a, b, b, a>>
      [] name = "rx"  -> <<Cosine(k), -ISine(k), -ISine(k), Cosine(k)>>
      [] name = "ry"  -> <<Cosine(k), Imag * (ISine(k) % P), -Imag * (ISine(k) % P), Cosine(k)>>
      [] name = "rz"  -> <<Phase(-k), 0, 0, Phase(k)>>
      [] name = "p"   -> <<1, 0, 0, Phase(2 * k)>>

\* The gate a two-qubit one applies to its target.
BaseGate == [cx |-> "x", cz |-> "z", cy |-> "y", ch |-> "h", cp |-> "p", crz |-> "rz"]

Bit(i, q) == (i \div 2 ^ q) % 2

ApplyControlled(v, m, controls, target) ==
    LET stride == 2 ^ target
    IN  [i \in DOMAIN v |->
          IF \E c \in controls : Bit(i, c) = 0 THEN v[i]
          ELSE IF Bit(i, target) = 0
               THEN ((m[1] % P) * v[i] + (m[2] % P) * v[i + stride]) % P
               ELSE ((m[3] % P) * v[i - stride] + (m[4] % P) * v[i]) % P]

ApplySwap(v, a, b) ==
    [i \in DOMAIN v |-> v[i + (Bit(i, a) - Bit(i, b)) * (2 ^ b - 2 ^ a)]]

ApplyGate(v, op) ==
    IF op.name = "swap" THEN ApplySwap(v, op.qubits[1], op.qubits[2])
    ELSE IF op.name \in DOMAIN BaseGate
         THEN ApplyControlled(v, SingleQubitMatrix(BaseGate[op.name], op.angle),
                              {op.qubits[1]}, op.qubits[2])
         ELSE ApplyControlled(v, SingleQubitMatrix(op.name, op.angle), {}, op.qubits[1])

\* The image on one outcome of a qubit, left unnormalised.
Collapse(v, q, outcome) == [i \in DOMAIN v |-> IF Bit(i, q) = outcome THEN v[i] ELSE 0]

\* The new value; the comparison makes TLC evaluate all of it, once.
Updated(old, new) == IF new = old THEN old ELSE new

ApplyToColumns(columns, F(_)) ==
    Updated(columns, [in \in DOMAIN columns |-> Updated(columns[in], F(columns[in]))])

Measured(branch, op, outcome) ==
    [past    |-> Append(branch.past, outcome),
     clbits  |-> [branch.clbits EXCEPT ![op.clbit] = outcome],
     columns |-> ApplyToColumns(branch.columns, LAMBDA v : Collapse(v, op.qubits[1], outcome))]

ResetTo0(branch, op, outcome) ==
    LET F(v) == LET w == Collapse(v, op.qubits[1], outcome)
                IN  IF outcome = 1
                    THEN ApplyControlled(w, SingleQubitMatrix("x", 0), {}, op.qubits[1])
                    ELSE w
    IN  [branch EXCEPT !.past = Append(@, outcome), !.columns = ApplyToColumns(@, F)]

RegisterValue(clbits) == clbits[0] + 2 * clbits[1]

Observed(clbits, test) ==
    IF test.bit = Whole THEN RegisterValue(clbits) ELSE clbits[test.bit]

\* applyOperation, in one branch.
Execute(branch, op) ==
    IF \E test \in op.cond : Observed(branch.clbits, test) # test.equals THEN {branch}
    ELSE CASE op.kind = "gate"    -> {[branch EXCEPT !.columns =
                                       ApplyToColumns(@, LAMBDA v : ApplyGate(v, op))]}
           [] op.kind = "measure" -> {Measured(branch, op, o) : o \in {0, 1}}
           [] op.kind = "reset"   -> {ResetTo0(branch, op, o) : o \in {0, 1}}
           [] op.kind = "barrier" -> {branch}

\* executeOnce, from the basis states inputs of n qubits.
ExecuteFrom(ops, n, inputs) ==
    LET start == [past    |-> <<>>,
                  clbits  |-> [c \in {0, 1} |-> 0],
                  columns |-> [in \in inputs |-> [i \in 0 .. 2 ^ n - 1 |-> IF i = in THEN 1 ELSE 0]]]
    IN  FoldLeft(LAMBDA branches, op : UNION {Execute(b, op) : b \in branches}, {start}, ops)

Meaning(ops, n) == ExecuteFrom(ops, n, 0 .. 2 ^ n - 1)

\* simulateStatevector starts from zeroState.
FromZero(ops, n) == ExecuteFrom(ops, n, {0})

EqualUpToPhase(left, right) ==
    \E k \in 0 .. 15 : \A in \in DOMAIN left : \A i \in DOMAIN left[in] :
        left[in][i] = (Phase(k) * right[in][i]) % P

\* One circuit in place of the other is unobservable: whatever the outcomes,
\* the classical bits are the same and the states differ by a phase.
SameMeaning(ops1, ops2, n) ==
    LET left == Meaning(ops1, n)
        right == Meaning(ops2, n)
    IN  \A b \in left : \E c \in right :
            /\ b.past = c.past
            /\ b.clbits = c.clbits
            /\ EqualUpToPhase(b.columns, c.columns)

=============================================================================
