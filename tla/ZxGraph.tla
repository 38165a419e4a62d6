------------------------------- MODULE ZxGraph -------------------------------
(***************************************************************************)
(* Graph-like ZX diagrams (src/engine/zx-graph.ts): Z spiders with a phase *)
(* in quarters of pi, Hadamard edges between them, and the spiders that    *)
(* carry the inputs and the outputs, in order.                             *)
(***************************************************************************)
EXTENDS Circuits

Spiders(g) == DOMAIN g.phase
IsInterior(g, id) == id \notin ToSet(g.inputs) \cup ToSet(g.outputs)
Neighbours(g, id) == {v \in Spiders(g) : {id, v} \in g.edges}

(***************************************************************************)
(* graphToMatrix: the entry for the inputs and outputs that are 1 sums     *)
(* over the values of the interior spiders.  The 1/sqrt(2) of each edge is *)
(* left out: maps are compared up to a scalar.                             *)
(***************************************************************************)
LinearMap(g) ==
    LET interior == {id \in Spiders(g) : IsInterior(g, id)}
        Inside(ones) == Cardinality({e \in g.edges : e \subseteq ones})
        Angle(ones) == MapThenSumSet(LAMBDA id : g.phase[id], ones)
        Term(ones) == Phase(2 * Angle(ones) + 8 * Inside(ones))
        Pinned(in, out) == {g.inputs[j] : j \in in} \cup {g.outputs[j] : j \in out}
        Fits(in, out) == /\ \A j \in DOMAIN g.inputs : g.inputs[j] \in Pinned(in, out) => j \in in
                         /\ \A j \in DOMAIN g.outputs : g.outputs[j] \in Pinned(in, out) => j \in out
    IN  [io \in (SUBSET DOMAIN g.inputs) \X (SUBSET DOMAIN g.outputs) |->
            IF Fits(io[1], io[2])
            THEN MapThenSumSet(LAMBDA rest : Term(Pinned(io[1], io[2]) \cup rest), SUBSET interior) % P
            ELSE 0]

\* The scalar is the ratio at one entry that is not zero.
SameUpToScalar(left, right) ==
    \/ left = right
    \/ \E pivot \in DOMAIN left :
        /\ left[pivot] # 0 /\ right[pivot] # 0
        /\ \A io \in DOMAIN left :
               (left[io] * right[pivot]) % P = (right[io] * left[pivot]) % P

Shift(phase, ids, amount) ==
    [id \in DOMAIN phase |-> IF id \in ids THEN (phase[id] + amount) % 8 ELSE phase[id]]

Without(g, ids) ==
    [g EXCEPT !.phase = [id \in DOMAIN @ \ ids |-> @[id]],
              !.edges = {e \in @ : e \cap ids = {}}]

AllPairs(ids) == {{a, b} : a, b \in ids} \ {{a} : a \in ids}
Between(left, right) == {{a, b} : a \in left, b \in right}

\* Side conditions of localComplementation; 2 and 6 are +pi/2 and -pi/2.
Complementable(g, id) == id \in Spiders(g) /\ IsInterior(g, id) /\ g.phase[id] \in {2, 6}

LocalComplementation(g, id) ==
    LET around == Neighbours(g, id)
        shift == IF g.phase[id] = 2 THEN -2 ELSE 2
    IN  Without([g EXCEPT !.phase = Shift(@, around, shift),
                          !.edges = SymDiff(@, AllPairs(around))], {id})

Pivotable(g, u, v) ==
    /\ {u, v} \in g.edges
    /\ \A id \in {u, v} : IsInterior(g, id) /\ g.phase[id] \in {0, 4}

\* Fault: the spiders next to both do not get their unconditional pi.
Pivot_NoSharedPi(g, u, v) ==
    LET shared == Neighbours(g, u) \cap Neighbours(g, v)
        onlyU == Neighbours(g, u) \ (shared \cup {v})
        onlyV == Neighbours(g, v) \ (shared \cup {u})
        toggled == Between(onlyU, onlyV) \cup Between(onlyU, shared) \cup Between(onlyV, shared)
        shifted == Shift(Shift(Shift(g.phase, onlyU, g.phase[v]), onlyV, g.phase[u]),
                         shared, g.phase[u] + g.phase[v])
    IN  Without([g EXCEPT !.phase = shifted, !.edges = SymDiff(@, toggled)], {u, v})

\* The neighbours of both, of the first only and of the second only are
\* complemented against each other.
Pivot(g, u, v) ==
    LET shared == Neighbours(g, u) \cap Neighbours(g, v)
        onlyU == Neighbours(g, u) \ (shared \cup {v})
        onlyV == Neighbours(g, v) \ (shared \cup {u})
        toggled == Between(onlyU, onlyV) \cup Between(onlyU, shared) \cup Between(onlyV, shared)
        shifted == Shift(Shift(Shift(g.phase, onlyU, g.phase[v]), onlyV, g.phase[u]),
                         shared, g.phase[u] + g.phase[v] + 4)
    IN  Without([g EXCEPT !.phase = shifted, !.edges = SymDiff(@, toggled)], {u, v})

\* What extractCircuit accepts: every spider is an input and the same output.
Extractable(g) ==
    /\ g.inputs = g.outputs
    /\ g.inputs # <<>>
    /\ Spiders(g) = ToSet(g.inputs)
    /\ Cardinality(Spiders(g)) = Len(g.inputs)

\* A phase becomes a P gate, unless it is zero, and an edge becomes a CZ.
ExtractedGates(g) ==
    LET QubitOf(id) == (CHOOSE j \in DOMAIN g.inputs : g.inputs[j] = id) - 1
        phases == SetToSeq({id \in Spiders(g) : g.phase[id] # 0})
        edges == SetToSeq(g.edges)
        Ends(e) == <<QubitOf(Min(e)), QubitOf(Max(e))>>
    IN  [i \in DOMAIN phases |-> Rotation("p", g.phase[phases[i]], QubitOf(phases[i]))]
        \o [i \in DOMAIN edges |-> Gate("cz", Ends(edges[i]))]

\* The unitary of a circuit in the form of a diagram's map: bit q of a basis
\* state is qubit q.
UnitaryAsMap(ops, n) ==
    LET Basis(ones) == MapThenSumSet(LAMBDA j : 2 ^ (j - 1), ones)
        columns == (CHOOSE b \in Meaning(ops, n) : TRUE).columns
    IN  [io \in (SUBSET (1 .. n)) \X (SUBSET (1 .. n)) |-> columns[Basis(io[1])][Basis(io[2])]]

=============================================================================
