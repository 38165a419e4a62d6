---------------------------- MODULE EngineProofs ----------------------------
(***************************************************************************)
(* The pipeline for every circuit, diagram and device, and every choice of *)
(* rewrites and shortest paths: every sweep shortens the circuit, nothing  *)
(* the router emits, at any point of any walk, is off the device's         *)
(* operational qubits or, with two of them, off its couplings, and the     *)
(* numbers reported beside an optimization or a routing are what there is, *)
(* and its diff is complete and as short as a diff can be.                 *)
(*                                                                         *)
(* RoutingInv says that the layout stays an injection, and that the path   *)
(* being walked still leads from where the first qubit is to where the     *)
(* second is, because a shortest path meets its end only at its end.       *)
(* PipelineInv says that what reaches the router is a circuit: rules of    *)
(* the graph keep diagrams, extraction, sweeps and pulses make circuits.   *)
(* ThinningInv says that what the sweeps left can be found, in order, in   *)
(* the circuit given, every T gate of it; TallyingInv that what was routed *)
(* can be found in what was emitted, and that the rest is SWAPs, each      *)
(* before a gate that waited for it. What the diff marks unchanged is as   *)
(* long as the table of common subsequences says, which no pairing in      *)
(* order exceeds, cell by cell; its entries are read back one by one.      *)
(***************************************************************************)
EXTENDS Engine, SequenceTheorems, FiniteSetTheorems, WellFoundedInduction, TLAPS

-----------------------------------------------------------------------------
(* Sequences and paths.                                                     *)

\* What is appended joins the elements.
LEMMA ElementsOfAppend ==
  ASSUME NEW S, NEW s \in Seq(S), NEW e \in S
  PROVE  Append(s, e) \in Seq(S) /\ ToSet(Append(s, e)) = ToSet(s) \cup {e}
<1>1. /\ Append(s, e) \in Seq(S) /\ Len(Append(s, e)) = Len(s) + 1 /\ Len(s) \in Nat
      /\ \A i \in 1 .. Len(s) : Append(s, e)[i] = s[i]
      /\ Append(s, e)[Len(s) + 1] = e
  OBVIOUS
<1>2. DOMAIN s = 1 .. Len(s) /\ DOMAIN Append(s, e) = 1 .. Len(s) + 1
  BY <1>1
<1>3. DOMAIN Append(s, e) = DOMAIN s \cup {Len(s) + 1}
  BY <1>1, <1>2
<1> QED
  BY <1>1, <1>2, <1>3 DEF ToSet

\* A path from the place of one qubit to that of another.
Leads(device, path, from, to) ==
    /\ path \in Seq(device.operational)
    /\ Len(path) >= 1 /\ path[1] = from /\ path[Len(path)] = to
    /\ \A i \in 1 .. Len(path) - 1 : Coupled(device, path[i], path[i + 1])
    /\ \A i \in 1 .. Len(path) - 1 : path[i] # to /\ path[i] # path[i + 1]

\* A beginning of a path that ends elsewhere is a path to there.
LEMMA BeginningsArePaths ==
  ASSUME NEW device, IsFiniteSet(device.operational), NEW from, NEW to,
         NEW p \in PathsBetween(device, from, to), NEW i \in 1 .. Len(p)
  PROVE  SubSeq(p, 1, i) \in PathsBetween(device, from, p[i]) /\ Len(SubSeq(p, 1, i)) = i
<1> DEFINE N == Cardinality(device.operational)
<1>1. N \in Nat
  BY FS_CardinalityType
<1>2. PICK k \in 1 .. N : p \in [1 .. k -> device.operational]
  BY DEF PathsBetween
<1>3. p[1] = from /\ \A j \in 1 .. Len(p) - 1 : Coupled(device, p[j], p[j + 1])
  BY DEF PathsBetween
<1>4. Len(p) = k /\ p \in Seq(device.operational)
  BY <1>1, <1>2
<1> DEFINE q == SubSeq(p, 1, i)
<1>5. q \in [1 .. i -> device.operational] /\ Len(q) = i /\ \A j \in 1 .. i : q[j] = p[j]
  <2>1. i \in Nat /\ i >= 1 /\ i <= Len(p)
    BY <1>1, <1>4
  <2>2. q = [j \in 1 .. i |-> p[j]]
    BY <1>4, <2>1, SubSeqProperties
  <2>3. \A j \in 1 .. i : p[j] \in device.operational
    BY <1>4, <2>1
  <2> HIDE DEF q
  <2>4. q \in [1 .. i -> device.operational]
    BY <2>2, <2>3
  <2> QED
    BY <2>1, <2>2, <2>4
<1>6. q[1] = from /\ q[Len(q)] = p[i]
  BY <1>3, <1>5
<1>7. \A j \in 1 .. Len(q) - 1 : Coupled(device, q[j], q[j + 1])
  BY <1>1, <1>3, <1>4, <1>5
<1>8. i \in 1 .. N
  BY <1>1, <1>2, <1>4
<1> HIDE DEF q
<1>9. q \in UNION {[1 .. j -> device.operational] : j \in 1 .. N}
  BY <1>5, <1>8
<1> QED
  BY <1>5, <1>6, <1>7, <1>9 DEF PathsBetween, q

\* A path that stands still for a step is a path without that step.
LEMMA StandingStillIsLonger ==
  ASSUME NEW device, IsFiniteSet(device.operational), NEW from, NEW to,
         NEW p \in PathsBetween(device, from, to), NEW i \in 1 .. Len(p) - 1, p[i] = p[i + 1]
  PROVE  \E q \in PathsBetween(device, from, to) : Len(q) = Len(p) - 1
<1> DEFINE N == Cardinality(device.operational)
<1>1. N \in Nat
  BY FS_CardinalityType
<1>2. PICK k \in 1 .. N : p \in [1 .. k -> device.operational]
  BY DEF PathsBetween
<1>3. p[1] = from /\ p[Len(p)] = to /\ \A j \in 1 .. Len(p) - 1 : Coupled(device, p[j], p[j + 1])
  BY DEF PathsBetween
<1>4. Len(p) = k /\ k \in Nat /\ i \in 1 .. k - 1 /\ k - 1 \in 1 .. N
  BY <1>1, <1>2
<1> DEFINE q == [j \in 1 .. k - 1 |-> IF j <= i THEN p[j] ELSE p[j + 1]]
<1>5. q \in [1 .. k - 1 -> device.operational] /\ Len(q) = k - 1
  BY <1>1, <1>2, <1>4
<1>6. q[1] = from /\ q[Len(q)] = to
  BY <1>3, <1>4, <1>5
<1>7. ASSUME NEW j \in 1 .. Len(q) - 1 PROVE Coupled(device, q[j], q[j + 1])
  <2>1. j \in 1 .. k - 1 /\ j + 1 \in 1 .. k - 1 /\ j + 1 \in 1 .. Len(p) - 1 /\ j \in 1 .. Len(p) - 1
    BY <1>4, <1>5, <1>7
  <2>2. CASE j < i
    <3>1. q[j] = p[j] /\ q[j + 1] = p[j + 1]
      BY <1>4, <2>1, <2>2
    <3> QED
      BY <1>3, <2>1, <3>1
  <2>3. CASE j >= i
    <3>1. q[j] = p[j + 1] /\ q[j + 1] = p[(j + 1) + 1]
      BY <1>4, <2>1, <2>3
    <3> QED
      BY <1>3, <2>1, <3>1
  <2> QED
    BY <1>4, <2>1, <2>2, <2>3
<1> HIDE DEF q
<1>8. q \in UNION {[1 .. j -> device.operational] : j \in 1 .. N}
  BY <1>4, <1>5
<1>9. q \in PathsBetween(device, from, to)
  BY <1>6, <1>7, <1>8 DEF PathsBetween
<1> QED
  BY <1>4, <1>5, <1>9

\* So a shortest path goes on at every step and meets its end only there.
LEMMA ShortestPathsLead ==
  ASSUME NEW device, IsFiniteSet(device.operational), NEW from, NEW to,
         NEW p \in ShortestPaths(device, from, to)
  PROVE  Leads(device, p, from, to)
<1>1. p \in PathsBetween(device, from, to)
  BY DEF ShortestPaths
<1>2. Cardinality(device.operational) \in Nat
  BY FS_CardinalityType
<1>3. PICK k \in 1 .. Cardinality(device.operational) : p \in [1 .. k -> device.operational]
  BY <1>1 DEF PathsBetween
<1>4. p \in Seq(device.operational) /\ Len(p) = k /\ k >= 1
  BY <1>2, <1>3
<1>5. /\ p[1] = from /\ p[Len(p)] = to
      /\ \A i \in 1 .. Len(p) - 1 : Coupled(device, p[i], p[i + 1])
  BY <1>1 DEF PathsBetween
<1>6. ASSUME NEW i \in 1 .. Len(p) - 1, p[i] = to PROVE FALSE
  <2>1. SubSeq(p, 1, i) \in PathsBetween(device, from, to) /\ Len(SubSeq(p, 1, i)) = i
    BY <1>1, <1>2, <1>4, <1>6, BeginningsArePaths
  <2>2. Len(p) <= i
    BY <2>1 DEF ShortestPaths
  <2> QED
    BY <1>2, <1>4, <2>2
<1>7. ASSUME NEW i \in 1 .. Len(p) - 1, p[i] = p[i + 1] PROVE FALSE
  <2>1. PICK q \in PathsBetween(device, from, to) : Len(q) = Len(p) - 1
    BY <1>1, <1>7, StandingStillIsLonger
  <2>2. Len(p) <= Len(q)
    BY DEF ShortestPaths
  <2> QED
    BY <1>2, <1>4, <2>1, <2>2
<1> QED
  BY <1>4, <1>5, <1>6, <1>7 DEF Leads

\* What is left of a path after its first step.
LEMMA RestLeads ==
  ASSUME NEW device, NEW from, NEW to, NEW p, Leads(device, p, from, to), Len(p) > 2
  PROVE  /\ Leads(device, Tail(p), p[2], to) /\ Len(Tail(p)) >= 2
         /\ p[1] \in device.operational /\ p[2] \in device.operational
         /\ Coupled(device, p[1], p[2])
         /\ p[1] # to /\ p[2] # to /\ p[1] # p[2]
<1> DEFINE q == Tail(p)
<1>1. p \in Seq(device.operational)
  BY DEF Leads
<1>2. q \in Seq(device.operational) /\ Len(q) = Len(p) - 1 /\ \A i \in 1 .. Len(q) : q[i] = p[i + 1]
  BY <1>1
<1>3. q[1] = p[2] /\ q[Len(q)] = to
  BY <1>1, <1>2 DEF Leads
<1>4. \A i \in 1 .. Len(q) - 1 : Coupled(device, q[i], q[i + 1]) /\ q[i] # to /\ q[i] # q[i + 1]
  <2> TAKE i \in 1 .. Len(q) - 1
  <2>1. i + 1 \in 1 .. Len(p) - 1 /\ i \in 1 .. Len(q) /\ i + 1 \in 1 .. Len(q)
    BY <1>1, <1>2
  <2>2. Coupled(device, p[i + 1], p[(i + 1) + 1]) /\ p[i + 1] # to
    BY <2>1 DEF Leads
  <2>3. p[i + 1] # p[(i + 1) + 1]
    BY <2>1 DEF Leads
  <2> QED
    BY <1>2, <2>1, <2>2, <2>3
<1>5. Len(q) >= 2
  BY <1>1, <1>2
<1>6. /\ p[1] \in device.operational /\ p[2] \in device.operational
      /\ Coupled(device, p[1], p[2]) /\ p[1] # to /\ p[2] # to /\ p[1] # p[2]
  BY <1>1 DEF Leads
<1> QED
  BY <1>2, <1>3, <1>4, <1>5, <1>6 DEF Leads

-----------------------------------------------------------------------------
(* Layouts.                                                                 *)

\* A SWAP of two operational qubits leaves every logical qubit at a place of its own.
LEMMA SwappedLayout ==
  ASSUME NEW D, NEW S, NEW layout \in [D -> S], IsInjective(layout),
         NEW a \in S, NEW b \in S, a # b
  PROVE  SwapLogical(layout, a, b) \in [D -> S] /\ IsInjective(SwapLogical(layout, a, b))
BY DEF SwapLogical, IsInjective

\* The qubit that walks is at the next place, and one that is at neither stays.
LEMMA SwappedPlace ==
  ASSUME NEW layout, NEW a, NEW b, NEW l \in DOMAIN layout
  PROVE  /\ layout[l] = a => SwapLogical(layout, a, b)[l] = b
         /\ layout[l] \notin {a, b} => SwapLogical(layout, a, b)[l] = layout[l]
BY DEF SwapLogical

-----------------------------------------------------------------------------
(* The invariant.                                                           *)

\* The fields of an operation, whatever its qubits.
Fields(qubits) ==
    [kind : {"gate"} \cup Others, name : OneQubitGates \cup DOMAIN BaseGate \cup {"swap"} \cup Others,
     angle : Int, qubits : Seq(qubits), clbit : Nat, cond : SUBSET [bit : Int, equals : Int]]

RouteFields == {"device", "initial", "layout", "path", "ops", "done", "swapCount", "twoQubitGateCount"}

\* What the router is given: a circuit, and a place for each qubit.
RoutableInput(r) == IsCircuit(working, circuit.n) /\ IsInjective(r.initial)

\* The path being walked belongs to the next operation and is where it should be.
OnItsWay(r) ==
    LET op == working[r.done + 1]
    IN  r.path # <<>> =>
            /\ r.done < Len(working) /\ OnTwoQubits(op) /\ Len(r.path) >= 2
            /\ Leads(r.device, r.path, r.layout[op.qubits[1] + 1], r.layout[op.qubits[2] + 1])

RouteInv(r) ==
    /\ r = [f \in RouteFields |-> r[f]]
    /\ IsFiniteSet(r.device.operational)
    /\ circuit.n \in Nat
    /\ r.done \in Nat
    /\ RoutableInput(r) =>
        /\ r.layout \in [1 .. circuit.n -> r.device.operational]
        /\ IsInjective(r.layout)
        /\ r.ops \in Seq(OperationsOn(r.device.operational))
        /\ RoutedOnDevice(r)
        /\ OnItsWay(r)

RoutingInv == \A r \in route : RouteInv(r)

-----------------------------------------------------------------------------
(* Operations.                                                              *)

\* The qubits of an operation have places, those of a gate on two different ones.
LEMMA PlacesOfOperation ==
  ASSUME NEW r \in route, RouteInv(r), RoutableInput(r), r.done < Len(working)
  PROVE  LET op == working[r.done + 1]
         IN  /\ op \in OperationsOn(0 .. circuit.n - 1)
             /\ \A i \in DOMAIN op.qubits : /\ op.qubits[i] + 1 \in 1 .. circuit.n
                                            /\ r.layout[op.qubits[i] + 1] \in r.device.operational
             /\ OnTwoQubits(op) =>
                    /\ 1 \in DOMAIN op.qubits /\ 2 \in DOMAIN op.qubits
                    /\ r.layout[op.qubits[1] + 1] # r.layout[op.qubits[2] + 1]
<1> DEFINE op == working[r.done + 1]
<1>1. op \in OperationsOn(0 .. circuit.n - 1)
  <2>1. r.done + 1 \in 1 .. Len(working) /\ working \in Seq(OperationsOn(0 .. circuit.n - 1))
    BY DEF RouteInv, RoutableInput, IsCircuit
  <2> QED
    BY <2>1
<1>2. op.qubits \in Seq(0 .. circuit.n - 1) /\ (OnTwoQubits(op) => op.qubits[1] # op.qubits[2])
  BY <1>1 DEF OperationsOn, Fields
<1> HIDE DEF op
<1>3. /\ circuit.n \in Nat /\ r.layout \in [1 .. circuit.n -> r.device.operational]
      /\ IsInjective(r.layout)
  BY DEF RouteInv
<1>4. \A i \in DOMAIN op.qubits : op.qubits[i] \in 0 .. circuit.n - 1
  BY <1>2, ElementOfSeq, LenProperties
<1>5. \A i \in DOMAIN op.qubits : /\ op.qubits[i] + 1 \in 1 .. circuit.n
                                  /\ r.layout[op.qubits[i] + 1] \in r.device.operational
  BY <1>3, <1>4
<1>6. ASSUME OnTwoQubits(op)
      PROVE  /\ 1 \in DOMAIN op.qubits /\ 2 \in DOMAIN op.qubits
             /\ r.layout[op.qubits[1] + 1] # r.layout[op.qubits[2] + 1]
  <2>1. 1 \in DOMAIN op.qubits /\ 2 \in DOMAIN op.qubits
    BY <1>2, <1>6 DEF OnTwoQubits
  <2>2. op.qubits[1] + 1 # op.qubits[2] + 1
    BY <1>2, <1>4, <1>6, <2>1
  <2> QED
    BY <1>3, <1>5, <2>1, <2>2 DEF IsInjective
<1> QED
  BY <1>1, <1>5, <1>6 DEF op

\* The path of a gate on two qubits leads from the one to the other.
LEMMA PathsLead ==
  ASSUME NEW r \in route, RouteInv(r), RoutableInput(r), r.done < Len(working),
         NEW path \in PathsOf(working[r.done + 1], r), OnTwoQubits(working[r.done + 1])
  PROVE  LET op == working[r.done + 1]
         IN  Leads(r.device, path, r.layout[op.qubits[1] + 1], r.layout[op.qubits[2] + 1])
<1>1. CASE r.path # <<>>
  BY <1>1 DEF PathsOf, RouteInv, OnItsWay
<1>2. CASE r.path = <<>>
  <2>1. path \in RoutesOf(working[r.done + 1], r)
    BY <1>2 DEF PathsOf
  <2> QED
    BY <2>1, ShortestPathsLead DEF RoutesOf, RouteInv
<1> QED
  BY <1>1, <1>2

\* What the router emits, it emits on the device.
LEMMA EmissionStays ==
  ASSUME NEW device, NEW ops \in Seq(OperationsOn(device.operational)), NEW op,
         op \in OperationsOn(device.operational),
         \A o \in ToSet(ops) : /\ ToSet(o.qubits) \subseteq device.operational
                               /\ OnTwoQubits(o) => Coupled(device, o.qubits[1], o.qubits[2]),
         OnTwoQubits(op) => Coupled(device, op.qubits[1], op.qubits[2])
  PROVE  /\ Append(ops, op) \in Seq(OperationsOn(device.operational))
         /\ \A o \in ToSet(Append(ops, op)) :
                /\ ToSet(o.qubits) \subseteq device.operational
                /\ OnTwoQubits(o) => Coupled(device, o.qubits[1], o.qubits[2])
<1>1. /\ Append(ops, op) \in Seq(OperationsOn(device.operational))
      /\ ToSet(Append(ops, op)) = ToSet(ops) \cup {op}
  BY ElementsOfAppend
<1>2. ToSet(op.qubits) \subseteq device.operational
  <2>1. op.qubits \in Seq(device.operational)
    BY DEF OperationsOn, Fields
  <2> QED
    BY <2>1, ElementOfSeq, LenProperties DEF ToSet
<1>3. ASSUME NEW o \in ToSet(Append(ops, op))
      PROVE  /\ ToSet(o.qubits) \subseteq device.operational
             /\ OnTwoQubits(o) => Coupled(device, o.qubits[1], o.qubits[2])
  <2>1. CASE o = op
    BY <1>2, <2>1
  <2>2. CASE o \in ToSet(ops)
    BY <2>2
  <2> QED
    BY <1>1, <1>3, <2>1, <2>2
<1> QED
  BY <1>1, <1>3

\* A condition changes nothing of where an operation is.
LEMMA WrappingStays ==
  ASSUME NEW S, NEW op \in OperationsOn(S), NEW cond \in SUBSET [bit : Int, equals : Int]
  PROVE  /\ Wrapped(op, cond) \in OperationsOn(S)
         /\ OnTwoQubits(Wrapped(op, cond)) = OnTwoQubits(op)
         /\ Wrapped(op, cond).qubits = op.qubits
<1>1. {[bit |-> Whole, equals |-> t.equals] : t \in cond} \in SUBSET [bit : Int, equals : Int]
  BY DEF Whole
<1>2. op \in Fields(S)
  BY DEF OperationsOn, Fields
<1>3. Wrapped(op, cond) \in Fields(S) /\ Wrapped(op, cond).kind = op.kind /\ Wrapped(op, cond).qubits = op.qubits
  BY <1>1, <1>2 DEF Wrapped, Fields
<1>4. OnTwoQubits(Wrapped(op, cond)) = OnTwoQubits(op)
  BY <1>3 DEF OnTwoQubits
<1> QED
  BY <1>3, <1>4 DEF OperationsOn, Fields

\* A SWAP along a coupling.
LEMMA SwapIsOperation ==
  ASSUME NEW S, NEW a \in S, NEW b \in S, a # b
  PROVE  /\ Gate("swap", <<a, b>>) \in OperationsOn(S)
         /\ Gate("swap", <<a, b>>).qubits = <<a, b>>
<1>1. <<a, b>> \in Seq(S) /\ Len(<<a, b>>) = 2 /\ <<a, b>>[1] # <<a, b>>[2]
  OBVIOUS
<1> DEFINE swap == Gate("swap", <<a, b>>)
<1> DEFINE shape(qubits) == [kind |-> "gate", name |-> "swap", angle |-> 0, qubits |-> qubits, clbit |-> 0, cond |-> {}]
<1>2. swap = shape(<<a, b>>)
  BY DEF Gate, Operation
<1>3. swap.qubits = <<a, b>>
  BY <1>2
<1>4. swap \in Fields(S)
  <2>1. ASSUME NEW qubits \in Seq(S)
        PROVE  shape(qubits) \in Fields(S)
    BY <2>1 DEF Fields
  <2> QED
    BY <1>1, <1>2, <2>1
<1> HIDE DEF swap
<1>5. swap \in OperationsOn(S)
  BY <1>1, <1>3, <1>4 DEF OperationsOn, Fields
<1> QED
  BY <1>3, <1>5 DEF swap

\* An operation where the layout puts it.
LEMMA PlacedIsOperation ==
  ASSUME NEW S, NEW n \in Nat, NEW layout \in [1 .. n -> S], IsInjective(layout),
         NEW op \in OperationsOn(0 .. n - 1)
  PROVE  /\ Placed(op, layout) \in OperationsOn(S)
         /\ OnTwoQubits(Placed(op, layout)) = OnTwoQubits(op)
<1>1. /\ op.qubits \in Seq(0 .. n - 1)
      /\ op \in Fields(0 .. n - 1)
      /\ OnTwoQubits(op) => op.qubits[1] # op.qubits[2]
  BY DEF OperationsOn, Fields
<1> DEFINE places == [i \in DOMAIN op.qubits |-> layout[op.qubits[i] + 1]]
<1>2. DOMAIN op.qubits = 1 .. Len(op.qubits) /\ Len(op.qubits) \in Nat
  BY <1>1, LenProperties
<1>3. \A i \in DOMAIN op.qubits : op.qubits[i] \in 0 .. n - 1 /\ op.qubits[i] + 1 \in 1 .. n
  BY <1>1, <1>2, ElementOfSeq
<1>4. \A i \in 1 .. Len(op.qubits) : layout[op.qubits[i] + 1] \in S
  BY <1>2, <1>3
<1>5. places \in Seq(S) /\ Len(places) = Len(op.qubits)
  BY <1>2, <1>4
<1>6. Placed(op, layout) = [[op EXCEPT !.cond = {}] EXCEPT !.qubits = places]
  BY <1>1 DEF Placed
<1> HIDE DEF places
<1>7. /\ Placed(op, layout) \in Fields(S)
      /\ Placed(op, layout).kind = op.kind /\ Placed(op, layout).qubits = places
  BY <1>1, <1>5, <1>6 DEF Fields
<1>8. OnTwoQubits(Placed(op, layout)) = OnTwoQubits(op)
  BY <1>5, <1>7 DEF OnTwoQubits
<1>9. \A i \in DOMAIN op.qubits : places[i] = layout[op.qubits[i] + 1]
  BY DEF places
<1>10. ASSUME OnTwoQubits(op) PROVE places[1] # places[2]
  <2>1. 1 \in DOMAIN op.qubits /\ 2 \in DOMAIN op.qubits
    BY <1>2, <1>10 DEF OnTwoQubits
  <2>2. op.qubits[1] + 1 # op.qubits[2] + 1
    BY <1>1, <1>3, <1>10, <2>1
  <2> QED
    BY <1>3, <1>9, <2>1, <2>2 DEF IsInjective
<1> QED
  BY <1>7, <1>8, <1>10 DEF OperationsOn, Fields

\* An operation is placed qubit by qubit.
LEMMA PlacesOfPlaced ==
  ASSUME NEW layout, NEW S, NEW op \in OperationsOn(S)
  PROVE  \A i \in DOMAIN op.qubits : Placed(op, layout).qubits[i] = layout[op.qubits[i] + 1]
BY DEF Placed, OperationsOn, Fields

-----------------------------------------------------------------------------
(* The steps of the router.                                                 *)

\* The conditions of a circuit's operation.
LEMMA ConditionsOfOperation ==
  ASSUME NEW S, NEW op \in OperationsOn(S)
  PROVE  op.cond \in SUBSET [bit : Int, equals : Int]
BY DEF OperationsOn, Fields

\* A routing starts with its initial layout, nothing emitted and no path.
LEMMA TranspileStarts ==
  ASSUME Transpile PROVE RoutingInv'
<1>1. PICK p \in Placements :
        /\ Len(p.layout) = circuit.n
        /\ ToSet(p.layout) \subseteq p.device.operational
        /\ route' = {[device |-> p.device, initial |-> p.layout, layout |-> p.layout,
                      path |-> <<>>, ops |-> <<>>, done |-> 0, swapCount |-> 0, twoQubitGateCount |-> 0]}
  BY DEF Transpile
<1>2. p.layout \in Seq(Nat) /\ IsFiniteSet(p.device.operational)
  BY PlacementAssumption
<1> DEFINE r == [device |-> p.device, initial |-> p.layout, layout |-> p.layout,
                 path |-> <<>>, ops |-> <<>>, done |-> 0, swapCount |-> 0, twoQubitGateCount |-> 0]
<1>3. circuit' = circuit /\ working' = working
  BY DEF Transpile
<1>4. circuit.n \in Nat /\ DOMAIN p.layout = 1 .. circuit.n
  BY <1>1, <1>2, LenProperties
<1>5. p.layout \in [1 .. circuit.n -> p.device.operational]
  <2>1. \A i \in 1 .. circuit.n : p.layout[i] \in p.device.operational
    BY <1>1, <1>4 DEF ToSet
  <2>2. p.layout \in [1 .. circuit.n -> Nat]
    BY <1>1, <1>2, LenProperties
  <2> QED
    BY <2>1, <2>2
<1>6. r.ops \in Seq(OperationsOn(p.device.operational)) /\ RoutedOnDevice(r)
  BY DEF RoutedOnDevice, ToSet
<1>7. r = [f \in RouteFields |-> r[f]]
  BY DEF RouteFields
<1>8. r.path = <<>> /\ r.done = 0 /\ r.layout = p.layout /\ r.initial = p.layout /\ r.device = p.device
  OBVIOUS
<1>9. route' = {r}
  BY <1>1
<1> HIDE DEF r
<1>10. RouteInv(r)'
  <2>1. OnItsWay(r)'
    BY <1>8 DEF OnItsWay
  <2>2. RoutedOnDevice(r)'
    BY <1>6 DEF RoutedOnDevice
  <2>3. /\ (r = [f \in RouteFields |-> r[f]])' /\ IsFiniteSet(r.device.operational)'
        /\ (circuit.n \in Nat)' /\ (r.done \in Nat)'
    BY <1>2, <1>3, <1>4, <1>7, <1>8
  <2>4. /\ (r.layout \in [1 .. circuit.n -> r.device.operational])'
        /\ (r.ops \in Seq(OperationsOn(r.device.operational)))'
    BY <1>3, <1>5, <1>6, <1>8
  <2>5. RoutableInput(r)' => IsInjective(r.layout)'
    BY <1>8 DEF RoutableInput
  <2> QED
    BY <2>1, <2>2, <2>3, <2>4, <2>5 DEF RouteInv
<1> QED
  BY <1>9, <1>10 DEF RoutingInv

\* A SWAP along the path.
LEMMA SwapSteps ==
  ASSUME RoutingInv, EmitSwap PROVE RoutingInv'
<1>1. PICK r \in route :
        /\ r.done < Len(working)
        /\ \E path \in PathsOf(working[r.done + 1], r) :
            Len(path) > 2 /\ route' = {Swapped(r, working[r.done + 1], path)}
  BY DEF EmitSwap
<1> DEFINE op == working[r.done + 1]
<1>2. PICK path \in PathsOf(op, r) : Len(path) > 2 /\ route' = {Swapped(r, op, path)}
  BY <1>1
<1> DEFINE swap == Wrapped(Gate("swap", <<path[1], path[2]>>), op.cond)
<1>3. PICK s : s = Swapped(r, op, path) /\ route' = {s}
  BY <1>2
<1>4. RouteInv(r) /\ circuit' = circuit /\ working' = working
  BY DEF RoutingInv, EmitSwap
<1>5. /\ s = [f \in RouteFields |-> s[f]]
      /\ s.device = r.device /\ s.initial = r.initial /\ s.done = r.done
      /\ s.layout = SwapLogical(r.layout, path[1], path[2])
      /\ s.path = Tail(path) /\ s.ops = Append(r.ops, swap)
  <2>1. DOMAIN r = RouteFields
    BY <1>4 DEF RouteInv
  <2> QED
    BY <1>3, <2>1 DEF Swapped, RouteFields
<1> HIDE DEF swap
<1>6. ASSUME RoutableInput(s)'
      PROVE  /\ s.layout \in [1 .. circuit.n -> s.device.operational]
             /\ IsInjective(s.layout)
             /\ s.ops \in Seq(OperationsOn(s.device.operational))
             /\ RoutedOnDevice(s)
             /\ OnItsWay(s)
  <2>1. RoutableInput(r)
    BY <1>4, <1>5, <1>6 DEF RoutableInput
  <2>2. OnTwoQubits(op)
    <3>1. CASE r.path # <<>>
      BY <1>4, <2>1, <3>1 DEF RouteInv, OnItsWay
    <3>2. CASE r.path = <<>> /\ ~OnTwoQubits(op)
      <4>1. path = <<>>
        BY <3>2 DEF PathsOf, RoutesOf
      <4> QED
        BY <1>2, <4>1
    <3> QED
      BY <3>1, <3>2
  <2> DEFINE from == op.qubits[1] + 1
             to == op.qubits[2] + 1
  <2>3. Leads(r.device, path, r.layout[from], r.layout[to])
    BY <1>1, <1>4, <2>1, <2>2, PathsLead
  <2>4. /\ op \in OperationsOn(0 .. circuit.n - 1)
        /\ from \in 1 .. circuit.n /\ to \in 1 .. circuit.n /\ r.layout[from] # r.layout[to]
    BY <1>1, <1>4, <2>1, <2>2, PlacesOfOperation
  <2> HIDE DEF from, to, op
  <2>5. /\ Leads(r.device, Tail(path), path[2], r.layout[to]) /\ Len(Tail(path)) >= 2
        /\ path[1] \in r.device.operational /\ path[2] \in r.device.operational
        /\ Coupled(r.device, path[1], path[2])
        /\ path[1] # r.layout[to] /\ path[2] # r.layout[to]
    BY <1>2, <2>3, RestLeads
  <2>6. path[1] = r.layout[from] /\ path[1] # path[2]
    BY <1>2, <2>3, RestLeads DEF Leads
  <2>7. /\ r.layout \in [1 .. circuit.n -> r.device.operational] /\ IsInjective(r.layout)
        /\ r.ops \in Seq(OperationsOn(r.device.operational)) /\ RoutedOnDevice(r) /\ circuit.n \in Nat
    BY <1>4, <2>1 DEF RouteInv
  <2>8. /\ s.layout \in [1 .. circuit.n -> r.device.operational] /\ IsInjective(s.layout)
        /\ s.layout[from] = path[2] /\ s.layout[to] = r.layout[to]
    <3> DEFINE moved == SwapLogical(r.layout, path[1], path[2])
    <3>1. r.layout \in [1 .. circuit.n -> r.device.operational] /\ IsInjective(r.layout)
      BY <2>7
    <3>2. moved \in [1 .. circuit.n -> r.device.operational]
      BY <2>5, <2>6, <3>1, SwappedLayout
    <3>3. IsInjective(moved)
      BY <2>5, <2>6, <3>1, SwappedLayout
    <3>4. from \in DOMAIN r.layout /\ to \in DOMAIN r.layout
      BY <2>4, <3>1
    <3>5. moved[from] = path[2]
      BY <2>6, <3>4, SwappedPlace
    <3>6. moved[to] = r.layout[to]
      BY <2>5, <3>4, SwappedPlace
    <3> HIDE DEF moved
    <3>7. s.layout = moved
      BY <1>5 DEF moved
    <3> QED
      BY <3>2, <3>3, <3>5, <3>6, <3>7
  <2>9. /\ swap \in OperationsOn(r.device.operational) /\ swap.qubits = <<path[1], path[2]>>
    BY <2>4, <2>5, <2>6, SwapIsOperation, WrappingStays, ConditionsOfOperation DEF swap
  <2>10. Coupled(r.device, swap.qubits[1], swap.qubits[2])
    BY <2>5, <2>9
  <2>11. s.ops \in Seq(OperationsOn(s.device.operational)) /\ RoutedOnDevice(s)
    <3>1. \A o \in ToSet(r.ops) :
            /\ ToSet(o.qubits) \subseteq r.device.operational
            /\ OnTwoQubits(o) => Coupled(r.device, o.qubits[1], o.qubits[2])
      BY <2>7 DEF RoutedOnDevice
    <3>2. /\ Append(r.ops, swap) \in Seq(OperationsOn(r.device.operational))
          /\ \A o \in ToSet(Append(r.ops, swap)) :
                /\ ToSet(o.qubits) \subseteq r.device.operational
                /\ OnTwoQubits(o) => Coupled(r.device, o.qubits[1], o.qubits[2])
      BY <2>7, <2>9, <2>10, <3>1, EmissionStays
    <3> QED
      BY <1>5, <3>2 DEF RoutedOnDevice
  <2>12. OnItsWay(s)
    BY <1>1, <1>5, <2>2, <2>5, <2>8 DEF OnItsWay, from, to, op
  <2> QED
    BY <1>5, <2>8, <2>11, <2>12
<1>7. RouteInv(s)'
  <2>1. OnItsWay(s)' <=> OnItsWay(s)
    BY <1>4 DEF OnItsWay
  <2> QED
    BY <1>4, <1>5, <1>6, <2>1 DEF RouteInv, RoutedOnDevice
<1> QED
  BY <1>3, <1>7 DEF RoutingInv

\* The operation itself, when the walk is over or none is needed.
LEMMA OperationSteps ==
  ASSUME RoutingInv, EmitOperation PROVE RoutingInv'
<1>1. PICK r \in route :
        /\ r.done < Len(working)
        /\ \E path \in PathsOf(working[r.done + 1], r) :
            Len(path) <= 2 /\ route' = {Emitted(r, working[r.done + 1])}
  BY DEF EmitOperation
<1> DEFINE op == working[r.done + 1]
<1>2. PICK path \in PathsOf(op, r) : Len(path) <= 2 /\ route' = {Emitted(r, op)}
  BY <1>1
<1>3. PICK s : s = Emitted(r, op) /\ route' = {s}
  BY <1>2
<1> DEFINE emitted == Wrapped(Placed(op, r.layout), op.cond)
<1>4. RouteInv(r) /\ circuit' = circuit /\ working' = working
  BY DEF RoutingInv, EmitOperation
<1>5. /\ s = [f \in RouteFields |-> s[f]]
      /\ s.device = r.device /\ s.initial = r.initial /\ s.done = r.done + 1
      /\ s.layout = r.layout /\ s.path = <<>> /\ s.ops = Append(r.ops, emitted)
  <2>1. DOMAIN r = RouteFields
    BY <1>4 DEF RouteInv
  <2> QED
    BY <1>3, <2>1 DEF Emitted, RouteFields
<1> HIDE DEF emitted
<1>6. ASSUME RoutableInput(s)'
      PROVE  /\ s.layout \in [1 .. circuit.n -> s.device.operational]
             /\ IsInjective(s.layout)
             /\ s.ops \in Seq(OperationsOn(s.device.operational))
             /\ RoutedOnDevice(s)
             /\ OnItsWay(s)
  <2>1. RoutableInput(r)
    BY <1>4, <1>5, <1>6 DEF RoutableInput
  <2>2. /\ r.layout \in [1 .. circuit.n -> r.device.operational] /\ IsInjective(r.layout)
        /\ r.ops \in Seq(OperationsOn(r.device.operational)) /\ RoutedOnDevice(r) /\ circuit.n \in Nat
    BY <1>4, <2>1 DEF RouteInv
  <2>3. op \in OperationsOn(0 .. circuit.n - 1)
    BY <1>1, <1>4, <2>1, PlacesOfOperation
  <2>4. OnTwoQubits(op) => Coupled(r.device, r.layout[op.qubits[1] + 1], r.layout[op.qubits[2] + 1])
    <3> SUFFICES ASSUME OnTwoQubits(op)
                 PROVE  Coupled(r.device, r.layout[op.qubits[1] + 1], r.layout[op.qubits[2] + 1])
      OBVIOUS
    <3> DEFINE from == r.layout[op.qubits[1] + 1]
               to == r.layout[op.qubits[2] + 1]
    <3>1. Leads(r.device, path, from, to)
      BY <1>1, <1>4, <2>1, PathsLead
    <3>2. from # to
      BY <1>1, <1>4, <2>1, PlacesOfOperation
    <3> HIDE DEF from, to, op
    <3>3. path \in Seq(r.device.operational) /\ Len(path) = 2
      <4>1. path \in Seq(r.device.operational) /\ path[1] = from /\ path[Len(path)] = to
        BY <3>1 DEF Leads
      <4>2. Len(path) \in Nat /\ Len(path) >= 1 /\ Len(path) # 1
        BY <3>1, <3>2, <4>1, LenProperties DEF Leads
      <4>3. Len(path) <= 2
        BY <1>2
      <4>4. Len(path) = 2
        BY <4>2, <4>3
      <4> QED
        BY <4>1, <4>4
    <3>4. path[1] = from /\ path[2] = to /\ Coupled(r.device, path[1], path[1 + 1])
      BY <3>1, <3>3 DEF Leads
    <3> QED
      BY <3>4 DEF from, to
  <2>5. \A i \in DOMAIN op.qubits : Placed(op, r.layout).qubits[i] = r.layout[op.qubits[i] + 1]
    BY <2>3, PlacesOfPlaced
  <2>6. /\ Placed(op, r.layout) \in OperationsOn(r.device.operational)
        /\ OnTwoQubits(Placed(op, r.layout)) = OnTwoQubits(op)
    BY <2>2, <2>3, PlacedIsOperation
  <2>7. op.cond \in SUBSET [bit : Int, equals : Int]
    BY <2>3, ConditionsOfOperation
  <2>8. /\ emitted \in OperationsOn(r.device.operational)
        /\ OnTwoQubits(emitted) = OnTwoQubits(op) /\ emitted.qubits = Placed(op, r.layout).qubits
    BY <2>6, <2>7, WrappingStays DEF emitted
  <2>9. OnTwoQubits(emitted) => Coupled(r.device, emitted.qubits[1], emitted.qubits[2])
    <3> SUFFICES ASSUME OnTwoQubits(op)
                 PROVE  Coupled(r.device, emitted.qubits[1], emitted.qubits[2])
      BY <2>8
    <3>1. 1 \in DOMAIN op.qubits /\ 2 \in DOMAIN op.qubits
      BY <1>1, <1>4, <2>1, PlacesOfOperation
    <3> QED
      BY <2>4, <2>5, <2>8, <3>1
  <2> HIDE DEF op
  <2>10. s.ops \in Seq(OperationsOn(s.device.operational)) /\ RoutedOnDevice(s)
    <3>1. \A o \in ToSet(r.ops) :
            /\ ToSet(o.qubits) \subseteq r.device.operational
            /\ OnTwoQubits(o) => Coupled(r.device, o.qubits[1], o.qubits[2])
      BY <2>2 DEF RoutedOnDevice
    <3>2. /\ Append(r.ops, emitted) \in Seq(OperationsOn(r.device.operational))
          /\ \A o \in ToSet(Append(r.ops, emitted)) :
                /\ ToSet(o.qubits) \subseteq r.device.operational
                /\ OnTwoQubits(o) => Coupled(r.device, o.qubits[1], o.qubits[2])
      BY <2>2, <2>8, <2>9, <3>1, EmissionStays
    <3> QED
      BY <1>5, <3>2 DEF RoutedOnDevice
  <2>11. OnItsWay(s)
    BY <1>5 DEF OnItsWay
  <2> QED
    BY <1>5, <2>2, <2>10, <2>11
<1>7. RouteInv(s)'
  <2>1. OnItsWay(s)' <=> OnItsWay(s)
    BY <1>4 DEF OnItsWay
  <2>2. s.done \in Nat
    BY <1>4, <1>5 DEF RouteInv
  <2> QED
    BY <1>4, <1>5, <1>6, <2>1, <2>2 DEF RouteInv, RoutedOnDevice
<1> QED
  BY <1>3, <1>7 DEF RoutingInv

\* What routes nothing keeps the route, the circuit and its operations while
\* there is a route.
LEMMA RouteKept ==
  ASSUME RoutingInv, route' = route, route # {} => circuit' = circuit /\ working' = working
  PROVE  RoutingInv'
<1>1. CASE route = {}
  BY <1>1 DEF RoutingInv
<1>2. CASE route # {}
  <2>1. ASSUME NEW r \in route PROVE RouteInv(r)'
    BY <1>2 DEF RoutingInv, RouteInv, RoutableInput, RoutedOnDevice, OnItsWay
  <2> QED
    BY <2>1 DEF RoutingInv
<1> QED
  BY <1>1, <1>2

-----------------------------------------------------------------------------
(* The specification.                                                       *)

\* Only the router's stages have a route.
OnlyRouting == route # {} => stage \in {"routing", "verified"}

\* The router's invariant holds at every step of every walk.
THEOREM RoutingInvariance == Spec => [](OnlyRouting /\ RoutingInv)
<1>1. Init => OnlyRouting /\ RoutingInv
  BY DEF Init, OnlyRouting, RoutingInv
<1>2. OnlyRouting /\ RoutingInv /\ [Next]_vars => (OnlyRouting /\ RoutingInv)'
  <2> SUFFICES ASSUME OnlyRouting, RoutingInv, [Next]_vars PROVE OnlyRouting' /\ RoutingInv'
    OBVIOUS
  <2>1. CASE Parse \/ Emission \/ Complement \/ PivotPair
    <3>1. route' = route /\ circuit' = circuit /\ working' = working /\ (stage' = stage \/ route = {})
      BY <2>1 DEF Parse, Emission, Complement, PivotPair, Rewritten, OnlyRouting
    <3> QED
      BY <3>1, RouteKept DEF OnlyRouting
  <2>2. CASE Extract \/ Sweep \/ Optimized \/ ApplyDynamicalDecoupling
    <3>1. route' = route /\ route = {}
      BY <2>2 DEF Extract, Sweep, Optimized, ApplyDynamicalDecoupling, OnlyRouting
    <3> QED
      BY <3>1, RouteKept DEF OnlyRouting
  <2>3. CASE Transpile
    BY <2>3, TranspileStarts DEF Transpile, OnlyRouting
  <2>4. CASE EmitSwap
    BY <2>4, SwapSteps DEF EmitSwap, OnlyRouting
  <2>5. CASE EmitOperation
    BY <2>5, OperationSteps DEF EmitOperation, OnlyRouting
  <2>6. CASE VerifyRouting
    BY <2>6, RouteKept DEF VerifyRouting, OnlyRouting
  <2>7. CASE UNCHANGED vars
    BY <2>7, RouteKept DEF vars, OnlyRouting
  <2> QED
    BY <2>1, <2>2, <2>3, <2>4, <2>5, <2>6, <2>7 DEF Next
<1> QED
  BY <1>1, <1>2, PTL DEF Spec

-----------------------------------------------------------------------------
(* What is handed to the router: sweeps.                                    *)

\* An element less.
LEMMA RemovalShortens ==
  ASSUME NEW S, NEW s \in Seq(S), NEW i \in DOMAIN s
  PROVE  RemoveAt(s, i) \in Seq(S) /\ Len(RemoveAt(s, i)) = Len(s) - 1
<1>1. i \in 1 .. Len(s) /\ Len(s) \in Nat /\ \A k \in 1 .. Len(s) : s[k] \in S
  OBVIOUS
<1>2. SubSeq(s, 1, i - 1) \in Seq(S) /\ Len(SubSeq(s, 1, i - 1)) = i - 1
  <2>1. \A k \in 1 .. i - 1 : s[k] \in S
    BY <1>1
  <2>2. 1 \in Int /\ i - 1 \in Int
    BY <1>1
  <2> QED
    BY <1>1, <2>1, <2>2, SubSeqProperties
<1>3. SubSeq(s, i + 1, Len(s)) \in Seq(S) /\ Len(SubSeq(s, i + 1, Len(s))) = Len(s) - i
  <2>1. \A k \in i + 1 .. Len(s) : s[k] \in S
    BY <1>1
  <2>2. i + 1 \in Int /\ Len(s) \in Int
    BY <1>1
  <2> QED
    BY <1>1, <2>1, <2>2, SubSeqProperties
<1> DEFINE left == SubSeq(s, 1, i - 1)
           right == SubSeq(s, i + 1, Len(s))
<1>4. RemoveAt(s, i) = left \o right
  BY DEF RemoveAt
<1> HIDE DEF left, right
<1>5. left \o right \in Seq(S) /\ Len(left \o right) = Len(left) + Len(right)
  BY <1>2, <1>3, ConcatProperties DEF left, right
<1>6. Len(left) = i - 1 /\ Len(right) = Len(s) - i
  BY <1>2, <1>3 DEF left, right
<1> QED
  BY <1>1, <1>4, <1>5, <1>6

\* Two elements less, the later one first.
LEMMA PairRemovalShortens ==
  ASSUME NEW S, NEW s \in Seq(S), NEW j \in DOMAIN s, NEW i \in DOMAIN s, i < j
  PROVE  RemoveAt(RemoveAt(s, j), i) \in Seq(S) /\ Len(RemoveAt(RemoveAt(s, j), i)) = Len(s) - 2
<1>1. RemoveAt(s, j) \in Seq(S) /\ Len(RemoveAt(s, j)) = Len(s) - 1
  BY RemovalShortens
<1>2. i \in DOMAIN RemoveAt(s, j)
  <2>1. DOMAIN s = 1 .. Len(s) /\ Len(s) \in Nat /\ DOMAIN RemoveAt(s, j) = 1 .. Len(RemoveAt(s, j))
    BY <1>1
  <2> QED
    BY <1>1, <2>1
<1>3. RemoveAt(RemoveAt(s, j), i) \in Seq(S) /\ Len(RemoveAt(RemoveAt(s, j), i)) = Len(RemoveAt(s, j)) - 1
  BY <1>1, <1>2, RemovalShortens
<1> QED
  BY <1>1, <1>3

\* Another angle, or the name of another gate on one qubit.
LEMMA ChangedIsCircuit ==
  ASSUME NEW qubits, NEW ops \in Seq(OperationsOn(qubits)), NEW i \in DOMAIN ops
  PROVE  /\ \A angle \in Int : /\ [ops EXCEPT ![i].angle = angle] \in Seq(OperationsOn(qubits))
                               /\ Len([ops EXCEPT ![i].angle = angle]) = Len(ops)
         /\ \A name \in OneQubitGates : /\ [ops EXCEPT ![i].name = name] \in Seq(OperationsOn(qubits))
                                        /\ Len([ops EXCEPT ![i].name = name]) = Len(ops)
<1>1. ops[i] \in OperationsOn(qubits)
  OBVIOUS
<1>2. ASSUME NEW angle \in Int PROVE [ops[i] EXCEPT !.angle = angle] \in OperationsOn(qubits)
  BY <1>1 DEF OperationsOn, OnTwoQubits
<1>3. ASSUME NEW name \in OneQubitGates PROVE [ops[i] EXCEPT !.name = name] \in OperationsOn(qubits)
  BY <1>1 DEF OperationsOn, OnTwoQubits
<1>4. ASSUME NEW op \in OperationsOn(qubits)
      PROVE  [ops EXCEPT ![i] = op] \in Seq(OperationsOn(qubits)) /\ Len([ops EXCEPT ![i] = op]) = Len(ops)
  OBVIOUS
<1>5. \A angle \in Int : [ops EXCEPT ![i].angle = angle] = [ops EXCEPT ![i] = [ops[i] EXCEPT !.angle = angle]]
  OBVIOUS
<1>6. \A name \in OneQubitGates : [ops EXCEPT ![i].name = name] = [ops EXCEPT ![i] = [ops[i] EXCEPT !.name = name]]
  OBVIOUS
<1> QED
  BY <1>2, <1>3, <1>4, <1>5, <1>6

\* Two rotations made one are a rotation or nothing.
LEMMA FusionShortens ==
  ASSUME NEW qubits, NEW ops \in Seq(OperationsOn(qubits)), NEW j \in DOMAIN ops, NEW i \in DOMAIN ops, i < j
  PROVE  Fuse(ops, i, j) \in Seq(OperationsOn(qubits)) /\ Len(Fuse(ops, i, j)) < Len(ops)
<1> DEFINE total == NormalizeAngle(ops[i].angle + ops[j].angle)
<1>1. total \in Int
  <2>1. ops[i].angle \in Int /\ ops[j].angle \in Int
    BY DEF OperationsOn
  <2> QED
    BY <2>1 DEF NormalizeAngle
<1>2. Len(ops) \in Nat
  OBVIOUS
<1> DEFINE turned == [ops EXCEPT ![i].angle = total]
<1>3. turned \in Seq(OperationsOn(qubits)) /\ Len(turned) = Len(ops) /\ j \in DOMAIN turned
  <2>1. turned \in Seq(OperationsOn(qubits)) /\ Len(turned) = Len(ops)
    BY <1>1, ChangedIsCircuit
  <2>2. DOMAIN turned = DOMAIN ops
    OBVIOUS
  <2> QED
    BY <2>1, <2>2
<1>4. Fuse(ops, i, j) = IF total = 0 THEN RemoveAt(RemoveAt(ops, j), i) ELSE RemoveAt(turned, j)
  BY DEF Fuse
<1> HIDE DEF total, turned
<1>5. /\ RemoveAt(RemoveAt(ops, j), i) \in Seq(OperationsOn(qubits))
      /\ Len(RemoveAt(RemoveAt(ops, j), i)) = Len(ops) - 2
  BY PairRemovalShortens
<1>6. RemoveAt(turned, j) \in Seq(OperationsOn(qubits)) /\ Len(RemoveAt(turned, j)) = Len(ops) - 1
  BY <1>3, RemovalShortens
<1> QED
  BY <1>2, <1>4, <1>5, <1>6

\* The next operation on some qubits comes later.
LEMMA InteractingIsLater ==
  ASSUME NEW ops, Len(ops) \in Nat, NEW from \in Nat, NEW qubits, NEW j \in NextInteracting(ops, from, qubits)
  PROVE  j \in from + 1 .. Len(ops)
BY DEF NextInteracting

\* What any rewrite makes of a circuit is a circuit, and a shorter one.
LEMMA RewritesShorten ==
  ASSUME NEW qubits, NEW ops \in Seq(OperationsOn(qubits)), NEW i \in DOMAIN ops, NEW new \in RewritesAt(ops, i)
  PROVE  new \in Seq(OperationsOn(qubits)) /\ Len(new) < Len(ops)
<1>1. Len(ops) \in Nat /\ DOMAIN ops = 1 .. Len(ops) /\ i \in Nat
  OBVIOUS
<1>2. CASE new = RemoveAt(ops, i)
  BY <1>1, <1>2, RemovalShortens
<1>3. ASSUME NEW j \in FusionPartner(ops, i), new = Fuse(ops, i, j)
      PROVE  new \in Seq(OperationsOn(qubits)) /\ Len(new) < Len(ops)
  <2>1. j \in i + 2 .. Len(ops)
    BY DEF FusionPartner
  <2>2. j \in DOMAIN ops /\ i < j
    BY <1>1, <2>1
  <2> QED
    BY <1>3, <2>2, FusionShortens
<1>4. ASSUME NEW j \in NextInteracting(ops, i, ToQubits(ops[i])), new \in PairRewrites(ops, i, j)
      PROVE  new \in Seq(OperationsOn(qubits)) /\ Len(new) < Len(ops)
  <2>1. j \in DOMAIN ops /\ i < j
    BY <1>1, InteractingIsLater
  <2>2. CASE new = RemoveAt(RemoveAt(ops, j), i)
    BY <1>1, <2>1, <2>2, PairRemovalShortens
  <2>3. CASE new = Fuse(ops, i, j)
    BY <2>1, <2>3, FusionShortens
  <2>4. CASE ops[j].name \in DOMAIN CONJUGABLE /\ new \in Conjugated(ops, i, j)
    <3> DEFINE coloured == [ops EXCEPT ![j].name = CONJUGABLE[@]]
    <3>1. PICK k \in NextInteracting(ops, j, ToQubits(ops[j])) : new = RemoveAt(RemoveAt(coloured, k), i)
      BY <2>4 DEF Conjugated
    <3>2. k \in DOMAIN ops /\ i < k
      <4>1. k \in j + 1 .. Len(ops)
        BY <1>1, <2>1, InteractingIsLater
      <4> QED
        BY <1>1, <2>1, <4>1
    <3>3. CONJUGABLE[ops[j].name] \in OneQubitGates
      BY <2>4 DEF CONJUGABLE, OneQubitGates
    <3>4. coloured = [ops EXCEPT ![j].name = CONJUGABLE[ops[j].name]]
      BY <2>1
    <3>5. coloured \in Seq(OperationsOn(qubits)) /\ Len(coloured) = Len(ops) /\ DOMAIN coloured = DOMAIN ops
      BY <2>1, <3>3, <3>4, ChangedIsCircuit
    <3> HIDE DEF coloured
    <3> QED
      BY <1>1, <3>1, <3>2, <3>5, PairRemovalShortens
  <2> QED
    BY <1>4, <2>2, <2>3, <2>4 DEF PairRewrites
<1> QED
  BY <1>2, <1>3, <1>4 DEF RewritesAt

-----------------------------------------------------------------------------
(* What is handed to the router: pulses.                                    *)

\* A nonempty set of naturals has a least member: the intervals from zero to
\* its members, ordered by inclusion, have one.
LEMMA LeastNumber ==
  ASSUME NEW T, T \subseteq Nat, T # {}
  PROVE  \E x \in T : \A y \in T : x <= y
<1> DEFINE F == {0 .. x : x \in T}
           R == StrictSubsetOrdering(Nat)
<1>1. F \subseteq FiniteSubsetsOf(Nat) /\ F # {}
  <2>1. \A x \in T : IsFiniteSet(0 .. x) /\ 0 .. x \subseteq Nat
    BY FS_Interval
  <2> QED
    BY <2>1 DEF FiniteSubsetsOf
<1>2. PICK m \in F : \A z \in F : ~ (<<z, m>> \in R)
  <2>1. IsWellFoundedOn(R, FiniteSubsetsOf(Nat))
    BY FS_StrictSubsetOrderingWellFounded
  <2> HIDE DEF F, R
  <2> QED
    BY <1>1, <2>1, WFMin
<1>3. PICK x \in T : m = 0 .. x
  BY <1>2
<1>4. ASSUME NEW y \in T, y < x PROVE FALSE
  <2>1. 0 .. y \subseteq 0 .. x /\ 0 .. y # 0 .. x /\ 0 .. y \in F
    BY <1>4
  <2>2. <<0 .. y, 0 .. x>> \in R
    BY <2>1 DEF StrictSubsetOrdering
  <2> QED
    BY <1>2, <1>3, <2>1, <2>2
<1> QED
  BY <1>4

\* What FlattenSeq's function is for each beginning of s.
Flattens(f, s, n) == \A i \in 1 .. n : f[i] = IF i = 1 THEN s[i] ELSE f[i - 1] \o s[i]

\* It exists: it does for every beginning before the first that has none, which
\* would extend the one before.
LEMMA FlatteningExists ==
  ASSUME NEW S, NEW s \in Seq(Seq(S)), NEW n \in 0 .. Len(s)
  PROVE  \E f \in [1 .. n -> Seq(S)] : Flattens(f, s, n)
<1> DEFINE Missing == {k \in 0 .. Len(s) : ~ \E f \in [1 .. k -> Seq(S)] : Flattens(f, s, k)}
<1> SUFFICES Missing = {}
  OBVIOUS
<1> SUFFICES ASSUME Missing # {} PROVE FALSE
  OBVIOUS
<1>1. PICK k \in Missing : \A m \in Missing : k <= m
  <2>1. Missing \subseteq Nat
    OBVIOUS
  <2> HIDE DEF Missing
  <2> QED
    BY <2>1, LeastNumber
<1>2. k \in Nat /\ k \in 0 .. Len(s) /\ Len(s) \in Nat
  OBVIOUS
<1>3. CASE k = 0
  <2>1. <<>> \in [1 .. k -> Seq(S)] /\ Flattens(<<>>, s, k)
    BY <1>3 DEF Flattens
  <2> QED
    BY <2>1
<1>4. CASE k > 0
  <2>1. k - 1 \in 0 .. Len(s) /\ k - 1 \notin Missing
    <3> HIDE DEF Missing
    <3> QED
      BY <1>1, <1>2, <1>4
  <2>2. PICK f \in [1 .. k - 1 -> Seq(S)] : Flattens(f, s, k - 1)
    BY <2>1
  <2> DEFINE last == IF k = 1 THEN s[k] ELSE f[k - 1] \o s[k]
             g == [i \in 1 .. k |-> IF i = k THEN last ELSE f[i]]
  <2>3. s[k] \in Seq(S)
    BY <1>2, <1>4
  <2>4. last \in Seq(S)
    <3>1. CASE k = 1
      BY <2>3, <3>1
    <3>2. CASE k > 1
      <4>1. f[k - 1] \in Seq(S)
        BY <1>2, <3>2
      <4> QED
        BY <2>3, <3>2, <4>1, ConcatProperties
    <3> QED
      BY <1>2, <1>4, <3>1, <3>2
  <2>5. \A i \in 1 .. k - 1 : f[i] \in Seq(S) /\ f[i] = IF i = 1 THEN s[i] ELSE f[i - 1] \o s[i]
    BY <2>2 DEF Flattens
  <2> HIDE DEF last
  <2>6. g \in [1 .. k -> Seq(S)]
    BY <1>2, <2>4, <2>5
  <2>7. ASSUME NEW i \in 1 .. k PROVE g[i] = IF i = 1 THEN s[i] ELSE g[i - 1] \o s[i]
    <3>1. CASE i = k /\ k = 1
      BY <3>1 DEF last
    <3>2. CASE i = k /\ k # 1
      <4>1. k - 1 \in 1 .. k /\ k - 1 # k /\ i - 1 = k - 1
        BY <1>2, <1>4, <3>2
      <4>2. g[i] = last /\ g[i - 1] = f[k - 1]
        BY <3>2, <4>1
      <4> QED
        BY <3>2, <4>2 DEF last
    <3>3. CASE i # k
      <4>1. i \in 1 .. k - 1 /\ (i # 1 => i - 1 \in 1 .. k /\ i - 1 # k)
        BY <1>2, <3>3
      <4>2. g[i] = f[i] /\ (i # 1 => g[i - 1] = f[i - 1])
        BY <3>3, <4>1
      <4> QED
        BY <2>5, <4>1, <4>2
    <3> QED
      BY <3>1, <3>2, <3>3
  <2> HIDE DEF g
  <2>8. Flattens(g, s, k)
    BY <2>7 DEF Flattens
  <2> QED
    BY <2>6, <2>8
<1> QED
  BY <1>2, <1>3, <1>4

\* Sequences of operations laid end to end are one.
LEMMA FlattenedType ==
  ASSUME NEW S, NEW s \in Seq(Seq(S))
  PROVE  FlattenSeq(s) \in Seq(S)
<1>1. CASE Len(s) = 0
  <2>1. s = <<>>
    BY <1>1
  <2> QED
    BY <1>1, <2>1 DEF FlattenSeq
<1>2. CASE Len(s) # 0
  <2> DEFINE N == Len(s)
             Solves(f) == f = [i \in 1 .. N |-> IF i = 1 THEN s[i] ELSE f[i - 1] \o s[i]]
             flatten == CHOOSE f : Solves(f)
  <2>1. N \in Nat /\ N >= 1 /\ N \in 0 .. N
    BY <1>2
  <2>2. \E f : Solves(f)
    <3>1. PICK f \in [1 .. Len(s) -> Seq(S)] : Flattens(f, s, Len(s))
      BY <2>1, FlatteningExists
    <3>2. f \in [1 .. N -> Seq(S)] /\ \A i \in 1 .. N : f[i] = IF i = 1 THEN s[i] ELSE f[i - 1] \o s[i]
      BY <3>1 DEF Flattens
    <3>3. Solves(f)
      BY <3>2
    <3> QED
      BY <3>3
  <2>3. Solves(flatten)
    BY <2>2
  <2>4. FlattenSeq(s) = flatten[N]
    BY <1>2 DEF FlattenSeq
  <2> HIDE DEF flatten
  <2>5. \A i \in 1 .. N : flatten[i] = IF i = 1 THEN s[i] ELSE flatten[i - 1] \o s[i]
    BY <2>3
  <2> DEFINE Wrong == {i \in 1 .. N : flatten[i] \notin Seq(S)}
  <2>6. Wrong = {}
    <3> SUFFICES ASSUME Wrong # {} PROVE FALSE
      OBVIOUS
    <3>1. PICK k \in Wrong : \A m \in Wrong : k <= m
      <4>1. Wrong \subseteq Nat
        OBVIOUS
      <4> HIDE DEF Wrong
      <4> QED
        BY <4>1, LeastNumber
    <3>2. k \in 1 .. N /\ k \in Nat /\ s[k] \in Seq(S)
      BY <2>1
    <3>3. CASE k = 1
      <4>1. flatten[k] = s[k]
        BY <2>5, <3>2, <3>3
      <4> QED
        BY <3>2, <4>1
    <3>4. CASE k # 1
      <4>1. k - 1 \in 1 .. N /\ k - 1 \notin Wrong
        BY <2>1, <3>1, <3>2, <3>4
      <4>2. flatten[k - 1] \in Seq(S)
        BY <4>1
      <4>3. flatten[k] = flatten[k - 1] \o s[k]
        BY <2>5, <3>2, <3>4
      <4>4. flatten[k] \in Seq(S)
        BY <3>2, <4>2, <4>3, ConcatProperties
      <4> QED
        BY <4>4
    <3> QED
      BY <3>3, <3>4
  <2> QED
    BY <2>1, <2>4, <2>6
<1> QED
  BY <1>1, <1>2

\* The members of a finite set, in some order.
LEMMA ListedMembers ==
  ASSUME NEW S, IsFiniteSet(S)
  PROVE  Cardinality(S) \in Nat /\ SetToSeq(S) \in [1 .. Cardinality(S) -> S] /\ IsInjective(SetToSeq(S))
<1>1. PICK n \in Nat : ExistsBijection(1 .. n, S)
  BY FS_NatBijection
<1>2. Cardinality(S) = n
  BY <1>1, FS_CountingElements
<1>3. PICK f : f \in [1 .. n -> S] /\ IsInjective(f)
  BY <1>1 DEF ExistsBijection, Bijection, Injection
<1> QED
  BY <1>2, <1>3 DEF SetToSeq

\* What a sequence holds is finitely much.
LEMMA FiniteElements ==
  ASSUME NEW S, NEW s \in Seq(S)
  PROVE  IsFiniteSet(ToSet(s))
<1>1. IsFiniteSet(1 .. Len(s))
  BY FS_Interval
<1>2. s \in Surjection(1 .. Len(s), ToSet(s))
  BY DEF Surjection, ToSet
<1> QED
  BY <1>1, <1>2, FS_Surjection

\* Pulses are gates on qubits that the circuit uses.
LEMMA PulsesKeepCircuit ==
  ASSUME NEW qubits, NEW ops \in Seq(OperationsOn(qubits)), NEW name \in DOMAIN DECOUPLING_SEQUENCES
  PROVE  Decoupled(ops, DECOUPLING_SEQUENCES[name]) \in Seq(OperationsOn(qubits))
<1> DEFINE O == OperationsOn(qubits)
           pulses == DECOUPLING_SEQUENCES[name]
           layers == LayersOf(ops)
           Idle(i) == IdleIn(ops, layers[i])
           Pulses(q) == [p \in DOMAIN pulses |-> Gate(pulses[p], <<q>>)]
           Train(i) == [w \in 1 .. Cardinality(Idle(i)) |-> Pulses(SetToSeq(Idle(i))[w])]
           Window(i) == FlattenSeq(Train(i))
           Opens(i) == layers[i] > 0 /\ \A j \in 1 .. i - 1 : layers[j] < layers[i]
           parts == [i \in DOMAIN ops |-> IF Opens(i) THEN Append(Window(i), ops[i]) ELSE <<ops[i]>>]
<1>1. Decoupled(ops, pulses) = FlattenSeq(parts)
  BY DEF Decoupled
<1>2. pulses \in Seq({"x", "y"})
  <2>1. name = "XX" \/ name = "XYXY"
    BY DEF DECOUPLING_SEQUENCES
  <2>2. DECOUPLING_SEQUENCES["XX"] = <<"x", "x">> /\ DECOUPLING_SEQUENCES["XYXY"] = <<"x", "y", "x", "y">>
    BY DEF DECOUPLING_SEQUENCES
  <2>3. <<"x", "x">> \in Seq({"x", "y"}) /\ <<"x", "y", "x", "y">> \in Seq({"x", "y"})
    OBVIOUS
  <2>4. pulses = <<"x", "x">> \/ pulses = <<"x", "y", "x", "y">>
    BY <2>1, <2>2
  <2> HIDE DEF pulses
  <2> QED
    BY <2>3, <2>4
<1>3. ASSUME NEW q \in qubits PROVE Pulses(q) \in Seq(O)
  <2>1. \A p \in DOMAIN pulses : Gate(pulses[p], <<q>>) \in O
    <3> SUFFICES ASSUME NEW p \in DOMAIN pulses PROVE Gate(pulses[p], <<q>>) \in O
      OBVIOUS
    <3>1. pulses[p] \in {"x", "y"}
      BY <1>2
    <3> QED
      BY <3>1 DEF Gate, Operation, OperationsOn, OnTwoQubits, OneQubitGates
  <2>2. DOMAIN pulses = 1 .. Len(pulses) /\ Len(pulses) \in Nat
    BY <1>2
  <2> HIDE DEF O, pulses
  <2> QED
    BY <2>1, <2>2
<1>4. ASSUME NEW i \in DOMAIN ops PROVE Idle(i) \subseteq qubits /\ IsFiniteSet(Idle(i))
  <2> DEFINE used == {TouchedQubits(op) : op \in ToSet(ops)}
  <2>1. Idle(i) \subseteq UNION used
    BY DEF IdleIn
  <2>2. IsFiniteSet(ToSet(ops)) /\ ToSet(ops) \subseteq O
    BY FiniteElements DEF ToSet
  <2>3. IsFiniteSet(used)
    <3> DEFINE touched == [op \in ToSet(ops) |-> TouchedQubits(op)]
    <3>1. touched \in Surjection(ToSet(ops), used)
      BY DEF Surjection
    <3> QED
      BY <2>2, <3>1, FS_Surjection
  <2>4. \A T \in used : IsFiniteSet(T) /\ T \subseteq qubits
    <3> SUFFICES ASSUME NEW op \in ToSet(ops)
                 PROVE  IsFiniteSet(TouchedQubits(op)) /\ TouchedQubits(op) \subseteq qubits
      OBVIOUS
    <3>1. op.qubits \in Seq(qubits)
      BY <2>2 DEF OperationsOn
    <3>2. IsFiniteSet(ToQubits(op)) /\ ToQubits(op) \subseteq qubits
      BY <3>1, FiniteElements DEF ToQubits, ToSet
    <3> QED
      BY <3>2, FS_EmptySet DEF TouchedQubits
  <2> HIDE DEF used
  <2>5. IsFiniteSet(UNION used)
    BY <2>3, <2>4, FS_UNION
  <2> QED
    BY <2>1, <2>4, <2>5, FS_Subset
<1>5. ASSUME NEW i \in DOMAIN ops PROVE Window(i) \in Seq(O)
  <2>1. Cardinality(Idle(i)) \in Nat /\ SetToSeq(Idle(i)) \in [1 .. Cardinality(Idle(i)) -> Idle(i)]
    BY <1>4, ListedMembers
  <2>2. \A w \in 1 .. Cardinality(Idle(i)) : Pulses(SetToSeq(Idle(i))[w]) \in Seq(O)
    BY <1>3, <1>4, <2>1
  <2> HIDE DEF O, Pulses, Idle
  <2>3. Train(i) \in Seq(Seq(O))
    BY <2>1, <2>2
  <2> HIDE DEF Train
  <2> QED
    BY <2>3, FlattenedType
<1>6. parts \in Seq(Seq(O))
  <2>1. DOMAIN ops = 1 .. Len(ops) /\ Len(ops) \in Nat /\ \A i \in DOMAIN ops : ops[i] \in O
    OBVIOUS
  <2> HIDE DEF O, Window, Opens
  <2>2. \A i \in DOMAIN ops : Append(Window(i), ops[i]) \in Seq(O) /\ <<ops[i]>> \in Seq(O)
    BY <1>5, <2>1
  <2> QED
    BY <2>1, <2>2
<1> HIDE DEF O, parts, pulses
<1>7. FlattenSeq(parts) \in Seq(O)
  BY <1>6, FlattenedType
<1> QED
  BY <1>1, <1>7 DEF O, pulses

-----------------------------------------------------------------------------
(* What is handed to the router: diagrams.                                  *)

Pairs(ids) == {e \in SUBSET ids : \E a, b \in ids : a # b /\ e = {a, b}}

\* A graph without loops, with the spiders of its boundary in order.
IsDiagram(g) ==
    /\ g = [f \in {"phase", "edges", "inputs", "outputs"} |-> g[f]]
    /\ IsFiniteSet(Spiders(g)) /\ Spiders(g) \subseteq Nat
    /\ g.phase \in [Spiders(g) -> Int]
    /\ g.edges \subseteq Pairs(Spiders(g))
    /\ g.inputs \in Seq(Nat)

\* Other phases and edges between the same spiders.
LEMMA ChangedIsDiagram ==
  ASSUME NEW g, IsDiagram(g), NEW phase \in [Spiders(g) -> Int], NEW edges \in SUBSET Pairs(Spiders(g))
  PROVE  LET h == [g EXCEPT !.phase = phase, !.edges = edges]
         IN  IsDiagram(h) /\ Spiders(h) = Spiders(g)
<1> DEFINE h == [g EXCEPT !.phase = phase, !.edges = edges]
<1>1. DOMAIN g = {"phase", "edges", "inputs", "outputs"}
  BY DEF IsDiagram
<1>2. /\ h.phase = phase /\ h.edges = edges /\ h.inputs = g.inputs
      /\ h = [f \in {"phase", "edges", "inputs", "outputs"} |-> h[f]]
  BY <1>1
<1> HIDE DEF h
<1>3. Spiders(h) = Spiders(g)
  BY <1>2 DEF Spiders
<1>4. IsDiagram(h)
  BY <1>2, <1>3 DEF IsDiagram
<1> QED
  BY <1>3, <1>4 DEF h

\* Fewer spiders, with the edges that none of the others has.
LEMMA WithoutIsDiagram ==
  ASSUME NEW g, IsDiagram(g), NEW ids
  PROVE  IsDiagram(Without(g, ids))
<1> DEFINE h == Without(g, ids)
           rest == Spiders(g) \ ids
<1>1. DOMAIN g = {"phase", "edges", "inputs", "outputs"}
  BY DEF IsDiagram
<1>2. /\ h.phase = [id \in rest |-> g.phase[id]]
      /\ h.edges = {e \in g.edges : e \cap ids = {}}
      /\ h.inputs = g.inputs
      /\ h = [f \in {"phase", "edges", "inputs", "outputs"} |-> h[f]]
  BY <1>1 DEF Without, Spiders
<1> HIDE DEF h
<1>3. Spiders(h) = rest
  BY <1>2 DEF Spiders
<1>4. IsFiniteSet(rest) /\ rest \subseteq Nat
  BY FS_Subset DEF IsDiagram
<1>5. h.phase \in [rest -> Int]
  BY <1>2 DEF IsDiagram
<1>6. h.edges \subseteq Pairs(rest)
  <2> SUFFICES ASSUME NEW e \in g.edges, e \cap ids = {} PROVE e \in Pairs(rest)
    BY <1>2
  <2>1. PICK a, b \in Spiders(g) : a # b /\ e = {a, b}
    BY DEF IsDiagram, Pairs
  <2>2. a \in rest /\ b \in rest
    BY <2>1
  <2> HIDE DEF rest
  <2> QED
    BY <2>1, <2>2 DEF Pairs
<1>7. h.inputs \in Seq(Nat)
  BY <1>2 DEF IsDiagram
<1> HIDE DEF rest
<1>8. IsDiagram(h)
  BY <1>2, <1>3, <1>4, <1>5, <1>6, <1>7 DEF IsDiagram
<1> QED
  BY <1>8 DEF h

\* A phase that is shifted is a phase.
LEMMA ShiftType ==
  ASSUME NEW S, NEW phase \in [S -> Int], NEW ids, NEW amount \in Int
  PROVE  Shift(phase, ids, amount) \in [S -> Int]
<1>1. \A id \in S : (phase[id] + amount) % 8 \in Int
  OBVIOUS
<1> QED
  BY <1>1 DEF Shift

\* Complementing toggles edges between the neighbours.
LEMMA ComplementedIsDiagram ==
  ASSUME NEW g, IsDiagram(g), NEW id
  PROVE  IsDiagram(LocalComplementation(g, id))
<1> DEFINE around == Neighbours(g, id)
           phase == Shift(g.phase, around, IF g.phase[id] = 2 THEN -2 ELSE 2)
           edges == SymDiff(g.edges, AllPairs(around))
<1>1. LocalComplementation(g, id) = Without([g EXCEPT !.phase = phase, !.edges = edges], {id})
  <2>1. DOMAIN g = {"phase", "edges", "inputs", "outputs"}
    BY DEF IsDiagram
  <2> QED
    BY <2>1 DEF LocalComplementation
<1>2. phase \in [Spiders(g) -> Int]
  <2> DEFINE amount == IF g.phase[id] = 2 THEN -2 ELSE 2
  <2>1. amount \in Int /\ g.phase \in [Spiders(g) -> Int]
    BY DEF IsDiagram
  <2> HIDE DEF amount
  <2>2. Shift(g.phase, around, amount) \in [Spiders(g) -> Int]
    BY <2>1, ShiftType
  <2> QED
    BY <2>2 DEF amount
<1>3. edges \in SUBSET Pairs(Spiders(g))
  <2>1. around \subseteq Spiders(g)
    BY DEF Neighbours
  <2> HIDE DEF around
  <2>2. AllPairs(around) \subseteq Pairs(Spiders(g))
    <3> SUFFICES ASSUME NEW e \in AllPairs(around) PROVE e \in Pairs(Spiders(g))
      OBVIOUS
    <3>1. PICK a \in around, b \in around : e = {a, b}
      BY DEF AllPairs
    <3>2. a # b
      BY <3>1 DEF AllPairs
    <3> QED
      BY <2>1, <3>1, <3>2 DEF Pairs
  <2> QED
    BY <2>2 DEF SymDiff, IsDiagram
<1> HIDE DEF phase, edges
<1>4. IsDiagram([g EXCEPT !.phase = phase, !.edges = edges])
  BY <1>2, <1>3, ChangedIsDiagram
<1> QED
  BY <1>1, <1>4, WithoutIsDiagram

\* A pivot toggles edges between different neighbours.
LEMMA PivotedIsDiagram ==
  ASSUME NEW g, IsDiagram(g), NEW u \in Spiders(g), NEW v \in Spiders(g)
  PROVE  IsDiagram(Pivot(g, u, v))
<1> DEFINE shared == Neighbours(g, u) \cap Neighbours(g, v)
           onlyU == Neighbours(g, u) \ (shared \cup {v})
           onlyV == Neighbours(g, v) \ (shared \cup {u})
           toggled == Between(onlyU, onlyV) \cup Between(onlyU, shared) \cup Between(onlyV, shared)
           first == Shift(g.phase, onlyU, g.phase[v])
           second == Shift(first, onlyV, g.phase[u])
           phase == Shift(second, shared, g.phase[u] + g.phase[v] + 4)
           edges == SymDiff(g.edges, toggled)
<1>1. Pivot(g, u, v) = Without([g EXCEPT !.phase = phase, !.edges = edges], {u, v})
  <2>1. DOMAIN g = {"phase", "edges", "inputs", "outputs"}
    BY DEF IsDiagram
  <2> QED
    BY <2>1 DEF Pivot
<1>2. phase \in [Spiders(g) -> Int]
  <2>1. g.phase \in [Spiders(g) -> Int] /\ g.phase[u] \in Int /\ g.phase[v] \in Int
    BY DEF IsDiagram
  <2>2. g.phase[u] + g.phase[v] + 4 \in Int
    BY <2>1
  <2> HIDE DEF shared, onlyU, onlyV
  <2>3. first \in [Spiders(g) -> Int]
    BY <2>1, ShiftType
  <2> HIDE DEF first
  <2>4. second \in [Spiders(g) -> Int]
    BY <2>1, <2>3, ShiftType
  <2> HIDE DEF second
  <2> QED
    BY <2>2, <2>4, ShiftType
<1>3. edges \in SUBSET Pairs(Spiders(g))
  <2>1. /\ shared \subseteq Spiders(g) /\ onlyU \subseteq Spiders(g) /\ onlyV \subseteq Spiders(g)
        /\ \A a \in onlyU, b \in onlyV : a # b
        /\ \A a \in onlyU, b \in shared : a # b
        /\ \A a \in onlyV, b \in shared : a # b
    BY DEF Neighbours
  <2> HIDE DEF shared, onlyU, onlyV
  <2>2. toggled \subseteq Pairs(Spiders(g))
    BY <2>1 DEF Between, Pairs
  <2> HIDE DEF toggled
  <2> QED
    BY <2>2 DEF SymDiff, IsDiagram
<1> HIDE DEF phase, edges
<1>4. IsDiagram([g EXCEPT !.phase = phase, !.edges = edges])
  BY <1>2, <1>3, ChangedIsDiagram
<1> QED
  BY <1>1, <1>4, WithoutIsDiagram

\* The gates of an extracted circuit are on its qubits, one for each spider,
\* and a CZ is on two.
LEMMA ExtractedIsCircuit ==
  ASSUME NEW g, IsDiagram(g), Extractable(g)
  PROVE  IsCircuit(ExtractedGates(g), Len(g.inputs))
<1> DEFINE n == Len(g.inputs)
           O == OperationsOn(0 .. n - 1)
           QubitOf(id) == (CHOOSE j \in DOMAIN g.inputs : g.inputs[j] = id) - 1
           turned == {id \in Spiders(g) : g.phase[id] # 0}
           phases == SetToSeq(turned)
           edges == SetToSeq(g.edges)
           Ends(e) == <<QubitOf(Min(e)), QubitOf(Max(e))>>
           left == [i \in DOMAIN phases |-> Rotation("p", g.phase[phases[i]], QubitOf(phases[i]))]
           right == [i \in DOMAIN edges |-> Gate("cz", Ends(edges[i]))]
<1>1. n \in Nat /\ DOMAIN g.inputs = 1 .. n
  BY DEF IsDiagram
<1>2. ASSUME NEW id \in Spiders(g) PROVE QubitOf(id) \in 0 .. n - 1 /\ g.inputs[QubitOf(id) + 1] = id
  <2>1. \E j \in DOMAIN g.inputs : g.inputs[j] = id
    BY DEF Extractable, ToSet
  <2> DEFINE at == CHOOSE j \in DOMAIN g.inputs : g.inputs[j] = id
  <2>2. at \in DOMAIN g.inputs /\ g.inputs[at] = id
    BY <2>1
  <2>3. QubitOf(id) = at - 1
    OBVIOUS
  <2> HIDE DEF at, QubitOf
  <2>4. QubitOf(id) + 1 = at
    BY <1>1, <2>2, <2>3
  <2> QED
    BY <1>1, <2>2, <2>3, <2>4
<1> HIDE DEF QubitOf
<1>3. left \in Seq(O)
  <2>1. IsFiniteSet(turned)
    BY FS_Subset DEF IsDiagram
  <2>2. Cardinality(turned) \in Nat /\ phases \in [1 .. Cardinality(turned) -> turned]
    BY <2>1, ListedMembers
  <2>3. \A id \in turned : Rotation("p", g.phase[id], QubitOf(id)) \in O
    <3> SUFFICES ASSUME NEW id \in turned PROVE Rotation("p", g.phase[id], QubitOf(id)) \in O
      OBVIOUS
    <3>1. g.phase[id] \in Int /\ QubitOf(id) \in 0 .. n - 1
      BY <1>2 DEF IsDiagram
    <3> QED
      BY <3>1 DEF Rotation, Operation, OperationsOn, OnTwoQubits, OneQubitGates
  <2> HIDE DEF O, turned, phases
  <2> QED
    BY <2>2, <2>3
<1>4. right \in Seq(O)
  <2>1. IsFiniteSet(g.edges)
    <3>1. IsFiniteSet(SUBSET Spiders(g)) /\ g.edges \subseteq SUBSET Spiders(g)
      BY FS_SUBSET DEF IsDiagram, Pairs
    <3> QED
      BY <3>1, FS_Subset
  <2>2. Cardinality(g.edges) \in Nat /\ edges \in [1 .. Cardinality(g.edges) -> g.edges]
    BY <2>1, ListedMembers
  <2>3. \A e \in g.edges : Gate("cz", Ends(e)) \in O
    <3> SUFFICES ASSUME NEW e \in g.edges PROVE Gate("cz", Ends(e)) \in O
      OBVIOUS
    <3>1. PICK a, b \in Spiders(g) : a # b /\ e = {a, b} /\ a \in Nat /\ b \in Nat
      BY DEF IsDiagram, Pairs
    <3>2. Min(e) \in e /\ Max(e) \in e /\ Min(e) # Max(e)
      <4>1. CASE a < b
        <5>1. Min(e) = a /\ Max(e) = b
          BY <3>1, <4>1 DEF Min, Max
        <5> QED
          BY <3>1, <5>1
      <4>2. CASE b < a
        <5>1. Min(e) = b /\ Max(e) = a
          BY <3>1, <4>2 DEF Min, Max
        <5> QED
          BY <3>1, <5>1
      <4> QED
        BY <3>1, <4>1, <4>2
    <3>3. /\ QubitOf(Min(e)) \in 0 .. n - 1 /\ QubitOf(Max(e)) \in 0 .. n - 1
          /\ QubitOf(Min(e)) # QubitOf(Max(e))
      BY <1>2, <3>1, <3>2
    <3> QED
      BY <3>3 DEF Gate, Operation, OperationsOn, OnTwoQubits, BaseGate
  <2> HIDE DEF O, edges, Ends
  <2> QED
    BY <2>2, <2>3
<1>5. ExtractedGates(g) = left \o right
  BY DEF ExtractedGates, QubitOf
<1> HIDE DEF left, right, O
<1>6. left \o right \in Seq(O)
  BY <1>3, <1>4, ConcatProperties
<1> QED
  BY <1>5, <1>6 DEF IsCircuit, O

-----------------------------------------------------------------------------
(* What is handed to the router: the pipeline.                              *)

\* The circuit given, or the diagram it was extracted from, is one.
LegalInput ==
    IF diagram = {} THEN circuit.n \in Nat /\ IsCircuit(circuit.ops, circuit.n)
    ELSE \A d \in diagram : IsDiagram(d.given)

\* Diagrams stay diagrams, circuits circuits; while a circuit is optimized it
\* has lost an operation for each sweep, and nothing was swept before.
PipelineInv ==
    /\ iterations \in Nat
    /\ stage \in {"drawn", "written", "read", "printed"} => iterations = 0
    /\ LegalInput =>
        /\ \A d \in diagram : IsDiagram(d.now)
        /\ stage # "drawn" =>
              circuit.n \in Nat /\ IsCircuit(circuit.ops, circuit.n) /\ IsCircuit(working, circuit.n)
        /\ stage \in {"given", "optimized"} => Len(working) + iterations <= Len(circuit.ops)

\* A step that leaves the input, its circuit and the count of sweeps alone.
LEMMA PipelineKept ==
  ASSUME PipelineInv, UNCHANGED <<diagram, circuit, working, iterations>>,
         stage' = "drawn" => stage = "drawn",
         stage' \in {"written", "read", "printed"} => stage \in {"drawn", "written", "read", "printed"},
         stage' \in {"given", "optimized"} => stage \in {"given", "optimized"},
         stage' # "drawn" => stage # "drawn"
  PROVE  PipelineInv'
BY DEF PipelineInv, LegalInput, IsCircuit, IsDiagram, Spiders

\* A rule of the graph, whatever becomes of the diagram it is applied to.
LEMMA RuleSteps ==
  ASSUME PipelineInv, NEW h, diagram # {}, LegalInput => IsDiagram(h), stage = "drawn",
         diagram' = {[given |-> d.given, now |-> h] : d \in diagram},
         UNCHANGED <<stage, circuit, working, iterations>>
  PROVE  PipelineInv'
<1> DEFINE drawn == {[given |-> d.given, now |-> h] : d \in diagram}
<1>1. diagram' # {} /\ \A d \in diagram' : d.now = h
  <2>1. \A e \in drawn : e.now = h
    OBVIOUS
  <2>2. PICK d \in diagram : TRUE
    OBVIOUS
  <2>3. [given |-> d.given, now |-> h] \in drawn
    OBVIOUS
  <2> QED
    BY <2>1, <2>3
<1>2. \A d \in diagram : \E e \in diagram' : e.given = d.given
  <2> SUFFICES ASSUME NEW d \in diagram PROVE \E e \in drawn : e.given = d.given
    OBVIOUS
  <2>1. [given |-> d.given, now |-> h] \in drawn /\ [given |-> d.given, now |-> h].given = d.given
    OBVIOUS
  <2> QED
    BY <2>1
<1>3. LegalInput' => LegalInput
  BY <1>1, <1>2 DEF LegalInput
<1> QED
  BY <1>1, <1>3 DEF PipelineInv

\* What is extracted from a diagram is a circuit.
LEMMA ExtractSteps == ASSUME PipelineInv, Extract PROVE PipelineInv'
<1>1. PICK d \in diagram :
        /\ Extractable(d.now) /\ working' = circuit'.ops
        /\ circuit' = [n |-> Len(d.now.inputs), ops |-> ExtractedGates(d.now)]
  BY DEF Extract
<1>2. stage = "drawn" /\ stage' = "given" /\ diagram' = diagram /\ iterations' = iterations
  BY DEF Extract
<1>3. iterations' = 0
  BY <1>2 DEF PipelineInv
<1>4. LegalInput' => LegalInput
  BY <1>1, <1>2 DEF LegalInput
<1>5. ASSUME LegalInput
      PROVE  /\ circuit'.n \in Nat /\ IsCircuit(circuit'.ops, circuit'.n)
             /\ Len(working') + iterations' <= Len(circuit'.ops)
  <2>1. IsDiagram(d.now)
    BY <1>5 DEF PipelineInv
  <2>2. IsCircuit(circuit'.ops, circuit'.n)
    BY <1>1, <2>1, ExtractedIsCircuit
  <2> QED
    BY <1>1, <1>3, <2>1, <2>2 DEF IsCircuit, IsDiagram
<1> QED
  BY <1>1, <1>2, <1>3, <1>4, <1>5 DEF PipelineInv, IsCircuit

\* A sweep pays for itself with an operation.
LEMMA SweepSteps == ASSUME PipelineInv, Sweep PROVE PipelineInv'
<1>1. /\ stage = "given" /\ stage' = stage /\ UNCHANGED <<diagram, circuit>>
      /\ working' \in SweepOf(working) /\ iterations' = iterations + 1
  BY DEF Sweep
<1>2. LegalInput' <=> LegalInput
  BY <1>1 DEF LegalInput, IsCircuit
<1>3. ASSUME LegalInput
      PROVE  IsCircuit(working', circuit.n) /\ Len(working') + iterations' <= Len(circuit.ops)
  <2>1. /\ working \in Seq(OperationsOn(0 .. circuit.n - 1)) /\ Len(working) + iterations <= Len(circuit.ops)
        /\ circuit.ops \in Seq(OperationsOn(0 .. circuit.n - 1)) /\ iterations \in Nat
    BY <1>1, <1>3 DEF PipelineInv, IsCircuit
  <2>2. PICK i \in DOMAIN working : working' \in RewritesAt(working, i)
    BY <1>1 DEF SweepOf
  <2>3. working' \in Seq(OperationsOn(0 .. circuit.n - 1)) /\ Len(working') < Len(working)
    BY <2>1, <2>2, RewritesShorten
  <2>4. Len(working) \in Nat /\ Len(working') \in Nat /\ Len(circuit.ops) \in Nat
    BY <2>1, <2>3
  <2> QED
    BY <1>1, <2>1, <2>3, <2>4 DEF IsCircuit
<1> QED
  BY <1>1, <1>2, <1>3 DEF PipelineInv, IsCircuit

\* Pulses lengthen a circuit, and leave it one.
LEMMA DecouplingSteps == ASSUME PipelineInv, ApplyDynamicalDecoupling PROVE PipelineInv'
<1>1. /\ stage = "optimized" /\ stage' = "decoupled" /\ UNCHANGED <<diagram, circuit, iterations>>
      /\ \E name \in DOMAIN DECOUPLING_SEQUENCES : working' = Decoupled(working, DECOUPLING_SEQUENCES[name])
  BY DEF ApplyDynamicalDecoupling
<1>2. LegalInput' <=> LegalInput
  BY <1>1 DEF LegalInput, IsCircuit
<1>3. ASSUME LegalInput PROVE IsCircuit(working', circuit.n)
  <2>1. working \in Seq(OperationsOn(0 .. circuit.n - 1))
    BY <1>1, <1>3 DEF PipelineInv, IsCircuit
  <2> QED
    BY <1>1, <2>1, PulsesKeepCircuit DEF IsCircuit
<1> QED
  BY <1>1, <1>2, <1>3 DEF PipelineInv, IsCircuit

\* Every stage hands the next a circuit, if the first was handed one.
THEOREM PipelineInvariance == Spec => []PipelineInv
<1>1. Init => PipelineInv
  <2> SUFFICES ASSUME Init PROVE PipelineInv
    OBVIOUS
  <2>1. working = circuit.ops /\ iterations = 0
    BY DEF Init
  <2>2. \A d \in diagram : d.now = d.given
    BY DEF Init
  <2>3. stage # "drawn" => diagram = {}
    BY DEF Init
  <2>4. stage # "drawn" /\ LegalInput =>
            circuit.n \in Nat /\ IsCircuit(circuit.ops, circuit.n) /\ Len(working) + iterations <= Len(circuit.ops)
    BY <2>1, <2>3 DEF LegalInput, IsCircuit
  <2>5. LegalInput => \A d \in diagram : IsDiagram(d.now)
    BY <2>2 DEF LegalInput
  <2> QED
    BY <2>1, <2>4, <2>5 DEF PipelineInv
<1>2. PipelineInv /\ [Next]_vars => PipelineInv'
  <2> SUFFICES ASSUME PipelineInv, [Next]_vars PROVE PipelineInv'
    OBVIOUS
  <2>1. CASE Parse \/ Emission
    BY <2>1, PipelineKept DEF Parse, Emission
  <2>2. CASE Complement
    <3>1. PICK d \in diagram : \E id \in Spiders(d.now) :
            Complementable(d.now, id) /\ Rewritten(d.now, LocalComplementation(d.now, id))
      BY <2>2 DEF Complement
    <3>2. PICK id \in Spiders(d.now) : Rewritten(d.now, LocalComplementation(d.now, id))
      BY <3>1
    <3>3. LegalInput => IsDiagram(LocalComplementation(d.now, id))
      BY ComplementedIsDiagram DEF PipelineInv
    <3> QED
      BY <2>2, <3>2, <3>3, RuleSteps DEF Complement, Rewritten
  <2>3. CASE PivotPair
    <3>1. PICK d \in diagram : \E u, v \in Spiders(d.now) :
            Pivotable(d.now, u, v) /\ Rewritten(d.now, Pivot(d.now, u, v))
      BY <2>3 DEF PivotPair
    <3>2. PICK u, v \in Spiders(d.now) : Rewritten(d.now, Pivot(d.now, u, v))
      BY <3>1
    <3>3. LegalInput => IsDiagram(Pivot(d.now, u, v))
      BY PivotedIsDiagram DEF PipelineInv
    <3> QED
      BY <2>3, <3>2, <3>3, RuleSteps DEF PivotPair, Rewritten
  <2>4. CASE Extract
    BY <2>4, ExtractSteps
  <2>5. CASE Sweep
    BY <2>5, SweepSteps
  <2>6. CASE Optimized
    BY <2>6, PipelineKept DEF Optimized
  <2>7. CASE ApplyDynamicalDecoupling
    BY <2>7, DecouplingSteps
  <2>8. CASE Transpile \/ EmitSwap \/ EmitOperation \/ VerifyRouting
    BY <2>8, PipelineKept DEF Transpile, EmitSwap, EmitOperation, VerifyRouting
  <2>9. CASE UNCHANGED vars
    BY <2>9, PipelineKept DEF vars
  <2> QED
    BY <2>1, <2>2, <2>3, <2>4, <2>5, <2>6, <2>7, <2>8, <2>9 DEF Next
<1> QED
  BY <1>1, <1>2, PTL DEF Spec

(***************************************************************************)
(* Optimization only ever shortens a circuit, and every sweep does: a      *)
(* circuit of k operations is at its end after k sweeps at most, whatever  *)
(* maxIterations says; and what is left is a circuit on the same qubits.   *)
(***************************************************************************)
THEOREM SweepsShorten ==
    Spec => [](LegalInput /\ stage \in {"given", "optimized"} =>
                    IsCircuit(working, circuit.n) /\ Len(working) + iterations <= Len(circuit.ops))
<1>1. PipelineInv => (LegalInput /\ stage \in {"given", "optimized"} =>
                    IsCircuit(working, circuit.n) /\ Len(working) + iterations <= Len(circuit.ops))
  BY DEF PipelineInv
<1> QED
  BY <1>1, PipelineInvariance, PTL

-----------------------------------------------------------------------------
(***************************************************************************)
(* Whatever the engine makes of a legal circuit or diagram before it       *)
(* routes it, from a layout that names no qubit twice, on any device: at   *)
(* every point of the routing each qubit of the circuit has a physical     *)
(* qubit of its own, an operational one, and nothing emitted leaves the    *)
(* operational qubits or the couplings.  verifyRouting's own check of the  *)
(* couplings therefore never fails.                                        *)
(***************************************************************************)
THEOREM RoutesStayOnDevice ==
    Spec => [](\A r \in route : LegalInput /\ IsInjective(r.initial) =>
                    /\ IsCircuit(working, circuit.n)
                    /\ r.layout \in [1 .. circuit.n -> r.device.operational]
                    /\ IsInjective(r.layout)
                    /\ RoutedOnDevice(r)
                    /\ OffCoupling(r) = {})
<1>1. OnlyRouting /\ RoutingInv /\ PipelineInv =>
        \A r \in route : LegalInput /\ IsInjective(r.initial) =>
                    /\ IsCircuit(working, circuit.n)
                    /\ r.layout \in [1 .. circuit.n -> r.device.operational]
                    /\ IsInjective(r.layout)
                    /\ RoutedOnDevice(r)
                    /\ OffCoupling(r) = {}
  <2> SUFFICES ASSUME OnlyRouting, RoutingInv, PipelineInv, NEW r \in route, LegalInput, IsInjective(r.initial)
               PROVE  /\ IsCircuit(working, circuit.n)
                      /\ r.layout \in [1 .. circuit.n -> r.device.operational]
                      /\ IsInjective(r.layout)
                      /\ RoutedOnDevice(r)
                      /\ OffCoupling(r) = {}
    OBVIOUS
  <2>1. IsCircuit(working, circuit.n)
    BY DEF OnlyRouting, PipelineInv
  <2> QED
    BY <2>1 DEF RoutingInv, RouteInv, RoutableInput, RoutedOnDevice, OffCoupling, IsGate, OnTwoQubits
<1> QED
  BY <1>1, RoutingInvariance, PipelineInvariance, PTL

-----------------------------------------------------------------------------
(* Layers.                                                                  *)

\* A nonempty set of numbers below a bound has a greatest one.
LEMMA MaxIsGreatest ==
  ASSUME NEW T, T \subseteq Nat, T # {}, NEW bound \in Nat, \A y \in T : y <= bound
  PROVE  Max(T) \in T /\ Max(T) \in Nat /\ \A y \in T : y <= Max(T)
<1> DEFINE U == {b \in Nat : \A y \in T : y <= b}
<1>1. PICK b \in U : \A c \in U : b <= c
  <2>1. U \subseteq Nat /\ bound \in U
    OBVIOUS
  <2> HIDE DEF U
  <2> QED
    BY <2>1, LeastNumber
<1>2. b \in T
  <2>1. b \in Nat /\ \A y \in T : y <= b
    OBVIOUS
  <2>2. CASE b = 0
    <3>1. PICK y \in T : TRUE
      OBVIOUS
    <3>2. y = 0
      BY <2>1, <2>2
    <3> QED
      BY <2>2, <3>2
  <2>3. ASSUME b > 0, b \notin T PROVE FALSE
    <3>1. b - 1 \in Nat /\ \A y \in T : y <= b - 1
      BY <2>1, <2>3
    <3>2. b - 1 \in U
      BY <3>1
    <3> QED
      BY <1>1, <2>1, <3>2
  <2> QED
    BY <2>1, <2>2, <2>3
<1>3. \E x \in T : \A y \in T : x >= y
  BY <1>2
<1>4. Max(T) \in T /\ \A y \in T : Max(T) >= y
  BY <1>3 DEF Max
<1> QED
  BY <1>4

\* The layer of one operation, when those of the earlier ones are f.
LayerIn(ops, f, i) ==
    LET below == {j \in 1 .. i - 1 : LayeredOn(ops[j]) \cap LayeredOn(ops[i]) # {}}
    IN  IF LayeredOn(ops[i]) = {} THEN 0 ELSE Max({f[j] : j \in below} \cup {0}) + 1

\* f layers the first n operations.
Layers(f, ops, n) == f = [i \in 1 .. n |-> LayerIn(ops, f, i)]

\* Two operations on a common qubit.
Meet(ops, j, i) == LayeredOn(ops[j]) \cap LayeredOn(ops[i]) # {}

\* One above the highest of those it meets, and above all of them.
LEMMA LayerIsOneAbove ==
  ASSUME NEW ops, NEW f, NEW i \in Nat, i >= 1, \A j \in 1 .. i - 1 : f[j] \in 0 .. j
  PROVE  /\ LayerIn(ops, f, i) \in 0 .. i
         /\ LayeredOn(ops[i]) = {} => LayerIn(ops, f, i) = 0
         /\ LayeredOn(ops[i]) # {} =>
              /\ LayerIn(ops, f, i) >= 1
              /\ \A j \in 1 .. i - 1 : Meet(ops, j, i) => LayerIn(ops, f, i) >= f[j] + 1
              /\ LayerIn(ops, f, i) = 1 \/ \E j \in 1 .. i - 1 : Meet(ops, j, i) /\ LayerIn(ops, f, i) = f[j] + 1
<1> DEFINE below == {j \in 1 .. i - 1 : LayeredOn(ops[j]) \cap LayeredOn(ops[i]) # {}}
           T == {f[j] : j \in below} \cup {0}
<1>1. T \subseteq Nat /\ 0 \in T /\ \A y \in T : y <= i - 1
  OBVIOUS
<1>2. i - 1 \in Nat
  OBVIOUS
<1>3. Max(T) \in T /\ Max(T) \in Nat /\ \A y \in T : y <= Max(T)
  <2> HIDE DEF T
  <2> QED
    BY <1>1, <1>2, MaxIsGreatest
<1>4. LayerIn(ops, f, i) = IF LayeredOn(ops[i]) = {} THEN 0 ELSE Max(T) + 1
  BY DEF LayerIn
<1>5. Max(T) = 0 \/ \E j \in 1 .. i - 1 : Meet(ops, j, i) /\ Max(T) = f[j]
  <2> DEFINE m == Max(T)
  <2>1. m \in T
    BY <1>3
  <2> HIDE DEF m
  <2>2. m = 0 \/ \E j \in below : m = f[j]
    BY <2>1
  <2> QED
    BY <2>2 DEF m, Meet
<1>6. \A j \in 1 .. i - 1 : Meet(ops, j, i) => f[j] \in T
  BY DEF Meet
<1>7. Max(T) <= i - 1
  BY <1>1, <1>3
<1> HIDE DEF T
<1>8. \A j \in 1 .. i - 1 : Meet(ops, j, i) => Max(T) + 1 >= f[j] + 1
  BY <1>3, <1>6
<1> QED
  BY <1>2, <1>3, <1>4, <1>5, <1>7, <1>8

\* The layer of an operation depends on the earlier layers only.
LEMMA LayerReadsEarlier ==
  ASSUME NEW ops, NEW f, NEW g, NEW i \in Nat, \A j \in 1 .. i - 1 : f[j] = g[j]
  PROVE  LayerIn(ops, f, i) = LayerIn(ops, g, i)
<1> DEFINE below == {j \in 1 .. i - 1 : LayeredOn(ops[j]) \cap LayeredOn(ops[i]) # {}}
<1>1. {f[j] : j \in below} = {g[j] : j \in below}
  OBVIOUS
<1> QED
  BY <1>1 DEF LayerIn

\* There is such a layering,
LEMMA LayersExist ==
  ASSUME NEW ops, NEW n \in Nat
  PROVE  \E f : Layers(f, ops, n)
<1> DEFINE T == {m \in Nat : ~\E f : Layers(f, ops, m)}
<1>1. ASSUME T # {} PROVE FALSE
  <2>1. PICK m \in T : \A k \in T : m <= k
    <3>1. T \subseteq Nat
      OBVIOUS
    <3> HIDE DEF T
    <3> QED
      BY <1>1, <3>1, LeastNumber
  <2>2. m \in Nat /\ ~\E f : Layers(f, ops, m)
    OBVIOUS
  <2>3. m # 0
    <3>1. Layers([i \in 1 .. 0 |-> 0], ops, 0)
      <4>1. 1 .. 0 = {}
        OBVIOUS
      <4> QED
        BY <4>1 DEF Layers
    <3> QED
      BY <2>2, <3>1
  <2>4. m - 1 \in Nat /\ m - 1 \notin T
    BY <2>1, <2>2, <2>3
  <2>5. PICK f : Layers(f, ops, m - 1)
    BY <2>4
  <2> DEFINE g == [i \in 1 .. m |-> IF i = m THEN LayerIn(ops, f, m) ELSE f[i]]
  <2>6. \A i \in 1 .. m - 1 : f[i] = LayerIn(ops, f, i)
    BY <2>5, Zenon DEF Layers
  <2>7. \A i \in 1 .. m : \A j \in 1 .. i - 1 : f[j] = g[j]
    BY <2>2
  <2>8. ASSUME NEW i \in 1 .. m PROVE LayerIn(ops, g, i) = LayerIn(ops, f, i)
    <3> HIDE DEF g
    <3> QED
      BY <2>7, LayerReadsEarlier
  <2>9. ASSUME NEW i \in 1 .. m PROVE g[i] = LayerIn(ops, g, i)
    <3>1. CASE i = m
      BY <2>8, <3>1
    <3>2. CASE i # m
      <4>1. i \in 1 .. m - 1
        BY <2>2, <3>2
      <4>2. g[i] = f[i]
        BY <3>2
      <4> QED
        BY <2>6, <2>8, <4>1, <4>2
    <3> QED
      BY <3>1, <3>2
  <2>10. g = [i \in 1 .. m |-> g[i]]
    OBVIOUS
  <2> HIDE DEF g
  <2>11. Layers(g, ops, m)
    BY <2>9, <2>10 DEF Layers
  <2> QED
    BY <2>2, <2>11
<1> QED
  BY <1>1

\* what is known of the layers of the operations,
Layered(f, ops) ==
    \A i \in 1 .. Len(ops) :
        /\ f[i] \in 0 .. i
        /\ LayeredOn(ops[i]) = {} => f[i] = 0
        /\ LayeredOn(ops[i]) # {} =>
              /\ f[i] >= 1
              /\ \A j \in 1 .. i - 1 : Meet(ops, j, i) => f[i] >= f[j] + 1
              /\ f[i] = 1 \/ \E j \in 1 .. i - 1 : Meet(ops, j, i) /\ f[i] = f[j] + 1

\* which the function computed has,
LEMMA LayersAreLayered ==
  ASSUME NEW ops, Len(ops) \in Nat, DOMAIN ops = 1 .. Len(ops)
  PROVE  Layered(LayerOf(ops), ops) /\ DOMAIN LayerOf(ops) = 1 .. Len(ops)
<1> DEFINE f == LayerOf(ops)
           n == Len(ops)
           F(g) == g = [i \in DOMAIN ops |-> LET below == {j \in 1 .. i - 1 : LayeredOn(ops[j]) \cap LayeredOn(ops[i]) # {}}
                                       IN  IF LayeredOn(ops[i]) = {} THEN 0 ELSE Max({g[j] : j \in below} \cup {0}) + 1]
<1>1. f = CHOOSE g : F(g)
  BY DEF LayerOf
<1>2. \A g : F(g) <=> Layers(g, ops, n)
  BY DEF Layers, LayerIn
<1> HIDE DEF F
<1>3. Layers(f, ops, n)
  BY <1>1, <1>2, LayersExist
<1> HIDE DEF f
<1>4. DOMAIN f = 1 .. n /\ \A i \in 1 .. n : f[i] = LayerIn(ops, f, i)
  BY <1>3, Zenon DEF Layers
<1> DEFINE T == {i \in Nat : i \in 1 .. n /\ f[i] \notin 0 .. i}
<1>5. ASSUME T # {} PROVE FALSE
  <2>1. PICK i \in T : \A k \in T : i <= k
    <3>1. T \subseteq Nat
      OBVIOUS
    <3> HIDE DEF T
    <3> QED
      BY <1>5, <3>1, LeastNumber
  <2>2. i \in Nat /\ i \in 1 .. n /\ f[i] \notin 0 .. i
    OBVIOUS
  <2>3. ASSUME NEW j \in 1 .. i - 1 PROVE f[j] \in 0 .. j
    <3>1. j \in Nat /\ j \in 1 .. n /\ j < i
      BY <2>2
    <3>2. j \notin T
      BY <2>1, <2>2, <3>1
    <3> QED
      BY <3>1, <3>2
  <2>4. LayerIn(ops, f, i) \in 0 .. i
    BY <2>2, <2>3, LayerIsOneAbove
  <2> QED
    BY <1>4, <2>2, <2>4
<1>6. \A i \in 1 .. n : f[i] \in 0 .. i
  BY <1>5
<1>7. ASSUME NEW i \in 1 .. n
      PROVE  /\ f[i] \in 0 .. i
             /\ LayeredOn(ops[i]) = {} => f[i] = 0
             /\ LayeredOn(ops[i]) # {} =>
                  /\ f[i] >= 1
                  /\ \A j \in 1 .. i - 1 : Meet(ops, j, i) => f[i] >= f[j] + 1
                  /\ f[i] = 1 \/ \E j \in 1 .. i - 1 : Meet(ops, j, i) /\ f[i] = f[j] + 1
  <2>1. i \in Nat /\ i >= 1 /\ \A j \in 1 .. i - 1 : f[j] \in 0 .. j
    BY <1>6
  <2>2. f[i] = LayerIn(ops, f, i)
    BY <1>4
  <2>3. /\ LayerIn(ops, f, i) \in 0 .. i
        /\ LayeredOn(ops[i]) = {} => LayerIn(ops, f, i) = 0
        /\ LayeredOn(ops[i]) # {} =>
              /\ LayerIn(ops, f, i) >= 1
              /\ \A j \in 1 .. i - 1 : Meet(ops, j, i) => LayerIn(ops, f, i) >= f[j] + 1
              /\ LayerIn(ops, f, i) = 1 \/ \E j \in 1 .. i - 1 : Meet(ops, j, i) /\ LayerIn(ops, f, i) = f[j] + 1
    BY <2>1, LayerIsOneAbove
  <2> QED
    BY <2>2, <2>3, Zenon
<1> QED
  BY <1>4, <1>7 DEF Layered, f

\* and the depth is the highest of them.
LEMMA DepthIsHighest ==
  ASSUME NEW ops, Len(ops) \in Nat, DOMAIN ops = 1 .. Len(ops)
  PROVE  /\ CircuitDepth(ops) \in Nat
         /\ \A i \in 1 .. Len(ops) : LayerOf(ops)[i] <= CircuitDepth(ops)
         /\ CircuitDepth(ops) = 0 \/ \E i \in 1 .. Len(ops) : LayerOf(ops)[i] = CircuitDepth(ops)
<1> DEFINE f == LayerOf(ops)
           T == Range(f) \cup {0}
<1>1. DOMAIN f = 1 .. Len(ops) /\ \A i \in 1 .. Len(ops) : f[i] \in 0 .. i
  BY LayersAreLayered DEF Layered
<1> HIDE DEF f
<1>2. T = {f[i] : i \in 1 .. Len(ops)} \cup {0}
  BY <1>1 DEF Range
<1>3. T \subseteq Nat /\ T # {} /\ \A y \in T : y <= Len(ops)
  BY <1>1, <1>2
<1>4. \A i \in 1 .. Len(ops) : f[i] \in T
  BY <1>2
<1>5. Max(T) \in T /\ Max(T) \in Nat /\ \A y \in T : y <= Max(T)
  <2> HIDE DEF T
  <2> QED
    BY <1>3, MaxIsGreatest
<1>6. CircuitDepth(ops) = Max(T)
  BY DEF CircuitDepth, f
<1> DEFINE m == Max(T)
<1>7. m = 0 \/ \E i \in 1 .. Len(ops) : f[i] = m
  <2>1. m \in {f[i] : i \in 1 .. Len(ops)} \cup {0}
    BY <1>2, <1>5
  <2> HIDE DEF m
  <2> QED
    BY <2>1
<1> HIDE DEF T
<1> QED
  BY <1>4, <1>5, <1>6, <1>7 DEF f

-----------------------------------------------------------------------------
(* Thinning: what is left of a circuit is in it, in order.                  *)

\* e finds the operations of one list, in order, in another.
Embeds(e, fewer, more) ==
    /\ e \in [1 .. Len(fewer) -> 1 .. Len(more)]
    /\ \A i, j \in 1 .. Len(fewer) : i < j => e[i] < e[j]

\* An operation of a list is no higher than its image in a longer one.
LEMMA EmbeddedLayers ==
  ASSUME NEW fewer, Len(fewer) \in Nat, DOMAIN fewer = 1 .. Len(fewer),
         NEW more, Len(more) \in Nat, DOMAIN more = 1 .. Len(more),
         NEW e, Embeds(e, fewer, more),
         \A i \in 1 .. Len(fewer) : LayeredOn(more[e[i]]) = LayeredOn(fewer[i])
  PROVE  /\ \A i \in 1 .. Len(fewer) : LayerOf(fewer)[i] <= LayerOf(more)[e[i]]
         /\ CircuitDepth(fewer) <= CircuitDepth(more)
<1> DEFINE f == LayerOf(fewer)
           g == LayerOf(more)
           n == Len(fewer)
           T == {i \in Nat : i \in 1 .. n /\ f[i] > g[e[i]]}
<1>1. Layered(f, fewer) /\ Layered(g, more)
  BY LayersAreLayered
<1> HIDE DEF f, g
<1>2. ASSUME T # {} PROVE FALSE
  <2>1. PICK i \in T : \A k \in T : i <= k
    <3>1. T \subseteq Nat
      OBVIOUS
    <3> HIDE DEF T
    <3> QED
      BY <1>2, <3>1, LeastNumber
  <2>2. i \in Nat /\ i \in 1 .. n /\ f[i] > g[e[i]]
    OBVIOUS
  <2>3. e[i] \in 1 .. Len(more) /\ f[i] \in Nat /\ g[e[i]] \in Nat
    BY <1>1, <2>2 DEF Embeds, Layered
  <2>4. LayeredOn(fewer[i]) # {} /\ LayeredOn(more[e[i]]) # {} /\ g[e[i]] >= 1
    BY <1>1, <2>2, <2>3 DEF Layered
  <2>5. PICK j \in 1 .. i - 1 : Meet(fewer, j, i) /\ f[i] = f[j] + 1
    BY <1>1, <2>2, <2>3, <2>4 DEF Layered
  <2>6. j \in Nat /\ j \in 1 .. n /\ j < i
    BY <2>2
  <2>7. j \notin T
    BY <2>1, <2>2, <2>6
  <2>8. e[j] \in 1 .. Len(more) /\ e[j] < e[i]
    BY <2>2, <2>6 DEF Embeds
  <2>9. e[j] \in 1 .. e[i] - 1
    BY <2>3, <2>8
  <2>10. Meet(more, e[j], e[i])
    BY <2>2, <2>5, <2>6 DEF Meet
  <2>11. g[e[i]] >= g[e[j]] + 1
    BY <1>1, <2>3, <2>4, <2>9, <2>10 DEF Layered
  <2>12. f[j] \in Nat /\ g[e[j]] \in Nat
    BY <1>1, <2>6, <2>8 DEF Layered
  <2>13. f[j] <= g[e[j]]
    BY <2>6, <2>7, <2>12
  <2> QED
    BY <2>2, <2>3, <2>5, <2>11, <2>12, <2>13
<1>3. ASSUME NEW i \in 1 .. n PROVE f[i] <= g[e[i]]
  <2>1. i \notin T /\ i \in Nat
    BY <1>2
  <2>2. e[i] \in 1 .. Len(more)
    BY DEF Embeds
  <2>3. f[i] \in Nat /\ g[e[i]] \in Nat
    BY <1>1, <2>1, <2>2 DEF Layered
  <2> QED
    BY <2>1, <2>3
<1>4. CircuitDepth(fewer) <= CircuitDepth(more)
  <2>1. CircuitDepth(fewer) \in Nat /\ CircuitDepth(more) \in Nat
    BY DepthIsHighest
  <2>2. CASE CircuitDepth(fewer) = 0
    BY <2>1, <2>2
  <2>3. ASSUME NEW i \in 1 .. n, f[i] = CircuitDepth(fewer) PROVE CircuitDepth(fewer) <= CircuitDepth(more)
    <3>1. e[i] \in 1 .. Len(more)
      BY DEF Embeds
    <3>2. g[e[i]] <= CircuitDepth(more) /\ g[e[i]] \in Nat
      BY <1>1, <3>1, DepthIsHighest DEF g, Layered
    <3> QED
      BY <1>3, <2>1, <2>3, <3>2
  <2> QED
    BY <2>2, <2>3, DepthIsHighest DEF f
<1> QED
  BY <1>3, <1>4 DEF f, g

\* A rewritten operation is counted as the old one was, or as a Clifford gate.
Alike(new, old) ==
    /\ new.kind = old.kind /\ new.qubits = old.qubits /\ new.cond = old.cond
    /\ new.name \in T_GATES <=> old.name \in T_GATES
    /\ new.name \notin T_GATES \cup CLIFFORD_GATES => old.name \notin T_GATES \cup CLIFFORD_GATES

IsT(op) == op.kind = "gate" /\ op.name \in T_GATES

\* Whatever was removed, it was no T gate.
Thins(e, fewer, more) ==
    /\ Embeds(e, fewer, more)
    /\ \A i \in 1 .. Len(fewer) : Alike(fewer[i], more[e[i]])
    /\ \A k \in 1 .. Len(more) : IsT(more[k]) => \E i \in 1 .. Len(fewer) : e[i] = k

\* A circuit thins itself,
LEMMA ThinsItself ==
  ASSUME NEW ops, Len(ops) \in Nat
  PROVE  \E e : Thins(e, ops, ops)
<1> DEFINE e == [i \in 1 .. Len(ops) |-> i]
<1>1. Embeds(e, ops, ops) /\ \A i \in 1 .. Len(ops) : e[i] = i
  BY DEF Embeds
<1> HIDE DEF e
<1> QED
  BY <1>1 DEF Thins, Alike

\* what thins a thinner one thins it,
LEMMA ThinsThrough ==
  ASSUME NEW a, NEW b, NEW c, Len(a) \in Nat, Len(b) \in Nat, Len(c) \in Nat,
         NEW e, Thins(e, a, b), NEW g, Thins(g, b, c)
  PROVE  \E h : Thins(h, a, c)
<1> DEFINE h == [i \in 1 .. Len(a) |-> g[e[i]]]
<1>1. \A i \in 1 .. Len(a) : e[i] \in 1 .. Len(b) /\ h[i] = g[e[i]] /\ h[i] \in 1 .. Len(c)
  BY DEF Thins, Embeds
<1>2. h \in [1 .. Len(a) -> 1 .. Len(c)]
  BY <1>1
<1> HIDE DEF h
<1>3. Embeds(h, a, c)
  <2> SUFFICES ASSUME NEW i \in 1 .. Len(a), NEW j \in 1 .. Len(a), i < j PROVE h[i] < h[j]
    BY <1>2 DEF Embeds
  <2>1. e[i] < e[j]
    BY DEF Thins, Embeds
  <2>2. g[e[i]] < g[e[j]]
    BY <1>1, <2>1 DEF Thins, Embeds
  <2> QED
    BY <1>1, <2>2
<1>4. \A i \in 1 .. Len(a) : Alike(a[i], c[h[i]])
  <2> SUFFICES ASSUME NEW i \in 1 .. Len(a) PROVE Alike(a[i], c[h[i]])
    OBVIOUS
  <2>1. Alike(a[i], b[e[i]]) /\ Alike(b[e[i]], c[g[e[i]]])
    BY <1>1 DEF Thins
  <2> QED
    BY <1>1, <2>1 DEF Alike
<1>5. ASSUME NEW k \in 1 .. Len(c), IsT(c[k]) PROVE \E i \in 1 .. Len(a) : h[i] = k
  <2>1. PICK j \in 1 .. Len(b) : g[j] = k
    BY <1>5 DEF Thins
  <2>2. IsT(b[j])
    BY <1>5, <2>1 DEF Thins, Alike, IsT
  <2>3. PICK i \in 1 .. Len(a) : e[i] = j
    BY <2>2 DEF Thins
  <2> QED
    BY <1>1, <2>1, <2>3
<1> QED
  BY <1>3, <1>4, <1>5 DEF Thins

\* what another operation takes the place of one thins it, if it is like it,
LEMMA ChangeThins ==
  ASSUME NEW S, NEW ops \in Seq(S), NEW i \in DOMAIN ops, NEW op, Alike(op, ops[i])
  PROVE  \E e : Thins(e, [ops EXCEPT ![i] = op], ops)
<1> DEFINE new == [ops EXCEPT ![i] = op]
           e == [k \in 1 .. Len(ops) |-> k]
<1>1. Len(ops) \in Nat /\ DOMAIN ops = 1 .. Len(ops)
  OBVIOUS
<1>2. Len(new) = Len(ops)
  OBVIOUS
<1>3. \A k \in 1 .. Len(ops) : e[k] = k /\ new[k] = IF k = i THEN op ELSE ops[k]
  BY <1>1
<1>4. e \in [1 .. Len(ops) -> 1 .. Len(ops)]
  OBVIOUS
<1> HIDE DEF e, new
<1>5. Embeds(e, new, ops)
  BY <1>1, <1>2, <1>3, <1>4 DEF Embeds
<1>6. ASSUME NEW k \in 1 .. Len(ops) PROVE Alike(new[k], ops[e[k]])
  BY <1>3 DEF Alike
<1> QED
  BY <1>2, <1>3, <1>5, <1>6 DEF Thins, new

\* What follows the operation removed moves up.
LEMMA ElementsOfRemoval ==
  ASSUME NEW S, NEW ops \in Seq(S), NEW i \in DOMAIN ops
  PROVE  \A k \in 1 .. Len(ops) - 1 : RemoveAt(ops, i)[k] = ops[IF k < i THEN k ELSE k + 1]
<1> DEFINE new == RemoveAt(ops, i)
           n == Len(ops)
<1>0. n \in Nat /\ DOMAIN ops = 1 .. n /\ i \in 1 .. n /\ \A k \in 1 .. n : ops[k] \in S
  OBVIOUS
<1> DEFINE left == SubSeq(ops, 1, i - 1)
           right == SubSeq(ops, i + 1, n)
<1>1. /\ left \in Seq(S) /\ Len(left) = i - 1 /\ \A k \in 1 .. i - 1 : left[k] = ops[k]
  <2>1. 1 \in Int /\ i - 1 \in Int /\ \A k \in 1 .. i - 1 : ops[k] \in S
    BY <1>0
  <2>2. left = [k \in 1 .. i - 1 |-> ops[k]]
    BY <1>0, <2>1, SubSeqProperties
  <2> HIDE DEF left
  <2> QED
    BY <1>0, <2>1, <2>2
<1>2. /\ right \in Seq(S) /\ Len(right) = n - i /\ \A k \in 1 .. n - i : right[k] = ops[k + i]
  <2>1. i + 1 \in Int /\ n \in Int /\ \A k \in i + 1 .. n : ops[k] \in S
    BY <1>0
  <2>2. right \in Seq(S) /\ Len(right) = n - i /\ \A k \in 1 .. n - i : right[k] = ops[(i + 1) + k - 1]
    BY <1>0, <2>1, SubSeqProperties
  <2> HIDE DEF right
  <2>3. \A k \in 1 .. n - i : (i + 1) + k - 1 = k + i
    BY <1>0
  <2> QED
    BY <2>2, <2>3
<1>3. new = left \o right
  BY DEF RemoveAt
<1> HIDE DEF left, right, new
<1>4. \A k \in 1 .. Len(left) + Len(right) : new[k] = IF k <= Len(left) THEN left[k] ELSE right[k - Len(left)]
  BY <1>1, <1>2, <1>3, ConcatProperties
<1>5. ASSUME NEW k \in 1 .. n - 1 PROVE new[k] = ops[IF k < i THEN k ELSE k + 1]
  <2>1. CASE k < i
    BY <1>0, <1>1, <1>2, <1>4, <2>1
  <2>2. CASE k >= i
    <3>1. new[k] = right[k - (i - 1)] /\ k - (i - 1) \in 1 .. n - i
      BY <1>0, <1>1, <1>2, <1>4, <2>2
    <3>2. right[k - (i - 1)] = ops[(k - (i - 1)) + i] /\ (k - (i - 1)) + i = k + 1
      BY <1>0, <1>2, <3>1
    <3> QED
      BY <1>0, <2>2, <3>1, <3>2
  <2> QED
    BY <1>0, <2>1, <2>2
<1> QED
  BY <1>5 DEF new

\* and so does removing one that is no T gate.
LEMMA RemovalThins ==
  ASSUME NEW S, NEW ops \in Seq(S), NEW i \in DOMAIN ops, ~IsT(ops[i])
  PROVE  \E e : Thins(e, RemoveAt(ops, i), ops)
<1> DEFINE new == RemoveAt(ops, i)
           n == Len(ops)
           e == [k \in 1 .. n - 1 |-> IF k < i THEN k ELSE k + 1]
<1>1. n \in Nat /\ DOMAIN ops = 1 .. n /\ i \in 1 .. n /\ \A k \in 1 .. n : ops[k] \in S
  OBVIOUS
<1>2. new \in Seq(S) /\ Len(new) = n - 1
  BY RemovalShortens
<1>3. \A k \in 1 .. n - 1 : new[k] = ops[e[k]] /\ e[k] = IF k < i THEN k ELSE k + 1
  BY ElementsOfRemoval
<1>4. e \in [1 .. n - 1 -> 1 .. n]
  BY <1>1
<1> HIDE DEF e, new
<1>5. Embeds(e, new, ops)
  BY <1>1, <1>2, <1>3, <1>4 DEF Embeds
<1>6. ASSUME NEW k \in 1 .. n, IsT(ops[k]) PROVE \E j \in 1 .. n - 1 : e[j] = k
  <2>1. k # i
    BY <1>6
  <2>2. CASE k < i
    BY <1>1, <1>3, <2>2
  <2>3. CASE k > i
    <3>1. k - 1 \in 1 .. n - 1 /\ e[k - 1] = k
      BY <1>1, <1>3, <2>3
    <3> QED
      BY <3>1
  <2> QED
    BY <1>1, <2>1, <2>2, <2>3
<1>7. \A k \in 1 .. Len(new) : Alike(new[k], ops[e[k]])
  BY <1>2, <1>3 DEF Alike
<1>8. \A k \in 1 .. Len(ops) : IsT(ops[k]) => \E j \in 1 .. Len(new) : e[j] = k
  BY <1>2, <1>6
<1>9. Thins(e, new, ops)
  BY <1>5, <1>7, <1>8 DEF Thins
<1> QED
  BY <1>9 DEF new

-----------------------------------------------------------------------------
(* Sweeps thin.                                                             *)

\* Removing two operations that are no T gates.
LEMMA PairRemovalThins ==
  ASSUME NEW S, NEW ops \in Seq(S), NEW j \in DOMAIN ops, NEW i \in DOMAIN ops, i < j,
         ~IsT(ops[i]), ~IsT(ops[j])
  PROVE  \E e : Thins(e, RemoveAt(RemoveAt(ops, j), i), ops)
<1> DEFINE once == RemoveAt(ops, j)
           twice == RemoveAt(once, i)
<1>1. once \in Seq(S) /\ Len(once) = Len(ops) - 1 /\ Len(ops) \in Nat /\ i \in Nat /\ i >= 1 /\ j <= Len(ops) /\ j \in Nat
  BY RemovalShortens
<1>2. i \in 1 .. Len(ops) - 1
  BY <1>1
<1>3. once[i] = ops[i]
  BY <1>2, ElementsOfRemoval
<1>4. \E e : Thins(e, once, ops)
  BY RemovalThins
<1> HIDE DEF once
<1>5. i \in DOMAIN once
  BY <1>1, <1>2
<1>6. \E e : Thins(e, twice, once)
  BY <1>1, <1>3, <1>5, RemovalThins
<1>7. Len(twice) \in Nat /\ Len(once) \in Nat
  BY <1>1, <1>5, RemovalShortens
<1> HIDE DEF twice
<1>8. \E e : Thins(e, twice, ops)
  BY <1>1, <1>4, <1>6, <1>7, ThinsThrough
<1> QED
  BY <1>8 DEF twice, once

\* Two rotations fused.
LEMMA FusionThins ==
  ASSUME NEW qubits, NEW ops \in Seq(OperationsOn(qubits)), NEW j \in DOMAIN ops, NEW i \in DOMAIN ops, i < j,
         ~IsT(ops[i]), ~IsT(ops[j])
  PROVE  \E e : Thins(e, Fuse(ops, i, j), ops)
<1> DEFINE total == NormalizeAngle(ops[i].angle + ops[j].angle)
           op == [ops[i] EXCEPT !.angle = total]
           turned == [ops EXCEPT ![i].angle = total]
<1>1. turned = [ops EXCEPT ![i] = op]
  OBVIOUS
<1>2. Alike(op, ops[i])
  <2>1. ops[i] \in OperationsOn(qubits)
    OBVIOUS
  <2> QED
    BY <2>1 DEF Alike, OperationsOn
<1>3. \E e : Thins(e, turned, ops)
  <2> HIDE DEF op
  <2> QED
    BY <1>1, <1>2, ChangeThins
<1>4. turned[j] = ops[j] /\ j \in DOMAIN turned
  OBVIOUS
<1>5. turned \in Seq(OperationsOn(qubits)) /\ Len(turned) = Len(ops) /\ Len(ops) \in Nat
  <2>1. total \in Int
    <3>1. ops[i].angle \in Int /\ ops[j].angle \in Int
      BY DEF OperationsOn
    <3> QED
      BY <3>1 DEF NormalizeAngle
  <2> HIDE DEF total
  <2> QED
    BY <2>1, ChangedIsCircuit
<1>6. Fuse(ops, i, j) = IF total = 0 THEN RemoveAt(RemoveAt(ops, j), i) ELSE RemoveAt(turned, j)
  BY DEF Fuse
<1> HIDE DEF total, op, turned
<1>7. \E e : Thins(e, RemoveAt(turned, j), turned)
  BY <1>4, <1>5, RemovalThins
<1>8. Len(RemoveAt(turned, j)) \in Nat
  BY <1>4, <1>5, RemovalShortens
<1>9. \E e : Thins(e, RemoveAt(turned, j), ops)
  BY <1>3, <1>5, <1>7, <1>8, ThinsThrough
<1>10. \E e : Thins(e, RemoveAt(RemoveAt(ops, j), i), ops)
  BY PairRemovalThins
<1> QED
  BY <1>6, <1>9, <1>10

\* What any rewrite makes of a circuit is a thinner one.
LEMMA RewritesThin ==
  ASSUME NEW qubits, NEW ops \in Seq(OperationsOn(qubits)), NEW i \in DOMAIN ops, NEW new \in RewritesAt(ops, i)
  PROVE  \E e : Thins(e, new, ops)
<1>1. Len(ops) \in Nat /\ DOMAIN ops = 1 .. Len(ops) /\ i \in Nat
  OBVIOUS
<1>2. \A name \in {"id", "h"} \cup PHASE_FAMILIES \cup SELF_INVERSE : name \notin T_GATES
  BY DEF PHASE_FAMILIES, SELF_INVERSE, T_GATES
<1>3. CASE ops[i].name = "id" \/ (ops[i].name \in PHASE_FAMILIES /\ NormalizeAngle(ops[i].angle) = 0)
  <2>1. ~IsT(ops[i])
    BY <1>2, <1>3 DEF IsT
  <2>2. new = RemoveAt(ops, i)
    BY <1>3 DEF RewritesAt
  <2> QED
    BY <2>1, <2>2, RemovalThins
<1>4. ASSUME NEW j \in FusionPartner(ops, i), new = Fuse(ops, i, j)
      PROVE  \E e : Thins(e, new, ops)
  <2>1. /\ j \in i + 2 .. Len(ops) /\ RotationAxis(ops[i].name) # "none" /\ ops[j].name = ops[i].name
    BY DEF FusionPartner
  <2>2. j \in DOMAIN ops /\ i < j
    BY <1>1, <2>1
  <2>3. ops[i].name \in PHASE_FAMILIES
    BY <2>1 DEF RotationAxis, PHASE_FAMILIES
  <2>4. ~IsT(ops[i]) /\ ~IsT(ops[j])
    BY <1>2, <2>1, <2>3 DEF IsT
  <2> QED
    BY <1>4, <2>2, <2>4, FusionThins
<1>5. ASSUME NEW j \in NextInteracting(ops, i, ToQubits(ops[i])), new \in PairRewrites(ops, i, j)
      PROVE  \E e : Thins(e, new, ops)
  <2>1. j \in DOMAIN ops /\ i < j
    BY <1>1, InteractingIsLater
  <2>2. CASE ops[i].name = ops[j].name /\ ops[i].name \in SELF_INVERSE /\ new = RemoveAt(RemoveAt(ops, j), i)
    <3>1. ~IsT(ops[i]) /\ ~IsT(ops[j])
      BY <1>2, <2>2 DEF IsT
    <3> QED
      BY <2>1, <2>2, <3>1, PairRemovalThins
  <2>3. CASE ops[i].name = ops[j].name /\ ops[i].name \in PHASE_FAMILIES /\ new = Fuse(ops, i, j)
    <3>1. ~IsT(ops[i]) /\ ~IsT(ops[j])
      BY <1>2, <2>3 DEF IsT
    <3> QED
      BY <2>1, <2>3, <3>1, FusionThins
  <2>4. CASE ops[i].name = "h" /\ ops[j].name \in DOMAIN CONJUGABLE /\ new \in Conjugated(ops, i, j)
    <3> DEFINE op == [ops[j] EXCEPT !.name = CONJUGABLE[ops[j].name]]
               coloured == [ops EXCEPT ![j].name = CONJUGABLE[@]]
    <3>1. PICK k \in NextInteracting(ops, j, ToQubits(ops[j])) :
            ops[k].name = "h" /\ new = RemoveAt(RemoveAt(coloured, k), i)
      BY <2>4 DEF Conjugated
    <3>2. k \in DOMAIN ops /\ i < k /\ j < k
      <4>1. k \in j + 1 .. Len(ops)
        BY <1>1, <2>1, InteractingIsLater
      <4> QED
        BY <1>1, <2>1, <4>1
    <3>3. coloured = [ops EXCEPT ![j] = op]
      BY <2>1
    <3>4. Alike(op, ops[j])
      <4>1. ops[j] \in OperationsOn(qubits)
        BY <2>1
      <4> QED
        BY <2>4, <4>1 DEF Alike, OperationsOn, CONJUGABLE, T_GATES, CLIFFORD_GATES
    <3>5. CONJUGABLE[ops[j].name] \in OneQubitGates
      BY <2>4 DEF CONJUGABLE, OneQubitGates
    <3>6. coloured = [ops EXCEPT ![j].name = CONJUGABLE[ops[j].name]]
      BY <2>1
    <3>7. coloured \in Seq(OperationsOn(qubits)) /\ Len(coloured) = Len(ops) /\ DOMAIN coloured = DOMAIN ops
      BY <2>1, <3>5, <3>6, ChangedIsCircuit
    <3>8. \E e : Thins(e, coloured, ops)
      <4> HIDE DEF op, coloured
      <4> QED
        BY <2>1, <3>3, <3>4, ChangeThins
    <3>9. coloured[i] = ops[i] /\ coloured[k] = ops[k]
      BY <1>1, <2>1, <3>2
    <3>10. ~IsT(coloured[i]) /\ ~IsT(coloured[k])
      BY <1>2, <2>4, <3>1, <3>9 DEF IsT
    <3> HIDE DEF coloured
    <3>11. \E e : Thins(e, new, coloured)
      BY <3>1, <3>2, <3>7, <3>10, PairRemovalThins
    <3>12. Len(new) \in Nat
      <4>1. Len(new) = Len(coloured) - 2 /\ new \in Seq(OperationsOn(qubits))
        BY <3>1, <3>2, <3>7, PairRemovalShortens
      <4> QED
        BY <4>1
    <3> QED
      BY <1>1, <3>7, <3>8, <3>11, <3>12, ThinsThrough
  <2> QED
    BY <1>5, <2>2, <2>3, <2>4 DEF PairRewrites
<1>6. CASE ~(ops[i].name = "id" \/ (ops[i].name \in PHASE_FAMILIES /\ NormalizeAngle(ops[i].angle) = 0))
  <2>1. \/ \E j \in FusionPartner(ops, i) : new = Fuse(ops, i, j)
        \/ \E j \in NextInteracting(ops, i, ToQubits(ops[i])) : new \in PairRewrites(ops, i, j)
    BY <1>6 DEF RewritesAt
  <2> QED
    BY <1>4, <1>5, <2>1
<1> QED
  BY <1>3, <1>6

-----------------------------------------------------------------------------
(* Counting.                                                                *)

\* Some of the operations of a list are so many.
LEMMA SomeAreCounted ==
  ASSUME NEW n \in Nat, NEW A, A \subseteq 1 .. n
  PROVE  IsFiniteSet(A) /\ Cardinality(A) \in Nat
<1>1. IsFiniteSet(1 .. n)
  BY FS_Interval
<1> QED
  BY <1>1, FS_Subset, FS_CardinalityType

\* What is found again is no more than there is, and as many if nothing else is
\* there.
LEMMA EmbeddingCounts ==
  ASSUME NEW fewer, Len(fewer) \in Nat, NEW more, Len(more) \in Nat, NEW e, Embeds(e, fewer, more),
         NEW A, A \subseteq 1 .. Len(fewer), NEW B, B \subseteq 1 .. Len(more), \A i \in A : e[i] \in B
  PROVE  /\ Cardinality(A) \in Nat /\ Cardinality(B) \in Nat /\ Cardinality(A) <= Cardinality(B)
         /\ ((\A k \in B : \E i \in A : e[i] = k) => Cardinality(A) = Cardinality(B))
<1> DEFINE f == [i \in A |-> e[i]]
<1>1. IsFiniteSet(A) /\ IsFiniteSet(B) /\ Cardinality(A) \in Nat /\ Cardinality(B) \in Nat
  BY SomeAreCounted
<1>2. f \in [A -> B]
  OBVIOUS
<1>3. ASSUME NEW i \in A, NEW j \in A, f[i] = f[j] PROVE i = j
  <2>1. i \in Nat /\ j \in Nat /\ e[i] \in Nat /\ e[j] \in Nat /\ e[i] = e[j]
    BY <1>3 DEF Embeds
  <2>2. ~(i < j) /\ ~(j < i)
    BY <2>1 DEF Embeds
  <2> QED
    BY <2>1, <2>2
<1>4. f \in Injection(A, B)
  BY <1>2, <1>3 DEF Injection, IsInjective
<1>5. (\A k \in B : \E i \in A : e[i] = k) => f \in Surjection(A, B)
  BY <1>2 DEF Surjection
<1> HIDE DEF f
<1>6. Cardinality(A) <= Cardinality(B) /\ (Cardinality(A) = Cardinality(B) <=> f \in Surjection(A, B))
  BY <1>1, <1>4, FS_Injection
<1> QED
  BY <1>1, <1>5, <1>6

\* What the optimizer reports, and what the cost is computed from, of a circuit
\* that thins another.
LEMMA ThinnerCounts ==
  ASSUME NEW S, NEW fewer \in Seq(S), NEW more \in Seq(S), NEW e, Thins(e, fewer, more), NEW n
  PROVE  /\ \A count \in DOMAIN CountGates(fewer) : CountGates(fewer)[count] <= CountGates(more)[count]
         /\ CircuitSummary(fewer).features \subseteq CircuitSummary(more).features
         /\ EstimateResources(fewer, n).t = EstimateResources(more, n).t
         /\ EstimateResources(fewer, n).t \in Nat
         /\ EstimateResources(fewer, n).unsupported \in Nat /\ EstimateResources(more, n).unsupported \in Nat
         /\ EstimateResources(fewer, n).unsupported <= EstimateResources(more, n).unsupported
         /\ EstimateResources(fewer, n).depth \in Nat /\ EstimateResources(more, n).depth \in Nat
         /\ EstimateResources(fewer, n).depth <= EstimateResources(more, n).depth
<1>1. /\ Len(fewer) \in Nat /\ DOMAIN fewer = 1 .. Len(fewer) /\ Len(more) \in Nat /\ DOMAIN more = 1 .. Len(more)
      /\ Embeds(e, fewer, more) /\ \A i \in 1 .. Len(fewer) : e[i] \in 1 .. Len(more) /\ Alike(fewer[i], more[e[i]])
  BY DEF Thins, Embeds
<1> DEFINE Gated(ops) == {i \in DOMAIN ops : ops[i].kind = "gate" /\ TRUE}
           Twos(ops) == {i \in DOMAIN ops : ops[i].kind = "gate" /\ Len(ops[i].qubits) = 2}
           Ts(ops) == {i \in DOMAIN ops : ops[i].kind = "gate" /\ ops[i].name \in T_GATES}
           Rest(ops) == {i \in DOMAIN ops : ops[i].kind = "gate" /\ ops[i].name \notin T_GATES \cup CLIFFORD_GATES}
<1>2. /\ Cardinality(Gated(fewer)) <= Cardinality(Gated(more))
      /\ Cardinality(Twos(fewer)) <= Cardinality(Twos(more))
      /\ Cardinality(Rest(fewer)) \in Nat /\ Cardinality(Rest(more)) \in Nat
      /\ Cardinality(Rest(fewer)) <= Cardinality(Rest(more))
  <2>1. /\ Gated(fewer) \subseteq 1 .. Len(fewer) /\ Gated(more) \subseteq 1 .. Len(more)
        /\ Twos(fewer) \subseteq 1 .. Len(fewer) /\ Twos(more) \subseteq 1 .. Len(more)
        /\ Rest(fewer) \subseteq 1 .. Len(fewer) /\ Rest(more) \subseteq 1 .. Len(more)
    BY <1>1
  <2>2. /\ \A i \in Gated(fewer) : e[i] \in Gated(more)
        /\ \A i \in Twos(fewer) : e[i] \in Twos(more)
        /\ \A i \in Rest(fewer) : e[i] \in Rest(more)
    BY <1>1 DEF Alike
  <2> HIDE DEF Gated, Twos, Rest
  <2> QED
    BY <1>1, <2>1, <2>2, EmbeddingCounts
<1>3. Cardinality(Ts(fewer)) = Cardinality(Ts(more)) /\ Cardinality(Ts(fewer)) \in Nat
  <2>1. Ts(fewer) \subseteq 1 .. Len(fewer) /\ Ts(more) \subseteq 1 .. Len(more)
    BY <1>1
  <2>2. \A i \in Ts(fewer) : e[i] \in Ts(more)
    BY <1>1 DEF Alike
  <2>3. ASSUME NEW k \in Ts(more) PROVE \E i \in Ts(fewer) : e[i] = k
    <3>1. k \in 1 .. Len(more) /\ IsT(more[k])
      BY <1>1 DEF IsT
    <3>2. PICK i \in 1 .. Len(fewer) : e[i] = k
      BY <3>1 DEF Thins
    <3>3. i \in Ts(fewer)
      BY <1>1, <3>1, <3>2 DEF Alike, IsT
    <3> QED
      BY <3>2, <3>3
  <2> HIDE DEF Ts
  <2> QED
    BY <1>1, <2>1, <2>2, <2>3, EmbeddingCounts
<1>4. CircuitDepth(fewer) <= CircuitDepth(more) /\ CircuitDepth(fewer) \in Nat /\ CircuitDepth(more) \in Nat
  <2>1. \A i \in 1 .. Len(fewer) : LayeredOn(more[e[i]]) = LayeredOn(fewer[i])
    BY <1>1 DEF Alike, LayeredOn, ToQubits
  <2> QED
    BY <1>1, <2>1, EmbeddedLayers, DepthIsHighest
<1>5. ASSUME NEW ops
      PROVE  /\ CountGates(ops) = [gates |-> Cardinality(Gated(ops)), twoQubit |-> Cardinality(Twos(ops)),
                                   t |-> Cardinality(Ts(ops)), depth |-> CircuitDepth(ops)]
             /\ EstimateResources(ops, n).t = Cardinality(Ts(ops))
             /\ EstimateResources(ops, n).unsupported = Cardinality(Rest(ops))
             /\ EstimateResources(ops, n).depth = CircuitDepth(ops)
  BY DEF CountGates, EstimateResources, Gates, Count
<1> HIDE DEF Gated, Twos, Ts, Rest
<1>6. \A count \in DOMAIN CountGates(fewer) : CountGates(fewer)[count] <= CountGates(more)[count]
  BY <1>2, <1>3, <1>4, <1>5
<1>7. CircuitSummary(fewer).features \subseteq CircuitSummary(more).features
  <2>1. UsesReset(fewer) => UsesReset(more)
    BY <1>1 DEF UsesReset, ToSet, Alike
  <2>2. UsesClassicalControl(fewer) => UsesClassicalControl(more)
    BY <1>1 DEF UsesClassicalControl, ToSet, Alike
  <2>3. UsesMidCircuitMeasurement(fewer) => UsesMidCircuitMeasurement(more)
    <3> SUFFICES ASSUME NEW i \in DOMAIN fewer, NEW j \in DOMAIN fewer, i < j,
                        fewer[i].kind = "measure", fewer[i].cond = {},
                        ~(fewer[j].kind = "measure" /\ fewer[j].cond = {}),
                        ~(fewer[j].kind = "barrier" /\ fewer[j].cond = {})
                 PROVE  UsesMidCircuitMeasurement(more)
      BY DEF UsesMidCircuitMeasurement
    <3>1. e[i] \in DOMAIN more /\ e[j] \in DOMAIN more /\ e[i] < e[j]
      BY <1>1 DEF Embeds
    <3>2. Alike(fewer[i], more[e[i]]) /\ Alike(fewer[j], more[e[j]])
      BY <1>1
    <3> QED
      BY <3>1, <3>2 DEF UsesMidCircuitMeasurement, Alike
  <2> QED
    BY <2>1, <2>2, <2>3 DEF CircuitSummary
<1> QED
  BY <1>2, <1>3, <1>4, <1>5, <1>6, <1>7

-----------------------------------------------------------------------------
(* The estimator: less is not dearer.                                       *)

\* The numbers that a circuit's cost is computed from.
WorkloadNumbers(w) ==
    w.qubits \in Nat /\ w.depth \in Nat /\ w.t \in Nat /\ w.toffoli = 0 /\ w.unsupported \in Nat

\* The one asks for no more than the other, and for as many magic states.
AsksLess(v, w) ==
    /\ WorkloadNumbers(v) /\ WorkloadNumbers(w)
    /\ v.qubits = w.qubits /\ v.t = w.t /\ v.depth <= w.depth /\ v.unsupported <= w.unsupported

ScenarioNumbers(s) ==
    /\ s.rate \in Int /\ s.factoryDistance \in Nat \cup {Null}
    /\ {s.prefactor, s.budget, s.cycle, s.toffoliCost, s.rounds, s.parallel} \subseteq Nat

\* Products of naturals are naturals and grow with both factors.
LEMMA ProductsGrow ==
  ASSUME NEW a \in Nat, NEW b \in Nat, NEW x \in Nat, NEW y \in Nat, a <= b, x <= y
  PROVE  a * x \in Nat /\ b * y \in Nat /\ a * x <= b * y
<1>1. \A m, n, k \in Nat : m <= n => m * k <= n * k /\ k * m <= k * n /\ m * k \in Nat /\ n * k \in Nat
  OBVIOUS
<1>2. a * x <= b * x /\ b * x <= b * y /\ a * x \in Nat /\ b * x \in Nat
  BY <1>1
<1>3. b * y \in Nat
  BY <1>1
<1> QED
  BY <1>2, <1>3

\* The powers of two that a demand is compared with.
LEMMA PowersAreNumbers ==
  ASSUME NEW n \in 0 .. MOST_HALVINGS
  PROVE  2 ^ n \in Nat
<1>0. n \in 0 .. 20
  BY DEF MOST_HALVINGS
<1>1. CASE n = 0 BY <1>1
<1>2. CASE n = 1 BY <1>2
<1>3. CASE n = 2 BY <1>3
<1>4. CASE n = 3 BY <1>4
<1>5. CASE n = 4 BY <1>5
<1>6. CASE n = 5 BY <1>6
<1>7. CASE n = 6 BY <1>7
<1>8. CASE n = 7 BY <1>8
<1>9. CASE n = 8 BY <1>9
<1>10. CASE n = 9 BY <1>10
<1>11. CASE n = 10 BY <1>11
<1>12. CASE n = 11 BY <1>12
<1>13. CASE n = 12 BY <1>13
<1>14. CASE n = 13 BY <1>14
<1>15. CASE n = 14 BY <1>15
<1>16. CASE n = 15 BY <1>16
<1>17. CASE n = 16 BY <1>17
<1>18. CASE n = 17 BY <1>18
<1>19. CASE n = 18 BY <1>19
<1>20. CASE n = 19 BY <1>20
<1>21. CASE n = 20 BY <1>21
<1> QED
  BY <1>0, <1>1, <1>2, <1>3, <1>4, <1>5, <1>6, <1>7, <1>8, <1>9, <1>10, <1>11,
     <1>12, <1>13, <1>14, <1>15, <1>16, <1>17, <1>18, <1>19, <1>20, <1>21

\* A circuit with fewer layers needs no greater distance.
LEMMA DistanceIsNoGreater ==
  ASSUME NEW v, NEW w, AsksLess(v, w), NEW s, ScenarioNumbers(s), Known(RequiredCodeDistance(w, s))
  PROVE  /\ RequiredCodeDistance(w, s) \in Nat /\ RequiredCodeDistance(v, s) \in Nat
         /\ RequiredCodeDistance(v, s) <= RequiredCodeDistance(w, s)
         /\ ~AboveThreshold(s)
<1> DEFINE over(x) == {n \in 0 .. MOST_HALVINGS : s.budget * 2 ^ n < Demand(x, s)}
<1>1. LogicalCycles(v) \in Nat /\ LogicalCycles(w) \in Nat /\ LogicalCycles(v) <= LogicalCycles(w)
  BY DEF AsksLess, WorkloadNumbers, LogicalCycles, Greater
<1>2. Demand(v, s) \in Nat /\ Demand(w, s) \in Nat /\ Demand(v, s) <= Demand(w, s)
  <2>1. 10 * s.prefactor \in Nat
    BY DEF ScenarioNumbers
  <2>2. 10 * s.prefactor * v.qubits \in Nat /\ v.qubits = w.qubits
    BY <2>1, ProductsGrow DEF AsksLess, WorkloadNumbers
  <2>3. 10 * s.prefactor * v.qubits <= 10 * s.prefactor * w.qubits
    BY <2>2
  <2> QED
    BY <1>1, <2>2, <2>3, ProductsGrow DEF Demand
<1>3. Halvings(v, s) \in Nat /\ Halvings(w, s) \in Nat /\ Halvings(v, s) <= Halvings(w, s)
  <2>1. \A n \in 0 .. MOST_HALVINGS : s.budget * 2 ^ n \in Nat
    BY PowersAreNumbers, ProductsGrow DEF ScenarioNumbers
  <2>2. over(v) \subseteq over(w)
    BY <1>2, <2>1
  <2>3. IsFiniteSet(0 .. MOST_HALVINGS)
    <3>1. \A m \in Nat : IsFiniteSet(0 .. m)
      BY FS_Interval
    <3> QED
      BY <3>1 DEF MOST_HALVINGS
  <2>4. over(w) \subseteq 0 .. MOST_HALVINGS
    OBVIOUS
  <2>5. Halvings(v, s) = Cardinality(over(v)) /\ Halvings(w, s) = Cardinality(over(w))
    BY DEF Halvings
  <2> HIDE DEF over
  <2>6. IsFiniteSet(over(w)) /\ IsFiniteSet(over(v))
    BY <2>2, <2>3, <2>4, FS_Subset
  <2> QED
    BY <2>2, <2>5, <2>6, FS_Subset, FS_CardinalityType
<1>4. Distances(v, s) \subseteq Nat /\ Distances(w, s) \subseteq Nat
  BY EstimatorAssumption DEF Distances
<1>5. ~AboveThreshold(s) /\ Distances(w, s) # {} /\ RequiredCodeDistance(w, s) = Min(Distances(w, s))
  BY DEF RequiredCodeDistance, Known
<1>6. ASSUME NEW d \in Distances(w, s) PROVE d \in Distances(v, s)
  <2>1. d \in 3 .. MaxDistance /\ d % 2 = 1 /\ s.rate * ((d + 1) \div 2) >= Halvings(w, s)
    BY DEF Distances, MeetsBudget
  <2>2. s.rate * ((d + 1) \div 2) \in Int
    <3>1. (d + 1) \div 2 \in Int /\ s.rate \in Int
      BY <2>1, EstimatorAssumption DEF ScenarioNumbers
    <3> QED
      BY <3>1
  <2>3. s.rate * ((d + 1) \div 2) >= Halvings(v, s)
    BY <1>3, <2>1, <2>2
  <2> QED
    BY <2>1, <2>3 DEF Distances, MeetsBudget
<1>7. ASSUME NEW T, T \subseteq Nat, T # {} PROVE Min(T) \in T /\ \A y \in T : Min(T) <= y
  BY <1>7, LeastNumber DEF Min
<1>8. Min(Distances(w, s)) \in Distances(w, s)
  BY <1>4, <1>5, <1>7
<1>9. /\ Min(Distances(v, s)) \in Distances(v, s)
      /\ Min(Distances(v, s)) <= Min(Distances(w, s))
  BY <1>4, <1>6, <1>7, <1>8
<1>10. RequiredCodeDistance(v, s) = Min(Distances(v, s))
  BY <1>5, <1>9 DEF RequiredCodeDistance
<1> QED
  BY <1>4, <1>5, <1>8, <1>9, <1>10

\* The distillation that an evaluation plans.
PlanOf(w, s) ==
    IF Undetermined(w, s) THEN [levels |-> 0, reached |-> FALSE]
    ELSE IF NeedsFactory(w, s) THEN RequiredLevels(s.raw, s.goal)
    ELSE [levels |-> 0, reached |-> TRUE]

\* The physical qubits of a machine of distance d, with factories of so many levels,
FactoryOf(w, s, d, levels) ==
    levels * STATES_PER_BLOCK * PerPatch(IF Known(s.factoryDistance) THEN s.factoryDistance ELSE d)
    * (IF NeedsFactory(w, s) THEN s.parallel ELSE 0)

TotalOf(w, s, d, levels) ==
    PerPatch(d) * OccupiedLogicalQubits(w.qubits, s.layout) + FactoryOf(w, s, d, levels)

\* and the time it takes.
MakingTime(w, s) == IF NeedsFactory(w, s) THEN FactoryRounds(w, s) * s.cycle ELSE 0

CycleTime(w, s, d) == Shares(s, LogicalCycles(w) * d) * s.cycle

TimeOf(w, s, d) == Greater(CycleTime(w, s, d), MakingTime(w, s))

\* The levels are so many.
LEMMA LevelsAreSoMany ==
  ASSUME NEW w, NEW s
  PROVE  PlanOf(w, s).levels \in Nat
<1> DEFINE enough == {level \in 0 .. MAX_DISTILLATION_LEVELS : Rounds(s.raw)[level] >= s.goal}
<1>1. enough \subseteq Nat
  BY DEF MAX_DISTILLATION_LEVELS
<1>2. enough # {} => Min(enough) \in Nat
  <2> HIDE DEF enough
  <2>1. enough # {} => \E x \in enough : \A y \in enough : x <= y
    BY <1>1, LeastNumber
  <2> QED
    BY <1>1, <2>1 DEF Min
<1>3. Distilled(s.raw, s.goal) = IF enough = {} THEN [levels |-> MAX_DISTILLATION_LEVELS, reached |-> FALSE]
                                 ELSE [levels |-> Min(enough), reached |-> TRUE]
  BY DEF Distilled
<1> HIDE DEF enough
<1>4. Distilled(s.raw, s.goal).levels \in Nat
  BY <1>2, <1>3 DEF MAX_DISTILLATION_LEVELS
<1>5. RequiredLevels(s.raw, s.goal).levels \in Nat
  <2> DEFINE good == s.raw >= s.goal
  <2>1. RequiredLevels(s.raw, s.goal) = IF Improves(s.raw) THEN Distilled(s.raw, s.goal)
                                        ELSE [levels |-> 0, reached |-> good]
    BY Zenon DEF RequiredLevels
  <2> HIDE DEF good
  <2> QED
    BY <1>4, <2>1
<1> QED
  BY <1>5 DEF PlanOf

\* So are the logical qubits of a layout.
LEMMA OccupiedAreSoMany ==
  ASSUME NEW n \in Nat, NEW layout
  PROVE  OccupiedLogicalQubits(n, layout) \in Nat
<1> DEFINE S == {k \in 0 .. 8 * n : k * k < 8 * n}
<1>1. IsFiniteSet(0 .. 8 * n)
  BY FS_Interval
<1>2. S \subseteq 0 .. 8 * n
  OBVIOUS
<1>3. Cardinality(S) \in Nat
  <2> HIDE DEF S
  <2> QED
    BY <1>1, <1>2, FS_Subset, FS_CardinalityType
<1> QED
  BY <1>3 DEF OccupiedLogicalQubits, CeilingOfRoot

\* A lesser distance or fewer layers make neither a larger machine nor a slower one.
LEMMA BillsGrow ==
  ASSUME NEW v, NEW w, AsksLess(v, w), NEW s, ScenarioNumbers(s), NEW d \in Nat, NEW D \in Nat, d <= D,
         NEW levels \in Nat
  PROVE  /\ FactoryOf(v, s, d, levels) \in Nat /\ MakingTime(v, s) \in Nat
         /\ TotalOf(v, s, d, levels) \in Nat /\ TimeOf(v, s, d) \in Nat
         /\ TotalOf(v, s, d, levels) <= TotalOf(w, s, D, levels)
         /\ TimeOf(v, s, d) <= TimeOf(w, s, D)
<1> DEFINE occupied == OccupiedLogicalQubits(w.qubits, s.layout)
           at(x) == IF Known(s.factoryDistance) THEN s.factoryDistance ELSE x
           factories == IF NeedsFactory(w, s) THEN s.parallel ELSE 0
           blocks == levels * STATES_PER_BLOCK
<1>0. /\ s.parallel \in Nat /\ s.cycle \in Nat /\ s.rounds \in Nat /\ s.toffoliCost \in Nat
      /\ s.factoryDistance \in Nat \cup {Null}
  BY DEF ScenarioNumbers
<1>1. MagicStates(v, s) = MagicStates(w, s) /\ MagicStates(w, s) \in Nat
  BY <1>0 DEF AsksLess, WorkloadNumbers, MagicStates
<1>2. NeedsFactory(v, s) = NeedsFactory(w, s)
  BY <1>1 DEF NeedsFactory
<1>3. occupied \in Nat /\ factories \in Nat /\ blocks \in Nat
  BY <1>0, OccupiedAreSoMany DEF AsksLess, WorkloadNumbers, STATES_PER_BLOCK
<1>4. at(d) \in Nat /\ at(D) \in Nat /\ at(d) <= at(D)
  BY <1>0 DEF Known
<1>5. ASSUME NEW x \in Nat, NEW y \in Nat, x <= y
      PROVE  PerPatch(x) \in Nat /\ PerPatch(y) \in Nat /\ PerPatch(x) <= PerPatch(y)
  <2>1. 2 * x \in Nat /\ 2 * y \in Nat /\ 2 * x <= 2 * y
    BY <1>5
  <2>2. 2 * x * x \in Nat /\ 2 * y * y \in Nat /\ 2 * x * x <= 2 * y * y
    BY <1>5, <2>1, ProductsGrow
  <2> QED
    BY <2>2 DEF PerPatch
<1>6. /\ FactoryOf(v, s, d, levels) = blocks * PerPatch(at(d)) * factories
      /\ FactoryOf(w, s, D, levels) = blocks * PerPatch(at(D)) * factories
  BY <1>2 DEF FactoryOf
<1>7. v.qubits = w.qubits
  BY DEF AsksLess
<1> HIDE DEF occupied, at, factories, blocks
<1>8. /\ FactoryOf(v, s, d, levels) \in Nat /\ FactoryOf(w, s, D, levels) \in Nat
      /\ FactoryOf(v, s, d, levels) <= FactoryOf(w, s, D, levels)
  <2>1. PerPatch(at(d)) \in Nat /\ PerPatch(at(D)) \in Nat /\ PerPatch(at(d)) <= PerPatch(at(D))
    BY <1>4, <1>5
  <2>2. /\ blocks * PerPatch(at(d)) \in Nat /\ blocks * PerPatch(at(D)) \in Nat
        /\ blocks * PerPatch(at(d)) <= blocks * PerPatch(at(D))
    BY <1>3, <2>1, ProductsGrow
  <2>3. factories <= factories
    BY <1>3
  <2> QED
    BY <1>3, <1>6, <2>2, <2>3, ProductsGrow
<1>9. /\ PerPatch(d) * occupied \in Nat /\ PerPatch(D) * occupied \in Nat
      /\ PerPatch(d) * occupied <= PerPatch(D) * occupied
  <2>1. occupied <= occupied
    BY <1>3
  <2> QED
    BY <1>3, <1>5, <2>1, ProductsGrow
<1>10. TotalOf(v, s, d, levels) \in Nat /\ TotalOf(v, s, d, levels) <= TotalOf(w, s, D, levels)
  BY <1>7, <1>8, <1>9 DEF TotalOf, occupied
<1>11. /\ CycleTime(v, s, d) \in Nat /\ CycleTime(w, s, D) \in Nat /\ CycleTime(v, s, d) <= CycleTime(w, s, D)
  <2>1. LogicalCycles(v) \in Nat /\ LogicalCycles(w) \in Nat /\ LogicalCycles(v) <= LogicalCycles(w)
    BY DEF AsksLess, WorkloadNumbers, LogicalCycles, Greater
  <2>2. /\ LogicalCycles(v) * d \in Nat /\ LogicalCycles(w) * D \in Nat
        /\ LogicalCycles(v) * d <= LogicalCycles(w) * D
    BY <2>1, ProductsGrow
  <2>3. s.parallel <= s.parallel /\ s.cycle <= s.cycle
    BY <1>0
  <2>4. /\ Shares(s, LogicalCycles(v) * d) \in Nat /\ Shares(s, LogicalCycles(w) * D) \in Nat
        /\ Shares(s, LogicalCycles(v) * d) <= Shares(s, LogicalCycles(w) * D)
    BY <1>0, <2>2, <2>3, ProductsGrow DEF Shares
  <2> QED
    BY <1>0, <2>3, <2>4, ProductsGrow DEF CycleTime
<1>12. MakingTime(v, s) = MakingTime(w, s) /\ MakingTime(w, s) \in Nat
  <2>1. FactoryRounds(w, s) \in Nat
    BY <1>0, <1>1, ProductsGrow DEF FactoryRounds
  <2>2. FactoryRounds(w, s) * s.cycle \in Nat
    BY <1>0, <2>1, ProductsGrow
  <2> QED
    BY <1>1, <1>2, <2>2 DEF MakingTime, FactoryRounds
<1>13. TimeOf(v, s, d) \in Nat /\ TimeOf(v, s, d) <= TimeOf(w, s, D)
  BY <1>11, <1>12 DEF TimeOf, Greater
<1> QED
  BY <1>8, <1>10, <1>12, <1>13

\* They are what a feasible evaluation reports, if the factories are sized.
LEMMA BillIsReported ==
  ASSUME NEW w, NEW s, NEW d, FactoryOf(w, s, d, PlanOf(w, s).levels) \in Nat, MakingTime(w, s) \in Nat
  PROVE  /\ PlanOf(w, s).reached => /\ Feasible(w, s, d).total = TotalOf(w, s, d, PlanOf(w, s).levels)
                                    /\ Feasible(w, s, d).runtime = TimeOf(w, s, d)
         /\ ~PlanOf(w, s).reached => Feasible(w, s, d).total = Null
<1> DEFINE plan == PlanOf(w, s)
           factory == IF ~plan.reached THEN Null
                      ELSE plan.levels * STATES_PER_BLOCK
                           * PerPatch(IF Known(s.factoryDistance) THEN s.factoryDistance ELSE d)
                           * (IF NeedsFactory(w, s) THEN s.parallel ELSE 0)
           making == IF ~plan.reached THEN Null
                     ELSE IF NeedsFactory(w, s) THEN FactoryRounds(w, s) * s.cycle ELSE 0
<1>1. /\ Feasible(w, s, d).total = IF Known(factory)
                                   THEN PerPatch(d) * OccupiedLogicalQubits(w.qubits, s.layout) + factory ELSE Null
      /\ Feasible(w, s, d).runtime = IF Known(making)
                                     THEN Greater(Shares(s, LogicalCycles(w) * d) * s.cycle, making) ELSE Null
  BY Zenon DEF Feasible, PlanOf
<1>2. ASSUME ~plan.reached PROVE Feasible(w, s, d).total = Null
  <2>1. factory = Null
    BY <1>2
  <2> QED
    BY <1>1, <2>1 DEF Known
<1>3. ASSUME plan.reached PROVE /\ Feasible(w, s, d).total = TotalOf(w, s, d, plan.levels)
                                /\ Feasible(w, s, d).runtime = TimeOf(w, s, d)
  <2>1. factory = FactoryOf(w, s, d, plan.levels) /\ making = MakingTime(w, s)
    BY <1>3, Zenon DEF FactoryOf, MakingTime
  <2>2. Known(FactoryOf(w, s, d, plan.levels)) /\ Known(MakingTime(w, s))
    BY EstimatorAssumption DEF Known
  <2> HIDE DEF factory, making, plan
  <2> QED
    BY <1>1, <2>1, <2>2, Zenon DEF TotalOf, TimeOf, CycleTime
<1> QED
  BY <1>2, <1>3

\* What asks for less is costed where the other is, and costs no more.
LEMMA LessIsCheaper ==
  ASSUME NEW v, NEW w, AsksLess(v, w), NEW s, ScenarioNumbers(s), Known(Evaluate(w, s).total)
  PROVE  /\ Known(Evaluate(v, s).total) /\ Evaluate(v, s).total <= Evaluate(w, s).total
         /\ Evaluate(v, s).runtime <= Evaluate(w, s).runtime
<1> DEFINE d == RequiredCodeDistance(v, s)
           D == RequiredCodeDistance(w, s)
<1>1. \A code : Infeasible(w, s, code).total = Null
  BY Zenon DEF Infeasible
<1>2. Known(D) /\ Evaluate(w, s) = Feasible(w, s, D)
  BY <1>1 DEF Evaluate, Known
<1>3. d \in Nat /\ D \in Nat /\ d <= D /\ ~AboveThreshold(s)
  BY <1>2, DistanceIsNoGreater
<1>4. Evaluate(v, s) = Feasible(v, s, d)
  BY <1>3, EstimatorAssumption DEF Evaluate, Known
<1>5. MagicStates(v, s) = MagicStates(w, s) /\ NeedsFactory(v, s) = NeedsFactory(w, s)
  BY DEF AsksLess, WorkloadNumbers, MagicStates, NeedsFactory
<1> DEFINE levels == PlanOf(w, s).levels
<1>6. levels \in Nat /\ PlanOf(v, s).levels \in Nat
  BY LevelsAreSoMany
<1> HIDE DEF d, D
<1>7. /\ FactoryOf(w, s, D, levels) \in Nat /\ MakingTime(w, s) \in Nat
      /\ TotalOf(w, s, D, levels) \in Nat /\ TimeOf(w, s, D) \in Nat
  <2>1. AsksLess(w, w) /\ D <= D
    BY <1>3 DEF AsksLess, WorkloadNumbers
  <2> QED
    BY <1>3, <1>6, <2>1, BillsGrow
<1>8. PlanOf(w, s).reached
  BY <1>2, <1>7, BillIsReported DEF Known
<1>9. ~Undetermined(w, s)
  BY <1>8 DEF PlanOf
<1>10. ~Undetermined(v, s)
  BY <1>5, <1>9 DEF Undetermined, AsksLess, WorkloadNumbers
<1>11. PlanOf(v, s) = PlanOf(w, s)
  BY <1>5, <1>9, <1>10 DEF PlanOf
<1>12. /\ FactoryOf(v, s, d, levels) \in Nat /\ MakingTime(v, s) \in Nat
       /\ TotalOf(v, s, d, levels) \in Nat /\ TimeOf(v, s, d) \in Nat
       /\ TotalOf(v, s, d, levels) <= TotalOf(w, s, D, levels)
       /\ TimeOf(v, s, d) <= TimeOf(w, s, D)
  BY <1>3, <1>6, BillsGrow
<1>13. /\ Evaluate(w, s).total = TotalOf(w, s, D, levels) /\ Evaluate(w, s).runtime = TimeOf(w, s, D)
  BY <1>2, <1>7, <1>8, BillIsReported
<1>14. /\ Evaluate(v, s).total = TotalOf(v, s, d, levels) /\ Evaluate(v, s).runtime = TimeOf(v, s, d)
  BY <1>4, <1>8, <1>11, <1>12, BillIsReported
<1> QED
  BY <1>12, <1>13, <1>14, EstimatorAssumption DEF Known

-----------------------------------------------------------------------------
(* Routing: how high the layers stand.                                      *)

\* One operation more: what is there stays as high or rises, and the new one is
\* above whatever it meets.
LEMMA LayersOfAppend ==
  ASSUME NEW S, NEW s \in Seq(S), NEW x \in S
  PROVE  LET t == Append(s, x)
             last == Len(s) + 1
         IN  /\ \A k \in 1 .. Len(s) :
                  /\ t[k] = s[k] /\ LayerOf(s)[k] \in Nat /\ LayerOf(t)[k] \in Nat /\ LayerOf(s)[k] <= LayerOf(t)[k]
                  /\ LayeredOn(s[k]) \cap LayeredOn(x) # {} => LayerOf(t)[last] >= LayerOf(s)[k] + 1
             /\ LayerOf(t)[last] \in Nat
             /\ LayeredOn(x) # {} => LayerOf(t)[last] >= 1
<1> DEFINE t == Append(s, x)
           last == Len(s) + 1
           e == [k \in 1 .. Len(s) |-> k]
<1>1. /\ t \in Seq(S) /\ Len(t) = last /\ Len(s) \in Nat /\ DOMAIN s = 1 .. Len(s) /\ DOMAIN t = 1 .. last
      /\ \A k \in 1 .. Len(s) : t[k] = s[k]
      /\ t[last] = x
  OBVIOUS
<1>2. Embeds(e, s, t) /\ \A k \in 1 .. Len(s) : e[k] = k
  <2>1. e \in [1 .. Len(s) -> 1 .. last]
    BY <1>1
  <2> QED
    BY <1>1, <2>1 DEF Embeds
<1> HIDE DEF e, t
<1>3. \A k \in 1 .. Len(s) : LayerOf(s)[k] <= LayerOf(t)[k]
  <2>1. \A k \in 1 .. Len(s) : LayeredOn(t[e[k]]) = LayeredOn(s[k])
    BY <1>1, <1>2
  <2>2. \A k \in 1 .. Len(s) : LayerOf(s)[k] <= LayerOf(t)[e[k]]
    <3>1. Len(t) \in Nat /\ DOMAIN t = 1 .. Len(t)
      BY <1>1
    <3> QED
      BY <1>1, <1>2, <2>1, <3>1, EmbeddedLayers
  <2> QED
    BY <1>2, <2>2
<1>4. Layered(LayerOf(s), s) /\ Layered(LayerOf(t), t)
  BY <1>1, LayersAreLayered
<1>5. /\ \A k \in 1 .. Len(s) : LayerOf(s)[k] \in Nat /\ LayerOf(t)[k] \in Nat
      /\ LayerOf(t)[last] \in Nat
      /\ LayeredOn(x) # {} => LayerOf(t)[last] >= 1
  <2>1. last \in 1 .. Len(t) /\ \A k \in 1 .. Len(s) : k \in 1 .. Len(t)
    BY <1>1
  <2> QED
    BY <1>1, <1>4, <2>1 DEF Layered
<1>6. ASSUME NEW k \in 1 .. Len(s), LayeredOn(s[k]) \cap LayeredOn(x) # {}
      PROVE  LayerOf(t)[last] >= LayerOf(s)[k] + 1
  <2>1. last \in 1 .. Len(t) /\ k \in 1 .. last - 1 /\ Meet(t, k, last) /\ LayeredOn(t[last]) # {}
    BY <1>1, <1>6 DEF Meet
  <2>2. LayerOf(t)[last] >= LayerOf(t)[k] + 1
    BY <1>4, <2>1 DEF Layered
  <2> QED
    BY <1>3, <1>5, <2>2
<1> QED
  BY <1>1, <1>3, <1>5, <1>6 DEF t

-----------------------------------------------------------------------------
(* Weaving: what is emitted is what is routed, and SWAPs before it.         *)

\* An operation as it was emitted.
Carries(new, old) ==
    /\ new.kind = old.kind /\ new.name = old.name /\ Len(new.qubits) = Len(old.qubits)
    /\ new.cond = {} <=> old.cond = {}

\* The indices of what was emitted for no operation.
Inserted(p, r) == {k \in 1 .. Len(r.ops) : \A h \in 1 .. r.done : p[h] # k}

\* A SWAP that the operation at i waits for.
SwapFor(op, i) ==
    /\ op.kind = "gate" /\ op.name = "swap" /\ Len(op.qubits) = 2
    /\ OnTwoQubits(working[i]) /\ (op.cond = {} <=> working[i].cond = {})

\* p finds what was routed in what was emitted; the rest is SWAPs, each emitted
\* before what waits for it, and both are counted.
Woven(p, r) ==
    /\ p \in [1 .. r.done -> 1 .. Len(r.ops)]
    /\ \A h, i \in 1 .. r.done : h < i => p[h] < p[i]
    /\ \A i \in 1 .. r.done : Carries(r.ops[p[i]], working[i])
    /\ \A k \in Inserted(p, r) : \E i \in 1 .. Len(working) :
            SwapFor(r.ops[k], i) /\ \A h \in 1 .. r.done : p[h] < k => h < i
    /\ r.swapCount = Cardinality(Inserted(p, r))
    /\ r.twoQubitGateCount = Cardinality({i \in 1 .. r.done : OnTwoQubits(working[i])})

\* Where a qubit now is, something was emitted as high as whatever was routed on it.
AsDeep(r) ==
    \A i \in 1 .. r.done : \A q \in LayeredOn(working[i]) : \E k \in 1 .. Len(r.ops) :
        r.layout[q + 1] \in LayeredOn(r.ops[k]) /\ LayerOf(working)[i] <= LayerOf(r.ops)[k]

TallyInv(r) ==
    /\ circuit.n \in Nat /\ r = [f \in RouteFields |-> r[f]]
    /\ r.done \in Nat /\ r.done <= Len(working)
    /\ r.ops \in Seq(ToSet(r.ops))
    /\ DOMAIN r.layout = 1 .. circuit.n
    /\ r.path # <<>> => OnTwoQubits(working[r.done + 1])
    /\ \E p : Woven(p, r)
    /\ AsDeep(r)

\* A wrapper changes only the condition, and is one only around one.
LEMMA WrappedFields ==
  ASSUME NEW kind, NEW name, NEW angle, NEW qubits, NEW clbit, NEW conditions, NEW cond
  PROVE  LET op == [kind |-> kind, name |-> name, angle |-> angle, qubits |-> qubits, clbit |-> clbit, cond |-> conditions]
         IN  /\ Wrapped(op, cond).kind = kind /\ Wrapped(op, cond).name = name
             /\ Wrapped(op, cond).qubits = qubits
             /\ Wrapped(op, cond).cond = {} <=> cond = {}
<1> DEFINE op == [kind |-> kind, name |-> name, angle |-> angle, qubits |-> qubits, clbit |-> clbit, cond |-> conditions]
           whole == {[bit |-> Whole, equals |-> t.equals] : t \in cond}
<1>1. Wrapped(op, cond) = [op EXCEPT !.cond = whole]
  BY DEF Wrapped
<1>2. whole = {} <=> cond = {}
  OBVIOUS
<1> HIDE DEF whole
<1> QED
  BY <1>1, <1>2

\* An operation is on the qubits of its circuit.
LEMMA QubitsAreNumbered ==
  ASSUME NEW n \in Nat, NEW ops, IsCircuit(ops, n), NEW i \in DOMAIN ops, NEW q \in LayeredOn(ops[i])
  PROVE  q + 1 \in 1 .. n
<1>1. ops[i] \in OperationsOn(0 .. n - 1)
  BY DEF IsCircuit
<1>2. ops[i].qubits \in Seq(0 .. n - 1)
  BY <1>1 DEF OperationsOn
<1>3. \A j \in DOMAIN ops[i].qubits : ops[i].qubits[j] \in 0 .. n - 1
  BY <1>2
<1>4. q \in 0 .. n - 1
  BY <1>3 DEF LayeredOn, ToQubits, ToSet
<1> QED
  BY <1>4

\* A SWAP keeps the tally.
LEMMA SwapIsTallied ==
  ASSUME NEW r, TallyInv(r), IsCircuit(working, circuit.n), r.done < Len(working),
         NEW path \in PathsOf(working[r.done + 1], r), Len(path) > 2
  PROVE  TallyInv(Swapped(r, working[r.done + 1], path))
<1> DEFINE op == working[r.done + 1]
           sw == Wrapped(Gate("swap", <<path[1], path[2]>>), op.cond)
           s == Swapped(r, op, path)
           last == Len(r.ops) + 1
<1>1. OnTwoQubits(op)
  <2>1. CASE r.path # <<>>
    BY <2>1 DEF TallyInv
  <2>2. CASE r.path = <<>>
    <3>1. path \in RoutesOf(op, r)
      BY <2>2 DEF PathsOf
    <3>2. ~OnTwoQubits(op) => path = <<>>
      BY <3>1 DEF RoutesOf
    <3> QED
      BY <3>2
  <2> QED
    BY <2>1, <2>2
<1>2. /\ sw.kind = "gate" /\ sw.name = "swap" /\ sw.qubits = <<path[1], path[2]>> /\ (sw.cond = {} <=> op.cond = {})
  BY WrappedFields DEF Gate, Operation
<1>3. LayeredOn(sw) = {path[1], path[2]} /\ Len(sw.qubits) = 2
  BY <1>2 DEF LayeredOn, ToQubits, ToSet
<1>4. /\ s.ops = Append(r.ops, sw) /\ s.layout = SwapLogical(r.layout, path[1], path[2])
      /\ s.swapCount = r.swapCount + 1 /\ s.twoQubitGateCount = r.twoQubitGateCount /\ s.done = r.done
      /\ s = [f \in RouteFields |-> s[f]]
  BY DEF TallyInv, RouteFields, Swapped
<1> HIDE DEF op, sw, s
<1> DEFINE S == ToSet(r.ops) \cup {sw}
<1>5. r.ops \in Seq(S)
  <2>1. r.ops \in Seq(ToSet(r.ops)) /\ ToSet(r.ops) \subseteq S
    BY DEF TallyInv
  <2> HIDE DEF S
  <2> QED
    BY <2>1
<1>6. /\ s.ops \in Seq(S) /\ ToSet(s.ops) = ToSet(r.ops) \cup {sw}
      /\ Len(s.ops) = last /\ Len(r.ops) \in Nat /\ s.ops[last] = sw
      /\ \A k \in 1 .. Len(r.ops) : s.ops[k] = r.ops[k]
  <2>1. sw \in S
    OBVIOUS
  <2> HIDE DEF S
  <2>2. Append(r.ops, sw) \in Seq(S) /\ ToSet(Append(r.ops, sw)) = ToSet(r.ops) \cup {sw}
    BY <1>5, <2>1, ElementsOfAppend
  <2>3. /\ Len(Append(r.ops, sw)) = last /\ Len(r.ops) \in Nat /\ Append(r.ops, sw)[last] = sw
        /\ \A k \in 1 .. Len(r.ops) : Append(r.ops, sw)[k] = r.ops[k]
    BY <1>5, <2>1
  <2> QED
    BY <1>4, <2>2, <2>3
<1>7. s.ops \in Seq(ToSet(s.ops))
  BY <1>6
<1>8. DOMAIN s.layout = 1 .. circuit.n
  BY <1>4 DEF SwapLogical, TallyInv
<1>9. \E p : Woven(p, s)
  <2>1. PICK p : Woven(p, r)
    BY DEF TallyInv
  <2>2. /\ p \in [1 .. r.done -> 1 .. Len(r.ops)] /\ r.done \in Nat
        /\ Len(working) \in Nat
    <3>1. working \in Seq(OperationsOn(0 .. circuit.n - 1))
      BY DEF IsCircuit
    <3>2. Len(working) \in Nat
      BY <3>1
    <3>3. p \in [1 .. r.done -> 1 .. Len(r.ops)]
      BY <2>1 DEF Woven
    <3>4. r.done \in Nat
      BY DEF TallyInv
    <3> QED
      BY <3>2, <3>3, <3>4
  <2>3. Inserted(p, s) = Inserted(p, r) \cup {last} /\ last \notin Inserted(p, r)
    BY <1>4, <1>6, <2>2 DEF Inserted
  <2>4. s.swapCount = Cardinality(Inserted(p, s))
    <3>1. Inserted(p, r) \subseteq 1 .. Len(r.ops)
      BY DEF Inserted
    <3>2. IsFiniteSet(Inserted(p, r))
      BY <1>6, <3>1, SomeAreCounted
    <3>3. Cardinality(Inserted(p, r) \cup {last}) = Cardinality(Inserted(p, r)) + 1
      BY <2>3, <3>2, FS_AddElement
    <3> QED
      BY <1>4, <2>1, <2>3, <3>3 DEF Woven
  <2>5. p \in [1 .. s.done -> 1 .. Len(s.ops)]
    BY <1>4, <1>6, <2>2
  <2>6. ASSUME NEW i \in 1 .. s.done PROVE Carries(s.ops[p[i]], working[i])
    <3>1. p[i] \in 1 .. Len(r.ops) /\ Carries(r.ops[p[i]], working[i])
      BY <1>4, <2>1, <2>2 DEF Woven
    <3> QED
      BY <1>6, <3>1
  <2>7. ASSUME NEW k \in Inserted(p, s)
        PROVE  \E i \in 1 .. Len(working) : SwapFor(s.ops[k], i) /\ \A h \in 1 .. s.done : p[h] < k => h < i
    <3>1. CASE k = last
      <4>1. SwapFor(s.ops[k], r.done + 1)
        BY <1>1, <1>2, <1>3, <1>6, <3>1 DEF SwapFor, op
      <4>2. r.done + 1 \in 1 .. Len(working) /\ \A h \in 1 .. s.done : h < r.done + 1
        BY <1>4, <2>2
      <4> QED
        BY <4>1, <4>2
    <3>2. CASE k \in Inserted(p, r)
      <4>1. k \in 1 .. Len(r.ops)
        BY <3>2 DEF Inserted
      <4>2. \E i \in 1 .. Len(working) : SwapFor(r.ops[k], i) /\ \A h \in 1 .. r.done : p[h] < k => h < i
        BY <2>1, <3>2 DEF Woven
      <4> QED
        BY <1>4, <1>6, <4>1, <4>2
    <3> QED
      BY <2>3, <3>1, <3>2
  <2>8. Woven(p, s)
    BY <1>4, <2>1, <2>4, <2>5, <2>6, <2>7 DEF Woven
  <2> QED
    BY <2>8
<1>10. AsDeep(s)
  <2> SUFFICES ASSUME NEW i \in 1 .. s.done, NEW q \in LayeredOn(working[i])
               PROVE  \E k \in 1 .. Len(s.ops) :
                        s.layout[q + 1] \in LayeredOn(s.ops[k]) /\ LayerOf(working)[i] <= LayerOf(s.ops)[k]
    BY DEF AsDeep
  <2>1. PICK k \in 1 .. Len(r.ops) :
            r.layout[q + 1] \in LayeredOn(r.ops[k]) /\ LayerOf(working)[i] <= LayerOf(r.ops)[k]
    BY <1>4 DEF TallyInv, AsDeep
  <2>2. LayerOf(working)[i] \in Nat
    <3>1. i \in 1 .. Len(working) /\ Len(working) \in Nat /\ DOMAIN working = 1 .. Len(working)
      BY <1>4 DEF TallyInv, IsCircuit
    <3> QED
      BY <3>1, LayersAreLayered DEF Layered
  <2>3. q + 1 \in 1 .. circuit.n
    <3>1. i \in DOMAIN working
      BY <1>4 DEF TallyInv, IsCircuit
    <3>2. circuit.n \in Nat
      BY DEF TallyInv
    <3> QED
      BY <3>1, <3>2, QubitsAreNumbered
  <2>4. s.layout[q + 1] = IF r.layout[q + 1] = path[1] THEN path[2]
                          ELSE IF r.layout[q + 1] = path[2] THEN path[1] ELSE r.layout[q + 1]
    BY <1>4, <2>3 DEF SwapLogical, TallyInv
  <2>5. /\ s.ops[k] = r.ops[k] /\ LayerOf(r.ops)[k] \in Nat /\ LayerOf(s.ops)[k] \in Nat
        /\ LayerOf(r.ops)[k] <= LayerOf(s.ops)[k] /\ LayerOf(s.ops)[last] \in Nat
        /\ LayeredOn(r.ops[k]) \cap LayeredOn(sw) # {} => LayerOf(s.ops)[last] >= LayerOf(r.ops)[k] + 1
    <3>1. sw \in S
      OBVIOUS
    <3> HIDE DEF S
    <3>2. LET t == Append(r.ops, sw)
          IN  /\ \A j \in 1 .. Len(r.ops) :
                  /\ t[j] = r.ops[j] /\ LayerOf(r.ops)[j] \in Nat /\ LayerOf(t)[j] \in Nat
                  /\ LayerOf(r.ops)[j] <= LayerOf(t)[j]
                  /\ LayeredOn(r.ops[j]) \cap LayeredOn(sw) # {} => LayerOf(t)[last] >= LayerOf(r.ops)[j] + 1
              /\ LayerOf(t)[last] \in Nat
      BY <1>5, <3>1, LayersOfAppend
    <3> QED
      BY <1>4, <3>2
  <2>6. CASE r.layout[q + 1] \in {path[1], path[2]}
    <3>1. s.layout[q + 1] \in LayeredOn(s.ops[last])
      BY <1>3, <1>6, <2>4, <2>6
    <3>2. LayerOf(s.ops)[last] >= LayerOf(r.ops)[k] + 1
      BY <1>3, <2>1, <2>5, <2>6
    <3>3. last \in 1 .. Len(s.ops) /\ LayerOf(working)[i] <= LayerOf(s.ops)[last]
      BY <1>6, <2>1, <2>2, <2>5, <3>2
    <3> QED
      BY <3>1, <3>3
  <2>7. CASE r.layout[q + 1] \notin {path[1], path[2]}
    <3>1. s.layout[q + 1] \in LayeredOn(s.ops[k]) /\ k \in 1 .. Len(s.ops)
      BY <1>6, <2>1, <2>4, <2>5, <2>7
    <3> QED
      BY <2>1, <2>2, <2>5, <3>1
  <2> QED
    BY <2>6, <2>7
<1> QED
  BY <1>1, <1>4, <1>7, <1>8, <1>9, <1>10 DEF TallyInv, s, op

\* What is emitted for an operation: the operation where its qubits are.
LEMMA PlacedFields ==
  ASSUME NEW qubits, NEW op \in OperationsOn(qubits), NEW layout
  PROVE  LET new == Wrapped(Placed(op, layout), op.cond)
         IN  /\ Carries(new, op)
             /\ LayeredOn(new) = {layout[q + 1] : q \in LayeredOn(op)}
<1> DEFINE places == [i \in DOMAIN op.qubits |-> layout[op.qubits[i] + 1]]
           placed == Placed(op, layout)
           new == Wrapped(placed, op.cond)
<1>1. op \in Fields(qubits)
  BY DEF OperationsOn, Fields
<1>2. /\ op = [kind |-> op.kind, name |-> op.name, angle |-> op.angle, qubits |-> op.qubits,
               clbit |-> op.clbit, cond |-> op.cond]
      /\ op.qubits \in Seq(qubits)
  BY <1>1 DEF Fields
<1>3. placed = [kind |-> op.kind, name |-> op.name, angle |-> op.angle, qubits |-> places,
                clbit |-> op.clbit, cond |-> {}]
  <2> DEFINE kind == op.kind
             name == op.name
             angle == op.angle
             on == op.qubits
             clbit == op.clbit
             cond == op.cond
  <2>1. op = [kind |-> kind, name |-> name, angle |-> angle, qubits |-> on, clbit |-> clbit, cond |-> cond]
    BY <1>2
  <2> HIDE DEF kind, name, angle, on, clbit, cond
  <2>2. placed = [op EXCEPT !.cond = {}, !.qubits = places]
    BY DEF Placed, on
  <2> HIDE DEF places, placed
  <2>3. placed = [kind |-> kind, name |-> name, angle |-> angle, qubits |-> places, clbit |-> clbit, cond |-> {}]
    BY <2>1, <2>2
  <2> QED
    BY <2>3 DEF kind, name, angle, on, clbit, cond
<1>4. Len(places) = Len(op.qubits) /\ DOMAIN places = DOMAIN op.qubits /\ DOMAIN op.qubits = 1 .. Len(op.qubits)
  BY <1>2
<1> HIDE DEF placed, places
<1>5. new.kind = op.kind /\ new.name = op.name /\ new.qubits = places /\ (new.cond = {} <=> op.cond = {})
  BY <1>3, WrappedFields
<1> HIDE DEF new
<1>6. LayeredOn(new) = {layout[q + 1] : q \in LayeredOn(op)}
  <2>1. CASE op.kind = "barrier"
    BY <1>5, <2>1 DEF LayeredOn
  <2>2. CASE op.kind # "barrier"
    <3>1. LayeredOn(new) = {places[i] : i \in DOMAIN places} /\ LayeredOn(op) = {op.qubits[i] : i \in DOMAIN op.qubits}
      BY <1>5, <2>2 DEF LayeredOn, ToQubits, ToSet
    <3>2. \A i \in DOMAIN op.qubits : places[i] = layout[op.qubits[i] + 1]
      BY DEF places
    <3> QED
      BY <1>4, <3>1, <3>2
  <2> QED
    BY <2>1, <2>2
<1> QED
  BY <1>4, <1>5, <1>6 DEF Carries, new, placed

\* The operation routed keeps the tally.
LEMMA OperationIsTallied ==
  ASSUME NEW r, TallyInv(r), IsCircuit(working, circuit.n), r.done < Len(working)
  PROVE  TallyInv(Emitted(r, working[r.done + 1]))
<1> DEFINE op == working[r.done + 1]
           new == Wrapped(Placed(op, r.layout), op.cond)
           s == Emitted(r, op)
           last == Len(r.ops) + 1
           next == r.done + 1
           S == ToSet(r.ops) \cup {new}
<1>1. /\ working \in Seq(OperationsOn(0 .. circuit.n - 1)) /\ Len(working) \in Nat /\ DOMAIN working = 1 .. Len(working)
      /\ r.done \in Nat /\ next \in 1 .. Len(working) /\ circuit.n \in Nat
  <2>1. working \in Seq(OperationsOn(0 .. circuit.n - 1))
    BY DEF IsCircuit
  <2>2. r.done \in Nat /\ circuit.n \in Nat
    BY DEF TallyInv
  <2> QED
    BY <2>1, <2>2
<1>2. op \in OperationsOn(0 .. circuit.n - 1)
  BY <1>1
<1>3. Carries(new, op) /\ LayeredOn(new) = {r.layout[q + 1] : q \in LayeredOn(op)}
  BY <1>2, PlacedFields
<1>4. /\ s.ops = Append(r.ops, new) /\ s.layout = r.layout /\ s.path = <<>> /\ s.done = next
      /\ s.swapCount = r.swapCount
      /\ s.twoQubitGateCount = r.twoQubitGateCount + (IF OnTwoQubits(op) THEN 1 ELSE 0)
      /\ s = [f \in RouteFields |-> s[f]]
  BY DEF TallyInv, RouteFields, Emitted
<1> HIDE DEF op, new, s
<1>5. r.ops \in Seq(S)
  <2>1. r.ops \in Seq(ToSet(r.ops)) /\ ToSet(r.ops) \subseteq S
    BY DEF TallyInv
  <2> HIDE DEF S
  <2> QED
    BY <2>1
<1>6. /\ s.ops \in Seq(S) /\ ToSet(s.ops) = S
      /\ Len(s.ops) = last /\ Len(r.ops) \in Nat /\ s.ops[last] = new
      /\ \A k \in 1 .. Len(r.ops) : s.ops[k] = r.ops[k]
  <2>1. new \in S
    OBVIOUS
  <2>2. ToSet(r.ops) \cup {new} = S
    OBVIOUS
  <2> HIDE DEF S
  <2>3. Append(r.ops, new) \in Seq(S) /\ ToSet(Append(r.ops, new)) = S
    <3>1. Append(r.ops, new) \in Seq(S) /\ ToSet(Append(r.ops, new)) = ToSet(r.ops) \cup {new}
      BY <1>5, <2>1, ElementsOfAppend
    <3> QED
      BY <2>2, <3>1
  <2>4. /\ Len(Append(r.ops, new)) = last /\ Len(r.ops) \in Nat /\ Append(r.ops, new)[last] = new
        /\ \A k \in 1 .. Len(r.ops) : Append(r.ops, new)[k] = r.ops[k]
    BY <1>5, <2>1
  <2> QED
    BY <1>4, <2>3, <2>4
<1> HIDE DEF S
<1>7. s.ops \in Seq(ToSet(s.ops))
  BY <1>6
<1>8. DOMAIN s.layout = 1 .. circuit.n
  BY <1>4 DEF TallyInv
<1>9. \E p : Woven(p, s)
  <2>1. PICK p : Woven(p, r)
    BY DEF TallyInv
  <2>2. p \in [1 .. r.done -> 1 .. Len(r.ops)]
    BY <2>1 DEF Woven
  <2> DEFINE g == [i \in 1 .. next |-> IF i = next THEN last ELSE p[i]]
  <2>3. /\ g \in [1 .. next -> 1 .. last] /\ g[next] = last
        /\ \A i \in 1 .. r.done : i \in 1 .. next /\ g[i] = p[i] /\ p[i] \in 1 .. Len(r.ops)
        /\ \A i \in 1 .. next : i = next \/ i \in 1 .. r.done
    <3>1. \A i \in 1 .. r.done : p[i] \in 1 .. Len(r.ops)
      BY <2>2
    <3>2. r.done \in Nat /\ Len(r.ops) \in Nat
      BY <1>1, <1>6
    <3> HIDE DEF S
    <3>3. \A i \in 1 .. next : i = next \/ i \in 1 .. r.done
      BY <3>2
    <3>4. \A i \in 1 .. r.done : i \in 1 .. next /\ i # next
      BY <3>2
    <3>5. next \in 1 .. next /\ last \in 1 .. last /\ 1 .. Len(r.ops) \subseteq 1 .. last
      BY <3>2
    <3> HIDE DEF next, last
    <3>6. \A i \in 1 .. r.done : g[i] = p[i]
      BY <3>4
    <3>7. g[next] = last
      BY <3>5
    <3>8. g \in [1 .. next -> 1 .. last]
      BY <3>1, <3>3, <3>5
    <3> HIDE DEF g
    <3> QED
      BY <3>1, <3>3, <3>4, <3>6, <3>7, <3>8
  <2> HIDE DEF g
  <2>4. \A h, i \in 1 .. next : h < i => g[h] < g[i]
    <3> SUFFICES ASSUME NEW h \in 1 .. next, NEW i \in 1 .. next, h < i PROVE g[h] < g[i]
      OBVIOUS
    <3>1. h \in 1 .. r.done
      BY <1>1
    <3>2. CASE i = next
      BY <1>6, <2>3, <3>1, <3>2
    <3>3. CASE i \in 1 .. r.done
      <4>1. p[h] < p[i]
        BY <2>1, <3>1, <3>3 DEF Woven
      <4> QED
        BY <2>3, <3>1, <3>3, <4>1
    <3> QED
      BY <2>3, <3>2, <3>3
  <2>5. ASSUME NEW i \in 1 .. next PROVE Carries(s.ops[g[i]], working[i])
    <3>1. CASE i = next
      BY <1>3, <1>6, <2>3, <3>1 DEF op
    <3>2. CASE i \in 1 .. r.done
      <4>1. Carries(r.ops[p[i]], working[i])
        BY <2>1, <3>2 DEF Woven
      <4> QED
        BY <1>6, <2>3, <3>2, <4>1
    <3> QED
      BY <2>3, <3>1, <3>2
  <2>6. Inserted(g, s) = Inserted(p, r)
    <3>1. ASSUME NEW k \in Inserted(g, s) PROVE k \in Inserted(p, r)
      <4>1. k \in 1 .. last /\ \A h \in 1 .. next : g[h] # k
        BY <1>4, <1>6 DEF Inserted
      <4>2. next \in 1 .. next
        BY <1>1
      <4>3. k # last
        BY <2>3, <4>1, <4>2
      <4>4. \A h \in 1 .. r.done : p[h] # k
        BY <2>3, <4>1
      <4>5. k \in 1 .. Len(r.ops)
        BY <1>6, <4>1, <4>3
      <4> QED
        BY <4>4, <4>5 DEF Inserted
    <3>2. ASSUME NEW k \in Inserted(p, r) PROVE k \in Inserted(g, s)
      <4>1. k \in 1 .. Len(r.ops) /\ \A h \in 1 .. r.done : p[h] # k
        BY DEF Inserted
      <4>2. k \in 1 .. Len(s.ops) /\ k # last
        BY <1>6, <4>1
      <4>3. \A h \in 1 .. next : g[h] # k
        BY <2>3, <4>1, <4>2
      <4> QED
        BY <1>4, <4>2, <4>3 DEF Inserted
    <3> QED
      BY <3>1, <3>2
  <2>7. s.swapCount = Cardinality(Inserted(g, s))
    BY <1>4, <2>1, <2>6 DEF Woven
  <2>8. ASSUME NEW k \in Inserted(g, s)
        PROVE  \E i \in 1 .. Len(working) : SwapFor(s.ops[k], i) /\ \A h \in 1 .. s.done : g[h] < k => h < i
    <3>1. k \in Inserted(p, r) /\ k \in 1 .. Len(r.ops)
      BY <2>6 DEF Inserted
    <3>2. PICK i \in 1 .. Len(working) : SwapFor(r.ops[k], i) /\ \A h \in 1 .. r.done : p[h] < k => h < i
      BY <2>1, <3>1 DEF Woven
    <3>3. SwapFor(s.ops[k], i)
      BY <1>6, <3>1, <3>2
    <3>4. ASSUME NEW h \in 1 .. s.done, g[h] < k PROVE h < i
      <4>1. h \in 1 .. next /\ h # next
        BY <1>4, <1>6, <2>3, <3>1, <3>4
      <4> QED
        BY <2>3, <3>2, <3>4, <4>1
    <3> QED
      BY <3>3, <3>4
  <2>9. s.twoQubitGateCount = Cardinality({i \in 1 .. s.done : OnTwoQubits(working[i])})
    <3> DEFINE Twos(n) == {i \in 1 .. n : OnTwoQubits(working[i])}
    <3>1. r.twoQubitGateCount = Cardinality(Twos(r.done))
      BY <2>1 DEF Woven
    <3>2. IsFiniteSet(Twos(r.done)) /\ Cardinality(Twos(r.done)) \in Nat
      <4>1. Twos(r.done) \subseteq 1 .. r.done
        OBVIOUS
      <4> QED
        BY <1>1, <4>1, SomeAreCounted
    <3>3. CASE OnTwoQubits(op)
      <4>1. Twos(next) = Twos(r.done) \cup {next} /\ next \notin Twos(r.done)
        BY <1>1, <3>3 DEF op
      <4> HIDE DEF Twos
      <4>2. Cardinality(Twos(r.done) \cup {next}) = Cardinality(Twos(r.done)) + 1
        BY <3>2, <4>1, FS_AddElement
      <4>3. s.twoQubitGateCount = Cardinality(Twos(s.done))
        BY <1>4, <3>1, <3>3, <4>1, <4>2
      <4> QED
        BY <4>3 DEF Twos
    <3>4. CASE ~OnTwoQubits(op)
      <4>1. Twos(next) = Twos(r.done)
        BY <1>1, <3>4 DEF op
      <4> HIDE DEF Twos
      <4>2. s.twoQubitGateCount = Cardinality(Twos(s.done))
        BY <1>4, <3>1, <3>2, <3>4, <4>1
      <4> QED
        BY <4>2 DEF Twos
    <3> QED
      BY <3>3, <3>4
  <2>10. Woven(g, s)
    <3>1. g \in [1 .. s.done -> 1 .. Len(s.ops)]
      BY <1>4, <1>6, <2>3
    <3> QED
      BY <1>4, <2>4, <2>5, <2>7, <2>8, <2>9, <3>1 DEF Woven
  <2> QED
    BY <2>10
<1>10. AsDeep(s)
  <2>1. Layered(LayerOf(s.ops), s.ops) /\ Layered(LayerOf(working), working)
    BY <1>1, <1>6, LayersAreLayered
  <2>2. last \in 1 .. Len(s.ops) /\ LayerOf(s.ops)[last] \in Nat
    BY <1>6, <2>1 DEF Layered
  <2>3. ASSUME NEW k \in 1 .. Len(r.ops)
        PROVE  /\ LayerOf(r.ops)[k] \in Nat /\ LayerOf(s.ops)[k] \in Nat /\ LayerOf(r.ops)[k] <= LayerOf(s.ops)[k]
               /\ LayeredOn(r.ops[k]) \cap LayeredOn(new) # {} => LayerOf(s.ops)[last] >= LayerOf(r.ops)[k] + 1
    <3>1. new \in S
      BY DEF S
    <3>2. LET t == Append(r.ops, new)
          IN  \A j \in 1 .. Len(r.ops) :
                  /\ t[j] = r.ops[j] /\ LayerOf(r.ops)[j] \in Nat /\ LayerOf(t)[j] \in Nat
                  /\ LayerOf(r.ops)[j] <= LayerOf(t)[j]
                  /\ LayeredOn(r.ops[j]) \cap LayeredOn(new) # {} => LayerOf(t)[last] >= LayerOf(r.ops)[j] + 1
      BY <1>5, <3>1, LayersOfAppend
    <3> QED
      BY <1>4, <3>2
  <2>4. ASSUME NEW i \in 1 .. r.done, NEW q \in LayeredOn(working[i])
        PROVE  \E k \in 1 .. Len(r.ops) :
                  r.layout[q + 1] \in LayeredOn(r.ops[k]) /\ LayerOf(working)[i] <= LayerOf(r.ops)[k]
    BY DEF TallyInv, AsDeep
  <2>5. \A i \in 1 .. Len(working) : LayerOf(working)[i] \in Nat
    BY <1>1, <2>1 DEF Layered
  <2>6. ASSUME NEW q \in LayeredOn(op) PROVE LayerOf(working)[next] <= LayerOf(s.ops)[last]
    <3>1. /\ LayeredOn(working[next]) # {} /\ LayerOf(working)[next] \in Nat
          /\ (LayerOf(working)[next] = 1 \/ \E j \in 1 .. next - 1 :
                Meet(working, j, next) /\ LayerOf(working)[next] = LayerOf(working)[j] + 1)
      BY <1>1, <2>1, <2>5 DEF Layered, op
    <3>2. LayeredOn(new) # {}
      BY <1>3
    <3>3. CASE LayerOf(working)[next] = 1
      <4>1. LayerOf(s.ops)[last] >= 1
        BY <1>6, <2>1, <2>2, <3>2 DEF Layered
      <4> QED
        BY <2>2, <3>3, <4>1
    <3>4. ASSUME NEW j \in 1 .. next - 1, Meet(working, j, next), LayerOf(working)[next] = LayerOf(working)[j] + 1
          PROVE  LayerOf(working)[next] <= LayerOf(s.ops)[last]
      <4>1. j \in 1 .. r.done /\ j \in 1 .. Len(working)
        BY <1>1
      <4>2. PICK x : x \in LayeredOn(working[j]) /\ x \in LayeredOn(op)
        BY <3>4 DEF Meet, op
      <4>3. PICK k \in 1 .. Len(r.ops) :
                r.layout[x + 1] \in LayeredOn(r.ops[k]) /\ LayerOf(working)[j] <= LayerOf(r.ops)[k]
        BY <2>4, <4>1, <4>2
      <4>4. r.layout[x + 1] \in LayeredOn(new)
        BY <1>3, <4>2
      <4>5. LayerOf(s.ops)[last] >= LayerOf(r.ops)[k] + 1 /\ LayerOf(r.ops)[k] \in Nat
        BY <2>3, <4>3, <4>4
      <4>6. LayerOf(working)[j] \in Nat
        BY <2>5, <4>1
      <4> QED
        BY <2>2, <3>4, <4>3, <4>5, <4>6
    <3> QED
      BY <3>1, <3>3, <3>4
  <2> SUFFICES ASSUME NEW i \in 1 .. s.done, NEW q \in LayeredOn(working[i])
               PROVE  \E k \in 1 .. Len(s.ops) :
                        s.layout[q + 1] \in LayeredOn(s.ops[k]) /\ LayerOf(working)[i] <= LayerOf(s.ops)[k]
    BY DEF AsDeep
  <2>7. CASE i = next
    <3>1. q \in LayeredOn(op)
      BY <2>7 DEF op
    <3>2. s.layout[q + 1] \in LayeredOn(s.ops[last])
      BY <1>3, <1>4, <1>6, <3>1
    <3> QED
      BY <2>2, <2>6, <2>7, <3>1, <3>2
  <2>8. CASE i \in 1 .. r.done
    <3>1. PICK k \in 1 .. Len(r.ops) :
              r.layout[q + 1] \in LayeredOn(r.ops[k]) /\ LayerOf(working)[i] <= LayerOf(r.ops)[k]
      BY <2>4, <2>8
    <3>2. k \in 1 .. Len(s.ops) /\ s.layout[q + 1] \in LayeredOn(s.ops[k])
      BY <1>4, <1>6, <3>1
    <3>3. i \in 1 .. Len(working)
      BY <1>1, <2>8
    <3>4. LayerOf(working)[i] <= LayerOf(s.ops)[k]
      BY <2>3, <2>5, <3>1, <3>3
    <3> QED
      BY <3>2, <3>4
  <2> QED
    BY <1>1, <1>4, <2>7, <2>8
<1>11. s.done \in Nat /\ s.done <= Len(working)
  BY <1>1, <1>4
<1> QED
  BY <1>1, <1>4, <1>7, <1>8, <1>9, <1>10, <1>11 DEF TallyInv, s, op

-----------------------------------------------------------------------------
(* What was routed, counted.                                                *)

\* An operation is one of A just when it is found again as one of K.
Matched(e, fewer, more, A, K) ==
    /\ A \subseteq 1 .. Len(fewer) /\ K \subseteq 1 .. Len(more)
    /\ \A i \in 1 .. Len(fewer) : i \in A <=> e[i] \in K

\* What is not found again counts or does not.
LEMMA WovenCounts ==
  ASSUME NEW fewer, Len(fewer) \in Nat, NEW more, Len(more) \in Nat, NEW e, Embeds(e, fewer, more),
         NEW rest, rest = {k \in 1 .. Len(more) : \A h \in 1 .. Len(fewer) : e[h] # k},
         NEW A, NEW K, Matched(e, fewer, more, A, K)
  PROVE  /\ rest \subseteq K => Cardinality(K) = Cardinality(A) + Cardinality(rest)
         /\ rest \cap K = {} => Cardinality(K) = Cardinality(A)
<1>1. /\ A \subseteq 1 .. Len(fewer) /\ K \subseteq 1 .. Len(more)
      /\ \A i \in 1 .. Len(fewer) : i \in A <=> e[i] \in K
  BY DEF Matched
<1>2. PICK B : B = K \ rest
  OBVIOUS
<1>3. B \subseteq 1 .. Len(more) /\ rest \subseteq 1 .. Len(more)
  BY <1>1, <1>2
<1>4. \A i \in A : e[i] \in B
  BY <1>1, <1>2
<1>5. \A k \in B : \E i \in A : e[i] = k
  BY <1>1, <1>2
<1>6. /\ IsFiniteSet(K) /\ Cardinality(K) \in Nat
      /\ Cardinality(A) \in Nat /\ Cardinality(rest) \in Nat
  BY <1>1, <1>3, SomeAreCounted
<1>7. Cardinality(B) = Cardinality(K) - Cardinality(K \cap rest)
  BY <1>2, <1>6, FS_Difference
<1>8. Cardinality(A) = Cardinality(B)
  <2> DEFINE f == [i \in A |-> e[i]]
  <2>1. f \in [A -> B]
    BY <1>4
  <2>2. ASSUME NEW i \in A, NEW j \in A, f[i] = f[j] PROVE i = j
    <3>1. i \in Nat /\ j \in Nat /\ e[i] \in Nat /\ e[j] \in Nat /\ e[i] = e[j]
      BY <1>1, <2>2 DEF Embeds
    <3>2. ~(i < j) /\ ~(j < i)
      BY <1>1, <3>1 DEF Embeds
    <3> QED
      BY <3>1, <3>2
  <2>3. f \in Injection(A, B)
    BY <2>1, <2>2 DEF Injection, IsInjective
  <2>4. f \in Surjection(A, B)
    BY <1>5, <2>1 DEF Surjection
  <2> HIDE DEF f
  <2>5. IsFiniteSet(A) /\ IsFiniteSet(B)
    BY <1>1, <1>3, SomeAreCounted
  <2> QED
    BY <2>3, <2>4, <2>5, FS_Injection
<1>9. ASSUME rest \subseteq K PROVE Cardinality(K) = Cardinality(A) + Cardinality(rest)
  <2>1. K \cap rest = rest
    BY <1>9
  <2>2. Cardinality(B) = Cardinality(K) - Cardinality(rest)
    BY <1>7, <2>1
  <2> QED
    BY <1>6, <1>8, <2>2
<1>10. ASSUME rest \cap K = {} PROVE Cardinality(K) = Cardinality(A)
  <2>1. K \cap rest = {}
    BY <1>10
  <2>2. Cardinality(K \cap rest) = 0
    BY <2>1, FS_EmptySet
  <2> QED
    BY <1>6, <1>7, <1>8, <2>2
<1> QED
  BY <1>9, <1>10

\* The counts of what was routed.
LEMMA RoutedCounts ==
  ASSUME NEW r, NEW p, Woven(p, r), Len(r.ops) \in Nat, DOMAIN r.ops = 1 .. Len(r.ops),
         Len(working) \in Nat, DOMAIN working = 1 .. Len(working), r.done = Len(working), NEW m, NEW size
  PROVE  LET given == EstimateResources(working, m)
             routed == EstimateResources(r.ops, size)
         IN  /\ routed.twoQubit = r.twoQubitGateCount + r.swapCount
             /\ \A count \in {"swap", "gates", "twoQubit", "clifford"} :
                    routed[count] = given[count] + r.swapCount
             /\ \A count \in {"oneQubit", "t", "unsupported", "measure", "reset", "barrier"} :
                    routed[count] = given[count]
<1> DEFINE Gated(ops) == {i \in DOMAIN ops : ops[i].kind = "gate" /\ TRUE}
           Ones(ops) == {i \in DOMAIN ops : ops[i].kind = "gate" /\ Len(ops[i].qubits) = 1}
           Twos(ops) == {i \in DOMAIN ops : ops[i].kind = "gate" /\ Len(ops[i].qubits) = 2}
           Swaps(ops) == {i \in DOMAIN ops : ops[i].kind = "gate" /\ ops[i].name = "swap"}
           Measures(ops) == {i \in DOMAIN ops : ops[i].kind = "measure"}
           Resets(ops) == {i \in DOMAIN ops : ops[i].kind = "reset"}
           Barriers(ops) == {i \in DOMAIN ops : ops[i].kind = "barrier"}
           Ts(ops) == {i \in DOMAIN ops : ops[i].kind = "gate" /\ ops[i].name \in T_GATES}
           Cliffords(ops) == {i \in DOMAIN ops : ops[i].kind = "gate" /\ ops[i].name \in CLIFFORD_GATES}
           Rest(ops) == {i \in DOMAIN ops : ops[i].kind = "gate" /\ ops[i].name \notin T_GATES \cup CLIFFORD_GATES}
<1>1. \A i \in 1 .. Len(working) : p[i] \in 1 .. Len(r.ops) /\ Carries(r.ops[p[i]], working[i])
  BY DEF Woven
<1>2. \A k \in Inserted(p, r) :
        k \in 1 .. Len(r.ops) /\ r.ops[k].kind = "gate" /\ r.ops[k].name = "swap" /\ Len(r.ops[k].qubits) = 2
  BY DEF Woven, SwapFor, Inserted
<1>3. DOMAIN working = 1 .. Len(working) /\ DOMAIN r.ops = 1 .. Len(r.ops)
  OBVIOUS
<1>4. /\ Matched(p, working, r.ops, Gated(working), Gated(r.ops))
      /\ Matched(p, working, r.ops, Ones(working), Ones(r.ops))
      /\ Matched(p, working, r.ops, Twos(working), Twos(r.ops))
      /\ Matched(p, working, r.ops, Swaps(working), Swaps(r.ops))
      /\ Matched(p, working, r.ops, Measures(working), Measures(r.ops))
      /\ Matched(p, working, r.ops, Resets(working), Resets(r.ops))
      /\ Matched(p, working, r.ops, Barriers(working), Barriers(r.ops))
      /\ Matched(p, working, r.ops, Ts(working), Ts(r.ops))
      /\ Matched(p, working, r.ops, Cliffords(working), Cliffords(r.ops))
      /\ Matched(p, working, r.ops, Rest(working), Rest(r.ops))
  BY <1>1, <1>3 DEF Carries, Matched
<1>5. /\ Inserted(p, r) \subseteq Gated(r.ops)
      /\ Inserted(p, r) \subseteq Twos(r.ops)
      /\ Inserted(p, r) \subseteq Swaps(r.ops)
      /\ Inserted(p, r) \subseteq Cliffords(r.ops)
      /\ Inserted(p, r) \cap Ones(r.ops) = {}
      /\ Inserted(p, r) \cap Measures(r.ops) = {}
      /\ Inserted(p, r) \cap Resets(r.ops) = {}
      /\ Inserted(p, r) \cap Barriers(r.ops) = {}
      /\ Inserted(p, r) \cap Ts(r.ops) = {}
      /\ Inserted(p, r) \cap Rest(r.ops) = {}
  BY <1>2 DEF T_GATES, CLIFFORD_GATES
<1>6. ASSUME NEW ops, NEW n
      PROVE  /\ EstimateResources(ops, n).gates = Cardinality(Gated(ops))
             /\ EstimateResources(ops, n).oneQubit = Cardinality(Ones(ops))
             /\ EstimateResources(ops, n).twoQubit = Cardinality(Twos(ops))
             /\ EstimateResources(ops, n).swap = Cardinality(Swaps(ops))
             /\ EstimateResources(ops, n).measure = Cardinality(Measures(ops))
             /\ EstimateResources(ops, n).reset = Cardinality(Resets(ops))
             /\ EstimateResources(ops, n).barrier = Cardinality(Barriers(ops))
             /\ EstimateResources(ops, n).t = Cardinality(Ts(ops))
             /\ EstimateResources(ops, n).clifford = Cardinality(Cliffords(ops))
             /\ EstimateResources(ops, n).unsupported = Cardinality(Rest(ops))
  BY DEF EstimateResources, Gates, Count
<1>7. r.twoQubitGateCount = Cardinality(Twos(working))
  <2>1. {i \in 1 .. r.done : OnTwoQubits(working[i])} = Twos(working)
    BY DEF OnTwoQubits
  <2> HIDE DEF Twos
  <2> QED
    BY <2>1 DEF Woven
<1>9. /\ Embeds(p, working, r.ops) /\ r.swapCount = Cardinality(Inserted(p, r))
      /\ Inserted(p, r) = {k \in 1 .. Len(r.ops) : \A h \in 1 .. Len(working) : p[h] # k}
  BY DEF Woven, Embeds, Inserted
<1> HIDE DEF Gated, Ones, Twos, Swaps, Measures, Resets, Barriers, Ts, Cliffords, Rest
<1>8. /\ Cardinality(Gated(r.ops)) = Cardinality(Gated(working)) + r.swapCount
      /\ Cardinality(Twos(r.ops)) = Cardinality(Twos(working)) + r.swapCount
      /\ Cardinality(Swaps(r.ops)) = Cardinality(Swaps(working)) + r.swapCount
      /\ Cardinality(Cliffords(r.ops)) = Cardinality(Cliffords(working)) + r.swapCount
      /\ Cardinality(Ones(r.ops)) = Cardinality(Ones(working))
      /\ Cardinality(Measures(r.ops)) = Cardinality(Measures(working))
      /\ Cardinality(Resets(r.ops)) = Cardinality(Resets(working))
      /\ Cardinality(Barriers(r.ops)) = Cardinality(Barriers(working))
      /\ Cardinality(Ts(r.ops)) = Cardinality(Ts(working))
      /\ Cardinality(Rest(r.ops)) = Cardinality(Rest(working))
  <2>1. Cardinality(Gated(r.ops)) = Cardinality(Gated(working)) + r.swapCount
    BY <1>4, <1>5, <1>9, WovenCounts
  <2>2. Cardinality(Ones(r.ops)) = Cardinality(Ones(working))
    BY <1>4, <1>5, <1>9, WovenCounts
  <2>3. Cardinality(Twos(r.ops)) = Cardinality(Twos(working)) + r.swapCount
    BY <1>4, <1>5, <1>9, WovenCounts
  <2>4. Cardinality(Swaps(r.ops)) = Cardinality(Swaps(working)) + r.swapCount
    BY <1>4, <1>5, <1>9, WovenCounts
  <2>5. Cardinality(Measures(r.ops)) = Cardinality(Measures(working))
    BY <1>4, <1>5, <1>9, WovenCounts
  <2>6. Cardinality(Resets(r.ops)) = Cardinality(Resets(working))
    BY <1>4, <1>5, <1>9, WovenCounts
  <2>7. Cardinality(Barriers(r.ops)) = Cardinality(Barriers(working))
    BY <1>4, <1>5, <1>9, WovenCounts
  <2>8. Cardinality(Ts(r.ops)) = Cardinality(Ts(working))
    BY <1>4, <1>5, <1>9, WovenCounts
  <2>9. Cardinality(Cliffords(r.ops)) = Cardinality(Cliffords(working)) + r.swapCount
    BY <1>4, <1>5, <1>9, WovenCounts
  <2>10. Cardinality(Rest(r.ops)) = Cardinality(Rest(working))
    BY <1>4, <1>5, <1>9, WovenCounts
  <2> QED
    BY <2>1, <2>2, <2>3, <2>4, <2>5, <2>6, <2>7, <2>8, <2>9, <2>10
<1> QED
  BY <1>6, <1>7, <1>8

\* Conditional operations: those routed, and the SWAPs wrapped for some of them.
LEMMA RoutedConditions ==
  ASSUME NEW r, NEW p, Woven(p, r), Len(r.ops) \in Nat, DOMAIN r.ops = 1 .. Len(r.ops),
         Len(working) \in Nat, DOMAIN working = 1 .. Len(working), r.done = Len(working), NEW m, NEW size
  PROVE  LET wrappers == EstimateResources(r.ops, size).conditional - EstimateResources(working, m).conditional
         IN  /\ wrappers = ConditionalSwaps(r.ops) - ConditionalSwaps(working)
             /\ (\A op \in ToSet(working) : OnTwoQubits(op) => op.cond = {}) => wrappers = 0
             /\ (\A op \in ToSet(working) : OnTwoQubits(op) => op.cond # {}) => wrappers = r.swapCount
<1> DEFINE Under(ops) == {i \in DOMAIN ops : ops[i].cond # {}}
           Swaps(ops) == {i \in DOMAIN ops : ops[i].kind = "gate" /\ (ops[i].name = "swap" /\ ops[i].cond # {})}
           Kept(ops) == Under(ops) \ Swaps(ops)
<1>1. \A i \in 1 .. Len(working) : p[i] \in 1 .. Len(r.ops) /\ Carries(r.ops[p[i]], working[i])
  BY DEF Woven
<1>2. \A k \in Inserted(p, r) :
        /\ k \in 1 .. Len(r.ops) /\ r.ops[k].kind = "gate" /\ r.ops[k].name = "swap"
        /\ \E i \in 1 .. Len(working) :
             OnTwoQubits(working[i]) /\ (r.ops[k].cond = {} <=> working[i].cond = {})
  BY DEF Woven, SwapFor, Inserted
<1>3. \A i \in 1 .. Len(working) : working[i] \in ToSet(working)
  BY DEF ToSet
<1>4. /\ Matched(p, working, r.ops, Under(working), Under(r.ops))
      /\ Matched(p, working, r.ops, Kept(working), Kept(r.ops))
  BY <1>1 DEF Carries, Matched
<1>5. /\ Inserted(p, r) \cap Kept(r.ops) = {}
      /\ (\A op \in ToSet(working) : OnTwoQubits(op) => op.cond = {}) => Inserted(p, r) \cap Under(r.ops) = {}
      /\ (\A op \in ToSet(working) : OnTwoQubits(op) => op.cond # {}) => Inserted(p, r) \subseteq Under(r.ops)
  BY <1>2, <1>3
<1>6. \A ops : Swaps(ops) \subseteq Under(ops)
  OBVIOUS
<1>7. /\ ConditionalSwaps(working) = Cardinality(Swaps(working))
      /\ ConditionalSwaps(r.ops) = Cardinality(Swaps(r.ops))
      /\ EstimateResources(working, m).conditional = Cardinality(Under(working))
      /\ EstimateResources(r.ops, size).conditional = Cardinality(Under(r.ops))
  BY DEF ConditionalSwaps, EstimateResources, Gates, Count
<1>8. /\ Embeds(p, working, r.ops) /\ r.swapCount = Cardinality(Inserted(p, r))
      /\ Inserted(p, r) = {k \in 1 .. Len(r.ops) : \A h \in 1 .. Len(working) : p[h] # k}
  BY DEF Woven, Embeds, Inserted
<1>9. Under(working) \subseteq 1 .. Len(working) /\ Under(r.ops) \subseteq 1 .. Len(r.ops)
  OBVIOUS
<1>10. Inserted(p, r) \subseteq 1 .. Len(r.ops)
  BY <1>8
<1> HIDE DEF Under, Swaps
<1>11. /\ IsFiniteSet(Under(working)) /\ Cardinality(Under(working)) \in Nat
       /\ IsFiniteSet(Under(r.ops)) /\ Cardinality(Under(r.ops)) \in Nat
       /\ Cardinality(Swaps(working)) \in Nat /\ Cardinality(Swaps(r.ops)) \in Nat
       /\ Cardinality(Inserted(p, r)) \in Nat
  BY <1>6, <1>9, <1>10, SomeAreCounted
<1>12. /\ Cardinality(Kept(working)) = Cardinality(Under(working)) - Cardinality(Swaps(working))
       /\ Cardinality(Kept(r.ops)) = Cardinality(Under(r.ops)) - Cardinality(Swaps(r.ops))
  <2>1. /\ Under(working) \cap Swaps(working) = Swaps(working)
        /\ Under(r.ops) \cap Swaps(r.ops) = Swaps(r.ops)
    BY <1>6
  <2> QED
    BY <1>11, <2>1, FS_Difference
<1> HIDE DEF Kept
<1>13. Cardinality(Kept(r.ops)) = Cardinality(Kept(working))
  BY <1>4, <1>5, <1>8, WovenCounts
<1>14. Inserted(p, r) \cap Under(r.ops) = {} => Cardinality(Under(r.ops)) = Cardinality(Under(working))
  BY <1>4, <1>8, WovenCounts
<1>15. Inserted(p, r) \subseteq Under(r.ops) => Cardinality(Under(r.ops)) = Cardinality(Under(working)) + r.swapCount
  BY <1>4, <1>8, WovenCounts
<1>16. EstimateResources(r.ops, size).conditional - EstimateResources(working, m).conditional
         = ConditionalSwaps(r.ops) - ConditionalSwaps(working)
  BY <1>7, <1>11, <1>12, <1>13
<1>17. (\A op \in ToSet(working) : OnTwoQubits(op) => op.cond = {}) =>
         EstimateResources(r.ops, size).conditional - EstimateResources(working, m).conditional = 0
  <2>1. ASSUME Cardinality(Under(r.ops)) = Cardinality(Under(working))
        PROVE  EstimateResources(r.ops, size).conditional - EstimateResources(working, m).conditional = 0
    BY <1>7, <1>11, <2>1
  <2> QED
    BY <1>5, <1>14, <2>1
<1>18. (\A op \in ToSet(working) : OnTwoQubits(op) => op.cond # {}) =>
         EstimateResources(r.ops, size).conditional - EstimateResources(working, m).conditional = r.swapCount
  <2>1. ASSUME Cardinality(Under(r.ops)) = Cardinality(Under(working)) + r.swapCount
        PROVE  EstimateResources(r.ops, size).conditional - EstimateResources(working, m).conditional = r.swapCount
    <3>1. r.swapCount \in Nat
      BY <1>8, <1>11
    <3>2. Cardinality(Under(r.ops)) - Cardinality(Under(working)) = r.swapCount
      BY <1>11, <2>1, <3>1
    <3> QED
      BY <1>7, <3>2
  <2> QED
    BY <1>5, <1>15, <2>1
<1> QED
  BY <1>16, <1>17, <1>18

\* A circuit routed needs what the circuit did, of the device and of time.
LEMMA RoutedIsAsDeep ==
  ASSUME NEW r, TallyInv(r), IsCircuit(working, circuit.n), r.done = Len(working)
  PROVE  CircuitDepth(r.ops) >= CircuitDepth(working)
<1>1. /\ Len(r.ops) \in Nat /\ DOMAIN r.ops = 1 .. Len(r.ops)
      /\ Len(working) \in Nat /\ DOMAIN working = 1 .. Len(working)
  BY DEF TallyInv, IsCircuit
<1>2. /\ CircuitDepth(working) \in Nat /\ CircuitDepth(r.ops) \in Nat
      /\ \A k \in 1 .. Len(r.ops) : LayerOf(r.ops)[k] <= CircuitDepth(r.ops)
      /\ CircuitDepth(working) = 0 \/ \E i \in 1 .. Len(working) : LayerOf(working)[i] = CircuitDepth(working)
  BY <1>1, DepthIsHighest
<1>3. CASE CircuitDepth(working) = 0
  BY <1>2, <1>3
<1>4. ASSUME NEW i \in 1 .. Len(working), LayerOf(working)[i] = CircuitDepth(working), CircuitDepth(working) # 0
      PROVE  CircuitDepth(r.ops) >= CircuitDepth(working)
  <2>1. LayeredOn(working[i]) # {}
    BY <1>1, <1>4, LayersAreLayered DEF Layered
  <2>2. PICK q : q \in LayeredOn(working[i])
    BY <2>1
  <2>3. PICK k \in 1 .. Len(r.ops) : LayerOf(working)[i] <= LayerOf(r.ops)[k]
    BY <2>2 DEF TallyInv, AsDeep
  <2>4. LayerOf(r.ops)[k] \in Nat
    BY <1>1, LayersAreLayered DEF Layered
  <2> QED
    BY <1>2, <1>4, <2>3, <2>4
<1> QED
  BY <1>2, <1>3, <1>4

\* And asks of a device what it did: a SWAP comes before something like it.
LEMMA RoutedFeatures ==
  ASSUME NEW r, NEW p, Woven(p, r), Len(r.ops) \in Nat, DOMAIN r.ops = 1 .. Len(r.ops),
         Len(working) \in Nat, DOMAIN working = 1 .. Len(working), r.done = Len(working)
  PROVE  CircuitSummary(r.ops).features = CircuitSummary(working).features
<1>1. \A i \in 1 .. Len(working) : p[i] \in 1 .. Len(r.ops) /\ Carries(r.ops[p[i]], working[i])
  BY DEF Woven
<1>2. \A h, i \in 1 .. Len(working) : h < i => p[h] < p[i]
  BY DEF Woven
<1>3. \A k \in 1 .. Len(r.ops) : k \in Inserted(p, r) \/ \E i \in 1 .. Len(working) : p[i] = k
  BY DEF Inserted
<1>4. \A k \in Inserted(p, r) : \E i \in 1 .. Len(working) :
        SwapFor(r.ops[k], i) /\ \A h \in 1 .. Len(working) : p[h] < k => h < i
  BY DEF Woven
<1>5. UsesReset(r.ops) <=> UsesReset(working)
  <2>1. ASSUME NEW k \in 1 .. Len(r.ops), r.ops[k].kind = "reset" PROVE UsesReset(working)
    <3>1. k \notin Inserted(p, r)
      BY <1>4, <2>1 DEF SwapFor
    <3> QED
      BY <1>1, <1>3, <2>1, <3>1 DEF UsesReset, ToSet, Carries
  <2>2. ASSUME NEW i \in 1 .. Len(working), working[i].kind = "reset" PROVE UsesReset(r.ops)
    BY <1>1, <2>2 DEF UsesReset, ToSet, Carries
  <2> QED
    BY <2>1, <2>2 DEF UsesReset, ToSet
<1>6. UsesClassicalControl(r.ops) <=> UsesClassicalControl(working)
  <2>1. ASSUME NEW k \in 1 .. Len(r.ops), r.ops[k].cond # {} PROVE UsesClassicalControl(working)
    <3>1. CASE k \in Inserted(p, r)
      BY <1>4, <2>1, <3>1 DEF UsesClassicalControl, ToSet, SwapFor
    <3>2. CASE k \notin Inserted(p, r)
      <4>1. PICK i \in 1 .. Len(working) : p[i] = k
        BY <1>3, <3>2
      <4>2. working[i].cond # {}
        BY <1>1, <2>1, <4>1 DEF Carries
      <4> QED
        BY <4>2 DEF UsesClassicalControl, ToSet
    <3> QED
      BY <3>1, <3>2
  <2>2. ASSUME NEW i \in 1 .. Len(working), working[i].cond # {} PROVE UsesClassicalControl(r.ops)
    <3>1. p[i] \in DOMAIN r.ops /\ r.ops[p[i]].cond # {}
      BY <1>1, <2>2 DEF Carries
    <3> QED
      BY <3>1 DEF UsesClassicalControl, ToSet
  <2> QED
    BY <2>1, <2>2 DEF UsesClassicalControl, ToSet
<1> DEFINE Unconditional(op, kind) == op.kind = kind /\ op.cond = {}
           Used(ops) == \E i, j \in DOMAIN ops :
                i < j /\ Unconditional(ops[i], "measure")
                /\ ~Unconditional(ops[j], "measure") /\ ~Unconditional(ops[j], "barrier")
<1>7. \A ops : UsesMidCircuitMeasurement(ops) <=> Used(ops)
  BY DEF UsesMidCircuitMeasurement
<1>8. Used(r.ops) => Used(working)
  <2> SUFFICES ASSUME NEW k \in 1 .. Len(r.ops), NEW l \in 1 .. Len(r.ops), k < l,
                      Unconditional(r.ops[k], "measure"),
                      ~Unconditional(r.ops[l], "measure"), ~Unconditional(r.ops[l], "barrier")
               PROVE  Used(working)
    OBVIOUS
  <2>1. k \notin Inserted(p, r)
    BY <1>4 DEF SwapFor
  <2>2. PICK h \in 1 .. Len(working) : p[h] = k
    BY <1>3, <2>1
  <2>3. Unconditional(working[h], "measure")
    BY <1>1, <2>2 DEF Carries
  <2>4. CASE l \in Inserted(p, r)
    <3>1. PICK i \in 1 .. Len(working) : SwapFor(r.ops[l], i) /\ h < i
      BY <1>4, <2>2, <2>4
    <3>2. working[i].kind = "gate"
      BY <3>1 DEF SwapFor, OnTwoQubits
    <3> QED
      BY <2>3, <3>1, <3>2
  <2>5. CASE l \notin Inserted(p, r)
    <3>1. PICK i \in 1 .. Len(working) : p[i] = l
      BY <1>3, <2>5
    <3>2. ~Unconditional(working[i], "measure") /\ ~Unconditional(working[i], "barrier")
      BY <1>1, <3>1 DEF Carries
    <3>3. h < i
      <4>1. ~(i < h) /\ i # h
        BY <1>1, <1>2, <2>2, <3>1
      <4> QED
        BY <4>1
    <3> QED
      BY <2>3, <3>2, <3>3
  <2> QED
    BY <2>4, <2>5
<1>9. Used(working) => Used(r.ops)
  <2> SUFFICES ASSUME NEW h \in 1 .. Len(working), NEW i \in 1 .. Len(working), h < i,
                      Unconditional(working[h], "measure"),
                      ~Unconditional(working[i], "measure"), ~Unconditional(working[i], "barrier")
               PROVE  Used(r.ops)
    OBVIOUS
  <2>1. p[h] \in DOMAIN r.ops /\ p[i] \in DOMAIN r.ops /\ p[h] < p[i]
    BY <1>1, <1>2
  <2>2. /\ Unconditional(r.ops[p[h]], "measure")
        /\ ~Unconditional(r.ops[p[i]], "measure") /\ ~Unconditional(r.ops[p[i]], "barrier")
    BY <1>1 DEF Carries
  <2> QED
    BY <2>1, <2>2
<1> HIDE DEF Used
<1> QED
  BY <1>5, <1>6, <1>7, <1>8, <1>9 DEF CircuitSummary

-----------------------------------------------------------------------------
(* The tally, at every step.                                                *)

\* What is being routed is tallied, and is all routed when the check runs.
TallyingInv ==
    /\ \A r, s \in route : r = s
    /\ stage = "verified" => \A r \in route : r.done = Len(working)
    /\ \A r \in route : IsCircuit(working, circuit.n) => TallyInv(r)

\* Nothing is routed yet.
LEMMA NothingIsTallied == ASSUME Transpile PROVE TallyingInv'
<1>1. PICK p \in Placements :
        /\ Len(p.layout) = circuit.n
        /\ route' = {[device |-> p.device, initial |-> p.layout, layout |-> p.layout,
                      path |-> <<>>, ops |-> <<>>, done |-> 0, swapCount |-> 0, twoQubitGateCount |-> 0]}
  BY DEF Transpile
<1> DEFINE r == [device |-> p.device, initial |-> p.layout, layout |-> p.layout,
                 path |-> <<>>, ops |-> <<>>, done |-> 0, swapCount |-> 0, twoQubitGateCount |-> 0]
<1>2. circuit' = circuit /\ working' = working /\ stage' = "routing" /\ route' = {r}
  BY <1>1 DEF Transpile
<1>3. /\ r = [f \in RouteFields |-> r[f]] /\ r.path = <<>> /\ r.done = 0 /\ r.ops = <<>>
      /\ r.layout = p.layout /\ r.swapCount = 0 /\ r.twoQubitGateCount = 0
  BY DEF RouteFields
<1> HIDE DEF r
<1>4. circuit.n \in Nat /\ DOMAIN r.layout = 1 .. circuit.n
  BY <1>1, <1>3, PlacementAssumption, LenProperties
<1>5. ASSUME IsCircuit(working, circuit.n) PROVE TallyInv(r)
  <2>1. Len(working) \in Nat
    BY <1>5 DEF IsCircuit
  <2>2. Woven([i \in 1 .. 0 |-> 0], r)
    <3> DEFINE p0 == [i \in 1 .. 0 |-> 0]
    <3>1. 1 .. r.done = {} /\ 1 .. Len(r.ops) = {}
      BY <1>3
    <3>2. p0 \in [1 .. r.done -> 1 .. Len(r.ops)]
      BY <3>1, <1>3
    <3>3. Inserted(p0, r) = {} /\ {i \in 1 .. r.done : OnTwoQubits(working[i])} = {}
      BY <3>1 DEF Inserted
    <3> HIDE DEF p0
    <3>4. Woven(p0, r)
      BY <1>3, <3>1, <3>2, <3>3, FS_EmptySet DEF Woven
    <3> QED
      BY <3>4 DEF p0
  <2>3. AsDeep(r)
    BY <1>3 DEF AsDeep
  <2>4. r.ops \in Seq(ToSet(r.ops))
    <3>1. \A S : <<>> \in Seq(S)
      OBVIOUS
    <3> QED
      BY <1>3, <3>1
  <2>5. r.done \in Nat /\ r.done <= Len(working)
    BY <1>3, <2>1
  <2>6. \E p0 : Woven(p0, r)
    BY <2>2
  <2> QED
    BY <1>3, <1>4, <2>3, <2>4, <2>5, <2>6 DEF TallyInv
<1>6. TallyInv(r)' <=> TallyInv(r)
  BY <1>2 DEF TallyInv, Woven, SwapFor, AsDeep
<1> QED
  BY <1>2, <1>5, <1>6 DEF TallyingInv

\* One route in place of another.
LEMMA TallySteps ==
  ASSUME NEW r, NEW s, route' = {s}, stage' # "verified", UNCHANGED <<circuit, working>>,
         IsCircuit(working, circuit.n) => TallyInv(s)
  PROVE  TallyingInv'
<1>1. TallyInv(s)' <=> TallyInv(s)
  BY DEF TallyInv, Woven, SwapFor, AsDeep
<1> QED
  BY <1>1 DEF TallyingInv

\* What routes nothing.
LEMMA TallyKept ==
  ASSUME TallyingInv, route' = route, route # {} => circuit' = circuit /\ working' = working,
         stage' = "verified" => \A r \in route : r.done = Len(working)
  PROVE  TallyingInv'
<1>1. CASE route = {}
  BY <1>1 DEF TallyingInv
<1>2. CASE route # {}
  <2>1. circuit' = circuit /\ working' = working
    BY <1>2
  <2>2. ASSUME NEW r \in route PROVE TallyInv(r)' <=> TallyInv(r)
    BY <2>1 DEF TallyInv, Woven, SwapFor, AsDeep
  <2> QED
    BY <2>1, <2>2 DEF TallyingInv
<1> QED
  BY <1>1, <1>2

\* Every walk is tallied.
THEOREM TallyingInvariance == Spec => []TallyingInv
<1>1. Init => TallyingInv
  BY DEF Init, TallyingInv
<1>2. OnlyRouting /\ TallyingInv /\ [Next]_vars => TallyingInv'
  <2> SUFFICES ASSUME OnlyRouting, TallyingInv, [Next]_vars PROVE TallyingInv'
    OBVIOUS
  <2>1. CASE Parse \/ Emission \/ Complement \/ PivotPair
    <3>1. \/ /\ route' = route /\ circuit' = circuit /\ working' = working
             /\ stage' # "verified"
          \/ /\ route' = route /\ route = {}
      BY <2>1 DEF Parse, Emission, Complement, PivotPair, Rewritten, OnlyRouting
    <3> QED
      BY <3>1, TallyKept
  <2>2. CASE Extract \/ Sweep \/ Optimized \/ ApplyDynamicalDecoupling
    <3>1. route' = route /\ route = {}
      BY <2>2 DEF Extract, Sweep, Optimized, ApplyDynamicalDecoupling, OnlyRouting
    <3> QED
      BY <3>1, TallyKept
  <2>3. CASE Transpile
    BY <2>3, NothingIsTallied
  <2>4. CASE EmitSwap
    <3>1. PICK r \in route :
            /\ r.done < Len(working)
            /\ \E path \in PathsOf(working[r.done + 1], r) :
                Len(path) > 2 /\ route' = {Swapped(r, working[r.done + 1], path)}
      BY <2>4 DEF EmitSwap
    <3>2. PICK path \in PathsOf(working[r.done + 1], r) :
            Len(path) > 2 /\ route' = {Swapped(r, working[r.done + 1], path)}
      BY <3>1
    <3>3. IsCircuit(working, circuit.n) => TallyInv(Swapped(r, working[r.done + 1], path))
      BY <3>1, <3>2, SwapIsTallied DEF TallyingInv
    <3> QED
      BY <2>4, <3>2, <3>3, TallySteps DEF EmitSwap
  <2>5. CASE EmitOperation
    <3>1. PICK r \in route : r.done < Len(working) /\ route' = {Emitted(r, working[r.done + 1])}
      BY <2>5 DEF EmitOperation
    <3>2. IsCircuit(working, circuit.n) => TallyInv(Emitted(r, working[r.done + 1]))
      BY <3>1, OperationIsTallied DEF TallyingInv
    <3> QED
      BY <2>5, <3>1, <3>2, TallySteps DEF EmitOperation
  <2>6. CASE VerifyRouting
    <3>1. \A r \in route : r.done = Len(working)
      BY <2>6 DEF VerifyRouting, TallyingInv
    <3> QED
      BY <2>6, <3>1, TallyKept DEF VerifyRouting
  <2>7. CASE UNCHANGED vars
    BY <2>7, TallyKept DEF vars, TallyingInv
  <2> QED
    BY <2>1, <2>2, <2>3, <2>4, <2>5, <2>6, <2>7 DEF Next
<1> QED
  BY <1>1, <1>2, RoutingInvariance, PTL DEF Spec

-----------------------------------------------------------------------------
(* What was swept.                                                          *)

\* However often a circuit was swept, it is the one given with some of it gone.
ThinningInv ==
    LegalInput /\ stage \in {"given", "optimized"} => \E e : Thins(e, working, circuit.ops)

\* A sweep takes from what is left, and adds nothing.
THEOREM ThinningInvariance == Spec => []ThinningInv
<1>1. Init => ThinningInv
  <2> SUFFICES ASSUME Init, LegalInput, stage = "given" PROVE \E e : Thins(e, working, circuit.ops)
    BY DEF ThinningInv, Init
  <2>1. diagram = {} /\ working = circuit.ops
    BY DEF Init
  <2>2. Len(circuit.ops) \in Nat
    BY <2>1 DEF LegalInput, IsCircuit
  <2> QED
    BY <2>1, <2>2, ThinsItself
<1>2. PipelineInv /\ PipelineInv' /\ ThinningInv /\ [Next]_vars => ThinningInv'
  <2> SUFFICES ASSUME PipelineInv, PipelineInv', ThinningInv, [Next]_vars, LegalInput', stage' \in {"given", "optimized"}
               PROVE  (\E e : Thins(e, working, circuit.ops))'
    BY DEF ThinningInv
  <2>1. CASE Extract
    <3>1. working' = circuit'.ops /\ stage' = "given"
      BY <2>1 DEF Extract
    <3>2. Len(circuit'.ops) \in Nat
      BY <3>1 DEF PipelineInv, IsCircuit
    <3> QED
      BY <3>1, <3>2, ThinsItself
  <2>2. CASE Sweep
    <3>1. stage = "given" /\ circuit' = circuit /\ diagram' = diagram /\ working' \in SweepOf(working)
      BY <2>2 DEF Sweep
    <3>2. LegalInput
      BY <3>1 DEF LegalInput, IsCircuit
    <3>3. working \in Seq(OperationsOn(0 .. circuit.n - 1)) /\ circuit.ops \in Seq(OperationsOn(0 .. circuit.n - 1))
      BY <3>1, <3>2 DEF PipelineInv, IsCircuit
    <3>4. working' \in Seq(OperationsOn(0 .. circuit.n - 1))
      BY <3>1, <2>2 DEF PipelineInv, IsCircuit, Sweep
    <3>5. PICK i \in DOMAIN working : working' \in RewritesAt(working, i)
      BY <3>1 DEF SweepOf
    <3>6. PICK e : Thins(e, working', working)
      BY <3>3, <3>5, RewritesThin
    <3>7. PICK g : Thins(g, working, circuit.ops)
      BY <3>1, <3>2 DEF ThinningInv
    <3>8. \E h : Thins(h, working', circuit.ops)
      BY <3>3, <3>4, <3>6, <3>7, ThinsThrough
    <3> QED
      BY <3>1, <3>8
  <2>3. CASE Optimized \/ Complement \/ PivotPair \/ UNCHANGED vars
    <3>1. circuit' = circuit /\ working' = working /\ stage \in {"given", "optimized"} /\ diagram' = diagram
      BY <2>3 DEF Optimized, Complement, PivotPair, Rewritten, vars
    <3>2. LegalInput
      BY <3>1 DEF LegalInput, IsCircuit
    <3> QED
      BY <3>1, <3>2 DEF ThinningInv
  <2>4. CASE Parse \/ Emission \/ ApplyDynamicalDecoupling \/ Transpile \/ EmitSwap \/ EmitOperation \/ VerifyRouting
    BY <2>4 DEF Parse, Emission, ApplyDynamicalDecoupling, Transpile, EmitSwap, EmitOperation, VerifyRouting
  <2> QED
    BY <2>1, <2>2, <2>3, <2>4 DEF Next
<1> QED
  BY <1>1, <1>2, PipelineInvariance, PTL DEF Spec

-----------------------------------------------------------------------------
(* The counts agree.                                                        *)

\* What was optimized is costed no higher.
LEMMA OptimizedAgrees ==
  ASSUME PipelineInv, ThinningInv, LegalInput, stage = "optimized"
  PROVE  CountsAgree
<1>1. PICK e : Thins(e, working, circuit.ops)
  BY DEF ThinningInv
<1>2. /\ circuit.n \in Nat /\ working \in Seq(OperationsOn(0 .. circuit.n - 1))
      /\ circuit.ops \in Seq(OperationsOn(0 .. circuit.n - 1))
  BY DEF PipelineInv, IsCircuit
<1> DEFINE v == WorkloadFromResourceEstimate(EstimateResources(working, circuit.n))
           w == WorkloadFromResourceEstimate(EstimateResources(circuit.ops, circuit.n))
<1>3. /\ \A count \in DOMAIN CountGates(working) : CountGates(working)[count] <= CountGates(circuit.ops)[count]
      /\ CircuitSummary(working).features \subseteq CircuitSummary(circuit.ops).features
  BY <1>1, <1>2, ThinnerCounts
<1>4. AsksLess(v, w)
  <2>1. /\ EstimateResources(working, circuit.n).t = EstimateResources(circuit.ops, circuit.n).t
        /\ EstimateResources(working, circuit.n).t \in Nat
        /\ EstimateResources(working, circuit.n).unsupported \in Nat /\ EstimateResources(circuit.ops, circuit.n).unsupported \in Nat
        /\ EstimateResources(working, circuit.n).unsupported <= EstimateResources(circuit.ops, circuit.n).unsupported
        /\ EstimateResources(working, circuit.n).depth \in Nat /\ EstimateResources(circuit.ops, circuit.n).depth \in Nat
        /\ EstimateResources(working, circuit.n).depth <= EstimateResources(circuit.ops, circuit.n).depth
    BY <1>1, <1>2, ThinnerCounts
  <2>2. \A ops : EstimateResources(ops, circuit.n).qubits = circuit.n
    BY DEF EstimateResources
  <2>3. \A x : /\ WorkloadFromResourceEstimate(x).qubits = x.qubits /\ WorkloadFromResourceEstimate(x).depth = x.depth
               /\ WorkloadFromResourceEstimate(x).t = x.t /\ WorkloadFromResourceEstimate(x).toffoli = 0
               /\ WorkloadFromResourceEstimate(x).unsupported = x.unsupported
    BY DEF WorkloadFromResourceEstimate
  <2> QED
    BY <1>2, <2>1, <2>2, <2>3 DEF AsksLess, WorkloadNumbers
<1> HIDE DEF v, w
<1>5. ASSUME NEW s \in Scenarios, Known(Evaluate(w, s).total)
      PROVE  /\ Known(Evaluate(v, s).total) /\ Evaluate(v, s).total <= Evaluate(w, s).total
             /\ Evaluate(v, s).runtime <= Evaluate(w, s).runtime
  <2>1. ScenarioNumbers(s)
    BY ScenarioAssumption DEF ScenarioNumbers
  <2> QED
    BY <1>4, <1>5, <2>1, LessIsCheaper
<1> QED
  BY <1>3, <1>5 DEF CountsAgree, v, w

\* What was routed is what the router says.
LEMMA RoutedAgrees ==
  ASSUME OnlyRouting, TallyingInv, PipelineInv, LegalInput, stage = "verified"
  PROVE  CountsAgree
<1>1. IsCircuit(working, circuit.n)
  BY DEF PipelineInv
<1>2. ASSUME NEW r \in route
      PROVE  LET given == EstimateResources(working, circuit.n)
                 routed == EstimateResources(r.ops, r.device.size)
                 wrappers == routed.conditional - given.conditional
             IN  /\ CircuitSummary(r.ops).features = CircuitSummary(working).features
                 /\ routed.twoQubit = r.twoQubitGateCount + r.swapCount
                 /\ routed.depth >= given.depth
                 /\ \A count \in {"swap", "gates", "twoQubit", "clifford"} :
                     routed[count] = given[count] + r.swapCount
                 /\ \A count \in {"oneQubit", "t", "unsupported", "measure", "reset", "barrier"} :
                     routed[count] = given[count]
                 /\ wrappers = ConditionalSwaps(r.ops) - ConditionalSwaps(working)
                 /\ (\A op \in ToSet(working) : OnTwoQubits(op) => op.cond = {}) => wrappers = 0
                 /\ (\A op \in ToSet(working) : OnTwoQubits(op) => op.cond # {}) => wrappers = r.swapCount
  <2>1. TallyInv(r) /\ r.done = Len(working)
    BY <1>1 DEF TallyingInv
  <2>2. PICK p : Woven(p, r)
    BY <2>1 DEF TallyInv
  <2>3. /\ Len(r.ops) \in Nat /\ DOMAIN r.ops = 1 .. Len(r.ops)
        /\ Len(working) \in Nat /\ DOMAIN working = 1 .. Len(working)
    <3>1. r.ops \in Seq(ToSet(r.ops))
      BY <2>1 DEF TallyInv
    <3> QED
      BY <1>1, <3>1 DEF IsCircuit
  <2>4. CircuitSummary(r.ops).features = CircuitSummary(working).features
    BY <2>1, <2>2, <2>3, RoutedFeatures
  <2>5. EstimateResources(r.ops, r.device.size).depth >= EstimateResources(working, circuit.n).depth
    BY <1>1, <2>1, RoutedIsAsDeep DEF EstimateResources
  <2>6. LET given == EstimateResources(working, circuit.n)
            routed == EstimateResources(r.ops, r.device.size)
        IN  /\ routed.twoQubit = r.twoQubitGateCount + r.swapCount
            /\ \A count \in {"swap", "gates", "twoQubit", "clifford"} :
                routed[count] = given[count] + r.swapCount
            /\ \A count \in {"oneQubit", "t", "unsupported", "measure", "reset", "barrier"} :
                routed[count] = given[count]
    <3>1. Woven(p, r) /\ r.done = Len(working)
      BY <2>1, <2>2
    <3>2. \A m, size :
            /\ EstimateResources(r.ops, size).twoQubit = r.twoQubitGateCount + r.swapCount
            /\ \A count \in {"swap", "gates", "twoQubit", "clifford"} :
                EstimateResources(r.ops, size)[count] = EstimateResources(working, m)[count] + r.swapCount
            /\ \A count \in {"oneQubit", "t", "unsupported", "measure", "reset", "barrier"} :
                EstimateResources(r.ops, size)[count] = EstimateResources(working, m)[count]
      BY <2>3, <3>1, RoutedCounts
    <3> QED
      BY <3>2
  <2>7. LET wrappers == EstimateResources(r.ops, r.device.size).conditional
                          - EstimateResources(working, circuit.n).conditional
        IN  /\ wrappers = ConditionalSwaps(r.ops) - ConditionalSwaps(working)
            /\ (\A op \in ToSet(working) : OnTwoQubits(op) => op.cond = {}) => wrappers = 0
            /\ (\A op \in ToSet(working) : OnTwoQubits(op) => op.cond # {}) => wrappers = r.swapCount
    <3>1. Woven(p, r) /\ r.done = Len(working)
      BY <2>1, <2>2
    <3> QED
      BY <2>3, <3>1, RoutedConditions
  <2> QED
    BY <2>4, <2>5, <2>6, <2>7
<1> QED
  BY <1>2 DEF CountsAgree

(***************************************************************************)
(* The numbers shown beside a transformation add up, for every legal       *)
(* circuit or diagram, every device and layout and every choice of         *)
(* rewrites and of shortest paths: what was optimized has no more gates, T *)
(* gates or layers and costs no more under any scenario, and what was      *)
(* routed has the SWAPs the router reports and nothing else, under a       *)
(* condition those that a conditional gate waited for.                     *)
(***************************************************************************)
THEOREM CountsAgreement == Spec => [](LegalInput => CountsAgree)
<1>1. OnlyRouting /\ TallyingInv /\ PipelineInv /\ ThinningInv => (LegalInput => CountsAgree)
  <2>1. stage \notin {"optimized", "verified"} => CountsAgree
    BY DEF CountsAgree
  <2> QED
    BY <2>1, OptimizedAgrees, RoutedAgrees
<1> QED
  BY <1>1, RoutingInvariance, TallyingInvariance, PipelineInvariance, ThinningInvariance, PTL

-----------------------------------------------------------------------------
(* Tables filled cell by cell from the far corner, and how long what is    *)
(* common to two circuits can be.                                          *)

\* The value of each cell of a table comes from those of its neighbours, by g.
FromNeighbours(f, g, rows, columns, base) ==
    \A row \in 1 .. rows + 1, column \in 1 .. columns + 1 :
        f[<<row, column>>] =
            IF row > rows \/ column > columns THEN base
            ELSE g[<<row, column, f[<<row + 1, column + 1>>], f[<<row + 1, column>>], f[<<row, column + 1>>]>>]

\* There is such a table: the cells are filled from the far corner.
LEMMA TablesExist ==
  ASSUME NEW V, NEW rows \in Nat, NEW columns \in Nat, NEW base \in V,
         NEW g \in [(1 .. rows) \X (1 .. columns) \X V \X V \X V -> V]
  PROVE  \E f \in [(1 .. rows + 1) \X (1 .. columns + 1) -> V] : FromNeighbours(f, g, rows, columns, base)
<1> DEFINE Away(row, column) == (rows + 1 - row) + (columns + 1 - column)
           cells == (1 .. rows + 1) \X (1 .. columns + 1)
           Value(f, row, column) ==
              IF row > rows \/ column > columns THEN base
              ELSE g[<<row, column, f[<<row + 1, column + 1>>], f[<<row + 1, column>>], f[<<row, column + 1>>]>>]
           Filled(f, k) == \A row \in 1 .. rows + 1, column \in 1 .. columns + 1 :
                              Away(row, column) <= k => f[<<row, column>>] = Value(f, row, column)
           Missing == {k \in Nat : ~ \E f \in [cells -> V] : Filled(f, k)}
<1>1. ASSUME NEW f \in [cells -> V], NEW row \in 1 .. rows + 1, NEW column \in 1 .. columns + 1
      PROVE  Value(f, row, column) \in V
  <2>1. CASE row > rows \/ column > columns
    BY <2>1
  <2>2. CASE ~ (row > rows \/ column > columns)
    <3>1. row \in 1 .. rows /\ column \in 1 .. columns
      BY <2>2
    <3>2. <<row + 1, column + 1>> \in cells /\ <<row + 1, column>> \in cells /\ <<row, column + 1>> \in cells
      BY <3>1
    <3> HIDE DEF cells
    <3>3. f[<<row + 1, column + 1>>] \in V /\ f[<<row + 1, column>>] \in V /\ f[<<row, column + 1>>] \in V
      BY <1>1, <3>2
    <3>4. \A a, b, c \in V : g[<<row, column, a, b, c>>] \in V
      BY <3>1
    <3> QED
      BY <2>2, <3>3, <3>4
  <2> QED
    BY <2>1, <2>2
<1>2. \E f \in [cells -> V] : Filled(f, 0)
  <2> DEFINE f == [at \in cells |-> base]
  <2>1. f \in [cells -> V]
    OBVIOUS
  <2>2. ASSUME NEW row \in 1 .. rows + 1, NEW column \in 1 .. columns + 1, Away(row, column) <= 0
        PROVE  f[<<row, column>>] = Value(f, row, column)
    <3>1. row > rows /\ <<row, column>> \in cells
      BY <2>2
    <3>2. f[<<row, column>>] = base
      BY <3>1
    <3> HIDE DEF f
    <3> QED
      BY <3>1, <3>2
  <2> HIDE DEF f, cells, Value, Away
  <2> QED
    BY <2>1, <2>2
<1>3. ASSUME NEW k \in Nat, NEW f \in [cells -> V], Filled(f, k)
      PROVE  \E h \in [cells -> V] : Filled(h, k + 1)
  <2> DEFINE h == [at \in cells |-> IF Away(at[1], at[2]) <= k THEN f[at] ELSE Value(f, at[1], at[2])]
  <2>1. h \in [cells -> V]
    <3>1. \A at \in cells : at[1] \in 1 .. rows + 1 /\ at[2] \in 1 .. columns + 1 /\ f[at] \in V
      OBVIOUS
    <3> HIDE DEF Value, Away, cells
    <3> QED
      BY <1>1, <3>1
  <2>2. ASSUME NEW row \in 1 .. rows + 1, NEW column \in 1 .. columns + 1
        PROVE  h[<<row, column>>] = IF Away(row, column) <= k THEN f[<<row, column>>] ELSE Value(f, row, column)
    <3>1. <<row, column>> \in cells
      OBVIOUS
    <3> HIDE DEF Value, Away, cells
    <3> QED
      BY <3>1
  <2>3. ASSUME NEW row \in 1 .. rows + 1, NEW column \in 1 .. columns + 1, Away(row, column) <= k + 1
        PROVE  h[<<row, column>>] = Value(h, row, column)
    <3>1. h[<<row, column>>] = Value(f, row, column)
      <4> HIDE DEF Value, h
      <4> QED
        BY <1>3, <2>2
    <3>2. CASE row > rows \/ column > columns
      <4> HIDE DEF h
      <4> QED
        BY <3>1, <3>2
    <3>3. CASE ~ (row > rows \/ column > columns)
      <4>1. /\ row + 1 \in 1 .. rows + 1 /\ column + 1 \in 1 .. columns + 1
            /\ Away(row + 1, column + 1) <= k /\ Away(row + 1, column) <= k /\ Away(row, column + 1) <= k
        BY <2>3, <3>3
      <4>2. /\ h[<<row + 1, column + 1>>] = f[<<row + 1, column + 1>>]
            /\ h[<<row + 1, column>>] = f[<<row + 1, column>>]
            /\ h[<<row, column + 1>>] = f[<<row, column + 1>>]
        <5> HIDE DEF h, Away
        <5> QED
          BY <2>2, <4>1
      <4> HIDE DEF h
      <4> QED
        BY <3>1, <4>2
    <3> QED
      BY <3>2, <3>3
  <2> HIDE DEF h, cells, Value, Away
  <2> QED
    BY <2>1, <2>3
<1>4. Missing = {}
  <2> SUFFICES ASSUME Missing # {} PROVE FALSE
    OBVIOUS
  <2>1. PICK k \in Missing : \A m \in Missing : k <= m
    <3>1. Missing \subseteq Nat
      OBVIOUS
    <3> HIDE DEF Missing
    <3> QED
      BY <3>1, LeastNumber
  <2>2. k \in Nat /\ ~ \E f \in [cells -> V] : Filled(f, k)
    <3> HIDE DEF Filled, cells
    <3> QED
      OBVIOUS
  <2> HIDE DEF Filled, cells
  <2>3. k # 0
    BY <1>2, <2>2
  <2>4. k - 1 \in Nat /\ k - 1 + 1 = k /\ ~ (k <= k - 1)
    BY <2>2, <2>3
  <2>5. k - 1 \notin Missing
    <3> HIDE DEF Missing
    <3> QED
      BY <2>1, <2>4
  <2>6. PICK f \in [cells -> V] : Filled(f, k - 1)
    BY <2>4, <2>5
  <2>7. \E h \in [cells -> V] : Filled(h, k - 1 + 1)
    BY <1>3, <2>4, <2>6
  <2> QED
    BY <2>2, <2>4, <2>7
<1>5. rows + columns \in Nat
  OBVIOUS
<1>6. PICK f \in [cells -> V] : Filled(f, rows + columns)
  <2> HIDE DEF Filled, cells
  <2> QED
    BY <1>4, <1>5
<1>7. \A row \in 1 .. rows + 1, column \in 1 .. columns + 1 : Away(row, column) <= rows + columns
  OBVIOUS
<1>8. FromNeighbours(f, g, rows, columns, base)
  <2> HIDE DEF Away
  <2> QED
    BY <1>6, <1>7 DEF FromNeighbours
<1> QED
  BY <1>6, <1>8

\* What the table holds at a cell, by the cells around it.
RemainderAt(t, left, right, row, column) ==
    IF row > Len(left) \/ column > Len(right) THEN 0
    ELSE IF left[row] = right[column] THEN t[<<row + 1, column + 1>>] + 1
    ELSE Max({t[<<row + 1, column>>], t[<<row, column + 1>>]})

\* Where a walk leads from a cell, by the walks from the cells around it.
WalkFrom(w, t, left, right, row, column) ==
    IF row > Len(left) \/ column > Len(right) THEN <<>>
    ELSE IF left[row] = right[column] THEN <<<<row, column>>>> \o w[<<row + 1, column + 1>>]
    ELSE IF SkipsLeft(t, row, column) THEN w[<<row + 1, column>>]
    ELSE w[<<row, column + 1>>]

\* A table of the longest remainders of left and right.
Tabulates(t, left, right) ==
    \A row \in 1 .. Len(left) + 1, column \in 1 .. Len(right) + 1 :
        t[<<row, column>>] = RemainderAt(t, left, right, row, column)

\* The walks through it, from each cell.
Walks(w, t, left, right) ==
    \A row \in 1 .. Len(left) + 1, column \in 1 .. Len(right) + 1 :
        w[<<row, column>>] = WalkFrom(w, t, left, right, row, column)

LEMMA LargerOfTwo ==
  ASSUME NEW a \in Nat, NEW b \in Nat
  PROVE  Max({a, b}) = IF a >= b THEN a ELSE b
<1> DEFINE larger == IF a >= b THEN a ELSE b
<1>1. larger \in {a, b} /\ \A y \in {a, b} : larger >= y
  OBVIOUS
<1>2. Max({a, b}) \in {a, b} /\ \A y \in {a, b} : Max({a, b}) >= y
  BY <1>1 DEF Max
<1> QED
  BY <1>2

LEMMA TableOfRemainders ==
  ASSUME NEW rows \in Nat, NEW columns \in Nat, NEW left, NEW right, rows = Len(left), columns = Len(right)
  PROVE  \E t \in [(1 .. rows + 1) \X (1 .. columns + 1) -> Nat] : Tabulates(t, left, right)
<1> DEFINE G(row, column, d, a, b) == IF left[row] = right[column] THEN d + 1 ELSE Max({a, b})
           inside == (1 .. rows) \X (1 .. columns) \X Nat \X Nat \X Nat
           g == [x \in inside |-> G(x[1], x[2], x[3], x[4], x[5])]
<1>1. \A row, column, d, a, b : d \in Nat /\ a \in Nat /\ b \in Nat => G(row, column, d, a, b) \in Nat
  BY LargerOfTwo
<1>2. g \in [inside -> Nat]
  <2>1. \A x \in inside : x[3] \in Nat /\ x[4] \in Nat /\ x[5] \in Nat
    OBVIOUS
  <2> HIDE DEF G, inside
  <2> QED
    BY <1>1, <2>1
<1>3. ASSUME NEW row \in 1 .. rows, NEW column \in 1 .. columns, NEW d \in Nat, NEW a \in Nat, NEW b \in Nat
      PROVE  g[<<row, column, d, a, b>>] = G(row, column, d, a, b)
  <2>1. <<row, column, d, a, b>> \in inside
    OBVIOUS
  <2> HIDE DEF G, inside
  <2> QED
    BY <2>1
<1>4. PICK t \in [(1 .. rows + 1) \X (1 .. columns + 1) -> Nat] : FromNeighbours(t, g, rows, columns, 0)
  <2> HIDE DEF g
  <2> QED
    BY <1>2, TablesExist
<1>5. ASSUME NEW row \in 1 .. rows + 1, NEW column \in 1 .. columns + 1
      PROVE  t[<<row, column>>] = RemainderAt(t, left, right, row, column)
  <2>1. t[<<row, column>>] =
            IF row > rows \/ column > columns THEN 0
            ELSE g[<<row, column, t[<<row + 1, column + 1>>], t[<<row + 1, column>>], t[<<row, column + 1>>]>>]
    BY <1>4 DEF FromNeighbours
  <2>2. CASE ~ (row > rows \/ column > columns)
    <3>1. row \in 1 .. rows /\ column \in 1 .. columns
      BY <2>2
    <3>2. /\ t[<<row + 1, column + 1>>] \in Nat /\ t[<<row + 1, column>>] \in Nat /\ t[<<row, column + 1>>] \in Nat
      BY <3>1
    <3> HIDE DEF g, G
    <3>3. t[<<row, column>>] = G(row, column, t[<<row + 1, column + 1>>], t[<<row + 1, column>>], t[<<row, column + 1>>])
      <4> DEFINE d == t[<<row + 1, column + 1>>]
                 a == t[<<row + 1, column>>]
                 b == t[<<row, column + 1>>]
      <4>1. t[<<row, column>>] = g[<<row, column, d, a, b>>]
        BY <2>1, <2>2, <3>1
      <4>2. d \in Nat /\ a \in Nat /\ b \in Nat
        BY <3>2
      <4> HIDE DEF d, a, b
      <4>3. g[<<row, column, d, a, b>>] = G(row, column, d, a, b)
        BY <1>3, <3>1, <4>2
      <4> QED
        BY <4>1, <4>3 DEF d, a, b
    <3> QED
      BY <2>2, <3>3 DEF RemainderAt, G
  <2> QED
    BY <2>1, <2>2 DEF RemainderAt
<1> QED
  BY <1>5 DEF Tabulates

LEMMA WalksExist ==
  ASSUME NEW rows \in Nat, NEW columns \in Nat, NEW left, NEW right, rows = Len(left), columns = Len(right), NEW t
  PROVE  \E w \in [(1 .. rows + 1) \X (1 .. columns + 1) -> Seq(Nat \X Nat)] : Walks(w, t, left, right)
<1> DEFINE V == Seq(Nat \X Nat)
           G(row, column, d, a, b) ==
              IF left[row] = right[column] THEN <<<<row, column>>>> \o d ELSE IF SkipsLeft(t, row, column) THEN a ELSE b
           inside == (1 .. rows) \X (1 .. columns) \X V \X V \X V
           g == [x \in inside |-> G(x[1], x[2], x[3], x[4], x[5])]
<1>1. \A row \in 1 .. rows, column \in 1 .. columns, d \in V, a \in V, b \in V : G(row, column, d, a, b) \in V
  <2>1. ASSUME NEW row \in 1 .. rows, NEW column \in 1 .. columns, NEW d \in V PROVE <<<<row, column>>>> \o d \in V
    <3>1. <<<<row, column>>>> \in Seq(Nat \X Nat)
      OBVIOUS
    <3> QED
      BY <3>1, ConcatProperties
  <2> HIDE DEF V
  <2> QED
    BY <2>1
<1>2. g \in [inside -> V]
  <2>1. \A x \in inside : x[1] \in 1 .. rows /\ x[2] \in 1 .. columns /\ x[3] \in V /\ x[4] \in V /\ x[5] \in V
    <3> HIDE DEF V
    <3> QED
      OBVIOUS
  <2> HIDE DEF G, inside, V
  <2> QED
    BY <1>1, <2>1
<1>3. ASSUME NEW row \in 1 .. rows, NEW column \in 1 .. columns, NEW d \in V, NEW a \in V, NEW b \in V
      PROVE  g[<<row, column, d, a, b>>] = G(row, column, d, a, b)
  <2> HIDE DEF V
  <2>1. <<row, column, d, a, b>> \in inside
    OBVIOUS
  <2> HIDE DEF G, inside
  <2> QED
    BY <2>1
<1>4. PICK w \in [(1 .. rows + 1) \X (1 .. columns + 1) -> V] : FromNeighbours(w, g, rows, columns, <<>>)
  <2>1. <<>> \in V
    OBVIOUS
  <2> HIDE DEF g, V
  <2> QED
    BY <1>2, <2>1, TablesExist
<1>5. ASSUME NEW row \in 1 .. rows + 1, NEW column \in 1 .. columns + 1
      PROVE  w[<<row, column>>] = WalkFrom(w, t, left, right, row, column)
  <2> HIDE DEF V
  <2>1. w[<<row, column>>] =
            IF row > rows \/ column > columns THEN <<>>
            ELSE g[<<row, column, w[<<row + 1, column + 1>>], w[<<row + 1, column>>], w[<<row, column + 1>>]>>]
    BY <1>4 DEF FromNeighbours
  <2>2. CASE ~ (row > rows \/ column > columns)
    <3>1. row \in 1 .. rows /\ column \in 1 .. columns
      BY <2>2
    <3>2. /\ w[<<row + 1, column + 1>>] \in V /\ w[<<row + 1, column>>] \in V /\ w[<<row, column + 1>>] \in V
      BY <3>1
    <3> HIDE DEF g, G
    <3>3. w[<<row, column>>] = G(row, column, w[<<row + 1, column + 1>>], w[<<row + 1, column>>], w[<<row, column + 1>>])
      BY <1>3, <2>1, <2>2, <3>1, <3>2
    <3> QED
      BY <2>2, <3>3 DEF WalkFrom, G
  <2> QED
    BY <2>1, <2>2 DEF WalkFrom
<1> QED
  BY <1>5 DEF Walks

\* What the alignment is: a walk from the first cell, by a table of remainders.
LEMMA AlignmentWalks ==
  ASSUME NEW left, NEW right, Len(left) \in Nat, Len(right) \in Nat
  PROVE  \E t, w : Tabulates(t, left, right) /\ Walks(w, t, left, right) /\ CommonSubsequence(left, right) = w[<<1, 1>>]
<1> DEFINE cells == (1 .. Len(left) + 1) \X (1 .. Len(right) + 1)
           Table(t) == t = [at \in cells |-> RemainderAt(t, left, right, at[1], at[2])]
           table == CHOOSE t : Table(t)
           Walk(w) == w = [at \in cells |-> WalkFrom(w, table, left, right, at[1], at[2])]
           walk == CHOOSE w : Walk(w)
<1>1. CommonSubsequence(left, right) = walk[<<1, 1>>]
  BY DEF CommonSubsequence, RemainderAt, WalkFrom
<1>2. \A at \in cells : at = <<at[1], at[2]>> /\ at[1] \in 1 .. Len(left) + 1 /\ at[2] \in 1 .. Len(right) + 1
  OBVIOUS
<1>3. \A row \in 1 .. Len(left) + 1, column \in 1 .. Len(right) + 1 :
        <<row, column>> \in cells /\ <<row, column>>[1] = row /\ <<row, column>>[2] = column
  OBVIOUS
<1>4. Table(table)
  <2>1. PICK t \in [cells -> Nat] : Tabulates(t, left, right)
    BY TableOfRemainders
  <2>2. t = [at \in cells |-> t[at]]
    OBVIOUS
  <2>3. Table(t)
    <3> HIDE DEF cells
    <3> QED
      BY <1>2, <2>1, <2>2 DEF Tabulates
  <2> HIDE DEF Table
  <2> QED
    BY <2>3
<1>5. Tabulates(table, left, right)
  <2> HIDE DEF table, cells
  <2> QED
    BY <1>3, <1>4 DEF Tabulates
<1> HIDE DEF table
<1>6. Walk(walk)
  <2>1. PICK w \in [cells -> Seq(Nat \X Nat)] : Walks(w, table, left, right)
    BY WalksExist
  <2>2. w = [at \in cells |-> w[at]]
    OBVIOUS
  <2>3. Walk(w)
    <3> HIDE DEF cells
    <3> QED
      BY <1>2, <2>1, <2>2 DEF Walks
  <2> HIDE DEF Walk
  <2> QED
    BY <2>3
<1>7. Walks(walk, table, left, right)
  <2> HIDE DEF walk, cells
  <2> QED
    BY <1>3, <1>6 DEF Walks
<1> HIDE DEF walk
<1> QED
  BY <1>1, <1>5, <1>7

\* What holds outside of both sequences, and of a cell whenever it holds of
\* those around it, holds of every cell.
LEMMA CellInduction ==
  ASSUME NEW rows \in Nat, NEW columns \in Nat, NEW good,
         \A row \in 1 .. rows + 1, column \in 1 .. columns + 1 :
            row > rows \/ column > columns => <<row, column>> \in good,
         \A row \in 1 .. rows, column \in 1 .. columns :
            /\ <<row + 1, column + 1>> \in good /\ <<row + 1, column>> \in good /\ <<row, column + 1>> \in good
            => <<row, column>> \in good
  PROVE  \A row \in 1 .. rows + 1, column \in 1 .. columns + 1 : <<row, column>> \in good
<1> DEFINE Away(row, column) == (rows + 1 - row) + (columns + 1 - column)
           Wrong == {k \in Nat : \E row \in 1 .. rows + 1, column \in 1 .. columns + 1 :
                                    Away(row, column) = k /\ <<row, column>> \notin good}
<1>1. ASSUME Wrong # {} PROVE FALSE
  <2>1. PICK k \in Wrong : \A m \in Wrong : k <= m
    <3>1. Wrong \subseteq Nat
      OBVIOUS
    <3> HIDE DEF Wrong
    <3> QED
      BY <1>1, <3>1, LeastNumber
  <2>2. PICK row \in 1 .. rows + 1, column \in 1 .. columns + 1 : Away(row, column) = k /\ <<row, column>> \notin good
    OBVIOUS
  <2>3. row \in 1 .. rows /\ column \in 1 .. columns
    BY <2>2
  <2>4. /\ row + 1 \in 1 .. rows + 1 /\ column + 1 \in 1 .. columns + 1
        /\ Away(row + 1, column + 1) \in Nat /\ ~ (k <= Away(row + 1, column + 1))
        /\ Away(row + 1, column) \in Nat /\ ~ (k <= Away(row + 1, column))
        /\ Away(row, column + 1) \in Nat /\ ~ (k <= Away(row, column + 1))
    BY <2>2, <2>3
  <2>5. \A r \in 1 .. rows + 1, c \in 1 .. columns + 1 :
          Away(r, c) \in Nat /\ ~ (k <= Away(r, c)) => <<r, c>> \in good
    <3> HIDE DEF Away
    <3> QED
      BY <2>1
  <2>6. <<row + 1, column + 1>> \in good /\ <<row + 1, column>> \in good /\ <<row, column + 1>> \in good
    <3> HIDE DEF Away
    <3> QED
      BY <2>3, <2>4, <2>5
  <2> QED
    BY <2>2, <2>3, <2>6
<1>2. \A row \in 1 .. rows + 1, column \in 1 .. columns + 1 : Away(row, column) \in Nat
  OBVIOUS
<1> QED
  <2> HIDE DEF Away
  <2> QED
    BY <1>1, <1>2

\* The pairs of equal operations from a cell on.
Beyond(left, right, row, column) ==
    {p \in (row .. Len(left)) \X (column .. Len(right)) : left[p[1]] = right[p[2]]}

LEMMA BeyondIsFinite ==
  ASSUME NEW left, NEW right, NEW row \in Int, NEW column \in Int, Len(left) \in Nat, Len(right) \in Nat,
         NEW pairs \in SUBSET Beyond(left, right, row, column)
  PROVE  IsFiniteSet(pairs)
<1>1. IsFiniteSet(row .. Len(left)) /\ IsFiniteSet(column .. Len(right))
  <2>1. Len(left) \in Int /\ Len(right) \in Int
    OBVIOUS
  <2> QED
    BY <2>1, FS_Interval
<1>2. IsFiniteSet((row .. Len(left)) \X (column .. Len(right)))
  BY <1>1, FS_Product
<1> QED
  BY <1>2, FS_Subset DEF Beyond

\* Where the next two are equal, a pairing in order uses one of them at most.
LEMMA PairingThroughMatch ==
  ASSUME NEW left, NEW right, NEW row \in Nat, NEW column \in Nat, Len(left) \in Nat, Len(right) \in Nat,
         NEW pairs \in SUBSET Beyond(left, right, row, column), InOrder(pairs)
  PROVE  \E rest \in SUBSET Beyond(left, right, row + 1, column + 1) :
            InOrder(rest) /\ Cardinality(pairs) <= Cardinality(rest) + 1
<1> DEFINE rest == {p \in pairs : p[1] # row /\ p[2] # column}
<1>1. \A p \in pairs : p \in (row .. Len(left)) \X (column .. Len(right)) /\ left[p[1]] = right[p[2]]
  BY DEF Beyond
<1>2. \A p \in pairs : p = <<p[1], p[2]>> /\ p[1] \in row .. Len(left) /\ p[2] \in column .. Len(right)
  BY <1>1
<1>3. rest \in SUBSET Beyond(left, right, row + 1, column + 1)
  <2>1. ASSUME NEW p \in rest PROVE p \in Beyond(left, right, row + 1, column + 1)
    <3>1. p[1] \in row + 1 .. Len(left) /\ p[2] \in column + 1 .. Len(right)
      BY <1>2
    <3>2. p \in (row + 1 .. Len(left)) \X (column + 1 .. Len(right))
      BY <1>2, <3>1
    <3> QED
      BY <1>1, <3>2 DEF Beyond
  <2> QED
    BY <2>1
<1>4. InOrder(rest)
  BY DEF InOrder
<1>5. IsFiniteSet(pairs) /\ IsFiniteSet(rest)
  BY <1>3, BeyondIsFinite
<1>6. Cardinality(pairs) <= Cardinality(rest) + 1
  <2>1. CASE pairs = rest
    <3>1. Cardinality(rest) \in Nat
      BY <1>5, FS_CardinalityType
    <3> HIDE DEF rest
    <3> QED
      BY <2>1, <3>1
  <2>2. CASE pairs # rest
    <3>1. PICK x \in pairs : x[1] = row \/ x[2] = column
      BY <2>2
    <3>2. ASSUME NEW y \in pairs, y[1] = row \/ y[2] = column PROVE y = x
      <4>1. x[1] >= row /\ x[2] >= column /\ y[1] >= row /\ y[2] >= column
            /\ x[1] \in Int /\ x[2] \in Int /\ y[1] \in Int /\ y[2] \in Int
        BY <1>2
      <4>2. x = y \/ (x[1] < y[1] /\ x[2] < y[2]) \/ (y[1] < x[1] /\ y[2] < x[2])
        BY DEF InOrder
      <4> QED
        BY <3>1, <3>2, <4>1, <4>2
    <3>3. pairs = rest \cup {x} /\ x \notin rest
      BY <3>1, <3>2
    <3>4. Cardinality(pairs) = Cardinality(rest) + 1
      <4> HIDE DEF rest
      <4> QED
        BY <1>5, <3>3, FS_AddElement
    <3>5. Cardinality(rest) \in Nat
      BY <1>5, FS_CardinalityType
    <3> HIDE DEF rest
    <3> QED
      BY <3>4, <3>5
  <2> HIDE DEF rest
  <2> QED
    BY <2>1, <2>2
<1> QED
  BY <1>3, <1>4, <1>6

\* Where they differ, it leaves one of them alone.
LEMMA PairingPastDifference ==
  ASSUME NEW left, NEW right, NEW row \in Nat, NEW column \in Nat, Len(left) \in Nat, Len(right) \in Nat,
         left[row] # right[column],
         NEW pairs \in SUBSET Beyond(left, right, row, column), InOrder(pairs)
  PROVE  \/ pairs \in SUBSET Beyond(left, right, row + 1, column)
         \/ pairs \in SUBSET Beyond(left, right, row, column + 1)
<1>1. \A p \in pairs : p \in (row .. Len(left)) \X (column .. Len(right)) /\ left[p[1]] = right[p[2]]
  BY DEF Beyond
<1>2. \A p \in pairs : p = <<p[1], p[2]>> /\ p[1] \in row .. Len(left) /\ p[2] \in column .. Len(right)
  BY <1>1
<1>3. CASE \A p \in pairs : p[1] # row
  <2>1. ASSUME NEW p \in pairs PROVE p \in Beyond(left, right, row + 1, column)
    <3>1. p[1] \in row + 1 .. Len(left) /\ p[2] \in column .. Len(right)
      BY <1>2, <1>3
    <3>2. p \in (row + 1 .. Len(left)) \X (column .. Len(right))
      BY <1>2, <3>1
    <3> QED
      BY <1>1, <3>2 DEF Beyond
  <2> QED
    BY <2>1
<1>4. CASE \E x \in pairs : x[1] = row
  <2>1. PICK x \in pairs : x[1] = row
    BY <1>4
  <2>2. x[2] > column /\ x[2] \in Int
    <3>1. left[row] = right[x[2]] /\ x[2] \in column .. Len(right)
      BY <1>1, <1>2, <2>1
    <3>2. x[2] # column
      BY <3>1
    <3> QED
      BY <3>1, <3>2
  <2>3. ASSUME NEW p \in pairs PROVE p \in Beyond(left, right, row, column + 1)
    <3>1. p[1] \in row .. Len(left) /\ p[2] \in column .. Len(right)
      BY <1>2
    <3>2. p = x \/ (p[1] < x[1] /\ p[2] < x[2]) \/ (x[1] < p[1] /\ x[2] < p[2])
      BY DEF InOrder
    <3>3. p[2] # column
      BY <2>1, <2>2, <3>1, <3>2
    <3>4. p[2] \in column + 1 .. Len(right)
      BY <3>1, <3>3
    <3>5. p \in (row .. Len(left)) \X (column + 1 .. Len(right))
      BY <1>2, <3>1, <3>4
    <3> QED
      BY <1>1, <3>5 DEF Beyond
  <2> QED
    BY <2>3
<1> QED
  BY <1>3, <1>4

\* No pairing in order is longer than the remainder the table holds.
LEMMA RemaindersBound ==
  ASSUME NEW left, NEW right, Len(left) \in Nat, Len(right) \in Nat, NEW t, Tabulates(t, left, right),
         NEW row \in 1 .. Len(left) + 1, NEW column \in 1 .. Len(right) + 1
  PROVE  /\ t[<<row, column>>] \in Nat
         /\ \A pairs \in SUBSET Beyond(left, right, row, column) :
              InOrder(pairs) => Cardinality(pairs) <= t[<<row, column>>]
<1> DEFINE rows == Len(left)
           columns == Len(right)
           Good(r, c) == /\ t[<<r, c>>] \in Nat
                         /\ \A pairs \in SUBSET Beyond(left, right, r, c) :
                              InOrder(pairs) => Cardinality(pairs) <= t[<<r, c>>]
           good == {at \in (1 .. rows + 1) \X (1 .. columns + 1) : Good(at[1], at[2])}
<1>1. \A r \in 1 .. rows + 1, c \in 1 .. columns + 1 : <<r, c>> \in good <=> Good(r, c)
  <2> HIDE DEF Good
  <2> QED
    OBVIOUS
<1>2. ASSUME NEW r \in 1 .. rows + 1, NEW c \in 1 .. columns + 1, r > rows \/ c > columns PROVE Good(r, c)
  <2>1. t[<<r, c>>] = 0
    BY <1>2 DEF Tabulates, RemainderAt
  <2>2. Beyond(left, right, r, c) = {}
    BY <1>2 DEF Beyond
  <2>3. Cardinality({}) = 0
    BY FS_EmptySet
  <2>4. ASSUME NEW pairs \in SUBSET Beyond(left, right, r, c) PROVE Cardinality(pairs) <= t[<<r, c>>]
    <3>1. pairs = {}
      BY <2>2
    <3> QED
      BY <2>1, <2>3, <3>1
  <2> QED
    BY <2>1, <2>4
<1>3. ASSUME NEW r \in 1 .. rows, NEW c \in 1 .. columns, Good(r + 1, c + 1), Good(r + 1, c), Good(r, c + 1)
      PROVE  Good(r, c)
  <2>1. t[<<r, c>>] = RemainderAt(t, left, right, r, c)
    BY DEF Tabulates
  <2>2. CASE left[r] = right[c]
    <3>1. t[<<r, c>>] = t[<<r + 1, c + 1>>] + 1
      BY <2>1, <2>2 DEF RemainderAt
    <3>2. ASSUME NEW pairs \in SUBSET Beyond(left, right, r, c), InOrder(pairs)
          PROVE  Cardinality(pairs) <= t[<<r, c>>]
      <4>1. PICK rest \in SUBSET Beyond(left, right, r + 1, c + 1) :
              InOrder(rest) /\ Cardinality(pairs) <= Cardinality(rest) + 1
        BY <3>2, PairingThroughMatch
      <4>2. Cardinality(rest) <= t[<<r + 1, c + 1>>] /\ t[<<r + 1, c + 1>>] \in Nat
        BY <1>3, <4>1
      <4>3. Cardinality(rest) \in Nat /\ Cardinality(pairs) \in Nat
        <5>1. r \in Int /\ c \in Int /\ r + 1 \in Int /\ c + 1 \in Int
          OBVIOUS
        <5>2. IsFiniteSet(rest) /\ IsFiniteSet(pairs)
          BY <5>1, BeyondIsFinite
        <5> QED
          BY <5>2, FS_CardinalityType
      <4> QED
        BY <3>1, <4>1, <4>2, <4>3
    <3>3. t[<<r, c>>] \in Nat
      <4>1. t[<<r + 1, c + 1>>] \in Nat
        BY <1>3
      <4> QED
        BY <3>1, <4>1
    <3> QED
      BY <3>2, <3>3
  <2>3. CASE left[r] # right[c]
    <3> DEFINE a == t[<<r + 1, c>>]
               b == t[<<r, c + 1>>]
    <3>1. a \in Nat /\ b \in Nat
      BY <1>3
    <3>2. t[<<r, c>>] = Max({a, b})
      BY <2>1, <2>3 DEF RemainderAt
    <3>3. t[<<r, c>>] = IF a >= b THEN a ELSE b
      <4> HIDE DEF a, b
      <4> QED
        BY <3>1, <3>2, LargerOfTwo
    <3>4. ASSUME NEW pairs \in SUBSET Beyond(left, right, r, c), InOrder(pairs)
          PROVE  Cardinality(pairs) <= t[<<r, c>>]
      <4>1. r \in Int /\ c \in Int /\ r \in Nat /\ c \in Nat
        OBVIOUS
      <4>2. Cardinality(pairs) \in Nat
        BY <4>1, BeyondIsFinite, FS_CardinalityType
      <4>3. Cardinality(pairs) <= a \/ Cardinality(pairs) <= b
        BY <1>3, <2>3, <3>4, <4>1, PairingPastDifference
      <4> HIDE DEF a, b
      <4> QED
        BY <3>1, <3>3, <4>2, <4>3
    <3> QED
      <4> HIDE DEF a, b
      <4> QED
        BY <3>1, <3>3, <3>4
  <2> QED
    BY <2>2, <2>3
<1>4. \A r \in 1 .. rows + 1, c \in 1 .. columns + 1 : <<r, c>> \in good
  <2>1. \A r \in 1 .. rows, c \in 1 .. columns : r + 1 \in 1 .. rows + 1 /\ c + 1 \in 1 .. columns + 1
                                                 /\ r \in 1 .. rows + 1 /\ c \in 1 .. columns + 1
    OBVIOUS
  <2>2. \A r \in 1 .. rows + 1, c \in 1 .. columns + 1 : r > rows \/ c > columns => <<r, c>> \in good
    <3> HIDE DEF Good, good
    <3> QED
      BY <1>1, <1>2
  <2>3. \A r \in 1 .. rows, c \in 1 .. columns :
            /\ <<r + 1, c + 1>> \in good /\ <<r + 1, c>> \in good /\ <<r, c + 1>> \in good
            => <<r, c>> \in good
    <3> HIDE DEF Good, good
    <3> QED
      BY <1>1, <1>3, <2>1
  <2> HIDE DEF good
  <2> QED
    BY <2>2, <2>3, CellInduction
<1> QED
  <2> HIDE DEF good
  <2> QED
    BY <1>1, <1>4

\* Pairs of equal operations from a cell on, each further on both sides than
\* the one before.
Ascends(s, left, right, row, column) ==
    /\ s \in Seq(Nat \X Nat)
    /\ \A m \in 1 .. Len(s) : s[m] \in Beyond(left, right, row, column)
    /\ \A m \in 1 .. Len(s) - 1 : s[m][1] < s[m + 1][1] /\ s[m][2] < s[m + 1][2]

LEMMA BeyondIsWithin ==
  ASSUME NEW left, NEW right, NEW row \in Nat, NEW column \in Nat, Len(left) \in Nat, Len(right) \in Nat,
         NEW r \in Nat, NEW c \in Nat, row <= r, column <= c
  PROVE  Beyond(left, right, r, c) \subseteq Beyond(left, right, row, column)
<1>1. r .. Len(left) \subseteq row .. Len(left) /\ c .. Len(right) \subseteq column .. Len(right)
  OBVIOUS
<1>2. (r .. Len(left)) \X (c .. Len(right)) \subseteq (row .. Len(left)) \X (column .. Len(right))
  BY <1>1
<1> QED
  BY <1>2 DEF Beyond

LEMMA AscentFromMatch ==
  ASSUME NEW left, NEW right, Len(left) \in Nat, Len(right) \in Nat,
         NEW row \in 1 .. Len(left), NEW column \in 1 .. Len(right), left[row] = right[column],
         NEW s, Ascends(s, left, right, row + 1, column + 1)
  PROVE  /\ Ascends(<<<<row, column>>>> \o s, left, right, row, column)
         /\ Len(<<<<row, column>>>> \o s) = Len(s) + 1
<1> DEFINE first == <<<<row, column>>>>
           u == first \o s
<1>1. first \in Seq(Nat \X Nat) /\ Len(first) = 1 /\ first[1] = <<row, column>>
  OBVIOUS
<1>2. s \in Seq(Nat \X Nat) /\ Len(s) \in Nat
  BY DEF Ascends
<1>3. /\ u \in Seq(Nat \X Nat) /\ Len(u) = Len(s) + 1
      /\ \A i \in 1 .. Len(s) + 1 : u[i] = IF i <= 1 THEN first[i] ELSE s[i - 1]
  <2> HIDE DEF first
  <2>1. /\ u \in Seq(Nat \X Nat) /\ Len(u) = Len(first) + Len(s)
        /\ \A i \in 1 .. Len(first) + Len(s) : u[i] = IF i <= Len(first) THEN first[i] ELSE s[i - Len(first)]
    BY <1>1, <1>2, ConcatProperties
  <2> QED
    BY <1>1, <1>2, <2>1
<1>4. u[1] = <<row, column>>
  BY <1>1, <1>2, <1>3
<1>5. <<row, column>> \in Beyond(left, right, row, column)
  <2>1. <<row, column>> \in (row .. Len(left)) \X (column .. Len(right))
    OBVIOUS
  <2> QED
    BY <2>1 DEF Beyond
<1>6. \A p \in Beyond(left, right, row + 1, column + 1) :
        p \in Beyond(left, right, row, column) /\ p[1] > row /\ p[2] > column
  <2>1. Beyond(left, right, row + 1, column + 1) \subseteq Beyond(left, right, row, column)
    <3>1. row \in Nat /\ column \in Nat /\ row + 1 \in Nat /\ column + 1 \in Nat /\ row <= row + 1 /\ column <= column + 1
      OBVIOUS
    <3> QED
      BY <3>1, BeyondIsWithin
  <2>2. \A p \in Beyond(left, right, row + 1, column + 1) : p[1] \in row + 1 .. Len(left) /\ p[2] \in column + 1 .. Len(right)
    BY DEF Beyond
  <2> QED
    BY <2>1, <2>2
<1> HIDE DEF u
<1>7. ASSUME NEW m \in 1 .. Len(s) PROVE u[m + 1] = s[m] /\ s[m] \in Beyond(left, right, row + 1, column + 1)
  <2> DEFINE k == m + 1
  <2>1. k \in 1 .. Len(s) + 1 /\ ~ (k <= 1) /\ k - 1 = m
    BY <1>2
  <2> HIDE DEF k, first
  <2>2. u[k] = s[k - 1]
    BY <1>3, <2>1
  <2> QED
    BY <2>1, <2>2 DEF k, Ascends
<1>8. \A m \in 1 .. Len(u) : u[m] \in Beyond(left, right, row, column)
  <2>1. ASSUME NEW m \in 1 .. Len(u) PROVE u[m] \in Beyond(left, right, row, column)
    <3>1. m = 1 \/ (m - 1 \in 1 .. Len(s) /\ m - 1 + 1 = m)
      BY <1>2, <1>3
    <3> QED
      BY <1>4, <1>5, <1>6, <1>7, <3>1
  <2> QED
    BY <2>1
<1>9. \A m \in 1 .. Len(u) - 1 : u[m][1] < u[m + 1][1] /\ u[m][2] < u[m + 1][2]
  <2>1. ASSUME NEW m \in 1 .. Len(u) - 1 PROVE u[m][1] < u[m + 1][1] /\ u[m][2] < u[m + 1][2]
    <3>1. m \in 1 .. Len(s)
      BY <1>2, <1>3
    <3>2. u[m + 1] = s[m]
      BY <1>7, <3>1
    <3>3. CASE m = 1
      BY <1>4, <1>6, <1>7, <3>1, <3>2, <3>3
    <3>4. CASE m # 1
      <4>1. m - 1 \in 1 .. Len(s) /\ m - 1 \in 1 .. Len(s) - 1 /\ m - 1 + 1 = m
        BY <1>2, <3>1, <3>4
      <4>2. u[m] = s[m - 1]
        BY <1>7, <4>1
      <4>3. s[m - 1][1] < s[m][1] /\ s[m - 1][2] < s[m][2]
        BY <4>1 DEF Ascends
      <4> QED
        BY <3>2, <4>2, <4>3
    <3> QED
      BY <3>3, <3>4
  <2> QED
    BY <2>1
<1>10. Ascends(u, left, right, row, column)
  BY <1>3, <1>8, <1>9 DEF Ascends
<1> QED
  BY <1>3, <1>10 DEF u

\* A walk pairs as many as the table promised.
LEMMA WalksAscend ==
  ASSUME NEW left, NEW right, Len(left) \in Nat, Len(right) \in Nat, NEW t, Tabulates(t, left, right),
         NEW w, Walks(w, t, left, right),
         NEW row \in 1 .. Len(left) + 1, NEW column \in 1 .. Len(right) + 1
  PROVE  Ascends(w[<<row, column>>], left, right, row, column) /\ Len(w[<<row, column>>]) = t[<<row, column>>]
<1> DEFINE rows == Len(left)
           columns == Len(right)
           Good(r, c) == Ascends(w[<<r, c>>], left, right, r, c) /\ Len(w[<<r, c>>]) = t[<<r, c>>]
           good == {at \in (1 .. rows + 1) \X (1 .. columns + 1) : Good(at[1], at[2])}
<1>1. \A r \in 1 .. rows + 1, c \in 1 .. columns + 1 : <<r, c>> \in good <=> Good(r, c)
  <2> HIDE DEF Good
  <2> QED
    OBVIOUS
<1>2. ASSUME NEW r \in 1 .. rows + 1, NEW c \in 1 .. columns + 1, r > rows \/ c > columns PROVE Good(r, c)
  <2>1. t[<<r, c>>] = 0
    BY <1>2 DEF Tabulates, RemainderAt
  <2>2. w[<<r, c>>] = <<>>
    BY <1>2 DEF Walks, WalkFrom
  <2>3. Ascends(<<>>, left, right, r, c) /\ Len(<<>>) = 0
    BY DEF Ascends
  <2> QED
    BY <2>1, <2>2, <2>3
<1>3. ASSUME NEW r \in 1 .. rows, NEW c \in 1 .. columns, Good(r + 1, c + 1), Good(r + 1, c), Good(r, c + 1)
      PROVE  Good(r, c)
  <2>1. t[<<r, c>>] = RemainderAt(t, left, right, r, c) /\ w[<<r, c>>] = WalkFrom(w, t, left, right, r, c)
    BY DEF Tabulates, Walks
  <2>2. CASE left[r] = right[c]
    <3>1. t[<<r, c>>] = t[<<r + 1, c + 1>>] + 1 /\ w[<<r, c>>] = <<<<r, c>>>> \o w[<<r + 1, c + 1>>]
      BY <2>1, <2>2 DEF RemainderAt, WalkFrom
    <3> DEFINE v == w[<<r + 1, c + 1>>]
    <3>2. Ascends(v, left, right, r + 1, c + 1)
      BY <1>3
    <3> HIDE DEF v
    <3>3. Ascends(<<<<r, c>>>> \o v, left, right, r, c) /\ Len(<<<<r, c>>>> \o v) = Len(v) + 1
      BY <2>2, <3>2, AscentFromMatch
    <3> QED
      BY <1>3, <3>1, <3>3 DEF v
  <2>3. CASE left[r] # right[c]
    <3> DEFINE a == t[<<r + 1, c>>]
               b == t[<<r, c + 1>>]
    <3>1. a \in Nat /\ b \in Nat
      <4>1. r + 1 \in 1 .. rows + 1 /\ c + 1 \in 1 .. columns + 1 /\ r \in 1 .. rows + 1 /\ c \in 1 .. columns + 1
        OBVIOUS
      <4> QED
        BY <4>1, RemaindersBound
    <3>2. t[<<r, c>>] = Max({a, b})
      BY <2>1, <2>3 DEF RemainderAt
    <3>3. t[<<r, c>>] = IF a >= b THEN a ELSE b
      <4> HIDE DEF a, b
      <4> QED
        BY <3>1, <3>2, LargerOfTwo
    <3>4. w[<<r, c>>] = IF a >= b THEN w[<<r + 1, c>>] ELSE w[<<r, c + 1>>]
      BY <2>1, <2>3 DEF WalkFrom, SkipsLeft
    <3>5. /\ Beyond(left, right, r + 1, c) \subseteq Beyond(left, right, r, c)
          /\ Beyond(left, right, r, c + 1) \subseteq Beyond(left, right, r, c)
      <4>1. r \in Nat /\ c \in Nat /\ r + 1 \in Nat /\ c + 1 \in Nat /\ r <= r + 1 /\ c <= c + 1 /\ r <= r /\ c <= c
        OBVIOUS
      <4> QED
        BY <4>1, BeyondIsWithin
    <3>6. \A v : Ascends(v, left, right, r + 1, c) \/ Ascends(v, left, right, r, c + 1) => Ascends(v, left, right, r, c)
      BY <3>5 DEF Ascends
    <3>7. CASE a >= b
      <4>1. w[<<r, c>>] = w[<<r + 1, c>>] /\ t[<<r, c>>] = t[<<r + 1, c>>]
        BY <3>3, <3>4, <3>7
      <4> QED
        BY <1>3, <3>6, <4>1
    <3>8. CASE ~ (a >= b)
      <4>1. w[<<r, c>>] = w[<<r, c + 1>>] /\ t[<<r, c>>] = t[<<r, c + 1>>]
        BY <3>3, <3>4, <3>8
      <4> QED
        BY <1>3, <3>6, <4>1
    <3> QED
      BY <3>7, <3>8
  <2> QED
    BY <2>2, <2>3
<1>4. \A r \in 1 .. rows + 1, c \in 1 .. columns + 1 : <<r, c>> \in good
  <2>1. \A r \in 1 .. rows, c \in 1 .. columns : r + 1 \in 1 .. rows + 1 /\ c + 1 \in 1 .. columns + 1
                                                 /\ r \in 1 .. rows + 1 /\ c \in 1 .. columns + 1
    OBVIOUS
  <2>2. \A r \in 1 .. rows + 1, c \in 1 .. columns + 1 : r > rows \/ c > columns => <<r, c>> \in good
    <3> HIDE DEF Good, good
    <3> QED
      BY <1>1, <1>2
  <2>3. \A r \in 1 .. rows, c \in 1 .. columns :
            /\ <<r + 1, c + 1>> \in good /\ <<r + 1, c>> \in good /\ <<r, c + 1>> \in good
            => <<r, c>> \in good
    <3> HIDE DEF Good, good
    <3> QED
      BY <1>1, <1>3, <2>1
  <2> HIDE DEF good
  <2> QED
    BY <2>2, <2>3, CellInduction
<1> QED
  <2> HIDE DEF good
  <2> QED
    BY <1>1, <1>4

\* The alignment pairs equal operations in order, and as many as can be.
LEMMA AlignmentIsLongest ==
  ASSUME NEW left, NEW right, Len(left) \in Nat, Len(right) \in Nat
  PROVE  /\ Ascends(CommonSubsequence(left, right), left, right, 1, 1)
         /\ \A pairs \in SUBSET Beyond(left, right, 1, 1) :
              InOrder(pairs) => Cardinality(pairs) <= Len(CommonSubsequence(left, right))
<1>1. PICK t, w : /\ Tabulates(t, left, right) /\ Walks(w, t, left, right)
                  /\ CommonSubsequence(left, right) = w[<<1, 1>>]
  BY AlignmentWalks
<1>2. 1 \in 1 .. Len(left) + 1 /\ 1 \in 1 .. Len(right) + 1
  OBVIOUS
<1> QED
  BY <1>1, <1>2, WalksAscend, RemaindersBound

-----------------------------------------------------------------------------
(* The entries of a diff, read back.                                       *)

\* Each value comes from its number and the one before, by g.
FromPrevious(f, g, n, base) == f[0] = base /\ \A i \in 1 .. n : f[i] = g[<<i, f[i - 1]>>]

\* There are such values.
LEMMA PrefixesExist ==
  ASSUME NEW V, NEW n \in Nat, NEW base \in V, NEW g \in [(1 .. n) \X V -> V]
  PROVE  \E f \in [0 .. n -> V] : FromPrevious(f, g, n, base)
<1> DEFINE Filled(f, k) == f[0] = base /\ \A i \in 1 .. k : f[i] = g[<<i, f[i - 1]>>]
           Missing == {k \in 0 .. n : ~ \E f \in [0 .. n -> V] : Filled(f, k)}
<1>1. \E f \in [0 .. n -> V] : Filled(f, 0)
  <2>1. [i \in 0 .. n |-> base] \in [0 .. n -> V] /\ Filled([i \in 0 .. n |-> base], 0)
    OBVIOUS
  <2> QED
    BY <2>1
<1>2. ASSUME NEW k \in 0 .. n, k + 1 \in 0 .. n, NEW f \in [0 .. n -> V], Filled(f, k)
      PROVE  \E h \in [0 .. n -> V] : Filled(h, k + 1)
  <2> DEFINE value == g[<<k + 1, f[k]>>]
             h == [i \in 0 .. n |-> IF i = k + 1 THEN value ELSE f[i]]
  <2>1. value \in V
    <3>1. k + 1 \in 1 .. n /\ f[k] \in V
      BY <1>2
    <3> QED
      BY <3>1
  <2>2. h[k + 1] = value /\ \A i \in 0 .. k : h[i] = f[i]
    <3>1. \A i \in 0 .. k : i \in 0 .. n /\ i # k + 1
      OBVIOUS
    <3> HIDE DEF value
    <3> QED
      BY <1>2, <3>1
  <2>3. h \in [0 .. n -> V]
    <3> HIDE DEF value
    <3> QED
      BY <2>1
  <2> HIDE DEF h
  <2>4. h[0] = base
    BY <1>2, <2>2
  <2>5. ASSUME NEW i \in 1 .. k + 1 PROVE h[i] = g[<<i, h[i - 1]>>]
    <3>1. i - 1 \in 0 .. k
      OBVIOUS
    <3>2. h[i - 1] = f[i - 1]
      BY <2>2, <3>1
    <3>3. CASE i = k + 1
      <4>1. i - 1 = k
        BY <3>3
      <4> QED
        BY <2>2, <3>2, <3>3, <4>1
    <3>4. CASE i # k + 1
      <4>1. i \in 1 .. k /\ i \in 0 .. k
        BY <3>4
      <4> QED
        BY <1>2, <2>2, <3>2, <4>1
    <3> QED
      BY <3>3, <3>4
  <2> QED
    BY <2>3, <2>4, <2>5
<1>3. Missing = {}
  <2> SUFFICES ASSUME Missing # {} PROVE FALSE
    OBVIOUS
  <2>1. PICK k \in Missing : \A m \in Missing : k <= m
    <3>1. Missing \subseteq Nat
      OBVIOUS
    <3> HIDE DEF Missing
    <3> QED
      BY <3>1, LeastNumber
  <2>2. k \in 0 .. n /\ ~ \E f \in [0 .. n -> V] : Filled(f, k)
    <3> HIDE DEF Filled
    <3> QED
      OBVIOUS
  <2> HIDE DEF Filled
  <2>3. k # 0
    BY <1>1, <2>2
  <2>4. k - 1 \in 0 .. n /\ k - 1 + 1 = k /\ ~ (k <= k - 1)
    BY <2>2, <2>3
  <2>5. k - 1 \notin Missing
    <3> HIDE DEF Missing
    <3> QED
      BY <2>1, <2>4
  <2>6. PICK f \in [0 .. n -> V] : Filled(f, k - 1)
    BY <2>4, <2>5
  <2>7. \E h \in [0 .. n -> V] : Filled(h, k - 1 + 1)
    BY <1>2, <2>2, <2>4, <2>6
  <2> QED
    BY <2>2, <2>4, <2>7
<1>4. n \in 0 .. n
  OBVIOUS
<1>5. PICK f \in [0 .. n -> V] : Filled(f, n)
  <2> HIDE DEF Filled
  <2> QED
    BY <1>3, <1>4
<1> QED
  BY <1>5 DEF FromPrevious

Kinds == {"removed", "added", "unchanged"}

EntriesOf(S) == Seq([kind : Kinds, op : S])

\* What is kept of the first i entries.
Keeps(f, entries, kind) ==
    /\ f[0] = <<>>
    /\ \A i \in 1 .. Len(entries) :
        f[i] = IF entries[i].kind \in {kind, "unchanged"} THEN Append(f[i - 1], entries[i].op) ELSE f[i - 1]

LEMMA OperationsKept ==
  ASSUME NEW S, NEW entries \in EntriesOf(S), NEW kind
  PROVE  \E f \in [0 .. Len(entries) -> Seq(S)] :
            Keeps(f, entries, kind) /\ OperationsOf(entries, kind) = f[Len(entries)]
<1> DEFINE N == Len(entries)
           V == Seq(S)
           G(i, v) == IF entries[i].kind \in {kind, "unchanged"} THEN Append(v, entries[i].op) ELSE v
           g == [x \in (1 .. N) \X V |-> G(x[1], x[2])]
           Solves(f) == f = [i \in 0 .. N |-> IF i = 0 THEN <<>>
                                              ELSE IF entries[i].kind \in {kind, "unchanged"}
                                                   THEN Append(f[i - 1], entries[i].op) ELSE f[i - 1]]
           kept == CHOOSE f : Solves(f)
<1>1. N \in Nat /\ \A i \in 1 .. N : entries[i].op \in S
  <2>1. N \in Nat /\ \A i \in 1 .. N : entries[i] \in [kind : Kinds, op : S]
    BY ElementOfSeq, LenProperties DEF EntriesOf
  <2> QED
    BY <2>1
<1>2. \A i \in 1 .. N, v \in V : G(i, v) \in V
  <2>1. \A e \in S, v \in V : Append(v, e) \in V
    BY AppendProperties
  <2> HIDE DEF V
  <2> QED
    BY <1>1, <2>1
<1> HIDE DEF G
<1>3. g \in [(1 .. N) \X V -> V]
  <2>1. \A x \in (1 .. N) \X V : x[1] \in 1 .. N /\ x[2] \in V
    OBVIOUS
  <2> HIDE DEF V
  <2> QED
    BY <1>2, <2>1
<1>4. \A i \in 1 .. N, v \in V : g[<<i, v>>] = G(i, v)
  <2>1. \A i \in 1 .. N, v \in V : <<i, v>> \in (1 .. N) \X V /\ <<i, v>>[1] = i /\ <<i, v>>[2] = v
    OBVIOUS
  <2> HIDE DEF V
  <2> QED
    BY <2>1
<1> DEFINE base == <<>>
<1>5. base \in V
  OBVIOUS
<1> HIDE DEF g, V
<1>6. PICK f \in [0 .. N -> V] : f[0] = <<>> /\ \A i \in 1 .. N : f[i] = g[<<i, f[i - 1]>>]
  <2> HIDE DEF N, base
  <2>1. PICK f \in [0 .. N -> V] : FromPrevious(f, g, N, base)
    BY <1>1, <1>3, <1>5, PrefixesExist
  <2> QED
    BY <2>1 DEF FromPrevious, base
<1>7. ASSUME NEW i \in 1 .. N PROVE f[i] = G(i, f[i - 1])
  <2>1. i - 1 \in 0 .. N
    BY <1>1
  <2> QED
    BY <1>4, <1>6, <2>1
<1>8. Solves(f)
  <2>1. f = [i \in 0 .. N |-> f[i]]
    OBVIOUS
  <2>2. \A i \in 0 .. N : i = 0 \/ i \in 1 .. N
    BY <1>1
  <2> HIDE DEF N
  <2>3. \A i \in 0 .. N : f[i] = IF i = 0 THEN <<>> ELSE G(i, f[i - 1])
    BY <1>6, <1>7, <2>2
  <2> QED
    BY <2>1, <2>3 DEF G
<1>9. Solves(kept)
  <2> HIDE DEF Solves
  <2> QED
    BY <1>8
<1>10. OperationsOf(entries, kind) = kept[N]
  BY DEF OperationsOf
<1> HIDE DEF kept
<1>11. Keeps(kept, entries, kind)
  <2>1. 0 \in 0 .. N /\ \A i \in 1 .. N : i \in 0 .. N /\ i # 0
    BY <1>1
  <2> QED
    BY <1>9, <2>1 DEF Keeps
<1>12. kept = f
  <2> DEFINE Wrong == {i \in 0 .. N : kept[i] # f[i]}
  <2>1. Wrong = {}
    <3> SUFFICES ASSUME Wrong # {} PROVE FALSE
      OBVIOUS
    <3>1. PICK k \in Wrong : \A m \in Wrong : k <= m
      <4>1. Wrong \subseteq Nat
        OBVIOUS
      <4> HIDE DEF Wrong
      <4> QED
        BY <4>1, LeastNumber
    <3>2. k # 0
      BY <1>6, <1>11 DEF Keeps
    <3>3. k \in 1 .. N /\ k - 1 \in 0 .. N /\ ~ (k <= k - 1)
      BY <1>1, <3>2
    <3>4. kept[k - 1] = f[k - 1]
      BY <3>1, <3>3
    <3>5. kept[k] = f[k]
      BY <1>7, <1>11, <3>3, <3>4 DEF Keeps, G
    <3> QED
      BY <3>5
  <2>2. kept = [i \in 0 .. N |-> kept[i]]
    BY <1>9
  <2> QED
    BY <2>1, <2>2
<1> QED
  BY <1>6, <1>10, <1>11, <1>12 DEF V

\* An entry more is kept or not, and what is kept before it does not change.
LEMMA OneEntryMore ==
  ASSUME NEW S, NEW entries \in EntriesOf(S), NEW e \in [kind : Kinds, op : S], NEW kind
  PROVE  /\ Append(entries, e) \in EntriesOf(S) /\ OperationsOf(entries, kind) \in Seq(S)
         /\ OperationsOf(Append(entries, e), kind) =
              IF e.kind \in {kind, "unchanged"} THEN Append(OperationsOf(entries, kind), e.op)
              ELSE OperationsOf(entries, kind)
<1> DEFINE N == Len(entries)
           more == Append(entries, e)
<1>1. /\ more \in EntriesOf(S) /\ Len(more) = N + 1 /\ N \in Nat
      /\ \A i \in 1 .. N : more[i] = entries[i]
      /\ more[N + 1] = e
  BY DEF EntriesOf
<1> HIDE DEF more
<1>2. PICK f \in [0 .. N -> Seq(S)] : Keeps(f, entries, kind) /\ OperationsOf(entries, kind) = f[N]
  BY OperationsKept
<1>3. PICK h \in [0 .. N + 1 -> Seq(S)] : Keeps(h, more, kind) /\ OperationsOf(more, kind) = h[N + 1]
  <2>1. \E h \in [0 .. Len(more) -> Seq(S)] : Keeps(h, more, kind) /\ OperationsOf(more, kind) = h[Len(more)]
    BY <1>1, OperationsKept
  <2> QED
    BY <1>1, <2>1
<1> DEFINE Wrong == {i \in 0 .. N : h[i] # f[i]}
<1>4. Wrong = {}
  <2> SUFFICES ASSUME Wrong # {} PROVE FALSE
    OBVIOUS
  <2>1. PICK k \in Wrong : \A m \in Wrong : k <= m
    <3>1. Wrong \subseteq Nat
      OBVIOUS
    <3> HIDE DEF Wrong
    <3> QED
      BY <3>1, LeastNumber
  <2>2. k # 0
    BY <1>2, <1>3 DEF Keeps
  <2>3. k \in 1 .. N /\ k \in 1 .. N + 1 /\ k - 1 \in 0 .. N /\ ~ (k <= k - 1)
    BY <1>1, <2>2
  <2>4. h[k - 1] = f[k - 1]
    BY <2>1, <2>3
  <2>5. h[k] = f[k]
    BY <1>1, <1>2, <1>3, <2>3, <2>4 DEF Keeps
  <2> QED
    BY <2>5
<1>5. h[N] = f[N] /\ f[N] \in Seq(S)
  BY <1>1, <1>4
<1>6. h[N + 1] = IF e.kind \in {kind, "unchanged"} THEN Append(h[N], e.op) ELSE h[N]
  <2>1. N + 1 \in 1 .. Len(more) /\ N + 1 - 1 = N
    BY <1>1
  <2> QED
    BY <1>1, <1>3, <2>1 DEF Keeps
<1> QED
  BY <1>1, <1>2, <1>3, <1>5, <1>6 DEF more

\* What has been read back: l operations of left, r of right, u of them both.
ReadBack(entries, S, left, right, l, r, u) ==
    /\ entries \in EntriesOf(S)
    /\ OperationsOf(entries, "removed") = SubSeq(left, 1, l)
    /\ OperationsOf(entries, "added") = SubSeq(right, 1, r)
    /\ Len(OperationsOf(entries, "unchanged")) = u

LEMMA BeginningGrows ==
  ASSUME NEW S, NEW s \in Seq(S), NEW l \in Nat, l + 1 <= Len(s)
  PROVE  Append(SubSeq(s, 1, l), s[l + 1]) = SubSeq(s, 1, l + 1) /\ s[l + 1] \in S
<1>1. Len(s) \in Nat /\ l + 1 \in 1 .. Len(s) /\ 1 \in 1 .. Len(s) /\ l + 1 \in 1 .. Len(s)
  OBVIOUS
<1>2. s[l + 1] \in S
  BY <1>1, ElementOfSeq
<1>3. SubSeq(s, 1, l + 1) = SubSeq(s, 1, l + 1 - 1) \o <<s[l + 1]>>
  BY <1>1, SubSeqRecursiveSecond
<1>4. SubSeq(s, 1, l) \in Seq(S)
  <2>1. \A i \in 1 .. l : s[i] \in S
    BY <1>1, ElementOfSeq
  <2> QED
    BY <2>1, SubSeqProperties
<1>5. Append(SubSeq(s, 1, l), s[l + 1]) = SubSeq(s, 1, l) \o <<s[l + 1]>>
  BY <1>2, <1>4, AppendIsConcat
<1>6. l + 1 - 1 = l
  OBVIOUS
<1> QED
  BY <1>2, <1>3, <1>5, <1>6

\* An entry is one operation more of the side, or sides, it is of.
LEMMA EntryIsRead ==
  ASSUME NEW S, NEW left \in Seq(S), NEW right \in Seq(S), NEW entries, NEW l \in Nat, NEW r \in Nat, NEW u \in Nat,
         ReadBack(entries, S, left, right, l, r, u)
  PROVE  /\ l + 1 <= Len(left) =>
              ReadBack(Append(entries, [kind |-> "removed", op |-> left[l + 1]]), S, left, right, l + 1, r, u)
         /\ r + 1 <= Len(right) =>
              ReadBack(Append(entries, [kind |-> "added", op |-> right[r + 1]]), S, left, right, l, r + 1, u)
         /\ l + 1 <= Len(left) /\ r + 1 <= Len(right) /\ left[l + 1] = right[r + 1] =>
              ReadBack(Append(entries, [kind |-> "unchanged", op |-> left[l + 1]]), S, left, right, l + 1, r + 1, u + 1)
<1>1. entries \in EntriesOf(S)
  BY DEF ReadBack
<1>2. l + 1 <= Len(left) => Append(SubSeq(left, 1, l), left[l + 1]) = SubSeq(left, 1, l + 1) /\ left[l + 1] \in S
  BY BeginningGrows
<1>3. r + 1 <= Len(right) => Append(SubSeq(right, 1, r), right[r + 1]) = SubSeq(right, 1, r + 1) /\ right[r + 1] \in S
  BY BeginningGrows
<1>4. ASSUME NEW op \in S, NEW k \in Kinds, NEW kind
      PROVE  /\ Append(entries, [kind |-> k, op |-> op]) \in EntriesOf(S)
             /\ OperationsOf(entries, kind) \in Seq(S)
             /\ OperationsOf(Append(entries, [kind |-> k, op |-> op]), kind) =
                  IF k \in {kind, "unchanged"} THEN Append(OperationsOf(entries, kind), op)
                  ELSE OperationsOf(entries, kind)
  <2> DEFINE e == [kind |-> k, op |-> op]
  <2>1. e \in [kind : Kinds, op : S] /\ e.kind = k /\ e.op = op
    OBVIOUS
  <2> HIDE DEF e
  <2>2. /\ Append(entries, e) \in EntriesOf(S) /\ OperationsOf(entries, kind) \in Seq(S)
        /\ OperationsOf(Append(entries, e), kind) =
              IF e.kind \in {kind, "unchanged"} THEN Append(OperationsOf(entries, kind), e.op)
              ELSE OperationsOf(entries, kind)
    BY <1>1, <2>1, OneEntryMore
  <2> QED
    BY <2>1, <2>2 DEF e
<1>5. "removed" \in Kinds /\ "added" \in Kinds /\ "unchanged" \in Kinds
  BY DEF Kinds
<1>6. ASSUME l + 1 <= Len(left)
      PROVE  ReadBack(Append(entries, [kind |-> "removed", op |-> left[l + 1]]), S, left, right, l + 1, r, u)
  <2> DEFINE op == left[l + 1]
             more == Append(entries, [kind |-> "removed", op |-> op])
  <2>1. op \in S
    BY <1>2, <1>6
  <2> HIDE DEF op
  <2>2. /\ more \in EntriesOf(S)
        /\ OperationsOf(more, "removed") = Append(OperationsOf(entries, "removed"), op)
        /\ OperationsOf(more, "added") = OperationsOf(entries, "added")
        /\ OperationsOf(more, "unchanged") = OperationsOf(entries, "unchanged")
    BY <1>4, <1>5, <2>1
  <2> HIDE DEF more
  <2>3. ReadBack(more, S, left, right, l + 1, r, u)
    BY <1>2, <1>6, <2>2 DEF ReadBack, op
  <2> QED
    BY <2>3 DEF more, op
<1>7. ASSUME r + 1 <= Len(right)
      PROVE  ReadBack(Append(entries, [kind |-> "added", op |-> right[r + 1]]), S, left, right, l, r + 1, u)
  <2> DEFINE op == right[r + 1]
             more == Append(entries, [kind |-> "added", op |-> op])
  <2>1. op \in S
    BY <1>3, <1>7
  <2> HIDE DEF op
  <2>2. /\ more \in EntriesOf(S)
        /\ OperationsOf(more, "removed") = OperationsOf(entries, "removed")
        /\ OperationsOf(more, "added") = Append(OperationsOf(entries, "added"), op)
        /\ OperationsOf(more, "unchanged") = OperationsOf(entries, "unchanged")
    BY <1>4, <1>5, <2>1
  <2> HIDE DEF more
  <2>3. ReadBack(more, S, left, right, l, r + 1, u)
    BY <1>3, <1>7, <2>2 DEF ReadBack, op
  <2> QED
    BY <2>3 DEF more, op
<1>8. ASSUME l + 1 <= Len(left), r + 1 <= Len(right), left[l + 1] = right[r + 1]
      PROVE  ReadBack(Append(entries, [kind |-> "unchanged", op |-> left[l + 1]]), S, left, right, l + 1, r + 1, u + 1)
  <2> DEFINE op == left[l + 1]
             more == Append(entries, [kind |-> "unchanged", op |-> op])
  <2>1. op \in S /\ op = right[r + 1]
    BY <1>2, <1>8
  <2> HIDE DEF op
  <2>2. /\ more \in EntriesOf(S)
        /\ OperationsOf(more, "removed") = Append(OperationsOf(entries, "removed"), op)
        /\ OperationsOf(more, "added") = Append(OperationsOf(entries, "added"), op)
        /\ OperationsOf(more, "unchanged") = Append(OperationsOf(entries, "unchanged"), op)
        /\ OperationsOf(entries, "unchanged") \in Seq(S)
    BY <1>4, <1>5, <2>1
  <2> HIDE DEF more
  <2>3. Len(OperationsOf(more, "unchanged")) = u + 1
    BY <2>1, <2>2, AppendProperties DEF ReadBack
  <2>4. OperationsOf(more, "removed") = SubSeq(left, 1, l + 1)
    BY <1>2, <1>8, <2>2 DEF ReadBack, op
  <2>5. OperationsOf(more, "added") = SubSeq(right, 1, r + 1)
    BY <1>3, <1>8, <2>1, <2>2 DEF ReadBack
  <2>6. ReadBack(more, S, left, right, l + 1, r + 1, u + 1)
    BY <2>2, <2>3, <2>4, <2>5 DEF ReadBack
  <2> QED
    BY <2>6 DEF more, op
<1> QED
  BY <1>6, <1>7, <1>8

\* n entries of a kind, of the operations of s after the first ones.
Run(kind, s, from, n) == [i \in 1 .. n |-> [kind |-> kind, op |-> s[from + i]]]

\* A run is made of entries, one after the other.
Grows(entries, S, kind, s, from, n) ==
    /\ Run(kind, s, from, n) \in EntriesOf(S)
    /\ entries \o Run(kind, s, from, 0) = entries
    /\ n > 0 => entries \o Run(kind, s, from, n) =
                  Append(entries \o Run(kind, s, from, n - 1), [kind |-> kind, op |-> s[from + n]])

LEMMA RunGrows ==
  ASSUME NEW S, NEW kind \in Kinds, NEW s \in Seq(S), NEW from \in Nat, NEW n \in Nat, from + n <= Len(s),
         NEW entries \in EntriesOf(S)
  PROVE  Grows(entries, S, kind, s, from, n)
<1> DEFINE E == [kind : Kinds, op : S]
           At(i) == [kind |-> kind, op |-> s[from + i]]
<1>1. \A i \in 1 .. n : At(i) \in E
  <2>1. \A i \in 1 .. n : s[from + i] \in S
    <3>1. \A i \in 1 .. n : from + i \in 1 .. Len(s)
      OBVIOUS
    <3> QED
      BY <3>1, ElementOfSeq
  <2> QED
    BY <2>1
<1>2. ASSUME NEW m \in 0 .. n
      PROVE  /\ Run(kind, s, from, m) \in Seq(E) /\ Len(Run(kind, s, from, m)) = m
             /\ \A i \in 1 .. m : Run(kind, s, from, m)[i] = At(i)
  <2>1. Run(kind, s, from, m) = [i \in 1 .. m |-> At(i)]
    BY DEF Run
  <2>2. m \in Nat /\ \A i \in 1 .. m : At(i) \in E
    BY <1>1
  <2> HIDE DEF At, E
  <2>3. [i \in 1 .. m |-> At(i)] \in Seq(E)
    BY <2>2
  <2> QED
    BY <2>1, <2>2, <2>3
<1>3. 0 \in 0 .. n /\ n \in 0 .. n /\ (n > 0 => n - 1 \in 0 .. n)
  OBVIOUS
<1>4. entries \in Seq(E)
  BY DEF EntriesOf
<1> HIDE DEF E
<1>5. Run(kind, s, from, n) \in Seq(E) /\ entries \o Run(kind, s, from, n) \in Seq(E)
  BY <1>2, <1>3, <1>4, ConcatProperties
<1>6. entries \o Run(kind, s, from, 0) = entries
  <2>1. Run(kind, s, from, 0) = <<>>
    BY <1>2, <1>3, EmptySeq
  <2> QED
    BY <1>4, <2>1, ConcatEmptySeq
<1>7. ASSUME n > 0
      PROVE  entries \o Run(kind, s, from, n) = Append(entries \o Run(kind, s, from, n - 1), At(n))
  <2> DEFINE a == Run(kind, s, from, n)
             b == Run(kind, s, from, n - 1)
             x == entries \o a
             y == Append(entries \o b, At(n))
             N == Len(entries)
  <2>1. /\ a \in Seq(E) /\ Len(a) = n /\ \A i \in 1 .. n : a[i] = At(i)
        /\ b \in Seq(E) /\ Len(b) = n - 1 /\ \A i \in 1 .. n - 1 : b[i] = At(i)
        /\ At(n) \in E /\ N \in Nat
    <3>1. n \in 1 .. n /\ n - 1 \in 0 .. n
      BY <1>7
    <3> QED
      BY <1>1, <1>2, <1>3, <1>4, <3>1, LenProperties
  <2> HIDE DEF a, b, At
  <2>2. /\ x \in Seq(E) /\ Len(x) = N + n
        /\ \A i \in 1 .. N + n : x[i] = IF i <= N THEN entries[i] ELSE a[i - N]
    <3>1. /\ x \in Seq(E) /\ Len(x) = N + Len(a)
          /\ \A i \in 1 .. N + Len(a) : x[i] = IF i <= N THEN entries[i] ELSE a[i - N]
      <4>1. a \in Seq(E)
        BY <2>1
      <4> QED
        BY <1>4, <4>1, ConcatProperties
    <3> QED
      BY <2>1, <3>1
  <2>3. /\ entries \o b \in Seq(E) /\ Len(entries \o b) = N + (n - 1)
        /\ \A i \in 1 .. N + (n - 1) : (entries \o b)[i] = IF i <= N THEN entries[i] ELSE b[i - N]
    <3>1. /\ entries \o b \in Seq(E) /\ Len(entries \o b) = N + Len(b)
          /\ \A i \in 1 .. N + Len(b) : (entries \o b)[i] = IF i <= N THEN entries[i] ELSE b[i - N]
      <4>1. b \in Seq(E)
        BY <2>1
      <4> QED
        BY <1>4, <4>1, ConcatProperties
    <3> QED
      BY <2>1, <3>1
  <2> DEFINE c == entries \o b
  <2> HIDE DEF c, x
  <2>4. /\ Append(c, At(n)) \in Seq(E) /\ Len(Append(c, At(n))) = Len(c) + 1
        /\ \A i \in 1 .. Len(c) : Append(c, At(n))[i] = c[i]
        /\ Append(c, At(n))[Len(c) + 1] = At(n)
    BY <2>1, <2>3, AppendProperties DEF c
  <2>5. Len(c) = N + (n - 1) /\ Len(c) + 1 = N + n /\ N + (n - 1) \in Nat
    BY <1>7, <2>1, <2>3 DEF c
  <2> DEFINE z == Append(c, At(n))
  <2> HIDE DEF z
  <2>6. ASSUME NEW i \in 1 .. Len(x) PROVE x[i] = z[i]
    <3>1. CASE i = N + n
      <4>1. ~ (i <= N) /\ i - N = n /\ n \in 1 .. n /\ i \in 1 .. N + n
        BY <1>7, <2>1, <3>1
      <4>2. x[i] = At(n)
        BY <2>1, <2>2, <4>1
      <4> QED
        BY <2>4, <2>5, <3>1, <4>2 DEF z
    <3>2. CASE i # N + n
      <4>1. i \in 1 .. N + n /\ i \in 1 .. N + (n - 1) /\ (~ (i <= N) => i - N \in 1 .. n /\ i - N \in 1 .. n - 1)
        BY <2>1, <2>2, <3>2
      <4>2. z[i] = c[i]
        BY <2>4, <2>5, <4>1 DEF z
      <4>3. c[i] = IF i <= N THEN entries[i] ELSE b[i - N]
        BY <2>3, <4>1 DEF c
      <4>4. x[i] = IF i <= N THEN entries[i] ELSE a[i - N]
        BY <2>2, <4>1
      <4> QED
        BY <2>1, <4>1, <4>2, <4>3, <4>4
    <3> QED
      BY <3>1, <3>2
  <2>7. x = z
    BY <2>2, <2>4, <2>5, <2>6, SeqEqual DEF z
  <2> QED
    BY <2>7 DEF x, z, c, a, b
<1> QED
  BY <1>5, <1>6, <1>7 DEF E, EntriesOf, Grows

\* A run of removals is so many operations more of left, one of additions of right.
LEMMA RunIsRead ==
  ASSUME NEW S, NEW left \in Seq(S), NEW right \in Seq(S), NEW entries, NEW l \in Nat, NEW r \in Nat, NEW u \in Nat,
         ReadBack(entries, S, left, right, l, r, u)
  PROVE  /\ \A n \in Nat : l + n <= Len(left) =>
              ReadBack(entries \o Run("removed", left, l, n), S, left, right, l + n, r, u)
         /\ \A n \in Nat : r + n <= Len(right) =>
              ReadBack(entries \o Run("added", right, r, n), S, left, right, l, r + n, u)
<1> DEFINE Removed(n) == ReadBack(entries \o Run("removed", left, l, n), S, left, right, l + n, r, u)
           Added(n) == ReadBack(entries \o Run("added", right, r, n), S, left, right, l, r + n, u)
<1>1. entries \in EntriesOf(S) /\ "removed" \in Kinds /\ "added" \in Kinds /\ Len(left) \in Nat /\ Len(right) \in Nat
  BY DEF ReadBack, Kinds
<1>2. ASSUME NEW n \in Nat, l + n <= Len(left), n = 0 \/ (n - 1 \in Nat /\ Removed(n - 1)) PROVE Removed(n)
  <2>1. /\ entries \o Run("removed", left, l, 0) = entries
        /\ n > 0 => entries \o Run("removed", left, l, n) =
                      Append(entries \o Run("removed", left, l, n - 1), [kind |-> "removed", op |-> left[l + n]])
    <3>1. "removed" \in Kinds /\ entries \in EntriesOf(S) /\ l + n <= Len(left)
      BY <1>1, <1>2
    <3>2. Grows(entries, S, "removed", left, l, n)
      BY <3>1, RunGrows
    <3> QED
      BY <3>2 DEF Grows
  <2>2. CASE n = 0
    <3>1. l + n = l
      BY <2>2
    <3> QED
      BY <2>1, <2>2, <3>1
  <2>3. CASE n # 0
    <3> DEFINE before == entries \o Run("removed", left, l, n - 1)
               k == l + (n - 1)
    <3>1. n > 0 /\ k \in Nat /\ k + 1 = l + n /\ k + 1 <= Len(left)
      BY <1>2, <2>3
    <3>2. ReadBack(before, S, left, right, k, r, u)
      BY <1>2, <2>3
    <3> HIDE DEF before, k
    <3>3. ReadBack(Append(before, [kind |-> "removed", op |-> left[k + 1]]), S, left, right, k + 1, r, u)
      BY <3>1, <3>2, EntryIsRead
    <3> QED
      BY <2>1, <3>1, <3>3 DEF before
  <2> QED
    BY <2>2, <2>3
<1>3. ASSUME NEW n \in Nat, r + n <= Len(right), n = 0 \/ (n - 1 \in Nat /\ Added(n - 1)) PROVE Added(n)
  <2>1. /\ entries \o Run("added", right, r, 0) = entries
        /\ n > 0 => entries \o Run("added", right, r, n) =
                      Append(entries \o Run("added", right, r, n - 1), [kind |-> "added", op |-> right[r + n]])
    <3>1. "added" \in Kinds /\ entries \in EntriesOf(S) /\ r + n <= Len(right)
      BY <1>1, <1>3
    <3>2. Grows(entries, S, "added", right, r, n)
      BY <3>1, RunGrows
    <3> QED
      BY <3>2 DEF Grows
  <2>2. CASE n = 0
    <3>1. r + n = r
      BY <2>2
    <3> QED
      BY <2>1, <2>2, <3>1
  <2>3. CASE n # 0
    <3> DEFINE before == entries \o Run("added", right, r, n - 1)
               k == r + (n - 1)
    <3>1. n > 0 /\ k \in Nat /\ k + 1 = r + n /\ k + 1 <= Len(right)
      BY <1>3, <2>3
    <3>2. ReadBack(before, S, left, right, l, k, u)
      BY <1>3, <2>3
    <3> HIDE DEF before, k
    <3>3. ReadBack(Append(before, [kind |-> "added", op |-> right[k + 1]]), S, left, right, l, k + 1, u)
      BY <3>1, <3>2, EntryIsRead
    <3> QED
      BY <2>1, <3>1, <3>3 DEF before
  <2> QED
    BY <2>2, <2>3
<1> HIDE DEF Removed, Added
<1>4. ASSUME NEW n \in Nat, l + n <= Len(left) PROVE Removed(n)
  <2> DEFINE Wrong == {k \in Nat : l + k <= Len(left) /\ ~ Removed(k)}
  <2>1. Wrong = {}
    <3> SUFFICES ASSUME Wrong # {} PROVE FALSE
      OBVIOUS
    <3>1. PICK k \in Wrong : \A m \in Wrong : k <= m
      <4>1. Wrong \subseteq Nat
        OBVIOUS
      <4> HIDE DEF Wrong
      <4> QED
        BY <4>1, LeastNumber
    <3>2. k \in Nat /\ l + k <= Len(left) /\ ~ Removed(k)
      OBVIOUS
    <3>3. k = 0 \/ (k - 1 \in Nat /\ l + (k - 1) <= Len(left) /\ ~ (k <= k - 1))
      BY <1>1, <3>2
    <3>4. k = 0 \/ (k - 1 \in Nat /\ Removed(k - 1))
      BY <3>1, <3>3
    <3> QED
      BY <1>2, <3>2, <3>4
  <2> QED
    BY <1>4, <2>1
<1>5. ASSUME NEW n \in Nat, r + n <= Len(right) PROVE Added(n)
  <2> DEFINE Wrong == {k \in Nat : r + k <= Len(right) /\ ~ Added(k)}
  <2>1. Wrong = {}
    <3> SUFFICES ASSUME Wrong # {} PROVE FALSE
      OBVIOUS
    <3>1. PICK k \in Wrong : \A m \in Wrong : k <= m
      <4>1. Wrong \subseteq Nat
        OBVIOUS
      <4> HIDE DEF Wrong
      <4> QED
        BY <4>1, LeastNumber
    <3>2. k \in Nat /\ r + k <= Len(right) /\ ~ Added(k)
      OBVIOUS
    <3>3. k = 0 \/ (k - 1 \in Nat /\ r + (k - 1) <= Len(right) /\ ~ (k <= k - 1))
      BY <1>1, <3>2
    <3>4. k = 0 \/ (k - 1 \in Nat /\ Added(k - 1))
      BY <3>1, <3>3
    <3> QED
      BY <1>3, <3>2, <3>4
  <2> QED
    BY <1>5, <2>1
<1> QED
  BY <1>4, <1>5 DEF Removed, Added

Associate(x, y, z) == (x \o y) \o z = x \o (y \o z)

LEMMA EntriesAssociate ==
  ASSUME NEW E, NEW x \in Seq(E), NEW y \in Seq(E), NEW z \in Seq(E)
  PROVE  Associate(x, y, z)
BY ConcatAssociative DEF Associate

\* A gap is everything up to the place where it ends, on both sides.
LEMMA GapIsRead ==
  ASSUME NEW S, NEW left \in Seq(S), NEW right \in Seq(S), NEW entries, NEW from \in Nat \X Nat, NEW to \in Nat \X Nat,
         NEW u \in Nat, ReadBack(entries, S, left, right, from[1], from[2], u),
         from[1] < to[1], from[2] < to[2], to[1] <= Len(left) + 1, to[2] <= Len(right) + 1
  PROVE  ReadBack(entries \o Gap(left, right, from, to), S, left, right, to[1] - 1, to[2] - 1, u)
<1> DEFINE l == from[1]
           r == from[2]
           a == to[1] - l - 1
           b == to[2] - r - 1
           removals == Run("removed", left, l, a)
           additions == Run("added", right, r, b)
<1>1. /\ l \in Nat /\ r \in Nat /\ a \in Nat /\ b \in Nat /\ Len(left) \in Nat /\ Len(right) \in Nat
      /\ l + a = to[1] - 1 /\ r + b = to[2] - 1 /\ l + a <= Len(left) /\ r + b <= Len(right) /\ l + a \in Nat
  <2>1. l \in Nat /\ r \in Nat /\ to[1] \in Nat /\ to[2] \in Nat /\ Len(left) \in Nat /\ Len(right) \in Nat
    OBVIOUS
  <2> QED
    BY <2>1
<1>2. Gap(left, right, from, to) = removals \o additions
  BY DEF Gap, Run
<1> HIDE DEF a, b
<1>3. ReadBack(entries, S, left, right, l, r, u)
  OBVIOUS
<1> HIDE DEF l, r
<1>4. ReadBack(entries \o removals, S, left, right, l + a, r, u)
  BY <1>1, <1>3, RunIsRead
<1>5. ReadBack((entries \o removals) \o additions, S, left, right, l + a, r + b, u)
  <2> DEFINE before == entries \o removals
             k == l + a
  <2>1. ReadBack(before, S, left, right, k, r, u) /\ k \in Nat
    BY <1>1, <1>4
  <2> HIDE DEF before, k
  <2>2. ReadBack(before \o additions, S, left, right, k, r + b, u)
    BY <1>1, <2>1, RunIsRead
  <2> QED
    BY <2>2 DEF before, k
<1>6. (entries \o removals) \o additions = entries \o (removals \o additions)
  <2>1. entries \in EntriesOf(S) /\ "removed" \in Kinds /\ "added" \in Kinds
    BY <1>3 DEF ReadBack, Kinds
  <2>2. removals \in EntriesOf(S)
    <3>1. Grows(entries, S, "removed", left, l, a)
      BY <1>1, <2>1, RunGrows
    <3> QED
      BY <3>1 DEF Grows
  <2>3. additions \in EntriesOf(S)
    <3>1. Grows(entries, S, "added", right, r, b)
      BY <1>1, <2>1, RunGrows
    <3> QED
      BY <3>1 DEF Grows
  <2> DEFINE E == [kind : Kinds, op : S]
  <2>4. entries \in Seq(E) /\ removals \in Seq(E) /\ additions \in Seq(E)
    BY <2>1, <2>2, <2>3 DEF EntriesOf
  <2> HIDE DEF removals, additions, E
  <2> QED
    <3>1. Associate(entries, removals, additions)
      BY <2>4, EntriesAssociate
    <3> QED
      BY <3>1 DEF Associate
<1> QED
  BY <1>1, <1>2, <1>5, <1>6

LEMMA GapIsOfEntries ==
  ASSUME NEW S, NEW left \in Seq(S), NEW right \in Seq(S), NEW entries \in EntriesOf(S),
         NEW from \in Nat \X Nat, NEW to \in Nat \X Nat,
         from[1] < to[1], from[2] < to[2], to[1] <= Len(left) + 1, to[2] <= Len(right) + 1
  PROVE  entries \o Gap(left, right, from, to) \in EntriesOf(S)
<1> DEFINE l == from[1]
           r == from[2]
           a == to[1] - l - 1
           b == to[2] - r - 1
           removals == Run("removed", left, l, a)
           additions == Run("added", right, r, b)
<1>1. /\ l \in Nat /\ r \in Nat /\ a \in Nat /\ b \in Nat
      /\ l + a <= Len(left) /\ r + b <= Len(right)
  <2>1. l \in Nat /\ r \in Nat /\ to[1] \in Nat /\ to[2] \in Nat /\ Len(left) \in Nat /\ Len(right) \in Nat
    OBVIOUS
  <2> QED
    BY <2>1
<1>2. Gap(left, right, from, to) = removals \o additions
  BY DEF Gap, Run
<1> HIDE DEF a, b, l, r
<1>3. removals \in EntriesOf(S) /\ additions \in EntriesOf(S)
  <2>1. "removed" \in Kinds /\ "added" \in Kinds
    BY DEF Kinds
  <2>2. Grows(entries, S, "removed", left, l, a) /\ Grows(entries, S, "added", right, r, b)
    BY <1>1, <2>1, RunGrows
  <2> QED
    BY <2>2 DEF Grows
<1> HIDE DEF removals, additions
<1> QED
  BY <1>2, <1>3, ConcatProperties DEF EntriesOf

LEMMA NothingIsRead ==
  ASSUME NEW S, NEW left, NEW right
  PROVE  ReadBack(<<>>, S, left, right, 0, 0, 0)
<1>1. <<>> \in EntriesOf(S) /\ Len(<<>>) = 0
  BY DEF EntriesOf
<1>2. ASSUME NEW kind PROVE OperationsOf(<<>>, kind) = <<>>
  <2> DEFINE none == <<>>
  <2>1. none \in EntriesOf(S)
    BY <1>1
  <2> HIDE DEF none
  <2>2. \E f \in [0 .. Len(none) -> Seq(S)] : Keeps(f, none, kind) /\ OperationsOf(none, kind) = f[Len(none)]
    BY <2>1, OperationsKept
  <2> QED
    BY <1>1, <2>2 DEF Keeps, none
<1>3. SubSeq(left, 1, 0) = <<>> /\ SubSeq(right, 1, 0) = <<>>
  BY SubSeqEmpty
<1> QED
  BY <1>1, <1>2, <1>3 DEF ReadBack

\* Entries read back from the matches made so far.
Cursor(matched, m) == IF m = 0 THEN <<0, 0>> ELSE matched[m]

\* Each match is further on than the one before, and within both sides.
LEMMA CursorsAdvance ==
  ASSUME NEW S, NEW left \in Seq(S), NEW right \in Seq(S), NEW matched, Ascends(matched, left, right, 1, 1)
  PROVE  /\ Len(matched) \in Nat
         /\ \A m \in 0 .. Len(matched) :
              /\ Cursor(matched, m) \in Nat \X Nat
              /\ Cursor(matched, m)[1] < Len(left) + 1 /\ Cursor(matched, m)[2] < Len(right) + 1
         /\ \A m \in 1 .. Len(matched) :
              /\ Cursor(matched, m) = matched[m]
              /\ Cursor(matched, m - 1)[1] < matched[m][1] /\ Cursor(matched, m - 1)[2] < matched[m][2]
              /\ left[matched[m][1]] = right[matched[m][2]]
<1>1. /\ matched \in Seq(Nat \X Nat)
      /\ \A m \in 1 .. Len(matched) : matched[m] \in Beyond(left, right, 1, 1)
      /\ \A m \in 1 .. Len(matched) - 1 : matched[m][1] < matched[m + 1][1] /\ matched[m][2] < matched[m + 1][2]
  BY DEF Ascends
<1>2. Len(matched) \in Nat /\ Len(left) \in Nat /\ Len(right) \in Nat
  BY <1>1, LenProperties
<1>3. ASSUME NEW m \in 1 .. Len(matched)
      PROVE  /\ matched[m] \in Nat \X Nat
             /\ matched[m][1] \in 1 .. Len(left) /\ matched[m][2] \in 1 .. Len(right)
             /\ left[matched[m][1]] = right[matched[m][2]]
  <2>1. matched[m] \in Beyond(left, right, 1, 1)
    BY <1>1
  <2>2. matched[m] \in (1 .. Len(left)) \X (1 .. Len(right)) /\ left[matched[m][1]] = right[matched[m][2]]
    BY <2>1 DEF Beyond
  <2>3. 1 .. Len(left) \subseteq Nat /\ 1 .. Len(right) \subseteq Nat
    OBVIOUS
  <2> DEFINE p == matched[m]
  <2> HIDE DEF p
  <2>4. p \in (1 .. Len(left)) \X (1 .. Len(right))
    BY <2>2 DEF p
  <2>5. p \in Nat \X Nat /\ p[1] \in 1 .. Len(left) /\ p[2] \in 1 .. Len(right)
    BY <2>3, <2>4
  <2> QED
    BY <2>2, <2>5 DEF p
<1>4. ASSUME NEW m \in 0 .. Len(matched)
      PROVE  /\ Cursor(matched, m) \in Nat \X Nat
             /\ Cursor(matched, m)[1] < Len(left) + 1 /\ Cursor(matched, m)[2] < Len(right) + 1
  <2>1. CASE m = 0
    <3>1. Cursor(matched, m) = <<0, 0>>
      BY <2>1 DEF Cursor
    <3> QED
      BY <1>2, <3>1
  <2>2. CASE m # 0
    <3>1. m \in 1 .. Len(matched)
      BY <1>2, <2>2
    <3>2. Cursor(matched, m) = matched[m]
      BY <2>2 DEF Cursor
    <3>3. matched[m][1] < Len(left) + 1 /\ matched[m][2] < Len(right) + 1
      BY <1>2, <1>3, <3>1
    <3> QED
      BY <1>3, <3>1, <3>2, <3>3
  <2> QED
    BY <2>1, <2>2
<1>5. ASSUME NEW m \in 1 .. Len(matched)
      PROVE  /\ Cursor(matched, m) = matched[m]
             /\ Cursor(matched, m - 1)[1] < matched[m][1] /\ Cursor(matched, m - 1)[2] < matched[m][2]
  <2>1. Cursor(matched, m) = matched[m]
    BY DEF Cursor
  <2>2. CASE m = 1
    <3>1. Cursor(matched, m - 1) = <<0, 0>>
      BY <2>2 DEF Cursor
    <3>2. 0 < matched[m][1] /\ 0 < matched[m][2]
      BY <1>2, <1>3
    <3> QED
      BY <2>1, <3>1, <3>2
  <2>3. CASE m # 1
    <3> DEFINE k == m - 1
    <3>1. k \in 1 .. Len(matched) - 1 /\ k # 0 /\ k + 1 = m
      BY <1>2, <2>3
    <3>2. Cursor(matched, k) = matched[k]
      BY <3>1 DEF Cursor
    <3> HIDE DEF k
    <3>3. matched[k][1] < matched[k + 1][1] /\ matched[k][2] < matched[k + 1][2]
      BY <1>1, <3>1
    <3>4. Cursor(matched, k)[1] < matched[m][1] /\ Cursor(matched, k)[2] < matched[m][2]
      BY <3>1, <3>2, <3>3
    <3> QED
      BY <2>1, <3>4 DEF k
  <2> QED
    BY <2>2, <2>3
<1> QED
  BY <1>2, <1>3, <1>4, <1>5

\* The diff accounts for all of both sides, and leaves as many unchanged as match.
LEMMA DiffIsRead ==
  ASSUME NEW S, NEW left \in Seq(S), NEW right \in Seq(S), Ascends(CommonSubsequence(left, right), left, right, 1, 1)
  PROVE  ReadBack(DiffEntries(left, right), S, left, right, Len(left), Len(right), Len(CommonSubsequence(left, right)))
<1> DEFINE matched == CommonSubsequence(left, right)
           N == Len(matched)
           V == EntriesOf(S)
           C(m) == Cursor(matched, m)
           G(m, v) == Append(v \o Gap(left, right, C(m - 1), matched[m]), [kind |-> "unchanged", op |-> left[matched[m][1]]])
           g == [x \in (1 .. N) \X V |-> G(x[1], x[2])]
           Solves(f) == f = [m \in 0 .. N |-> IF m = 0 THEN <<>> ELSE G(m, f[m - 1])]
           entries == CHOOSE f : Solves(f)
<1>1. DiffEntries(left, right) = entries[N] \o Gap(left, right, C(N), <<Len(left) + 1, Len(right) + 1>>)
  BY DEF DiffEntries, Cursor
<1>2. /\ N \in Nat
      /\ \A m \in 0 .. N : C(m) \in Nat \X Nat /\ C(m)[1] < Len(left) + 1 /\ C(m)[2] < Len(right) + 1
      /\ \A m \in 1 .. N : /\ C(m) = matched[m]
                           /\ C(m - 1)[1] < matched[m][1] /\ C(m - 1)[2] < matched[m][2]
                           /\ left[matched[m][1]] = right[matched[m][2]]
  <2> HIDE DEF matched
  <2>1. Ascends(matched, left, right, 1, 1)
    BY DEF matched
  <2> QED
    BY <2>1, CursorsAdvance
<1> HIDE DEF matched, C
<1>3. Len(left) \in Nat /\ Len(right) \in Nat
  OBVIOUS
<1>4. ASSUME NEW m \in 1 .. N
      PROVE  /\ m - 1 \in 0 .. N /\ m \in 0 .. N
             /\ C(m - 1) \in Nat \X Nat /\ matched[m] \in Nat \X Nat
             /\ matched[m][1] \in Nat /\ matched[m][2] \in Nat
             /\ matched[m][1] <= Len(left) /\ matched[m][2] <= Len(right)
             /\ matched[m][1] - 1 \in Nat /\ matched[m][2] - 1 \in Nat
  <2>1. m - 1 \in 0 .. N /\ m \in 0 .. N
    BY <1>2
  <2>2. matched[m] \in Nat \X Nat /\ matched[m][1] < Len(left) + 1 /\ matched[m][2] < Len(right) + 1
    BY <1>2, <2>1
  <2>3. C(m - 1) \in Nat \X Nat /\ C(m - 1)[1] < matched[m][1] /\ C(m - 1)[2] < matched[m][2]
    BY <1>2, <2>1
  <2> DEFINE a == matched[m]
             b == C(m - 1)
  <2> HIDE DEF a, b
  <2>4. a[1] \in Nat /\ a[2] \in Nat /\ b[1] \in Nat /\ b[2] \in Nat
    BY <2>2, <2>3 DEF a, b
  <2>5. a[1] < Len(left) + 1 /\ a[2] < Len(right) + 1 /\ b[1] < a[1] /\ b[2] < a[2]
    BY <2>2, <2>3 DEF a, b
  <2>6. a[1] <= Len(left) /\ a[2] <= Len(right) /\ a[1] - 1 \in Nat /\ a[2] - 1 \in Nat
    BY <1>3, <2>4, <2>5
  <2> QED
    BY <2>1, <2>2, <2>3, <2>4, <2>6 DEF a
<1>5. ASSUME NEW m \in 1 .. N, NEW v \in V PROVE G(m, v) \in V
  <2> DEFINE from == C(m - 1)
             to == matched[m]
             e == [kind |-> "unchanged", op |-> left[to[1]]]
             w == v \o Gap(left, right, from, to)
  <2>1. /\ from \in Nat \X Nat /\ to \in Nat \X Nat /\ from[1] < to[1] /\ from[2] < to[2]
        /\ to[1] <= Len(left) + 1 /\ to[2] <= Len(right) + 1 /\ to[1] \in 1 .. Len(left)
    <3>1. from \in Nat \X Nat /\ to \in Nat \X Nat /\ from[1] < to[1] /\ from[2] < to[2]
      BY <1>2, <1>4
    <3>2. to[1] \in Nat /\ to[2] \in Nat /\ to[1] <= Len(left) /\ to[2] <= Len(right) /\ to[1] - 1 \in Nat
      BY <1>4
    <3> HIDE DEF from, to
    <3> QED
      BY <1>3, <3>1, <3>2
  <2>2. left[to[1]] \in S
    BY <2>1, ElementOfSeq
  <2>3. e \in [kind : Kinds, op : S]
    BY <2>2 DEF Kinds
  <2> HIDE DEF e, from, to
  <2>4. w \in V
    BY <2>1, GapIsOfEntries
  <2> HIDE DEF w
  <2>5. Append(w, e) \in V
    BY <2>3, <2>4, OneEntryMore
  <2> QED
    BY <2>5 DEF w, e, from, to
<1> HIDE DEF G
<1>6. g \in [(1 .. N) \X V -> V]
  <2>1. \A x \in (1 .. N) \X V : x[1] \in 1 .. N /\ x[2] \in V
    OBVIOUS
  <2> HIDE DEF V
  <2> QED
    BY <1>5, <2>1
<1>7. \A m \in 1 .. N, v \in V : g[<<m, v>>] = G(m, v)
  <2>1. \A m \in 1 .. N, v \in V : <<m, v>> \in (1 .. N) \X V /\ <<m, v>>[1] = m /\ <<m, v>>[2] = v
    OBVIOUS
  <2> HIDE DEF V
  <2> QED
    BY <2>1
<1> DEFINE base == <<>>
<1>8. base \in V
  BY DEF EntriesOf
<1> HIDE DEF g, V
<1>9. PICK f \in [0 .. N -> V] : f[0] = <<>> /\ \A m \in 1 .. N : f[m] = g[<<m, f[m - 1]>>]
  <2> HIDE DEF N, base
  <2>1. PICK f \in [0 .. N -> V] : FromPrevious(f, g, N, base)
    BY <1>2, <1>6, <1>8, PrefixesExist
  <2> QED
    BY <2>1 DEF FromPrevious, base
<1>10. Solves(f)
  <2>1. f = [m \in 0 .. N |-> f[m]]
    OBVIOUS
  <2>2. \A m \in 0 .. N : m = 0 \/ m \in 1 .. N
    BY <1>2
  <2>3. \A m \in 1 .. N : f[m] = G(m, f[m - 1])
    BY <1>4, <1>7, <1>9
  <2> HIDE DEF N
  <2>4. \A m \in 0 .. N : f[m] = IF m = 0 THEN <<>> ELSE G(m, f[m - 1])
    BY <1>9, <2>2, <2>3
  <2> QED
    BY <2>1, <2>4
<1>11. Solves(entries)
  <2> HIDE DEF Solves
  <2> QED
    BY <1>10
<1> HIDE DEF entries
<1>12. entries[0] = <<>> /\ \A m \in 1 .. N : entries[m] = G(m, entries[m - 1])
  <2>1. 0 \in 0 .. N /\ \A m \in 1 .. N : m \in 0 .. N /\ m # 0
    BY <1>2
  <2> QED
    BY <1>11, <2>1
<1> DEFINE Good(m) == ReadBack(entries[m], S, left, right, C(m)[1], C(m)[2], m)
<1>13. Good(0)
  <2>1. C(0)[1] = 0 /\ C(0)[2] = 0
    BY DEF C, Cursor
  <2> QED
    BY <1>12, <2>1, NothingIsRead
<1>14. ASSUME NEW m \in 1 .. N, Good(m - 1) PROVE Good(m)
  <2> DEFINE from == C(m - 1)
             to == matched[m]
             before == entries[m - 1]
             k == m - 1
             l == to[1] - 1
             r == to[2] - 1
             w == before \o Gap(left, right, from, to)
  <2>1. /\ from \in Nat \X Nat /\ to \in Nat \X Nat /\ from[1] < to[1] /\ from[2] < to[2]
        /\ k \in Nat /\ k + 1 = m
    BY <1>2, <1>4
  <2>2. /\ l \in Nat /\ r \in Nat /\ l + 1 = to[1] /\ r + 1 = to[2]
        /\ to[1] <= Len(left) /\ to[2] <= Len(right) /\ to[1] <= Len(left) + 1 /\ to[2] <= Len(right) + 1
    <3>1. to[1] \in Nat /\ to[2] \in Nat /\ to[1] <= Len(left) /\ to[2] <= Len(right) /\ l \in Nat /\ r \in Nat
      BY <1>4
    <3> HIDE DEF to
    <3> QED
      BY <1>3, <3>1
  <2>3. left[to[1]] = right[to[2]]
    BY <1>2
  <2>4. ReadBack(before, S, left, right, from[1], from[2], k)
    BY <1>14
  <2>5. Good(m) <=> ReadBack(Append(w, [kind |-> "unchanged", op |-> left[to[1]]]), S, left, right, to[1], to[2], m)
    BY <1>2, <1>12 DEF G
  <2> HIDE DEF from, to, before, k, Good
  <2>6. ReadBack(w, S, left, right, l, r, k)
    BY <2>1, <2>2, <2>4, GapIsRead
  <2> HIDE DEF w, l, r
  <2>7. ReadBack(Append(w, [kind |-> "unchanged", op |-> left[l + 1]]), S, left, right, l + 1, r + 1, k + 1)
    <3>1. l + 1 <= Len(left) /\ r + 1 <= Len(right) /\ left[l + 1] = right[r + 1]
      BY <2>2, <2>3
    <3> QED
      BY <2>1, <2>2, <2>6, <3>1, EntryIsRead
  <2> QED
    BY <2>1, <2>2, <2>5, <2>7
<1> HIDE DEF Good
<1>15. Good(N)
  <2> DEFINE Wrong == {m \in 0 .. N : ~ Good(m)}
  <2>1. Wrong = {}
    <3> SUFFICES ASSUME Wrong # {} PROVE FALSE
      OBVIOUS
    <3>1. PICK m \in Wrong : \A i \in Wrong : m <= i
      <4>1. Wrong \subseteq Nat
        OBVIOUS
      <4> HIDE DEF Wrong
      <4> QED
        BY <4>1, LeastNumber
    <3>2. m # 0
      BY <1>13
    <3>3. m \in 1 .. N /\ m - 1 \in 0 .. N /\ ~ (m <= m - 1)
      BY <1>2, <3>2
    <3>4. Good(m - 1)
      BY <3>1, <3>3
    <3> QED
      BY <1>14, <3>3, <3>4
  <2> QED
    BY <1>2, <2>1
<1> DEFINE from == C(N)
           to == <<Len(left) + 1, Len(right) + 1>>
           done == entries[N]
<1>16. /\ N \in 0 .. N /\ from \in Nat \X Nat /\ to \in Nat \X Nat
       /\ from[1] < to[1] /\ from[2] < to[2] /\ to[1] <= Len(left) + 1 /\ to[2] <= Len(right) + 1
       /\ to[1] - 1 = Len(left) /\ to[2] - 1 = Len(right)
  <2>1. N \in 0 .. N
    BY <1>2
  <2>2. from \in Nat \X Nat /\ from[1] < Len(left) + 1 /\ from[2] < Len(right) + 1
    BY <1>2, <2>1
  <2> HIDE DEF from
  <2> QED
    BY <1>3, <2>1, <2>2
<1>17. ReadBack(done, S, left, right, from[1], from[2], N)
  BY <1>15 DEF Good
<1>18. ReadBack(done \o Gap(left, right, from, to), S, left, right, to[1] - 1, to[2] - 1, N)
  <2> HIDE DEF from, to, done, N
  <2> QED
    BY <1>2, <1>16, <1>17, GapIsRead
<1> QED
  BY <1>1, <1>16, <1>18 DEF matched

\* What the diff of any two sequences of operations is.
LEMMA DiffIsRightOf ==
  ASSUME NEW S, NEW left \in Seq(S), NEW right \in Seq(S)
  PROVE  /\ DiffIsSound(left, right, DiffEntries(left, right))
         /\ \A pairs \in SUBSET Beyond(left, right, 1, 1) :
              InOrder(pairs) => Cardinality(pairs) <= Unchanged(DiffEntries(left, right))
<1>1. Len(left) \in Nat /\ Len(right) \in Nat
  OBVIOUS
<1>2. /\ Ascends(CommonSubsequence(left, right), left, right, 1, 1)
      /\ \A pairs \in SUBSET Beyond(left, right, 1, 1) :
              InOrder(pairs) => Cardinality(pairs) <= Len(CommonSubsequence(left, right))
  BY <1>1, AlignmentIsLongest
<1>3. ReadBack(DiffEntries(left, right), S, left, right, Len(left), Len(right), Len(CommonSubsequence(left, right)))
  BY <1>2, DiffIsRead
<1>4. SubSeq(left, 1, Len(left)) = left /\ SubSeq(right, 1, Len(right)) = right
  BY SubSeqFull
<1>5. DiffIsSound(left, right, DiffEntries(left, right))
  BY <1>3, <1>4 DEF ReadBack, DiffIsSound
<1>6. Unchanged(DiffEntries(left, right)) = Len(CommonSubsequence(left, right))
  BY <1>3 DEF ReadBack, Unchanged
<1> QED
  BY <1>2, <1>5, <1>6

-----------------------------------------------------------------------------
(* The diff of an optimization.                                            *)

\* Whatever a legal input is optimized to, its diff can be read back to both
\* circuits and keeps as many operations as any pairing of equal ones in order
\* (diff.ts: commonSubsequence and diffCircuits).
THEOREM DiffMinimality == Spec => [](LegalInput => DiffIsMinimal)
<1>1. PipelineInv => (LegalInput => DiffIsMinimal)
  <2> SUFFICES ASSUME PipelineInv, LegalInput, stage = "optimized" PROVE DiffIsMinimal
    BY DEF DiffIsMinimal
  <2> DEFINE S == OperationsOn(0 .. circuit.n - 1)
             left == circuit.ops
  <2>1. left \in Seq(S) /\ working \in Seq(S)
    BY DEF PipelineInv, IsCircuit
  <2> HIDE DEF S
  <2>2. {p \in (DOMAIN left) \X (DOMAIN working) : left[p[1]] = working[p[2]]} = Beyond(left, working, 1, 1)
    <3>1. DOMAIN left = 1 .. Len(left) /\ DOMAIN working = 1 .. Len(working)
      BY <2>1
    <3> HIDE DEF left
    <3> QED
      BY <3>1 DEF Beyond
  <2> HIDE DEF left
  <2>3. /\ DiffIsSound(left, working, DiffEntries(left, working))
        /\ \A pairs \in SUBSET Beyond(left, working, 1, 1) :
              InOrder(pairs) => Cardinality(pairs) <= Unchanged(DiffEntries(left, working))
    BY <2>1, DiffIsRightOf
  <2> QED
    BY <2>2, <2>3 DEF DiffIsMinimal, left
<1> QED
  BY <1>1, PipelineInvariance, PTL

=============================================================================
