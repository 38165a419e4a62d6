------------------------------ MODULE MCEngine ------------------------------
(***************************************************************************)
(* Circuits, diagrams and devices for TLC.                                 *)
(***************************************************************************)
EXTENDS Engine

CONSTANTS
    Length,         \* longest circuit over the wide alphabet
    LongLength,     \* longest circuit over the narrow one
    RoutedLength,   \* longest circuit for routing
    ProgramLength,  \* most phrases of a program over the wide choice of them
    LongProgram     \* and over the narrow one

\* Two qubits: every gate class the rewrites tell apart, one angle that is a
\* whole turn, and everything that is not a gate.
Wide ==
    {Gate(name, <<0>>) : name \in {"id", "x", "z", "h", "s", "t"}}
    \cup {Rotation("rz", k, 0) : k \in {2, 8}} \cup {Rotation("rx", 3, 0), Rotation("p", 3, 0)}
    \cup {Gate(name, <<0, 1>>) : name \in {"cx", "cy", "swap"}} \cup {Gate("cx", <<1, 0>>)}
    \cup {Gate("h", <<1>>), Rotation("ry", 4, 1)}
    \cup {Measure(0, 0), Reset(0), Barrier(<<>>), If(Whole, 1, Gate("x", <<0>>))}

\* The gates that matter for fusion across others.
Narrow ==
    {Rotation("rz", 3, 0), Rotation("rx", 2, 1), Gate("h", <<0>>), Gate("sx", <<1>>),
     Gate("cx", <<0, 1>>), Gate("cz", <<0, 1>>), Barrier(<<1>>)}

\* Three qubits, for routing.
Routed ==
    {Gate("h", <<0>>), Gate("cx", <<0, 2>>), Gate("cx", <<2, 1>>),
     Measure(0, 1), If(Whole, 2, Gate("x", <<1>>))}

RoutedToo == Routed \cup {Rotation("ry", 3, 2), Gate("cy", <<1, 0>>), Reset(2), Barrier(<<>>)}

CircuitsOver(alphabet, n, length) == {[n |-> n, ops |-> s] : s \in BoundedSeq(alphabet, length)}

\* A gate on two qubits under a condition that holds, before anything is
\* measured: its SWAPs are wrapped, and happen.
FedForward ==
    {[n |-> 3, ops |-> <<If(Whole, 0, Gate("cx", <<0, 2>>))>> \o s] : s \in BoundedSeq(Routed, 2)}

MCSources ==
    CircuitsOver(Wide, 2, Length) \cup CircuitsOver(Narrow, 2, LongLength)
    \cup CircuitsOver(Routed, 3, RoutedLength) \cup CircuitsOver(RoutedToo, 3, RoutedLength - 1)
    \cup FedForward

\* A conditional two-qubit gate on qubits that have to be brought together.
ConditionalSources ==
    {[n |-> 3, ops |-> <<Gate("h", <<0>>), Measure(0, 0), If(Whole, 1, Gate("cx", <<0, 2>>))>> \o s] :
        s \in BoundedSeq(Routed, 1)}

Device(size, operational, couplings) ==
    [size |-> size, operational |-> operational, couplings |-> couplings]

Line3 == Device(3, 0 .. 2, {{0, 1}, {1, 2}})

\* Qubit 0 of a line of four is not operational.
Broken4 == Device(4, 1 .. 3, {{1, 2}, {2, 3}})

Ring4 == Device(4, 0 .. 3, {{0, 1}, {1, 2}, {2, 3}, {0, 3}})

MCPlacements ==
    {[device |-> Line3, layout |-> l] : l \in {<<0, 1, 2>>, <<2, 0, 1>>}}
    \cup {[device |-> Broken4, layout |-> <<1, 2, 3>>], [device |-> Ring4, layout |-> <<0, 1, 2>>]}

\* A device whose qubits need one distance more for each layer or two, with
\* raw magic states that distillation improves and with some it does not.
MCScenarios ==
    {[rate |-> 1, cycle |-> 1, budget |-> 20, prefactor |-> 3, layout |-> "BARE_REGISTER", toffoliCost |-> 4,
      protocol |-> "FIFTEEN_TO_ONE", rounds |-> 10, parallel |-> 1, raw |-> raw, goal |-> 33,
      factoryDistance |-> Null] : raw \in {2, 8}}

\* Boundary spiders 1 and 2 (and 3), the interior ones after them.
Diagram(phase, edges, inputs, outputs) ==
    [phase |-> phase, edges |-> edges, inputs |-> inputs, outputs |-> outputs]

AllEdges(ids) == {e \in SUBSET ids : Cardinality(e) = 2}

MCDiagrams ==
    {Diagram(<<a, 0, b, c>>, edges, io[1], io[2]) :
        a \in {0, 1}, b \in {0, 2, 6, 4}, c \in {0, 2, 4}, edges \in SUBSET AllEdges(1 .. 4),
        io \in {<<<<1, 2>>, <<1, 2>>>>, <<<<1>>, <<2>>>>}}
    \cup
    {Diagram(<<0, 1, 0, b, c>>, edges \cup {{4, 5}}, <<1, 2, 3>>, <<1, 2, 3>>) :
        b \in {0, 4}, c \in {0, 2, 4}, edges \in SUBSET {{i, j} : i \in 1 .. 3, j \in {4, 5}}}


\* Programs: two qubits by the names of the formals, a register of each kind,
\* a custom gate, and one that calls it, with its formals the other way.
Preamble ==
    <<Version(3), Include("stdgates.inc"),
      Declaration("qubit", "a", 1, FALSE), Declaration("qubit", "b", 1, FALSE),
      Declaration("qubit", "q", 2, FALSE), Declaration("bit", "c", 2, FALSE)>>

Flip(name) ==
    <<GateSignature("flip", <<>>, <<"a", "b">>), Open, Call(name, <<>>, <<All("a"), All("b")>>), Close>>

Turn ==
    <<GateSignature("turn", <<"alpha", "beta">>, <<"a", "b">>), Open,
      Call("rz", <<Name("alpha")>>, <<All("b")>>), Call("flip", <<>>, <<All("b"), All("a")>>),
      Doing("barrier", <<All("a")>>), Call("rx", <<Name("beta")>>, <<All("a")>>), Close>>

\* One that calls itself.
Endless == <<GateSignature("flip", <<>>, <<"a", "b">>), Open, Call("flip", <<>>, <<All("b"), All("a")>>), Close>>

X(o) == Call("x", <<>>, <<o>>)

NarrowPhrases ==
    {<<X(BitOf("q", 0))>>, <<X(All("q"))>>, <<When("c", Whole, 1, <<X(BitOf("q", 1))>>)>>,
     <<When("c", 1, 0, <<>>), Open>>, <<Close>>, <<Call("flip", <<>>, <<BitOf("q", 1), All("b")>>)>>,
     <<Call("turn", <<Number(3), Number(1)>>, <<All("a"), BitOf("q", 0)>>)>>,
     <<Measuring(FALSE, BitOf("q", 0), BitOf("c", 1))>>}

WidePhrases ==
    NarrowPhrases \cup
    {<<When("c", Whole, 2, <<X(All("q"))>>)>>,
     <<When("c", 1, 1, <<Call("flip", <<>>, <<BitOf("q", 1), All("a")>>)>>)>>,
     <<When("c", 0, 1, <<Doing("reset", <<All("a")>>)>>)>>, <<When("c", 2, 1, <<X(All("a"))>>)>>,
     <<Call("flip", <<>>, <<All("b"), All("a")>>)>>, <<Call("flip", <<>>, <<All("b")>>)>>,
     <<Call("flip", <<>>, <<BitOf("b", 0), All("a")>>)>>,
     <<Call("flip", <<>>, <<BitOf("b", 0), BitOf("a", 0)>>)>>,
     <<Call("turn", <<Number(1), Number(2)>>, <<BitOf("a", 0), BitOf("b", 0)>>)>>,
     <<Call("turn", <<Name("beta"), Name("alpha")>>, <<All("a"), BitOf("q", 0)>>)>>,
     <<Call("turn", <<Name("alpha"), Name("alpha")>>, <<All("a"), All("q")>>)>>,
     <<Call("cx", <<>>, <<Hardware(2), Hardware(0)>>)>>, <<Call("cx", <<>>, <<All("q"), All("b")>>)>>,
     <<Call("cx", <<>>, <<All("q"), Hardware(1)>>)>>, <<Call("cx", <<>>, <<All("q"), All("r")>>)>>,
     <<Declaration("qubit", "r", 3, TRUE)>>, <<Declaration("bit", "c", 1, FALSE)>>,
     <<Measuring(TRUE, All("b"), BitOf("c", 0))>>, <<Measuring(FALSE, All("q"), All("c"))>>,
     <<Doing("barrier", <<>>)>>, <<Doing("barrier", <<All("q")>>)>>, <<Doing("reset", <<All("q")>>)>>,
     <<Unsupported>>, Flip("cz"), Endless}

MCPrograms ==
    {Preamble \o Flip("cx") \o Turn \o FlattenSeq(phrases) :
        phrases \in BoundedSeq(WidePhrases, ProgramLength) \cup BoundedSeq(NarrowPhrases, LongProgram)}
    \cup {<<Version(v), Include(f), Declaration("qubit", "q", 1, TRUE), X(All("q"))>> :
            v \in {2, 3, 4}, f \in {"stdgates.inc", "qelib1.inc", "other.inc"}}
    \cup {<<Declaration("qubit", "q", 2, FALSE)>> \o Flip("h") \o <<Call("cx", <<>>, <<Hardware(1), All("q")>>)>>}

=============================================================================
