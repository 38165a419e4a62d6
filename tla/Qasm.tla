-------------------------------- MODULE Qasm --------------------------------
(***************************************************************************)
(* The OpenQASM adapter, src/circuit/qasm3.ts and qasm2.ts: from the       *)
(* statements of a program to a circuit with its loss report, and back to  *)
(* a program.                                                              *)
(*                                                                         *)
(* A program is the list that splitStatements makes of its text, in which  *)
(* a brace is a statement of its own.  What a statement's text is matched  *)
(* for is given by its record.  A parameter is a number or a name, and no  *)
(* name is a parameter's, a qubit's and a gate's, or two of them, at once. *)
(***************************************************************************)
EXTENDS Circuits

CONSTANT MaxExpansion   \* MAX_GATE_EXPANSION_DEPTH

PHYSICAL_QUBIT_REGISTER == "$physical"

Number(value) == [name |-> "", value |-> value]
Name(name) == [name |-> name, value |-> 0]

\* One bit of a register, or all of it; $n is bit n of the hardware's.
BitOf(register, index) == [register |-> register, index |-> index]
All(register) == BitOf(register, Whole)
Hardware(index) == BitOf(PHYSICAL_QUBIT_REGISTER, index)
Malformed == BitOf("", 0)       \* text with two indices, which no register answers to

Call(name, parameters, operands) ==
    [is |-> "call", name |-> name, parameters |-> parameters, operands |-> operands]
Doing(kind, operands) ==        \* reset, barrier
    [is |-> kind, parameters |-> <<>>, operands |-> operands]
Measuring(arrow, qubit, clbit) ==
    [is |-> "measure", arrow |-> arrow, parameters |-> <<>>, operands |-> <<qubit>>, into |-> clbit]
Declaration(kind, name, size, legacy) ==
    [is |-> "declare", kind |-> kind, register |-> [name |-> name, size |-> size], legacy |-> legacy]
GateSignature(name, formals, wires) ==
    [is |-> "gate", name |-> name, formals |-> formals, wires |-> wires]
When(register, bit, equals, body) ==
    [is |-> "if", test |-> [register |-> register, bit |-> bit, equals |-> equals], body |-> body]
Open == [is |-> "{"]
Close == [is |-> "}"]
Version(number) == [is |-> "OPENQASM", number |-> number]
Include(file) == [is |-> "include", file |-> file]
Unsupported == [is |-> "unsupported"]       \* any of UNSUPPORTED_KEYWORDS

-----------------------------------------------------------------------------
(***************************************************************************)
(* Operands.                                                               *)
(***************************************************************************)
Named(registers, name) == SelectSeq(registers, LAMBDA r : r.name = name)

\* resolveOperand; a bare register name is every bit of it.
Resolvable(registers, o) ==
    \E r \in ToSet(registers) : r.name = o.register /\ o.index < r.size

BitsOf(registers, o) ==
    IF o.index # Whole THEN <<o>>
    ELSE [i \in 1 .. Named(registers, o.register)[1].size |-> BitOf(o.register, i - 1)]

\* Hardware qubits are declared by their use, as many as the highest needs.
WithHardware(registers, operands) ==
    LET needed == Max({o.index + 1 : o \in {p \in ToSet(operands) :
                                              p.register = PHYSICAL_QUBIT_REGISTER}} \cup {0})
    IN  IF needed = 0 THEN registers
        ELSE IF Named(registers, PHYSICAL_QUBIT_REGISTER) = <<>>
        THEN Append(registers, [name |-> PHYSICAL_QUBIT_REGISTER, size |-> needed])
        ELSE [i \in DOMAIN registers |->
                IF registers[i].name = PHYSICAL_QUBIT_REGISTER /\ registers[i].size < needed
                THEN [registers[i] EXCEPT !.size = needed] ELSE registers[i]]

-----------------------------------------------------------------------------
(***************************************************************************)
(* One statement that does something: parseOperation, once its operands    *)
(* are known to resolve.                                                   *)
(***************************************************************************)
Simple(kind, name, parameters, qubits, clbits) ==
    [kind |-> kind, name |-> name, parameters |-> parameters, qubits |-> qubits,
     clbits |-> clbits, cond |-> {}]

Widths(qubits, s) == {Len(BitsOf(qubits, o)) : o \in ToSet(s.operands)}

ReadsAsOperation(qubits, clbits, s) ==
    /\ s.is \in {"call", "measure", "reset", "barrier"}
    /\ \A o \in ToSet(s.operands) : Resolvable(qubits, o)
    /\ s.is = "measure" => Resolvable(clbits, s.into) /\ Len(BitsOf(clbits, s.into)) = 1
    /\ s.is \in {"measure", "reset"} => Widths(qubits, s) = {1}
    /\ s.is = "call" => s.operands # <<>> /\ Widths(qubits, s) \subseteq {1, Max(Widths(qubits, s))}

\* A gate on registers is one gate for each index.
Broadcast(qubits, s) ==
    LET bits == [k \in DOMAIN s.operands |-> BitsOf(qubits, s.operands[k])]
        Pick(k, i) == bits[k][IF Len(bits[k]) = 1 THEN 1 ELSE i]
    IN  [i \in 1 .. Max(Widths(qubits, s)) |->
            Simple("gate", s.name, s.parameters, [k \in DOMAIN bits |-> Pick(k, i)], <<>>)]

OperationsIn(qubits, clbits, s) ==
    LET bits == FlattenSeq([k \in DOMAIN s.operands |-> BitsOf(qubits, s.operands[k])])
    IN  CASE s.is = "call"    -> Broadcast(qubits, s)
          [] s.is = "measure" -> <<Simple("measure", "measure", <<>>, bits, BitsOf(clbits, s.into))>>
          [] s.is = "reset"   -> <<Simple("reset", "reset", <<>>, bits, <<>>)>>
          [] s.is = "barrier" -> <<Simple("barrier", "barrier", <<>>, bits, <<>>)>>

-----------------------------------------------------------------------------
(***************************************************************************)
(* The reader: parseQasm3's locals, one statement after the other.         *)
(***************************************************************************)
InitialReader ==
    [qubits |-> <<>>, clbits |-> <<>>, ops |-> <<>>, loss |-> {}, spans |-> <<>>,
     definitions |-> [name \in {} |-> <<>>], version |-> FALSE,
     pending |-> {}, depth |-> 0, until |-> 0, opened |-> <<>>, failed |-> FALSE]

Fails(reader) == [reader EXCEPT !.failed = TRUE]
Loses(reader, feature, really) == IF really THEN [reader EXCEPT !.loss = @ \cup {feature}] ELSE reader

\* emit: a condition without a block is spent on the operation it meets.
Emit(reader, op) ==
    [reader EXCEPT !.ops = Append(@, [op EXCEPT !.cond = reader.pending]),
                   !.pending = IF reader.depth = 0 THEN {} ELSE @]

ApplyStatement(reader, s) ==
    LET known == IF s.is \in {"call", "measure", "reset", "barrier"}
                 THEN [Loses(reader, "openqasm2_measure_syntax", s.is = "measure" /\ s.arrow)
                          EXCEPT !.qubits = WithHardware(@, s.operands)]
                 ELSE reader
    IN  IF reader.failed \/ ~ReadsAsOperation(known.qubits, known.clbits, s) THEN Fails(reader)
        ELSE FoldLeft(Emit, known, OperationsIn(known.qubits, known.clbits, s))

-----------------------------------------------------------------------------
(***************************************************************************)
(* Custom gates are inlined, and where each call landed is recorded.       *)
(***************************************************************************)
\* The formal's name is replaced wherever it is a word of the operand: all of
\* it, or what an index stands behind.
Renamed(o, wire, actual) ==
    IF o.register # wire THEN o
    ELSE IF o.index = Whole THEN actual
    ELSE IF actual.index = Whole THEN BitOf(actual.register, o.index)
    ELSE Malformed

Given(p, formal, actual) == IF p = Name(formal) THEN actual ELSE p

\* substituteGateBody: one formal after the other, each in the text that the
\* last has left, the operands already put there included.
SubstituteGateBody(s, definition, call) ==
    LET parameters == FoldLeftDomain(LAMBDA ps, k :
                        [i \in DOMAIN ps |-> Given(ps[i], definition.formals[k], call.parameters[k])],
                        s.parameters, definition.formals)
        operands == FoldLeftDomain(LAMBDA os, k :
                        [i \in DOMAIN os |-> Renamed(os[i], definition.wires[k], call.operands[k])],
                        s.operands, definition.wires)
    IN  [s EXCEPT !.parameters = parameters, !.operands = operands]

IsCustom(definitions, s) == s.is = "call" /\ s.name \in DOMAIN definitions

Fits(definitions, call) ==
    /\ Len(call.operands) = Len(definitions[call.name].wires)
    /\ Len(call.parameters) = Len(definitions[call.name].formals)

\* Every custom call among the items is replaced by its body, between marks.
Inlined(definitions, items, depth, Substitute(_, _, _)) ==
    FlattenSeq([i \in DOMAIN items |->
        LET s == items[i]
        IN  IF IsCustom(definitions, s) /\ Fits(definitions, s)
            THEN LET d == definitions[s.name]
                     body == [k \in DOMAIN d.body |-> Substitute(d.body[k], d, s)]
                 IN  <<[is |-> "enter", call |-> s, depth |-> depth]>> \o body
                     \o <<[is |-> "leave", call |-> s, depth |-> depth]>>
            ELSE <<s>>])

\* expandCustomGate; what is still a custom call has a wrong number of
\* arguments or expands into itself.
Expansion(definitions, call, Substitute(_, _, _)) ==
    FoldLeft(LAMBDA items, depth : Inlined(definitions, items, depth, Substitute),
             <<call>>, [d \in 1 .. MaxExpansion + 1 |-> d - 1])

ReadItem(reader, item) ==
    CASE item.is = "enter" -> [reader EXCEPT !.opened = Append(@, Len(reader.ops))]
      [] item.is = "leave" ->
            [reader EXCEPT !.opened = Front(@),
                           !.spans = Append(@, [name |-> item.call.name, depth |-> item.depth,
                                                start |-> Last(reader.opened), end |-> Len(reader.ops)])]
      [] OTHER -> IF IsCustom(reader.definitions, item) THEN Fails(reader)
                  ELSE ApplyStatement(reader, item)

ExpandCustomGate(reader, call) ==
    FoldLeft(ReadItem, Loses(reader, "custom_gate_definition", TRUE),
             Expansion(reader.definitions, call, SubstituteGateBody))

-----------------------------------------------------------------------------
(* The brace that closes the block opened after position i, or 0.          *)
Braces(program, from, to, brace) ==
    Cardinality({k \in from .. to : program[k].is = brace})

ClosingBrace(program, i) ==
    LET closed == {j \in i + 1 .. Len(program) :
                     /\ program[j].is = "}"
                     /\ Braces(program, i + 1, j, "{") <= Braces(program, i + 1, j, "}")}
    IN  IF closed = {} THEN 0 ELSE Min(closed)

DefineGate(reader, program, i) ==
    LET s == program[i]
        close == ClosingBrace(program, i)
        body == SelectSeq(SubSeq(program, i + 1, close - 1), LAMBDA t : t.is \notin {"{", "}"})
        definition == [formals |-> s.formals, wires |-> s.wires, body |-> body]
    IN  IF s.wires = <<>> \/ close = 0 THEN Fails(reader)
        ELSE [reader EXCEPT !.definitions = (s.name :> definition) @@ @, !.until = close]

Declare(reader, s) ==
    LET taken == IF s.kind = "qubit" THEN reader.qubits ELSE reader.clbits
        lossy == Loses(reader, "openqasm2_register_syntax", s.legacy)
    IN  IF Named(taken, s.register.name) # <<>> THEN Fails(reader)
        ELSE IF s.kind = "qubit" THEN [lossy EXCEPT !.qubits = Append(@, s.register)]
        ELSE [lossy EXCEPT !.clbits = Append(@, s.register)]

\* A condition replaces the one that is pending, and is spent on the rest of
\* its own statement.
ReadCondition(reader, s) ==
    LET read == [reader EXCEPT !.pending = {s.test}]
    IN  IF ~Resolvable(reader.clbits, BitOf(s.test.register, s.test.bit)) THEN Fails(reader)
        ELSE IF s.body = <<>> THEN read
        ELSE [ApplyStatement(read, s.body[1]) EXCEPT !.pending = {}]

ReadVersion(reader, s) ==
    IF s.number \notin {2, 3} THEN Fails(reader)
    ELSE [Loses(reader, "openqasm2_source", s.number = 2) EXCEPT !.version = TRUE]

\* Fault: the condition outlives its block.
CloseBlock_KeepsCondition(reader) ==
    IF reader.depth = 0 THEN reader ELSE [reader EXCEPT !.depth = @ - 1]

CloseBlock(reader) ==
    IF reader.depth = 0 THEN reader
    ELSE [reader EXCEPT !.depth = @ - 1, !.pending = IF reader.depth = 1 THEN {} ELSE @]

ReadStatement(reader, program, i) ==
    LET s == program[i]
    IN  IF reader.failed \/ i <= reader.until THEN reader
        ELSE CASE s.is = "{"           -> [reader EXCEPT !.depth = IF reader.pending = {} THEN @ ELSE @ + 1]
               [] s.is = "}"           -> CloseBlock(reader)
               [] s.is = "gate"        -> DefineGate(reader, program, i)
               [] s.is = "OPENQASM"    -> ReadVersion(reader, s)
               [] s.is = "include"     -> IF s.file \in {"stdgates.inc", "qelib1.inc"} THEN reader
                                          ELSE Fails(reader)
               [] s.is = "unsupported" -> Fails(reader)
               [] s.is = "if"          -> ReadCondition(reader, s)
               [] s.is = "declare"     -> Declare(reader, s)
               [] OTHER                -> IF IsCustom(reader.definitions, s)
                                          THEN ExpandCustomGate(reader, s)
                                          ELSE ApplyStatement(reader, s)

ParseQasm3(program) ==
    LET last == FoldLeftDomain(LAMBDA reader, i : ReadStatement(reader, program, i),
                               InitialReader, program)
    IN  Loses(last, "version_declaration", ~last.version)

-----------------------------------------------------------------------------
(***************************************************************************)
(* emitQasm3 and emitQasm2.                                                *)
(***************************************************************************)
FormatOperation(op, legacy) ==
    LET plain == CASE op.kind = "gate"    -> Call(op.name, op.parameters, op.qubits)
                   [] op.kind = "measure" -> Measuring(legacy, op.qubits[1], op.clbits[1])
                   [] OTHER               -> Doing(op.kind, op.qubits)
    IN  IF op.cond = {} THEN plain
        ELSE LET test == CHOOSE t \in op.cond : TRUE
             IN  When(test.register, test.bit, test.equals, <<plain>>)

Formatted(circuit, virtual, version, file) ==
    LET legacy == version = 2
    IN  <<Version(version), Include(file)>>
        \o [i \in DOMAIN virtual |-> Declaration("qubit", virtual[i].name, virtual[i].size, legacy)]
        \o [i \in DOMAIN circuit.clbits |->
                Declaration("bit", circuit.clbits[i].name, circuit.clbits[i].size, legacy)]
        \o [i \in DOMAIN circuit.ops |-> FormatOperation(circuit.ops[i], legacy)]

EmitQasm3(circuit) ==
    LET IsVirtual(r) == r.name # PHYSICAL_QUBIT_REGISTER
    IN  Formatted(circuit, SelectSeq(circuit.qubits, IsVirtual), 3, "stdgates.inc")

QELIB1_GATES ==
    {"u3", "u2", "u1", "cx", "id", "u0", "u", "p", "x", "y", "z", "h", "s", "sdg", "t", "tdg", "rx", "ry",
     "rz", "sx", "sxdg", "cz", "cy", "swap", "ch", "ccx", "cswap", "crx", "cry", "crz", "cu1", "cp", "cu3",
     "csx", "cu", "rxx", "rzz", "rccx", "rc3x", "c3x", "c3sqrtx", "c4x"}

\* What OpenQASM 2 cannot say is refused.
HasQasm2Form(circuit) ==
    /\ Named(circuit.qubits, PHYSICAL_QUBIT_REGISTER) = <<>>
    /\ \A op \in ToSet(circuit.ops) :
        /\ \A test \in op.cond : test.bit = Whole
        /\ op.kind = "gate" => op.name \in QELIB1_GATES

EmitQasm2(circuit) == Formatted(circuit, circuit.qubits, 2, "qelib1.inc")

-----------------------------------------------------------------------------
(***************************************************************************)
(* What a program says: the language's own reading, by its blocks.         *)
(***************************************************************************)
IsBlock(program, i) ==
    /\ program[i].is = "gate" \/ (program[i].is = "if" /\ program[i].body = <<>>)
    /\ i < Len(program) /\ program[i + 1].is = "{"

Inside(program, block, i) == block < i /\ i < ClosingBrace(program, block)

Inner(program, i, kind) ==
    {b \in DOMAIN program : program[b].is = kind /\ IsBlock(program, b) /\ Inside(program, b, i)}

\* Braces belong to blocks, a block without braces is none, gates are
\* declared at the top and say nothing but calls and barriers.
WellFormed(program) ==
    /\ \A i \in DOMAIN program :
        /\ program[i].is = "{" => i > 1 /\ IsBlock(program, i - 1) /\ ClosingBrace(program, i - 1) # 0
        /\ program[i].is = "}" => \E b \in DOMAIN program : IsBlock(program, b) /\ ClosingBrace(program, b) = i
        /\ program[i].is = "gate" \/ (program[i].is = "if" /\ program[i].body = <<>>) => IsBlock(program, i)
        /\ program[i].is = "gate" => Inner(program, i, "if") = {} /\ Inner(program, i, "gate") = {}
        /\ Inner(program, i, "gate") # {} => program[i].is \in {"call", "barrier", "{"}

\* The conditions an operation written at i is under.
Conditions(program, i) ==
    {program[b].test : b \in Inner(program, i, "if")}
    \cup (IF program[i].is = "if" THEN {program[i].test} ELSE {})

\* The gates declared before i; of two with one name, the later.
GatesBefore(program, i) ==
    LET declared == {b \in 1 .. i - 1 : program[b].is = "gate"}
        Latest(name) == Max({b \in declared : program[b].name = name})
        Body(b) == SubSeq(program, b + 2, ClosingBrace(program, b) - 1)
    IN  [name \in {program[b].name : b \in declared} |->
            LET b == Latest(name)
            IN  [formals |-> program[b].formals, wires |-> program[b].wires, body |-> Body(b)]]

\* Every formal at once.
Bound(s, definition, call) ==
    LET Actual(names, o, name, actuals) ==
            LET at == {k \in DOMAIN names : names[k] = name}
            IN  IF at = {} THEN o ELSE actuals[CHOOSE k \in at : TRUE]
    IN  [s EXCEPT
            !.parameters = [i \in DOMAIN @ |-> Actual(definition.formals, @[i], @[i].name, call.parameters)],
            !.operands = [i \in DOMAIN @ |-> Actual(definition.wires, @[i], @[i].register, call.operands)]]

Unmarked(items) == SelectSeq(items, LAMBDA t : t.is \notin {"enter", "leave"})

\* The operations written at i, without their conditions.
WrittenAt(program, i, qubits, clbits) ==
    LET s == program[i]
        does == IF s.is = "if" THEN s.body ELSE <<s>>
        all == IF does = <<>> \/ Inner(program, i, "gate") # {} THEN <<>>
               ELSE IF IsCustom(GatesBefore(program, i), does[1])
               THEN Unmarked(Expansion(GatesBefore(program, i), does[1], Bound))
               ELSE SelectSeq(does, LAMBDA t : t.is \in {"call", "measure", "reset", "barrier"})
    IN  FlattenSeq([k \in DOMAIN all |-> OperationsIn(qubits, clbits, all[k])])

Written(program, qubits, clbits) ==
    FlattenSeq([i \in DOMAIN program |->
        LET ops == WrittenAt(program, i, qubits, clbits)
        IN  [k \in DOMAIN ops |-> [ops[k] EXCEPT !.cond = Conditions(program, i)]]])

\* What the adapter takes for something else without a word: a condition
\* within a block of another one, a register or a custom gate after a
\* condition on one line, a custom gate called with an operand, or a bit of
\* one, or a parameter, that is named like one of its later formals.
TakenWrongly(program, qubits) ==
    \E i \in DOMAIN program :
        \/ Cardinality(Conditions(program, i)) > 1
        \/ /\ program[i].is = "if" /\ program[i].body # <<>>
           /\ \/ IsCustom(GatesBefore(program, i), program[i].body[1])
              \/ program[i].body[1].is = "call" /\ Widths(qubits, program[i].body[1]) # {1}
        \/ /\ Inner(program, i, "gate") = {}
           /\ IsCustom(GatesBefore(program, i), program[i])
           /\ \E item \in ToSet(Expansion(GatesBefore(program, i), program[i], Bound)) :
                /\ item.is = "enter"
                /\ LET d == GatesBefore(program, i)[item.call.name]
                   IN  \/ \E k \in DOMAIN d.wires : \E m \in k + 1 .. Len(d.wires) :
                            item.call.operands[k].register = d.wires[m]
                       \/ \E k \in DOMAIN d.formals : \E m \in k + 1 .. Len(d.formals) :
                            item.call.parameters[k] = Name(d.formals[m])

=============================================================================
