----------------------------- MODULE ExecuteCfg -----------------------------
(***************************************************************************)
(* What a compiled function does: the LLVM instructions codegen.c emits    *)
(* for a control flow graph, executed.  Values are bits, in integers of    *)
(* ByteBits and IntBits instead of 8 and 32; every local variable has a    *)
(* place in memory, of one cell for each scalar in it.                     *)
(*                                                                         *)
(* A cell that was never stored to can be copied around.  Anything else    *)
(* done with it, division by zero and memory accesses that go past a       *)
(* variable end the execution as undefined.  The code that calls the       *)
(* function passes a pointer into a buffer of bytes of its own; functions  *)
(* called by it touch nothing and return any answer.                       *)
(***************************************************************************)
EXTENDS Integers, Ast, Cfg, SequencesExt

CONSTANTS ByteBits, IntBits,
          IntAnswers,    \* what called functions that return an integer return
          Inputs,        \* arguments and buffers the function is called with
          MaxCalls       \* calls that are followed

VARIABLES
    code,      \* the function: [graph, signature, callees, structs]
    pc, ip,    \* block and instruction
    memory,    \* cells of the variables and of the buffer
    input,     \* how the function was called: [arguments, buffer]
    trace,     \* calls made so far: [name, args, answer]
    outcome    \* [status, value, buffer]

executionVars == <<code, pc, ip, memory, input, trace, outcome>>
-----------------------------------------------------------------------------
Width(t) == CASE t = boolType -> 1 [] t = byteType -> ByteBits [] OTHER -> IntBits
\* An LLVM integer is signed or not only to those who look at it.
Signed(n, t) == IF n < 2 ^ (Width(t) - 1) THEN n ELSE n - 2 ^ Width(t)
Number(n, t) == IF t = intType THEN Signed(n, t) ELSE n

Buffer == -1
Null == NoVar
Cell(n, to) == [n |-> n, to |-> to, set |-> TRUE]
Bits(n, t) == Cell(n % (2 ^ Width(t)), Null)
Bool(condition) == Bits(IF condition THEN 1 ELSE 0, boolType)
NeverStored == [Cell(0, Null) EXCEPT !.set = FALSE]

\* codegen_type, as far as sizes go.  The fields of structs are scalars.
FieldTypes(t) == IF t[1] = "struct" THEN StructOf(code.structs, t).fieldtypes ELSE <<t>>
Size(t) == Len(FieldTypes(t))
TypeOfVar(v) == VariableOf(code.graph, v).type

Accessible(p, size) ==
    p.set /\ p.to \in DOMAIN memory /\ p.n >= 0 /\ p.n + size <= Len(memory[p.to])
Stored(p, cells) ==
    [memory EXCEPT ![p.to] = [i \in DOMAIN @ |-> IF i - p.n \in DOMAIN cells THEN cells[i - p.n]
                                                 ELSE @[i]]]
Quotient(m, n) ==
    LET abs(k) == IF k < 0 THEN -k ELSE k
    IN  IF (m < 0) = (n < 0) THEN abs(m) \div abs(n) ELSE -(abs(m) \div abs(n))
-----------------------------------------------------------------------------
BlockOfCode == code.graph.block[pc]
Executing == outcome.status = "running" /\ ip <= Len(BlockOfCode.instructions)
Ins == BlockOfCode.instructions[ip]
Cells(i) == memory[Ins.operands[i]]
Operand(i) == Cells(i)[1]
OperandType(i) == TypeOfVar(Ins.operands[i])
Dest == TypeOfVar(Ins.destvar)

\* Indexes that are unsigned are extended first, LLVM takes all for signed.
Index == IF OperandType(2) = intType THEN Signed(Operand(2).n, intType) ELSE Operand(2).n

codegen_constant(c) ==
    CASE c.value \in {"TRUE", "FALSE"} -> Bool(c.value = "TRUE")
      [] c.value = "NULL" -> Cell(0, Null)
      [] c.value = "integer" -> Bits(c.number, Dest)

\* sext, zext and trunc give the same bits as a conversion of the number.
IntCast == [Bits(Number(Operand(1).n, OperandType(1)), Dest) EXCEPT !.set = Operand(1).set]

\* The cells an instruction leaves in its destination.
Result ==
    LET x == Operand(1)
        y == Operand(2)
    IN  CASE Ins.kind = "CONSTANT" -> <<codegen_constant(Ins)>>
          [] Ins.kind \in {"VARCPY", "PTR_CAST"} -> Cells(1)
          [] Ins.kind = "ADDRESS_OF_VARIABLE" -> <<Cell(0, Ins.operands[1])>>
          [] Ins.kind = "PTR_LOAD" -> SubSeq(memory[x.to], x.n + 1, x.n + Size(Dest))
          [] Ins.kind = "PTR_STRUCT_FIELD" ->
                <<[x EXCEPT !.n = @ + FieldIndex(code.structs, valuetype(OperandType(1)), Ins.value) - 1]>>
          [] Ins.kind = "PTR_ADD_INT" -> <<[x EXCEPT !.n = @ + Index * Size(valuetype(Dest))]>>
          [] Ins.kind = "PTR_EQ" -> <<Bool(x = y)>>
          [] Ins.kind = "INT_CAST" -> <<IntCast>>
          [] Ins.kind = "BOOL_NEGATE" -> <<Bool(x.n = 0)>>
          [] Ins.kind = "INT_ADD" -> <<Bits(x.n + y.n, Dest)>>
          [] Ins.kind = "INT_SUB" -> <<Bits(x.n - y.n, Dest)>>
          [] Ins.kind = "INT_MUL" -> <<Bits(x.n * y.n, Dest)>>
          [] Ins.kind = "INT_SDIV" -> <<Bits(Quotient(Signed(x.n, Dest), Signed(y.n, Dest)), Dest)>>
          [] Ins.kind = "INT_UDIV" -> <<Bits(x.n \div y.n, Dest)>>
          [] Ins.kind = "INT_EQ" -> <<Bool(x.n = y.n)>>
          \* there is no unsigned less-than
          [] Ins.kind = "INT_LT" ->
                <<Bool(Signed(x.n, OperandType(1)) < Signed(y.n, OperandType(2)))>>

\* What LLVM gives no meaning to.
MayBeUnset == CASE Ins.kind \in {"VARCPY", "ADDRESS_OF_VARIABLE", "INT_CAST", "PTR_CAST"} -> {1}
                [] Ins.kind = "PTR_STORE" -> {2}
                [] OTHER -> {}
Overflows(x, y, t) == Signed(x.n, t) = -(2 ^ (Width(t) - 1)) /\ Signed(y.n, t) = -1
IsUndefined ==
    \/ \E i \in DOMAIN Ins.operands \ MayBeUnset : ~Operand(i).set
    \/ Ins.kind \in {"INT_SDIV", "INT_UDIV"} /\ Operand(2).n = 0
    \/ Ins.kind = "INT_SDIV" /\ Overflows(Operand(1), Operand(2), Dest)
    \/ Ins.kind = "PTR_LOAD" /\ ~Accessible(Operand(1), Size(Dest))
    \/ Ins.kind = "PTR_STORE" /\ ~Accessible(Operand(1), Len(Cells(2)))
    \/ Ins.kind = "PTR_MEMSET_TO_ZERO" /\ ~Accessible(Operand(1), Size(valuetype(OperandType(1))))
-----------------------------------------------------------------------------
Ended(status, value, buffer) == [status |-> status, value |-> value, buffer |-> buffer]
NoInput == [arguments |-> <<>>, buffer |-> <<>>]
NoCode == [graph |-> [all_blocks |-> <<>>, block |-> <<>>, variables |-> <<>>], callees |-> <<>>,
           structs |-> <<>>]

NoExecution ==
    /\ code = NoCode /\ pc = NoBlock /\ ip = 1 /\ memory = <<>> /\ input = NoInput /\ trace = <<>>
    /\ outcome = Ended("not called", <<>>, <<>>)

\* A call of the function.  The arguments go into its first variables.
Enter(module) ==
    /\ code' = module
    /\ pc' = module.graph.all_blocks[1]
    /\ ip' = 1
    /\ input' \in Inputs
    /\ outcome' = Ended("running", <<>>, <<>>)
    /\ UNCHANGED trace
    /\ LET variables == module.graph.variables
           argument(i) == IF variables[i].type[1] = "ptr" THEN Cell(input'.arguments[i], Buffer)
                          ELSE Bits(input'.arguments[i], variables[i].type)
           sizes == [v \in VarSet(module.graph) |->
                        LET t == VariableOf(module.graph, v).type
                        IN  IF t[1] = "struct" THEN Len(StructOf(module.structs, t).fieldtypes) ELSE 1]
       IN  memory' = [v \in VarSet(module.graph) \cup {Buffer} |->
                        IF v = Buffer
                        THEN [i \in DOMAIN input'.buffer |-> Bits(input'.buffer[i], byteType)]
                        ELSE IF \E i \in DOMAIN input'.arguments : variables[i].id = v
                        THEN <<argument(CHOOSE i \in DOMAIN input'.arguments : variables[i].id = v)>>
                        ELSE [i \in 1 .. sizes[v] |-> NeverStored]]

Undefined ==
    /\ outcome' = [outcome EXCEPT !.status = "undefined"]
    /\ UNCHANGED <<code, pc, ip, memory, input, trace>>

ExecuteInstruction ==
    /\ Executing
    /\ Ins.kind # "CALL"
    /\ ~IsUndefined
    /\ memory' = CASE Ins.kind = "PTR_STORE" -> Stored(Operand(1), Cells(2))
                   [] Ins.kind = "PTR_MEMSET_TO_ZERO" ->
                        Stored(Operand(1), [i \in 1 .. Size(valuetype(OperandType(1))) |-> Cell(0, Null)])
                   [] OTHER -> [memory EXCEPT ![Ins.destvar] = Result]
    /\ ip' = ip + 1
    /\ UNCHANGED <<code, pc, input, trace, outcome>>

Answers(t) == CASE t = boolType -> {0, 1} [] is_integer_type(t) -> IntAnswers [] OTHER -> {0}

ExecuteCall ==
    /\ Executing
    /\ Ins.kind = "CALL"
    /\ ~IsUndefined
    /\ Len(trace) < MaxCalls
    /\ \E sig \in ToSet(code.callees), answer \in IntAnswers \cup {0, 1} :
        /\ sig.funcname = Ins.value
        /\ answer \in Answers(sig.returntype)
        /\ trace' = Append(trace, [name |-> Ins.value, answer |-> answer,
                                   args |-> [i \in DOMAIN Ins.operands |->
                                                Number(Operand(i).n, OperandType(i))]])
        /\ memory' = IF Ins.destvar = NoVar THEN memory
                     ELSE [memory EXCEPT ![Ins.destvar] = <<Bits(answer, Dest)>>]
    /\ ip' = ip + 1
    /\ UNCHANGED <<code, pc, input, outcome>>

InstructionUndefined == Executing /\ IsUndefined /\ Undefined

AtEndOfBlock == outcome.status = "running" /\ ip > Len(BlockOfCode.instructions)
Branch == memory[BlockOfCode.branchvar][1]

ExecuteJump ==
    /\ AtEndOfBlock
    /\ pc # EndBlock
    /\ Conditional(code.graph, pc) => Branch.set
    /\ pc' = IF Conditional(code.graph, pc) /\ Branch.n = 0 THEN BlockOfCode.iffalse
             ELSE BlockOfCode.iftrue
    /\ ip' = 1
    /\ UNCHANGED <<code, memory, input, trace, outcome>>

JumpUndefined ==
    /\ AtEndOfBlock
    /\ pc # EndBlock
    /\ Conditional(code.graph, pc) /\ ~Branch.set
    /\ Undefined

\* A function that returns a value ends in an unreachable instruction when its
\* return variable was thrown away.
ReturnUndefined ==
    /\ AtEndOfBlock
    /\ pc = EndBlock
    /\ code.signature.returntype # NoType
    /\ \A v \in ReturnSlots(code.graph) : ~memory[v][1].set
    /\ Undefined

ReturnFromFunction ==
    /\ AtEndOfBlock
    /\ pc = EndBlock
    /\ LET slots == ReturnSlots(code.graph)
           returned == memory[CHOOSE v \in slots : TRUE][1]
           buffer == [i \in DOMAIN memory[Buffer] |-> memory[Buffer][i].n]
       IN  IF code.signature.returntype = NoType THEN outcome' = Ended("returned", <<>>, buffer)
           ELSE /\ slots # {} /\ returned.set
                /\ outcome' = Ended("returned",
                                    <<Number(returned.n, code.signature.returntype)>>, buffer)
    /\ UNCHANGED <<code, pc, ip, memory, input, trace>>

ExecuteStep ==
    \/ ExecuteInstruction \/ ExecuteCall \/ ExecuteJump \/ ReturnFromFunction
    \/ InstructionUndefined \/ JumpUndefined \/ ReturnUndefined
=============================================================================
