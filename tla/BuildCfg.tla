------------------------------ MODULE BuildCfg ------------------------------
(***************************************************************************)
(* build_cfg.c: turning the typechecked body of one function into a        *)
(* control flow graph.                                                     *)
(*                                                                         *)
(* The C code recurses over the tree.  Here the calls still to be made are *)
(* the items of an agenda, innermost first, and what finished calls have   *)
(* returned (variables) waits on a stack of values.  Each item is one      *)
(* uninterrupted stretch of C between two recursive calls.                 *)
(***************************************************************************)
EXTENDS Integers, Ast, Cfg

VARIABLES
    function,    \* the definition being compiled
    st,          \* struct State, with the contents of the graph under construction
    agenda,      \* calls still to make, innermost first
    values,      \* variables returned by calls already made, latest last
    build_error  \* "" or the error compilation stopped with

buildVars == <<function, st, agenda, values, build_error>>
-----------------------------------------------------------------------------
add_variable(s, t) ==
    [s EXCEPT !.variables = Append(@, [id |-> Len(@) + 1, name |-> "", type |-> t,
                                       is_argument |-> FALSE])]
newest(s) == Len(s.variables)      \* the variable add_variable just returned
TypeOf(s, v) == s.variables[v].type

find_variable(s, name) ==
    CHOOSE v \in 1 .. Len(s.variables) :
        s.variables[v].name = name /\ \A w \in 1 .. v - 1 : s.variables[w].name # name

add_block(s) == [s EXCEPT !.block = Append(@, EmptyBlock)]
newblock(s) == Len(s.block)

\* new_current_block = NoBlock asks for a new block.
add_jump(s, branchvar, iftrue, iffalse, new_current_block) ==
    LET t == [s EXCEPT !.block[s.current_block].branchvar = branchvar,
                       !.block[s.current_block].iftrue = iftrue,
                       !.block[s.current_block].iffalse = iffalse]
    IN  IF new_current_block # NoBlock
        THEN [t EXCEPT !.current_block = new_current_block]
        ELSE [add_block(t) EXCEPT !.current_block = newblock(t) + 1]
Goto(s, target, new_current_block) == add_jump(s, NoVar, target, target, new_current_block)

\* value is the kind of constant, the function called or the field; number the
\* value of an integer constant; hide is hide_unreachable_warning.
Instruction(kind, value, operands, destvar, line, hide) ==
    [kind |-> kind, value |-> value, number |-> 0, operands |-> operands,
     destvar |-> destvar, line |-> line, hide |-> hide]
add_instruction(s, ins) ==
    [s EXCEPT !.block[s.current_block].instructions = Append(@, ins)]
Emit(s, line, kind, operands, destvar) ==
    add_instruction(s, Instruction(kind, "", operands, destvar, line, FALSE))
EmitNamed(s, line, kind, value, operands, destvar) ==
    add_instruction(s, Instruction(kind, value, operands, destvar, line, FALSE))
\* add_variable followed by the instruction that sets it.
EmitTo(s, line, kind, operands, t) ==
    Emit(add_variable(s, t), line, kind, operands, newest(s) + 1)
EmitConstant(s, line, value, number, destvar) ==
    add_instruction(s, [Instruction("CONSTANT", value, <<>>, destvar, line, FALSE)
                           EXCEPT !.number = number])
-----------------------------------------------------------------------------
\* The functions below return [s |-> state, v |-> variable].
build_cast(s, obj, to, line) ==
    IF TypeOf(s, obj) = to THEN [s |-> s, v |-> obj]
    ELSE [s |-> EmitTo(s, line,
                       IF is_pointer_type(TypeOf(s, obj)) THEN "PTR_CAST" ELSE "INT_CAST",
                       <<obj>>, to),
          v |-> newest(s) + 1]

build_struct_field_pointer(s, obj, fieldname, line) ==
    LET t == FieldType(s.structs, valuetype(TypeOf(s, obj)), fieldname)
    IN  EmitNamed(add_variable(s, get_pointer_type(t)), line, "PTR_STRUCT_FIELD", fieldname,
                  <<obj>>, newest(s) + 1)

build_binop(s, op, line, lhs, rhs, result_type) ==
    LET is_signed == intType \in {TypeOf(s, lhs), TypeOf(s, rhs)}
        k == CASE op = "ADD" -> "INT_ADD"
               [] op = "SUB" -> "INT_SUB"
               [] op = "MUL" -> "INT_MUL"
               [] op = "DIV" -> IF is_signed THEN "INT_SDIV" ELSE "INT_UDIV"
               [] op \in {"EQ", "NE"} ->
                    IF is_pointer_type(TypeOf(s, lhs)) /\ is_pointer_type(TypeOf(s, rhs))
                    THEN "PTR_EQ" ELSE "INT_EQ"
               [] OTHER -> "INT_LT"
        compared == EmitTo(s, line, k,
                           IF op \in {"GT", "LE"} THEN <<rhs, lhs>> ELSE <<lhs, rhs>>,
                           result_type)
    IN  IF op \in {"NE", "LE", "GE"}
        THEN [s |-> EmitTo(compared, line, "BOOL_NEGATE", <<newest(compared)>>, boolType),
              v |-> newest(compared) + 1]
        ELSE [s |-> compared, v |-> newest(compared)]

\* Its error for other types than integers and pointers cannot happen: the
\* same test has been made by check_increment_or_decrement of typecheck.c.
build_increment_or_decrement(s, kind, line, addr) ==
    LET t == valuetype(TypeOf(s, addr))
        old_value == newest(s) + 1
        new_value == old_value + 1
        diffvar == new_value + 1
        s1 == add_variable(add_variable(add_variable(s, t), t),
                           IF is_integer_type(t) THEN t ELSE intType)
        diff == IF kind \in {"PRE_INCREMENT", "POST_INCREMENT"} THEN 1 ELSE -1
        s2 == EmitConstant(s1, line, "integer", diff, diffvar)
        s3 == Emit(s2, line, "PTR_LOAD", <<addr>>, old_value)
        s4 == Emit(s3, line, IF is_integer_type(t) THEN "INT_ADD" ELSE "PTR_ADD_INT",
                   <<old_value, diffvar>>, new_value)
    IN  [s |-> Emit(s4, line, "PTR_STORE", <<addr, new_value>>, NoVar),
         v |-> IF kind \in {"PRE_INCREMENT", "PRE_DECREMENT"} THEN new_value ELSE old_value]
-----------------------------------------------------------------------------
\* Agenda items.
Evaluate(e) == [call |-> "build_expression", e |-> e]
TakeAddress(e) == [call |-> "build_address_of_expression", e |-> e]
Statement(s) == [call |-> "build_statement", s |-> s]
EvaluateAll(es) == [i \in DOMAIN es |-> Evaluate(es[i])]
Body(b) == [i \in DOMAIN b |-> Statement(b[i])]

\* The calls build_expression and build_address_of_expression make before
\* they emit anything of their own.
ExpressionCalls(e) ==
    CASE e.kind \in AddressableByPointer -> <<TakeAddress(e)>>
      [] e.kind \in IncrementKinds \cup {"ADDRESS_OF"} -> <<TakeAddress(e.operands[1])>>
      [] OTHER -> EvaluateAll(e.operands)
AddressCalls(e) ==
    IF e.kind = "GET_FIELD" THEN <<TakeAddress(e.operands[1])>>
    ELSE EvaluateAll(e.operands)

\* (mutant) The variable itself stands for its value.
ValueOfVariable_not_copied(s, e) == [s |-> s, v |-> find_variable(s, e.name)]

\* A snapshot, unless a cast is going to copy the value anyway.
ValueOfVariable(s, e) ==
    LET var == find_variable(s, e.name)
    IN  IF e.type_after_cast \in {NoType, e.type}
        THEN [s |-> EmitTo(s, e.line, "VARCPY", <<var>>, TypeOf(s, var)), v |-> newest(s) + 1]
        ELSE [s |-> s, v |-> var]

\* What build_expression does with the results of those calls, casts aside.
ExpressionResult(s, e, args) ==
    LET emitted(kind, operands, t) ==
            [s |-> EmitTo(s, e.line, kind, operands, t), v |-> newest(s) + 1]
    IN  CASE e.kind = "FUNCTION_CALL" ->
                IF e.type = NoType
                THEN [s |-> EmitNamed(s, e.line, "CALL", e.name, args, NoVar), v |-> NoVar]
                ELSE [s |-> EmitNamed(add_variable(s, e.type), e.line, "CALL", e.name, args,
                                      newest(s) + 1),
                      v |-> newest(s) + 1]
          [] e.kind \in AddressableByPointer \cup {"DEREFERENCE"} ->
                emitted("PTR_LOAD", args, e.type)
          [] e.kind = "ADDRESS_OF" -> [s |-> s, v |-> args[1]]
          [] e.kind = "GET_VARIABLE" -> ValueOfVariable(s, e)
          [] e.kind = "CONSTANT" ->
                [s |-> EmitConstant(add_variable(s, e.type), e.line, e.name, e.number,
                                    newest(s) + 1),
                 v |-> newest(s) + 1]
          [] e.kind = "NOT" -> emitted("BOOL_NEGATE", args, boolType)
          [] e.kind \in ArithmeticKinds ->
                build_binop(s, e.kind, e.line, args[1], args[2], e.type)
          [] e.kind \in IncrementKinds ->
                build_increment_or_decrement(s, e.kind, e.line, args[1])
          [] e.kind = "AS" -> build_cast(s, args[1], e.type, e.line)

AddressResult(s, e, args) ==
    LET emitted(kind, operands, t) ==
            [s |-> EmitTo(s, e.line, kind, operands, t), v |-> newest(s) + 1]
    IN  CASE e.kind = "GET_VARIABLE" ->
                LET var == find_variable(s, e.name)
                IN  emitted("ADDRESS_OF_VARIABLE", <<var>>, get_pointer_type(TypeOf(s, var)))
          [] e.kind = "DEREFERENCE" -> [s |-> s, v |-> args[1]]
          [] e.kind \in {"GET_FIELD", "DEREF_AND_GET_FIELD"} ->
                [s |-> build_struct_field_pointer(s, args[1], e.name, e.line),
                 v |-> newest(s) + 1]
          [] e.kind = "INDEXING" -> emitted("PTR_ADD_INT", args, TypeOf(s, args[1]))

\* The implicit cast every build_expression ends with (not for void calls).
Converted(r, e) ==
    IF r.v = NoVar \/ e.type_after_cast = NoType THEN r
    ELSE build_cast(r.s, r.v, e.type_after_cast, e.line)
-----------------------------------------------------------------------------
Top == agenda[1]
Later == Tail(agenda)
IsNext(name) == agenda # <<>> /\ build_error = "" /\ Top.call = name
LastValues(n) == SubSeq(values, Len(values) - n + 1, Len(values))
AllBut(n) == SubSeq(values, 1, Len(values) - n)
Returned == values[Len(values)]

\* What build_function starts from.
FreshState(f) ==
    [block |-> <<EmptyBlock, EmptyBlock>>, variables |-> f.variables, structs |-> f.structs,
     current_block |-> StartBlock, breakstack |-> <<>>, continuestack |-> <<>>]
FreshAgenda(f) == Body(f.body) \o <<[call |-> "implicit_return"]>>

BuildInit(functions) ==
    /\ function \in functions
    /\ st = FreshState(function)
    /\ agenda = FreshAgenda(function)
    /\ values = <<>>
    /\ build_error = ""

\* An expression other than and, or and a struct literal: first its operands.
BuildOperands ==
    /\ IsNext("build_expression")
    /\ Top.e.kind \notin {"AND", "OR", "BRACE_INIT"}
    /\ agenda' = ExpressionCalls(Top.e) \o <<[call |-> "expression_result", e |-> Top.e]>>
                    \o Later
    /\ UNCHANGED <<function, st, values, build_error>>

BuildExpression ==
    /\ IsNext("expression_result")
    /\ LET n == Len(ExpressionCalls(Top.e))
           r == Converted(ExpressionResult(st, Top.e, LastValues(n)), Top.e)
       IN  /\ st' = r.s
           /\ values' = Append(AllBut(n), r.v)
    /\ agenda' = Later
    /\ UNCHANGED <<function, build_error>>

BuildAddressOperands ==
    /\ IsNext("build_address_of_expression")
    /\ Top.e.kind \in AddressableKinds
    /\ agenda' = AddressCalls(Top.e) \o <<[call |-> "address_result", e |-> Top.e]>> \o Later
    /\ UNCHANGED <<function, st, values, build_error>>

\* The default case: assert(0).
BuildAddressAborts ==
    /\ IsNext("build_address_of_expression")
    /\ Top.e.kind \notin AddressableKinds
    /\ build_error' = "assertion failed"
    /\ UNCHANGED <<function, st, agenda, values>>

BuildAddressOfExpression ==
    /\ IsNext("address_result")
    /\ LET n == Len(AddressCalls(Top.e))
           r == AddressResult(st, Top.e, LastValues(n))
       IN  /\ st' = r.s
           /\ values' = Append(AllBut(n), r.v)
    /\ agenda' = Later
    /\ UNCHANGED <<function, build_error>>
-----------------------------------------------------------------------------
\* Short-circuit evaluation.  The left side, then a branch on it; the side
\* that needs the right operand evaluates it in its own block, the other
\* sets the result to a constant nobody wrote.
BuildAndOr ==
    /\ IsNext("build_expression")
    /\ Top.e.kind \in {"AND", "OR"}
    /\ agenda' = <<Evaluate(Top.e.operands[1]), [call |-> "lhs_evaluated", e |-> Top.e]>> \o Later
    /\ UNCHANGED <<function, st, values, build_error>>

ShortCircuit(s, e, value, result) ==
    add_instruction(s, Instruction("CONSTANT", value, <<>>, result, e.operands[1].line, TRUE))

\* The context of the rest of the call: the result variable and two blocks.
BuildAndOrBranch ==
    /\ IsNext("lhs_evaluated")
    /\ LET e == Top.e
           s == add_block(add_block(add_block(add_variable(st, boolType))))
           lhstrue == newblock(st) + 1
           context == [e |-> e, result |-> newest(s), lhsfalse |-> lhstrue + 1, done |-> lhstrue + 2]
           branched == add_jump(s, Returned, lhstrue, lhstrue + 1, lhstrue)
           rhs == <<Evaluate(e.operands[2]), [call |-> "rhs_evaluated", c |-> context]>>
       IN  IF e.kind = "AND"
           THEN /\ st' = branched
                /\ agenda' = rhs \o <<[call |-> "lhsfalse", c |-> context]>> \o Later
           ELSE /\ st' = Goto(ShortCircuit(branched, e, "TRUE", context.result),
                              context.done, context.lhsfalse)
                /\ agenda' = rhs \o <<[call |-> "and_or_done", c |-> context]>> \o Later
    /\ values' = AllBut(1)
    /\ UNCHANGED <<function, build_error>>

\* (mutant) The copy goes from the result to the right operand.
BuildAndOrCopy_backwards ==
    /\ IsNext("rhs_evaluated")
    /\ st' = Emit(st, Top.c.e.operands[2].line, "VARCPY", <<Top.c.result>>, Returned)
    /\ values' = AllBut(1)
    /\ agenda' = Later
    /\ UNCHANGED <<function, build_error>>

BuildAndOrCopy ==
    /\ IsNext("rhs_evaluated")
    /\ st' = Emit(st, Top.c.e.operands[2].line, "VARCPY", <<Returned>>, Top.c.result)
    /\ values' = AllBut(1)
    /\ agenda' = Later
    /\ UNCHANGED <<function, build_error>>

BuildAndFalse ==
    /\ IsNext("lhsfalse")
    /\ st' = ShortCircuit(Goto(st, Top.c.done, Top.c.lhsfalse), Top.c.e, "FALSE", Top.c.result)
    /\ agenda' = <<[call |-> "and_or_done", c |-> Top.c]>> \o Later
    /\ UNCHANGED <<function, values, build_error>>

BuildAndOrDone ==
    /\ IsNext("and_or_done")
    /\ LET joined == [s |-> Goto(st, Top.c.done, Top.c.done), v |-> Top.c.result]
           r == Converted(joined, Top.c.e)
       IN  /\ st' = r.s
           /\ values' = Append(values, r.v)
    /\ agenda' = Later
    /\ UNCHANGED <<function, build_error>>
-----------------------------------------------------------------------------
\* A struct literal: zero the instance through a pointer, then one field
\* after the other, its address before its value.
BuildStructInit ==
    /\ IsNext("build_expression")
    /\ Top.e.kind = "BRACE_INIT"
    /\ LET e == Top.e
           instance == newest(st) + 1
           s1 == EmitTo(add_variable(st, e.type), e.line, "ADDRESS_OF_VARIABLE",
                        <<instance>>, get_pointer_type(e.type))
       IN  /\ st' = Emit(s1, e.line, "PTR_MEMSET_TO_ZERO", <<newest(s1)>>, NoVar)
           /\ agenda' = [i \in DOMAIN e.operands |->
                            [call |-> "struct_field", e |-> e, i |-> i, ptr |-> newest(s1)]]
                        \o <<[call |-> "struct_done", e |-> e, instance |-> instance]>> \o Later
    /\ UNCHANGED <<function, values, build_error>>

BuildStructField ==
    /\ IsNext("struct_field")
    /\ LET arg == Top.e.operands[Top.i]
       IN  /\ st' = build_struct_field_pointer(st, Top.ptr, Top.e.argnames[Top.i], arg.line)
           /\ agenda' = <<Evaluate(arg), [call |-> "store_field", e |-> Top.e,
                                          fieldptr |-> newest(st) + 1]>> \o Later
    /\ UNCHANGED <<function, values, build_error>>

BuildStoreField ==
    /\ IsNext("store_field")
    /\ st' = Emit(st, Top.e.line, "PTR_STORE", <<Top.fieldptr, Returned>>, NoVar)
    /\ values' = AllBut(1)
    /\ agenda' = Later
    /\ UNCHANGED <<function, build_error>>

BuildStructDone ==
    /\ IsNext("struct_done")
    /\ LET r == Converted([s |-> st, v |-> Top.instance], Top.e)
       IN  /\ st' = r.s
           /\ values' = Append(values, r.v)
    /\ agenda' = Later
    /\ UNCHANGED <<function, build_error>>
-----------------------------------------------------------------------------
StatementIsNext(kinds) == IsNext("build_statement") /\ Top.s.kind \in kinds

\* Assignments, declarations, returned values and expression statements all
\* evaluate their operands first; StatementCalls gives them in order.
StatementCalls(s) ==
    CASE s.kind = "ASSIGN" ->
            IF s.target.kind = "GET_VARIABLE" THEN <<Evaluate(s.value)>>
            ELSE <<TakeAddress(s.target), Evaluate(s.value)>>
      [] s.kind = "DECLARE_LOCAL_VAR" -> EvaluateAll(s.initial_value)
      [] s.kind \in {"RETURN_VALUE", "EXPRESSION_STATEMENT"} -> <<Evaluate(s.expression)>>
      [] OTHER -> <<>>

ReturnJump(s) == Goto(s, EndBlock, NoBlock)

StatementResult(s, stmt, args) ==
    CASE stmt.kind = "ASSIGN" ->
            IF stmt.target.kind = "GET_VARIABLE"
            THEN Emit(s, stmt.line, "VARCPY", args, find_variable(s, stmt.target.name))
            ELSE Emit(s, stmt.line, "PTR_STORE", args, NoVar)
      [] stmt.kind = "DECLARE_LOCAL_VAR" ->
            IF args = <<>> THEN s
            ELSE Emit(s, stmt.line, "VARCPY", args, find_variable(s, stmt.name))
      [] stmt.kind = "RETURN_VALUE" ->
            ReturnJump(Emit(s, stmt.line, "VARCPY", args, find_variable(s, "return")))
      [] stmt.kind = "RETURN_WITHOUT_VALUE" -> ReturnJump(s)
      [] stmt.kind = "EXPRESSION_STATEMENT" -> s

BuildStatementOperands ==
    /\ StatementIsNext({"ASSIGN", "DECLARE_LOCAL_VAR", "RETURN_VALUE",
                        "RETURN_WITHOUT_VALUE", "EXPRESSION_STATEMENT"})
    /\ agenda' = StatementCalls(Top.s) \o <<[call |-> "statement_result", s |-> Top.s]>> \o Later
    /\ UNCHANGED <<function, st, values, build_error>>

BuildStatement ==
    /\ IsNext("statement_result")
    /\ LET n == Len(StatementCalls(Top.s))
       IN  /\ st' = StatementResult(st, Top.s, LastValues(n))
           /\ values' = AllBut(n)
    /\ agenda' = Later
    /\ UNCHANGED <<function, build_error>>

\* break and continue: jump out, and go on in a block nothing jumps to.
BuildJump(kind, stack, message) ==
    /\ StatementIsNext({kind})
    /\ IF stack = <<>>
       THEN build_error' = message /\ UNCHANGED <<st, agenda>>
       ELSE /\ st' = Goto(st, stack[Len(stack)], NoBlock)
            /\ agenda' = Later
            /\ UNCHANGED build_error
    /\ UNCHANGED <<function, values>>
BuildBreak == BuildJump("BREAK", st.breakstack, "'break' can only be used inside a loop")
BuildContinue == BuildJump("CONTINUE", st.continuestack, "'continue' can only be used inside a loop")
-----------------------------------------------------------------------------
\* The rest of an if statement from branch i on.
IfRest(s, i, done) ==
    IF i <= Len(s.if_and_elifs)
    THEN <<Evaluate(s.if_and_elifs[i].condition),
           [call |-> "if_condition", s |-> s, i |-> i, done |-> done]>>
    ELSE Body(s.elsebody) \o <<[call |-> "if_done", done |-> done]>>

BuildIf ==
    /\ StatementIsNext({"IF"})
    /\ st' = add_block(st)
    /\ agenda' = IfRest(Top.s, 1, newblock(st')) \o Later
    /\ UNCHANGED <<function, values, build_error>>

BuildIfCondition ==
    /\ IsNext("if_condition")
    /\ LET s == add_block(add_block(st))
           then == newblock(st) + 1
           otherwise == then + 1
       IN  /\ st' = add_jump(s, Returned, then, otherwise, then)
           /\ agenda' = Body(Top.s.if_and_elifs[Top.i].body)
                        \o <<[call |-> "if_body_done", s |-> Top.s, i |-> Top.i,
                              done |-> Top.done, otherwise |-> otherwise]>> \o Later
    /\ values' = AllBut(1)
    /\ UNCHANGED <<function, build_error>>

\* (mutant) After the body of a branch the next condition is built in the
\* block after the whole statement.
BuildIfBodyDone_in_done ==
    /\ IsNext("if_body_done")
    /\ st' = Goto(st, Top.done, Top.done)
    /\ agenda' = IfRest(Top.s, Top.i + 1, Top.done) \o Later
    /\ UNCHANGED <<function, values, build_error>>

BuildIfBodyDone ==
    /\ IsNext("if_body_done")
    /\ st' = Goto(st, Top.done, Top.otherwise)
    /\ agenda' = IfRest(Top.s, Top.i + 1, Top.done) \o Later
    /\ UNCHANGED <<function, values, build_error>>

BuildIfDone ==
    /\ IsNext("if_done")
    /\ st' = Goto(st, Top.done, Top.done)
    /\ agenda' = Later
    /\ UNCHANGED <<function, values, build_error>>
-----------------------------------------------------------------------------
\* Loops.  Four blocks first, then init in the current block.
BuildLoop ==
    /\ StatementIsNext({"WHILE", "FOR"})
    /\ LET n == newblock(st)
           loop == [s |-> Top.s, cond |-> n + 1, body |-> n + 2, incr |-> n + 3, done |-> n + 4]
       IN  agenda' = Body(Top.s.init) \o <<[call |-> "loop_entered", l |-> loop]>> \o Later
    /\ st' = add_block(add_block(add_block(add_block(st))))
    /\ UNCHANGED <<function, values, build_error>>

BuildLoopEntered ==
    /\ IsNext("loop_entered")
    /\ st' = Goto(st, Top.l.cond, Top.l.cond)
    /\ agenda' = <<Evaluate(Top.l.s.cond), [call |-> "loop_condition", l |-> Top.l]>> \o Later
    /\ UNCHANGED <<function, values, build_error>>

BuildLoopCondition ==
    /\ IsNext("loop_condition")
    /\ st' = [add_jump(st, Returned, Top.l.body, Top.l.done, Top.l.body)
                 EXCEPT !.breakstack = Append(@, Top.l.done),
                        !.continuestack = Append(@, Top.l.incr)]
    /\ agenda' = Body(Top.l.s.body) \o <<[call |-> "loop_body_done", l |-> Top.l]>> \o Later
    /\ values' = AllBut(1)
    /\ UNCHANGED <<function, build_error>>

WithoutLast(stack) == SubSeq(stack, 1, Len(stack) - 1)

BuildLoopBodyDone ==
    /\ IsNext("loop_body_done")
    /\ st' = [Goto(st, Top.l.incr, Top.l.incr)
                 EXCEPT !.breakstack = WithoutLast(@), !.continuestack = WithoutLast(@)]
    /\ agenda' = Body(Top.l.s.incr) \o <<[call |-> "loop_repeat", l |-> Top.l]>> \o Later
    /\ UNCHANGED <<function, values, build_error>>

BuildLoopRepeat ==
    /\ IsNext("loop_repeat")
    /\ st' = Goto(st, Top.l.cond, Top.l.done)
    /\ agenda' = Later
    /\ UNCHANGED <<function, values, build_error>>

\* build_function's last act: the implicit return.  Its jump goes out of
\* whatever block is current and opens no new one.
BuildImplicitReturn ==
    /\ IsNext("implicit_return")
    /\ st' = Goto(st, EndBlock, st.current_block)
    /\ agenda' = Later
    /\ UNCHANGED <<function, values, build_error>>

BuildStep ==
    \/ BuildOperands \/ BuildExpression
    \/ BuildAddressOperands \/ BuildAddressAborts \/ BuildAddressOfExpression
    \/ BuildAndOr \/ BuildAndOrBranch \/ BuildAndOrCopy \/ BuildAndFalse \/ BuildAndOrDone
    \/ BuildStructInit \/ BuildStructField \/ BuildStoreField \/ BuildStructDone
    \/ BuildStatementOperands \/ BuildStatement \/ BuildBreak \/ BuildContinue
    \/ BuildIf \/ BuildIfCondition \/ BuildIfBodyDone \/ BuildIfDone
    \/ BuildLoop \/ BuildLoopEntered \/ BuildLoopCondition
    \/ BuildLoopBodyDone \/ BuildLoopRepeat
    \/ BuildImplicitReturn
BuildDone == agenda = <<>>

\* The graph build_function returns.
BuiltCfg ==
    [all_blocks |-> [i \in DOMAIN st.block |-> i], block |-> st.block,
     variables |-> st.variables]
=============================================================================
