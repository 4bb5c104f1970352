------------------------------ MODULE Frontend ------------------------------
(***************************************************************************)
(* build_control_flow_graphs: a parsed file, one toplevel node after the   *)
(* other.  Each function is checked and then built, out of one TypeContext *)
(* and one struct State the functions share.                               *)
(***************************************************************************)
EXTENDS TypeCheck, BuildCfg

CONSTANT Files    \* the files that may be compiled: sequences of toplevel nodes

VARIABLES
    file,        \* the file being compiled
    node,        \* ast: index of the next toplevel node
    stage,       \* "check" between functions, "build", "done" or "failed"
    typectx,     \* result.typectx
    graphs,      \* result.graphs
    stopped_by   \* what the type checker stopped with, NoStop if it did not

frontendVars == <<file, node, stage, typectx, graphs, stopped_by>>
vars == <<buildVars, frontendVars>>

NullGraph == [all_blocks |-> <<>>, block |-> <<>>, variables |-> <<>>]
NoFunction == [variables |-> <<>>, returntype |-> NoType, structs |-> <<>>, line |-> 0,
               body |-> <<>>]

Init ==
    /\ file \in Files
    /\ node = 1
    /\ stage = "check"
    /\ typectx = EmptyContext
    /\ graphs = <<>>
    /\ stopped_by = NoStop
    /\ function = NoFunction
    /\ st = FreshState(NoFunction)
    /\ agenda = <<>>
    /\ values = <<>>
    /\ build_error = ""

NodeIs(kind) == stage = "check" /\ file[node].kind = kind

CheckFails(r) ==
    /\ IsStop(r.stop)
    /\ stopped_by' = r.stop
    /\ stage' = "failed"
    /\ UNCHANGED <<buildVars, file, node, typectx, graphs>>

DeclareFunction ==
    /\ NodeIs("DECLARE_FUNCTION")
    /\ \E r \in {typecheck_function(typectx, file[node].signature, <<>>, file[node].line)} :
           \/ CheckFails(r)
           \/ /\ ~IsStop(r.stop)
              /\ typectx' = r.ctx
              /\ graphs' = Append(graphs, NullGraph)
              /\ node' = node + 1
              /\ UNCHANGED <<buildVars, file, stage, stopped_by>>

DefineStruct ==
    /\ NodeIs("DEFINE_STRUCT")
    /\ \E r \in {typecheck_struct(typectx, file[node], file[node].line)} :
           \/ CheckFails(r)
           \/ /\ ~IsStop(r.stop)
              /\ typectx' = r.ctx
              /\ node' = node + 1
              /\ UNCHANGED <<buildVars, file, stage, graphs, stopped_by>>

DefineFunction ==
    /\ NodeIs("DEFINE_FUNCTION")
    /\ \E r \in {typecheck_function(typectx, file[node].signature, <<file[node].body>>,
                                     file[node].line)} :
           \/ CheckFails(r)
           \/ /\ ~IsStop(r.stop)
              /\ typectx' = r.ctx
              /\ function' = [variables |-> r.ctx.variables,
                              returntype |-> Last(r.ctx.function_signatures).returntype,
                              structs |-> r.ctx.structs, line |-> file[node].line,
                              body |-> r.checked[1]]
              /\ st' = FreshState(function')
              /\ agenda' = FreshAgenda(function')
              /\ stage' = "build"
              /\ UNCHANGED <<values, build_error, file, node, graphs, stopped_by>>

Build == stage = "build" /\ BuildStep /\ UNCHANGED frontendVars

\* (mutant) The variables of one function are still there in the next.
FinishFunction_without_reset ==
    /\ stage = "build"
    /\ BuildDone
    /\ graphs' = Append(graphs, BuiltCfg)
    /\ typectx' = [typectx EXCEPT !.variables = st.variables]
    /\ node' = node + 1
    /\ stage' = "check"
    /\ UNCHANGED <<buildVars, file, stopped_by>>

\* The variables go into the graph and the context is reset.
FinishFunction ==
    /\ stage = "build"
    /\ BuildDone
    /\ graphs' = Append(graphs, BuiltCfg)
    /\ typectx' = reset_type_context(typectx)
    /\ node' = node + 1
    /\ stage' = "check"
    /\ UNCHANGED <<buildVars, file, stopped_by>>

BuildFails ==
    /\ stage = "build"
    /\ build_error # ""
    /\ stage' = "failed"
    /\ UNCHANGED <<buildVars, file, node, typectx, graphs, stopped_by>>

EndOfFile ==
    /\ NodeIs("END_OF_FILE")
    /\ stage' = "done"
    /\ UNCHANGED <<buildVars, file, node, typectx, graphs, stopped_by>>

Stopped == stage \in {"done", "failed"} /\ UNCHANGED vars

CompileStep ==
    \/ DeclareFunction \/ DefineStruct \/ DefineFunction
    \/ Build \/ FinishFunction \/ BuildFails \/ EndOfFile
Next == CompileStep \/ Stopped
Spec == Init /\ [][Next]_vars
-----------------------------------------------------------------------------
\* Nothing is left over between two toplevel nodes, and what the lists hold
\* is made of types of the language.
TypesOf(sequence) == {sequence[i].type : i \in DOMAIN sequence}
IsType(t) ==
    /\ t # NoType
    /\ t[Len(t)] \in {"bool", "int", "byte", "uint32", "void*"}
        \cup {typectx.structs[i].name : i \in DOMAIN typectx.structs}
TypeOK ==
    /\ stage \in {"check", "build", "done", "failed"}
    /\ node \in DOMAIN file
    /\ \A t \in TypesOf(typectx.variables) \cup TypesOf(st.variables) : IsType(t)
    /\ stage = "check" => typectx.current_function_signature = 0 /\ typectx.variables = <<>>
    /\ stopped_by.kind \in {"", "ERROR", "CRASH"}

\* No assertion of typecheck.c fails and nothing dereferences NULL there.
CheckerDoesNotCrash == stopped_by.kind # "CRASH"
-----------------------------------------------------------------------------
\* What the assertions of build_cfg.c say about the results of the calls an
\* expression has made: no call that was to return a value returned NULL, and
\* the types are what the checker promised.
IsVariable(name) == \E i \in DOMAIN st.variables : st.variables[i].name = name
PointsToStruct(t, field) ==
    /\ t[1] = "ptr" /\ valuetype(t)[1] = "struct"
    /\ HasField(st.structs, valuetype(t), field)
Castable(from, to) ==
    \/ from = to
    \/ is_pointer_type(from) /\ is_pointer_type(to)
    \/ is_integer_type(from) /\ is_integer_type(to)

ArgumentsOK(e, args) ==
    LET t(i) == TypeOf(st, args[i])
    IN  /\ \A i \in DOMAIN args : args[i] # NoVar
        /\ e.kind = "GET_VARIABLE" => IsVariable(e.name)
        /\ e.kind \in ArithmeticKinds =>
                \/ is_integer_type(t(1)) /\ is_integer_type(t(2))
                \/ is_pointer_type(t(1)) /\ is_pointer_type(t(2))
        /\ e.kind \in IncrementKinds =>
                t(1)[1] = "ptr" /\ (is_integer_type(valuetype(t(1))) \/ is_pointer_type(valuetype(t(1))))
        /\ e.kind = "AS" => Castable(t(1), e.type)
AddressArgumentsOK(e, args) ==
    LET t(i) == TypeOf(st, args[i])
    IN  /\ \A i \in DOMAIN args : args[i] # NoVar
        /\ e.kind = "GET_VARIABLE" => IsVariable(e.name)
        /\ e.kind \in {"GET_FIELD", "DEREF_AND_GET_FIELD"} => PointsToStruct(t(1), e.name)
        /\ e.kind = "INDEXING" => t(1)[1] = "ptr" /\ is_integer_type(t(2))

\* The value an expression ends up with has the type the checker gave it.
ResultOK(e, r) ==
    r.v # NoVar =>
        /\ TypeOf(r.s, r.v) = e.type
        /\ e.type_after_cast # NoType => Castable(e.type, e.type_after_cast)

StatementOK(s, args) ==
    /\ \A i \in DOMAIN args : args[i] # NoVar \/ s.kind = "EXPRESSION_STATEMENT"
    /\ s.kind = "ASSIGN" => IF s.target.kind = "GET_VARIABLE" THEN IsVariable(s.target.name)
                            ELSE TypeOf(st, args[1])[1] = "ptr"
    /\ s.kind = "DECLARE_LOCAL_VAR" => IsVariable(s.name)
    /\ s.kind = "RETURN_VALUE" => IsVariable("return")

\* The assertions of build_cfg.c, at the point of each: the checker let
\* nothing through that the builder cannot build.
BuilderAssertionsHold ==
    /\ IsNext("expression_result") =>
        LET args == LastValues(Len(ExpressionCalls(Top.e)))
        IN  /\ ArgumentsOK(Top.e, args)
            /\ ResultOK(Top.e, ExpressionResult(st, Top.e, args))
    /\ IsNext("address_result") => AddressArgumentsOK(Top.e, LastValues(Len(AddressCalls(Top.e))))
    /\ IsNext("struct_field") => PointsToStruct(TypeOf(st, Top.ptr), Top.e.argnames[Top.i])
    /\ IsNext("statement_result") => StatementOK(Top.s, LastValues(Len(StatementCalls(Top.s))))
    /\ \A call \in {"lhs_evaluated", "if_condition", "loop_condition"} :
            IsNext(call) => TypeOf(st, Returned) = boolType
    /\ IsNext("loop_body_done") =>
            Last(st.breakstack) = Top.l.done /\ Last(st.continuestack) = Top.l.incr
    /\ stage = "done" => Len(graphs) = Len(typectx.function_signatures)

\* build_address_of_expression is only asked for addresses there are.
AddressesExist == build_error # "assertion failed"

-----------------------------------------------------------------------------
\* What LLVM's verifier wants of an instruction: t are the operands' types, d
\* the destination's, calls the signatures the function knew.
CallTyped(ins, t, d, calls) ==
    \E sig \in calls :
        /\ sig.funcname = ins.value
        /\ sig.returntype = d
        /\ IF sig.takes_varargs THEN IsPrefix(sig.argtypes, t) ELSE sig.argtypes = t
InstructionTyped(ins, t, d, calls) ==
    CASE ins.kind = "CALL" -> CallTyped(ins, t, d, calls)
      [] ins.kind = "VARCPY" -> t = <<d>>
      [] ins.kind = "CONSTANT" ->
            CASE ins.value \in {"TRUE", "FALSE"} -> d = boolType
              [] ins.value = "NULL" -> d = voidPtrType
              [] ins.value = "string" -> d = get_pointer_type(byteType)
              [] OTHER -> is_integer_type(d)
      [] ins.kind \in {"INT_ADD", "INT_SUB", "INT_MUL", "INT_SDIV", "INT_UDIV"} ->
            t = <<d, d>> /\ is_integer_type(d)
      [] ins.kind \in {"INT_EQ", "INT_LT"} ->
            d = boolType /\ t[1] = t[2] /\ is_integer_type(t[1])
      [] ins.kind = "PTR_EQ" -> d = boolType /\ t[1] = t[2] /\ is_pointer_type(t[1])
      [] ins.kind = "BOOL_NEGATE" -> t = <<boolType>> /\ d = boolType
      [] ins.kind = "INT_CAST" -> is_integer_type(t[1]) /\ is_integer_type(d)
      [] ins.kind = "PTR_CAST" -> is_pointer_type(t[1]) /\ is_pointer_type(d)
      [] ins.kind = "ADDRESS_OF_VARIABLE" -> d = get_pointer_type(t[1])
      [] ins.kind = "PTR_LOAD" -> t = <<get_pointer_type(d)>>
      [] ins.kind = "PTR_STORE" -> t[1] = get_pointer_type(t[2])
      [] ins.kind = "PTR_ADD_INT" -> t[1] = d /\ is_pointer_type(d) /\ is_integer_type(t[2])
      [] ins.kind = "PTR_MEMSET_TO_ZERO" -> t[1][1] = "ptr"
      [] ins.kind = "PTR_STRUCT_FIELD" ->
            d = get_pointer_type(FieldType(typectx.structs, valuetype(t[1]), ins.value))

\* Every graph is valid LLVM IR as far as types go: operands have the types
\* their instruction wants, calls pass what the signature of an earlier
\* function, or the function itself, asks for, returned values have the type
\* of the function.  A checker that forgets a cast, or a builder that loses
\* one, breaks it in some nesting of expressions only.
InstructionsAreTyped ==
    stage = "check" /\ graphs # <<>> =>
        LET g == Last(graphs)
            type(v) == IF v = NoVar THEN NoType ELSE VariableOf(g, v).type
        IN  \A b \in BlockSet(g) : \A i \in DOMAIN g.block[b].instructions :
                LET ins == g.block[b].instructions[i]
                IN  InstructionTyped(ins, [o \in DOMAIN ins.operands |-> type(ins.operands[o])],
                                     type(ins.destvar), ToSet(typectx.function_signatures))

\* Graph and signature with the same index are about the same function: its
\* arguments come first and a slot for the returned value is there when one
\* is returned, whatever functions were compiled before it.
GraphsMatchSignatures ==
    stage = "check" =>
        /\ Len(graphs) = Len(typectx.function_signatures)
        /\ \A i \in DOMAIN graphs : graphs[i] # NullGraph =>
            LET g == graphs[i]
                sig == typectx.function_signatures[i]
                arguments == SelectSeq(g.variables, LAMBDA v : v.is_argument)
            IN  /\ IsPrefix(arguments, g.variables)
                /\ [a \in DOMAIN arguments |-> arguments[a].name] = sig.argnames
                /\ [a \in DOMAIN arguments |-> arguments[a].type] = sig.argtypes
                /\ {VariableOf(g, v).type : v \in ReturnSlots(g)} = {sig.returntype} \ {NoType}
=============================================================================
