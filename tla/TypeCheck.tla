------------------------------ MODULE TypeCheck ------------------------------
(***************************************************************************)
(* typecheck.c: the types of expressions, the implicit casts between them  *)
(* and the variables and signatures of a function.  The C code hangs what  *)
(* it finds out on the tree's nodes through TypeContext.expr_types; here   *)
(* check_expression returns the tree with the types filled in.             *)
(*                                                                         *)
(* A check that does not succeed returns what compilation stopped with:    *)
(* fail_with_error, or a failed assertion or NULL dereference.             *)
(***************************************************************************)
EXTENDS Integers, Ast, SequencesExt

ErrorAt(message, line) == Expression("ERROR", message, <<>>, NoType, line)
CrashAt(line) == Expression("CRASH", "", <<>>, NoType, line)
IsStop(e) == e.kind \in {"ERROR", "CRASH"}
NoStop == Expression("", "", <<>>, NoType, 0)

\* struct TypeContext.  current_function_signature is an index, 0 for NULL.
EmptyContext == [variables |-> <<>>, structs |-> <<>>, function_signatures |-> <<>>,
                 current_function_signature |-> 0]

Declared(ctx, name) == \E i \in DOMAIN ctx.variables : ctx.variables[i].name = name
VariableType(ctx, name) ==
    ctx.variables[CHOOSE i \in DOMAIN ctx.variables : ctx.variables[i].name = name].type
NewVariable(ctx, t, name, is_argument) ==
    [ctx EXCEPT !.variables = Append(@, [id |-> Len(@) + 1, name |-> name, type |-> t,
                                         is_argument |-> is_argument])]
HasFunction(ctx, name) ==
    \E i \in DOMAIN ctx.function_signatures : ctx.function_signatures[i].funcname = name
find_function(ctx, name) ==
    ctx.function_signatures[CHOOSE i \in DOMAIN ctx.function_signatures :
                                ctx.function_signatures[i].funcname = name]
HasStruct(ctx, name) == \E i \in DOMAIN ctx.structs : ctx.structs[i].name = name
-----------------------------------------------------------------------------
\* Types from the names the parser has read.
NamesType(ctx, asttype) ==
    asttype.name \in {"int", "byte", "bool", "void"} \/ HasStruct(ctx, asttype.name)
IsVoid(asttype) == asttype.name = "void" /\ asttype.npointers = 0
Pointers(n) == [i \in 1 .. n |-> "ptr"]
type_or_void_from_ast(ctx, asttype) ==
    CASE IsVoid(asttype) -> NoType
      [] asttype.name = "void" -> Pointers(asttype.npointers - 1) \o voidPtrType
      [] asttype.name \in {"int", "byte", "bool"} ->
            Pointers(asttype.npointers) \o <<asttype.name>>
      [] OTHER -> Pointers(asttype.npointers) \o struct_type(asttype.name)

\* What type_from_ast refuses with, NoStop if it returns a type.
TypeRefusal(ctx, asttype, line) ==
    IF ~NamesType(ctx, asttype) THEN ErrorAt("there is no type named", line)
    ELSE IF IsVoid(asttype) THEN ErrorAt("'void' cannot be used here", line)
    ELSE NoStop

width_in_bits(t) == IF t = byteType THEN 8 ELSE 32
IsSigned(t) == t = intType

\* (mutant) Only to a wider type that is as signed as the other.
CanCast_keeping_sign(from, to) ==
    \/ /\ is_integer_type(from) /\ is_integer_type(to)
       /\ width_in_bits(from) < width_in_bits(to)
       /\ IsSigned(from) = IsSigned(to)
    \/ from[1] = "ptr" /\ to = voidPtrType
    \/ from = voidPtrType /\ to[1] = "ptr"

CanCast(from, to) ==
    \/ /\ is_integer_type(from) /\ is_integer_type(to)
       /\ width_in_bits(from) < width_in_bits(to)
       /\ ~(IsSigned(from) /\ ~IsSigned(to))
    \/ from[1] = "ptr" /\ to = voidPtrType
    \/ from = voidPtrType /\ to[1] = "ptr"

\* The cast every caller may ask for once, and the forced cast of check_binop.
ForceCast(e, to) ==
    IF e.type = to THEN e
    ELSE IF e.type_after_cast # NoType THEN CrashAt(e.line) ELSE CastTo(e, to)
do_implicit_cast(e, to, message) ==
    IF IsStop(e) THEN e
    ELSE IF e.type # to /\ ~CanCast(e.type, to) THEN ErrorAt(message, e.line)
    ELSE ForceCast(e, to)

CanCastExplicitly(from, to) ==
    \/ from = to
    \/ is_pointer_type(from) /\ is_pointer_type(to)
    \/ is_integer_type(from) /\ is_integer_type(to)

not_void(e) ==
    IF IsStop(e) \/ e.type # NoType THEN e
    ELSE IF e.kind = "FUNCTION_CALL" THEN ErrorAt("function does not return a value", e.line)
    ELSE CrashAt(e.line)
-----------------------------------------------------------------------------
\* ensure_can_take_address looks through the fields of structs at what is left
\* of the dots.
RECURSIVE LeftOfDots(_)
LeftOfDots(e) == IF e.kind = "GET_FIELD" THEN LeftOfDots(e.operands[1]) ELSE e
AddressRefusal(e, message) ==
    IF LeftOfDots(e).kind \in AddressableKinds THEN NoStop
    ELSE ErrorAt(message, LeftOfDots(e).line)

\* What is looked at before any operand.
RefusedAtOnce(ctx, e) ==
    CASE e.kind \in IncrementKinds \cup {"ADDRESS_OF"} ->
            AddressRefusal(e.operands[1], "cannot take address")
      [] e.kind = "FUNCTION_CALL" ->
            IF ~HasFunction(ctx, e.name) THEN ErrorAt("function not found", e.line)
            ELSE LET sig == find_function(ctx, e.name)
                     expected == Len(sig.argtypes)
                 IN  IF \/ Len(e.operands) < expected
                        \/ Len(e.operands) > expected /\ ~sig.takes_varargs
                     THEN ErrorAt("wrong number of arguments", e.line)
                     ELSE NoStop
      [] e.kind = "BRACE_INIT" -> TypeRefusal(ctx, AstType(e.name, 0), e.line)
      [] e.kind = "GET_VARIABLE" ->
            IF Declared(ctx, e.name) THEN NoStop ELSE ErrorAt("no local variable named", e.line)
      [] OTHER -> NoStop

\* What operand i, checked and not void, must be, and what it is cast to.
CheckedOperand(ctx, e, i, operand) ==
    LET required(condition, message) ==
            IF IsStop(operand) \/ condition THEN operand ELSE ErrorAt(message, operand.line)
    IN  CASE e.kind \in {"AND", "OR", "NOT"} ->
                do_implicit_cast(operand, boolType, "only works with booleans")
          [] e.kind = "FUNCTION_CALL" ->
                LET argtypes == find_function(ctx, e.name).argtypes
                IN  IF i \in DOMAIN argtypes
                    THEN do_implicit_cast(operand, argtypes[i], "argument should have type")
                    ELSE operand
          [] e.kind = "BRACE_INIT" ->
                do_implicit_cast(operand,
                    FieldType(ctx.structs, struct_type(e.name), e.argnames[i]),
                    "value for field must be of type")
          [] e.kind = "INDEXING" /\ i = 1 ->
                required(operand.type[1] = "ptr", "cannot be indexed")
          [] e.kind = "INDEXING" /\ i = 2 ->
                required(is_integer_type(operand.type), "the index must be an integer")
          [] OTHER -> operand

\* The field a struct literal names is looked up before its value is checked.
NamesNoField(ctx, e, i) ==
    e.kind = "BRACE_INIT" /\ ~HasField(ctx.structs, struct_type(e.name), e.argnames[i])

\* The type both operands are cast to.  Only the left one says if it is signed.
get_integer_type(width, is_signed) ==
    IF width = 8 THEN byteType ELSE IF is_signed THEN intType ELSE uint32Type
\* (mutant) The operands of a comparison are left as they are.
check_binop_uncast(e) ==
    IF e.kind \in {"ADD", "SUB", "MUL", "DIV"} THEN [e EXCEPT !.type = e.operands[1].type]
    ELSE [e EXCEPT !.type = boolType]

check_binop(e) ==
    LET lhs == e.operands[1].type
        rhs == e.operands[2].type
        got_integers == is_integer_type(lhs) /\ is_integer_type(rhs)
        got_pointers == /\ is_pointer_type(lhs) /\ is_pointer_type(rhs)
                        /\ lhs = rhs \/ voidPtrType \in {lhs, rhs}
        wider == IF width_in_bits(lhs) > width_in_bits(rhs) THEN lhs ELSE rhs
        cast_type == IF got_integers
                     THEN get_integer_type(width_in_bits(wider), IsSigned(lhs))
                     ELSE voidPtrType
    IN  IF got_integers \/ (got_pointers /\ e.kind \in {"EQ", "NE"})
        THEN [e EXCEPT !.operands = [i \in 1 .. 2 |-> ForceCast(@[i], cast_type)],
                       !.type = IF e.kind \in {"ADD", "SUB", "MUL", "DIV"}
                                THEN cast_type ELSE boolType]
        ELSE ErrorAt("wrong types", e.line)

field_of(ctx, e, t) ==
    IF HasField(ctx.structs, t, e.name) THEN [e EXCEPT !.type = FieldType(ctx.structs, t, e.name)]
    ELSE ErrorAt("struct has no field named", e.line)
IsStruct(t) == t[1] = "struct"

type_of_constant(e) ==
    CASE e.name \in {"TRUE", "FALSE"} -> boolType
      [] e.name = "NULL" -> voidPtrType
      [] e.name = "string" -> get_pointer_type(byteType)
      [] e.name = "char" -> byteType
      [] e.name = "integer" -> intType

\* The type of an expression whose operands have all been checked.
WithType(ctx, e) ==
    LET t == e.operands[1].type
        typed(type) == [e EXCEPT !.type = type]
        typed_if(condition, type, message) ==
            IF condition THEN typed(type) ELSE ErrorAt(message, e.line)
    IN  CASE e.kind = "FUNCTION_CALL" -> typed(find_function(ctx, e.name).returntype)
          [] e.kind = "BRACE_INIT" -> typed(struct_type(e.name))
          [] e.kind = "GET_FIELD" ->
                IF IsStruct(t) THEN field_of(ctx, e, t)
                ELSE ErrorAt("left side of '.' must be a struct", e.line)
          [] e.kind = "DEREF_AND_GET_FIELD" ->
                IF t[1] = "ptr" /\ IsStruct(valuetype(t)) THEN field_of(ctx, e, valuetype(t))
                ELSE ErrorAt("left side of '->' must be a pointer to a struct", e.line)
          [] e.kind = "INDEXING" -> typed(valuetype(t))
          [] e.kind = "ADDRESS_OF" -> typed(get_pointer_type(t))
          [] e.kind = "GET_VARIABLE" -> typed(VariableType(ctx, e.name))
          [] e.kind = "DEREFERENCE" ->
                typed_if(t[1] = "ptr", valuetype(t), "'*' is only for pointers")
          [] e.kind = "CONSTANT" -> typed(type_of_constant(e))
          [] e.kind \in {"AND", "OR", "NOT"} -> typed(boolType)
          [] e.kind \in ArithmeticKinds -> check_binop(e)
          [] e.kind \in IncrementKinds ->
                typed_if(is_integer_type(t) \/ is_pointer_type(t), t, "cannot increment")
          [] e.kind = "AS" ->
                LET asttype == AstType(e.name, e.number)
                    to == type_or_void_from_ast(ctx, asttype)
                    refusal == TypeRefusal(ctx, asttype, e.line)
                IN  IF IsStop(refusal) THEN refusal
                    ELSE typed_if(CanCastExplicitly(t, to), to, "cannot cast")

FirstStop(es) ==
    es[CHOOSE i \in DOMAIN es : IsStop(es[i]) /\ \A j \in 1 .. i - 1 : ~IsStop(es[j])]

\* A stop among the operands is what the whole expression stops with.
StopOf(e) == IF \E i \in DOMAIN e.operands : IsStop(e.operands[i]) THEN FirstStop(e.operands) ELSE e
WithOperands(ctx, e, stop) == IF IsStop(stop) THEN stop ELSE StopOf(WithType(ctx, e))

RECURSIVE check_expression(_, _)
CheckOperands(ctx, e) ==
    [e EXCEPT !.operands = [i \in DOMAIN @ |->
        IF NamesNoField(ctx, e, i) THEN ErrorAt("struct has no field named", @[i].line)
        ELSE CheckedOperand(ctx, e, i, not_void(check_expression(ctx, @[i])))]]
UnlessRefused(refusal, ctx, e) ==
    IF IsStop(refusal) THEN refusal ELSE WithOperands(ctx, e, StopOf(e))
check_expression(ctx, e) == UnlessRefused(RefusedAtOnce(ctx, e), ctx, CheckOperands(ctx, e))

check_with_implicit_cast(ctx, e, t, message) ==
    do_implicit_cast(not_void(check_expression(ctx, e)), t, message)
-----------------------------------------------------------------------------
\* Statements.  ctx grows with every variable, checked collects the checked
\* parts of a statement in the order the checker visits them.
Start(ctx) == [ctx |-> ctx, stop |-> NoStop, checked |-> <<>>]
Checked(r, part) ==
    IF IsStop(part) THEN [r EXCEPT !.stop = part]
    ELSE [r EXCEPT !.checked = Append(@, part)]
Rebuilt(r, stmt) == IF IsStop(r.stop) THEN r ELSE [r EXCEPT !.checked = <<stmt>>]
CheckPart(r, e, t, message) ==
    IF IsStop(r.stop) THEN r
    ELSE Checked(r, check_with_implicit_cast(r.ctx, e, t, message))

RECURSIVE check_statement(_, _)
\* typecheck_body: the statements of a body are one part of r.
CheckInBody(b, stmt) ==
    LET Joined(c) == [c EXCEPT !.checked = b.checked \o @]
    IN  IF IsStop(b.stop) THEN b ELSE Joined(check_statement(b.ctx, stmt))
BodyChecked(r, all) == [all EXCEPT !.checked = Append(r.checked, @)]
CheckBody(r, body) ==
    IF IsStop(r.stop) THEN r
    ELSE BodyChecked(r, FoldLeft(CheckInBody, [r EXCEPT !.checked = <<>>], body))

check_if(ctx, s) ==
    LET branch(r, b) ==
            CheckBody(CheckPart(r, b.condition, boolType, "condition must be a boolean"), b.body)
        rebuilt(r) ==
            Rebuilt(r, If([i \in DOMAIN s.if_and_elifs |->
                              [condition |-> r.checked[2 * i - 1], body |-> r.checked[2 * i]]],
                          Last(r.checked)))
    IN  rebuilt(CheckBody(FoldLeft(branch, Start(ctx), s.if_and_elifs), s.elsebody))

\* In a for loop the body comes before the last part of the header.
check_loop(ctx, s) ==
    LET entered == CheckPart(CheckBody(Start(ctx), s.init), s.cond, boolType,
                             "condition must be a boolean")
        rebuilt(r) == Rebuilt(r, [s EXCEPT !.init = r.checked[1], !.cond = r.checked[2],
                                           !.body = r.checked[3], !.incr = r.checked[4]])
    IN  rebuilt(CheckBody(CheckBody(entered, s.body), s.incr))

\* An assignment to a name nobody has declared makes a variable.
check_new_variable(ctx, s) ==
    LET new(e) == IF IsStop(e) THEN Checked(Start(ctx), e)
                  ELSE IF e.type = NoType THEN Checked(Start(ctx), CrashAt(e.line))
                  ELSE Checked(Start(NewVariable(ctx, e.type, s.target.name, FALSE)),
                               [s EXCEPT !.value = e])
    IN  new(check_expression(ctx, s.value))

check_assignment(ctx, s) ==
    LET target(refusal) == IF IsStop(refusal) THEN refusal ELSE check_expression(ctx, s.target)
        value(r) == CheckPart(r, s.value, r.checked[1].type, "cannot assign a value of type")
        rebuilt(r) == Rebuilt(r, [s EXCEPT !.target = r.checked[1], !.value = r.checked[2]])
    IN  rebuilt(value(Checked(Start(ctx), target(AddressRefusal(s.target, "cannot assign")))))

CurrentSignature(ctx) == ctx.function_signatures[ctx.current_function_signature]

check_return(ctx, s) ==
    LET returns == CurrentSignature(ctx).returntype # NoType
        rebuilt(r) == Rebuilt(r, [s EXCEPT !.expression = r.checked[1]])
    IN  IF s.kind = "RETURN_WITHOUT_VALUE"
        THEN Checked(Start(ctx), IF returns THEN ErrorAt("a return value is needed", s.line) ELSE s)
        ELSE IF ~returns
        THEN Checked(Start(ctx), ErrorAt("cannot return a value", s.line))
        ELSE rebuilt(CheckPart(Start(ctx), s.expression, VariableType(ctx, "return"),
                               "attempting to return a value of type"))

check_declaration(ctx, s) ==
    LET refusal == IF Declared(ctx, s.name) THEN ErrorAt("already exists", s.line)
                   ELSE TypeRefusal(ctx, s.asttype, s.line)
        t == type_or_void_from_ast(ctx, s.asttype)
        initial(r, e) == CheckPart(r, e, t, "initial value")
        rebuilt(r) == Rebuilt([r EXCEPT !.ctx = NewVariable(ctx, t, s.name, FALSE)],
                              [s EXCEPT !.initial_value = r.checked])
    IN  IF IsStop(refusal) THEN Checked(Start(ctx), refusal)
        ELSE rebuilt(FoldLeft(initial, Start(ctx), s.initial_value))

check_statement(ctx, s) ==
    CASE s.kind = "IF" -> check_if(ctx, s)
      [] s.kind \in {"WHILE", "FOR"} -> check_loop(ctx, s)
      [] s.kind \in {"BREAK", "CONTINUE"} -> Checked(Start(ctx), s)
      [] s.kind = "ASSIGN" ->
            IF s.target.kind = "GET_VARIABLE" /\ ~Declared(ctx, s.target.name)
            THEN check_new_variable(ctx, s)
            ELSE check_assignment(ctx, s)
      [] s.kind \in {"RETURN_VALUE", "RETURN_WITHOUT_VALUE"} -> check_return(ctx, s)
      [] s.kind = "DECLARE_LOCAL_VAR" -> check_declaration(ctx, s)
      [] s.kind = "EXPRESSION_STATEMENT" ->
            LET checked(e) == Checked(Start(ctx), IF IsStop(e) THEN e ELSE [s EXCEPT !.expression = e])
            IN  checked(check_expression(ctx, s.expression))
-----------------------------------------------------------------------------
\* typecheck_function.  body is <<>> for a declaration, else <<body>>.
signature_from_ast(ctx, astsig) ==
    [funcname |-> astsig.funcname, argnames |-> astsig.argnames,
     argtypes |-> [i \in DOMAIN astsig.argtypes |-> type_or_void_from_ast(ctx, astsig.argtypes[i])],
     takes_varargs |-> astsig.takes_varargs,
     returntype |-> type_or_void_from_ast(ctx, astsig.returntype)]

SignatureRefusal(ctx, astsig, line) ==
    LET argrefusals == [i \in DOMAIN astsig.argtypes |-> TypeRefusal(ctx, astsig.argtypes[i], line)]
    IN  IF HasFunction(ctx, astsig.funcname) THEN ErrorAt("already exists", line)
        ELSE IF \E i \in DOMAIN argrefusals : IsStop(argrefusals[i]) THEN FirstStop(argrefusals)
        ELSE IF ~NamesType(ctx, astsig.returntype) THEN ErrorAt("there is no type named", line)
        ELSE IF /\ astsig.funcname = "main"
                /\ type_or_void_from_ast(ctx, astsig.returntype) # intType
             THEN ErrorAt("the main() function must return int", line)
        \* asserted: nothing is left of the function before
        ELSE IF ctx.current_function_signature # 0 \/ ctx.variables # <<>> THEN CrashAt(line)
        ELSE NoStop

\* The signature goes into the list, where the pointer to the current one is
\* taken: the function can call itself.
enter_function(ctx, sig) ==
    [ctx EXCEPT !.function_signatures = Append(@, sig),
                !.current_function_signature = Len(ctx.function_signatures) + 1]

\* (mutant) The variable for the returned value is made first.
ParameterVariables_after_return(ctx, sig) ==
    FoldLeft(LAMBDA c, i : NewVariable(c, sig.argtypes[i], sig.argnames[i], TRUE),
             IF sig.returntype = NoType THEN ctx
             ELSE NewVariable(ctx, sig.returntype, "return", FALSE),
             [i \in DOMAIN sig.argtypes |-> i])

ParameterVariables(ctx, sig) ==
    LET parameters == FoldLeft(LAMBDA c, i : NewVariable(c, sig.argtypes[i], sig.argnames[i], TRUE),
                               ctx, [i \in DOMAIN sig.argtypes |-> i])
    IN  IF sig.returntype = NoType THEN parameters
        ELSE NewVariable(parameters, sig.returntype, "return", FALSE)

typecheck_function(ctx, astsig, body, line) ==
    LET refusal == SignatureRefusal(ctx, astsig, line)
        sig == signature_from_ast(ctx, astsig)
        entered == enter_function(ctx, sig)
        left(r) == [r EXCEPT !.ctx.current_function_signature = 0]
    IN  IF IsStop(refusal) THEN [Start(ctx) EXCEPT !.stop = refusal]
        ELSE left(IF body = <<>> THEN Start(entered)
                  ELSE CheckBody(Start(ParameterVariables(entered, sig)), body[1]))

typecheck_struct(ctx, structdef, line) ==
    LET refusals == [i \in DOMAIN structdef.fieldtypes |->
                        TypeRefusal(ctx, structdef.fieldtypes[i], line)]
        structtype == [name |-> structdef.name, fieldnames |-> structdef.fieldnames,
                       fieldtypes |-> [i \in DOMAIN structdef.fieldtypes |->
                                          type_or_void_from_ast(ctx, structdef.fieldtypes[i])]]
    IN  IF HasStruct(ctx, structdef.name)
        THEN [Start(ctx) EXCEPT !.stop = ErrorAt("already exists", line)]
        ELSE IF \E i \in DOMAIN refusals : IsStop(refusals[i])
        THEN [Start(ctx) EXCEPT !.stop = FirstStop(refusals)]
        ELSE Start([ctx EXCEPT !.structs = Append(@, structtype)])

reset_type_context(ctx) == [ctx EXCEPT !.variables = <<>>]
=============================================================================
