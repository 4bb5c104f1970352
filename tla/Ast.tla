-------------------------------- MODULE Ast --------------------------------
(***************************************************************************)
(* The abstract syntax tree build_cfg.c walks, with what typecheck.c       *)
(* attached to it: every expression carries its type and, when the checker *)
(* asked for an implicit cast, the type after the cast (NoType otherwise). *)
(*                                                                         *)
(* A type is a tuple, so that a pointer to t is <<"ptr">> \o t and the     *)
(* value type of a pointer is its tail.  The first element of a tuple is   *)
(* the kind the code switches on.                                          *)
(***************************************************************************)
EXTENDS Naturals, Sequences

NoType == <<>>        \* get_expr_types() returned NULL: a void call
boolType == <<"bool">>
intType == <<"int">>      \* 32-bit signed
byteType == <<"byte">>    \* 8-bit unsigned
uint32Type == <<"uint32">>    \* has no name in the language
voidPtrType == <<"void*">>
get_pointer_type(t) == <<"ptr">> \o t
valuetype(t) == Tail(t)
is_pointer_type(t) == t # NoType /\ t[1] \in {"ptr", "void*"}
is_integer_type(t) == t \in {intType, byteType, uint32Type}
struct_type(name) == <<"struct", name>>

\* structs is a sequence of [name, fieldnames, fieldtypes], as TypeContext has it.
StructOf(structs, t) ==
    structs[CHOOSE i \in DOMAIN structs : t = struct_type(structs[i].name)]
HasField(structs, t, field) ==
    \E i \in DOMAIN StructOf(structs, t).fieldnames : StructOf(structs, t).fieldnames[i] = field
FieldIndex(structs, t, field) ==
    CHOOSE i \in DOMAIN StructOf(structs, t).fieldnames : StructOf(structs, t).fieldnames[i] = field
FieldType(structs, t, field) ==
    StructOf(structs, t).fieldtypes[FieldIndex(structs, t, field)]
-----------------------------------------------------------------------------
\* name is the variable, function, struct, field or type mentioned, or what
\* kind of constant; number the value of an integer constant or the npointers
\* of the type after "as".
Expression(kind, name, operands, type, line) ==
    [kind |-> kind, name |-> name, number |-> 0, argnames |-> <<>>, operands |-> operands,
     type |-> type, type_after_cast |-> NoType, line |-> line]
CastTo(e, t) == [e EXCEPT !.type_after_cast = t]

GetVariable(x, t, line) == Expression("GET_VARIABLE", x, <<>>, t, line)
BoolConstant(c, line) == Expression("CONSTANT", c, <<>>, boolType, line)
Integer(n, t, line) == [Expression("CONSTANT", "integer", <<>>, t, line) EXCEPT !.number = n]
IntConstant(line) == Integer(1, intType, line)
Call(f, args, t, line) == Expression("FUNCTION_CALL", f, args, t, line)
AddressOf(e, line) == Expression("ADDRESS_OF", "", <<e>>, get_pointer_type(e.type), line)
Dereference(e, line) == Expression("DEREFERENCE", "", <<e>>, valuetype(e.type), line)
And(l, r, line) == Expression("AND", "", <<l, r>>, boolType, line)
Or(l, r, line) == Expression("OR", "", <<l, r>>, boolType, line)
Not(e, line) == Expression("NOT", "", <<e>>, boolType, line)
Binary(op, l, r, t, line) == Expression(op, "", <<l, r>>, t, line)
Increment(kind, e, line) == Expression(kind, "", <<e>>, e.type, line)
GetField(kind, obj, field, t, line) == Expression(kind, field, <<obj>>, t, line)
Indexing(p, i, line) == Expression("INDEXING", "", <<p, i>>, valuetype(p.type), line)
BraceInit(names, args, t, line) ==
    [Expression("BRACE_INIT", t[2], args, t, line) EXCEPT !.argnames = names]
As(e, t, line) == Expression("AS", t[Len(t)], <<e>>, t, line)

ArithmeticKinds == {"ADD", "SUB", "MUL", "DIV", "EQ", "NE", "GT", "GE", "LT", "LE"}
IncrementKinds == {"PRE_INCREMENT", "PRE_DECREMENT", "POST_INCREMENT", "POST_DECREMENT"}
AddressableByPointer == {"GET_FIELD", "DEREF_AND_GET_FIELD", "INDEXING"}
AddressableKinds == AddressableByPointer \cup {"GET_VARIABLE", "DEREFERENCE"}

\* Statements.  A body is a sequence of statements; if_and_elifs a sequence of
\* [condition, body]; the optional parts of a for loop are sequences of
\* length at most 1.
Assign(target, value, line) ==
    [kind |-> "ASSIGN", target |-> target, value |-> value, line |-> line]
DeclareLocalVar(x, asttype, initial_value, line) ==
    [kind |-> "DECLARE_LOCAL_VAR", name |-> x, asttype |-> asttype,
     initial_value |-> initial_value, line |-> line]
ExpressionStatement(e) == [kind |-> "EXPRESSION_STATEMENT", expression |-> e, line |-> e.line]
ReturnValue(e, line) == [kind |-> "RETURN_VALUE", expression |-> e, line |-> line]
Return(line) == [kind |-> "RETURN_WITHOUT_VALUE", line |-> line]
Break(line) == [kind |-> "BREAK", line |-> line]
Continue(line) == [kind |-> "CONTINUE", line |-> line]
If(if_and_elifs, elsebody) ==
    [kind |-> "IF", if_and_elifs |-> if_and_elifs, elsebody |-> elsebody]
While(cond, body) ==
    [kind |-> "WHILE", init |-> <<>>, cond |-> cond, incr |-> <<>>, body |-> body]
For(init, cond, incr, body) ==
    [kind |-> "FOR", init |-> init, cond |-> cond, incr |-> incr, body |-> body]

\* A checked function definition: the variables typecheck_function leaves in
\* the type context (arguments first, then "return" when the function returns
\* a value, then the locals in the order of their declarations).
Variables(arguments, returntype, locals) ==
    LET named == arguments \o (IF returntype = NoType THEN <<>>
                               ELSE << <<"return", returntype>> >>) \o locals
    IN  [i \in 1 .. Len(named) |->
            [id |-> i, name |-> named[i][1], type |-> named[i][2],
             is_argument |-> i <= Len(arguments)]]
Function(arguments, returntype, locals, body) ==
    [variables |-> Variables(arguments, returntype, locals),
     returntype |-> returntype, structs |-> <<>>, line |-> 1, body |-> body]

AstType(name, npointers) == [name |-> name, npointers |-> npointers]
=============================================================================
