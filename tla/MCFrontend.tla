----------------------------- MODULE MCFrontend -----------------------------
(***************************************************************************)
(* Files for the front end: one function with variables of every type      *)
(* around one expression or statement, and files of several functions.     *)
(***************************************************************************)
EXTENDS Frontend, Sources

-----------------------------------------------------------------------------
\* g is the function that may be wrong, ok the one that is well typed.
Header ==
    <<Struct("Foo", <<"x", "y">>, <<ByteType, AstType("int", 1)>>),
      Declare(Sig("f", <<"a">>, <<IntType>>, ByteType)),
      Declare(Sig("w", <<>>, <<>>, VoidType)),
      Declare(Sig("mk", <<>>, <<>>, AstType("Foo", 0))),
      Declare([Sig("printf", <<"t">>, <<AstType("byte", 1)>>, IntType) EXCEPT !.takes_varargs = TRUE])>>
Named(name, returntype, body) ==
    Header \o <<Define(Sig(name, <<"b", "n", "k", "i", "v", "s", "r">>,
                           <<ByteType, IntType, BoolType, AstType("int", 1), AstType("void", 1),
                             AstType("Foo", 0), AstType("Foo", 1)>>, returntype),
                       body),
                EndOfTheFile>>

Around(returntype, body) == Named("g", returntype, body)

Atoms ==
    {Var(x) : x \in {"b", "n", "k", "i", "v", "s", "r", "z"}}
    \cup {Const(c) : c \in {"integer", "NULL"}}
    \cup {CallOf("w", <<>>), CallOf("mk", <<>>)}
FewAtoms == {Var("b"), Var("n"), Var("i"), CallOf("w", <<>>)}
InfixKinds == {"AND", "ADD", "DIV", "EQ", "LE", "INDEXING"}
UnaryKinds == {"NOT", "DEREFERENCE", "ADDRESS_OF", "PRE_INCREMENT", "POST_DECREMENT"}

Unaries(es) ==
    {Unary(op, e) : op \in UnaryKinds, e \in es}
    \cup {Dot(e, "x") : e \in es} \cup {Arrow(e, "y") : e \in es}
    \cup {Dot(e, "z") : e \in {Var("s")} \cap es}
    \cup {Cast(e, t[1], t[2]) : e \in es,
            t \in {<<"int", 0>>, <<"byte", 0>>, <<"byte", 1>>, <<"void", 0>>, <<"Bar", 1>>}}
    \cup {CallOf(f, <<e>>) : f \in {"f", "w", "h"}, e \in es}
    \cup {Literal("Foo", <<"x">>, <<e>>) : e \in es}
Infixes(ls, rs) == {Infix(op, x, y) : op \in InfixKinds, x \in ls, y \in rs}
Others ==
    {CallOf("printf", args) : args \in {<<>>, <<Const("string")>>, <<Const("string"), Var("b")>>,
                                        <<Const("string"), CallOf("w", <<>>)>>}}
    \cup {Literal("Foo", <<x, "y">>, <<e, Var("v")>>) : x \in {"x", "z"}, e \in {Var("b"), Var("n")}}
    \cup {Literal("Bar", <<>>, <<>>), Literal("Foo", <<>>, <<>>), Const("char"), Const("TRUE")}

\* Nested once more: what is around a well-typed or an ill-typed operand.
Simple == Atoms \cup Unaries(Atoms) \cup Infixes(Atoms, Atoms) \cup Others
Nested == Unaries(Unaries({Var("n"), Var("i"), Var("s"), Var("r")}))
            \cup Unaries(Infixes(FewAtoms, FewAtoms))
            \cup Infixes(Infixes({Var("b"), Var("n"), Var("i")}, {Var("b"), Var("n")}), FewAtoms)

\* The one place where the checker lets through what the builder aborts on:
\* a field of a struct that has no address, left of dots an expression that
\* is not stored anywhere.
RECURSIVE FieldOfValue(_)
FieldOfValue(e) ==
    \/ e.kind = "GET_FIELD" /\ LeftOfDots(e).kind \notin AddressableKinds
    \/ \E i \in DOMAIN e.operands : FieldOfValue(e.operands[i])
ReadableFields == {e \in Simple \cup Nested : ~FieldOfValue(e)}
ExpressionFiles == {Around(IntType, <<ExpressionStatement(e), ReturnValue(Const("integer"), 1)>>) :
                        e \in ReadableFields}

-----------------------------------------------------------------------------
\* Statements: a value of every type in every place that wants one.
Values == {Var("b"), Var("n"), Var("k"), Var("i"), Var("v"), Var("s"), Const("integer"),
           Const("char"), Const("string"), CallOf("f", <<Var("b")>>), CallOf("w", <<>>),
           Infix("ADD", Var("b"), Var("n")), Infix("ADD", Var("b"), Var("b"))}
AssignedTo == {Var("b"), Var("n"), Unary("DEREFERENCE", Var("i")), Dot(Var("s"), "x"),
            Arrow(Var("r"), "y"), Infix("INDEXING", Var("i"), Var("b")), Var("v"),
            Dot(Var("n"), "x"), Const("integer"), Dot(CallOf("mk", <<>>), "x"), CallOf("w", <<>>)}
ConditionStatements(c) ==
    {If(<<[condition |-> Var("k"), body |-> <<>>], [condition |-> c, body |-> <<Return(1)>>]>>, <<>>),
     While(c, <<Break(1)>>),
     For(<<Assign(Var("j"), Const("integer"), 1)>>, c,
         <<ExpressionStatement(Unary("PRE_INCREMENT", Var("j")))>>,
         <<Assign(Var("k"), c, 1), Continue(1)>>)}
NewlyAssigned(e) == <<Assign(Var("new"), e, 1), Assign(Var("n"), Var("new"), 1)>>
Statements ==
    {<<Assign(t, e, 1)>> : t \in AssignedTo, e \in Values}
    \cup {NewlyAssigned(e) : e \in Values \ {CallOf("w", <<>>)}}
    \cup {<<DeclareLocalVar(x, AstType(t[1], t[2]), <<e>>, 1), Assign(Var("b"), Var(x), 1)>> :
            x \in {"d", "b"}, t \in {<<"byte", 0>>, <<"int", 0>>, <<"void", 1>>, <<"void", 0>>}, e \in Values}
    \cup {<<s, Assign(Var("n"), Var("j"), 1)>> :
            s \in UNION {ConditionStatements(c) : c \in Values \cup {Infix("LE", Var("b"), Var("n"))}}}
    \cup {<<Break(1)>>, <<Continue(1)>>}
StatementFiles ==
    {Around(VoidType, s) : s \in Statements}
    \cup {Around(t, <<ReturnValue(e, 1)>>) : t \in {IntType, ByteType, VoidType, AstType("byte", 1)}, e \in Values}
    \cup {Around(t, <<Return(1)>>) : t \in {IntType, VoidType}}

\* Several functions: calls of earlier and of later ones, names used twice,
\* variables of the function before.
Bodies ==
    {<<Assign(Var("x"), Const("integer"), 1), Return(1)>>,
     <<ReturnValue(CallOf("one", <<Var("a")>>), 1)>>,
     <<DeclareLocalVar("x", IntType, <<CallOf("two", <<Var("a")>>)>>, 1), ReturnValue(Var("x"), 1)>>,
     <<ExpressionStatement(Unary("POST_INCREMENT", Var("x")))>>,
     <<If(<<[condition |-> Infix("EQ", Var("a"), Const("integer")), body |-> <<Return(1)>>]>>, <<>>)>>}
ManyFunctions ==
    {<<h, Define(Sig("one", <<"a">>, <<s>>, t), b), Define(Sig(name, <<"a">>, <<IntType>>, u), c), EndOfTheFile>> :
        h \in {Declare(Sig("two", <<"a">>, <<ByteType>>, VoidType)), Struct("Foo", <<"a">>, <<IntType>>)},
        s \in {IntType, ByteType, AstType("Foo", 0), AstType("Bar", 0)}, t \in {IntType, VoidType},
        name \in {"two", "main"}, u \in {IntType, VoidType}, b \in Bodies, c \in Bodies}
    \cup {<<Struct("Foo", <<"a">>, <<AstType("Foo", n)>>), EndOfTheFile>> : n \in {0, 1}}
    \cup {<<Struct("Foo", <<"a">>, <<IntType>>), Struct(name, <<"a">>, <<AstType("Foo", 1)>>), EndOfTheFile>> :
            name \in {"Foo", "Bar"}}

-----------------------------------------------------------------------------
\* The rules of the language read the other way: expressions made to be well
\* typed, of each type, from operands that are.
Comparisons(ls, rs) == {Infix("LT", x, y) : x \in ls, y \in rs}
Arithmetic(ls, rs) == {Infix("DIV", x, y) : x \in ls, y \in rs}
Bytes(ints, bytes) ==
    {Dot(Var("s"), "x"), Dot(Infix("INDEXING", Var("r"), Var("b")), "x")}
    \cup {CallOf("f", <<e>>) : e \in ints \cup bytes} \cup Arithmetic(bytes, bytes)
    \cup {Cast(e, "byte", 0) : e \in ints}
Ints(ints, bytes, pointers) ==
    Arithmetic(ints, ints \cup bytes)
    \cup {Infix("INDEXING", p, e) : p \in pointers, e \in ints \cup bytes}
    \cup {Unary("PRE_DECREMENT", Unary("DEREFERENCE", p)) : p \in pointers}
IntPointers(ints, pointers) ==
    {Unary("ADDRESS_OF", Infix("INDEXING", p, e)) : p \in pointers, e \in ints}
    \cup {Cast(Unary("ADDRESS_OF", p), "int", 1) : p \in pointers \cap {Var("i"), Dot(Var("s"), "y")}}
Bools(ints, bytes, pointers, bools) ==
    Comparisons(ints, ints \cup bytes) \cup Comparisons(bytes, ints)
    \cup {Infix("NE", p, q) : p \in pointers, q \in pointers \cup {Var("v"), Const("NULL")}}
    \cup {Infix("OR", c, Unary("NOT", d)) : c, d \in bools}
Structs(ints, bytes, pointers) ==
    {Literal("Foo", <<"y", "x">>, <<p, e>>) : p \in pointers, e \in bytes}

Bytes1 == Bytes({Const("integer"), Var("n")}, {Var("b"), Const("char")})
Ints1 == Ints({Const("integer"), Var("n")}, {Var("b")}, {Var("i"), Dot(Var("s"), "y")})
Pointers1 == IntPointers({Var("n")}, {Var("i"), Dot(Var("s"), "y")})
Bools1 == Bools({Var("n"), Const("integer")}, {Var("b")}, {Var("i")}, {Var("k"), Const("TRUE")})
WellTyped ==
    {<<Assign(Var("n"), e, 1)>> : e \in Ints(Ints1, Bytes1, Pointers1) \cup Bytes(Ints1, Bytes1)}
    \cup {<<Assign(Dot(Var("s"), "x"), e, 1), Assign(Unary("DEREFERENCE", Var("i")), e, 1)>> :
            e \in Bytes(Ints1, Bytes1)}
    \cup {<<Assign(Var("v"), p, 1), Assign(Arrow(Var("r"), "y"), Var("v"), 1)>> :
            p \in IntPointers(Ints1, Pointers1)}
    \cup {<<While(e, <<Return(1)>>), Assign(Var("new"), e, 1)>> :
            e \in Bools(Ints1, {Var("b")}, Pointers1, Bools1)}
    \cup {<<Assign(Var("s"), e, 1), Return(1)>> : e \in Structs(Ints1, Bytes1, Pointers1)}
WellTypedFiles == {Named("ok", VoidType, s) : s \in WellTyped}

\* The checker does not refuse what is well typed, however it is nested.
WellTypedIsAccepted ==
    stage = "failed" =>
        \A i \in DOMAIN file : file[i].kind = "DEFINE_FUNCTION" => file[i].signature.funcname # "ok"

SourceFiles == ExpressionFiles \cup StatementFiles \cup ManyFunctions \cup WellTypedFiles

\* A field read off a value that has no address; a variable made by a call
\* that returns nothing.
UnaddressableFiles ==
    {Around(IntType, <<Assign(Var("n"), Dot(e, "x"), 1), ReturnValue(Var("n"), 1)>>) :
        e \in {Var("s"), Unary("DEREFERENCE", Var("r")), CallOf("mk", <<>>), Literal("Foo", <<>>, <<>>)}}
VoidAssigned ==
    {Around(IntType, <<Assign(Var(x), CallOf(f, <<>>), 1), ReturnValue(Var("n"), 1)>>) :
        x \in {"s", "new"}, f \in {"w", "mk"}}
=============================================================================
