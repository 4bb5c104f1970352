------------------------------ MODULE Programs ------------------------------
(***************************************************************************)
(* The function definitions the model-checking runs compile: families of   *)
(* small bodies, one statement per line unless a run is about lines.       *)
(***************************************************************************)
EXTENDS Ast

\* Variables and expressions at line l.
P(l) == GetVariable("p", boolType, l)    \* an argument
A(l) == GetVariable("a", boolType, l)    \* locals
B(l) == GetVariable("b", boolType, l)
N(l) == GetVariable("n", intType, l)
True(l) == BoolConstant("TRUE", l)
False(l) == BoolConstant("FALSE", l)
G(l) == Call("g", <<>>, boolType, l)     \* an external function
Use(e, l) == ExpressionStatement(Call("use", <<e>>, NoType, l))
SetA(e, l) == Assign(A(l), e, l)

Flags == << <<"a", boolType>>, <<"b", boolType>> >>
Void(body) == Function(<< <<"p", boolType>> >>, NoType, Flags, body)
Returning(body) ==
    Function(<< <<"p", boolType>>, <<"unused", intType>> >>, boolType, Flags, body)
-----------------------------------------------------------------------------
\* Jumps: a flag that is set, copied and tested by an if or a loop, whose
\* body may leave early.  The last part of a for is a statement like others;
\* break and continue there belong to the loop outside.
FlagSteps(l) == {SetA(True(l), l), SetA(False(l), l), SetA(P(l), l)}
Exits(l) == {Return(l), Break(l), Continue(l)}
FlagTests(l) ==
    {If(<<[condition |-> A(l), body |-> <<s>>]>>, t) :
        s \in FlagSteps(l + 1) \cup {Return(l + 1)},
        t \in {<<x>> : x \in FlagSteps(l + 2)} \cup {<<>>}}
Loops(l) ==
    {While(c, <<s>> \o t) : c \in {A(l), True(l)}, s \in FlagSteps(l + 1),
        t \in {<<x>> : x \in Exits(l + 2)} \cup {<<>>}}
    \cup {For(<<i>>, A(l), <<SetA(P(l), l)>>,
              <<If(<<[condition |-> B(l), body |-> <<s>>]>>, <<>>)>>) :
        i \in FlagSteps(l), s \in {Continue(l + 1), Break(l + 1)}}
JumpFunctions ==
    {Void(<<s, c, Use(A(6), 6)>>) : s \in FlagSteps(1), c \in FlagTests(2) \cup Loops(2)}
    \cup {Void(<<c, s>>) : c \in FlagTests(2), s \in Exits(5)}
    \cup {Void(<<SetA(True(1), 1), While(c, <<inner, s>>), Use(A(7), 7)>>) :
            c \in {A(2), True(2), P(2)}, inner \in FlagTests(3) \cup Loops(3),
            s \in Exits(6) \cup FlagSteps(6)}
    \cup {Void(<<While(c, <<For(<<SetA(True(2), 2)>>, B(2), <<exit>>, <<s>>), t>>), Use(A(5), 5)>>) :
            c \in {A(1), P(1)}, exit \in Exits(2), s \in Exits(3) \cup FlagSteps(3),
            t \in FlagSteps(4)}
    \cup {Void(<<For(<<SetA(P(1), 1)>>, A(1), <<exit>>, <<SetA(False(2), 2)>>), Use(A(3), 3)>>) :
            exit \in Exits(1)}

\* Short circuits: and, or, not over constants, an argument and a call, as a
\* condition and as a value; two expressions on one line.
Operands(l) == {True(l), P(l), G(l)}
Logical(l) ==
    {And(x, y, l) : x \in {True(l), False(l), P(l)}, y \in Operands(l)}
    \cup {Or(x, y, l) : x \in {True(l), False(l), P(l)}, y \in Operands(l)}
NestedLogical(l) ==
    {And(x, Or(P(l), G(l), l), l) : x \in Logical(l)}
    \cup {Or(Not(x, l), And(G(l), P(l), l), l) : x \in Logical(l)}
LogicFunctions ==
    {Void(<<If(<<[condition |-> c, body |-> <<Return(2)>>],
                 [condition |-> d, body |-> <<SetA(True(4), 4)>>]>>, <<Use(P(5), 5)>>),
            SetA(P(6), 6), Use(A(7), 7)>>) :
        c \in NestedLogical(1), d \in {True(3), And(False(3), G(3), 3), P(3)}}
    \cup {Void(<<ExpressionStatement(Call("f", <<c, And(False(1), G(1), 1)>>, NoType, 1)),
                 SetA(d, 2)>>) :
        c \in {And(False(1), And(G(1), P(1), 1), 1), Or(True(1), G(1), 1)}, d \in Logical(2)}

\* Returned values: which ways through the function set one.
Returns(l) ==
    {<<ReturnValue(e, l)>> : e \in {True(l), A(l), And(P(l), A(l), l)}}
    \cup {<<SetA(True(l), l)>>, <<>>}
ReturnFunctions ==
    {Returning(<<If(<<[condition |-> c, body |-> r]>>, s)>> \o t) :
        c \in {P(1), True(1)}, r \in Returns(2), s \in Returns(3), t \in Returns(5)}
    \cup {Returning(<<While(c, r \o x)>> \o t) :
        c \in {P(1), True(1)}, r \in Returns(2), x \in {<<>>, <<Break(3)>>}, t \in Returns(5)}

\* No variables at all: calls that give nothing, before and after a return.
Hello(l) == ExpressionStatement(Call("hello", <<>>, NoType, l))
BareFunctions ==
    {Function(<<>>, NoType, <<>>, body) :
        body \in {<<Hello(1)>>, <<Return(1), Hello(2)>>, <<Hello(1), Return(2), Hello(3)>>}}
-----------------------------------------------------------------------------
\* Pointers: a flag reached through its address, and every kind of address
\* the builder can take; casts, arithmetic and struct literals on the way.
Q(l) == GetVariable("q", get_pointer_type(boolType), l)
K(l) == GetVariable("k", byteType, l)
I(l) == GetVariable("i", get_pointer_type(intType), l)
Foo == struct_type("Foo")
S(l) == GetVariable("s", Foo, l)
R(l) == GetVariable("r", get_pointer_type(Foo), l)

WithPointers(body) ==
    [Function(<< <<"p", boolType>> >>, NoType,
        Flags \o << <<"q", get_pointer_type(boolType)>>, <<"n", intType>>, <<"k", byteType>>,
                    <<"i", get_pointer_type(intType)>>, <<"s", Foo>>,
                    <<"r", get_pointer_type(Foo)>> >>, body)
        EXCEPT !.structs = <<[name |-> "Foo", fieldnames |-> <<"x", "y">>,
                              fieldtypes |-> <<intType, boolType>>]>>]

PointerSteps(l) ==
    {Assign(Q(l), AddressOf(A(l), l), l),
     SetA(False(l), l),
     SetA(Dereference(Q(l), l), l),
     Assign(Dereference(Q(l), l), True(l), l),
     Assign(B(l), A(l), l)}
PointerBodies ==
    {<<If(<<[condition |-> c, body |-> <<s>>]>>, <<>>), t,
       If(<<[condition |-> d, body |-> <<Use(B(5), 5)>>]>>, <<>>), Use(A(6), 6)>> :
        c \in {P(1), A(1)}, s \in PointerSteps(2), t \in PointerSteps(3), d \in {A(4), B(4)}}
    \cup {<<While(P(1), <<s, t>>), Use(B(5), 5)>> : s, t \in PointerSteps(2)}

Addressables(l) ==
    {N(l), Dereference(I(l), l), Indexing(I(l), N(l), l), Indexing(I(l), K(l), l),
     GetField("GET_FIELD", S(l), "x", intType, l),
     GetField("DEREF_AND_GET_FIELD", R(l), "x", intType, l)}
IntExpressions(l) ==
    {Increment(k, x, l) : k \in IncrementKinds, x \in Addressables(l)}
    \cup {Binary(op, x, IntConstant(l), intType, l) :
            op \in {"ADD", "SUB", "MUL", "DIV"}, x \in Addressables(l)}
    \cup {CastTo(K(l), intType), CastTo(Increment("PRE_DECREMENT", K(l), l), intType),
          As(K(l), intType, l), As(IntConstant(l), byteType, l),
          Binary("DIV", K(l), K(l), byteType, l)}
PointerValues(l) ==
    {As(I(l), <<"ptr", "byte">>, l), Increment("POST_INCREMENT", I(l), l),
     AddressOf(Indexing(I(l), IntConstant(l), l), l)}
Comparisons(l) ==
    {Binary(op, N(l), IntConstant(l), boolType, l) : op \in {"EQ", "NE", "GT", "GE", "LT", "LE"}}
    \cup {Binary(op, CastTo(I(l), voidPtrType),
                   CastTo(AddressOf(N(l), l), voidPtrType), boolType, l) : op \in {"EQ", "NE"}}
Literals(l) ==
    {BraceInit(<<"x", "y">>, <<e, f>>, Foo, l) :
        e \in {IntConstant(l), N(l)}, f \in {True(l), And(P(l), B(l), l), A(l)}}
DataFunctions ==
    {WithPointers(<<If(<<[condition |-> c, body |-> <<Use(e, 2)>>]>>, <<>>), Use(N(3), 3)>>) :
        c \in {P(1), A(1)}, e \in IntExpressions(2) \cup PointerValues(2)}
    \cup {WithPointers(<<While(c, <<Assign(x, IntConstant(2), 2)>>), Use(N(3), 3)>>) :
        c \in Comparisons(1), x \in Addressables(2)}
    \cup {WithPointers(<<Assign(S(1), e, 1), DeclareLocalVar("n", AstType("int", 0), v, 2), Use(S(3), 3)>>) :
        e \in Literals(1), v \in {<<>>, <<IntConstant(2)>>}}
PointerFunctions == {WithPointers(b) : b \in PointerBodies} \cup DataFunctions

-----------------------------------------------------------------------------
\* Uses of variables that may or may not hold garbage, two per block.
UseSteps(l) ==
    {Use(A(l), l), Use(P(l), l), SetA(True(l), l), SetA(P(l), l), Assign(P(l), A(l), l)}
UseFunctions ==
    {Void(<<s, t, u>>) : s \in UseSteps(1), t \in UseSteps(2), u \in UseSteps(3)}

\* Functions that go on looping, for the question whether compiling ends.
LoopFunctions ==
    {Void(<<While(c, <<l, s>>)>>) :
        c \in {A(1), True(1)}, l \in Loops(2), s \in {Continue(5), SetA(P(5), 5)}}
    \cup {WithPointers(<<While(A(1), <<Assign(B(2), A(2), 2), Assign(Q(3), AddressOf(x, 3), 3),
                                       SetA(B(4), 4)>>)>>) : x \in {A(3), B(3)}}
-----------------------------------------------------------------------------
\* The expressions and statements a body is made of.
RECURSIVE ExpressionsIn(_)
ExpressionsIn(e) == {e} \cup UNION {ExpressionsIn(e.operands[i]) : i \in DOMAIN e.operands}
RECURSIVE StatementsIn(_)
StatementsIn(body) ==
    LET bodies(s) ==
            CASE s.kind = "IF" -> {s.elsebody} \cup {s.if_and_elifs[i].body : i \in DOMAIN s.if_and_elifs}
              [] s.kind \in {"WHILE", "FOR"} -> {s.init, s.body, s.incr}
              [] OTHER -> {}
    IN  UNION {{body[i]} \cup UNION {StatementsIn(b) : b \in bodies(body[i])} : i \in DOMAIN body}
ExpressionsOf(s) ==
    CASE s.kind = "ASSIGN" -> {s.target, s.value}
      [] s.kind = "DECLARE_LOCAL_VAR" -> {s.initial_value[i] : i \in DOMAIN s.initial_value}
      [] s.kind \in {"RETURN_VALUE", "EXPRESSION_STATEMENT"} -> {s.expression}
      [] s.kind = "IF" -> {s.if_and_elifs[i].condition : i \in DOMAIN s.if_and_elifs}
      [] s.kind \in {"WHILE", "FOR"} -> {s.cond}
      [] OTHER -> {}
TreesOf(functions) ==
    [f \in functions |->
        LET statements == StatementsIn(f.body)
        IN  [statements |-> statements,
             expressions |-> UNION {ExpressionsIn(e) : e \in UNION {ExpressionsOf(s) : s \in statements}}]]
=============================================================================
