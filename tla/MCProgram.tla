----------------------------- MODULE MCProgram -----------------------------
(***************************************************************************)
(* Programs to execute.  The function called is f(n, b, q); c, g and p are *)
(* functions it may call, to decide something, to compute something and to *)
(* be shown two numbers.                                                   *)
(***************************************************************************)
EXTENDS Program, Sources

FileReturning(returntype, body) ==
    <<Struct("Foo", <<"x", "y">>, <<ByteType, IntType>>),
      Declare(Sig("c", <<>>, <<>>, BoolType)),
      Declare(Sig("g", <<"m">>, <<IntType>>, IntType)),
      Declare(Sig("p", <<"m", "o">>, <<IntType, IntType>>, VoidType)),
      Define(Sig("f", <<"n", "b", "q">>, <<IntType, ByteType, AstType("byte", 1)>>, returntype), body),
      EndOfTheFile>>
File(body) == FileReturning(IntType, body)

n == Var("n")
b == Var("b")
q == Var("q")
Lit(k) == [Const("integer") EXCEPT !.number = k]
Inc(e) == Unary("PRE_INCREMENT", e)
PostDec(e) == Unary("POST_DECREMENT", e)
QAt(e) == Infix("INDEXING", q, e)
Show(x, y) == ExpressionStatement(CallOf("p", <<x, y>>))
Set(target, value) == Assign(target, value, 1)
Finish(e) == ReturnValue(Cast(e, "int", 0), 1)
IfThen(c, body) == If(<<[condition |-> c, body |-> body]>>, <<>>)

\* Two expressions next to each other, which may change what the other uses.
Ints == {n, Inc(n), PostDec(n), Lit(2), CallOf("g", <<n>>), Unary("DEREFERENCE", Unary("ADDRESS_OF", n))}
Bytes == {b, Inc(b), QAt(b), PostDec(QAt(n)), Cast(n, "byte", 0)}
Shown == {<<Show(x, y), Finish(n)>> : x, y \in Ints \cup Bytes}
Computed ==
    {<<Finish(Infix(op, x, y))>> : op \in {"SUB", "DIV"}, x \in Ints, y \in Ints \cup Bytes}
    \cup {<<Finish(Infix(op, x, y))>> : op \in {"MUL", "DIV"}, x, y \in Bytes}

\* What decides where control goes: calls in conditions that may not be
\* evaluated, loops left in the middle.
C == CallOf("c", <<>>)
Less(x, y) == Infix("LT", x, y)
Conditions ==
    {C, Infix("AND", C, Less(Inc(n), CallOf("g", <<n>>))), Infix("OR", C, Unary("NOT", C)),
     Infix("OR", Infix("AND", C, Infix("EQ", b, QAt(b))), Infix("LE", CallOf("g", <<b>>), n)),
     Infix("AND", Infix("OR", Infix("NE", PostDec(n), b), C), Infix("GE", Inc(n), Lit(0))),
     Infix("AND", Const("TRUE"), Infix("GT", n, Lit(0))),
     Infix("EQ", Unary("ADDRESS_OF", n), Const("NULL"))}
Count(body) ==
    For(<<Set(Var("i"), Lit(0))>>, Less(Var("i"), Lit(3)), <<ExpressionStatement(Inc(Var("i")))>>, body)
Branching ==
    UNION {{<<If(<<[condition |-> x, body |-> <<Show(n, b)>>],
                   [condition |-> C, body |-> <<Finish(n)>>]>>, <<Show(b, n)>>), Finish(Lit(1))>>,
            <<Count(<<IfThen(x, <<Continue(1)>>), Show(n, Var("i")), IfThen(C, <<Break(1)>>)>>),
              Finish(Var("i"))>>,
            <<While(x, <<Show(n, n), Set(n, Lit(0)), Break(1)>>), Set(Var("k"), x), IfThen(Var("k"), <<Finish(b)>>),
              Finish(n)>>,
            <<DeclareLocalVar("m", IntType, <<>>, 1), IfThen(x, <<Set(Var("m"), b)>>),
              IfThen(x, <<Finish(Var("m"))>>), Finish(Lit(2))>>}
           : x \in Conditions}

\* Variables read and written through pointers and as fields.
S == Var("s")
R == Var("r")
PointTo(place) == Set(R, Unary("ADDRESS_OF", place))
MadeFoo == Set(S, Literal("Foo", <<"y", "x">>, <<Inc(n), Inc(b)>>))
Places == {Unary("DEREFERENCE", q), QAt(b), QAt(n), Dot(S, "x"), Arrow(Unary("ADDRESS_OF", S), "x"), b,
           Dot(Unary("DEREFERENCE", Unary("ADDRESS_OF", S)), "x")}
Memory ==
    UNION {{<<MadeFoo, Set(place, Cast(value, "byte", 0)), Show(b, QAt(Lit(2))), Finish(Dot(S, "x"))>> :
              value \in {n, Inc(place), PostDec(n), CallOf("g", <<Dot(S, "y")>>)}} : place \in Places}
    \cup {<<MadeFoo, PointTo(place), Set(Unary("DEREFERENCE", R), Lit(3)), Show(place, n),
            ExpressionStatement(Unary("POST_DECREMENT", Unary("DEREFERENCE", R))),
            Finish(Infix("SUB", place, Unary("DEREFERENCE", R)))>> : place \in {n, Dot(S, "y")}}
    \cup {<<MadeFoo, Set(Var("t"), S), ExpressionStatement(Inc(Dot(Var("t"), "y"))), Show(Dot(S, "y"), Dot(Var("t"), "y")),
            IfThen(C, <<Set(S, Var("t"))>>), Finish(Dot(S, "y"))>>,
           <<Set(S, Literal("Foo", <<"x">>, <<b>>)), Finish(Infix("ADD", Dot(S, "y"), Dot(S, "x")))>>,
           <<DeclareLocalVar("s", AstType("Foo", 0), <<>>, 1), Set(Dot(S, "x"), b), Set(Var("t"), S),
             IfThen(C, <<Finish(Dot(Var("t"), "y"))>>), Finish(Dot(Var("t"), "x"))>>,
           <<ExpressionStatement(Inc(q)), Set(Unary("DEREFERENCE", Unary("POST_INCREMENT", q)), b),
             Set(R, Unary("PRE_DECREMENT", q)), IfThen(Infix("EQ", R, q), <<Show(Unary("DEREFERENCE", R), n)>>),
             Finish(Infix("INDEXING", R, b))>>}

\* Functions that return nothing, one after looking at what was never stored.
Silent == {<<IfThen(C, <<Set(Var("k"), C), Return(1)>>), Set(QAt(b), b), Show(b, n)>>,
           <<DeclareLocalVar("k", BoolType, <<>>, 1), IfThen(C, <<Set(Var("k"), C)>>),
             IfThen(Var("k"), <<Set(QAt(b), b)>>)>>}

ExecutedFiles ==
    {File(s) : s \in Shown \cup Computed \cup Branching \cup Memory}
    \cup {FileReturning(VoidType, s) : s \in Silent}

\* Bytes compared with bytes.
ComparingFiles ==
    {File(<<IfThen(Infix(op, b, QAt(Lit(0))), <<Finish(Lit(1))>>), Finish(Lit(0))>>) :
        op \in {"LT", "EQ", "GE"}}

ExecutedInputs ==
    {[arguments |-> <<i, j, 0>>, buffer |-> <<1, 3, 0, 2>>] : i \in {-8, 2}, j \in {0, 3}}
TwoAnswers == {-1, 3}
=============================================================================
