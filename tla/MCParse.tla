------------------------------ MODULE MCParse ------------------------------
(***************************************************************************)
(* Files for the parser: every short line over small alphabets of tokens,  *)
(* files written from trees, and those files with one token wrong.         *)
(***************************************************************************)
EXTENDS ParsedFiles, Sources

KeywordTexts ==
    {"def", "declare", "struct", "return", "if", "elif", "else", "while", "for", "break",
     "continue", "True", "False", "NULL", "and", "or", "not", "as", "void", "int", "byte", "bool"}
NameTexts == {"f", "g", "ok", "Foo", "a", "b", "p", "x", "y"}
LayoutTypes == {"NEWLINE", "INDENT", "DEDENT", "END_OF_FILE"}
Lex(text) ==
    CASE text \in LayoutTypes \cup {"CHAR", "STRING"} -> Token(text, "", 0)
      [] text = "1" -> [Token("INT", "", 0) EXCEPT !.number = 1]
      [] text \in KeywordTexts -> Token("KEYWORD", text, 0)
      [] text \in NameTexts -> Token("NAME", text, 0)
      [] OTHER -> Token("OPERATOR", text, 0)
Numbered(ts) ==
    [i \in DOMAIN ts |-> [ts[i] EXCEPT !.line =
        1 + Cardinality({j \in 1 .. i - 1 : ts[j].type = "NEWLINE"})]]
Tokenized(texts) == Numbered([i \in DOMAIN texts |-> Lex(texts[i])])

Up == <<"NEWLINE", "INDENT">>
InFunction(texts) ==
    Tokenized(<<"def", "f", "(", ")", "->", "void", ":">> \o Up \o texts \o <<"DEDENT", "END_OF_FILE">>)
Line(texts) == InFunction(texts \o <<"NEWLINE">>)
Headed(texts) == InFunction(texts \o <<":">> \o Up \o <<"break", "NEWLINE", "DEDENT">>)

\* Every line of at most n tokens of an alphabet.
Lines(alphabet, n) == {Line(ts) : ts \in SeqOf(alphabet, n)}
Values(alphabet, n) == {Line(<<"x", "=">> \o ts) : ts \in SeqOf(alphabet, n)}
\* Operands and operators in turn, of every precedence.
Flat ==
    {Line(<<"x", "=">> \o l \o <<op>> \o m \o <<p>> \o r) :
        l, m, r \in {<<"a">>, <<"not", "a">>, <<"b", "as", "int">>},
        op, p \in {"and", "or", "==", "<", "+", "*"}}
\* Everything that may be before and behind an operand.
Surrounded ==
    {Line(before \o <<"p">> \o behind) :
        before \in SeqOf({"++", "--", "*", "&"}, 3), behind \in SeqOf({"++", "--"}, 2)}
\* Every list of up to three parameters, the same one repeated, "..." anywhere.
ParameterLists ==
    LET lists == {FlattenSeq([i \in DOMAIN ps |-> ps[i] \o <<",">>]) :
                    ps \in SeqOf({<<"a", ":", "int">>, <<"b", ":", "Foo">>, <<"...">>}, 3)}
    IN  lists \cup {Front(l) : l \in lists \ {<<>>}}
Headings ==
    {Tokenized(<<start[1], "f", "(">> \o l \o <<")", "->", "void">> \o start[2] \o <<"END_OF_FILE">>) :
        l \in ParameterLists,
        start \in {<<"declare", <<"NEWLINE">> >>, <<"def", <<":">> \o Up \o <<"return", "NEWLINE", "DEDENT">> >>}}
ShortLines ==
    {Flat, Surrounded, Headings,
     Lines({"p", "++", "->", "(", ")"}, 4),
     Lines({"f", "(", ")", ",", "1"}, 4),
     Lines({"return", "x", ":", "int", "="}, 4),
     Values({"a", "-", "/", "(", ")"}, 4),
     Values({"a", ".", "->", "[", "]"}, 4),
     {Line(<<"x", "=", "Foo", "{", "x">> \o ts) : ts \in SeqOf({"x", "y", "=", ",", "}"}, 4)},
     {Headed(<<keyword>> \o ts) : keyword \in {"if", "while"}, ts \in SeqOf({"x", "return", "not"}, 2)},
     {Headed(<<"for", "x", "++">> \o ts) : ts \in SeqOf({"x", "++", ";", "break"}, 4)},
     {Tokenized(<<"declare", "f", "(", "a">> \o ts \o <<"->", "int", "NEWLINE", "END_OF_FILE">>) :
        ts \in SeqOf({"a", ":", "int", ",", "...", ")"}, 4)}}
-----------------------------------------------------------------------------
\* Trees, every operator next to and inside every other.
Leaves == {Var("a"), Const("TRUE"), Integer(1, NoType, 1)}
UnaryOf(es) ==
    {Unary(op, e) : op \in {"NOT", "DEREFERENCE", "ADDRESS_OF", "PRE_INCREMENT", "POST_DECREMENT"}, e \in es}
    \cup {Dot(e, "x") : e \in es} \cup {Arrow(e, "x") : e \in es}
    \cup {Cast(e, "int", 0) : e \in es} \cup {Cast(e, "Foo", 2) : e \in es}
    \cup {CallOf("f", <<e>>) : e \in es} \cup {Literal("Foo", <<"x">>, <<e>>) : e \in es}
InfixOf(ls, rs) ==
    {Infix(op, l, r) : op \in {"AND", "OR", "LE", "SUB", "DIV", "INDEXING"}, l \in ls, r \in rs}
Operators == UnaryOf({Var("a")}) \cup InfixOf({Var("a")}, {Var("b")})
AllKinds == UnaryOf({Var("a")}) \cup {Infix(op, Var("a"), Var("b")) :
                op \in {"AND", "OR", "EQ", "NE", "GT", "GE", "LT", "LE", "ADD", "SUB", "MUL", "DIV", "INDEXING"}}
Expressions ==
    UNION {Leaves \cup AllKinds,
           InfixOf(AllKinds, {Var("b")}) \cup InfixOf({Var("a")}, AllKinds),
           UnaryOf(UnaryOf(UnaryOf({Var("p")}))) \cup UnaryOf(InfixOf(Operators, {Var("b")})),
           {CallOf("f", <<l, r>>) : l, r \in Operators},
           {Literal("Foo", <<"y", "x">>, <<l, r>>) : l, r \in Operators}}

Increments == {Unary("PRE_DECREMENT", Unary("DEREFERENCE", Var("p"))), Unary("POST_INCREMENT", Var("p"))}
OneLines ==
    {Assign(t, e, 1) : t \in {Var("x"), Arrow(Var("p"), "x")}, e \in {Var("a"), Infix("OR", Var("a"), Var("b"))}}
    \cup {ExpressionStatement(e) : e \in Increments \cup {CallOf("f", <<>>)}}
    \cup {DeclareLocalVar("x", t, e, 1) : t \in {IntType, AstType("Foo", 2)}, e \in {<<>>, <<Const("NULL")>>}}
    \cup {ReturnValue(Var("a"), 1), Return(1), Break(1), Continue(1)}
Branch(e, body) == [condition |-> e, body |-> body]
Compound(body, other) ==
    {While(Var("a"), body), If(<<Branch(Var("a"), body)>>, <<>>), If(<<Branch(Var("a"), other)>>, body),
     If(<<Branch(Var("a"), other), Branch(Var("b"), body)>>, other),
     If(<<Branch(Var("a"), body), Branch(Var("b"), body), Branch(Var("x"), other)>>, <<>>)}
Loops(body) ==
    {For(<<s>>, Var("a"), <<t>>, body) :
        s \in OneLines \ {Return(1)}, t \in {Break(1), ExpressionStatement(Unary("PRE_INCREMENT", Var("x")))}}
Bodies ==
    UNION {{<<Assign(Var("x"), e, 1)>> : e \in Expressions},
           {<<s, t>> : s, t \in OneLines},
           {<<s, Return(1)>> : s \in Loops(<<Continue(1)>>)},
           {<<s, Return(1)>> : s \in Compound(<<Break(1)>>, <<Return(1)>>)},
           UNION {{<<u, Return(1)>> : u \in Compound(<<s>>, <<Break(1), t>>)} :
                    s, t \in Compound(<<Break(1)>>, <<Return(1), Break(1)>>)}}

Signatures ==
    {Sig("ok", names, types, t) :
        names \in {<<"a", "b">>}, types \in {<<IntType, ByteType>>, <<AstType("Foo", 1), BoolType>>},
        t \in {VoidType, AstType("byte", 2)}}
    \cup {Sig("ok", <<>>, <<>>, VoidType)}
Toplevels ==
    {Declare([s EXCEPT !.takes_varargs = varargs]) : s \in Signatures, varargs \in BOOLEAN}
    \cup {Define(s, <<Return(1)>>) : s \in Signatures}
    \cup {Struct("Foo", <<"x", "y">>, <<IntType, AstType("Foo", 1)>>), Struct("ok", <<"x">>, <<BoolType>>)}
Trees ==
    UNION {{<<Define(Sig("ok", <<>>, <<>>, VoidType), body), EndOfTheFile>> : body \in Bodies},
           {<<n, m, EndOfTheFile>> : n, m \in Toplevels},
           {<<EndOfTheFile>>}}
WrittenFiles == {Numbered(WriteFile(tree)) : tree \in Trees}

\* Different trees are written differently, and what is written of one
\* expression is no way to write another, with parentheses it does not need.
\* So a file written from a tree that is read as it was written is read as
\* that tree.
ASSUME WritingIsUnambiguous ==
    /\ Cardinality(WrittenFiles) = Cardinality(Trees)
    /\ LET written == {Ungrouped(Write(e)) : e \in Expressions}
       IN  \A v, w \in written : v.tokens = w.tokens /\ Groups(w, v) => v = w
-----------------------------------------------------------------------------
\* A file with everything in it, and that file with one token left out,
\* doubled or replaced.  The layout is the tokenizer's.
Everything ==
    Tokenized(<<"struct", "Foo", ":">> \o Up \o <<"x", ":", "int", "*", "NEWLINE", "y", ":", "Foo", "NEWLINE", "DEDENT",
        "declare", "f", "(", "a", ":", "int", ",", "...", ")", "->", "void", "NEWLINE",
        "def", "g", "(", "a", ":", "bool", ",", "b", ":", "int", ")", "->", "int", ":">> \o Up
        \o <<"x", ":", "Foo", "=", "Foo", "{", "x", "=", "&", "a", ",", "y", "=", "1", "}", "NEWLINE",
        "for", "p", "=", "1", ";", "p", "<", "b", ";", "p", "++", ":">> \o Up
        \o <<"if", "a", "and", "not", "b", "==", "1", ":">> \o Up \o <<"break", "NEWLINE", "DEDENT",
        "elif", "f", "(", "1", ",", ")", ":">> \o Up \o <<"continue", "NEWLINE", "DEDENT",
        "else", ":">> \o Up \o <<"x", ".", "x", "[", "p", "+", "1", "]", "=", "b", "NEWLINE", "DEDENT", "DEDENT",
        "while", "(", "a", "or", "b", ")", ":">> \o Up \o <<"*", "p", "++", "NEWLINE", "DEDENT",
        "return", "x", "as", "int", "*", "NEWLINE", "DEDENT", "END_OF_FILE">>)
Places == {i \in DOMAIN Everything : Everything[i].type \notin LayoutTypes}
Replacements == {",", ")", "(", ":", "=", "*", "x", "int", "not", "and", "return", "STRING", "else", "+"}
WithReplaced(i, text) == [Everything EXCEPT ![i] = [Lex(text) EXCEPT !.line = Everything[i].line]]
WrongFiles ==
    UNION {{Everything},
           {RemoveAt(Everything, i) : i \in Places},
           {InsertAt(Everything, i, Everything[i]) : i \in Places},
           {WithReplaced(i, text) : i \in Places, text \in Replacements},
           {InFunction(ts) : ts \in
            {<<"if", "a", ":", "NEWLINE", "break", "NEWLINE">>, <<"break", "NEWLINE", "INDENT", "break", "NEWLINE", "DEDENT">>,
             <<"while", "a", ":", "NEWLINE">>, <<"return">> \o Up \o <<"1", "NEWLINE", "DEDENT">>,
             <<"else", ":">> \o Up \o <<"break", "NEWLINE", "DEDENT">>}}}

ParserFiles == ShortLines \cup {WrittenFiles, WrongFiles}
=============================================================================
