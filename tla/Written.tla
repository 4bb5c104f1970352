------------------------------ MODULE Written ------------------------------
(***************************************************************************)
(* How a tree is written in Jou: the grammar parse.c is a parser for,      *)
(* stated from the tree's side.  Parentheses are written where they are    *)
(* needed, and every expression is enclosed in a pair of marks, where      *)
(* parentheses may be.  A token written here has the line of its node, 0   *)
(* where the tree knows none.                                              *)
(***************************************************************************)
EXTENDS Naturals, SequencesExt, Ast

Token(type, text, line) == [type |-> type, text |-> text, number |-> 0, line |-> line]
Op(text, line) == <<Token("OPERATOR", text, line)>>
Kw(text, line) == <<Token("KEYWORD", text, line)>>
NameToken(text, line) == <<Token("NAME", text, line)>>
Newline == <<Token("NEWLINE", "", 0)>>
Marked(ts) == <<Token("MARK", "(", 0)>> \o ts \o <<Token("MARK", ")", 0)>>
-----------------------------------------------------------------------------
OperatorOf ==
    ("EQ" :> "==") @@ ("NE" :> "!=") @@ ("GT" :> ">") @@ ("GE" :> ">=") @@ ("LT" :> "<")
    @@ ("LE" :> "<=") @@ ("ADD" :> "+") @@ ("SUB" :> "-") @@ ("MUL" :> "*") @@ ("DIV" :> "/")
    @@ ("PRE_INCREMENT" :> "++") @@ ("PRE_DECREMENT" :> "--") @@ ("POST_INCREMENT" :> "++")
    @@ ("POST_DECREMENT" :> "--") @@ ("DEREFERENCE" :> "*") @@ ("ADDRESS_OF" :> "&")
    @@ ("GET_FIELD" :> ".") @@ ("DEREF_AND_GET_FIELD" :> "->")

\* How tightly an expression holds together.
Level(e) ==
    CASE e.kind \in {"AND", "OR"} -> 1
      [] e.kind = "NOT" -> 2
      [] e.kind \in {"EQ", "NE", "GT", "GE", "LT", "LE"} -> 3
      [] e.kind = "AS" -> 4
      [] e.kind \in {"ADD", "SUB"} -> 5
      [] e.kind \in {"MUL", "DIV"} -> 6
      [] e.kind \in IncrementKinds \cup {"DEREFERENCE", "ADDRESS_OF"} -> 7
      [] OTHER -> 8

Suffixed == {"POST_INCREMENT", "POST_DECREMENT"}
Prefixed == {"PRE_INCREMENT", "PRE_DECREMENT"}

\* ++ and -- in front of an operand, with nothing else between.
RECURSIVE OnlyPrefixes(_)
OnlyPrefixes(e) ==
    \/ Level(e) = 8
    \/ e.kind \in Prefixed /\ (e.operands[1].kind \in Suffixed \/ OnlyPrefixes(e.operands[1]))

\* May operand i of e be written without parentheses?  ++ and -- in front of
\* an operand are done before those behind it, and * and & after both.
Fits(e, i) ==
    LET operand == e.operands[i]
    IN  CASE e.kind \in {"AND", "OR"} -> Level(operand) > 1 \/ (i = 1 /\ operand.kind = e.kind)
          [] e.kind \in Suffixed -> operand.kind \in Suffixed \/ OnlyPrefixes(operand)
          [] e.kind \in Prefixed -> Level(operand) >= 7 /\ operand.kind \notin Suffixed
          [] e.kind \in {"DEREFERENCE", "ADDRESS_OF"} -> Level(operand) >= 7
          [] e.kind \in {"FUNCTION_CALL", "BRACE_INIT"} -> TRUE
          [] e.kind = "INDEXING" /\ i = 2 -> TRUE
          [] Level(e) \in {2, 3} -> Level(operand) > Level(e)
          [] Level(e) \in 4 .. 6 -> Level(operand) >= Level(e) + i - 1
          [] OTHER -> Level(operand) = 8

WriteType(t, line) ==
    <<Token(IF t.name \in {"void", "int", "byte", "bool"} THEN "KEYWORD" ELSE "NAME", t.name, line)>>
    \o FlattenSeq([i \in 1 .. t.npointers |-> Op("*", line)])
ConstantTokens ==
    ("integer" :> "INT") @@ ("char" :> "CHAR") @@ ("string" :> "STRING") @@ ("TRUE" :> "KEYWORD")
    @@ ("FALSE" :> "KEYWORD") @@ ("NULL" :> "KEYWORD")
ConstantTexts == ("TRUE" :> "True") @@ ("FALSE" :> "False") @@ ("NULL" :> "NULL")
WriteConstant(e) ==
    IF e.name \in DOMAIN ConstantTexts THEN Kw(ConstantTexts[e.name], e.line)
    ELSE <<[Token(ConstantTokens[e.name], "", e.line) EXCEPT !.number = e.number]>>

\* Lists with commas between their parts.
Separated(parts) ==
    FlattenSeq([i \in DOMAIN parts |-> IF i = 1 THEN parts[i] ELSE Op(",", 0) \o parts[i]])

RECURSIVE Write(_)
WriteOperand(e, i) ==
    IF Fits(e, i) THEN Write(e.operands[i]) ELSE Op("(", 0) \o Write(e.operands[i]) \o Op(")", 0)
Write(e) ==
    LET operands == [i \in DOMAIN e.operands |-> WriteOperand(e, i)]
        named == [i \in DOMAIN e.argnames |-> NameToken(e.argnames[i], 0) \o Op("=", 0) \o operands[i]]
    IN  Marked(
        CASE e.kind = "CONSTANT" -> WriteConstant(e)
          [] e.kind = "GET_VARIABLE" -> NameToken(e.name, e.line)
          [] e.kind = "FUNCTION_CALL" ->
                NameToken(e.name, e.line) \o Op("(", 0) \o Separated(operands) \o Op(")", 0)
          [] e.kind = "BRACE_INIT" ->
                NameToken(e.name, e.line) \o Op("{", 0) \o Separated(named) \o Op("}", 0)
          [] e.kind = "INDEXING" -> operands[1] \o Op("[", e.line) \o operands[2] \o Op("]", 0)
          [] e.kind \in {"GET_FIELD", "DEREF_AND_GET_FIELD"} ->
                operands[1] \o Op(OperatorOf[e.kind], e.line) \o NameToken(e.name, 0)
          [] e.kind = "AS" -> operands[1] \o Kw("as", e.line) \o WriteType(AstType(e.name, e.number), 0)
          [] e.kind = "NOT" -> Kw("not", e.line) \o operands[1]
          [] e.kind \in Suffixed -> operands[1] \o Op(OperatorOf[e.kind], e.line)
          [] e.kind \in Prefixed \cup {"DEREFERENCE", "ADDRESS_OF"} ->
                Op(OperatorOf[e.kind], e.line) \o operands[1]
          [] e.kind \in {"AND", "OR"} ->
                operands[1] \o Kw(IF e.kind = "AND" THEN "and" ELSE "or", e.line) \o operands[2]
          [] OTHER -> operands[1] \o Op(OperatorOf[e.kind], e.line) \o operands[2])
-----------------------------------------------------------------------------
WriteDeclaration(s) ==
    NameToken(s.name, s.line) \o Op(":", 0) \o WriteType(s.asttype, 0)
    \o FlattenSeq([i \in DOMAIN s.initial_value |-> Op("=", 0) \o Write(s.initial_value[i])])
WriteOneLine(s) ==
    CASE s.kind = "RETURN_VALUE" -> Kw("return", s.line) \o Write(s.expression)
      [] s.kind = "RETURN_WITHOUT_VALUE" -> Kw("return", s.line)
      [] s.kind = "BREAK" -> Kw("break", s.line)
      [] s.kind = "CONTINUE" -> Kw("continue", s.line)
      [] s.kind = "DECLARE_LOCAL_VAR" -> WriteDeclaration(s)
      [] s.kind = "ASSIGN" -> Write(s.target) \o Op("=", 0) \o Write(s.value)
      [] s.kind = "EXPRESSION_STATEMENT" -> Write(s.expression)

RECURSIVE WriteStatement(_)
Block(lines) ==
    Op(":", 0) \o Newline \o <<Token("INDENT", "", 0)>> \o FlattenSeq(lines) \o <<Token("DEDENT", "", 0)>>
WriteBody(body) == Block([i \in DOMAIN body |-> WriteStatement(body[i])])
WriteBranch(keyword, branch) == Kw(keyword, 0) \o Write(branch.condition) \o WriteBody(branch.body)
WriteStatement(s) ==
    CASE s.kind = "IF" ->
            FlattenSeq([i \in DOMAIN s.if_and_elifs |->
                           WriteBranch(IF i = 1 THEN "if" ELSE "elif", s.if_and_elifs[i])])
            \o (IF s.elsebody = <<>> THEN <<>> ELSE Kw("else", 0) \o WriteBody(s.elsebody))
      [] s.kind = "WHILE" -> Kw("while", 0) \o Write(s.cond) \o WriteBody(s.body)
      [] s.kind = "FOR" -> Kw("for", 0) \o WriteOneLine(s.init[1]) \o Op(";", 0) \o Write(s.cond)
                           \o Op(";", 0) \o WriteOneLine(s.incr[1]) \o WriteBody(s.body)
      [] OTHER -> WriteOneLine(s) \o Newline

WriteParameters(names, types) ==
    [i \in DOMAIN names |-> NameToken(names[i], 0) \o Op(":", 0) \o WriteType(types[i], 0)]
WriteSignature(sig) ==
    NameToken(sig.funcname, 0) \o Op("(", 0)
    \o Separated(WriteParameters(sig.argnames, sig.argtypes)
                 \o (IF sig.takes_varargs THEN <<Op("...", 0)>> ELSE <<>>))
    \o Op(")", 0) \o Op("->", 0) \o WriteType(sig.returntype, 0)
WriteToplevel(n) ==
    CASE n.kind = "DECLARE_FUNCTION" -> Kw("declare", n.line) \o WriteSignature(n.signature) \o Newline
      [] n.kind = "DEFINE_FUNCTION" ->
            Kw("def", n.line) \o WriteSignature(n.signature) \o WriteBody(n.body)
      [] n.kind = "DEFINE_STRUCT" ->
            Kw("struct", n.line) \o NameToken(n.name, 0)
            \o Block([i \in DOMAIN n.fieldnames |->
                         WriteParameters(n.fieldnames, n.fieldtypes)[i] \o Newline])
      [] n.kind = "END_OF_FILE" -> <<Token("END_OF_FILE", "", n.line)>>
WriteMarked(ast) == FlattenSeq([i \in DOMAIN ast |-> WriteToplevel(ast[i])])
WriteFile(ast) == SelectSeq(WriteMarked(ast), LAMBDA t : t.type # "MARK")
-----------------------------------------------------------------------------
\* The same token, as far as a tree can know.
SameToken(t, u) ==
    t.type = u.type /\ t.text = u.text /\ t.number = u.number /\ t.line \in {0, u.line}
SameTokens(ts, us) == Len(ts) = Len(us) /\ \A i \in DOMAIN ts : SameToken(ts[i], us[i])

\* The tokens without what groups them.  A parenthesis groups unless it is
\* behind a name; of each pair of those that do, and of each pair of marks,
\* the places of the tokens between are kept.  A comma that ends a list says
\* nothing.
IsOperator(t, operators) == t.type = "OPERATOR" /\ t.text \in operators
WithoutLastComma(ts) ==
    IF /\ Len(ts) > 1 /\ IsOperator(Last(ts), {","})
       /\ ~IsOperator(ts[Len(ts) - 1], {"(", "{"})
    THEN Front(ts) ELSE ts
Take(read, t) ==
    LET place == Len(read.tokens)
        is_list == t.type = "OPERATOR" /\ place > 0 /\ Last(read.tokens).type = "NAME"
        closes == IsOperator(t, {")"}) /\ read.open # <<>>
        opened == Last(read.open)
        closed == [read EXCEPT !.open = Front(@)]
        between == {<<opened.place + 1, place>>}
    IN  CASE t.type \in {"OPERATOR", "MARK"} /\ t.text = "(" ->
                [read EXCEPT !.open = Append(@, [place |-> place, is_list |-> is_list]),
                             !.tokens = IF is_list THEN Append(@, t) ELSE @]
          [] closes /\ opened.is_list ->
                [closed EXCEPT !.tokens = Append(WithoutLastComma(@), t)]
          [] closes /\ ~opened.is_list -> [closed EXCEPT !.groups = @ \cup between]
          [] t.type = "MARK" /\ t.text = ")" -> [closed EXCEPT !.expressions = @ \cup between]
          [] IsOperator(t, {"}"}) -> [read EXCEPT !.tokens = Append(WithoutLastComma(@), t)]
          [] OTHER -> [read EXCEPT !.tokens = Append(@, t)]
Ungrouped(ts) ==
    FoldLeft(Take, [tokens |-> <<>>, open |-> <<>>, groups |-> {}, expressions |-> {}], ts)

\* The groups that are needed are there, and no other but around a whole
\* expression.
Groups(written, read) ==
    written.groups \subseteq read.groups /\ read.groups \subseteq written.expressions

\* ts is a way to write the tree.
WritesAs(ast, ts) ==
    LET written == Ungrouped(WriteMarked(ast))
        read == Ungrouped(ts)
    IN  SameTokens(written.tokens, read.tokens) /\ read.open = <<>> /\ Groups(written, read)
=============================================================================
