------------------------------- MODULE Parse -------------------------------
(***************************************************************************)
(* parse.c: a recursive descent over the tokens of a file, one toplevel    *)
(* node at a time.                                                         *)
(*                                                                         *)
(* Every parsing function of the code moves a token pointer forward and    *)
(* returns a node or ends the program.  Here it takes a cursor, [pos,      *)
(* node, stop], and returns the cursor behind what it has read, with the   *)
(* node and with stop # NoError when the program has ended.  A stopped     *)
(* cursor is at no token, so that all the rest leaves it as it is.         *)
(***************************************************************************)
EXTENDS Naturals, SequencesExt, Ast

CONSTANT Families   \* sets of files; a file is a sequence of [type, text, number, line]

VARIABLES
    tokens,         \* what tokenize() returned
    pos,            \* the token *tokens points to
    ast,            \* the toplevel nodes parsed so far
    parse_error     \* what fail_with_error printed, NoError before that
vars == <<tokens, pos, ast, parse_error>>
-----------------------------------------------------------------------------
NoError == [message |-> "", line |-> 0]
NoToken == [type |-> "NONE", text |-> "", number |-> 0, line |-> 0]

Cursor(i) == [pos |-> i, node |-> <<>>, stop |-> NoError]
IsStopped(p) == p.stop # NoError
Tok(p) == IF IsStopped(p) THEN NoToken ELSE tokens[p.pos]
Advance(p) == [p EXCEPT !.pos = @ + 1]
Node(p, node) == [p EXCEPT !.node = node]
FailAt(p, line, message) ==
    IF IsStopped(p) THEN p ELSE [p EXCEPT !.stop = [message |-> message, line |-> line]]
Fail(p, message) == FailAt(p, Tok(p).line, message)

is_operator(t, operators) == t.type = "OPERATOR" /\ t.text \in operators
is_keyword(t, keywords) == t.type = "KEYWORD" /\ t.text \in keywords
eat_operator(p, operator) ==
    IF is_operator(Tok(p), {operator}) THEN Advance(p) ELSE Fail(p, operator)
EatType(p, type) == IF Tok(p).type = type THEN Advance(p) ELSE Fail(p, type)
eat_newline(p) == EatType(p, "NEWLINE")
-----------------------------------------------------------------------------
\* Types, parameters and fields.
RECURSIVE ParseStars(_)
ParseStars(p) ==
    IF is_operator(Tok(p), {"*"})
    THEN ParseStars(Node(Advance(p), [p.node EXCEPT !.npointers = @ + 1]))
    ELSE p
parse_type(p) ==
    IF Tok(p).type = "NAME" \/ is_keyword(Tok(p), {"void", "int", "byte", "bool"})
    THEN ParseStars(Node(Advance(p), AstType(Tok(p).text, 0)))
    ELSE Fail(p, "a type")

\* The node of p is the list of names and types read so far.
NoNames == [names |-> <<>>, types |-> <<>>, takes_varargs |-> FALSE]
NameAndType(p) ==
    LET typed(q) == Node(q, [p.node EXCEPT !.names = Append(@, Tok(p).text),
                                           !.types = Append(@, q.node)])
    IN  typed(parse_type(eat_operator(Advance(p), ":")))
\* (mutant) Two of the same name are let through.
parse_name_and_type_twice(p) ==
    IF Tok(p).type # "NAME" THEN Fail(p, "a name") ELSE NameAndType(p)
parse_name_and_type(p) ==
    IF Tok(p).type # "NAME" THEN Fail(p, "a name")
    ELSE IF Contains(p.node.names, Tok(p).text) THEN Fail(p, "there are multiple")
    ELSE NameAndType(p)

RECURSIVE ParseParameters(_)
ParseParameters(p) ==
    LET next(q) == IF is_operator(Tok(q), {","}) THEN ParseParameters(Advance(q)) ELSE q
    IN  IF IsStopped(p) \/ is_operator(Tok(p), {")"}) THEN p
        ELSE IF p.node.takes_varargs THEN Fail(p, "... must be the last parameter")
        ELSE IF is_operator(Tok(p), {"..."})
        THEN next(Node(Advance(p), [p.node EXCEPT !.takes_varargs = TRUE]))
        ELSE next(parse_name_and_type(p))

parse_function_signature(p) ==
    LET returning(list, q) ==
            Node(q, [funcname |-> Tok(p).text, argnames |-> list.names, argtypes |-> list.types,
                     takes_varargs |-> list.takes_varargs, returntype |-> q.node])
        closed(q) == returning(q.node, parse_type(eat_operator(eat_operator(q, ")"), "->")))
    IN  closed(ParseParameters(Node(eat_operator(EatType(p, "NAME"), "("), NoNames)))
-----------------------------------------------------------------------------
\* Expressions, from what binds tightest to what binds loosest.  A loop over
\* operators takes the cursor behind its first operand.  ParseLevel calls the
\* function for a level; parse_expression is the loosest.
RECURSIVE ParseLevel(_, _)
parse_expression(p) == ParseLevel("and_or", p)

build_operator_expression(t, operands) ==
    LET kinds == ("[" :> "INDEXING") @@ ("==" :> "EQ") @@ ("!=" :> "NE") @@ (">" :> "GT")
                @@ (">=" :> "GE") @@ ("<" :> "LT") @@ ("<=" :> "LE") @@ ("+" :> "ADD")
                @@ ("-" :> "SUB") @@ ("*" :> "MUL") @@ ("/" :> "DIV")
                @@ ("and" :> "AND") @@ ("or" :> "OR") @@ ("not" :> "NOT")
    IN  Expression(kinds[t.text], "", operands, NoType, t.line)

\* p is at the operator, q behind the right operand.
add_to_binop(p, q) == Node(q, build_operator_expression(Tok(p), <<p.node, q.node>>))

RECURSIVE ParseArguments(_, _, _)
ParseArgumentName(p) ==
    IF Tok(p).type # "NAME" THEN Fail(p, "a field name")
    ELSE IF Contains(p.node.argnames, Tok(p).text) THEN Fail(p, "there are two arguments")
    ELSE eat_operator(Node(Advance(p), [p.node EXCEPT !.argnames = Append(@, Tok(p).text)]), "=")
ParseArguments(p, closeparen, args_are_named) ==
    LET next(q) == IF is_operator(Tok(q), {","})
                   THEN ParseArguments(Advance(q), closeparen, args_are_named) ELSE q
        appended(list, q) == next(Node(q, [list EXCEPT !.operands = Append(@, q.node)]))
        value(q) == IF IsStopped(q) THEN q ELSE appended(q.node, parse_expression(q))
    IN  IF IsStopped(p) \/ is_operator(Tok(p), {closeparen}) THEN p
        ELSE value(IF args_are_named THEN ParseArgumentName(p) ELSE p)
\* p is at the name, and the parenthesis behind it has been seen.
parse_call(p, kind, closeparen, args_are_named) ==
    LET call == Expression(kind, Tok(p).text, <<>>, NoType, Tok(p).line)
    IN  eat_operator(ParseArguments(Node(Advance(Advance(p)), call), closeparen, args_are_named),
                     closeparen)

parse_elementary_expression(p) ==
    LET t == Tok(p)
        followed_by(operator) == is_operator(Tok(Advance(p)), {operator})
        read(kind, name) ==
            Node(Advance(p), [Expression(kind, name, <<>>, NoType, t.line) EXCEPT !.number = t.number])
    IN  CASE is_operator(t, {"("}) -> eat_operator(parse_expression(Advance(p)), ")")
          [] t.type = "INT" -> read("CONSTANT", "integer")
          [] t.type = "CHAR" -> read("CONSTANT", "char")
          [] t.type = "STRING" -> read("CONSTANT", "string")
          [] t.type = "NAME" ->
                IF followed_by("(") THEN parse_call(p, "FUNCTION_CALL", ")", FALSE)
                ELSE IF followed_by("{") THEN parse_call(p, "BRACE_INIT", "}", TRUE)
                ELSE read("GET_VARIABLE", t.text)
          [] is_keyword(t, {"True"}) -> read("CONSTANT", "TRUE")
          [] is_keyword(t, {"False"}) -> read("CONSTANT", "FALSE")
          [] is_keyword(t, {"NULL"}) -> read("CONSTANT", "NULL")
          [] OTHER -> Fail(p, "an expression")

RECURSIVE FieldsAndIndexing(_)
FieldsAndIndexing(p) ==
    LET field(q) ==
            IF Tok(q).type # "NAME" THEN Fail(q, "a field name")
            ELSE Node(Advance(q),
                      Expression(IF Tok(p).text = "->" THEN "DEREF_AND_GET_FIELD" ELSE "GET_FIELD",
                                 Tok(q).text, <<p.node>>, NoType, Tok(p).line))
    IN  IF is_operator(Tok(p), {"["})
        THEN FieldsAndIndexing(eat_operator(add_to_binop(p, parse_expression(Advance(p))), "]"))
        ELSE IF is_operator(Tok(p), {".", "->"})
        THEN FieldsAndIndexing(field(Advance(p)))
        ELSE p
parse_expression_with_fields_and_indexing(p) ==
    FieldsAndIndexing(parse_elementary_expression(p))

RECURSIVE Skip(_, _), ApplyUnary(_, _, _), ApplyUnary_suffixes_first(_, _, _)
Skip(p, operators) == IF is_operator(Tok(p), operators) THEN Skip(Advance(p), operators) ELSE p

IncrementTokens == {"++", "--"}
UnaryExpression(kinds, t, e) == Expression(kinds[t.text], "", <<e>>, NoType, t.line)
Before == ("++" :> "PRE_INCREMENT") @@ ("--" :> "PRE_DECREMENT")
            @@ ("*" :> "DEREFERENCE") @@ ("&" :> "ADDRESS_OF")
After == ("++" :> "POST_INCREMENT") @@ ("--" :> "POST_DECREMENT")
\* (mutant) Everything behind the operand binds tighter than what is before it.
ApplyUnary_suffixes_first(e, prefixes, suffixes) ==
    IF suffixes # <<>>
    THEN ApplyUnary_suffixes_first(UnaryExpression(After, Head(suffixes), e), prefixes, Tail(suffixes))
    ELSE IF prefixes # <<>>
    THEN ApplyUnary_suffixes_first(UnaryExpression(Before, Last(prefixes), e), Front(prefixes), suffixes)
    ELSE e
ApplyUnary(e, prefixes, suffixes) ==
    IF prefixes # <<>> /\ (is_operator(Last(prefixes), IncrementTokens) \/ suffixes = <<>>)
    THEN ApplyUnary(UnaryExpression(Before, Last(prefixes), e), Front(prefixes), suffixes)
    ELSE IF suffixes # <<>>
    THEN ApplyUnary(UnaryExpression(After, Head(suffixes), e), prefixes, Tail(suffixes))
    ELSE e
parse_expression_with_unary_operators(p) ==
    LET applied(start, q, end) ==
            IF IsStopped(q) THEN q
            ELSE Node(end, ApplyUnary(q.node, SubSeq(tokens, p.pos, start.pos - 1),
                                              SubSeq(tokens, q.pos, end.pos - 1)))
        suffixed(start, q) == applied(start, q, Skip(q, IncrementTokens))
        prefixed(start) == suffixed(start, ParseLevel("fields", start))
    IN  prefixed(Skip(p, IncrementTokens \cup {"&", "*"}))

RECURSIVE MulAndDiv(_), Add(_), Casts(_), AndOr(_)
MulAndDiv(p) ==
    IF is_operator(Tok(p), {"*", "/"})
    THEN MulAndDiv(add_to_binop(p, ParseLevel("unary", Advance(p)))) ELSE p
parse_expression_with_mul_and_div(p) == MulAndDiv(ParseLevel("unary", p))

Add(p) ==
    IF is_operator(Tok(p), {"+", "-"})
    THEN Add(add_to_binop(p, ParseLevel("mul_and_div", Advance(p)))) ELSE p
parse_expression_with_add(p) == Add(ParseLevel("mul_and_div", p))

CastBehind(p) ==
    LET cast(q) == Node(q, [Expression("AS", q.node.name, <<p.node>>, NoType, Tok(p).line)
                                EXCEPT !.number = q.node.npointers])
        unless_stopped(q) == IF IsStopped(q) THEN q ELSE cast(q)
    IN  unless_stopped(parse_type(Advance(p)))
\* (mutant) At most one "as".
Casts_once(p) == IF is_keyword(Tok(p), {"as"}) THEN CastBehind(p) ELSE p
Casts(p) == IF is_keyword(Tok(p), {"as"}) THEN Casts(CastBehind(p)) ELSE p
parse_expression_with_as(p) == Casts(ParseLevel("add", p))

Comparators == {"<", ">", "<=", ">=", "==", "!="}
parse_expression_with_comparisons(p) ==
    LET compared(q) == IF is_operator(Tok(q), Comparators)
                       THEN add_to_binop(q, ParseLevel("as", Advance(q))) ELSE q
        unchained(q) == IF is_operator(Tok(q), Comparators)
                        THEN Fail(q, "comparisons cannot be chained") ELSE q
    IN  unchained(compared(ParseLevel("as", p)))

parse_expression_with_not(p) ==
    LET negated(q) == Node(q, build_operator_expression(Tok(p), <<q.node>>))
        operand(q) == IF is_keyword(Tok(q), {"not"}) THEN Fail(q, "'not' cannot be repeated")
                      ELSE ParseLevel("comparisons", q)
    IN  IF is_keyword(Tok(p), {"not"}) THEN negated(operand(Advance(p))) ELSE operand(p)

\* Chained operators are all the same, so that got_and and got_or need only
\* remember the last one.
AndOr(p) ==
    LET chained(q, got) ==
            IF is_keyword(Tok(q), {"and", "or"} \ {got})
            THEN Fail(q, "'and' cannot be chained with 'or'") ELSE AndOr(q)
        operand(q) == chained(add_to_binop(p, q), Tok(p).text)
    IN  IF is_keyword(Tok(p), {"and", "or"})
        THEN operand(ParseLevel("not", Advance(p)))
        ELSE p
parse_expression_with_and_or(p) == AndOr(ParseLevel("not", p))

ParseLevel(level, p) ==
    CASE level = "fields" -> parse_expression_with_fields_and_indexing(p)
      [] level = "unary" -> parse_expression_with_unary_operators(p)
      [] level = "mul_and_div" -> parse_expression_with_mul_and_div(p)
      [] level = "add" -> parse_expression_with_add(p)
      [] level = "as" -> parse_expression_with_as(p)
      [] level = "comparisons" -> parse_expression_with_comparisons(p)
      [] level = "not" -> parse_expression_with_not(p)
      [] level = "and_or" -> parse_expression_with_and_or(p)
-----------------------------------------------------------------------------
\* Statements and bodies.
RECURSIVE parse_body(_)

StatementExpressions == {"FUNCTION_CALL"} \cup IncrementKinds
validate_expression_statement(p, line) ==
    IF IsStopped(p) THEN p
    ELSE IF p.node.kind \in StatementExpressions
    THEN Node(p, [ExpressionStatement(p.node) EXCEPT !.line = line])
    ELSE FailAt(p, p.node.line, "not a valid statement")

\* "foo: int" and "foo: int = value"
ParseLocalVariable(p) ==
    LET declared(q, asttype, value) ==
            Node(q, DeclareLocalVar(Tok(p).text, asttype, value, Tok(p).line))
        with_value(asttype, q) == declared(q, asttype, <<q.node>>)
        typed(q) == IF is_operator(Tok(q), {"="})
                    THEN with_value(q.node, parse_expression(Advance(q)))
                    ELSE declared(q, q.node, <<>>)
    IN  typed(parse_type(Advance(Advance(p))))

ParseExpressionOrAssignment(p) ==
    LET assigned(target, q) ==
            IF is_operator(Tok(q), {"="}) THEN Fail(q, "only one variable can be assigned")
            ELSE Node(q, Assign(target, q.node, Tok(p).line))
        behind(q) == IF is_operator(Tok(q), {"="})
                     THEN assigned(q.node, parse_expression(Advance(q)))
                     ELSE validate_expression_statement(q, Tok(p).line)
    IN  behind(parse_expression(p))

parse_oneline_statement(p) ==
    LET line == Tok(p).line
        returned(q) == Node(q, ReturnValue(q.node, line))
    IN  IF is_keyword(Tok(p), {"return"})
        THEN IF Tok(Advance(p)).type = "NEWLINE" THEN Node(Advance(p), Return(line))
             ELSE returned(parse_expression(Advance(p)))
        ELSE IF is_keyword(Tok(p), {"break"}) THEN Node(Advance(p), Break(line))
        ELSE IF is_keyword(Tok(p), {"continue"}) THEN Node(Advance(p), Continue(line))
        ELSE IF Tok(p).type = "NAME" /\ is_operator(Tok(Advance(p)), {":"})
        THEN ParseLocalVariable(p)
        ELSE ParseExpressionOrAssignment(p)

\* p is at "if" or "elif", with the branches before it.
RECURSIVE ParseBranches(_)
ParseBranches(p) ==
    LET more(q) == IF is_keyword(Tok(q), {"elif"}) THEN ParseBranches(q) ELSE q
        branch(condition, q) ==
            more(Node(q, Append(p.node, [condition |-> condition, body |-> q.node])))
        body(q) == branch(q.node, parse_body(q))
    IN  body(parse_expression(Advance(p)))
parse_if_statement(p) ==
    LET built(branches, q) == Node(q, If(branches, q.node))
        otherwise(q) == built(q.node, IF is_keyword(Tok(q), {"else"}) THEN parse_body(Advance(q))
                                      ELSE Node(q, <<>>))
    IN  otherwise(ParseBranches(Node(p, <<>>)))

ParseWhile(p) ==
    LET built(condition, q) == Node(q, While(condition, q.node))
        body(q) == built(q.node, parse_body(q))
    IN  body(parse_expression(Advance(p)))
ParseFor(p) ==
    LET built(init, cond, incr, q) == Node(q, For(<<init>>, cond, <<incr>>, q.node))
        body(init, cond, q) == built(init, cond, q.node, parse_body(q))
        last(init, q) == body(init, q.node, parse_oneline_statement(eat_operator(q, ";")))
        condition(q) == last(q.node, parse_expression(eat_operator(q, ";")))
    IN  condition(parse_oneline_statement(Advance(p)))

parse_statement(p) ==
    IF is_keyword(Tok(p), {"if"}) THEN parse_if_statement(p)
    ELSE IF is_keyword(Tok(p), {"while"}) THEN ParseWhile(p)
    ELSE IF is_keyword(Tok(p), {"for"}) THEN ParseFor(p)
    ELSE eat_newline(parse_oneline_statement(p))

parse_start_of_body(p) == EatType(eat_newline(eat_operator(p, ":")), "INDENT")

RECURSIVE ParseStatements(_), ParseFields(_)
ParseStatements(p) ==
    LET appended(q) == ParseStatements(Node(q, Append(p.node, q.node)))
    IN  IF IsStopped(p) \/ Tok(p).type = "DEDENT" THEN p ELSE appended(parse_statement(p))
parse_body(p) == EatType(ParseStatements(Node(parse_start_of_body(p), <<>>)), "DEDENT")

ParseFields(p) ==
    IF IsStopped(p) \/ Tok(p).type = "DEDENT" THEN p
    ELSE ParseFields(eat_newline(parse_name_and_type(p)))
parse_structdef(p, line) ==
    LET built(q) == Node(q, [kind |-> "DEFINE_STRUCT", name |-> Tok(p).text,
                             fieldnames |-> q.node.names, fieldtypes |-> q.node.types,
                             line |-> line])
    IN  built(EatType(ParseFields(Node(parse_start_of_body(EatType(p, "NAME")), NoNames)), "DEDENT"))
-----------------------------------------------------------------------------
ParseDefinition(p, line) ==
    LET built(signature, q) == Node(q, [kind |-> "DEFINE_FUNCTION", signature |-> signature,
                                        body |-> q.node, line |-> line])
        body(q) == IF IsStopped(q) THEN q
                   ELSE IF q.node.takes_varargs THEN Fail(q, "variadic functions cannot be defined")
                   ELSE built(q.node, parse_body(q))
    IN  body(parse_function_signature(p))
ParseDeclaration(p, line) ==
    LET built(q) == Node(q, [kind |-> "DECLARE_FUNCTION", signature |-> q.node, line |-> line])
    IN  built(eat_newline(parse_function_signature(p)))

parse_toplevel_node(p) ==
    LET line == Tok(p).line
    IN  CASE Tok(p).type = "END_OF_FILE" -> Node(p, [kind |-> "END_OF_FILE", line |-> line])
          [] is_keyword(Tok(p), {"def"}) -> ParseDefinition(Advance(p), line)
          [] is_keyword(Tok(p), {"declare"}) -> ParseDeclaration(Advance(p), line)
          [] is_keyword(Tok(p), {"struct"}) -> parse_structdef(Advance(p), line)
          [] OTHER -> Fail(p, "a definition or declaration")

\* parse(): the loop ends with the node that marks the end of the file.
IsParsed == ast # <<>> /\ Last(ast).kind = "END_OF_FILE"
HasFailed == parse_error # NoError

Init ==
    /\ \E files \in Families : tokens \in files
    /\ pos = 1
    /\ ast = <<>>
    /\ parse_error = NoError

ParseNode ==
    /\ ~IsParsed /\ ~HasFailed
    /\ \E p \in {parse_toplevel_node(Cursor(pos))} :
        /\ ~IsStopped(p)
        /\ pos' = p.pos
        /\ ast' = Append(ast, p.node)
    /\ UNCHANGED <<tokens, parse_error>>

ParseFails ==
    /\ ~IsParsed /\ ~HasFailed
    /\ \E p \in {parse_toplevel_node(Cursor(pos))} :
        /\ IsStopped(p)
        /\ pos' = p.pos
        /\ parse_error' = p.stop
    /\ UNCHANGED <<tokens, ast>>

Ended == (IsParsed \/ HasFailed) /\ UNCHANGED vars

Next == ParseNode \/ ParseFails \/ Ended
Spec == Init /\ [][Next]_vars /\ WF_vars(Next)
=============================================================================
