---------------------------- MODULE ParsedFiles ----------------------------
(***************************************************************************)
(* What the parser owes to its caller.                                     *)
(***************************************************************************)
EXTENDS Parse, Written

\* The tree says what the file says: written back it is the file again, every
\* node on its line, where the tree needs parentheses the file has them, and
\* those it has beyond that are around one whole expression of the tree.
\* Precedence, associativity, grouping, the order of prefixes and suffixes and
\* the ends of bodies are all in it: "a - (b - a)" is not what is written of a
\* tree that leans to the left, as no expression of that is "b - a".
ReadAsWritten == IsParsed => WritesAs(ast, tokens)

\* What is written from a tree is no error.  Those files call a function or a
\* struct "ok".
GrammaticalIsAccepted ==
    HasFailed => \A i \in DOMAIN tokens : tokens[i].text # "ok"

-----------------------------------------------------------------------------
RECURSIVE Subexpressions(_)
Subexpressions(e) ==
    {e} \cup UNION {Subexpressions(e.operands[i]) : i \in DOMAIN e.operands}
RECURSIVE BodyExpressions(_)
BodyExpressions(body) ==
    UNION {CASE body[i].kind = "IF" ->
                    UNION {Subexpressions(b.condition) \cup BodyExpressions(b.body) :
                               b \in ToSet(body[i].if_and_elifs)} \cup BodyExpressions(body[i].elsebody)
             [] body[i].kind \in {"WHILE", "FOR"} ->
                    BodyExpressions(body[i].init \o body[i].incr \o body[i].body)
                    \cup Subexpressions(body[i].cond)
             [] body[i].kind = "ASSIGN" ->
                    Subexpressions(body[i].target) \cup Subexpressions(body[i].value)
             [] body[i].kind = "DECLARE_LOCAL_VAR" ->
                    UNION {Subexpressions(e) : e \in ToSet(body[i].initial_value)}
             [] body[i].kind \in {"EXPRESSION_STATEMENT", "RETURN_VALUE"} ->
                    Subexpressions(body[i].expression)
             [] OTHER -> {} : i \in DOMAIN body}

\* What typecheck.c takes for granted about a tree and does not look at again:
\* no two parameters, fields or fields of a literal have the same name, every
\* field of a literal has a value, and a function with a body has no "...".
NamesAreDistinct ==
    \A i \in DOMAIN ast : LET n == ast[i] IN
        /\ n.kind = "DEFINE_STRUCT" => IsInjective(n.fieldnames)
        /\ n.kind \in {"DECLARE_FUNCTION", "DEFINE_FUNCTION"} => IsInjective(n.signature.argnames)
        /\ n.kind = "DEFINE_FUNCTION" =>
            /\ ~n.signature.takes_varargs
            /\ \A e \in BodyExpressions(n.body) :
                /\ IsInjective(e.argnames)
                /\ e.kind = "BRACE_INIT" => Len(e.argnames) = Len(e.operands)
=============================================================================
