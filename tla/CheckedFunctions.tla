-------------------------- MODULE CheckedFunctions --------------------------
(***************************************************************************)
(* What typecheck_function leaves for build_function: the function         *)
(* definitions that may be compiled, and what build_cfg.c takes for        *)
(* granted of their syntax trees.                                          *)
(*                                                                         *)
(* A tree is a value inside a value, without bound on its depth.  Instead  *)
(* of a recursive definition, Trees gives for each function the            *)
(* expressions and statements its body is made of, and the assumption asks *)
(* of each of them that its parts are there too and fit.                   *)
(***************************************************************************)
EXTENDS Ast

CONSTANTS
    Functions,    \* the function definitions that may be compiled
    Trees         \* Trees[f].expressions and .statements, all those in f

ExpressionKinds ==
    ArithmeticKinds \cup IncrementKinds \cup AddressableKinds
    \cup {"FUNCTION_CALL", "ADDRESS_OF", "CONSTANT", "NOT", "AND", "OR", "BRACE_INIT", "AS"}
UnaryKinds ==
    IncrementKinds \cup {"DEREFERENCE", "GET_FIELD", "DEREF_AND_GET_FIELD", "ADDRESS_OF", "NOT", "AS"}
BinaryKinds == ArithmeticKinds \cup {"INDEXING", "AND", "OR"}

\* get_expr_types returned NULL.
ReturnsNothing(e) == e.kind = "FUNCTION_CALL" /\ e.type = NoType
\* The type the expression has for what is around it.
FinalType(e) == IF e.type_after_cast = NoType THEN e.type ELSE e.type_after_cast

HasVariable(f, name) == \E i \in DOMAIN f.variables : f.variables[i].name = name
Value(tree, e) == e \in tree.expressions /\ ~ReturnsNothing(e)
Condition(tree, e) == Value(tree, e) /\ FinalType(e) = boolType

ExpressionOK(f, tree, e) ==
    /\ e.kind \in ExpressionKinds
    /\ e.line \in Nat
    /\ e.operands \in Seq(tree.expressions)
    /\ \A i \in DOMAIN e.operands : Value(tree, e.operands[i])
    /\ e.kind \in UnaryKinds => Len(e.operands) = 1
    /\ e.kind \in BinaryKinds => Len(e.operands) = 2
    /\ e.kind \in {"AND", "OR"} => \A i \in DOMAIN e.operands : Condition(tree, e.operands[i])
    /\ e.kind = "GET_VARIABLE" =>
        /\ e.name # "return"
        /\ \E i \in DOMAIN f.variables : /\ f.variables[i].name = e.name
                                         /\ f.variables[i].type = e.type
    /\ e.kind \in IncrementKinds \cup {"ADDRESS_OF", "BRACE_INIT"} => e.type # boolType

BodyOK(tree, body) == body \in Seq(tree.statements)
StatementOK(f, tree, s) ==
    \/ /\ s.kind = "ASSIGN" /\ s.line \in Nat
       /\ s.target \in tree.expressions /\ Value(tree, s.value)
    \/ /\ s.kind = "DECLARE_LOCAL_VAR" /\ s.line \in Nat
       /\ HasVariable(f, s.name)
       /\ s.initial_value \in Seq(tree.expressions) /\ Len(s.initial_value) <= 1
       /\ \A i \in DOMAIN s.initial_value : Value(tree, s.initial_value[i])
    \/ /\ s.kind = "RETURN_VALUE" /\ s.line \in Nat
       /\ Value(tree, s.expression) /\ HasVariable(f, "return")
    \/ s.kind = "EXPRESSION_STATEMENT" /\ s.expression \in tree.expressions
    \/ s.kind \in {"RETURN_WITHOUT_VALUE", "BREAK", "CONTINUE"}
    \/ /\ s.kind = "IF"
       /\ Len(s.if_and_elifs) \in Nat
       /\ \A i \in 1 .. Len(s.if_and_elifs) : /\ Condition(tree, s.if_and_elifs[i].condition)
                                              /\ BodyOK(tree, s.if_and_elifs[i].body)
       /\ BodyOK(tree, s.elsebody)
    \/ /\ s.kind \in {"WHILE", "FOR"}
       /\ BodyOK(tree, s.init) /\ Condition(tree, s.cond)
       /\ BodyOK(tree, s.incr) /\ BodyOK(tree, s.body)

\* The variables of the type context: ids in order, names all different, the
\* arguments first; one is called "return" if the function returns a value,
\* and no other can be, as that is a keyword.
VariablesOK(f) ==
    /\ f.variables \in Seq({f.variables[i] : i \in DOMAIN f.variables})
    /\ \A i \in DOMAIN f.variables : /\ f.variables[i].id = i
                                     /\ f.variables[i].name # ""
                                     /\ f.variables[i].is_argument \in BOOLEAN
    /\ \A i, j \in DOMAIN f.variables :
        /\ f.variables[i].name = f.variables[j].name => i = j
        /\ i < j /\ f.variables[j].is_argument => f.variables[i].is_argument
    /\ f.returntype # NoType =>
        \E i \in DOMAIN f.variables : /\ f.variables[i].name = "return"
                                      /\ ~f.variables[i].is_argument
    /\ HasVariable(f, "return") => f.returntype # NoType

FunctionOK(f, tree) ==
    /\ VariablesOK(f)
    /\ f.line \in Nat \ {0}
    /\ BodyOK(tree, f.body)
    /\ \A e \in tree.expressions : ExpressionOK(f, tree, e)
    /\ \A s \in tree.statements : StatementOK(f, tree, s)

ASSUME FunctionsAssumption == \A f \in Functions : FunctionOK(f, Trees[f])
=============================================================================
