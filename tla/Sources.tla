------------------------------ MODULE Sources ------------------------------
(***************************************************************************)
(* Writing files for the checker and the interpreter: trees as the parser  *)
(* makes them, without types.                                              *)
(***************************************************************************)
EXTENDS Ast

Raw(kind, name, operands) == Expression(kind, name, operands, NoType, 1)
Var(x) == Raw("GET_VARIABLE", x, <<>>)
Const(c) == Raw("CONSTANT", c, <<>>)
CallOf(f, args) == Raw("FUNCTION_CALL", f, args)
Unary(op, e) == Raw(op, "", <<e>>)
Infix(op, x, y) == Raw(op, "", <<x, y>>)
Dot(e, field) == Raw("GET_FIELD", field, <<e>>)
Arrow(e, field) == Raw("DEREF_AND_GET_FIELD", field, <<e>>)
Cast(e, name, npointers) == [Raw("AS", name, <<e>>) EXCEPT !.number = npointers]
Literal(name, fields, args) == [Raw("BRACE_INIT", name, args) EXCEPT !.argnames = fields]

Sig(name, argnames, argtypes, returntype) ==
    [funcname |-> name, argnames |-> argnames, argtypes |-> argtypes,
     takes_varargs |-> FALSE, returntype |-> returntype]
IntType == AstType("int", 0)
ByteType == AstType("byte", 0)
BoolType == AstType("bool", 0)
VoidType == AstType("void", 0)
Declare(sig) == [kind |-> "DECLARE_FUNCTION", signature |-> sig, line |-> 1]
Define(sig, body) == [kind |-> "DEFINE_FUNCTION", signature |-> sig, body |-> body, line |-> 1]
Struct(name, fields, types) ==
    [kind |-> "DEFINE_STRUCT", name |-> name, fieldnames |-> fields, fieldtypes |-> types,
     line |-> 1]
EndOfTheFile == [kind |-> "END_OF_FILE", line |-> 1]
=============================================================================
