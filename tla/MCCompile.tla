----------------------------- MODULE MCCompile -----------------------------
EXTENDS Compile, Programs

CompiledFunctions ==
    JumpFunctions \cup LogicFunctions \cup ReturnFunctions \cup PointerFunctions \cup BareFunctions
FunctionTrees == TreesOf(Functions)
=============================================================================
