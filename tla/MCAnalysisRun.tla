---------------------------- MODULE MCAnalysisRun ----------------------------
EXTENDS AnalysisRun, Programs

AnalysedFunctions == JumpFunctions \cup ReturnFunctions \cup PointerFunctions
FunctionTrees == TreesOf(Functions)
=============================================================================
