------------------------------- MODULE Compile -------------------------------
(***************************************************************************)
(* One function on its way through the compiler: built into a graph,       *)
(* simplified and, if no error stopped it, executed.  What runs is the     *)
(* graph as it was built; the properties say what the simplified graph and *)
(* the warnings have to do with that run.                                  *)
(***************************************************************************)
EXTENDS CheckedFunctions, BuildCfg, SimplifyCfg, RunCfg

VARIABLE built    \* the graph build_function returned

vars == <<buildVars, analysisVars, simplifyVars, runVars, built>>

EmptyGraph == [all_blocks |-> <<StartBlock, EndBlock>>,
               block |-> <<EmptyBlock, EmptyBlock>>, variables |-> <<>>]

Init ==
    /\ BuildInit(Functions)
    /\ cfg = EmptyGraph
    /\ built = EmptyGraph
    /\ AnalysisStart(EmptyGraph)
    /\ phase = "build"
    /\ PassesInit
    /\ returntype_line = IF function.returntype = NoType THEN 0 ELSE function.line
    /\ NoRun

Build ==
    /\ phase = "build"
    /\ BuildStep
    /\ UNCHANGED <<analysisVars, simplifyVars, runVars, built>>

\* The end of build_function, and simplify_cfg called on its result.
FinishFunction ==
    /\ phase = "build"
    /\ BuildDone
    /\ built' = BuiltCfg
    /\ cfg' = BuiltCfg
    /\ CallAnalysis(cfg')
    /\ phase' = "clean_jumps"
    /\ UNCHANGED <<buildVars, passes, warnings, returntype_line, runVars>>

BuildFails ==
    /\ phase = "build"
    /\ build_error # ""
    /\ phase' = "failed"
    /\ UNCHANGED <<buildVars, analysisVars, passes, warnings, returntype_line, runVars, built>>

Simplify == SimplifyStep /\ UNCHANGED <<buildVars, runVars, built>>

\* The function is called.  That also happens here to a function the
\* simplifier rejected, to see what the compiler refused to run.
CallFunction ==
    /\ phase \in {"done", "failed"}
    /\ build_error = ""
    /\ pc = NoBlock
    /\ StartRun(built)
    /\ UNCHANGED <<buildVars, analysisVars, simplifyVars, built>>

Run == RunStep /\ UNCHANGED <<buildVars, analysisVars, simplifyVars, built>>

Stopped ==
    /\ RunEnded \/ (phase = "failed" /\ build_error # "")
    /\ UNCHANGED vars

CompileStep == Build \/ FinishFunction \/ BuildFails \/ Simplify
Next == CompileStep \/ CallFunction \/ Run \/ Stopped

Spec == Init /\ [][Next]_vars

\* The compiler is one process that nothing waits for or interrupts.
FairSpec == Spec /\ WF_vars(CompileStep)
-----------------------------------------------------------------------------
Finished == phase \in {"done", "failed"}
Warned(kind) == {w.line : w \in {x \in ToSet(warnings) : x.kind = kind}}

\* Blocks and variables are always those of the graph at hand; between the
\* passes the statuses of an earlier call are dead.
TypeOK ==
    /\ phase \in AnalysingPhases \cup {"build", "reachability", "group", "show",
                    "remove_blocks", "unused", "remove_vars", "scan", "done", "failed"}
    /\ phase \in AnalysingPhases => AnalysisTypeOK
    /\ BlockSet(cfg) \subseteq BlockSet(built)
    /\ VarSet(cfg) \subseteq VarSet(built)
    /\ todo \in Seq(BlockSet(built))
    /\ reachable \subseteq BlockSet(built)
    /\ UNION {ToSet(groups[i]) : i \in DOMAIN groups} \subseteq BlockSet(built)
    /\ used \subseteq VarSet(built)
    /\ at \in 0 .. Len(built.all_blocks) + 1 \/ at \in 0 .. Len(built.variables)
    /\ pc \in BlockSet(built) \cup {NoBlock}
    /\ addressed \subseteq VarSet(built)

\* Every graph the builder returns is one the simplifier and the code
\* generator can work on: all blocks but the end end in a jump into the
\* graph, branches have a bool variable to decide them, the loops' stacks are
\* empty again, every call's result was used up.
BuiltGraphIsSound ==
    BuildDone =>
        /\ WellFormed(BuiltCfg)
        /\ \A b \in BlockSet(BuiltCfg) \ {EndBlock} : Conditional(BuiltCfg, b) =>
                VariableOf(BuiltCfg, st.block[b].branchvar).type = boolType
        /\ st.breakstack = <<>> /\ st.continuestack = <<>>
        /\ values = <<>>

\* No execution meets a jump or a block the simplifier took away: branches
\* were only cut when the condition has one value, blocks only freed when
\* nothing can jump to them.
JumpsSurvive ==
    [][pc' # pc /\ pc # NoBlock /\ phase = "done"
            => pc' \in Targets(cfg, pc) \cap BlockSet(cfg)]_vars

\* codegen_function_def can work on what is left: every jump goes to a block
\* of the list, every instruction and branch is about variables of the list
\* (find_block and the lookup of a local fail otherwise), the start block is
\* still the first.
ReadyForCodegen == phase = "done" => WellFormed(cfg)

\* The arguments are still the first variables, in the order of the
\* signature, although the removal shuffles the list.
ArgumentsStayFirst ==
    phase = "done" =>
        \A i \in DOMAIN function.variables : function.variables[i].is_argument =>
            i \in DOMAIN cfg.variables /\ cfg.variables[i] = function.variables[i]

\* What is left can all be reached (the end block always stays): whatever
\* contains the start block and the targets of all its jumps contains it.
ClosedUnderJumps(S) == StartBlock \in S /\ \A b \in S : Targets(cfg, b) \subseteq S
OnlyReachableCodeIsKept ==
    phase = "done" /\ pc = NoBlock =>
        /\ ClosedUnderJumps(BlockSet(cfg))
        /\ \A S \in SUBSET BlockSet(cfg) : ClosedUnderJumps(S) => BlockSet(cfg) \subseteq S \cup {EndBlock}

\* The assertion in warn_about_undefined_variables: whatever block it scans,
\* the analysis of the reduced graph has been there.
NothingUnvisitedIsScanned ==
    phase = "scan" /\ next_ins <= Len(Scanned) =>
        \A v \in VarSet(cfg) : result[cfg.all_blocks[at]][v] # "UNVISITED"

\* Unreachable code is reported at the first visible line of each piece that
\* hangs together, and nowhere else; a piece is what jumps connect, in either
\* direction.
Joined(P, gone) ==
    \A p \in P, c \in gone : c \in Targets(cfg, p) \/ p \in Targets(cfg, c) => c \in P
Piece(b, gone) == {c \in gone : \A P \in SUBSET gone : b \in P /\ Joined(P, gone) => c \in P}
UnreachableCodeIsReported ==
    Finished /\ build_error = "" /\ pc = NoBlock =>
        LET gone == BlockSet(built) \ BlockSet(cfg)
        IN  Warned("this code will never run") =
                {FirstLine(Piece(b, gone)) : b \in gone} \ {INT_MAX}

\* A function that returns a value and comes to its end without having set it
\* was rejected or at least warned about.
MissingReturnIsNoticed ==
    phase = "done" /\ RunEnded =>
        \A v \in ReturnSlots(built) : memory[v] = "garbage" =>
            Warned("doesn't seem to return a value in all cases") # {}

\* A function is rejected only if every call that comes to its end returns
\* garbage.
RejectedReturnsGarbage ==
    phase = "failed" /\ RunEnded => \A v \in ReturnSlots(built) : memory[v] \in Garbage

\* The variables the compiler makes up are always set before they are used,
\* whichever way execution comes: this is why warnings need not name them.
TemporariesAreSetBeforeUse ==
    /\ Executing =>
        \A v \in ReadBy(Current) :
            VariableOf(running, v).name = "" => v \in written \cup addressed
    /\ pc \notin {NoBlock, EndBlock} /\ BlockEnded /\ Conditional(running, pc) =>
            running.block[pc].branchvar \in written

\* Using a variable that nothing in the function sets or points to is
\* warned about on the line of the use.
NeverSet(v) ==
    \A b \in BlockSet(built) : \A ins \in InstructionsOf(built, b) :
        /\ ins.destvar # v
        /\ ins.kind = "ADDRESS_OF_VARIABLE" => v \notin OperandSet(ins)
UseOfUnsetIsWarned ==
    phase = "done" /\ Executing =>
        \A v \in OperandSet(Current) \ Arguments(running) :
            NeverSet(v) => Current.line \in Warned("is undefined")

\* Compilation comes to an end, whatever loops the function has.
Terminates == <>Finished
-----------------------------------------------------------------------------
(***************************************************************************)
(* What comments, tests and messages of the repository say, and the code   *)
(* does not live up to.                                                    *)
(***************************************************************************)
WarnedFor(kind, line, name) ==
    \E w \in ToSet(warnings) : w = Warning(kind, line, name)

\* A use of a variable that holds garbage is warned about.
GarbageUseIsWarned ==
    phase = "done" /\ Executing =>
        \A v \in ReadBy(Current) :
            memory[v] = "garbage" /\ v \notin AddressTaken(running) /\ VariableOf(running, v).name # "" =>
                \E kind \in {"is undefined", "may be undefined"} :
                    WarnedFor(kind, Current.line, VariableOf(running, v).name)
=============================================================================
