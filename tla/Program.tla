------------------------------- MODULE Program -------------------------------
(***************************************************************************)
(* A file on its whole way, as main.c sends it: checked and built one      *)
(* function after the other, all graphs simplified, code generated; then   *)
(* its last function is called.                                            *)
(***************************************************************************)
EXTENDS Frontend, SimplifyCfg, ExecuteCfg

VARIABLE simplified    \* index of the graph that is or was last simplified

programVars == <<vars, cfg, analysis, simplifyVars, executionVars, simplified>>
compileVars == <<vars, cfg, analysis, simplifyVars, simplified>>

ProgramInit ==
    /\ Init
    /\ cfg = NullGraph
    /\ AnalysisStart(NullGraph)
    /\ PassesInit
    /\ phase = "idle"
    /\ returntype_line = 0
    /\ simplified = 0
    /\ NoExecution

CheckAndBuild ==
    /\ CompileStep
    /\ UNCHANGED <<cfg, analysis, simplifyVars, executionVars, simplified>>

\* simplify_control_flow_graphs.
LeftToSimplify == {i \in DOMAIN graphs : i > simplified /\ graphs[i] # NullGraph}
Signature(i) == typectx.function_signatures[i]

SimplifyGraph ==
    /\ stage = "done"
    /\ phase = "idle"
    /\ LeftToSimplify # {}
    /\ simplified' = Min(LeftToSimplify)
    /\ cfg' = graphs[simplified']
    /\ CallAnalysis(cfg')
    /\ returntype_line' = IF Signature(simplified').returntype = NoType THEN 0 ELSE 1
    /\ phase' = "clean_jumps"
    /\ UNCHANGED <<vars, passes, warnings, executionVars>>

Simplify ==
    /\ stage = "done"
    /\ SimplifyStep
    /\ UNCHANGED <<vars, executionVars, simplified>>

GraphSimplified ==
    /\ stage = "done"
    /\ phase = "done"
    /\ graphs' = [graphs EXCEPT ![simplified] = cfg]
    /\ phase' = "idle"
    /\ UNCHANGED <<buildVars, file, node, stage, typectx, stopped_by, cfg, analysis, passes,
                   warnings, returntype_line, executionVars, simplified>>

\* codegen gets the graphs with the signatures of the same index.
CallLastFunction ==
    /\ stage = "done"
    /\ phase = "idle"
    /\ LeftToSimplify = {}
    /\ outcome.status = "not called"
    /\ graphs # <<>> /\ Last(graphs) # NullGraph
    /\ Enter([graph |-> Last(graphs), signature |-> Signature(Len(graphs)),
              callees |-> typectx.function_signatures, structs |-> typectx.structs])
    /\ UNCHANGED compileVars

Execute == ExecuteStep /\ UNCHANGED compileVars

Rejected == stage = "failed" \/ phase = "failed"
ProgramStopped ==
    /\ \/ Rejected
       \/ outcome.status \in {"returned", "undefined"}
       \/ Len(trace) = MaxCalls
    /\ UNCHANGED programVars

ProgramNext ==
    \/ CheckAndBuild \/ SimplifyGraph \/ Simplify \/ GraphSimplified
    \/ CallLastFunction \/ Execute \/ ProgramStopped
ProgramSpec == ProgramInit /\ [][ProgramNext]_programVars
-----------------------------------------------------------------------------
Source == INSTANCE Meaning WITH source <- file

\* What the compiled function does, all the way through the checker, the
\* builder, the simplifier and the code generator, is what its source says:
\* the same calls with the same arguments in the same order, the same effect
\* on memory, the same value returned; undefined only where the source is.
MeaningIsKept == Source!Spec

\* The same, once the call has ended.
OutcomeIsTheSources ==
    outcome.status \in {"returned", "undefined"} =>
        \E r \in {Source!SoFar} : Source!PromisesNothing(r) \/ outcome = Source!Ended(r)
=============================================================================
