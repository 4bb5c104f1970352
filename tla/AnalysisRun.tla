----------------------------- MODULE AnalysisRun -----------------------------
(***************************************************************************)
(* What determine_var_statuses promises: a function is built, its graph    *)
(* analysed and then executed, and at the end of every block execution     *)
(* passes the variables hold what the analysis says they can hold.         *)
(***************************************************************************)
EXTENDS CheckedFunctions, BuildCfg, DetermineVarStatuses, RunCfg

VARIABLE stage    \* "build", "analyse" or "run"

vars == <<buildVars, analysisVars, runVars, stage>>

EmptyGraph == [all_blocks |-> <<StartBlock, EndBlock>>,
               block |-> <<EmptyBlock, EmptyBlock>>, variables |-> <<>>]

Init ==
    /\ BuildInit(Functions)
    /\ cfg = EmptyGraph
    /\ AnalysisStart(EmptyGraph)
    /\ NoRun
    /\ stage = "build"

Build == stage = "build" /\ BuildStep /\ UNCHANGED <<analysisVars, runVars, stage>>

AnalyseGraph ==
    /\ stage = "build"
    /\ BuildDone
    /\ stage' = "analyse"
    /\ cfg' = BuiltCfg
    /\ CallAnalysis(BuiltCfg)
    /\ UNCHANGED <<buildVars, runVars>>

Analyse == stage = "analyse" /\ AnalysisNext /\ UNCHANGED <<buildVars, runVars, stage>>

CallFunction ==
    /\ stage = "analyse"
    /\ AnalysisDone
    /\ stage' = "run"
    /\ StartRun(cfg)
    /\ UNCHANGED <<buildVars, analysisVars>>

Run == stage = "run" /\ RunStep /\ UNCHANGED <<buildVars, analysisVars, stage>>

Stopped == (RunEnded \/ build_error # "") /\ UNCHANGED vars

Next == Build \/ AnalyseGraph \/ Analyse \/ CallFunction \/ Run \/ Stopped
Spec == Init /\ [][Next]_vars
-----------------------------------------------------------------------------
\* The statuses stored for a block describe every execution that comes to
\* the end of it, and a variable that can change behind the analysis' back
\* is marked unpredictable.
StatusDescribesExecution ==
    stage = "run" /\ BlockEnded =>
        \A v \in VarSet(cfg) :
            /\ memory[v] \in MayHold(result[pc][v])
            /\ v \in addressed => result[pc][v] = "UNPREDICTABLE"
=============================================================================
