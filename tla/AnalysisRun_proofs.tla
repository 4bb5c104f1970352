------------------------- MODULE AnalysisRun_proofs -------------------------
(***************************************************************************)
(* determine_var_statuses is right about every execution of every graph    *)
(* the builder makes: what the builder leaves is well formed, the analysis *)
(* ends in a fixpoint, and execution stays within a fixpoint.              *)
(***************************************************************************)
EXTENDS AnalysisRun, BuildCfg_proofs, DetermineVarStatuses_proofs

\* Two of the builder's pointers never point at each other's variables.
LEMMA BuiltPointersGoToTemporaries ==
    ASSUME BuildInv, BuildDone
    PROVE  PointersGoToTemporaries(BuiltCfg)
BY BuiltPointers DEF PointersGoToTemporaries, AddressTaken

\* What holds in each stage.
StageInv ==
    /\ BuildInv
    /\ stage \in {"build", "analyse", "run"}
    /\ stage # "build" => WellFormed(cfg) /\ PointersGoToTemporaries(cfg)
    /\ stage = "analyse" => SoundInv
    /\ stage = "run" => Fixpoint(cfg, result) /\ running = cfg /\ Within(cfg, result)

LEMMA InitStageInv == Init => StageInv
BY InitBuildInv DEF Init, StageInv

LEMMA AnalyseGraphKeeps == ASSUME StageInv, AnalyseGraph PROVE StageInv'
<1>1. WellFormed(BuiltCfg) /\ PointersGoToTemporaries(BuiltCfg)
  BY BuiltWellFormed, BuiltPointersGoToTemporaries DEF StageInv, AnalyseGraph
<1>2. PICK g : g = BuiltCfg
  OBVIOUS
<1>3. WellFormed(g) /\ PointersGoToTemporaries(g) /\ cfg' = g /\ CallAnalysis(g)
  BY <1>1, <1>2 DEF AnalyseGraph
<1>4. WellFormed(cfg)' /\ PointersGoToTemporaries(cfg)' /\ AnalysisStart(cfg)'
  BY <1>3 DEF CallAnalysis, AnalysisStart
<1>5. AnalysisInit'
  BY <1>4 DEF AnalysisInit
<1>6. (AnalysisInit => SoundInv)'
  BY InitSoundInv, PTL
<1>7. SoundInv'
  BY <1>5, <1>6
<1>8. BuildInv'
  BY BuildStutterKeeps DEF StageInv, AnalyseGraph
<1>9. stage' = "analyse"
  BY DEF AnalyseGraph
<1>. QED  BY <1>4, <1>7, <1>8, <1>9 DEF StageInv

LEMMA AnalyseKeeps == ASSUME StageInv, Analyse PROVE StageInv'
<1>1. SoundInv /\ AnalysisStep /\ cfg' = cfg /\ stage = "analyse" /\ stage' = stage
  BY DEF StageInv, Analyse, AnalysisNext
<1>2. SoundInv'
  BY <1>1, AnalysisStepSound
<1>3. BuildInv'
  BY BuildStutterKeeps DEF StageInv, Analyse
<1>. QED  BY <1>1, <1>2, <1>3 DEF StageInv

LEMMA CallFunctionKeeps == ASSUME StageInv, CallFunction PROVE StageInv'
<1>1. /\ SoundInv /\ AnalysisDone /\ StartRun(cfg) /\ UNCHANGED <<cfg, result>>
      /\ stage = "analyse" /\ stage' = "run"
      /\ WellFormed(cfg) /\ PointersGoToTemporaries(cfg)
  BY DEF StageInv, CallFunction, analysisVars
<1>2. Fixpoint(cfg, result)
  BY <1>1, DoneIsFixpoint
<1>3. PICK g, r : g = cfg /\ r = result
  OBVIOUS
<1>4. Within(g, r)'
  BY <1>1, <1>2, <1>3, StartRunWithin DEF PartOf
<1>5. Within(cfg, result)' /\ running' = cfg'
  BY <1>1, <1>3, <1>4 DEF Within, StartRun
<1>6. BuildInv'
  BY BuildStutterKeeps DEF StageInv, CallFunction
<1>. QED  BY <1>1, <1>2, <1>5, <1>6 DEF StageInv

LEMMA RunKeeps == ASSUME StageInv, Run PROVE StageInv'
<1>1. /\ WellFormed(cfg) /\ PointersGoToTemporaries(cfg) /\ RunStep
      /\ Fixpoint(cfg, result) /\ running = cfg /\ Within(cfg, result)
      /\ UNCHANGED <<cfg, result>> /\ stage = "run" /\ stage' = stage
  BY DEF StageInv, Run, analysisVars
<1>2. PICK g, r : g = cfg /\ r = result
  OBVIOUS
<1>3. Jump => pc' \in Targets(g, pc)
  BY <1>1, <1>2, JumpFollows DEF Within
<1>4. Within(g, r)'
  BY <1>1, <1>2, <1>3, RunStepWithin
<1>5. Within(cfg, result)' /\ running' = cfg'
  BY <1>1, <1>2, <1>4 DEF Within, RunStep, Execute, Jump
<1>6. BuildInv'
  BY BuildStutterKeeps DEF StageInv, Run
<1>. QED  BY <1>1, <1>5, <1>6 DEF StageInv

LEMMA StageInvKept == StageInv /\ [Next]_vars => StageInv'
<1>. SUFFICES ASSUME StageInv, [Next]_vars PROVE StageInv'
  OBVIOUS
<1>1. CASE Build
  <2>1. BuildInv'
    BY <1>1, BuildStepKeeps DEF StageInv, Build
  <2>. QED  BY <1>1, <2>1 DEF StageInv, Build
<1>2. CASE UNCHANGED vars
  <2>1. BuildInv'
    BY <1>2, BuildStutterKeeps DEF StageInv, vars
  <2>2. stage = "analyse" => SoundInv'
    BY <1>2, SoundStutterKeeps DEF vars, StageInv
  <2>. QED  BY <1>2, <2>1, <2>2 DEF StageInv, vars, analysisVars, runVars, Within, PartOf
<1>. QED  BY <1>1, <1>2, AnalyseGraphKeeps, AnalyseKeeps, CallFunctionKeeps, RunKeeps
          DEF Next, Stopped

THEOREM StagesAreSound == Spec => []StageInv
BY InitStageInv, StageInvKept, PTL DEF Spec

\* Whatever functions the checker accepts: at the end of every block of every
\* execution, what determine_var_statuses stored for the block describes the
\* variables, and variables with pointers to them are unpredictable.
THEOREM AnalysisIsRight == Spec => []StatusDescribesExecution
<1>1. StageInv => StatusDescribesExecution
  <2>. SUFFICES ASSUME StageInv, stage = "run", BlockEnded
                PROVE  Described(cfg, result[pc], memory, addressed)
    BY DEF StatusDescribesExecution, Described
  <2>. QED  BY BlockEndDescribed DEF StageInv
<1>. QED  BY <1>1, StagesAreSound, PTL
=============================================================================
