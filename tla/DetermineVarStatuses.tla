------------------------ MODULE DetermineVarStatuses ------------------------
(***************************************************************************)
(* determine_var_statuses() of simplify_cfg.c: the data-flow analysis the  *)
(* three passes of the simplifier run.  One action per step of its loop:   *)
(* take a block off the worklist, merge in one predecessor, run one        *)
(* instruction, store what was learned and extend the worklist.            *)
(***************************************************************************)
EXTENDS VarStatus, Cfg

VARIABLES
    cfg,              \* the graph being analysed
    result,           \* result[b][v]: status of v at the end of b
    blocks_to_visit,  \* the worklist
    visiting,         \* the block being visited, NoBlock between visits
    unmerged,         \* its predecessors still to be merged
    pos,              \* its next instruction
    tempstatus        \* statuses at that instruction

analysis == <<result, blocks_to_visit, visiting, unmerged, pos, tempstatus>>
analysisVars == <<cfg, result, blocks_to_visit, visiting, unmerged, pos, tempstatus>>

\* (mutant) An unpredictable variable becomes predictable when it is set.
update_statuses_forgetting_pointers(s, ins) ==
    IF ins.destvar = NoVar THEN s
    ELSE CASE ins.kind = "VARCPY" -> [s EXCEPT ![ins.destvar] = s[ins.operands[1]]]
           [] ins.kind = "ADDRESS_OF_VARIABLE" ->
                [s EXCEPT ![ins.operands[1]] = "UNPREDICTABLE", ![ins.destvar] = "DEFINED"]
           [] ins.kind = "CONSTANT" /\ ins.value \in {"TRUE", "FALSE"} ->
                [s EXCEPT ![ins.destvar] = ins.value]
           [] OTHER -> [s EXCEPT ![ins.destvar] = "DEFINED"]

\* How an instruction affects the statuses when it runs.
update_statuses_with_instruction(s, ins) ==
    IF ins.destvar = NoVar THEN s
    ELSE IF s[ins.destvar] = "UNPREDICTABLE" THEN s
    ELSE CASE ins.kind = "VARCPY" ->
                [s EXCEPT ![ins.destvar] =
                    IF s[ins.operands[1]] = "UNPREDICTABLE" THEN "DEFINED"
                    ELSE s[ins.operands[1]]]
           [] ins.kind = "ADDRESS_OF_VARIABLE" ->
                [s EXCEPT ![ins.operands[1]] = "UNPREDICTABLE", ![ins.destvar] = "DEFINED"]
           [] ins.kind = "CONSTANT" /\ ins.value \in {"TRUE", "FALSE"} ->
                [s EXCEPT ![ins.destvar] = ins.value]
           [] OTHER -> [s EXCEPT ![ins.destvar] = "DEFINED"]

\* (mutant) Locals of the start block are left unvisited.
EntryStatus_of_arguments_only(b, v) ==
    IF b = StartBlock /\ v \in Arguments(cfg) THEN "DEFINED" ELSE "UNVISITED"

EntryStatus(b, v) ==
    IF b # StartBlock THEN "UNVISITED"
    ELSE IF v \in Arguments(cfg) THEN "DEFINED" ELSE "UNDEFINED"

\* Positions in all_blocks; both loops over blocks go from the lowest up.
FirstListed(S) ==
    cfg.all_blocks[CHOOSE i \in DOMAIN cfg.all_blocks :
        /\ cfg.all_blocks[i] \in S
        /\ \A j \in 1 .. i - 1 : cfg.all_blocks[j] \notin S]
-----------------------------------------------------------------------------
\* The allocations at the top of the function, for graph g.
AnalysisStart(g) ==
    /\ result = [b \in BlockSet(g) |-> [v \in VarSet(g) |-> "UNVISITED"]]
    /\ blocks_to_visit = {StartBlock}
    /\ visiting = NoBlock
    /\ unmerged = {}
    /\ pos = 1
    /\ tempstatus = [v \in VarSet(g) |-> "UNVISITED"]

\* The call made by another pass: the same, as part of its step.
CallAnalysis(g) ==
    /\ result' = [b \in BlockSet(g) |-> [v \in VarSet(g) |-> "UNVISITED"]]
    /\ blocks_to_visit' = {StartBlock}
    /\ visiting' = NoBlock
    /\ unmerged' = {}
    /\ pos' = 1
    /\ tempstatus' = [v \in VarSet(g) |-> "UNVISITED"]

StartVisit ==
    /\ visiting = NoBlock
    /\ blocks_to_visit # {}
    /\ visiting' = FirstListed(blocks_to_visit)
    /\ blocks_to_visit' = blocks_to_visit \ {visiting'}
    /\ tempstatus' = [v \in VarSet(cfg) |-> EntryStatus(visiting', v)]
    /\ unmerged' = Predecessors(cfg, visiting')
    /\ pos' = 1
    /\ UNCHANGED result

MergePredecessor ==
    /\ visiting # NoBlock
    /\ unmerged # {}
    /\ LET p == FirstListed(unmerged)
       IN  /\ tempstatus' = merge_arrays(tempstatus, result[p])
           /\ unmerged' = unmerged \ {p}
    /\ UNCHANGED <<result, blocks_to_visit, visiting, pos>>

RunInstruction ==
    /\ visiting # NoBlock
    /\ unmerged = {}
    /\ pos <= Len(cfg.block[visiting].instructions)
    /\ tempstatus' = update_statuses_with_instruction(tempstatus,
                                cfg.block[visiting].instructions[pos])
    /\ pos' = pos + 1
    /\ UNCHANGED <<result, blocks_to_visit, visiting, unmerged>>

\* (mutants) Earlier visits are forgotten; the list is extended although
\* nothing is new; only one of the two jumps is followed.
Learned_last(b) == tempstatus
Affected_always(b, result_affected) == IF b # EndBlock THEN Targets(cfg, b) ELSE {}
Affected_iftrue(b, result_affected) ==
    IF result_affected /\ b # EndBlock THEN {cfg.block[b].iftrue} ELSE {}

\* What the end of block b is now known to be like, and the blocks that have
\* to be looked at again if that is news.
Learned(b) == merge_arrays(result[b], tempstatus)
Affected(b, result_affected) ==
    IF result_affected /\ b # EndBlock THEN Targets(cfg, b) ELSE {}

EndVisit ==
    /\ visiting # NoBlock
    /\ unmerged = {}
    /\ pos > Len(cfg.block[visiting].instructions)
    /\ result' = [result EXCEPT ![visiting] = Learned(visiting)]
    /\ blocks_to_visit' = blocks_to_visit \cup Affected(visiting, result' # result)
    /\ visiting' = NoBlock
    /\ UNCHANGED <<unmerged, pos, tempstatus>>

AnalysisStep == StartVisit \/ MergePredecessor \/ RunInstruction \/ EndVisit
AnalysisDone == visiting = NoBlock /\ blocks_to_visit = {}

\* The function on its own, called with any well-formed graph.
AnalysisInit == WellFormed(cfg) /\ AnalysisStart(cfg)
AnalysisNext == AnalysisStep /\ UNCHANGED cfg
AnalysisSpec == AnalysisInit /\ [][AnalysisNext]_analysisVars
-----------------------------------------------------------------------------
AnalysisTypeOK ==
    /\ result \in [BlockSet(cfg) -> [VarSet(cfg) -> VarStatuses]]
    /\ blocks_to_visit \subseteq BlockSet(cfg)
    /\ visiting \in BlockSet(cfg) \cup {NoBlock}
    /\ unmerged \subseteq BlockSet(cfg)
    /\ pos \in Nat \ {0}
    /\ tempstatus \in [VarSet(cfg) -> VarStatuses]

\* The assertion that opens update_statuses_with_instruction: once every
\* predecessor has been merged, no variable of the visited block is still
\* VS_UNVISITED.  It depends on the worklist being extended only from blocks
\* that have themselves been visited.
NeverUnvisited ==
    visiting # NoBlock /\ unmerged = {} =>
        \A v \in VarSet(cfg) : tempstatus[v] # "UNVISITED"

\* What the analysis has concluded about a block is only ever weakened: each
\* visit moves the stored statuses up the order of merge.  This is why the
\* worklist empties although the effect of an instruction is not monotone
\* (copying a variable turns VS_UNDEFINED into VS_UNDEFINED, but the greater
\* VS_UNPREDICTABLE into VS_DEFINED).
ResultsOnlyClimb ==
    [][\A b \in BlockSet(cfg) : \A v \in VarSet(cfg) :
            cfg' = cfg /\ visiting # NoBlock => Leq(result[b][v], result'[b][v])]_analysisVars
=============================================================================
