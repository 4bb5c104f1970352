----------------------------- MODULE SimplifyCfg -----------------------------
(***************************************************************************)
(* simplify_cfg() of simplify_cfg.c for one function: the passes that      *)
(* shrink the graph and complain about it, in the order they run.          *)
(*                                                                         *)
(*   clean_jumps     branches on a known condition become plain jumps      *)
(*   reachability    a search for the blocks that can be reached           *)
(*   group           the others are put together along their jumps,        *)
(*   show            reported once per group                               *)
(*   remove_blocks   and freed                                             *)
(*   missing_return  does every way to the end set the return value?       *)
(*   unused          which variables do instructions mention; the others   *)
(*   remove_vars     are freed                                             *)
(*   undefined       what is known of the variables now,                   *)
(*   scan            and every use of one that may hold garbage            *)
(*                                                                         *)
(* clean_jumps, missing_return and undefined start with the analysis of    *)
(* DetermineVarStatuses, which runs in the same phase.  One action is one  *)
(* round of a loop of the C code, or the code between two loops.           *)
(***************************************************************************)
EXTENDS DetermineVarStatuses, SequencesExt

CONSTANT INT_MAX    \* above every line number
ASSUME LimitAssumption == INT_MAX \in Nat

VARIABLES
    phase,        \* "build", one of the above, "done" or "failed"
    todo,         \* stack of remove_unreachable_blocks
    reachable,    \* blocks it has marked
    blocks_to_remove,  \* and those it has not, in the order of all_blocks
    groups,       \* group_blocks: sequences of blocks
    prev_lineno,  \* show_unreachable_warnings: the last line shown
    used,         \* variables remove_unused_variables keeps
    at,           \* index of the loop that is running
    next_ins,     \* warn_about_undefined_variables: its inner indexes
    next_operand,
    warnings,     \* what was shown, in order
    returntype_line  \* 0 when the function returns nothing

passes == <<todo, reachable, blocks_to_remove, groups, prev_lineno, used, at,
            next_ins, next_operand>>
simplifyVars == <<phase, passes, warnings, returntype_line>>

NoLine == -1
Warning(kind, line, name) == [kind |-> kind, line |-> line, name |-> name]
AnalysingPhases == {"clean_jumps", "missing_return", "undefined"}

PassesInit ==
    /\ todo = <<>> /\ reachable = {} /\ blocks_to_remove = <<>>
    /\ groups = <<>> /\ prev_lineno = NoLine
    /\ used = {} /\ at = 0 /\ next_ins = 0 /\ next_operand = 0
    /\ warnings = <<>>

Analyse ==
    /\ phase \in AnalysingPhases
    /\ AnalysisStep
    /\ UNCHANGED <<cfg, simplifyVars>>
-----------------------------------------------------------------------------
\* (mutant) The wrong one of the two jumps is kept.
CleanedBlock_swapped(b) ==
    LET block == cfg.block[b]
    IN  IF b \notin BlockSet(cfg) \/ b = EndBlock \/ ~Conditional(cfg, b) THEN block
        ELSE CASE result[b][block.branchvar] = "TRUE" -> [block EXCEPT !.iftrue = block.iffalse]
               [] result[b][block.branchvar] = "FALSE" -> [block EXCEPT !.iffalse = block.iftrue]
               [] OTHER -> block

\* clean_jumps_where_condition_always_true_or_always_false
CleanedBlock(b) ==
    LET block == cfg.block[b]
    IN  IF b \notin BlockSet(cfg) \/ b = EndBlock \/ ~Conditional(cfg, b) THEN block
        ELSE CASE result[b][block.branchvar] = "TRUE" -> [block EXCEPT !.iffalse = block.iftrue]
               [] result[b][block.branchvar] = "FALSE" -> [block EXCEPT !.iftrue = block.iffalse]
               [] OTHER -> block

CleanJumps ==
    /\ phase = "clean_jumps"
    /\ AnalysisDone
    /\ cfg' = [cfg EXCEPT !.block = [b \in DOMAIN cfg.block |-> CleanedBlock(b)]]
    /\ todo' = <<StartBlock>>
    /\ reachable' = {}
    /\ blocks_to_remove' = <<>>
    /\ at' = 1
    /\ phase' = "reachability"
    /\ UNCHANGED <<analysis, groups, prev_lineno, used, next_ins, next_operand, warnings,
                   returntype_line>>
-----------------------------------------------------------------------------
\* (mutant) The search goes on from the end block.
Successors_of_end(b) ==
    IF b \in reachable THEN <<>> ELSE <<cfg.block[b].iftrue, cfg.block[b].iffalse>>

\* remove_unreachable_blocks: one round of its search.
Successors(b) ==
    IF b \in reachable \/ b = EndBlock THEN <<>>
    ELSE <<cfg.block[b].iftrue, cfg.block[b].iffalse>>

MarkReachable ==
    /\ phase = "reachability"
    /\ todo # <<>>
    /\ LET b == Last(todo)
       IN  /\ reachable' = reachable \cup {b}
           /\ todo' = Front(todo) \o Successors(b)
    /\ UNCHANGED <<cfg, analysis, phase, blocks_to_remove, groups, prev_lineno, used, at,
                   next_ins, next_operand, warnings, returntype_line>>

\* Its second loop.
ShouldGo(b) == b \notin reachable /\ b # EndBlock
CollectUnreachable ==
    /\ phase = "reachability"
    /\ todo = <<>>
    /\ at <= Len(cfg.all_blocks)
    /\ blocks_to_remove' = IF ShouldGo(cfg.all_blocks[at])
                           THEN Append(blocks_to_remove, cfg.all_blocks[at])
                           ELSE blocks_to_remove
    /\ at' = at + 1
    /\ UNCHANGED <<cfg, analysis, phase, todo, reachable, groups,
                   prev_lineno, used, next_ins, next_operand, warnings, returntype_line>>

\* group_blocks starts with a group for each block.
StartGrouping ==
    /\ phase = "reachability"
    /\ todo = <<>>
    /\ at > Len(cfg.all_blocks)
    /\ groups' = [i \in DOMAIN blocks_to_remove |-> <<blocks_to_remove[i]>>]
    /\ at' = 1
    /\ phase' = "group"
    /\ UNCHANGED <<cfg, analysis, todo, reachable, blocks_to_remove, prev_lineno, used,
                   next_ins, next_operand, warnings, returntype_line>>

\* (mutant) The last group is dropped, whichever was joined to another.
JoinGroups_dropping_last(gs, block1, block2) ==
    LET GroupsOf(b) == {i \in DOMAIN gs : b \in ToSet(gs[i])}
    IN  IF GroupsOf(block1) = {} \/ GroupsOf(block2) = {} \/ GroupsOf(block1) = GroupsOf(block2)
        THEN gs
        ELSE LET g1 == CHOOSE i \in GroupsOf(block1) : TRUE
                 g2 == CHOOSE i \in GroupsOf(block2) : TRUE
             IN  Front([gs EXCEPT ![g1] = @ \o gs[g2]])

\* One jump: its two ends end up in the same group, unless one of them is in
\* none.  The place of the group that is gone is refilled from the end.
JoinGroups(gs, block1, block2) ==
    LET GroupsOf(b) == {i \in DOMAIN gs : b \in ToSet(gs[i])}
    IN  IF GroupsOf(block1) = {} \/ GroupsOf(block2) = {} \/ GroupsOf(block1) = GroupsOf(block2)
        THEN gs
        ELSE LET g1 == CHOOSE i \in GroupsOf(block1) : TRUE
                 g2 == CHOOSE i \in GroupsOf(block2) : TRUE
             IN  SwapRemove([gs EXCEPT ![g1] = @ \o gs[g2]], g2)

GroupBlock ==
    /\ phase = "group"
    /\ IF at <= Len(blocks_to_remove)
       THEN LET b == blocks_to_remove[at]
            IN  /\ groups' = JoinGroups(JoinGroups(groups, b, cfg.block[b].iftrue),
                                        b, cfg.block[b].iffalse)
                /\ at' = at + 1
                /\ UNCHANGED <<phase, prev_lineno>>
       ELSE phase' = "show" /\ at' = 1 /\ prev_lineno' = NoLine /\ UNCHANGED groups
    /\ UNCHANGED <<cfg, analysis, todo, reachable, blocks_to_remove, used, next_ins,
                   next_operand, warnings, returntype_line>>

\* The first line of a set of blocks that is worth a warning.
FirstLine(B) ==
    Min({INT_MAX} \cup
        UNION {{ins.line : ins \in {i \in InstructionsOf(cfg, b) : ~i.hide}} : b \in B})

ShowUnreachableWarning ==
    /\ phase = "show"
    /\ at <= Len(groups)
    /\ LET first == FirstLine(ToSet(groups[at]))
       IN  IF first \in {INT_MAX, prev_lineno} THEN UNCHANGED <<warnings, prev_lineno>>
           ELSE /\ warnings' = Append(warnings, Warning("this code will never run", first, ""))
                /\ prev_lineno' = first
    /\ at' = at + 1
    /\ UNCHANGED <<cfg, analysis, phase, todo, reachable, blocks_to_remove, groups, used,
                   next_ins, next_operand, returntype_line>>

\* One round of remove_given_blocks, which walks the list backwards.
RemoveGivenBlock ==
    /\ phase = "remove_blocks"
    /\ at > 0
    /\ cfg' = IF ShouldGo(cfg.all_blocks[at])
              THEN [cfg EXCEPT !.all_blocks = SwapRemove(@, at)] ELSE cfg
    /\ at' = at - 1
    /\ UNCHANGED <<analysis, phase, todo, reachable, blocks_to_remove, groups, prev_lineno,
                   used, next_ins, next_operand, warnings, returntype_line>>

\* (mutant) The last block of the list is not looked at.
StartRemovingBlocks_below_last ==
    /\ phase = "show"
    /\ at > Len(groups)
    /\ at' = Len(cfg.all_blocks) - 1
    /\ phase' = "remove_blocks"
    /\ UNCHANGED <<cfg, analysis, todo, reachable, blocks_to_remove, groups, prev_lineno, used,
                   next_ins, next_operand, warnings, returntype_line>>

StartRemovingBlocks ==
    /\ phase = "show"
    /\ at > Len(groups)
    /\ at' = Len(cfg.all_blocks)
    /\ phase' = "remove_blocks"
    /\ UNCHANGED <<cfg, analysis, todo, reachable, blocks_to_remove, groups, prev_lineno, used,
                   next_ins, next_operand, warnings, returntype_line>>

\* error_about_missing_return has nothing to do for a function that returns
\* nothing.
BlocksRemoved ==
    /\ phase = "remove_blocks"
    /\ at = 0
    /\ IF returntype_line # 0
       THEN phase' = "missing_return" /\ CallAnalysis(cfg)
       ELSE phase' = "unused" /\ UNCHANGED analysis
    /\ UNCHANGED <<cfg, passes, warnings, returntype_line>>
-----------------------------------------------------------------------------

\* Whether the return value has been set on some, all or no ways to the end.
ErrorAboutMissingReturn ==
    /\ phase = "missing_return"
    /\ AnalysisDone
    /\ \E v \in ReturnSlots(cfg) :
        /\ phase' = IF result[EndBlock][v] = "UNDEFINED" THEN "failed" ELSE "unused"
        /\ warnings' = IF result[EndBlock][v] = "POSSIBLY_UNDEFINED"
                       THEN Append(warnings, Warning("doesn't seem to return a value in all cases",
                                                     returntype_line, ""))
                       ELSE warnings
    /\ UNCHANGED <<cfg, analysis, passes, returntype_line>>
-----------------------------------------------------------------------------
\* remove_unused_variables.  A branch on a variable is not a use of it.
UsedVariables ==
    {v \in VarSet(cfg) : \E b \in BlockSet(cfg) : \E ins \in InstructionsOf(cfg, b) :
        v = ins.destvar \/ v \in OperandSet(ins)}

FindUsedVariables ==
    /\ phase = "unused"
    /\ used' = UsedVariables
    /\ at' = Len(cfg.variables)
    /\ phase' = "remove_vars"
    /\ UNCHANGED <<cfg, analysis, todo, reachable, blocks_to_remove, groups, prev_lineno,
                   next_ins, next_operand, warnings, returntype_line>>

\* (mutant) Arguments nobody uses go too.
Unused_any(v) == v.id \notin used

Unused(v) == v.id \notin used /\ ~v.is_argument

RemoveUnusedVariable ==
    /\ phase = "remove_vars"
    /\ at > 0
    /\ cfg' = IF Unused(cfg.variables[at])
              THEN [cfg EXCEPT !.variables = SwapRemove(@, at)] ELSE cfg
    /\ at' = at - 1
    /\ UNCHANGED <<analysis, phase, todo, reachable, blocks_to_remove, groups, prev_lineno,
                   used, next_ins, next_operand, warnings, returntype_line>>

VariablesRemoved ==
    /\ phase = "remove_vars"
    /\ at = 0
    /\ CallAnalysis(cfg)
    /\ phase' = "undefined"
    /\ UNCHANGED <<cfg, passes, warnings, returntype_line>>
-----------------------------------------------------------------------------
\* warn_about_undefined_variables goes through the blocks as they are listed,
\* re-running each from the statuses found for its end and updating those in
\* place.
StartScan ==
    /\ phase = "undefined"
    /\ AnalysisDone
    /\ at' = 1
    /\ next_ins' = 1
    /\ next_operand' = 1
    /\ phase' = "scan"
    /\ UNCHANGED <<cfg, analysis, todo, reachable, blocks_to_remove, groups, prev_lineno, used,
                   warnings, returntype_line>>

Scanned == cfg.block[cfg.all_blocks[at]].instructions

UndefinedWarning(v, status, line) ==
    IF VariableOf(cfg, v).name = "" THEN <<>>
    ELSE CASE status = "POSSIBLY_UNDEFINED" ->
                <<Warning("may be undefined", line, VariableOf(cfg, v).name)>>
           [] status = "UNDEFINED" -> <<Warning("is undefined", line, VariableOf(cfg, v).name)>>
           [] OTHER -> <<>>

ScanOperand ==
    /\ phase = "scan"
    /\ next_ins <= Len(Scanned)
    /\ next_operand <= Len(Scanned[next_ins].operands)
    /\ LET ins == Scanned[next_ins]
           v == ins.operands[next_operand]
       IN  warnings' = warnings \o
                UndefinedWarning(v, result[cfg.all_blocks[at]][v], ins.line)
    /\ next_operand' = next_operand + 1
    /\ UNCHANGED <<cfg, analysis, phase, todo, reachable, blocks_to_remove, groups,
                   prev_lineno, used, at, next_ins, returntype_line>>

ScanInstruction ==
    /\ phase = "scan"
    /\ next_ins <= Len(Scanned)
    /\ next_operand > Len(Scanned[next_ins].operands)
    /\ result' = [result EXCEPT ![cfg.all_blocks[at]] =
                    update_statuses_with_instruction(@, Scanned[next_ins])]
    /\ next_ins' = next_ins + 1
    /\ next_operand' = 1
    /\ UNCHANGED <<cfg, blocks_to_visit, visiting, unmerged, pos, tempstatus, phase, todo,
                   reachable, blocks_to_remove, groups, prev_lineno, used, at, warnings,
                   returntype_line>>

ScanNextBlock ==
    /\ phase = "scan"
    /\ next_ins > Len(Scanned)
    /\ IF at < Len(cfg.all_blocks) THEN at' = at + 1 /\ UNCHANGED phase
       ELSE phase' = "done" /\ UNCHANGED at
    /\ next_ins' = 1
    /\ next_operand' = 1
    /\ UNCHANGED <<cfg, analysis, todo, reachable, blocks_to_remove, groups, prev_lineno, used,
                   warnings, returntype_line>>
-----------------------------------------------------------------------------
SimplifyStep ==
    \/ Analyse \/ CleanJumps
    \/ MarkReachable \/ CollectUnreachable \/ StartGrouping \/ GroupBlock \/ ShowUnreachableWarning
    \/ StartRemovingBlocks \/ RemoveGivenBlock \/ BlocksRemoved
    \/ ErrorAboutMissingReturn
    \/ FindUsedVariables \/ RemoveUnusedVariable \/ VariablesRemoved
    \/ StartScan \/ ScanOperand \/ ScanInstruction \/ ScanNextBlock
=============================================================================
