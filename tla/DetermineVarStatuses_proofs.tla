-------------------- MODULE DetermineVarStatuses_proofs --------------------
(***************************************************************************)
(* Proofs about determine_var_statuses for every well-formed graph.  First *)
(* the analysis by itself: the laws the comment above merge() asks for,    *)
(* type correctness, the assertion that opens                              *)
(* update_statuses_with_instruction, and that stored statuses only climb.  *)
(*                                                                         *)
(* Then what it is good for: when its worklist is empty, what it stored is *)
(* a fixpoint, and a fixpoint describes what variables hold whenever       *)
(* execution comes to the end of a block.  Neither part depends on where   *)
(* the graph comes from.  The fixpoint is stated for any graph g and any   *)
(* stored statuses r, so that it can outlive the analysis, whose variables *)
(* the next pass uses again.                                               *)
(***************************************************************************)
EXTENDS DetermineVarStatuses, RunCfg, SharedLemmas

\* merge stays within the statuses and never forgets that something was known.
LEMMA MergeType ==
    \A a, b \in VarStatuses :
        /\ merge(a, b) \in VarStatuses
        /\ merge(a, b) = "UNVISITED" <=> a = "UNVISITED" /\ b = "UNVISITED"
BY DEF merge, VarStatuses

\* merge(a, VS_UNVISITED) == a, merge(a, a) == a, merge(a, b) == merge(b, a).
LEMMA MergeUnitIdempotentCommutative ==
    \A a, b \in VarStatuses :
        /\ merge(a, "UNVISITED") = a
        /\ merge(a, a) = a
        /\ merge(a, b) = merge(b, a)
BY DEF merge, VarStatuses

\* merge(a, merge(b, c)) == merge(merge(a, b), c).
LEMMA MergeAssociative ==
    \A a, b, c \in VarStatuses : merge(a, merge(b, c)) = merge(merge(a, b), c)
BY DEF merge, VarStatuses

\* The four laws that make it irrelevant in which order and how often the
\* predecessors of a block are merged.
THEOREM MergeLaws ==
    \A a, b, c \in VarStatuses :
        /\ merge(a, "UNVISITED") = a
        /\ merge(a, a) = a
        /\ merge(a, b) = merge(b, a)
        /\ merge(a, merge(b, c)) = merge(merge(a, b), c)
BY MergeUnitIdempotentCommutative, MergeAssociative

\* Merging anything into a status gives a status above it.
LEMMA MergeClimbs ==
    \A a, b \in VarStatuses : Leq(a, merge(b, a)) /\ Leq(a, a)
<1>. SUFFICES ASSUME NEW a \in VarStatuses, NEW b \in VarStatuses
              PROVE  merge(a, merge(b, a)) = merge(b, a) /\ merge(a, a) = a
  BY DEF Leq
<1>1. merge(a, merge(b, a)) = merge(merge(a, a), b)
  BY MergeUnitIdempotentCommutative, MergeAssociative
<1>. QED  BY <1>1, MergeUnitIdempotentCommutative
-----------------------------------------------------------------------------
LEMMA FirstListedMember ==
    ASSUME WellFormed(cfg), NEW S \in SUBSET BlockSet(cfg), S # {}
    PROVE  FirstListed(S) \in S
<1>. DEFINE positions == {i \in DOMAIN cfg.all_blocks : cfg.all_blocks[i] \in S}
<1>1. DOMAIN cfg.all_blocks = 1 .. Len(cfg.all_blocks) /\ Len(cfg.all_blocks) \in Nat
  BY DEF WellFormed
<1>2. positions \in SUBSET Nat /\ positions # {}
  BY <1>1 DEF BlockSet
<1>3. PICK m \in positions : \A k \in positions : m <= k
  BY <1>2, LeastNatural
<1>4. /\ m \in DOMAIN cfg.all_blocks
      /\ cfg.all_blocks[m] \in S
      /\ \A j \in 1 .. m - 1 : cfg.all_blocks[j] \notin S
  <2>. SUFFICES ASSUME NEW j \in 1 .. m - 1, cfg.all_blocks[j] \in S PROVE FALSE
    BY <1>3
  <2>1. j \in positions /\ j < m
    BY <1>1
  <2>. QED  BY <2>1, <1>1, <1>3
<1>. QED  BY <1>4 DEF FirstListed

-----------------------------------------------------------------------------
Statuses == [VarSet(cfg) -> VarStatuses]

\* Something is known about every variable.
Known(s) == \A v \in VarSet(cfg) : s[v] # "UNVISITED"

LEMMA MergeArraysType ==
    ASSUME NEW dest \in Statuses, NEW src \in Statuses
    PROVE  /\ merge_arrays(dest, src) \in Statuses
           /\ Known(dest) \/ Known(src) => Known(merge_arrays(dest, src))
           /\ \A v \in VarSet(cfg) : Leq(dest[v], merge_arrays(dest, src)[v])
<1>1. \A v \in VarSet(cfg) : /\ dest[v] \in VarStatuses
                             /\ src[v] \in VarStatuses
                             /\ merge_arrays(dest, src)[v] = merge(src[v], dest[v])
  BY DEF merge_arrays, Statuses
<1>2. merge_arrays(dest, src) \in Statuses
  BY <1>1, MergeType DEF merge_arrays, Statuses
<1>3. Known(dest) \/ Known(src) => Known(merge_arrays(dest, src))
  BY <1>1, MergeType DEF Known
<1>4. \A v \in VarSet(cfg) : Leq(dest[v], merge_arrays(dest, src)[v])
  BY <1>1, MergeClimbs
<1>. QED  BY <1>2, <1>3, <1>4

\* Running an instruction turns known statuses into known statuses.
LEMMA UpdateType ==
    ASSUME NEW s \in Statuses, NEW ins, InstructionOK(cfg, ins)
    PROVE  /\ update_statuses_with_instruction(s, ins) \in Statuses
           /\ Known(s) => Known(update_statuses_with_instruction(s, ins))
<1>. DEFINE t == update_statuses_with_instruction(s, ins)
<1>1. CASE ins.destvar = NoVar \/ s[ins.destvar] = "UNPREDICTABLE"
  BY <1>1 DEF update_statuses_with_instruction
<1>2. CASE ~ (ins.destvar = NoVar \/ s[ins.destvar] = "UNPREDICTABLE")
  <2>1. ins.destvar \in VarSet(cfg)
    BY <1>2 DEF InstructionOK
  <2>2. CASE ins.kind = "VARCPY"
    <3>1. ins.operands[1] \in VarSet(cfg)
      BY <2>2 DEF InstructionOK
    <3>. QED
      BY <1>2, <2>1, <2>2, <3>1
      DEF update_statuses_with_instruction, Statuses, Known, VarStatuses
  <2>3. CASE ins.kind = "ADDRESS_OF_VARIABLE"
    <3>1. ins.operands[1] \in VarSet(cfg)
      BY <2>3 DEF InstructionOK
    <3>2. t = [s EXCEPT ![ins.operands[1]] = "UNPREDICTABLE", ![ins.destvar] = "DEFINED"]
      BY <1>2, <2>3 DEF update_statuses_with_instruction
    <3>. QED
      BY <2>1, <3>1, <3>2 DEF Statuses, Known, VarStatuses
  <2>4. CASE ins.kind \notin {"VARCPY", "ADDRESS_OF_VARIABLE"}
    <3>1. \E x \in {"TRUE", "FALSE", "DEFINED"} : t = [s EXCEPT ![ins.destvar] = x]
      BY <1>2, <2>4 DEF update_statuses_with_instruction
    <3>. QED
      BY <2>1, <3>1 DEF Statuses, Known, VarStatuses
  <2>. QED  BY <2>2, <2>3, <2>4
<1>. QED  BY <1>1, <1>2
-----------------------------------------------------------------------------
(***************************************************************************)
(* The inductive invariant.  Being on the worklist has a reason: it is the *)
(* start block, or some predecessor has already been visited, so that      *)
(* merging the predecessors leaves nothing unvisited.  While a block is    *)
(* visited that predecessor is either still to be merged or already in     *)
(* tempstatus.                                                             *)
(***************************************************************************)
HasVisitedPredecessor(b) == \E p \in Predecessors(cfg, b) : Known(result[p])

WorklistInv ==
    \A b \in blocks_to_visit : b = StartBlock \/ HasVisitedPredecessor(b)
VisitInv ==
    visiting # NoBlock => Known(tempstatus) \/ \E p \in unmerged : Known(result[p])
AnalysisInv == WellFormed(cfg) /\ AnalysisTypeOK /\ WorklistInv /\ VisitInv

LEMMA InitAnalysisInv == AnalysisInit => AnalysisInv
<1>. SUFFICES ASSUME AnalysisInit PROVE AnalysisInv
  OBVIOUS
<1>. USE DEF AnalysisInit, AnalysisStart
<1>1. AnalysisTypeOK
  BY DEF AnalysisTypeOK, WellFormed, VarStatuses
<1>2. WorklistInv /\ VisitInv
  BY DEF WorklistInv, VisitInv
<1>. QED  BY <1>1, <1>2 DEF AnalysisInv

\* The graph is only read, so whatever depends on it alone carries over.
LEMMA GraphUnchanged ==
    ASSUME AnalysisInv, cfg' = cfg
    PROVE  /\ WellFormed(cfg)'
           /\ BlockSet(cfg)' = BlockSet(cfg)
           /\ VarSet(cfg)' = VarSet(cfg)
           /\ \A b : Predecessors(cfg, b)' = Predecessors(cfg, b)
           /\ \A s : Known(s)' <=> Known(s)
BY DEF AnalysisInv, Known

LEMMA StartVisitInv ==
    ASSUME AnalysisInv, StartVisit, cfg' = cfg
    PROVE  AnalysisInv'
<1>. USE DEF AnalysisInv
<1>1. visiting' \in blocks_to_visit /\ visiting' \in BlockSet(cfg)
  BY FirstListedMember DEF StartVisit, AnalysisTypeOK
<1>2. AnalysisTypeOK'
  <2>1. tempstatus' \in [VarSet(cfg) -> VarStatuses]
    BY DEF StartVisit, EntryStatus, VarStatuses
  <2>2. unmerged' \subseteq BlockSet(cfg)
    BY DEF StartVisit, Predecessors
  <2>. QED
    BY <1>1, <2>1, <2>2, GraphUnchanged DEF StartVisit, AnalysisTypeOK
<1>3. WorklistInv'
  BY GraphUnchanged DEF StartVisit, WorklistInv, HasVisitedPredecessor, Known
<1>4. VisitInv'
  <2>1. CASE visiting' = StartBlock
    <3>1. \A v \in VarSet(cfg) : tempstatus'[v] # "UNVISITED"
      BY <2>1 DEF StartVisit, EntryStatus
    <3>. QED  BY <3>1, GraphUnchanged DEF VisitInv, Known
  <2>2. CASE visiting' # StartBlock
    <3>1. \E p \in unmerged' : Known(result[p])
      BY <1>1, <2>2 DEF StartVisit, WorklistInv, HasVisitedPredecessor
    <3>. QED  BY <3>1, GraphUnchanged DEF StartVisit, VisitInv, Known
  <2>. QED  BY <2>1, <2>2
<1>. QED  BY <1>2, <1>3, <1>4, GraphUnchanged

LEMMA MergePredecessorInv ==
    ASSUME AnalysisInv, MergePredecessor, cfg' = cfg
    PROVE  AnalysisInv'
<1>. USE DEF AnalysisInv
<1>. DEFINE p == FirstListed(unmerged)
<1>1. p \in unmerged /\ p \in BlockSet(cfg)
  BY FirstListedMember DEF MergePredecessor, AnalysisTypeOK
<1>2. /\ tempstatus' = merge_arrays(tempstatus, result[p])
      /\ unmerged' = unmerged \ {p}
      /\ UNCHANGED <<result, blocks_to_visit, visiting, pos>>
  BY DEF MergePredecessor
<1>. HIDE DEF p
<1>3. tempstatus \in Statuses /\ result[p] \in Statuses
  BY <1>1 DEF AnalysisTypeOK, Statuses
<1>4. /\ tempstatus' \in Statuses
      /\ Known(tempstatus) \/ Known(result[p]) => Known(tempstatus)'
  BY <1>2, <1>3, MergeArraysType, GraphUnchanged DEF Known
<1>5. AnalysisTypeOK'
  BY <1>2, <1>4, GraphUnchanged DEF AnalysisTypeOK, Statuses
<1>6. WorklistInv'
  BY <1>2, GraphUnchanged DEF WorklistInv, HasVisitedPredecessor, Known
<1>7. VisitInv'
  BY <1>2, <1>4, GraphUnchanged DEF VisitInv, Known
<1>. QED  BY <1>5, <1>6, <1>7, GraphUnchanged

LEMMA RunInstructionInv ==
    ASSUME AnalysisInv, RunInstruction, cfg' = cfg
    PROVE  AnalysisInv'
<1>. USE DEF AnalysisInv
<1>. DEFINE ins == cfg.block[visiting].instructions[pos]
<1>1. visiting \in BlockSet(cfg) /\ visiting # NoBlock
  BY DEF RunInstruction, AnalysisTypeOK
<1>2. InstructionOK(cfg, ins)
  <2>1. BlockOK(cfg, visiting)
    BY <1>1 DEF WellFormed
  <2>2. cfg.block[visiting].instructions \in Seq(InstructionsOf(cfg, visiting))
    BY <2>1 DEF BlockOK
  <2>3. pos \in 1 .. Len(cfg.block[visiting].instructions)
    BY <2>2 DEF RunInstruction, AnalysisTypeOK
  <2>4. ins \in InstructionsOf(cfg, visiting)
    BY <2>2, <2>3
  <2>. QED  BY <2>1, <2>4 DEF BlockOK
<1>3. /\ tempstatus' = update_statuses_with_instruction(tempstatus, ins)
      /\ unmerged = {} /\ pos' = pos + 1
      /\ UNCHANGED <<result, blocks_to_visit, visiting, unmerged>>
  BY DEF RunInstruction
<1>. HIDE DEF ins
<1>4. tempstatus \in Statuses
  BY DEF AnalysisTypeOK, Statuses
<1>5. tempstatus' \in Statuses /\ (Known(tempstatus) => Known(tempstatus)')
  BY <1>2, <1>3, <1>4, UpdateType, GraphUnchanged DEF Known
<1>6. AnalysisTypeOK'
  BY <1>3, <1>5, GraphUnchanged DEF AnalysisTypeOK, Statuses
<1>7. WorklistInv'
  BY <1>3, GraphUnchanged DEF WorklistInv, HasVisitedPredecessor, Known
<1>8. VisitInv'
  BY <1>1, <1>3, <1>5, GraphUnchanged DEF VisitInv, Known
<1>. QED  BY <1>6, <1>7, <1>8, GraphUnchanged

\* Storing the statuses of a visited block leaves known what was known, and
\* makes the block a visited predecessor of the blocks it puts on the list.
LEMMA EndVisitInv ==
    ASSUME AnalysisInv, EndVisit, cfg' = cfg
    PROVE  /\ AnalysisInv'
           /\ \A b \in BlockSet(cfg) : \A v \in VarSet(cfg) : Leq(result[b][v], result'[b][v])
<1>. USE DEF AnalysisInv
<1>1. visiting \in BlockSet(cfg) /\ visiting # NoBlock /\ Known(tempstatus)
  BY DEF EndVisit, AnalysisTypeOK, VisitInv
<1>2. /\ tempstatus \in Statuses
      /\ result \in [BlockSet(cfg) -> Statuses]
  BY DEF AnalysisTypeOK, Statuses
<1>3. /\ result' = [result EXCEPT ![visiting] = merge_arrays(result[visiting], tempstatus)]
      /\ visiting' = NoBlock
      /\ UNCHANGED <<unmerged, pos, tempstatus>>
  BY DEF EndVisit, Learned
<1>4. /\ result'[visiting] \in Statuses
      /\ Known(result'[visiting])
      /\ \A v \in VarSet(cfg) : Leq(result[visiting][v], result'[visiting][v])
  BY <1>1, <1>2, <1>3, MergeArraysType
<1>5. \A b \in BlockSet(cfg) \ {visiting} : result'[b] = result[b]
  BY <1>2, <1>3
<1>6. result' \in [BlockSet(cfg) -> Statuses]
  BY <1>2, <1>3, <1>4
<1>7. \A b \in BlockSet(cfg) : Known(result[b]) => Known(result'[b])
  BY <1>4, <1>5
<1>8. blocks_to_visit' \subseteq blocks_to_visit \cup Targets(cfg, visiting)
  BY DEF EndVisit, Affected
<1>9. visiting # EndBlock => Targets(cfg, visiting) \subseteq BlockSet(cfg)
  BY <1>1 DEF WellFormed, BlockOK, Targets
<1>10. AnalysisTypeOK'
  <2>1. blocks_to_visit' \subseteq BlockSet(cfg)
    BY <1>8, <1>9 DEF EndVisit, Affected, AnalysisTypeOK
  <2>. QED
    BY <1>3, <1>6, <2>1, GraphUnchanged DEF AnalysisTypeOK, Statuses
<1>11. WorklistInv'
  <2>. SUFFICES ASSUME NEW b \in blocks_to_visit', b # StartBlock
                PROVE  \E p \in Predecessors(cfg, b) : Known(result'[p])
    BY GraphUnchanged DEF WorklistInv, HasVisitedPredecessor, Known
  <2>1. CASE b \in blocks_to_visit
    BY <2>1, <1>7 DEF WorklistInv, HasVisitedPredecessor, Predecessors
  <2>2. CASE b \in Targets(cfg, visiting)
    BY <2>2, <1>1, <1>4 DEF Predecessors
  <2>. QED  BY <2>1, <2>2, <1>8
<1>12. VisitInv'
  BY <1>3 DEF VisitInv
<1>13. \A b \in BlockSet(cfg) : \A v \in VarSet(cfg) : Leq(result[b][v], result'[b][v])
  BY <1>2, <1>4, <1>5, MergeClimbs DEF Statuses
<1>. QED  BY <1>10, <1>11, <1>12, <1>13, GraphUnchanged

LEMMA StutterInv == AnalysisInv /\ UNCHANGED analysisVars => AnalysisInv'
BY DEF AnalysisInv, analysisVars, AnalysisTypeOK, WorklistInv, HasVisitedPredecessor,
       VisitInv, Known

LEMMA NextAnalysisInv == AnalysisInv /\ [AnalysisNext]_analysisVars => AnalysisInv'
BY StartVisitInv, MergePredecessorInv, RunInstructionInv, EndVisitInv, StutterInv
   DEF AnalysisNext, AnalysisStep

THEOREM AnalysisInvariant == AnalysisSpec => []AnalysisInv
BY InitAnalysisInv, NextAnalysisInv, PTL DEF AnalysisSpec
-----------------------------------------------------------------------------
\* Statuses, worklist and positions always fit the graph being analysed.
THEOREM AnalysisTypeCorrect == AnalysisSpec => []AnalysisTypeOK
<1>1. AnalysisInv => AnalysisTypeOK
  BY DEF AnalysisInv
<1>. QED  BY <1>1, AnalysisInvariant, PTL

\* The assertion that opens update_statuses_with_instruction never fails,
\* whatever the graph looks like.
THEOREM AssertionNeverFails == AnalysisSpec => []NeverUnvisited
<1>1. AnalysisInv => NeverUnvisited
  BY DEF AnalysisInv, VisitInv, NeverUnvisited, Known
<1>. QED  BY <1>1, AnalysisInvariant, PTL

\* No step of a visit takes back anything stored for the end of a block.
LEMMA StepsOnlyClimb ==
    ASSUME AnalysisInv, AnalysisNext, visiting # NoBlock,
           NEW b \in BlockSet(cfg), NEW v \in VarSet(cfg)
    PROVE  Leq(result[b][v], result'[b][v])
<1>1. result[b][v] \in VarStatuses
  BY DEF AnalysisInv, AnalysisTypeOK
<1>2. CASE MergePredecessor \/ RunInstruction
  BY <1>1, <1>2, MergeClimbs DEF MergePredecessor, RunInstruction
<1>3. CASE EndVisit
  BY <1>3, EndVisitInv DEF AnalysisNext
<1>4. CASE StartVisit
  BY <1>4 DEF StartVisit
<1>. QED  BY <1>2, <1>3, <1>4 DEF AnalysisNext, AnalysisStep

THEOREM StatusesOnlyClimb == AnalysisSpec => ResultsOnlyClimb
<1>. DEFINE Climb == \A b \in BlockSet(cfg) : \A v \in VarSet(cfg) :
                cfg' = cfg /\ visiting # NoBlock => Leq(result[b][v], result'[b][v])
<1>1. AnalysisInv /\ [AnalysisNext]_analysisVars => [Climb]_analysisVars
  BY StepsOnlyClimb
<1>. QED  BY <1>1, AnalysisInvariant, PTL DEF AnalysisSpec, ResultsOnlyClimb
-----------------------------------------------------------------------------
StatusesOf(g) == [VarSet(g) -> VarStatuses]
Below(g, s, t) == \A v \in VarSet(g) : Leq(s[v], t[v])

\* EntryStatus for any graph.
Entry(g, b, v) ==
    IF b # StartBlock THEN "UNVISITED"
    ELSE IF v \in Arguments(g) THEN "DEFINED" ELSE "UNDEFINED"

\* What update_statuses_with_instruction relies on: a pointer is put into a
\* variable that has no pointers to it, so that its own status is not
\* VS_UNPREDICTABLE and the instruction is not skipped.
PointersGoToTemporaries(g) ==
    \A b \in BlockSet(g) : \A ins \in InstructionsOf(g, b) :
        ins.kind = "ADDRESS_OF_VARIABLE" =>
            ins.destvar # NoVar /\ ins.destvar \notin AddressTaken(g)

\* Only variables that some instruction takes the address of are unpredictable.
OnlyAddressed(g, s) ==
    \A v \in VarSet(g) : s[v] = "UNPREDICTABLE" => v \in AddressTaken(g)

\* tr lists the statuses before each of the first n instructions of block b
\* and after the last of them.
Trace(g, b, tr, n) ==
    /\ tr \in [1 .. n + 1 -> StatusesOf(g)]
    /\ \A i \in 1 .. n + 1 : OnlyAddressed(g, tr[i])
    /\ \A i \in 1 .. n :
        tr[i + 1] = update_statuses_with_instruction(tr[i], g.block[b].instructions[i])

\* s says no more than what is known when b is entered from the blocks in P.
Entered(g, r, b, s, P) ==
    /\ \A v \in VarSet(g) : Leq(Entry(g, b, v), s[v])
    /\ \A p \in P : Below(g, r[p], s)

InstructionCount(g, b) == Len(g.block[b].instructions)

\* Visiting b again would teach nothing.
Settled(g, r, b) ==
    \E tr : /\ Trace(g, b, tr, InstructionCount(g, b))
            /\ Entered(g, r, b, tr[1], Predecessors(g, b))
            /\ Below(g, tr[InstructionCount(g, b) + 1], r[b])

Visited(g, r, p) == \E v \in VarSet(g) : r[p][v] # "UNVISITED"

Fixpoint(g, r) ==
    /\ r \in [BlockSet(g) -> StatusesOf(g)]
    /\ \A b \in BlockSet(g) : OnlyAddressed(g, r[b])
    /\ Settled(g, r, StartBlock)
    /\ \A p \in BlockSet(g) : Visited(g, r, p) =>
            \A b \in Targets(g, p) : Settled(g, r, b)
-----------------------------------------------------------------------------
\* The order of merge: transitive, merge gives an upper bound, and only
\* UNPREDICTABLE is above UNPREDICTABLE.
LEMMA LeqLaws ==
    \A a, b, c \in VarStatuses :
        /\ Leq(a, a)
        /\ Leq("UNVISITED", a)
        /\ Leq(a, b) /\ Leq(b, c) => Leq(a, c)
        /\ Leq(a, merge(a, b)) /\ Leq(a, merge(b, a))
        /\ merge(a, b) = "UNPREDICTABLE" => a = "UNPREDICTABLE" \/ b = "UNPREDICTABLE"
        /\ Leq("UNPREDICTABLE", a) => a = "UNPREDICTABLE"
        /\ Leq(a, "UNVISITED") => a = "UNVISITED"
BY DEF Leq, merge, VarStatuses

\* A status further up the order allows more.
LEMMA MayHoldClimbs ==
    \A a, b \in VarStatuses : Leq(a, b) => MayHold(a) \subseteq MayHold(b)
<1>1. /\ MayHold("TRUE") = {"TRUE"}
      /\ MayHold("FALSE") = {"FALSE"}
      /\ MayHold("DEFINED") = {"TRUE", "FALSE", "value", "assumed"}
      /\ MayHold("UNDEFINED") = {"garbage", "assumed"}
      /\ MayHold("UNVISITED") = {}
      /\ MayHold("POSSIBLY_UNDEFINED") = {"TRUE", "FALSE", "value", "garbage", "assumed"}
      /\ MayHold("UNPREDICTABLE") = {"TRUE", "FALSE", "value", "garbage", "assumed"}
  BY DEF MayHold, Garbage
<1>. QED  BY <1>1 DEF Leq, merge, VarStatuses

\* Merging leaves both sides below the result and makes nothing unpredictable.
LEMMA MergeArraysBelow ==
    ASSUME NEW g, NEW dest \in StatusesOf(g), NEW src \in StatusesOf(g)
    PROVE  /\ merge_arrays(dest, src) \in StatusesOf(g)
           /\ Below(g, dest, merge_arrays(dest, src))
           /\ Below(g, src, merge_arrays(dest, src))
           /\ OnlyAddressed(g, dest) /\ OnlyAddressed(g, src)
                => OnlyAddressed(g, merge_arrays(dest, src))
<1>1. \A v \in VarSet(g) : /\ dest[v] \in VarStatuses
                           /\ src[v] \in VarStatuses
                           /\ merge_arrays(dest, src)[v] = merge(src[v], dest[v])
  BY DEF merge_arrays, StatusesOf
<1>2. merge_arrays(dest, src) \in StatusesOf(g)
  BY <1>1, MergeType DEF merge_arrays, StatusesOf
<1>3. Below(g, dest, merge_arrays(dest, src)) /\ Below(g, src, merge_arrays(dest, src))
  BY <1>1, LeqLaws DEF Below
<1>4. OnlyAddressed(g, dest) /\ OnlyAddressed(g, src)
        => OnlyAddressed(g, merge_arrays(dest, src))
  BY <1>1, LeqLaws DEF OnlyAddressed
<1>. QED  BY <1>2, <1>3, <1>4

LEMMA BelowTransitive ==
    ASSUME NEW g, NEW s \in StatusesOf(g), NEW t \in StatusesOf(g), NEW u \in StatusesOf(g),
           Below(g, s, t), Below(g, t, u)
    PROVE  Below(g, s, u)
<1>1. \A v \in VarSet(g) : s[v] \in VarStatuses /\ t[v] \in VarStatuses /\ u[v] \in VarStatuses
  BY DEF StatusesOf
<1>. QED  BY <1>1, LeqLaws DEF Below

\* The effect of an instruction: the six ways it can go.
LEMMA UpdateCases ==
    ASSUME NEW g, NEW s \in StatusesOf(g), NEW ins, InstructionOK(g, ins)
    PROVE  LET u == update_statuses_with_instruction(s, ins)
               d == ins.destvar
               x == ins.operands[1]
           IN  \/ (d = NoVar \/ s[d] = "UNPREDICTABLE") /\ u = s
               \/ /\ d \in VarSet(g) /\ s[d] # "UNPREDICTABLE"
                  /\ \/ /\ ins.kind = "VARCPY" /\ x \in VarSet(g)
                        /\ u = [s EXCEPT ![d] = IF s[x] = "UNPREDICTABLE" THEN "DEFINED" ELSE s[x]]
                     \/ /\ ins.kind = "ADDRESS_OF_VARIABLE" /\ x \in VarSet(g)
                        /\ u = [s EXCEPT ![x] = "UNPREDICTABLE", ![d] = "DEFINED"]
                     \/ /\ ins.kind = "CONSTANT" /\ ins.value \in {"TRUE", "FALSE"}
                        /\ u = [s EXCEPT ![d] = ins.value]
                     \/ /\ ins.kind \notin {"VARCPY", "ADDRESS_OF_VARIABLE"}
                        /\ ~ (ins.kind = "CONSTANT" /\ ins.value \in {"TRUE", "FALSE"})
                        /\ u = [s EXCEPT ![d] = "DEFINED"]
<1>. DEFINE u == update_statuses_with_instruction(s, ins)
            d == ins.destvar
            x == ins.operands[1]
<1>1. CASE d = NoVar \/ s[d] = "UNPREDICTABLE"
  BY <1>1 DEF update_statuses_with_instruction
<1>2. CASE ~ (d = NoVar \/ s[d] = "UNPREDICTABLE")
  <2>1. d \in VarSet(g) /\ s[d] # "UNPREDICTABLE" /\ d # NoVar
    BY <1>2 DEF InstructionOK
  <2>2. ins.kind \in {"VARCPY", "ADDRESS_OF_VARIABLE"} => x \in VarSet(g)
    BY DEF InstructionOK
  <2>3. CASE ins.kind = "VARCPY"
    BY <2>1, <2>2, <2>3 DEF update_statuses_with_instruction
  <2>4. CASE ins.kind = "ADDRESS_OF_VARIABLE"
    BY <2>1, <2>2, <2>4 DEF update_statuses_with_instruction
  <2>5. CASE ins.kind = "CONSTANT" /\ ins.value \in {"TRUE", "FALSE"}
    BY <2>1, <2>5 DEF update_statuses_with_instruction
  <2>6. CASE /\ ins.kind \notin {"VARCPY", "ADDRESS_OF_VARIABLE"}
             /\ ~ (ins.kind = "CONSTANT" /\ ins.value \in {"TRUE", "FALSE"})
    BY <2>1, <2>6 DEF update_statuses_with_instruction
  <2>. QED  BY <2>1, <2>2, <2>3, <2>4, <2>5, <2>6
<1>. QED  BY <1>1, <1>2

\* Instructions keep statuses within the statuses of the graph.
LEMMA UpdateStatuses ==
    ASSUME NEW g, NEW b \in BlockSet(g), NEW ins \in InstructionsOf(g, b),
           InstructionOK(g, ins), NEW s \in StatusesOf(g), OnlyAddressed(g, s)
    PROVE  /\ update_statuses_with_instruction(s, ins) \in StatusesOf(g)
           /\ OnlyAddressed(g, update_statuses_with_instruction(s, ins))
<1>. DEFINE u == update_statuses_with_instruction(s, ins)
            d == ins.destvar
            x == ins.operands[1]
<1>1. CASE (d = NoVar \/ s[d] = "UNPREDICTABLE") /\ u = s
  BY <1>1
<1>2. CASE /\ d \in VarSet(g)
           /\ \E y \in VarStatuses \ {"UNPREDICTABLE"} : u = [s EXCEPT ![d] = y]
  BY <1>2 DEF StatusesOf, OnlyAddressed
<1>3. CASE /\ ins.kind = "ADDRESS_OF_VARIABLE" /\ x \in VarSet(g) /\ d \in VarSet(g)
           /\ u = [s EXCEPT ![x] = "UNPREDICTABLE", ![d] = "DEFINED"]
  <2>1. ins.operands \in Seq(VarSet(g)) /\ Len(ins.operands) = 1
    BY <1>3 DEF InstructionOK
  <2>2. x \in OperandSet(ins)
    BY <2>1 DEF OperandSet
  <2>3. x \in AddressTaken(g)
    BY <1>3, <2>2 DEF AddressTaken
  <2>4. u \in StatusesOf(g)
    BY <1>3 DEF StatusesOf, VarStatuses
  <2>5. \A v \in VarSet(g) : u[v] = "UNPREDICTABLE" => v = x \/ s[v] = "UNPREDICTABLE"
    BY <1>3 DEF StatusesOf
  <2>. QED  BY <2>3, <2>4, <2>5 DEF OnlyAddressed
<1>4. x \in VarSet(g) => s[x] \in VarStatuses
  BY DEF StatusesOf
<1>5. {"TRUE", "FALSE", "DEFINED"} \subseteq VarStatuses \ {"UNPREDICTABLE"}
  BY DEF VarStatuses
<1>. QED  BY <1>1, <1>2, <1>3, <1>4, <1>5, UpdateCases
-----------------------------------------------------------------------------
(***************************************************************************)
(* The analysis ends in a fixpoint.  At any time a block that execution    *)
(* may come to, going by what is stored, is on the worklist, being visited *)
(* or settled; and tempstatus was reached by merging predecessors and      *)
(* running instructions.                                                   *)
(***************************************************************************)
StatusesInv ==
    /\ \A b \in BlockSet(cfg) : OnlyAddressed(cfg, result[b])
    /\ OnlyAddressed(cfg, tempstatus)
Covered(b) == b \in blocks_to_visit \/ b = visiting \/ Settled(cfg, result, b)
CoverInv ==
    /\ Covered(StartBlock)
    /\ \A p \in BlockSet(cfg) : Visited(cfg, result, p) =>
            \A b \in Targets(cfg, p) : Covered(b)
TraceInv ==
    visiting # NoBlock =>
        /\ unmerged # {} => pos = 1
        /\ pos <= InstructionCount(cfg, visiting) + 1
        /\ \E tr : /\ Trace(cfg, visiting, tr, pos - 1)
                   /\ tr[pos] = tempstatus
                   /\ Entered(cfg, result, visiting, tr[1],
                              Predecessors(cfg, visiting) \ unmerged)
SoundInv == AnalysisInv /\ StatusesInv /\ CoverInv /\ TraceInv

\* Where an analysis starts, be it the function on its own or the call made
\* by another pass.
LEMMA InitSoundInv == AnalysisInit => SoundInv
<1>. SUFFICES ASSUME AnalysisInit PROVE SoundInv
  OBVIOUS
<1>1. AnalysisInv
  BY InitAnalysisInv
<1>2. StatusesInv
  BY DEF AnalysisInit, AnalysisStart, StatusesInv, OnlyAddressed
<1>3. \A p \in BlockSet(cfg) : ~ Visited(cfg, result, p)
  BY DEF AnalysisInit, AnalysisStart, Visited
<1>4. CoverInv /\ TraceInv
  BY <1>3 DEF AnalysisInit, AnalysisStart, CoverInv, Covered, TraceInv
<1>. QED  BY <1>1, <1>2, <1>4 DEF SoundInv

LEMMA InstructionCountNat ==
    ASSUME NEW g, WellFormed(g), NEW b \in BlockSet(g)
    PROVE  /\ InstructionCount(g, b) \in Nat
           /\ \A i \in 1 .. InstructionCount(g, b) :
                /\ g.block[b].instructions[i] \in InstructionsOf(g, b)
                /\ InstructionOK(g, g.block[b].instructions[i])
<1>1. BlockOK(g, b)
  BY DEF WellFormed
<1>. DEFINE code == g.block[b].instructions
<1>2. code \in Seq(InstructionsOf(g, b)) /\ InstructionCount(g, b) = Len(code)
  BY <1>1 DEF BlockOK, InstructionCount
<1>3. \A i \in 1 .. Len(code) : code[i] \in InstructionsOf(g, b)
  BY <1>2
<1>. QED  BY <1>1, <1>2, <1>3 DEF BlockOK

LEMMA StartVisitSound ==
    ASSUME SoundInv, StartVisit, cfg' = cfg
    PROVE  SoundInv'
<1>. USE DEF SoundInv
<1>1. AnalysisInv'
  BY StartVisitInv
<1>2. /\ visiting' \in blocks_to_visit /\ visiting' \in BlockSet(cfg)
      /\ visiting = NoBlock
      /\ blocks_to_visit' = blocks_to_visit \ {visiting'}
      /\ tempstatus' = [v \in VarSet(cfg) |-> Entry(cfg, visiting', v)]
      /\ unmerged' = Predecessors(cfg, visiting')
      /\ pos' = 1 /\ result' = result
  BY FirstListedMember DEF StartVisit, AnalysisInv, AnalysisTypeOK, EntryStatus, Entry
<1>3. /\ tempstatus' \in StatusesOf(cfg)
      /\ OnlyAddressed(cfg, tempstatus')
      /\ \A v \in VarSet(cfg) : tempstatus'[v] = Entry(cfg, visiting', v)
  BY <1>2 DEF Entry, StatusesOf, VarStatuses, OnlyAddressed
<1>4. StatusesInv'
  BY <1>2, <1>3 DEF StatusesInv
<1>5. \A b : Covered(b) /\ b # NoBlock => Covered(b)'
  BY <1>2 DEF Covered
<1>6. CoverInv'
  <2>1. StartBlock # NoBlock
    BY DEF StartBlock, NoBlock
  <2>2. \A p : NoBlock \notin Targets(cfg, p)
    BY DEF Targets
  <2>. QED  BY <1>2, <1>5, <2>1, <2>2 DEF CoverInv
<1>7. TraceInv'
  <2>. DEFINE tr == [i \in 1 .. 1 |-> tempstatus']
  <2>1. Trace(cfg, visiting', tr, 0)
    BY <1>3 DEF Trace
  <2>2. Entered(cfg, result, visiting', tr[1], {})
    <3>1. \A v \in VarSet(cfg) : tempstatus'[v] \in VarStatuses
      BY <1>3 DEF StatusesOf
    <3>2. \A v \in VarSet(cfg) : Leq(Entry(cfg, visiting', v), tr[1][v])
      BY <1>3, <3>1, LeqLaws
    <3>. QED  BY <3>2 DEF Entered
  <2>3. 1 <= InstructionCount(cfg, visiting') + 1
    BY <1>2, InstructionCountNat DEF AnalysisInv
  <2>4. tr[pos'] = tempstatus' /\ pos' - 1 = 0
    BY <1>2
  <2>5. Predecessors(cfg, visiting') \ unmerged' = {}
    BY <1>2
  <2>. HIDE DEF tr
  <2>. QED  BY <1>2, <2>1, <2>2, <2>3, <2>4, <2>5 DEF TraceInv
<1>. QED  BY <1>1, <1>4, <1>6, <1>7

LEMMA MergePredecessorSound ==
    ASSUME SoundInv, MergePredecessor, cfg' = cfg
    PROVE  SoundInv'
<1>. USE DEF SoundInv
<1>1. AnalysisInv'
  BY MergePredecessorInv
<1>. DEFINE p == FirstListed(unmerged)
<1>2. /\ p \in unmerged /\ p \in BlockSet(cfg)
      /\ tempstatus' = merge_arrays(tempstatus, result[p])
      /\ unmerged' = unmerged \ {p}
      /\ visiting # NoBlock /\ pos = 1
      /\ UNCHANGED <<result, blocks_to_visit, visiting, pos>>
  BY FirstListedMember DEF MergePredecessor, AnalysisInv, AnalysisTypeOK, TraceInv
<1>. HIDE DEF p
<1>3. tempstatus \in StatusesOf(cfg) /\ result[p] \in StatusesOf(cfg)
  BY <1>2 DEF AnalysisInv, AnalysisTypeOK, StatusesOf
<1>4. /\ tempstatus' \in StatusesOf(cfg)
      /\ Below(cfg, tempstatus, tempstatus')
      /\ Below(cfg, result[p], tempstatus')
      /\ OnlyAddressed(cfg, tempstatus')
  BY <1>2, <1>3, MergeArraysBelow DEF StatusesInv
<1>5. StatusesInv'
  BY <1>2, <1>4 DEF StatusesInv
<1>6. CoverInv'
  BY <1>2 DEF CoverInv, Covered
<1>7. TraceInv'
  <2>1. PICK tr : /\ Trace(cfg, visiting, tr, pos - 1)
                  /\ tr[pos] = tempstatus
                  /\ Entered(cfg, result, visiting, tr[1], Predecessors(cfg, visiting) \ unmerged)
    BY <1>2 DEF TraceInv
  <2>. DEFINE new == [i \in 1 .. 1 |-> tempstatus']
  <2>2. Trace(cfg, visiting, new, 0) /\ new[1] = tempstatus'
    BY <1>4 DEF Trace
  <2>3. \A v \in VarSet(cfg) : Leq(Entry(cfg, visiting, v), new[1][v])
    <3>. SUFFICES ASSUME NEW v \in VarSet(cfg) PROVE Leq(Entry(cfg, visiting, v), tempstatus'[v])
      BY <2>2
    <3>1. Leq(Entry(cfg, visiting, v), tempstatus[v]) /\ Leq(tempstatus[v], tempstatus'[v])
      BY <1>2, <1>4, <2>1 DEF Entered, Below
    <3>2. /\ Entry(cfg, visiting, v) \in VarStatuses
          /\ tempstatus[v] \in VarStatuses /\ tempstatus'[v] \in VarStatuses
      BY <1>3, <1>4 DEF StatusesOf, Entry, VarStatuses
    <3>. QED  BY <3>1, <3>2, LeqLaws
  <2>4. \A q \in Predecessors(cfg, visiting) \ unmerged' : Below(cfg, result[q], new[1])
    <3>. SUFFICES ASSUME NEW q \in Predecessors(cfg, visiting), q \notin unmerged, q # p
                  PROVE  Below(cfg, result[q], tempstatus')
      BY <1>2, <1>4, <2>2
    <3>1. Below(cfg, result[q], tempstatus)
      BY <1>2, <2>1 DEF Entered
    <3>2. result[q] \in StatusesOf(cfg)
      BY DEF AnalysisInv, AnalysisTypeOK, StatusesOf, Predecessors
    <3>. QED  BY <1>3, <1>4, <3>1, <3>2, BelowTransitive
  <2>5. Entered(cfg, result, visiting, new[1], Predecessors(cfg, visiting) \ unmerged')
    BY <2>3, <2>4 DEF Entered
  <2>6. pos - 1 = 0 /\ new[pos] = tempstatus' /\ pos <= InstructionCount(cfg, visiting) + 1
    BY <1>2, <2>2 DEF TraceInv
  <2>. HIDE DEF new
  <2>. QED  BY <1>2, <2>2, <2>5, <2>6 DEF TraceInv
<1>. QED  BY <1>1, <1>5, <1>6, <1>7

LEMMA RunInstructionSound ==
    ASSUME SoundInv, RunInstruction, cfg' = cfg
    PROVE  SoundInv'
<1>. USE DEF SoundInv
<1>1. AnalysisInv'
  BY RunInstructionInv
<1>. DEFINE ins == cfg.block[visiting].instructions[pos]
<1>2. /\ visiting \in BlockSet(cfg) /\ visiting # NoBlock
      /\ pos \in Nat \ {0} /\ pos <= InstructionCount(cfg, visiting)
      /\ tempstatus' = update_statuses_with_instruction(tempstatus, ins)
      /\ unmerged = {} /\ pos' = pos + 1
      /\ UNCHANGED <<result, blocks_to_visit, visiting, unmerged>>
  BY DEF RunInstruction, AnalysisInv, AnalysisTypeOK, InstructionCount
<1>3. /\ InstructionCount(cfg, visiting) \in Nat
      /\ ins \in InstructionsOf(cfg, visiting) /\ InstructionOK(cfg, ins)
  BY <1>2, InstructionCountNat DEF AnalysisInv
<1>4. tempstatus \in StatusesOf(cfg) /\ OnlyAddressed(cfg, tempstatus)
  BY DEF AnalysisInv, AnalysisTypeOK, StatusesOf, StatusesInv
<1>5. tempstatus' \in StatusesOf(cfg) /\ OnlyAddressed(cfg, tempstatus')
  <2>. HIDE DEF ins
  <2>. QED  BY <1>2, <1>3, <1>4, UpdateStatuses
<1>6. StatusesInv'
  BY <1>2, <1>5 DEF StatusesInv
<1>7. CoverInv'
  BY <1>2 DEF CoverInv, Covered
<1>8. TraceInv'
  <2>1. PICK tr : /\ Trace(cfg, visiting, tr, pos - 1)
                  /\ tr[pos] = tempstatus
                  /\ Entered(cfg, result, visiting, tr[1], Predecessors(cfg, visiting) \ unmerged)
    BY <1>2 DEF TraceInv
  <2>. DEFINE new == [i \in 1 .. pos + 1 |-> IF i = pos + 1 THEN tempstatus' ELSE tr[i]]
  <2>2. tr \in [1 .. pos -> StatusesOf(cfg)]
    BY <1>2, <2>1 DEF Trace
  <2>3. new \in [1 .. pos + 1 -> StatusesOf(cfg)]
    BY <1>2, <1>5, <2>2
  <2>4. new[1] = tr[1] /\ new[pos] = tempstatus /\ new[pos + 1] = tempstatus'
    BY <1>2, <2>1
  <2>5. \A i \in 1 .. pos + 1 : OnlyAddressed(cfg, new[i])
    BY <1>2, <1>5, <2>1 DEF Trace
  <2>6. ASSUME NEW i \in 1 .. pos
        PROVE  new[i + 1] = update_statuses_with_instruction(new[i],
                                cfg.block[visiting].instructions[i])
    <3>1. CASE i = pos
      BY <3>1, <1>2, <2>4
    <3>2. CASE i # pos
      <4>1. i \in 1 .. pos - 1
        BY <3>2, <1>2
      <4>2. new[i + 1] = tr[i + 1] /\ new[i] = tr[i]
        BY <4>1, <1>2
      <4>3. i \in 1 .. (pos - 1)
        BY <4>1
      <4>. QED  BY <4>2, <4>3, <2>1 DEF Trace
    <3>. QED  BY <3>1, <3>2
  <2>7. Trace(cfg, visiting, new, pos)
    <3>. HIDE DEF new
    <3>. QED  BY <2>3, <2>5, <2>6 DEF Trace
  <2>8. pos' - 1 = pos /\ new[pos'] = tempstatus' /\ pos' <= InstructionCount(cfg, visiting) + 1
    BY <1>2, <1>3, <2>4
  <2>. HIDE DEF new
  <2>. QED  BY <1>2, <2>1, <2>4, <2>7, <2>8 DEF TraceInv
<1>. QED  BY <1>1, <1>6, <1>7, <1>8

\* The visited block is settled, unless it is its own predecessor; the blocks
\* after it are looked at again if anything was learned, and what is known on
\* the ways into all others is as before.
LEMMA EndVisitSound ==
    ASSUME SoundInv, EndVisit, cfg' = cfg
    PROVE  SoundInv'
<1>. USE DEF SoundInv
<1>1. AnalysisInv'
  BY EndVisitInv
<1>2. /\ visiting \in BlockSet(cfg) /\ visiting # NoBlock
      /\ result' = [result EXCEPT ![visiting] = merge_arrays(result[visiting], tempstatus)]
      /\ visiting' = NoBlock /\ unmerged = {}
      /\ blocks_to_visit' = blocks_to_visit \cup Affected(visiting, result' # result)
      /\ UNCHANGED <<unmerged, pos, tempstatus>>
      /\ pos \in Nat \ {0} /\ pos > InstructionCount(cfg, visiting)
  BY DEF EndVisit, Learned, AnalysisInv, AnalysisTypeOK, InstructionCount
<1>3. /\ result \in [BlockSet(cfg) -> StatusesOf(cfg)]
      /\ tempstatus \in StatusesOf(cfg)
  BY DEF AnalysisInv, AnalysisTypeOK, StatusesOf
<1>4. /\ result'[visiting] \in StatusesOf(cfg)
      /\ Below(cfg, tempstatus, result'[visiting])
      /\ OnlyAddressed(cfg, result'[visiting])
  BY <1>2, <1>3, MergeArraysBelow DEF StatusesInv
<1>5. /\ \A b \in BlockSet(cfg) \ {visiting} : result'[b] = result[b]
      /\ DOMAIN result' = BlockSet(cfg)
  BY <1>2, <1>3
<1>6. StatusesInv'
  BY <1>2, <1>4, <1>5 DEF StatusesInv
<1>7. visiting = EndBlock => Targets(cfg, visiting) = {}
  BY DEF AnalysisInv, WellFormed
<1>8. result' # result => Targets(cfg, visiting) \subseteq blocks_to_visit'
  BY <1>2, <1>7 DEF Affected
<1>9. Settled(cfg, result', visiting) \/ visiting \in blocks_to_visit'
  <2>1. PICK tr : /\ Trace(cfg, visiting, tr, pos - 1)
                  /\ tr[pos] = tempstatus
                  /\ Entered(cfg, result, visiting, tr[1], Predecessors(cfg, visiting))
    BY <1>2 DEF TraceInv
  <2>2. pos = InstructionCount(cfg, visiting) + 1
    BY <1>2, InstructionCountNat DEF TraceInv, AnalysisInv
  <2>3. CASE visiting \in Predecessors(cfg, visiting) /\ result' # result
    BY <2>3, <1>8 DEF Predecessors
  <2>4. CASE ~ (visiting \in Predecessors(cfg, visiting) /\ result' # result)
    <3>1. \A q \in Predecessors(cfg, visiting) : result'[q] = result[q]
      BY <2>4, <1>5 DEF Predecessors
    <3>2. Entered(cfg, result', visiting, tr[1], Predecessors(cfg, visiting))
      BY <2>1, <3>1 DEF Entered
    <3>3. Below(cfg, tr[InstructionCount(cfg, visiting) + 1], result'[visiting])
      BY <1>4, <2>1, <2>2
    <3>4. pos - 1 = InstructionCount(cfg, visiting)
      BY <1>2, <2>2, InstructionCountNat DEF AnalysisInv
    <3>. QED  BY <2>1, <3>2, <3>3, <3>4 DEF Settled
  <2>. QED  BY <2>3, <2>4
<1>10. ASSUME NEW b \in BlockSet(cfg), Covered(b)
       PROVE  Covered(b)'
  <2>1. CASE b = visiting
    BY <2>1, <1>9 DEF Covered
  <2>2. CASE b \in blocks_to_visit
    BY <2>2, <1>2 DEF Covered
  <2>3. CASE b # visiting /\ Settled(cfg, result, b)
    <3>1. CASE visiting \in Predecessors(cfg, b) /\ result' # result
      BY <3>1, <1>8 DEF Predecessors, Covered
    <3>2. CASE ~ (visiting \in Predecessors(cfg, b) /\ result' # result)
      <4>1. \A q \in Predecessors(cfg, b) : result'[q] = result[q]
        BY <3>2, <1>5 DEF Predecessors
      <4>2. result'[b] = result[b]
        BY <2>3, <1>5
      <4>3. Settled(cfg, result', b)
        BY <2>3, <4>1, <4>2 DEF Settled, Entered
      <4>. QED  BY <4>3 DEF Covered
    <3>. QED  BY <3>1, <3>2
  <2>. QED  BY <1>10, <2>1, <2>2, <2>3 DEF Covered
<1>11. CoverInv'
  <2>1. StartBlock \in BlockSet(cfg)
    BY DEF AnalysisInv, WellFormed
  <2>2. Covered(StartBlock)'
    BY <1>10, <2>1 DEF CoverInv
  <2>3. ASSUME NEW p \in BlockSet(cfg), Visited(cfg, result', p), NEW b \in Targets(cfg, p)
        PROVE  Covered(b)'
    <3>1. b \in BlockSet(cfg)
      <4>1. p # EndBlock
        BY <2>3 DEF AnalysisInv, WellFormed
      <4>. QED  BY <4>1, <2>3 DEF AnalysisInv, WellFormed, BlockOK, Targets
    <3>2. CASE Visited(cfg, result, p)
      BY <3>1, <3>2, <1>10, <2>3 DEF CoverInv
    <3>3. CASE ~ Visited(cfg, result, p)
      <4>1. p = visiting /\ result' # result
        BY <2>3, <3>3, <1>5 DEF Visited
      <4>. QED  BY <4>1, <1>8, <2>3 DEF Covered
    <3>. QED  BY <3>2, <3>3
  <2>. QED  BY <2>2, <2>3 DEF CoverInv
<1>12. TraceInv'
  BY <1>2 DEF TraceInv
<1>. QED  BY <1>1, <1>6, <1>11, <1>12

\* A step of the analysis, also as part of a pass.
LEMMA AnalysisStepSound ==
    ASSUME SoundInv, AnalysisStep, cfg' = cfg
    PROVE  SoundInv'
BY StartVisitSound, MergePredecessorSound, RunInstructionSound, EndVisitSound DEF AnalysisStep

\* Other parts of the compiler take steps, too.
LEMMA SoundStutterKeeps ==
    ASSUME SoundInv, UNCHANGED analysisVars
    PROVE  SoundInv'
BY DEF analysisVars, SoundInv, AnalysisInv, AnalysisTypeOK, WorklistInv, VisitInv, Known,
       HasVisitedPredecessor, StatusesInv, CoverInv, TraceInv, Covered

LEMMA DoneIsFixpoint ==
    ASSUME SoundInv, AnalysisDone
    PROVE  Fixpoint(cfg, result)
<1>. USE DEF SoundInv
<1>1. result \in [BlockSet(cfg) -> StatusesOf(cfg)]
  BY DEF AnalysisInv, AnalysisTypeOK, StatusesOf
<1>2. \A b : Covered(b) /\ b # NoBlock => Settled(cfg, result, b)
  BY DEF AnalysisDone, Covered
<1>3. StartBlock # NoBlock /\ \A p : NoBlock \notin Targets(cfg, p)
  BY DEF StartBlock, NoBlock, Targets
<1>. QED  BY <1>1, <1>2, <1>3 DEF CoverInv, StatusesInv, Fixpoint
-----------------------------------------------------------------------------
(***************************************************************************)
(* Execution stays within a fixpoint.  Wherever execution is in a block,   *)
(* there is a trace of the analysis through that block which ends below    *)
(* what is stored for it and describes the variables as they are.          *)
(*                                                                         *)
(* The graph g that was analysed may be a part of the one that is running: *)
(* fewer blocks and jumps, as long as execution keeps to them.             *)
(***************************************************************************)
PartOf(g, h) ==
    /\ g.variables = h.variables
    /\ BlockSet(g) \subseteq BlockSet(h)
    /\ \A b \in BlockSet(g) : g.block[b].instructions = h.block[b].instructions

LEMMA PartOfBasics ==
    ASSUME NEW g, NEW h, PartOf(g, h)
    PROVE  /\ VarSet(g) = VarSet(h) /\ Arguments(g) = Arguments(h)
           /\ \A v : VariableOf(g, v) = VariableOf(h, v)
           /\ AddressTaken(g) \subseteq AddressTaken(h)
<1>1. \A b \in BlockSet(g) : b \in BlockSet(h) /\ InstructionsOf(g, b) = InstructionsOf(h, b)
  BY DEF PartOf, InstructionsOf
<1>2. AddressTaken(g) \subseteq AddressTaken(h)
  BY <1>1 DEF AddressTaken
<1>. QED  BY <1>2 DEF PartOf, VarSet, Arguments, VariableOf

Values == {"TRUE", "FALSE", "value", "garbage", "assumed"}

Described(g, s, mem, addr) ==
    \A v \in VarSet(g) : mem[v] \in MayHold(s[v]) /\ (v \in addr => s[v] = "UNPREDICTABLE")

Within(g, r) ==
    /\ PartOf(g, running)
    /\ pc \in BlockSet(g)
    /\ ip \in 1 .. InstructionCount(g, pc) + 1
    /\ memory \in [VarSet(g) -> Values]
    /\ addressed \subseteq VarSet(g)
    /\ VarSet(g) # {} =>
        \E tr : /\ Trace(g, pc, tr, InstructionCount(g, pc))
                /\ Below(g, tr[InstructionCount(g, pc) + 1], r[pc])
                /\ Described(g, tr[ip], memory, addressed)

LEMMA MayHoldTable ==
    /\ MayHold("TRUE") = {"TRUE"}
    /\ MayHold("FALSE") = {"FALSE"}
    /\ MayHold("DEFINED") = {"TRUE", "FALSE", "value", "assumed"}
    /\ MayHold("UNDEFINED") = {"garbage", "assumed"}
    /\ MayHold("UNVISITED") = {}
    /\ MayHold("POSSIBLY_UNDEFINED") = Values
    /\ MayHold("UNPREDICTABLE") = Values
BY DEF MayHold, Garbage, Values

LEMMA DefinedValuesBound ==
    \A g, v : DefinedValues(g, v) \subseteq {"TRUE", "FALSE", "value"}
BY DEF DefinedValues

\* Knowing less never hurts.
LEMMA DescribedBelow ==
    ASSUME NEW g, NEW s \in StatusesOf(g), NEW t \in StatusesOf(g), Below(g, s, t),
           NEW mem, NEW addr, Described(g, s, mem, addr)
    PROVE  Described(g, t, mem, addr)
<1>. SUFFICES ASSUME NEW v \in VarSet(g)
              PROVE  mem[v] \in MayHold(t[v]) /\ (v \in addr => t[v] = "UNPREDICTABLE")
  BY DEF Described
<1>1. s[v] \in VarStatuses /\ t[v] \in VarStatuses /\ Leq(s[v], t[v])
  BY DEF StatusesOf, Below
<1>2. mem[v] \in MayHold(s[v]) /\ (v \in addr => s[v] = "UNPREDICTABLE")
  BY DEF Described
<1>. QED  BY <1>1, <1>2, MayHoldClimbs, LeqLaws

\* Reading gives what the status allows, and never plain garbage from a
\* variable that may have been written through a pointer.
LEMMA ReadsDescribed ==
    ASSUME NEW g, PartOf(g, running), NEW s \in StatusesOf(g), OnlyAddressed(g, s),
           Described(g, s, memory, addressed), memory \in [VarSet(g) -> Values],
           NEW x \in VarSet(g)
    PROVE  /\ Reads(x) \subseteq Values
           /\ s[x] = "UNPREDICTABLE" => Reads(x) \subseteq MayHold("DEFINED")
           /\ s[x] # "UNPREDICTABLE" => Reads(x) \subseteq MayHold(s[x])
<1>1. /\ s[x] \in VarStatuses /\ memory[x] \in MayHold(s[x]) /\ memory[x] \in Values
      /\ x \in addressed => s[x] = "UNPREDICTABLE"
      /\ s[x] = "UNPREDICTABLE" => x \in AddressTaken(running)
  BY PartOfBasics DEF StatusesOf, Described, OnlyAddressed
<1>2. CASE x \in addressed
  <2>1. Reads(x) \subseteq {"TRUE", "FALSE", "value"}
    BY <1>2, DefinedValuesBound DEF Reads
  <2>. QED  BY <1>1, <1>2, <2>1, MayHoldTable DEF Values
<1>3. CASE x \notin addressed /\ memory[x] = "garbage" /\ x \in AddressTaken(running)
  <2>1. Reads(x) = {"assumed"}
    BY <1>3 DEF Reads
  <2>2. "assumed" \in MayHold(s[x]) \/ s[x] = "UNPREDICTABLE"
    BY <1>1, <1>3, MayHoldTable DEF VarStatuses, Values
  <2>. QED  BY <2>1, <2>2, MayHoldTable DEF Values
<1>4. CASE x \notin addressed /\ ~ (memory[x] = "garbage" /\ x \in AddressTaken(running))
  <2>1. Reads(x) = {memory[x]}
    BY <1>4 DEF Reads
  <2>2. s[x] = "UNPREDICTABLE" => memory[x] # "garbage"
    BY <1>1, <1>4
  <2>. QED  BY <1>1, <2>1, <2>2, MayHoldTable DEF Values
<1>. QED  BY <1>2, <1>3, <1>4

\* One instruction: what update_statuses_with_instruction says of the
\* destination covers every value the instruction may leave there, and taking
\* an address makes the variable unpredictable.
LEMMA ExecuteDescribed ==
    ASSUME NEW g, PartOf(g, running), PointersGoToTemporaries(g), NoVar \notin VarSet(g),
           NEW b \in BlockSet(g), NEW ins \in InstructionsOf(g, b), InstructionOK(g, ins),
           NEW s \in StatusesOf(g), OnlyAddressed(g, s),
           memory \in [VarSet(g) -> Values], Described(g, s, memory, addressed),
           NEW mem, NEW addr,
           \/ ins.destvar = NoVar /\ mem = memory
           \/ /\ ins.destvar # NoVar
              /\ \E x \in Outcomes(ins) : mem = [memory EXCEPT ![ins.destvar] = x],
           addr = IF ins.kind = "ADDRESS_OF_VARIABLE" THEN addressed \cup OperandSet(ins)
                  ELSE addressed
    PROVE  /\ mem \in [VarSet(g) -> Values]
           /\ Described(g, update_statuses_with_instruction(s, ins), mem, addr)
<1>. DEFINE u == update_statuses_with_instruction(s, ins)
            d == ins.destvar
            y == ins.operands[1]
<1>1. ins.kind = "ADDRESS_OF_VARIABLE" =>
        /\ d # NoVar /\ d \notin AddressTaken(g)
        /\ y \in VarSet(g) /\ OperandSet(ins) = {y} /\ y \in AddressTaken(g)
  <2>. SUFFICES ASSUME ins.kind = "ADDRESS_OF_VARIABLE"
                PROVE  /\ d # NoVar /\ d \notin AddressTaken(g)
                       /\ y \in VarSet(g) /\ OperandSet(ins) = {y} /\ y \in AddressTaken(g)
    OBVIOUS
  <2>1. ins.operands \in Seq(VarSet(g)) /\ Len(ins.operands) = 1
    BY DEF InstructionOK
  <2>2. y \in VarSet(g) /\ OperandSet(ins) = {y}
    BY <2>1 DEF OperandSet
  <2>3. y \in AddressTaken(g)
    BY <2>2 DEF AddressTaken
  <2>. QED  BY <2>2, <2>3 DEF PointersGoToTemporaries
<1>2. ins.kind = "VARCPY" => y \in VarSet(g)
  BY DEF InstructionOK
<1>3. d \in VarSet(g) \cup {NoVar}
  BY DEF InstructionOK
<1>4. \A x \in Outcomes(ins) :
        /\ x \in Values
        /\ ins.kind = "VARCPY" =>
            x \in MayHold(IF s[y] = "UNPREDICTABLE" THEN "DEFINED" ELSE s[y])
        /\ ins.kind = "CONSTANT" /\ ins.value \in {"TRUE", "FALSE"} => x = ins.value
        /\ ins.kind \notin {"VARCPY"} /\ ~ (ins.kind = "CONSTANT" /\ ins.value \in {"TRUE", "FALSE"})
            => x \in {"TRUE", "FALSE", "value"}
  <2>1. CASE ins.kind = "VARCPY"
    <3>1. Outcomes(ins) = Reads(y)
      BY <2>1 DEF Outcomes
    <3>. QED  BY <2>1, <3>1, <1>2, ReadsDescribed
  <2>2. CASE ins.kind = "CONSTANT" /\ ins.value \in {"TRUE", "FALSE"}
    BY <2>2 DEF Outcomes, Values
  <2>3. CASE ins.kind = "BOOL_NEGATE"
    <3>1. Outcomes(ins) \subseteq {"TRUE", "FALSE"}
      BY <2>3 DEF Outcomes, Negations
    <3>. QED  BY <2>3, <3>1 DEF Values
  <2>4. CASE /\ ins.kind \notin {"VARCPY", "BOOL_NEGATE"}
             /\ ~ (ins.kind = "CONSTANT" /\ ins.value \in {"TRUE", "FALSE"})
    <3>1. Outcomes(ins) = DefinedValues(running, d)
      BY <2>4 DEF Outcomes
    <3>. QED  BY <2>4, <3>1, DefinedValuesBound DEF Values
  <2>. QED  BY <2>1, <2>2, <2>3, <2>4
<1>5. /\ mem \in [VarSet(g) -> Values]
      /\ d \in VarSet(g) => \E x \in Outcomes(ins) : mem[d] = x
      /\ \A v \in VarSet(g) \ {d} : mem[v] = memory[v]
  BY <1>3, <1>4
<1>6. ASSUME NEW v \in VarSet(g), v # d, v \notin addr \/ v \in addressed
      PROVE  mem[v] \in MayHold(s[v]) /\ (v \in addr => s[v] = "UNPREDICTABLE")
  BY <1>5, <1>6 DEF Described
<1>7. s \in [VarSet(g) -> VarStatuses]
  BY DEF StatusesOf
<1>8. CASE (d = NoVar \/ s[d] = "UNPREDICTABLE") /\ u = s
  <2>1. ins.kind # "ADDRESS_OF_VARIABLE"
    BY <1>1, <1>3, <1>8 DEF OnlyAddressed
  <2>2. d \in VarSet(g) => mem[d] \in MayHold(s[d]) /\ (d \in addr => s[d] = "UNPREDICTABLE")
    BY <1>5, <1>8, <2>1, MayHoldTable DEF Described
  <2>. QED  BY <1>5, <1>6, <1>8, <2>1, <2>2 DEF Described
<1>9. CASE /\ d \in VarSet(g) /\ s[d] # "UNPREDICTABLE"
           /\ ins.kind = "VARCPY"
           /\ u = [s EXCEPT ![d] = IF s[y] = "UNPREDICTABLE" THEN "DEFINED" ELSE s[y]]
  <2>1. mem[d] \in MayHold(u[d])
    BY <1>4, <1>5, <1>7, <1>9
  <2>2. d \notin addr /\ addr = addressed
    BY <1>9 DEF Described
  <2>3. \A v \in VarSet(g) \ {d} : u[v] = s[v]
    BY <1>7, <1>9
  <2>. QED  BY <1>5, <1>6, <2>1, <2>2, <2>3 DEF Described
<1>10. CASE /\ d \in VarSet(g) /\ s[d] # "UNPREDICTABLE"
            /\ ins.kind = "ADDRESS_OF_VARIABLE"
            /\ u = [s EXCEPT ![y] = "UNPREDICTABLE", ![d] = "DEFINED"]
  <2>1. y # d
    BY <1>1, <1>10
  <2>2. u[y] = "UNPREDICTABLE" /\ u[d] = "DEFINED"
    BY <1>1, <1>7, <1>10, <2>1
  <2>3. mem[d] \in {"TRUE", "FALSE", "value"}
    BY <1>4, <1>5, <1>10
  <2>4. d \notin addr /\ addr = addressed \cup {y}
    BY <1>1, <1>10, <2>1 DEF Described
  <2>5. \A v \in VarSet(g) \ {d, y} : u[v] = s[v]
    BY <1>7, <1>10
  <2>6. mem[y] \in MayHold(u[y]) /\ mem[d] \in MayHold(u[d])
    <3>1. mem[y] \in MayHold("UNPREDICTABLE")
      BY <1>1, <1>5, <1>10, MayHoldTable
    <3>2. mem[d] \in MayHold("DEFINED")
      BY <2>3, MayHoldTable
    <3>. QED  BY <2>2, <3>1, <3>2
  <2>. QED  BY <1>5, <1>6, <2>2, <2>4, <2>5, <2>6 DEF Described
<1>11. CASE /\ d \in VarSet(g) /\ s[d] # "UNPREDICTABLE"
            /\ ins.kind = "CONSTANT" /\ ins.value \in {"TRUE", "FALSE"}
            /\ u = [s EXCEPT ![d] = ins.value]
  <2>1. mem[d] = ins.value /\ u[d] = ins.value
    BY <1>4, <1>5, <1>7, <1>11
  <2>2. d \notin addr /\ addr = addressed
    BY <1>11 DEF Described
  <2>3. \A v \in VarSet(g) \ {d} : u[v] = s[v]
    BY <1>7, <1>11
  <2>4. mem[d] \in MayHold(u[d])
    BY <1>11, <2>1, MayHoldTable
  <2>. QED  BY <1>5, <1>6, <2>2, <2>3, <2>4 DEF Described
<1>12. CASE /\ d \in VarSet(g) /\ s[d] # "UNPREDICTABLE"
            /\ ins.kind \notin {"VARCPY", "ADDRESS_OF_VARIABLE"}
            /\ ~ (ins.kind = "CONSTANT" /\ ins.value \in {"TRUE", "FALSE"})
            /\ u = [s EXCEPT ![d] = "DEFINED"]
  <2>1. mem[d] \in {"TRUE", "FALSE", "value"} /\ u[d] = "DEFINED"
    BY <1>4, <1>5, <1>7, <1>12
  <2>2. d \notin addr /\ addr = addressed
    BY <1>12 DEF Described
  <2>3. \A v \in VarSet(g) \ {d} : u[v] = s[v]
    BY <1>7, <1>12
  <2>4. mem[d] \in MayHold(u[d])
    BY <2>1, MayHoldTable
  <2>. QED  BY <1>5, <1>6, <2>2, <2>3, <2>4 DEF Described
<1>13. \/ (d = NoVar \/ s[d] = "UNPREDICTABLE") /\ u = s
       \/ /\ d \in VarSet(g) /\ s[d] # "UNPREDICTABLE"
          /\ \/ /\ ins.kind = "VARCPY" /\ y \in VarSet(g)
                /\ u = [s EXCEPT ![d] = IF s[y] = "UNPREDICTABLE" THEN "DEFINED" ELSE s[y]]
             \/ /\ ins.kind = "ADDRESS_OF_VARIABLE" /\ y \in VarSet(g)
                /\ u = [s EXCEPT ![y] = "UNPREDICTABLE", ![d] = "DEFINED"]
             \/ /\ ins.kind = "CONSTANT" /\ ins.value \in {"TRUE", "FALSE"}
                /\ u = [s EXCEPT ![d] = ins.value]
             \/ /\ ins.kind \notin {"VARCPY", "ADDRESS_OF_VARIABLE"}
                /\ ~ (ins.kind = "CONSTANT" /\ ins.value \in {"TRUE", "FALSE"})
                /\ u = [s EXCEPT ![d] = "DEFINED"]
  BY UpdateCases
<1>. QED  BY <1>5, <1>8, <1>9, <1>10, <1>11, <1>12, <1>13

\* The call: arguments hold values, the others garbage, which is what the
\* analysis assumes of the start block.
LEMMA StartRunWithin ==
    ASSUME NEW g, NEW r, WellFormed(g), Fixpoint(g, r),
           NEW h, PartOf(g, h), StartRun(h)
    PROVE  Within(g, r)'
<1>1. /\ running' = h /\ pc' = StartBlock /\ ip' = 1 /\ addressed' = {}
      /\ StartBlock \in BlockSet(g)
      /\ InstructionCount(g, StartBlock) \in Nat
  BY InstructionCountNat DEF StartRun, WellFormed
<1>. DEFINE Flagged == {v \in Arguments(g) : VariableOf(g, v).type = <<"bool">>}
<1>2. PICK flags \in [Flagged -> {"TRUE", "FALSE"}] :
        memory' = [v \in VarSet(g) |-> IF v \in DOMAIN flags THEN flags[v]
                                       ELSE IF v \in Arguments(g) THEN "value" ELSE "garbage"]
  <2>1. VarSet(g) = VarSet(h) /\ Arguments(g) = Arguments(h)
    BY PartOfBasics
  <2>2. Flagged = {v \in Arguments(h) : VariableOf(h, v).type = <<"bool">>}
    BY <2>1, PartOfBasics
  <2>. HIDE DEF Flagged
  <2>. QED  BY <2>1, <2>2 DEF StartRun
<1>3. \A v \in VarSet(g) :
        /\ memory'[v] \in Values
        /\ memory'[v] \in MayHold(Entry(g, StartBlock, v))
  <2>. SUFFICES ASSUME NEW v \in VarSet(g)
                PROVE  memory'[v] \in Values /\ memory'[v] \in MayHold(Entry(g, StartBlock, v))
    OBVIOUS
  <2>1. CASE v \in Flagged
    <3>1. memory'[v] \in {"TRUE", "FALSE"} /\ Entry(g, StartBlock, v) = "DEFINED"
      BY <1>2, <2>1 DEF Entry
    <3>. QED  BY <3>1, MayHoldTable DEF Values
  <2>2. CASE v \in Arguments(g) \ Flagged
    <3>1. memory'[v] = "value" /\ Entry(g, StartBlock, v) = "DEFINED"
      BY <1>2, <2>2 DEF Entry
    <3>. QED  BY <3>1, MayHoldTable DEF Values
  <2>3. CASE v \notin Arguments(g)
    <3>1. memory'[v] = "garbage" /\ Entry(g, StartBlock, v) = "UNDEFINED"
      BY <1>2, <2>3 DEF Entry
    <3>. QED  BY <3>1, MayHoldTable DEF Values
  <2>. QED  BY <2>1, <2>2, <2>3
<1>4. memory' \in [VarSet(g) -> Values]
  BY <1>2, <1>3
<1>5. PICK tr : /\ Trace(g, StartBlock, tr, InstructionCount(g, StartBlock))
                /\ Entered(g, r, StartBlock, tr[1], Predecessors(g, StartBlock))
                /\ Below(g, tr[InstructionCount(g, StartBlock) + 1], r[StartBlock])
  BY DEF Fixpoint, Settled
<1>6. Described(g, tr[1], memory', {})
  <2>. SUFFICES ASSUME NEW v \in VarSet(g) PROVE memory'[v] \in MayHold(tr[1][v])
    BY DEF Described
  <2>1. tr[1][v] \in VarStatuses
    BY <1>1, <1>5 DEF Trace, StatusesOf
  <2>2. Entry(g, StartBlock, v) \in VarStatuses /\ Leq(Entry(g, StartBlock, v), tr[1][v])
    BY <1>5 DEF Entered, Entry, VarStatuses
  <2>. QED  BY <1>3, <2>1, <2>2, MayHoldClimbs
<1>7. 1 \in 1 .. InstructionCount(g, StartBlock) + 1
  BY <1>1
<1>8. PartOf(g, running)'
  BY <1>1 DEF PartOf
<1>. QED  BY <1>1, <1>4, <1>5, <1>6, <1>7, <1>8 DEF Within

LEMMA ExecuteWithin ==
    ASSUME NEW g, NEW r, WellFormed(g), PointersGoToTemporaries(g), Within(g, r), Execute
    PROVE  Within(g, r)'
<1>. DEFINE ins == g.block[pc].instructions[ip]
<1>1. /\ PartOf(g, running) /\ pc \in BlockSet(g)
      /\ g.block[pc].instructions = running.block[pc].instructions
      /\ InstructionCount(g, pc) \in Nat
      /\ ip \in 1 .. InstructionCount(g, pc)
  BY InstructionCountNat DEF Within, PartOf, Execute, Executing, BlockEnded, InstructionCount
<1>2. ins \in InstructionsOf(g, pc) /\ InstructionOK(g, ins) /\ Current = ins
  BY <1>1, InstructionCountNat DEF Current
<1>3. /\ \/ ins.destvar = NoVar /\ memory' = memory
         \/ /\ ins.destvar # NoVar
            /\ \E x \in Outcomes(ins) : memory' = [memory EXCEPT ![ins.destvar] = x]
      /\ addressed' = IF ins.kind = "ADDRESS_OF_VARIABLE" THEN addressed \cup OperandSet(ins)
                      ELSE addressed
      /\ ip' = ip + 1 /\ running' = running /\ pc' = pc /\ PartOf(g, running)'
  BY <1>1, <1>2 DEF Execute, PartOf
<1>4. addressed' \subseteq VarSet(g)
  BY <1>2, <1>3 DEF Within, InstructionOK, OperandSet
<1>5. NoVar \notin VarSet(g)
  BY DEF WellFormed
<1>6. CASE VarSet(g) = {}
  <2>1. ins.destvar = NoVar
    BY <1>2, <1>6 DEF InstructionOK
  <2>. QED  BY <1>1, <1>3, <1>4, <1>6, <2>1 DEF Within
<1>7. CASE VarSet(g) # {}
  <2>1. PICK tr : /\ Trace(g, pc, tr, InstructionCount(g, pc))
                  /\ Below(g, tr[InstructionCount(g, pc) + 1], r[pc])
                  /\ Described(g, tr[ip], memory, addressed)
    BY <1>7 DEF Within
  <2>2. /\ tr[ip] \in StatusesOf(g) /\ OnlyAddressed(g, tr[ip])
        /\ tr[ip + 1] = update_statuses_with_instruction(tr[ip], ins)
    BY <1>1, <2>1 DEF Trace
  <2>3. memory \in [VarSet(g) -> Values]
    BY DEF Within
  <2>. HIDE DEF ins
  <2>4. /\ memory' \in [VarSet(g) -> Values]
        /\ Described(g, tr[ip + 1], memory', addressed')
    BY <1>1, <1>2, <1>3, <1>5, <2>1, <2>2, <2>3, ExecuteDescribed
  <2>5. ip + 1 \in 1 .. InstructionCount(g, pc) + 1
    BY <1>1
  <2>. QED  BY <1>1, <1>3, <1>4, <2>1, <2>4, <2>5 DEF Within
<1>. QED  BY <1>6, <1>7

\* At the end of a block the variables are what the stored statuses say.
LEMMA BlockEndDescribed ==
    ASSUME NEW g, NEW r, WellFormed(g), Fixpoint(g, r), Within(g, r), BlockEnded
    PROVE  Described(g, r[pc], memory, addressed)
<1>1. CASE VarSet(g) = {}
  BY <1>1 DEF Described
<1>2. CASE VarSet(g) # {}
  <2>1. PICK tr : /\ Trace(g, pc, tr, InstructionCount(g, pc))
                  /\ Below(g, tr[InstructionCount(g, pc) + 1], r[pc])
                  /\ Described(g, tr[ip], memory, addressed)
    BY <1>2 DEF Within
  <2>2. ip = InstructionCount(g, pc) + 1 /\ pc \in BlockSet(g) /\ InstructionCount(g, pc) \in Nat
    BY InstructionCountNat DEF Within, PartOf, BlockEnded, InstructionCount
  <2>3. tr[ip] \in StatusesOf(g) /\ r[pc] \in StatusesOf(g)
    BY <2>1, <2>2 DEF Trace, Fixpoint
  <2>. QED  BY <2>1, <2>2, <2>3, DescribedBelow
<1>. QED  BY <1>1, <1>2

\* A jump of the graph that is running.
LEMMA JumpFollows ==
    ASSUME WellFormed(running), pc \in BlockSet(running), Jump
    PROVE  pc' \in Targets(running, pc) /\ pc' \in BlockSet(running)
<1>1. pc \in BlockSet(running) /\ pc # EndBlock
      /\ pc' \in {running.block[pc].iftrue, running.block[pc].iffalse}
  BY DEF Jump
<1>. QED  BY <1>1 DEF WellFormed, BlockOK, Targets

LEMMA JumpWithin ==
    ASSUME NEW g, NEW r, WellFormed(g), Fixpoint(g, r), Within(g, r),
           Jump, pc' \in Targets(g, pc)
    PROVE  Within(g, r)'
<1>1. /\ PartOf(g, running)' /\ pc \in BlockSet(g) /\ BlockEnded
      /\ ip' = 1 /\ UNCHANGED <<running, memory, addressed>>
  BY DEF Jump, Within, PartOf
<1>2. pc' \in BlockSet(g)
  BY <1>1 DEF WellFormed, BlockOK, Targets
<1>3. InstructionCount(g, pc') \in Nat
  BY <1>2, InstructionCountNat
<1>4. CASE VarSet(g) = {}
  BY <1>1, <1>2, <1>3, <1>4 DEF Within
<1>5. CASE VarSet(g) # {}
  <2>1. Described(g, r[pc], memory, addressed)
    BY <1>1, BlockEndDescribed
  <2>2. Visited(g, r, pc)
    <3>1. PICK v \in VarSet(g) : TRUE
      BY <1>5
    <3>2. memory[v] \in MayHold(r[pc][v])
      BY <2>1 DEF Described
    <3>. QED  BY <3>2, MayHoldTable DEF Visited
  <2>3. PICK tr : /\ Trace(g, pc', tr, InstructionCount(g, pc'))
                  /\ Entered(g, r, pc', tr[1], Predecessors(g, pc'))
                  /\ Below(g, tr[InstructionCount(g, pc') + 1], r[pc'])
    BY <1>1, <2>2 DEF Fixpoint, Settled
  <2>4. pc \in Predecessors(g, pc')
    BY <1>1, <1>2 DEF Predecessors
  <2>5. tr[1] \in StatusesOf(g) /\ r[pc] \in StatusesOf(g)
    BY <1>1, <1>3, <2>3 DEF Trace, Fixpoint
  <2>6. Described(g, tr[1], memory, addressed)
    BY <2>1, <2>3, <2>4, <2>5, DescribedBelow DEF Entered
  <2>7. 1 \in 1 .. InstructionCount(g, pc') + 1
    BY <1>3
  <2>. QED  BY <1>1, <1>2, <2>3, <2>6, <2>7 DEF Within
<1>. QED  BY <1>4, <1>5

LEMMA RunStepWithin ==
    ASSUME NEW g, NEW r, WellFormed(g), PointersGoToTemporaries(g), Fixpoint(g, r),
           Within(g, r), RunStep, Jump => pc' \in Targets(g, pc)
    PROVE  Within(g, r)'
BY ExecuteWithin, JumpWithin DEF RunStep
=============================================================================
