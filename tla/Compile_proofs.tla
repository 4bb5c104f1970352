--------------------------- MODULE Compile_proofs ---------------------------
(***************************************************************************)
(* What simplify_cfg leaves of a function, for every function the checker  *)
(* may let through: exactly the code that can be reached, every jump an    *)
(* execution takes, a verdict on the return value that executions bear     *)
(* out, a graph the code generator can work on, a warning for every use of *)
(* a variable that nothing sets, and one for every piece of unreachable    *)
(* code.                                                                   *)
(*                                                                         *)
(* Three facts carry the argument from one pass to the next.  Branches are *)
(* cut by a fixpoint of the graph as it was built, which describes every   *)
(* execution of it; so no execution notices the cut.  What is left after   *)
(* the removal of blocks is closed under jumps; so its analysis describes  *)
(* the same executions once more.  And what the builder knows to be set    *)
(* where a block is entered is set in a block that is left; so the removal *)
(* of variables keeps those that branches look at.                         *)
(***************************************************************************)
EXTENDS Compile, Temporaries_proofs, DetermineVarStatuses_proofs

IsGraph(g) ==
    g = [all_blocks |-> g.all_blocks, block |-> g.block, variables |-> g.variables]

\* What build_function returns for f, as far as the simplifier relies on it.
SoundGraph(f, g) ==
    /\ WellFormed(g) /\ PointersGoToTemporaries(g)
    /\ IsGraph(g)
    /\ List(g.all_blocks) /\ DOMAIN g.block = BlockSet(g)
    /\ \A b \in BlockSet(g) :
            DOMAIN g.block[b] = {"instructions", "branchvar", "iftrue", "iffalse"}
    /\ List(f.variables) /\ List(g.variables) /\ Len(f.variables) <= Len(g.variables)
    /\ \A i \in DOMAIN g.variables : g.variables[i].id = i
    /\ \A i \in DOMAIN f.variables : g.variables[i] = f.variables[i]
    /\ \A i, j \in DOMAIN f.variables :
            i < j /\ f.variables[j].is_argument => f.variables[i].is_argument
    /\ ReturnSlots(g) \cap AddressTaken(g) = {}
    /\ \A v, w \in ReturnSlots(g) : v = w
    /\ ReturnSlots(g) # {} => f.returntype # NoType

\* There is a graph, and the simplifier has it or has had it.
Compiling == phase # "build" /\ build_error = ""
WalkingBlocks == {"clean_jumps", "reachability", "group", "show"}
BlocksGone == {"missing_return", "unused", "remove_vars", "undefined", "scan", "done", "failed"}
VariablesGone == {"remove_vars", "undefined", "scan", "done"}

LinkInv ==
    /\ BuildInv
    /\ phase \in WalkingBlocks \cup BlocksGone \cup {"build", "remove_blocks"}
    /\ build_error # "" => agenda # <<>> /\ phase \in {"build", "failed"}
    /\ returntype_line = IF function.returntype = NoType THEN 0 ELSE function.line
    /\ Compiling => BuildDone /\ built = BuiltCfg
    /\ ~Compiling => pc = NoBlock
    /\ List(warnings)

\* h has the blocks of g, and branches were cut only where statuses r of
\* their condition decide them.
Cut(g, r, h) ==
    /\ DOMAIN h.block = DOMAIN g.block
    /\ \A b \in DOMAIN g.block :
        /\ h.block[b].instructions = g.block[b].instructions
        /\ h.block[b].branchvar = g.block[b].branchvar
        /\ \/ h.block[b].iftrue = g.block[b].iftrue
           \/ /\ Conditional(g, b) /\ r[b][g.block[b].branchvar] = "FALSE"
              /\ h.block[b].iftrue = g.block[b].iffalse
        /\ \/ h.block[b].iffalse = g.block[b].iffalse
           \/ /\ Conditional(g, b) /\ r[b][g.block[b].branchvar] = "TRUE"
              /\ h.block[b].iffalse = g.block[b].iftrue
JumpsInv ==
    Compiling =>
        /\ IsGraph(cfg)
        /\ phase = "clean_jumps" => cfg = built
        /\ phase # "clean_jumps" =>
            \E r : /\ Fixpoint(built, r) /\ Cut(built, r, cfg)
                   /\ pc # NoBlock => Within(built, r)

\* The search for reachable blocks: T is what it has marked, q its stack.
Searched(g, h, T, q) ==
    /\ T \subseteq BlockSet(g) /\ q \in Seq(BlockSet(g))
    /\ StartBlock \in T \cup ToSet(q)
    /\ \A b \in T : Targets(h, b) \subseteq T \cup ToSet(q)
    /\ \A S \in SUBSET BlockSet(g) :
        StartBlock \in S /\ (\A b \in S : Targets(h, b) \subseteq S) => T \cup ToSet(q) \subseteq S
SearchInv ==
    Compiling /\ phase # "clean_jumps" =>
        /\ Searched(built, cfg, reachable, todo)
        /\ phase # "reachability" => todo = <<>>

\* The list of blocks, which loses those that were not marked.
BlocksInv ==
    Compiling =>
        /\ List(cfg.all_blocks) /\ cfg.all_blocks # <<>> /\ cfg.all_blocks[1] = StartBlock
        /\ BlockSet(cfg) \subseteq BlockSet(built)
        /\ phase \in WalkingBlocks => cfg.all_blocks = built.all_blocks
        /\ phase \notin WalkingBlocks => reachable \cup {EndBlock} \subseteq BlockSet(cfg)
        /\ phase = "remove_blocks" =>
            /\ at \in 0 .. Len(cfg.all_blocks)
            /\ \A i \in 1 .. Len(cfg.all_blocks) : i > at => ~ShouldGo(cfg.all_blocks[i])
        /\ phase \in BlocksGone => BlockSet(cfg) \subseteq reachable \cup {EndBlock}

\* The list of variables, which keeps the arguments in front.
VariablesInv ==
    Compiling =>
        /\ List(cfg.variables)
        /\ phase \notin VariablesGone => cfg.variables = built.variables
        /\ phase = "remove_vars" => at \in 0 .. Len(cfg.variables)
        /\ \A i \in DOMAIN function.variables : function.variables[i].is_argument =>
            i \in DOMAIN cfg.variables /\ cfg.variables[i] = function.variables[i]

\* What the statuses of the variables refer to: the graph before variables
\* are removed from it.
Pruned == [all_blocks |-> cfg.all_blocks, block |-> cfg.block, variables |-> built.variables]

AnalysesInv == Compiling /\ phase \in {"clean_jumps", "missing_return"} => SoundInv

\* The verdict on the return value v, from what q says of it at the end.
Verdict(q, v) ==
    IF phase = "failed" THEN q[EndBlock][v] = "UNDEFINED"
    ELSE /\ q[EndBlock][v] # "UNDEFINED"
         /\ q[EndBlock][v] = "POSSIBLY_UNDEFINED" =>
                Warned("doesn't seem to return a value in all cases") # {}
ReturnInv ==
    Compiling /\ (phase = "failed" \/ (returntype_line # 0 /\ phase \in VariablesGone \cup {"unused"})) =>
        \E q, v : /\ Fixpoint(Pruned, q) /\ v \in ReturnSlots(built) /\ Verdict(q, v)
                  /\ pc # NoBlock => Within(Pruned, q)

\* A run is one of the graph as it was built, and stays in what is left of it.
RunInv ==
    pc # NoBlock => /\ phase \in {"done", "failed"}
                    /\ running = built /\ pc \in BlockSet(cfg)

CompileInv ==
    /\ LinkInv /\ JumpsInv /\ SearchInv /\ BlocksInv /\ VariablesInv
    /\ AnalysesInv /\ ReturnInv /\ RunInv
-----------------------------------------------------------------------------
LEMMA SlotsByName ==
    ASSUME NEW g, \A i \in DOMAIN g.variables : g.variables[i].id = i
    PROVE  ReturnSlots(g) = {i \in DOMAIN g.variables : g.variables[i].name = "return"}
BY DEF ReturnSlots

LEMMA BuiltIsSound ==
    ASSUME BuildInv, BuildDone, NEW g, g = BuiltCfg
    PROVE  SoundGraph(function, g)
<1>1. StateFits(function, st) /\ function \in Functions
  BY NothingIsLeft
<1>2. /\ BlockSet(g) = DOMAIN st.block /\ VarSet(g) = VariablesIn(st)
      /\ g.block = st.block /\ g.variables = st.variables
      /\ g.all_blocks = [i \in DOMAIN st.block |-> i]
      /\ \A v \in VariablesIn(st) : VariableOf(g, v) = st.variables[v]
  BY <1>1, BuiltParts
<1>3. WellFormed(g)
  BY BuiltWellFormed
<1>4. PointersGoToTemporaries(g)
  BY BuiltPointers DEF PointersGoToTemporaries, AddressTaken
<1>5. IsGraph(g)
  BY DEF BuiltCfg, IsGraph
<1>6. List(g.all_blocks)
  <2>1. DOMAIN st.block = 1 .. Len(st.block) /\ Len(st.block) \in Nat
    BY <1>1, Lengths
  <2>2. ToSet(g.all_blocks) = 1 .. Len(st.block)
    BY <1>2, <2>1 DEF ToSet
  <2>. QED  BY <1>2, <2>1, <2>2 DEF List
<1>7. \A b \in BlockSet(g) : DOMAIN g.block[b] = {"instructions", "branchvar", "iftrue", "iffalse"}
  BY <1>1, <1>2 DEF StateFits, BlocksFit
<1>8. /\ List(function.variables) /\ List(g.variables) /\ Len(function.variables) <= Len(g.variables)
      /\ \A i \in DOMAIN g.variables : g.variables[i].id = i
      /\ \A i \in DOMAIN function.variables : g.variables[i] = function.variables[i]
      /\ \A i \in DOMAIN g.variables : i > Len(function.variables) => g.variables[i].name = ""
  <2>1. DOMAIN g.variables = VariablesIn(st) /\ VariablesFit(function, st)
    BY <1>1, <1>2, Lengths DEF StateFits, VariablesIn
  <2>. QED  BY <1>2, <2>1 DEF VariablesFit
<1>9. VariablesOK(function)
  BY <1>1, FunctionsAssumption DEF FunctionOK
<1>10. /\ \A i, j \in DOMAIN function.variables :
            i < j /\ function.variables[j].is_argument => function.variables[i].is_argument
       /\ \A i, j \in DOMAIN function.variables :
            function.variables[i].name = function.variables[j].name => i = j
       /\ HasVariable(function, "return") => function.returntype # NoType
  BY <1>9 DEF VariablesOK
<1>11. DOMAIN g.variables = 1 .. Len(g.variables) /\ DOMAIN function.variables = 1 .. Len(function.variables)
       /\ Len(function.variables) \in Nat /\ Len(g.variables) \in Nat
  BY <1>1, <1>2, Lengths
<1>12. \A v \in ReturnSlots(g) : v \in DOMAIN function.variables /\ function.variables[v].name = "return"
  <2>. SUFFICES ASSUME NEW i \in DOMAIN g.variables, g.variables[i].name = "return"
                PROVE  i \in DOMAIN function.variables /\ function.variables[i].name = "return"
    <3>1. \A v \in ReturnSlots(g) : v \in DOMAIN g.variables /\ g.variables[v].name = "return"
      BY <1>8, SlotsByName
    <3>. QED  BY <3>1
  <2>1. ~ (i > Len(function.variables))
    BY <1>8
  <2>2. i \in DOMAIN function.variables
    BY <2>1, <1>11
  <2>. QED  BY <1>8, <2>2
<1>13. ReturnSlots(g) # {} => function.returntype # NoType
  BY <1>10, <1>12 DEF HasVariable
<1>14. \A v, w \in ReturnSlots(g) : v = w
  BY <1>10, <1>12
<1>15. ReturnSlots(g) \cap AddressTaken(g) = {}
  <2>. SUFFICES ASSUME NEW v \in ReturnSlots(g), v \in AddressTaken(g) PROVE FALSE
    OBVIOUS
  <2>1. PICK b \in BlockSet(g) : \E ins \in InstructionsOf(g, b) :
            ins.kind = "ADDRESS_OF_VARIABLE" /\ v \in OperandSet(ins)
    BY DEF AddressTaken
  <2>2. Addressable(function, v)
    BY <2>1, BuiltPointers
  <2>. QED  BY <2>2, <1>12 DEF Addressable
<1>16. DOMAIN g.block = BlockSet(g)
  BY <1>2
<1>. QED  BY ONLY <1>3, <1>4, <1>5, <1>6, <1>7, <1>8, <1>10, <1>13, <1>14, <1>15, <1>16 DEF SoundGraph
-----------------------------------------------------------------------------
\* What is left of the jumps of g.
Narrowed(g, h) ==
    /\ \A b \in BlockSet(g) :
        /\ h.block[b].instructions = g.block[b].instructions
        /\ h.block[b].branchvar = g.block[b].branchvar
        /\ InstructionsOf(h, b) = InstructionsOf(g, b)
        /\ Targets(h, b) \subseteq Targets(g, b)
        /\ Conditional(h, b) => Conditional(g, b)
        /\ b # EndBlock => /\ h.block[b].iftrue \in BlockSet(g) /\ h.block[b].iffalse \in BlockSet(g)
                           /\ Targets(h, b) = {h.block[b].iftrue, h.block[b].iffalse}
        /\ Targets(h, b) \subseteq BlockSet(g)
    /\ Targets(h, EndBlock) = {}

LEMMA CutNarrows ==
    ASSUME NEW f, NEW g, NEW r, NEW h, SoundGraph(f, g), Cut(g, r, h)
    PROVE  Narrowed(g, h)
<1>1. WellFormed(g) /\ DOMAIN g.block = BlockSet(g)
  BY DEF SoundGraph
<1>2. NoBlock \notin BlockSet(g) /\ Targets(g, EndBlock) = {} /\ EndBlock \in BlockSet(g)
  BY <1>1 DEF WellFormed
<1>3. \A b \in BlockSet(g) : BlockOK(g, b)
  BY <1>1 DEF WellFormed
<1>4. ASSUME NEW b \in BlockSet(g)
      PROVE  /\ h.block[b].instructions = g.block[b].instructions
             /\ h.block[b].branchvar = g.block[b].branchvar
             /\ {h.block[b].iftrue, h.block[b].iffalse} \subseteq {g.block[b].iftrue, g.block[b].iffalse}
             /\ Conditional(h, b) => Conditional(g, b)
  BY <1>1, <1>4 DEF Cut, Conditional
<1>5. \A b \in BlockSet(g) : InstructionsOf(h, b) = InstructionsOf(g, b)
  BY <1>4 DEF InstructionsOf
<1>6. \A b \in BlockSet(g) : Targets(h, b) \subseteq Targets(g, b)
  BY <1>4 DEF Targets
<1>7. \A b \in BlockSet(g) : b # EndBlock => g.block[b].iftrue \in BlockSet(g) /\ g.block[b].iffalse \in BlockSet(g)
  BY <1>3 DEF BlockOK
<1>8. \A b \in BlockSet(g) : b # EndBlock => h.block[b].iftrue \in BlockSet(g) /\ h.block[b].iffalse \in BlockSet(g)
  BY <1>4, <1>7
<1>9. \A b \in BlockSet(g) : b # EndBlock => Targets(h, b) = {h.block[b].iftrue, h.block[b].iffalse}
  BY <1>2, <1>8 DEF Targets
<1>10. \A b \in BlockSet(g) : Targets(h, b) \subseteq BlockSet(g)
  BY <1>2, <1>6, <1>8, <1>9
<1>11. Targets(h, EndBlock) = {}
  BY <1>2, <1>6
<1>. QED  BY <1>4, <1>5, <1>6, <1>8, <1>9, <1>10, <1>11 DEF Narrowed

\* clean_jumps_where_condition_always_true_or_always_false cuts by the
\* statuses the analysis has just found.
LEMMA CleaningCuts ==
    ASSUME NEW f, SoundGraph(f, cfg), CleanJumps, NEW g, NEW r, NEW h, g = cfg, r = result, h = cfg'
    PROVE  /\ Cut(g, r, h)
           /\ IsGraph(h) /\ h.all_blocks = g.all_blocks /\ h.variables = g.variables
<1>1. /\ IsGraph(g) /\ DOMAIN g.block = BlockSet(g)
      /\ \A b \in BlockSet(g) :
            DOMAIN g.block[b] = {"instructions", "branchvar", "iftrue", "iffalse"}
  BY DEF SoundGraph
<1>2. h = [g EXCEPT !.block = [b \in DOMAIN g.block |-> CleanedBlock(b)]]
  BY DEF CleanJumps
<1>3. /\ IsGraph(h) /\ h.all_blocks = g.all_blocks /\ h.variables = g.variables
      /\ h.block = [b \in DOMAIN g.block |-> CleanedBlock(b)]
  BY <1>1, <1>2 DEF IsGraph
<1>4. ASSUME NEW b \in DOMAIN g.block
      PROVE  /\ h.block[b].instructions = g.block[b].instructions
             /\ h.block[b].branchvar = g.block[b].branchvar
             /\ \/ h.block[b].iftrue = g.block[b].iftrue
                \/ /\ Conditional(g, b) /\ r[b][g.block[b].branchvar] = "FALSE"
                   /\ h.block[b].iftrue = g.block[b].iffalse
             /\ \/ h.block[b].iffalse = g.block[b].iffalse
                \/ /\ Conditional(g, b) /\ r[b][g.block[b].branchvar] = "TRUE"
                   /\ h.block[b].iffalse = g.block[b].iftrue
  <2>1. h.block[b] = CleanedBlock(b)
    BY <1>3
  <2>2. PICK block : block = g.block[b]
    OBVIOUS
  <2>3. DOMAIN block = {"instructions", "branchvar", "iftrue", "iffalse"}
    BY <1>1, <2>2
  <2>4. \/ CleanedBlock(b) = block
        \/ /\ Conditional(g, b) /\ r[b][block.branchvar] = "TRUE"
           /\ CleanedBlock(b) = [block EXCEPT !.iffalse = block.iftrue]
        \/ /\ Conditional(g, b) /\ r[b][block.branchvar] = "FALSE"
           /\ CleanedBlock(b) = [block EXCEPT !.iftrue = block.iffalse]
    BY <2>2 DEF CleanedBlock
  <2>. QED  BY <2>1, <2>2, <2>3, <2>4
<1>5. DOMAIN h.block = DOMAIN g.block
  BY <1>3
<1>. QED  BY <1>3, <1>4, <1>5 DEF Cut
-----------------------------------------------------------------------------
LEMMA FrontAndLast ==
    ASSUME NEW X, NEW q \in Seq(X), q # << >>
    PROVE  /\ Front(q) \in Seq(X) /\ Last(q) \in X /\ List(Front(q)) /\ List(q)
           /\ ToSet(q) = ToSet(Front(q)) \cup {Last(q)}
<1>1. /\ Len(q) \in Nat \ {0} /\ DOMAIN q = 1 .. Len(q)
      /\ Front(q) = [i \in 1 .. Len(q) - 1 |-> q[i]] /\ Last(q) = q[Len(q)]
  BY DEF Front, Last
<1>2. \A i \in 1 .. Len(q) : q[i] \in X
  OBVIOUS
<1>3. ToSet(q) = ToSet(Front(q)) \cup {Last(q)}
  <2>1. DOMAIN Front(q) = 1 .. Len(q) - 1
    BY <1>1
  <2>2. 1 .. Len(q) = (1 .. Len(q) - 1) \cup {Len(q)}
    BY <1>1
  <2>. QED  BY <1>1, <2>1, <2>2 DEF ToSet
<1>4. Front(q) \in Seq(X) /\ Last(q) \in X
  BY FrontLastSeq
<1>5. \A s \in Seq(X) : List(s)
  <2>. SUFFICES ASSUME NEW s \in Seq(X) PROVE s \in Seq(ToSet(s))
    BY DEF List
  <2>1. \A i \in 1 .. Len(s) : s[i] \in ToSet(s)
    BY DEF ToSet
  <2>. QED  BY <2>1, SeqOver
<1>. QED  BY <1>3, <1>4, <1>5

LEMMA SearchStarts ==
    ASSUME NEW f, NEW g, NEW h, SoundGraph(f, g)
    PROVE  Searched(g, h, {}, <<StartBlock>>)
<1>1. StartBlock \in BlockSet(g)
  BY DEF SoundGraph, WellFormed
<1>2. PICK q : q = <<StartBlock>>
  OBVIOUS
<1>3. q \in Seq(BlockSet(g)) /\ ToSet(q) = {StartBlock}
  BY <1>1, <1>2, ShortLists, SingletonSeq
<1>4. Searched(g, h, {}, q)
  BY <1>3 DEF Searched
<1>. QED  BY <1>2, <1>4

\* One round of the search.
LEMMA SearchGoesOn ==
    ASSUME NEW g, NEW h, Narrowed(g, h), NEW T, NEW q, Searched(g, h, T, q), q # << >>,
           NEW s, s = IF Last(q) \in T \/ Last(q) = EndBlock THEN << >>
                      ELSE <<h.block[Last(q)].iftrue, h.block[Last(q)].iffalse>>,
           NEW R, R = T \cup {Last(q)}, NEW p, p = Front(q) \o s
    PROVE  Searched(g, h, R, p)
<1>. DEFINE b == Last(q)
<1>1. /\ T \subseteq BlockSet(g) /\ q \in Seq(BlockSet(g))
      /\ StartBlock \in T \cup ToSet(q)
      /\ \A a \in T : Targets(h, a) \subseteq T \cup ToSet(q)
      /\ \A S \in SUBSET BlockSet(g) :
            StartBlock \in S /\ (\A a \in S : Targets(h, a) \subseteq S) => T \cup ToSet(q) \subseteq S
  BY DEF Searched
<1>2. /\ Front(q) \in Seq(BlockSet(g)) /\ b \in BlockSet(g) /\ List(Front(q))
      /\ ToSet(q) = ToSet(Front(q)) \cup {b}
  BY <1>1, FrontAndLast
<1>3. /\ s \in Seq(BlockSet(g)) /\ List(s)
      /\ ToSet(s) = IF b \in T \/ b = EndBlock THEN {} ELSE Targets(h, b)
  <2>1. CASE b \in T \/ b = EndBlock
    <3>1. s = << >>
      BY <2>1
    <3>2. << >> \in Seq(BlockSet(g))
      OBVIOUS
    <3>. QED  BY ONLY <2>1, <3>1, <3>2, ShortLists
  <2>2. CASE ~ (b \in T \/ b = EndBlock)
    <3>1. PICK x, y : x = h.block[b].iftrue /\ y = h.block[b].iffalse
      OBVIOUS
    <3>2. x \in BlockSet(g) /\ y \in BlockSet(g) /\ Targets(h, b) = {x, y}
      BY <1>2, <2>2, <3>1 DEF Narrowed
    <3>3. s = <<x, y>>
      BY <2>2, <3>1
    <3>4. s \in Seq(BlockSet(g))
      BY <3>2, <3>3
    <3>. QED  BY <2>2, <3>2, <3>3, <3>4, ShortLists
  <2>. QED  BY <2>1, <2>2
<1>. HIDE DEF b
<1>4. p \in Seq(BlockSet(g)) /\ ToSet(p) = ToSet(Front(q)) \cup ToSet(s)
  BY <1>2, <1>3, ConcatList, ConcatSeq
<1>5. R = T \cup {b}
  BY DEF b
<1>6. R \cup ToSet(p) = T \cup ToSet(q) \cup ToSet(s)
  BY <1>2, <1>4, <1>5
<1>7. \A a \in R : Targets(h, a) \subseteq R \cup ToSet(p)
  <2>1. Targets(h, EndBlock) = {}
    BY DEF Narrowed
  <2>2. Targets(h, b) \subseteq T \cup ToSet(q) \cup ToSet(s)
    BY <1>1, <1>3, <2>1
  <2>. QED  BY <1>1, <1>5, <1>6, <2>2
<1>8. \A S \in SUBSET BlockSet(g) :
            StartBlock \in S /\ (\A a \in S : Targets(h, a) \subseteq S) => R \cup ToSet(p) \subseteq S
  <2>. SUFFICES ASSUME NEW S \in SUBSET BlockSet(g),
                       StartBlock \in S /\ (\A a \in S : Targets(h, a) \subseteq S)
                PROVE  R \cup ToSet(p) \subseteq S
    OBVIOUS
  <2>1. T \cup ToSet(q) \subseteq S
    BY <1>1
  <2>2. ToSet(s) \subseteq S
    BY <1>2, <1>3, <2>1
  <2>. QED  BY <1>6, <2>1, <2>2
<1>9. R \subseteq BlockSet(g) /\ StartBlock \in R \cup ToSet(p)
  BY <1>1, <1>2, <1>5, <1>6
<1>. QED  BY <1>4, <1>7, <1>8, <1>9 DEF Searched

\* Only the jumps of h matter.
LEMMA SameJumpsSearched ==
    ASSUME NEW g, NEW h, NEW k, k.block = h.block
    PROVE  /\ \A T, q : Searched(g, h, T, q) => Searched(g, k, T, q)
           /\ Narrowed(g, h) => Narrowed(g, k)
           /\ \A r : Cut(g, r, h) => Cut(g, r, k)
           /\ \A b : Targets(k, b) = Targets(h, b)
<1>1. \A b : /\ Targets(k, b) = Targets(h, b)
             /\ Conditional(k, b) <=> Conditional(h, b)
             /\ InstructionsOf(k, b) = InstructionsOf(h, b)
  BY DEF Targets, Conditional, InstructionsOf
<1>2. \A T, q : Searched(g, h, T, q) => Searched(g, k, T, q)
  BY <1>1 DEF Searched
<1>3. Narrowed(g, h) => Narrowed(g, k)
  BY <1>1 DEF Narrowed
<1>4. \A r : Cut(g, r, h) => Cut(g, r, k)
  BY DEF Cut
<1>. QED  BY <1>1, <1>2, <1>3, <1>4
-----------------------------------------------------------------------------
\* list.ptr[i] = Pop(&list).
LEMMA SwapRemoveList ==
    ASSUME NEW q, List(q), NEW i \in 1 .. Len(q), NEW r, r = SwapRemove(q, i)
    PROVE  /\ List(r) /\ Len(r) = Len(q) - 1
           /\ \A j \in 1 .. Len(r) : r[j] = IF j = i THEN q[Len(q)] ELSE q[j]
           /\ ToSet(r) \subseteq ToSet(q) /\ ToSet(q) \subseteq ToSet(r) \cup {q[i]}
<1>1. Len(q) \in Nat /\ DOMAIN q = 1 .. Len(q)
  BY DEF List
<1>2. r = [j \in 1 .. Len(q) - 1 |-> IF j = i THEN q[Len(q)] ELSE q[j]]
  BY DEF SwapRemove
<1>3. Len(q) - 1 \in Nat
  BY <1>1
<1>4. /\ DOMAIN r = 1 .. Len(q) - 1
      /\ \A j \in 1 .. Len(q) - 1 : r[j] = IF j = i THEN q[Len(q)] ELSE q[j]
  BY <1>2
<1>5. \A j \in 1 .. Len(q) - 1 : r[j] \in ToSet(r)
  BY <1>4 DEF ToSet
<1>6. r = [j \in 1 .. Len(q) - 1 |-> r[j]]
  BY <1>2, <1>4
<1>7. r \in Seq(ToSet(r)) /\ Len(r) = Len(q) - 1
  <2>1. PICK n \in Nat : n = Len(q) - 1
    BY <1>3
  <2>2. PICK R : R = ToSet(r)
    OBVIOUS
  <2>3. \A j \in 1 .. n : r[j] \in R
    BY <1>5, <2>1, <2>2
  <2>4. r = [j \in 1 .. n |-> r[j]]
    BY <1>6, <2>1
  <2>5. r \in Seq(R) /\ Len(r) = n
    BY ONLY <2>3, <2>4, n \in Nat
  <2>. QED  BY <2>1, <2>2, <2>5
<1>8. ToSet(r) \subseteq ToSet(q)
  BY <1>1, <1>4 DEF ToSet
<1>10. \A n \in Nat : \A k \in 1 .. n : k # n => k \in 1 .. n - 1
  OBVIOUS
<1>9. ToSet(q) \subseteq ToSet(r) \cup {q[i]}
  <2>. SUFFICES ASSUME NEW j \in 1 .. Len(q), j # i PROVE q[j] \in ToSet(r)
    BY <1>1 DEF ToSet
  <2>1. CASE j = Len(q)
    <3>1. i \in 1 .. Len(q) - 1
      BY <1>1, <1>10, <2>1, Zenon
    <3>2. r[i] = q[j]
      BY <1>4, <2>1, <3>1
    <3>. QED  BY <1>5, <3>1, <3>2
  <2>2. CASE j # Len(q)
    <3>1. j \in 1 .. Len(q) - 1
      BY <1>1, <1>10, <2>2, Zenon
    <3>2. r[j] = q[j]
      BY <1>4, <3>1
    <3>. QED  BY <1>5, <3>1, <3>2
  <2>. QED  BY <2>1, <2>2
<1>. QED  BY <1>4, <1>7, <1>8, <1>9 DEF List

LEMMA BlocksAreListed ==
    ASSUME NEW g
    PROVE  BlockSet(g) = ToSet(g.all_blocks)
BY DEF BlockSet, ToSet

\* What is left when the blocks that cannot be reached have gone.
LEMMA PrunedIsSound ==
    ASSUME NEW f, NEW g, NEW h, SoundGraph(f, g), Narrowed(g, h),
           NEW T, NEW q, Searched(g, h, T, q), q = << >>,
           List(h.all_blocks), h.all_blocks[1] = StartBlock, BlockSet(h) = T \cup {EndBlock},
           h.variables = g.variables
    PROVE  WellFormed(h) /\ PointersGoToTemporaries(h) /\ PartOf(h, g)
<1>1. WellFormed(g) /\ PointersGoToTemporaries(g)
  BY DEF SoundGraph
<1>2. /\ {StartBlock, EndBlock} \subseteq BlockSet(g) /\ NoBlock \notin BlockSet(g)
      /\ NoVar \notin VarSet(g) /\ g.block[EndBlock].instructions = << >>
      /\ \A b \in BlockSet(g) : BlockOK(g, b)
  BY <1>1 DEF WellFormed
<1>3. /\ T \subseteq BlockSet(g) /\ StartBlock \in T
      /\ \A b \in T : Targets(h, b) \subseteq T
  BY ShortLists DEF Searched
<1>4. BlockSet(h) \subseteq BlockSet(g) /\ VarSet(h) = VarSet(g)
  BY <1>2, <1>3 DEF VarSet
<1>5. PartOf(h, g)
  BY <1>4 DEF Narrowed, PartOf
<1>6. h.all_blocks \in Seq(BlockSet(h))
  BY BlocksAreListed DEF List
<1>7. \A ins : InstructionOK(g, ins) => InstructionOK(h, ins)
  BY <1>4 DEF InstructionOK
<1>8. ASSUME NEW b \in BlockSet(h) PROVE BlockOK(h, b)
  <2>1. b \in BlockSet(g) /\ BlockOK(g, b)
    BY <1>2, <1>4
  <2>2. h.block[b].instructions \in Seq(InstructionsOf(h, b))
        /\ \A ins \in InstructionsOf(h, b) : InstructionOK(h, ins)
    BY <1>7, <2>1 DEF Narrowed, BlockOK
  <2>3. b # EndBlock => /\ h.block[b].iftrue \in BlockSet(h) /\ h.block[b].iffalse \in BlockSet(h)
    BY <1>3, <2>1 DEF Narrowed
  <2>4. b # EndBlock /\ Conditional(h, b) => h.block[b].branchvar \in VarSet(h)
    BY <1>4, <2>1 DEF Narrowed, BlockOK
  <2>. QED  BY <2>2, <2>3, <2>4 DEF BlockOK
<1>9. h.block[EndBlock].instructions = << >> /\ Targets(h, EndBlock) = {}
  BY <1>2 DEF Narrowed
<1>10. WellFormed(h)
  BY <1>2, <1>3, <1>4, <1>6, <1>8, <1>9 DEF WellFormed
<1>11. PointersGoToTemporaries(h)
  <2>1. AddressTaken(h) \subseteq AddressTaken(g)
    BY <1>5, PartOfBasics
  <2>. QED  BY <1>1, <1>4, <2>1 DEF PointersGoToTemporaries, Narrowed
<1>. QED  BY <1>5, <1>10, <1>11
-----------------------------------------------------------------------------
LEMMA CompilingIsSound ==
    ASSUME LinkInv, Compiling
    PROVE  SoundGraph(function, built)
BY BuiltIsSound DEF LinkInv

LEMMA NotYet == LinkInv /\ ~Compiling => CompileInv
BY DEF LinkInv, CompileInv, JumpsInv, SearchInv, BlocksInv, VariablesInv, AnalysesInv, ReturnInv, RunInv

LEMMA InitCompileInv == Init => CompileInv
<1>. SUFFICES ASSUME Init PROVE CompileInv
  OBVIOUS
<1>1. BuildInv
  BY InitBuildInv DEF Init
<1>2. /\ phase = "build" /\ build_error = "" /\ pc = NoBlock /\ warnings = << >>
      /\ returntype_line = IF function.returntype = NoType THEN 0 ELSE function.line
  BY DEF Init, BuildInit, PassesInit, NoRun
<1>3. LinkInv
  BY <1>1, <1>2, ShortLists DEF LinkInv, Compiling
<1>. QED  BY <1>2, <1>3, NotYet DEF Compiling

LEMMA BuildKeeps == ASSUME CompileInv, Build PROVE CompileInv'
<1>1. /\ BuildInv' /\ function' = function /\ phase' = "build"
      /\ build_error' # "" => agenda' # << >>
      /\ returntype_line' = returntype_line /\ pc' = pc /\ warnings' = warnings
  BY BuildStepKeeps, ErrorsStop DEF CompileInv, LinkInv, Build, simplifyVars, runVars
<1>2. pc = NoBlock /\ List(warnings)
      /\ returntype_line = IF function.returntype = NoType THEN 0 ELSE function.line
  BY DEF CompileInv, LinkInv, Compiling, Build
<1>3. LinkInv' /\ ~Compiling'
  BY <1>1, <1>2 DEF LinkInv, Compiling
<1>4. (LinkInv /\ ~Compiling => CompileInv)'
  BY NotYet, PTL
<1>. QED  BY <1>3, <1>4

LEMMA BuildFailsKeeps == ASSUME CompileInv, BuildFails PROVE CompileInv'
<1>1. /\ UNCHANGED <<buildVars, returntype_line, pc, warnings>> /\ phase' = "failed"
      /\ phase = "build" /\ build_error # ""
  BY DEF BuildFails, runVars
<1>2. BuildInv'
  BY <1>1, BuildStutterKeeps DEF CompileInv, LinkInv
<1>3. LinkInv' /\ ~Compiling'
  BY <1>1, <1>2 DEF CompileInv, LinkInv, Compiling, buildVars, BlocksGone
<1>4. (LinkInv /\ ~Compiling => CompileInv)'
  BY NotYet, PTL
<1>. QED  BY <1>3, <1>4

\* simplify_cfg is handed a sound graph.
LEMMA FinishFunctionKeeps == ASSUME CompileInv, FinishFunction PROVE CompileInv'
<1>1. /\ UNCHANGED <<buildVars, warnings, returntype_line, runVars>>
      /\ phase = "build" /\ phase' = "clean_jumps" /\ BuildDone
      /\ built' = BuiltCfg /\ cfg' = BuiltCfg /\ CallAnalysis(cfg')
  BY DEF FinishFunction
<1>2. build_error = "" /\ pc = NoBlock
  BY <1>1 DEF CompileInv, LinkInv, Compiling, BuildDone
<1>3. BuildInv'
  BY <1>1, BuildStutterKeeps DEF CompileInv, LinkInv
<1>4. BuildDone' /\ BuiltCfg' = BuiltCfg
  BY <1>1 DEF BuildDone, BuiltCfg, buildVars
<1>5. LinkInv'
  BY <1>1, <1>2, <1>3, <1>4 DEF CompileInv, LinkInv, Compiling, buildVars, runVars, WalkingBlocks
<1>6. PICK g : g = BuiltCfg
  OBVIOUS
<1>7. built' = g /\ cfg' = g /\ SoundGraph(function, g) /\ function' = function /\ CallAnalysis(g)
  BY <1>1, <1>6, BuiltIsSound DEF CompileInv, LinkInv, buildVars
<1>8. SoundInv'
  <2>1. WellFormed(cfg)' /\ AnalysisStart(cfg)'
    BY <1>7 DEF CallAnalysis, AnalysisStart, SoundGraph
  <2>2. AnalysisInit'
    BY <2>1 DEF AnalysisInit
  <2>3. (AnalysisInit => SoundInv)'
    BY InitSoundInv, PTL
  <2>. QED  BY <2>2, <2>3
<1>9. JumpsInv'
  BY <1>1, <1>7 DEF JumpsInv, SoundGraph
<1>10. BlocksInv'
  <2>1. /\ List(g.all_blocks) /\ g.all_blocks[1] = StartBlock /\ StartBlock \in BlockSet(g)
    BY <1>7 DEF SoundGraph, WellFormed
  <2>2. g.all_blocks # << >>
    BY <2>1, ShortLists, BlocksAreListed
  <2>. QED  BY <1>1, <1>7, <2>1, <2>2 DEF BlocksInv, WalkingBlocks, BlocksGone
<1>11. VariablesInv'
  <2>1. /\ List(g.variables)
        /\ \A i \in DOMAIN function.variables : i \in DOMAIN g.variables /\ g.variables[i] = function.variables[i]
    <3>1. /\ List(g.variables) /\ List(function.variables) /\ Len(function.variables) <= Len(g.variables)
          /\ \A i \in DOMAIN function.variables : g.variables[i] = function.variables[i]
      BY <1>7 DEF SoundGraph
    <3>2. DOMAIN function.variables \subseteq DOMAIN g.variables
      BY <3>1 DEF List
    <3>. QED  BY <3>1, <3>2
  <2>. QED  BY <1>1, <1>7, <2>1 DEF VariablesInv, VariablesGone
<1>12. pc' = NoBlock
  BY <1>1, <1>2 DEF runVars
<1>. QED  BY <1>1, <1>5, <1>8, <1>9, <1>10, <1>11, <1>12
          DEF CompileInv, SearchInv, AnalysesInv, ReturnInv, RunInv, VariablesGone
-----------------------------------------------------------------------------
\* While the simplifier works nothing runs, and the function stays.
LEMMA WhileSimplifying ==
    ASSUME CompileInv, Simplify
    PROVE  /\ phase \in WalkingBlocks \cup BlocksGone \cup {"remove_blocks"}
           /\ phase \notin {"build", "done", "failed"} /\ Compiling /\ pc = NoBlock
           /\ SoundGraph(function, built)
           /\ UNCHANGED <<buildVars, runVars, built>> /\ UNCHANGED returntype_line
<1>1. /\ phase \notin {"build", "done", "failed"}
      /\ UNCHANGED <<buildVars, runVars, built>> /\ UNCHANGED returntype_line
  BY DEF Simplify, SimplifyStep, Analyse, CleanJumps, MarkReachable, CollectUnreachable,
         StartGrouping, GroupBlock, ShowUnreachableWarning, StartRemovingBlocks,
         RemoveGivenBlock, BlocksRemoved, ErrorAboutMissingReturn, FindUsedVariables,
         RemoveUnusedVariable, VariablesRemoved, StartScan, ScanOperand, ScanInstruction,
         ScanNextBlock, AnalysingPhases, simplifyVars
<1>2. /\ phase \in WalkingBlocks \cup BlocksGone \cup {"remove_blocks"}
      /\ build_error = ""
  BY <1>1 DEF CompileInv, LinkInv
<1>3. Compiling
  BY <1>1, <1>2 DEF Compiling
<1>4. pc = NoBlock
  BY <1>1 DEF CompileInv, RunInv
<1>. QED  BY <1>1, <1>2, <1>3, <1>4, CompilingIsSound DEF CompileInv

LEMMA LinkStays ==
    ASSUME LinkInv, Compiling, UNCHANGED <<buildVars, built>>, UNCHANGED returntype_line,
           phase' \in WalkingBlocks \cup BlocksGone \cup {"remove_blocks"}, List(warnings')
    PROVE  LinkInv' /\ Compiling'
<1>1. BuildInv' /\ BuildDone' /\ BuiltCfg' = BuiltCfg
  BY BuildStutterKeeps DEF LinkInv, Compiling, buildVars, BuildDone, BuiltCfg
<1>2. Compiling'
  BY DEF Compiling, WalkingBlocks, BlocksGone, buildVars
<1>. QED  BY <1>1, <1>2 DEF LinkInv, Compiling, buildVars

LEMMA JumpsStay ==
    ASSUME JumpsInv, Compiling, phase # "clean_jumps", phase' # "clean_jumps",
           UNCHANGED <<built, runVars>>, cfg'.block = cfg.block, IsGraph(cfg')
    PROVE  JumpsInv'
<1>1. PICK r : /\ Fixpoint(built, r) /\ Cut(built, r, cfg)
               /\ pc # NoBlock => Within(built, r)
  BY DEF JumpsInv
<1>2. Cut(built, r, cfg')
  BY <1>1, SameJumpsSearched
<1>3. Within(built, r) => Within(built, r)'
  BY DEF Within, runVars
<1>. QED  BY <1>1, <1>2, <1>3 DEF JumpsInv, runVars

LEMMA SearchStays ==
    ASSUME SearchInv, Compiling, phase # "clean_jumps", phase' # "reachability" => todo = << >>,
           UNCHANGED <<built, todo, reachable>>, cfg'.block = cfg.block
    PROVE  SearchInv'
<1>1. Searched(built, cfg', reachable, todo)
  BY SameJumpsSearched DEF SearchInv
<1>. QED  BY <1>1 DEF SearchInv

\* The list of blocks as it is before and after the removal.
LEMMA BlocksStay ==
    ASSUME BlocksInv, Compiling, cfg'.all_blocks = cfg.all_blocks, UNCHANGED <<built, reachable>>,
           \/ phase \in WalkingBlocks /\ phase' \in WalkingBlocks
           \/ phase \in BlocksGone /\ phase' \in BlocksGone
    PROVE  BlocksInv'
<1>1. BlockSet(cfg') = BlockSet(cfg)
  BY DEF BlockSet
<1>2. WalkingBlocks \cap (BlocksGone \cup {"remove_blocks"}) = {} /\ "remove_blocks" \notin BlocksGone
  BY DEF WalkingBlocks, BlocksGone
<1>. QED  BY <1>1, <1>2 DEF BlocksInv

LEMMA VariablesStay ==
    ASSUME VariablesInv, Compiling, cfg'.variables = cfg.variables, UNCHANGED <<built, function>>,
           phase \in VariablesGone => phase' \in VariablesGone, phase' # "remove_vars"
    PROVE  VariablesInv'
BY DEF VariablesInv

\* The verdict is not withdrawn, and the graph it is about stays.
LEMMA ReturnStays ==
    ASSUME ReturnInv, Compiling, phase \in VariablesGone \cup {"unused"}, phase' \in VariablesGone,
           cfg'.all_blocks = cfg.all_blocks, cfg'.block = cfg.block,
           UNCHANGED <<built, runVars>>, UNCHANGED returntype_line,
           ToSet(warnings) \subseteq ToSet(warnings')
    PROVE  ReturnInv'
<1>1. SUFFICES ASSUME Compiling', returntype_line # 0 PROVE ReturnInv'
  BY DEF ReturnInv, VariablesGone
<1>2. PICK q, v : /\ Fixpoint(Pruned, q) /\ v \in ReturnSlots(built) /\ Verdict(q, v)
                  /\ pc # NoBlock => Within(Pruned, q)
  BY <1>1 DEF ReturnInv
<1>3. Pruned' = Pruned
  BY DEF Pruned
<1>4. \A kind : Warned(kind) \subseteq Warned(kind)'
  BY DEF Warned
<1>5. phase # "failed" /\ phase' # "failed"
  BY DEF VariablesGone
<1>6. Verdict(q, v)'
  BY <1>2, <1>4, <1>5 DEF Verdict
<1>7. pc' # NoBlock => Within(Pruned, q)'
  BY <1>2, <1>3 DEF Within, runVars
<1>. QED  BY <1>2, <1>3, <1>6, <1>7 DEF ReturnInv

\* Nothing runs.
LEMMA RunStays ==
    ASSUME pc = NoBlock, UNCHANGED runVars
    PROVE  RunInv'
BY DEF RunInv, runVars
-----------------------------------------------------------------------------
LEMMA AnalyseKeeps == ASSUME CompileInv, Simplify, Analyse PROVE CompileInv'
<1>1. /\ AnalysisStep /\ UNCHANGED <<cfg, simplifyVars>> /\ phase \in AnalysingPhases
      /\ phase' = phase /\ cfg' = cfg /\ todo' = todo /\ reachable' = reachable /\ warnings' = warnings
  BY DEF Analyse, simplifyVars, passes
<1>2. /\ Compiling /\ pc = NoBlock /\ UNCHANGED <<buildVars, runVars, built>>
      /\ UNCHANGED returntype_line /\ phase \in WalkingBlocks \cup BlocksGone \cup {"remove_blocks"}
      /\ function' = function /\ UNCHANGED <<built, runVars>>
  BY WhileSimplifying DEF buildVars
<1>3. LinkInv' /\ Compiling'
  BY <1>1, <1>2, LinkStays DEF CompileInv, LinkInv
<1>4. JumpsInv'
  <2>1. CASE phase = "clean_jumps"
    BY <1>1, <1>2, <2>1 DEF CompileInv, JumpsInv
  <2>2. CASE phase # "clean_jumps"
    BY <1>1, <1>2, <2>2, JumpsStay DEF CompileInv, JumpsInv
  <2>. QED  BY <2>1, <2>2
<1>5. SearchInv'
  <2>1. CASE phase = "clean_jumps"
    BY <1>1, <1>2, <2>1 DEF SearchInv
  <2>2. CASE phase # "clean_jumps"
    BY <1>1, <1>2, <2>2, SearchStays DEF CompileInv, SearchInv
  <2>. QED  BY <2>1, <2>2
<1>6. BlocksInv'
  BY <1>1, <1>2, BlocksStay DEF CompileInv, AnalysingPhases, WalkingBlocks, BlocksGone
<1>7. VariablesInv'
  BY <1>1, <1>2, VariablesStay DEF CompileInv, AnalysingPhases, VariablesGone
<1>8. AnalysesInv'
  BY <1>1, <1>2, AnalysisStepSound DEF CompileInv, AnalysesInv
<1>9. ReturnInv'
  <2>1. CASE phase = "undefined"
    BY <1>1, <1>2, <2>1, ReturnStays DEF CompileInv, VariablesGone
  <2>2. CASE phase # "undefined"
    BY <1>1, <2>2 DEF ReturnInv, AnalysingPhases, VariablesGone
  <2>. QED  BY <2>1, <2>2
<1>. QED  BY <1>2, <1>3, <1>4, <1>5, <1>6, <1>7, <1>8, <1>9, RunStays DEF CompileInv

LEMMA CleanJumpsKeeps == ASSUME CompileInv, Simplify, CleanJumps PROVE CompileInv'
<1>1. /\ phase = "clean_jumps" /\ AnalysisDone /\ phase' = "reachability"
      /\ todo' = <<StartBlock>> /\ reachable' = {} /\ UNCHANGED warnings
  BY DEF CleanJumps
<1>2. /\ Compiling /\ pc = NoBlock /\ UNCHANGED <<buildVars, runVars, built>>
      /\ UNCHANGED returntype_line /\ SoundGraph(function, built)
      /\ function' = function /\ UNCHANGED <<built, runVars>> /\ pc' = NoBlock
  BY WhileSimplifying DEF buildVars, runVars
<1>3. cfg = built /\ SoundInv
  BY <1>1, <1>2 DEF CompileInv, JumpsInv, AnalysesInv
<1>4. PICK g, r, h : g = cfg /\ r = result /\ h = cfg'
  OBVIOUS
<1>5. Fixpoint(g, r)
  BY <1>1, <1>3, <1>4, DoneIsFixpoint
<1>6. Cut(g, r, h) /\ IsGraph(h) /\ h.all_blocks = g.all_blocks /\ h.variables = g.variables
  BY <1>2, <1>3, <1>4, CleaningCuts
<1>7. built = g /\ built' = g /\ cfg' = h
  BY <1>2, <1>3, <1>4
<1>8. JumpsInv'
  BY <1>1, <1>2, <1>5, <1>6, <1>7 DEF JumpsInv
<1>9. SearchInv'
  <2>1. Searched(g, h, {}, <<StartBlock>>)
    BY <1>2, <1>7, SearchStarts
  <2>. QED  BY <1>1, <1>7, <2>1 DEF SearchInv
<1>10. BlocksInv'
  <2>1. BlockSet(h) = BlockSet(g)
    BY <1>6 DEF BlockSet
  <2>. QED  BY <1>1, <1>2, <1>4, <1>6, <1>7, <2>1 DEF CompileInv, BlocksInv, WalkingBlocks, BlocksGone
<1>11. VariablesInv'
  BY <1>1, <1>2, <1>4, <1>6, VariablesStay DEF CompileInv, VariablesGone
<1>12. LinkInv' /\ Compiling'
  BY <1>1, <1>2, LinkStays DEF CompileInv, LinkInv, WalkingBlocks
<1>. QED  BY <1>1, <1>2, <1>8, <1>9, <1>10, <1>11, <1>12, RunStays
          DEF CompileInv, AnalysesInv, ReturnInv, VariablesGone

LEMMA MarkReachableKeeps == ASSUME CompileInv, Simplify, MarkReachable PROVE CompileInv'
<1>1. /\ phase = "reachability" /\ phase' = phase /\ todo # << >> /\ UNCHANGED <<cfg, warnings>>
      /\ reachable' = reachable \cup {Last(todo)}
      /\ todo' = Front(todo) \o Successors(Last(todo))
  BY DEF MarkReachable
<1>2. /\ Compiling /\ pc = NoBlock /\ UNCHANGED <<buildVars, runVars, built>>
      /\ UNCHANGED returntype_line /\ SoundGraph(function, built)
      /\ function' = function /\ UNCHANGED <<built, runVars>> /\ cfg' = cfg
  BY <1>1, WhileSimplifying DEF buildVars
<1>3. PICK r : Fixpoint(built, r) /\ Cut(built, r, cfg)
  BY <1>1, <1>2 DEF CompileInv, JumpsInv
<1>4. Narrowed(built, cfg) /\ Searched(built, cfg, reachable, todo)
  BY <1>1, <1>2, <1>3, CutNarrows DEF CompileInv, SearchInv
<1>5. Searched(built, cfg, reachable', todo')
  <2>1. PICK g, h, T, q, R, p : g = built /\ h = cfg /\ T = reachable /\ q = todo /\ R = reachable' /\ p = todo'
    OBVIOUS
  <2>2. PICK s : s = Successors(Last(todo))
    OBVIOUS
  <2>3. s = IF Last(q) \in T \/ Last(q) = EndBlock THEN << >>
            ELSE <<h.block[Last(q)].iftrue, h.block[Last(q)].iffalse>>
    BY <2>1, <2>2 DEF Successors
  <2>4. R = T \cup {Last(q)} /\ p = Front(q) \o s /\ q # << >>
    BY <1>1, <2>1, <2>2
  <2>5. Narrowed(g, h) /\ Searched(g, h, T, q)
    BY <1>4, <2>1
  <2>6. Searched(g, h, R, p)
    BY ONLY <2>3, <2>4, <2>5, SearchGoesOn
  <2>. QED  BY <2>1, <2>6
<1>6. SearchInv'
  BY <1>1, <1>2, <1>5 DEF SearchInv
<1>7. LinkInv' /\ Compiling'
  BY <1>1, <1>2, LinkStays DEF CompileInv, LinkInv
<1>8. JumpsInv'
  BY <1>1, <1>2, JumpsStay DEF CompileInv, JumpsInv
<1>9. BlocksInv'
  BY <1>1, <1>2 DEF CompileInv, BlocksInv, WalkingBlocks, BlocksGone
<1>10. VariablesInv'
  BY <1>1, <1>2, VariablesStay DEF CompileInv, VariablesGone
<1>. QED  BY <1>1, <1>2, <1>6, <1>7, <1>8, <1>9, <1>10, RunStays
          DEF CompileInv, AnalysesInv, ReturnInv, VariablesGone

\* The second loop of remove_unreachable_blocks, the grouping and the
\* warnings leave the graph alone.
LEMMA ReportingKeeps ==
    ASSUME CompileInv, Simplify, \/ CollectUnreachable \/ StartGrouping \/ GroupBlock
                                 \/ ShowUnreachableWarning \/ StartRemovingBlocks
    PROVE  CompileInv'
<1>1. /\ phase \in {"reachability", "group", "show"} /\ phase' \in {"reachability", "group", "show", "remove_blocks"}
      /\ UNCHANGED <<cfg, todo, reachable>>
      /\ phase' = "reachability" => phase = "reachability"
      /\ phase' = "remove_blocks" => phase = "show" /\ at' = Len(cfg.all_blocks)
      /\ warnings' = warnings \/ \E w : warnings' = Append(warnings, w)
      /\ phase = "reachability" => todo = << >>
  BY DEF CollectUnreachable, StartGrouping, GroupBlock, ShowUnreachableWarning, StartRemovingBlocks
<1>2. /\ Compiling /\ pc = NoBlock /\ UNCHANGED <<buildVars, runVars, built>>
      /\ UNCHANGED returntype_line
      /\ function' = function /\ UNCHANGED <<built, runVars>> /\ cfg' = cfg
  BY <1>1, WhileSimplifying DEF buildVars
<1>3. List(warnings')
  <2>1. List(warnings)
    BY DEF CompileInv, LinkInv
  <2>2. \A w : List(Append(warnings, w))
    BY <2>1, AppendList
  <2>. QED  BY <1>1, <2>1, <2>2
<1>4. LinkInv' /\ Compiling'
  BY <1>1, <1>2, <1>3, LinkStays DEF CompileInv, WalkingBlocks
<1>5. JumpsInv'
  BY <1>1, <1>2, JumpsStay DEF CompileInv, JumpsInv
<1>6. todo = << >>
  BY <1>1, <1>2 DEF CompileInv, SearchInv
<1>7. SearchInv'
  BY <1>1, <1>2, <1>6, SearchStays DEF CompileInv, SearchInv
<1>8. VariablesInv'
  BY <1>1, <1>2, VariablesStay DEF CompileInv, VariablesGone
<1>9. BlocksInv'
  <2>1. CASE phase' # "remove_blocks"
    BY <1>1, <1>2, <2>1, BlocksStay DEF CompileInv, WalkingBlocks
  <2>2. CASE phase' = "remove_blocks"
    <3>1. /\ List(cfg.all_blocks) /\ cfg.all_blocks # << >> /\ cfg.all_blocks[1] = StartBlock
          /\ cfg.all_blocks = built.all_blocks
      BY <1>1, <1>2, <2>2 DEF CompileInv, BlocksInv, WalkingBlocks
    <3>2. Len(cfg.all_blocks) \in Nat
      BY <3>1 DEF List
    <3>3. BlockSet(cfg) = BlockSet(built)
      BY <3>1 DEF BlockSet
    <3>4. reachable \cup {EndBlock} \subseteq BlockSet(built)
      <4>1. Searched(built, cfg, reachable, todo)
        BY <1>1, <1>2 DEF CompileInv, SearchInv
      <4>2. SoundGraph(function, built)
        BY WhileSimplifying
      <4>. QED  BY <4>1, <4>2 DEF Searched, SoundGraph, WellFormed
    <3>. QED  BY <1>1, <1>2, <2>2, <3>1, <3>2, <3>3, <3>4 DEF BlocksInv, BlocksGone, WalkingBlocks
  <2>. QED  BY <2>1, <2>2
<1>. QED  BY <1>1, <1>2, <1>4, <1>5, <1>7, <1>8, <1>9, RunStays
          DEF CompileInv, AnalysesInv, ReturnInv, VariablesGone

\* The list stays in one piece while blocks are taken out of it from behind.
LEMMA RemoveGivenBlockKeeps == ASSUME CompileInv, Simplify, RemoveGivenBlock PROVE CompileInv'
<1>1. /\ phase = "remove_blocks" /\ phase' = phase /\ at > 0 /\ at' = at - 1
      /\ UNCHANGED <<todo, reachable, warnings>>
      /\ cfg' = IF ShouldGo(cfg.all_blocks[at])
                THEN [cfg EXCEPT !.all_blocks = SwapRemove(cfg.all_blocks, at)] ELSE cfg
  BY DEF RemoveGivenBlock
<1>2. /\ Compiling /\ pc = NoBlock /\ UNCHANGED <<buildVars, runVars, built>>
      /\ UNCHANGED returntype_line
      /\ function' = function /\ UNCHANGED <<built, runVars>>
  BY WhileSimplifying DEF buildVars
<1>3. IsGraph(cfg) /\ todo = << >> /\ Searched(built, cfg, reachable, todo)
  BY <1>1, <1>2 DEF CompileInv, JumpsInv, SearchInv
<1>4. /\ List(cfg.all_blocks) /\ cfg.all_blocks # << >> /\ cfg.all_blocks[1] = StartBlock
      /\ BlockSet(cfg) \subseteq BlockSet(built)
      /\ reachable \cup {EndBlock} \subseteq BlockSet(cfg)
      /\ at \in 1 .. Len(cfg.all_blocks)
      /\ \A i \in 1 .. Len(cfg.all_blocks) : i > at => ~ShouldGo(cfg.all_blocks[i])
  BY <1>1, <1>2 DEF CompileInv, BlocksInv, WalkingBlocks
<1>5. StartBlock \in reachable
  BY <1>3, ShortLists DEF Searched
<1>6. PICK q, n, p : q = cfg.all_blocks /\ n = Len(q) /\ p = SwapRemove(q, at)
  OBVIOUS
<1>7. ASSUME ~ShouldGo(q[at])
      PROVE  BlocksInv' /\ cfg'.block = cfg.block /\ cfg'.variables = cfg.variables /\ IsGraph(cfg')
  <2>1. cfg' = cfg
    BY <1>1, <1>6, <1>7
  <2>2. /\ at' \in 0 .. Len(cfg.all_blocks)
        /\ \A i \in 1 .. Len(cfg.all_blocks) : i > at' => ~ShouldGo(cfg.all_blocks[i])
    <3>1. n \in Nat /\ at \in 1 .. n
      BY <1>4, <1>6 DEF List
    <3>2. at' \in 0 .. n /\ \A i \in 1 .. n : i > at' => i > at \/ i = at
      BY <1>1, <3>1
    <3>. QED  BY <1>4, <1>6, <1>7, <3>2
  <2>3. BlocksInv'
    BY <1>1, <1>2, <1>4, <2>1, <2>2 DEF BlocksInv, ShouldGo, WalkingBlocks, BlocksGone
  <2>4. cfg'.block = cfg.block /\ cfg'.variables = cfg.variables /\ IsGraph(cfg')
    BY <1>3, <2>1
  <2>. QED  BY <2>3, <2>4
<1>8. ASSUME ShouldGo(q[at])
      PROVE  BlocksInv' /\ cfg'.block = cfg.block /\ cfg'.variables = cfg.variables /\ IsGraph(cfg')
  <2>1. /\ cfg'.all_blocks = p /\ IsGraph(cfg')
        /\ cfg'.block = cfg.block /\ cfg'.variables = cfg.variables
    BY <1>1, <1>3, <1>6, <1>8 DEF IsGraph
  <2>2. /\ List(p) /\ Len(p) = n - 1 /\ n \in Nat /\ at \in 1 .. n
        /\ \A j \in 1 .. Len(p) : p[j] = IF j = at THEN q[n] ELSE q[j]
        /\ ToSet(p) \subseteq ToSet(q) /\ ToSet(q) \subseteq ToSet(p) \cup {q[at]}
    <3>1. List(q) /\ at \in 1 .. Len(q)
      BY <1>4, <1>6
    <3>. QED  BY <1>6, <3>1, SwapRemoveList DEF List
  <2>3. BlockSet(cfg) = ToSet(q) /\ BlockSet(cfg') = ToSet(p)
    BY <1>6, <2>1, BlocksAreListed
  <2>4. q[at] \notin reachable \cup {EndBlock}
    BY <1>8 DEF ShouldGo
  <2>5. /\ reachable \cup {EndBlock} \subseteq BlockSet(cfg')
        /\ BlockSet(cfg') \subseteq BlockSet(built)
    BY <1>4, <2>2, <2>3, <2>4
  <2>6. at # 1 /\ n > 1
    <3>1. at # 1
      BY <1>4, <1>5, <1>6, <2>4
    <3>. QED  BY <2>2, <3>1
  <2>7. p[1] = StartBlock /\ p # << >>
    <3>1. 1 \in 1 .. Len(p)
      BY <2>2, <2>6
    <3>. QED  BY <1>4, <1>6, <2>2, <2>6, <3>1
  <2>8. /\ at' \in 0 .. Len(p)
        /\ \A i \in 1 .. Len(p) : i > at' => ~ShouldGo(p[i])
    <3>1. at' \in 0 .. Len(p)
      BY <1>1, <2>2
    <3>2. ASSUME NEW i \in 1 .. Len(p), i > at' PROVE ~ShouldGo(p[i])
      <4>1. i \in 1 .. n - 1 /\ (i = at \/ i > at)
        BY <1>1, <2>2, <3>2
      <4>2. p[i] = IF i = at THEN q[n] ELSE q[i]
        BY <2>2
      <4>3. PICK k \in 1 .. n : p[i] = q[k] /\ k > at
        BY <2>2, <4>1, <4>2
      <4>. QED  BY <1>4, <1>6, <4>3
    <3>. QED  BY <3>1, <3>2
  <2>9. BlocksInv'
    BY <1>1, <1>2, <2>1, <2>2, <2>5, <2>7, <2>8 DEF BlocksInv, ShouldGo, WalkingBlocks, BlocksGone
  <2>. QED  BY <2>1, <2>9
<1>9. BlocksInv' /\ cfg'.block = cfg.block /\ cfg'.variables = cfg.variables /\ IsGraph(cfg')
  BY <1>7, <1>8
<1>10. LinkInv' /\ Compiling'
  BY <1>1, <1>2, LinkStays DEF CompileInv, LinkInv
<1>11. JumpsInv'
  BY <1>1, <1>2, <1>9, JumpsStay DEF CompileInv
<1>12. SearchInv'
  BY <1>1, <1>2, <1>3, <1>9, SearchStays DEF CompileInv
<1>13. VariablesInv'
  BY <1>1, <1>2, <1>9, VariablesStay DEF CompileInv, VariablesGone
<1>. QED  BY <1>1, <1>2, <1>9, <1>10, <1>11, <1>12, <1>13, RunStays
          DEF CompileInv, AnalysesInv, ReturnInv, VariablesGone

LEMMA BlocksRemovedKeeps == ASSUME CompileInv, Simplify, BlocksRemoved PROVE CompileInv'
<1>1. /\ phase = "remove_blocks" /\ at = 0 /\ UNCHANGED <<cfg, passes, warnings>>
      /\ UNCHANGED <<todo, reachable>>
      /\ \/ phase' = "missing_return" /\ CallAnalysis(cfg)
         \/ phase' = "unused" /\ returntype_line = 0
  BY DEF BlocksRemoved, passes
<1>2. /\ Compiling /\ pc = NoBlock /\ UNCHANGED <<buildVars, runVars, built>>
      /\ UNCHANGED returntype_line /\ SoundGraph(function, built)
      /\ function' = function /\ UNCHANGED <<built, runVars>> /\ cfg' = cfg
  BY <1>1, WhileSimplifying DEF buildVars
<1>3. /\ List(cfg.all_blocks) /\ cfg.all_blocks # << >> /\ cfg.all_blocks[1] = StartBlock
      /\ BlockSet(cfg) \subseteq BlockSet(built)
      /\ reachable \cup {EndBlock} \subseteq BlockSet(cfg)
      /\ \A i \in 1 .. Len(cfg.all_blocks) : i > at => ~ShouldGo(cfg.all_blocks[i])
  BY <1>1, <1>2 DEF CompileInv, BlocksInv, WalkingBlocks
<1>4. BlockSet(cfg) = reachable \cup {EndBlock}
  <2>1. DOMAIN cfg.all_blocks = 1 .. Len(cfg.all_blocks) /\ Len(cfg.all_blocks) \in Nat
    BY <1>3 DEF List
  <2>2. \A i \in DOMAIN cfg.all_blocks : cfg.all_blocks[i] \in reachable \cup {EndBlock}
    BY <1>1, <1>3, <2>1 DEF ShouldGo
  <2>. QED  BY <1>3, <2>2 DEF BlockSet
<1>5. cfg.variables = built.variables /\ IsGraph(cfg)
  BY <1>1, <1>2 DEF CompileInv, VariablesInv, VariablesGone, JumpsInv
<1>6. Searched(built, cfg, reachable, todo) /\ todo = << >>
  BY <1>1, <1>2 DEF CompileInv, SearchInv
<1>7. PICK r : Fixpoint(built, r) /\ Cut(built, r, cfg)
  BY <1>1, <1>2 DEF CompileInv, JumpsInv
<1>8. Narrowed(built, cfg)
  BY <1>2, <1>7, CutNarrows
<1>9. WellFormed(cfg)
  BY <1>2, <1>3, <1>4, <1>5, <1>6, <1>8, PrunedIsSound
<1>10. phase' = "missing_return" => SoundInv'
  <2>. SUFFICES ASSUME phase' = "missing_return" PROVE SoundInv'
    OBVIOUS
  <2>1. WellFormed(cfg)' /\ AnalysisStart(cfg)'
    BY <1>1, <1>2, <1>9 DEF CallAnalysis, AnalysisStart
  <2>2. AnalysisInit'
    BY <2>1 DEF AnalysisInit
  <2>3. (AnalysisInit => SoundInv)'
    BY InitSoundInv, PTL
  <2>. QED  BY <2>2, <2>3
<1>11. LinkInv' /\ Compiling'
  BY <1>1, <1>2, LinkStays DEF CompileInv, LinkInv, BlocksGone
<1>12. JumpsInv'
  BY <1>1, <1>2, <1>5, JumpsStay DEF CompileInv
<1>13. SearchInv'
  BY <1>1, <1>2, <1>6, SearchStays DEF CompileInv
<1>14. VariablesInv'
  BY <1>1, <1>2, VariablesStay DEF CompileInv, VariablesGone
<1>15. BlocksInv'
  BY <1>1, <1>2, <1>3, <1>4 DEF BlocksInv, WalkingBlocks, BlocksGone
<1>. QED  BY <1>1, <1>2, <1>10, <1>11, <1>12, <1>13, <1>14, <1>15, RunStays
          DEF CompileInv, AnalysesInv, ReturnInv, VariablesGone

\* The verdict on the return value is about the graph without its variables
\* removed.
LEMMA ErrorAboutMissingReturnKeeps ==
    ASSUME CompileInv, Simplify, ErrorAboutMissingReturn PROVE CompileInv'
<1>1. PICK v \in ReturnSlots(cfg) :
        /\ phase' = IF result[EndBlock][v] = "UNDEFINED" THEN "failed" ELSE "unused"
        /\ warnings' = IF result[EndBlock][v] = "POSSIBLY_UNDEFINED"
                       THEN Append(warnings, Warning("doesn't seem to return a value in all cases",
                                                     returntype_line, ""))
                       ELSE warnings
  BY DEF ErrorAboutMissingReturn
<1>2. /\ phase = "missing_return" /\ AnalysisDone /\ UNCHANGED <<cfg, analysis, passes>>
      /\ UNCHANGED <<todo, reachable, result>> /\ phase' \in {"failed", "unused"}
  BY <1>1 DEF ErrorAboutMissingReturn, passes, analysis
<1>3. /\ Compiling /\ pc = NoBlock /\ UNCHANGED <<buildVars, runVars, built>>
      /\ UNCHANGED returntype_line /\ pc' = NoBlock
      /\ function' = function /\ UNCHANGED <<built, runVars>> /\ cfg' = cfg
  BY <1>2, WhileSimplifying DEF buildVars, runVars
<1>4. SoundInv /\ cfg.variables = built.variables /\ IsGraph(cfg)
  BY <1>2, <1>3 DEF CompileInv, AnalysesInv, VariablesInv, VariablesGone, JumpsInv
<1>5. PICK q : q = result
  OBVIOUS
<1>6. Fixpoint(cfg, q)
  BY <1>2, <1>4, <1>5, DoneIsFixpoint
<1>7. Pruned = cfg /\ Pruned' = cfg /\ v \in ReturnSlots(built)
  BY <1>3, <1>4 DEF Pruned, IsGraph, ReturnSlots
<1>8. List(warnings)
  BY DEF CompileInv, LinkInv
<1>9. PICK w : w = Warning("doesn't seem to return a value in all cases", returntype_line, "")
  OBVIOUS
<1>10. w.kind = "doesn't seem to return a value in all cases"
  BY <1>9 DEF Warning
<1>11. List(Append(warnings, w)) /\ w \in ToSet(Append(warnings, w))
  BY <1>8, AppendList
<1>12. List(warnings')
  BY <1>1, <1>8, <1>9, <1>11
<1>13. Verdict(q, v)'
  <2>1. q[EndBlock][v] = "POSSIBLY_UNDEFINED" => Warned("doesn't seem to return a value in all cases")' # {}
    <3>. SUFFICES ASSUME q[EndBlock][v] = "POSSIBLY_UNDEFINED"
                  PROVE  Warned("doesn't seem to return a value in all cases")' # {}
      OBVIOUS
    <3>1. w \in ToSet(warnings')
      BY <1>1, <1>5, <1>9, <1>11
    <3>. QED  BY <1>10, <3>1 DEF Warned
  <2>. QED  BY <1>1, <1>5, <2>1 DEF Verdict
<1>14. ReturnInv'
  BY <1>3, <1>6, <1>7, <1>13 DEF ReturnInv
<1>15. LinkInv' /\ Compiling'
  BY <1>2, <1>3, <1>12, LinkStays DEF CompileInv, BlocksGone
<1>16. JumpsInv'
  BY <1>2, <1>3, <1>4, JumpsStay DEF CompileInv
<1>17. SearchInv'
  BY <1>2, <1>3, SearchStays DEF CompileInv, SearchInv
<1>18. VariablesInv'
  BY <1>2, <1>3, VariablesStay DEF CompileInv, VariablesGone
<1>19. BlocksInv'
  BY <1>2, <1>3, BlocksStay DEF CompileInv, BlocksGone
<1>. QED  BY <1>2, <1>3, <1>14, <1>15, <1>16, <1>17, <1>18, <1>19, RunStays
          DEF CompileInv, AnalysesInv
-----------------------------------------------------------------------------
\* The passes after the removal of blocks leave the blocks alone.
LEMMA LastPassStays ==
    ASSUME CompileInv, Simplify, phase \in VariablesGone \cup {"unused"}, phase' \in VariablesGone,
           cfg'.all_blocks = cfg.all_blocks, cfg'.block = cfg.block, IsGraph(cfg'),
           UNCHANGED <<todo, reachable>>, List(warnings'), ToSet(warnings) \subseteq ToSet(warnings')
    PROVE  /\ LinkInv' /\ JumpsInv' /\ SearchInv' /\ BlocksInv' /\ AnalysesInv' /\ ReturnInv' /\ RunInv'
           /\ Compiling /\ SoundGraph(function, built) /\ UNCHANGED <<built, function>>
<1>1. /\ Compiling /\ pc = NoBlock /\ UNCHANGED <<buildVars, runVars, built>>
      /\ UNCHANGED returntype_line /\ SoundGraph(function, built)
      /\ function' = function /\ UNCHANGED <<built, runVars>>
  BY WhileSimplifying DEF buildVars
<1>2. /\ phase \notin {"clean_jumps", "reachability", "remove_blocks", "missing_return"}
      /\ phase' \notin {"clean_jumps", "reachability", "remove_blocks", "missing_return"}
      /\ phase \in BlocksGone /\ phase' \in BlocksGone
  BY DEF VariablesGone, BlocksGone
<1>3. LinkInv' /\ Compiling'
  BY <1>1, <1>2, LinkStays DEF CompileInv
<1>4. JumpsInv'
  BY <1>1, <1>2, JumpsStay DEF CompileInv
<1>5. SearchInv'
  BY <1>1, <1>2, SearchStays DEF CompileInv, SearchInv
<1>6. BlocksInv'
  BY <1>1, <1>2, BlocksStay DEF CompileInv
<1>7. ReturnInv'
  BY <1>1, ReturnStays DEF CompileInv
<1>8. AnalysesInv' /\ RunInv'
  BY <1>1, <1>2, RunStays DEF AnalysesInv
<1>. QED  BY <1>1, <1>3, <1>4, <1>5, <1>6, <1>7, <1>8

LEMMA FindUsedVariablesKeeps == ASSUME CompileInv, Simplify, FindUsedVariables PROVE CompileInv'
<1>1. /\ phase = "unused" /\ phase' = "remove_vars" /\ at' = Len(cfg.variables)
      /\ cfg' = cfg /\ UNCHANGED <<todo, reachable>> /\ warnings' = warnings
  BY DEF FindUsedVariables
<1>2. Compiling /\ List(warnings) /\ IsGraph(cfg)
  BY <1>1, WhileSimplifying DEF CompileInv, LinkInv, JumpsInv
<1>3. /\ LinkInv' /\ JumpsInv' /\ SearchInv' /\ BlocksInv' /\ AnalysesInv' /\ ReturnInv' /\ RunInv'
      /\ UNCHANGED <<built, function>>
  BY <1>1, <1>2, LastPassStays DEF VariablesGone
<1>4. VariablesInv'
  <2>1. List(cfg.variables) /\ Len(cfg.variables) \in 0 .. Len(cfg.variables)
    BY <1>2 DEF CompileInv, VariablesInv, List
  <2>. QED  BY <1>1, <1>2, <1>3, <2>1 DEF CompileInv, VariablesInv, VariablesGone
<1>. QED  BY <1>3, <1>4 DEF CompileInv

\* Arguments are in front and are not taken out, so whatever moves to an
\* earlier place does not come from among them.
LEMMA RemoveUnusedVariableKeeps ==
    ASSUME CompileInv, Simplify, RemoveUnusedVariable PROVE CompileInv'
<1>1. /\ phase = "remove_vars" /\ phase' = phase /\ at > 0 /\ at' = at - 1
      /\ UNCHANGED <<todo, reachable>> /\ warnings' = warnings
      /\ cfg' = IF Unused(cfg.variables[at])
                THEN [cfg EXCEPT !.variables = SwapRemove(cfg.variables, at)] ELSE cfg
  BY DEF RemoveUnusedVariable
<1>2. Compiling /\ List(warnings) /\ IsGraph(cfg) /\ SoundGraph(function, built)
  BY <1>1, WhileSimplifying DEF CompileInv, LinkInv, JumpsInv
<1>3. /\ List(cfg.variables) /\ at \in 1 .. Len(cfg.variables)
      /\ \A i \in DOMAIN function.variables : function.variables[i].is_argument =>
            i \in DOMAIN cfg.variables /\ cfg.variables[i] = function.variables[i]
  BY <1>1, <1>2 DEF CompileInv, VariablesInv, VariablesGone
<1>4. PICK q, n, p, F : q = cfg.variables /\ n = Len(q) /\ p = SwapRemove(q, at) /\ F = function.variables
  OBVIOUS
<1>5. /\ List(p) /\ Len(p) = n - 1 /\ n \in Nat /\ at \in 1 .. n /\ DOMAIN q = 1 .. n /\ DOMAIN p = 1 .. Len(p)
      /\ \A j \in 1 .. Len(p) : p[j] = IF j = at THEN q[n] ELSE q[j]
  <2>1. List(q) /\ at \in 1 .. Len(q)
    BY <1>3, <1>4
  <2>. QED  BY <1>4, <2>1, SwapRemoveList DEF List
<1>6. CASE ~Unused(q[at])
  <2>1. cfg' = cfg
    BY <1>1, <1>4, <1>6
  <2>2. /\ LinkInv' /\ JumpsInv' /\ SearchInv' /\ BlocksInv' /\ AnalysesInv' /\ ReturnInv' /\ RunInv'
        /\ UNCHANGED <<built, function>>
    BY <1>1, <1>2, <2>1, LastPassStays DEF VariablesGone
  <2>3. at' \in 0 .. n
    BY <1>1, <1>5
  <2>4. VariablesInv'
    BY <1>1, <1>3, <1>4, <2>1, <2>2, <2>3 DEF VariablesInv, VariablesGone
  <2>. QED  BY <2>2, <2>4 DEF CompileInv
<1>7. CASE Unused(q[at])
  <2>1. /\ cfg'.variables = p /\ IsGraph(cfg')
        /\ cfg'.block = cfg.block /\ cfg'.all_blocks = cfg.all_blocks
    BY <1>1, <1>2, <1>4, <1>7 DEF IsGraph
  <2>2. /\ LinkInv' /\ JumpsInv' /\ SearchInv' /\ BlocksInv' /\ AnalysesInv' /\ ReturnInv' /\ RunInv'
        /\ UNCHANGED <<built, function>>
    BY <1>1, <1>2, <2>1, LastPassStays DEF VariablesGone
  <2>3. at' \in 0 .. Len(p)
    BY <1>1, <1>5
  <2>4. /\ DOMAIN F = 1 .. Len(F) /\ Len(F) \in Nat
        /\ \A i, j \in DOMAIN F : i < j /\ F[j].is_argument => F[i].is_argument
    BY <1>2, <1>4 DEF SoundGraph, List
  <2>5. ASSUME NEW i \in DOMAIN F, F[i].is_argument PROVE i \in DOMAIN p /\ p[i] = F[i]
    <3>1. i \in 1 .. n /\ q[i] = F[i]
      BY <1>3, <1>4, <1>5, <2>5
    <3>2. ~q[at].is_argument
      BY <1>7 DEF Unused
    <3>3. ~ (at < i)
      <4>. SUFFICES ASSUME at < i PROVE FALSE
        OBVIOUS
      <4>1. at \in DOMAIN F
        BY <1>5, <2>4, <3>1
      <4>2. F[at].is_argument
        BY <2>4, <2>5, <4>1
      <4>. QED  BY <1>3, <1>4, <3>2, <4>1, <4>2
    <3>4. i # at
      BY <2>5, <3>1, <3>2
    <3>5. i \in 1 .. n - 1
      BY <1>5, <3>1, <3>3, <3>4
    <3>. QED  BY <1>5, <3>1, <3>4, <3>5
  <2>6. VariablesInv'
    BY <1>1, <1>4, <1>5, <2>1, <2>2, <2>3, <2>5 DEF VariablesInv, VariablesGone
  <2>. QED  BY <2>2, <2>6 DEF CompileInv
<1>. QED  BY <1>6, <1>7

\* The last analysis and the scan only report.
LEMMA ScanKeeps ==
    ASSUME CompileInv, Simplify, \/ VariablesRemoved \/ StartScan \/ ScanOperand
                                 \/ ScanInstruction \/ ScanNextBlock
    PROVE  CompileInv'
<1>1. /\ phase \in VariablesGone /\ phase' \in VariablesGone /\ phase' # "remove_vars"
      /\ cfg' = cfg /\ UNCHANGED <<todo, reachable>>
      /\ warnings' = warnings \/ \E v, s, line : warnings' = warnings \o UndefinedWarning(v, s, line)
  BY DEF VariablesRemoved, StartScan, ScanOperand, ScanInstruction, ScanNextBlock, VariablesGone, passes
<1>2. Compiling /\ List(warnings) /\ IsGraph(cfg)
  BY <1>1, WhileSimplifying DEF CompileInv, LinkInv, JumpsInv, VariablesGone
<1>3. \A v, s, line : List(UndefinedWarning(v, s, line))
  BY ShortLists DEF UndefinedWarning
<1>4. List(warnings') /\ ToSet(warnings) \subseteq ToSet(warnings')
  <2>1. CASE warnings' = warnings
    BY <1>2, <2>1
  <2>2. CASE \E v, s, line : warnings' = warnings \o UndefinedWarning(v, s, line)
    <3>1. PICK w : warnings' = warnings \o w /\ List(w)
      BY <1>3, <2>2
    <3>. QED  BY <1>2, <3>1, ConcatList
  <2>. QED  BY <1>1, <2>1, <2>2
<1>5. /\ LinkInv' /\ JumpsInv' /\ SearchInv' /\ BlocksInv' /\ AnalysesInv' /\ ReturnInv' /\ RunInv'
      /\ UNCHANGED <<built, function>>
  BY <1>1, <1>2, <1>4, LastPassStays
<1>6. VariablesInv'
  BY <1>1, <1>2, <1>5, VariablesStay DEF CompileInv
<1>. QED  BY <1>5, <1>6 DEF CompileInv
-----------------------------------------------------------------------------
\* After the removal of blocks: what the simplifier has made of the graph.
LEMMA PrunedGraph ==
    ASSUME CompileInv, Compiling, phase \in BlocksGone, NEW g, g = built, NEW h, h = Pruned
    PROVE  /\ SoundGraph(function, g) /\ WellFormed(h) /\ PointersGoToTemporaries(h) /\ PartOf(h, g)
           /\ BlockSet(h) = reachable \cup {EndBlock} /\ BlockSet(h) = BlockSet(cfg)
           /\ \A b : Targets(h, b) = Targets(cfg, b)
           /\ \A b \in reachable : Targets(h, b) \subseteq reachable
           /\ StartBlock \in reachable
<1>1. SoundGraph(function, g)
  BY CompilingIsSound DEF CompileInv
<1>2. h.all_blocks = cfg.all_blocks /\ h.block = cfg.block /\ h.variables = g.variables
  BY DEF Pruned
<1>3. phase # "clean_jumps" /\ phase # "reachability" /\ phase \notin WalkingBlocks
  BY DEF BlocksGone, WalkingBlocks
<1>4. PICK r : Fixpoint(g, r) /\ Cut(g, r, cfg)
  BY <1>3 DEF CompileInv, JumpsInv
<1>5. Narrowed(g, cfg) /\ Searched(g, cfg, reachable, todo) /\ todo = << >>
  BY <1>1, <1>3, <1>4, CutNarrows DEF CompileInv, SearchInv
<1>6. /\ Narrowed(g, h) /\ Searched(g, h, reachable, todo)
      /\ \A b : Targets(h, b) = Targets(cfg, b)
  BY <1>2, <1>5, SameJumpsSearched
<1>7. BlockSet(h) = BlockSet(cfg)
  BY <1>2 DEF BlockSet
<1>8. /\ List(h.all_blocks) /\ h.all_blocks[1] = StartBlock
      /\ BlockSet(h) = reachable \cup {EndBlock}
  BY <1>2, <1>3, <1>7 DEF CompileInv, BlocksInv
<1>9. WellFormed(h) /\ PointersGoToTemporaries(h) /\ PartOf(h, g)
  BY <1>1, <1>2, <1>5, <1>6, <1>8, PrunedIsSound
<1>10. StartBlock \in reachable /\ \A b \in reachable : Targets(h, b) \subseteq reachable
  BY <1>5, <1>6, ShortLists DEF Searched
<1>. QED  BY <1>1, <1>6, <1>7, <1>8, <1>9, <1>10

\* An execution does not notice the cut: at the end of a block the statuses
\* describe the variable the branch is on.
LEMMA CutIsNotMissed ==
    ASSUME NEW f, NEW g, NEW r, NEW h, SoundGraph(f, g), Fixpoint(g, r), Cut(g, r, h),
           running = g, Within(g, r), Jump
    PROVE  pc' \in Targets(h, pc)
<1>1. WellFormed(g) /\ pc \in BlockSet(g) /\ pc # EndBlock /\ BlockEnded
  BY DEF SoundGraph, Within, Jump
<1>2. DOMAIN g.block = BlockSet(g) /\ Narrowed(g, h)
  BY CutNarrows DEF SoundGraph
<1>3. PICK x, y, v : x = g.block[pc].iftrue /\ y = g.block[pc].iffalse /\ v = g.block[pc].branchvar
  OBVIOUS
<1>4. Targets(h, pc) = {h.block[pc].iftrue, h.block[pc].iffalse}
  BY <1>1, <1>2 DEF Narrowed
<1>5. pc' \in {x, y}
  BY <1>3 DEF Jump
<1>6. /\ \/ h.block[pc].iftrue = x
         \/ Conditional(g, pc) /\ r[pc][v] = "FALSE" /\ h.block[pc].iftrue = y
      /\ \/ h.block[pc].iffalse = y
         \/ Conditional(g, pc) /\ r[pc][v] = "TRUE" /\ h.block[pc].iffalse = x
  BY <1>1, <1>2, <1>3 DEF Cut
<1>7. CASE ~Conditional(g, pc)
  BY <1>4, <1>5, <1>6, <1>7
<1>8. CASE Conditional(g, pc)
  <2>1. v \in VarSet(g)
    BY <1>1, <1>3, <1>8 DEF WellFormed, BlockOK
  <2>2. Described(g, r[pc], memory, addressed)
    BY <1>1, BlockEndDescribed
  <2>3. /\ r[pc] \in StatusesOf(g) /\ OnlyAddressed(g, r[pc])
        /\ PartOf(g, running) /\ memory \in [VarSet(g) -> Values]
    BY <1>1 DEF Fixpoint, Within
  <2>4. r[pc][v] # "UNPREDICTABLE" => Reads(v) \subseteq MayHold(r[pc][v])
    BY <2>1, <2>2, <2>3, ReadsDescribed
  <2>5. Reads(v) # {}
    BY DEF Reads, DefinedValues
  <2>6. r[pc][v] = "TRUE" => Reads(v) = {"TRUE"}
    BY <2>4, <2>5, MayHoldTable
  <2>7. r[pc][v] = "FALSE" => Reads(v) = {"FALSE"}
    BY <2>4, <2>5, MayHoldTable
  <2>8. pc' \in CASE Reads(v) = {"TRUE"} -> {x}
                  [] Reads(v) = {"FALSE"} -> {y}
                  [] OTHER -> {x, y}
    BY <1>3, <1>8 DEF Jump
  <2>9. /\ Reads(v) = {"TRUE"} => pc' = x
        /\ Reads(v) = {"FALSE"} => pc' = y
    BY <2>8
  <2>10. CASE r[pc][v] = "TRUE"
    BY <1>4, <1>6, <2>6, <2>9, <2>10
  <2>11. CASE r[pc][v] = "FALSE"
    BY <1>4, <1>6, <2>7, <2>9, <2>11
  <2>12. CASE r[pc][v] \notin {"TRUE", "FALSE"}
    BY <1>4, <1>5, <1>6, <2>12
  <2>. QED  BY <2>10, <2>11, <2>12
<1>. QED  BY <1>7, <1>8

LEMMA JumpSurvives ==
    ASSUME CompileInv, Jump
    PROVE  /\ phase \in {"done", "failed"} /\ Compiling /\ pc # NoBlock
           /\ pc' \in Targets(cfg, pc) \cap reachable
<1>1. pc # NoBlock /\ pc # EndBlock
  BY DEF Jump
<1>2. phase \in {"done", "failed"} /\ Compiling /\ running = built /\ pc \in BlockSet(cfg)
  BY <1>1 DEF CompileInv, RunInv, LinkInv
<1>3. phase # "clean_jumps" /\ phase \in BlocksGone
  BY <1>2 DEF BlocksGone
<1>4. PICK r : Fixpoint(built, r) /\ Cut(built, r, cfg) /\ Within(built, r)
  BY <1>1, <1>2, <1>3 DEF CompileInv, JumpsInv
<1>5. PICK g, h, k : g = built /\ h = cfg /\ k = Pruned
  OBVIOUS
<1>6. /\ SoundGraph(function, g) /\ BlockSet(k) = reachable \cup {EndBlock} /\ BlockSet(k) = BlockSet(h)
      /\ \A b \in reachable : Targets(h, b) \subseteq reachable
  BY <1>2, <1>3, <1>5, PrunedGraph
<1>7. pc' \in Targets(h, pc)
  BY <1>2, <1>4, <1>5, <1>6, CutIsNotMissed
<1>8. pc \in reachable
  BY <1>1, <1>2, <1>5, <1>6
<1>. QED  BY <1>1, <1>2, <1>5, <1>6, <1>7, <1>8
-----------------------------------------------------------------------------
\* While the function runs, the compiler is at rest.
LEMMA CompilerRests ==
    ASSUME CompileInv, UNCHANGED <<buildVars, analysisVars, simplifyVars, built>>,
           phase \in {"done", "failed"}, Compiling
    PROVE  /\ LinkInv' /\ SearchInv' /\ BlocksInv' /\ VariablesInv' /\ AnalysesInv'
           /\ Compiling' /\ UNCHANGED <<built, cfg, phase, returntype_line, warnings>>
<1>1. /\ UNCHANGED <<built, cfg, phase, returntype_line, warnings, todo, reachable, function, at>>
      /\ UNCHANGED <<buildVars, built>> /\ UNCHANGED returntype_line /\ UNCHANGED <<built, reachable>>
      /\ UNCHANGED <<todo, reachable>> /\ cfg' = cfg
  BY DEF buildVars, analysisVars, simplifyVars, passes
<1>2. LinkInv' /\ Compiling'
  BY <1>1, LinkStays DEF CompileInv, LinkInv
<1>3. SearchInv'
  BY <1>1, SearchStays DEF CompileInv, SearchInv
<1>4. BlocksInv'
  BY <1>1, BlocksStay DEF CompileInv, BlocksGone
<1>5. VariablesInv'
  BY <1>1, VariablesStay DEF CompileInv
<1>6. AnalysesInv'
  BY <1>1 DEF AnalysesInv
<1>. QED  BY <1>1, <1>2, <1>3, <1>4, <1>5, <1>6

LEMMA CallFunctionKeeps == ASSUME CompileInv, CallFunction PROVE CompileInv'
<1>1. /\ phase \in {"done", "failed"} /\ Compiling /\ pc = NoBlock /\ StartRun(built)
      /\ UNCHANGED <<buildVars, analysisVars, simplifyVars, built>>
      /\ phase # "clean_jumps" /\ phase \in BlocksGone
  BY DEF CallFunction, Compiling, BlocksGone
<1>2. /\ LinkInv' /\ SearchInv' /\ BlocksInv' /\ VariablesInv' /\ AnalysesInv'
      /\ Compiling' /\ UNCHANGED <<built, cfg, phase, returntype_line, warnings>>
  BY <1>1, CompilerRests
<1>3. PICK g, h : g = built /\ h = Pruned
  OBVIOUS
<1>4. /\ SoundGraph(function, g) /\ WellFormed(g) /\ WellFormed(h) /\ PartOf(g, g) /\ PartOf(h, g)
      /\ StartBlock \in BlockSet(cfg) /\ StartRun(g)
  BY <1>1, <1>3, PrunedGraph DEF SoundGraph, PartOf
<1>5. built' = g /\ Pruned' = h
  BY <1>2, <1>3 DEF Pruned
<1>6. JumpsInv'
  <2>1. PICK r : Fixpoint(g, r) /\ Cut(g, r, cfg)
    BY <1>1, <1>3 DEF CompileInv, JumpsInv
  <2>2. Within(g, r)'
    BY <1>4, <2>1, StartRunWithin
  <2>3. Within(built, r)'
    BY <1>5, <2>2 DEF Within
  <2>. QED  BY <1>1, <1>2, <1>3, <1>5, <2>1, <2>3 DEF CompileInv, JumpsInv
<1>7. ReturnInv'
  <2>. SUFFICES ASSUME phase = "failed" \/ (returntype_line # 0 /\ phase \in VariablesGone \cup {"unused"})
                PROVE  ReturnInv'
    BY <1>2 DEF ReturnInv
  <2>1. PICK q, v : Fixpoint(h, q) /\ v \in ReturnSlots(g) /\ Verdict(q, v)
    BY <1>1, <1>3 DEF CompileInv, ReturnInv
  <2>2. Within(h, q)'
    BY <1>4, <2>1, StartRunWithin
  <2>3. Within(Pruned, q)'
    BY <1>5, <2>2 DEF Within
  <2>4. Verdict(q, v)'
    BY <1>2, <2>1 DEF Verdict, Warned
  <2>. QED  BY <1>5, <2>1, <2>3, <2>4 DEF ReturnInv
<1>8. RunInv'
  BY <1>1, <1>2, <1>3, <1>4 DEF RunInv, StartRun
<1>. QED  BY <1>2, <1>6, <1>7, <1>8 DEF CompileInv

LEMMA RunKeeps == ASSUME CompileInv, Run PROVE CompileInv'
<1>1. RunStep /\ UNCHANGED <<buildVars, analysisVars, simplifyVars, built>> /\ pc # NoBlock
  BY DEF Run, RunStep, Execute, Executing, Jump
<1>2. /\ phase \in {"done", "failed"} /\ Compiling /\ running = built /\ pc \in BlockSet(cfg)
      /\ phase # "clean_jumps" /\ phase \in BlocksGone
  BY <1>1 DEF CompileInv, RunInv, LinkInv, BlocksGone
<1>3. /\ LinkInv' /\ SearchInv' /\ BlocksInv' /\ VariablesInv' /\ AnalysesInv'
      /\ Compiling' /\ UNCHANGED <<built, cfg, phase, returntype_line, warnings>>
  BY <1>1, <1>2, CompilerRests
<1>4. PICK g, h : g = built /\ h = Pruned
  OBVIOUS
<1>5. /\ SoundGraph(function, g) /\ WellFormed(g) /\ PointersGoToTemporaries(g)
      /\ WellFormed(h) /\ PointersGoToTemporaries(h)
      /\ BlockSet(h) = reachable \cup {EndBlock} /\ BlockSet(h) = BlockSet(cfg)
      /\ \A b : Targets(h, b) = Targets(cfg, b)
  BY <1>2, <1>4, PrunedGraph DEF SoundGraph
<1>6. built' = g /\ Pruned' = h
  BY <1>3, <1>4 DEF Pruned
<1>7. PICK r : Fixpoint(g, r) /\ Cut(g, r, cfg) /\ Within(g, r)
  BY <1>1, <1>2, <1>4 DEF CompileInv, JumpsInv
<1>8. Jump => pc' \in Targets(cfg, pc) /\ pc' \in reachable /\ pc' \in Targets(g, pc)
  <2>1. Jump => pc' \in Targets(cfg, pc) /\ pc' \in reachable
    BY JumpSurvives
  <2>2. Targets(cfg, pc) \subseteq Targets(g, pc)
    BY <1>5, <1>7, CutNarrows DEF Narrowed, Within
  <2>. QED  BY <2>1, <2>2
<1>9. JumpsInv'
  <2>1. Within(g, r)'
    BY <1>1, <1>5, <1>7, <1>8, RunStepWithin
  <2>2. Within(built, r)'
    BY <1>6, <2>1 DEF Within
  <2>3. IsGraph(cfg)
    BY <1>2 DEF CompileInv, JumpsInv
  <2>. QED  BY <1>2, <1>3, <1>6, <1>7, <2>2, <2>3 DEF JumpsInv
<1>10. ReturnInv'
  <2>. SUFFICES ASSUME phase = "failed" \/ (returntype_line # 0 /\ phase \in VariablesGone \cup {"unused"})
                PROVE  ReturnInv'
    BY <1>3 DEF ReturnInv
  <2>1. PICK q, v : Fixpoint(h, q) /\ v \in ReturnSlots(g) /\ Verdict(q, v) /\ Within(h, q)
    BY <1>1, <1>2, <1>4 DEF CompileInv, ReturnInv
  <2>2. Jump => pc' \in Targets(h, pc)
    BY <1>5, <1>8
  <2>3. Within(h, q)'
    BY <1>1, <1>5, <2>1, <2>2, RunStepWithin
  <2>4. Within(Pruned, q)'
    BY <1>6, <2>3 DEF Within
  <2>5. Verdict(q, v)'
    BY <1>3, <2>1 DEF Verdict, Warned
  <2>. QED  BY <1>6, <2>1, <2>4, <2>5 DEF ReturnInv
<1>11. RunInv'
  <2>1. running' = running /\ (pc' = pc \/ Jump)
    BY <1>1 DEF RunStep, Execute, Jump
  <2>2. pc' \in BlockSet(cfg)
    BY <1>2, <1>5, <1>8, <2>1
  <2>. QED  BY <1>2, <1>3, <2>1, <2>2 DEF RunInv
<1>. QED  BY <1>3, <1>9, <1>10, <1>11 DEF CompileInv

LEMMA CompileStutterKeeps == ASSUME CompileInv, UNCHANGED vars PROVE CompileInv'
<1>1. /\ UNCHANGED <<buildVars, analysisVars, runVars, built, phase, todo, reachable, at,
                     warnings, returntype_line, cfg, pc, running>>
      /\ UNCHANGED <<function, agenda, build_error>>
  BY DEF vars, buildVars, analysisVars, simplifyVars, passes, runVars
<1>2. BuildInv' /\ BuildDone' = BuildDone /\ BuiltCfg' = BuiltCfg
  BY <1>1, BuildStutterKeeps DEF CompileInv, LinkInv, BuildDone, BuiltCfg, buildVars
<1>3. Compiling' = Compiling
  BY <1>1 DEF Compiling
<1>4. LinkInv'
  BY <1>1, <1>2, <1>3 DEF CompileInv, LinkInv
<1>5. \A g, r : Within(g, r)' = Within(g, r)
  BY <1>1 DEF Within, runVars
<1>6. JumpsInv'
  BY <1>1, <1>3, <1>5 DEF CompileInv, JumpsInv
<1>7. SearchInv' /\ RunInv'
  BY <1>1, <1>3 DEF CompileInv, SearchInv, RunInv
<1>8. BlocksInv'
  BY <1>1, <1>3 DEF CompileInv, BlocksInv, ShouldGo
<1>9. VariablesInv'
  BY <1>1, <1>3 DEF CompileInv, VariablesInv
<1>10. AnalysesInv'
  BY <1>1, <1>3, SoundStutterKeeps DEF CompileInv, AnalysesInv
<1>11. ReturnInv'
  <2>1. Pruned' = Pruned /\ \A q, v : Verdict(q, v)' = Verdict(q, v)
    BY <1>1 DEF Pruned, Verdict, Warned
  <2>. QED  BY <1>1, <1>3, <1>5, <2>1 DEF CompileInv, ReturnInv
<1>. QED  BY <1>4, <1>6, <1>7, <1>8, <1>9, <1>10, <1>11 DEF CompileInv

LEMMA CompileInvKept == CompileInv /\ [Next]_vars => CompileInv'
<1>. SUFFICES ASSUME CompileInv, [Next]_vars PROVE CompileInv'
  OBVIOUS
<1>1. CASE Simplify
  BY <1>1, AnalyseKeeps, CleanJumpsKeeps, MarkReachableKeeps, ReportingKeeps, RemoveGivenBlockKeeps,
     BlocksRemovedKeeps, ErrorAboutMissingReturnKeeps, FindUsedVariablesKeeps,
     RemoveUnusedVariableKeeps, ScanKeeps DEF Simplify, SimplifyStep
<1>. QED  BY <1>1, BuildKeeps, FinishFunctionKeeps, BuildFailsKeeps, CallFunctionKeeps, RunKeeps,
             CompileStutterKeeps DEF Next, CompileStep, Stopped

\* The simplifier's invariant, for every function the checker lets through.
THEOREM CompilerIsSound == Spec => []CompileInv
BY InitCompileInv, CompileInvKept, PTL DEF Spec
-----------------------------------------------------------------------------
\* Every graph build_function returns for a checked function is sound: every
\* block but the end one has its jump, branches are on bools, the stacks of
\* the loops are empty again and no value is left unused.
THEOREM BuildFunctionIsSound == Spec => []BuiltGraphIsSound
<1>1. ASSUME CompileInv, BuildDone PROVE BuiltGraphIsSound
  <2>1. BuildInv
    BY <1>1 DEF CompileInv, LinkInv
  <2>2. WellFormed(BuiltCfg) /\ st.breakstack = << >> /\ st.continuestack = << >> /\ values = << >>
    BY <1>1, <2>1, BuiltWellFormed, NothingIsLeft
  <2>3. \A b \in BlockSet(BuiltCfg) \ {EndBlock} : Conditional(BuiltCfg, b) =>
            VariableOf(BuiltCfg, st.block[b].branchvar).type = boolType
    BY <1>1, <2>1, BranchesAreDecided
  <2>. QED  BY <2>2, <2>3 DEF BuiltGraphIsSound
<1>2. CompileInv => BuiltGraphIsSound
  BY <1>1 DEF BuiltGraphIsSound
<1>. QED  BY <1>2, CompilerIsSound, PTL

\* No execution takes a jump that clean_jumps_where_condition_always_true_or_
\* always_false has cut, or goes to a block that was removed.
THEOREM JumpsAreKept == Spec => JumpsSurvive
<1>1. ASSUME CompileInv, [Next]_vars, pc' # pc, pc # NoBlock, phase = "done"
      PROVE  pc' \in Targets(cfg, pc) \cap BlockSet(cfg)
  <2>1. Jump
    BY <1>1 DEF Next, CompileStep, Build, FinishFunction, BuildFails, Simplify, CallFunction, Run,
                RunStep, Execute, Stopped, vars, runVars
  <2>2. Compiling /\ pc' \in Targets(cfg, pc) \cap reachable
    BY <1>1, <2>1, JumpSurvives
  <2>3. PICK g, h : g = built /\ h = Pruned
    OBVIOUS
  <2>4. reachable \subseteq BlockSet(cfg)
    BY <1>1, <2>2, <2>3, PrunedGraph DEF BlocksGone
  <2>. QED  BY <2>2, <2>4
<1>2. CompileInv /\ [Next]_vars =>
        [pc' # pc /\ pc # NoBlock /\ phase = "done"
            => pc' \in Targets(cfg, pc) \cap BlockSet(cfg)]_vars
  BY <1>1
<1>. QED  BY <1>2, CompilerIsSound, PTL DEF Spec, JumpsSurvive

\* remove_unreachable_blocks leaves exactly what can be reached: everything a
\* kept block jumps to is kept, and whatever is closed under jumps holds all
\* that is kept.
THEOREM NothingElseIsKept == Spec => []OnlyReachableCodeIsKept
<1>1. ASSUME CompileInv, phase = "done"
      PROVE  /\ ClosedUnderJumps(BlockSet(cfg))
             /\ \A S \in SUBSET BlockSet(cfg) : ClosedUnderJumps(S) => BlockSet(cfg) \subseteq S \cup {EndBlock}
  <2>1. Compiling /\ phase \in BlocksGone /\ phase # "clean_jumps" /\ phase # "reachability"
    BY <1>1 DEF CompileInv, LinkInv, Compiling, BlocksGone
  <2>2. PICK g, h : g = built /\ h = Pruned
    OBVIOUS
  <2>3. /\ WellFormed(h) /\ PartOf(h, g) /\ BlockSet(h) = reachable \cup {EndBlock} /\ BlockSet(h) = BlockSet(cfg)
        /\ \A b : Targets(h, b) = Targets(cfg, b)
        /\ \A b \in reachable : Targets(h, b) \subseteq reachable
        /\ StartBlock \in reachable
    BY <1>1, <2>1, <2>2, PrunedGraph
  <2>4. ClosedUnderJumps(BlockSet(cfg))
    <3>1. Targets(h, EndBlock) = {}
      BY <2>3 DEF WellFormed
    <3>. QED  BY <2>3, <3>1 DEF ClosedUnderJumps
  <2>5. ASSUME NEW S \in SUBSET BlockSet(cfg), ClosedUnderJumps(S)
        PROVE  BlockSet(cfg) \subseteq S \cup {EndBlock}
    <3>1. Searched(g, cfg, reachable, todo)
      BY <1>1, <2>1, <2>2 DEF CompileInv, SearchInv
    <3>2. S \in SUBSET BlockSet(g)
      BY <2>3, <2>5 DEF PartOf
    <3>3. StartBlock \in S /\ \A b \in S : Targets(cfg, b) \subseteq S
      BY <2>5 DEF ClosedUnderJumps
    <3>4. reachable \subseteq S
      BY <3>1, <3>2, <3>3 DEF Searched
    <3>. QED  BY <2>3, <3>4
  <2>. QED  BY <2>4, <2>5
<1>2. CompileInv => OnlyReachableCodeIsKept
  BY <1>1 DEF OnlyReachableCodeIsKept
<1>. QED  BY <1>2, CompilerIsSound, PTL

\* remove_unused_variables, which refills gaps from the end of the list, does
\* not disturb the arguments, which codegen finds by their places.
THEOREM ArgumentsKeepTheirPlaces == Spec => []ArgumentsStayFirst
<1>1. CompileInv => ArgumentsStayFirst
  <2>. SUFFICES ASSUME CompileInv, phase = "done" PROVE ArgumentsStayFirst
    BY DEF ArgumentsStayFirst
  <2>1. Compiling
    BY DEF CompileInv, LinkInv, Compiling
  <2>. QED  BY <2>1 DEF CompileInv, VariablesInv, ArgumentsStayFirst
<1>. QED  BY <1>1, CompilerIsSound, PTL
-----------------------------------------------------------------------------
LEMMA RunningIsCompiled ==
    ASSUME CompileInv, RunEnded
    PROVE  pc = EndBlock /\ pc # NoBlock /\ Compiling
<1>1. EndBlock # NoBlock
  BY DEF EndBlock, NoBlock
<1>2. pc = EndBlock
  BY DEF RunEnded
<1>3. ~Compiling => pc = NoBlock
  BY DEF CompileInv, LinkInv
<1>. QED  BY <1>1, <1>2, <1>3

\* What an execution has in the return value when it comes to the end.
LEMMA EndDescribed ==
    ASSUME CompileInv, RunEnded, phase = "failed" \/ (phase = "done" /\ returntype_line # 0),
           NEW v \in ReturnSlots(built)
    PROVE  \E s \in VarStatuses :
            /\ memory[v] \in MayHold(s) /\ s # "UNPREDICTABLE"
            /\ IF phase = "failed" THEN s = "UNDEFINED"
               ELSE /\ s # "UNDEFINED"
                    /\ s = "POSSIBLY_UNDEFINED" =>
                        Warned("doesn't seem to return a value in all cases") # {}
<1>1. /\ pc = EndBlock /\ pc # NoBlock /\ Compiling /\ phase \in BlocksGone
  BY RunningIsCompiled DEF BlocksGone
<1>2. PICK g, h : g = built /\ h = Pruned
  OBVIOUS
<1>3. /\ SoundGraph(function, g) /\ WellFormed(h) /\ PartOf(h, g)
  BY <1>1, <1>2, PrunedGraph
<1>4. PICK q, w : Fixpoint(h, q) /\ w \in ReturnSlots(g) /\ Verdict(q, w) /\ Within(h, q)
  BY <1>1, <1>2 DEF CompileInv, ReturnInv, VariablesGone
<1>5. w = v /\ v \notin AddressTaken(g)
  BY <1>2, <1>3, <1>4 DEF SoundGraph
<1>6. BlockEnded
  <2>1. running = g
    BY <1>1, <1>2 DEF CompileInv, RunInv
  <2>2. g.block[EndBlock].instructions = << >> /\ h.block[EndBlock].instructions = << >>
    BY <1>3 DEF SoundGraph, WellFormed
  <2>3. Len(<< >>) = 0
    OBVIOUS
  <2>4. ip \in 1 .. 0 + 1
    BY <1>1, <1>4, <2>2, <2>3 DEF Within, InstructionCount
  <2>. QED  BY <1>1, <2>1, <2>2, <2>3, <2>4 DEF BlockEnded
<1>7. Described(h, q[EndBlock], memory, addressed)
  BY <1>1, <1>3, <1>4, <1>6, BlockEndDescribed
<1>8. v \in VarSet(h) /\ v \notin AddressTaken(h)
  BY <1>2, <1>3, <1>5, PartOfBasics DEF ReturnSlots, VarSet
<1>9. /\ q[EndBlock] \in StatusesOf(h) /\ OnlyAddressed(h, q[EndBlock])
  BY <1>3, <1>4 DEF Fixpoint, WellFormed
<1>10. PICK s : s = q[EndBlock][v]
  OBVIOUS
<1>11. s \in VarStatuses /\ memory[v] \in MayHold(s) /\ s # "UNPREDICTABLE"
  BY <1>7, <1>8, <1>9, <1>10 DEF Described, OnlyAddressed, StatusesOf
<1>. QED  BY <1>4, <1>5, <1>10, <1>11 DEF Verdict

\* error_about_missing_return rejects a function only if no call of it comes
\* to its end with a return value.
THEOREM OnlyGarbageIsRejected == Spec => []RejectedReturnsGarbage
<1>1. CompileInv => RejectedReturnsGarbage
  <2>. SUFFICES ASSUME CompileInv, phase = "failed", RunEnded, NEW v \in ReturnSlots(built)
                PROVE  memory[v] \in Garbage
    BY DEF RejectedReturnsGarbage
  <2>1. PICK s \in VarStatuses : memory[v] \in MayHold(s) /\ s = "UNDEFINED"
    BY EndDescribed
  <2>. QED  BY <2>1, MayHoldTable DEF Garbage
<1>. QED  BY <1>1, CompilerIsSound, PTL

\* If error_about_missing_return says nothing, every call that comes to the
\* end of the function has set the return value.
THEOREM GarbageIsNotReturnedSilently == Spec => []MissingReturnIsNoticed
<1>1. CompileInv => MissingReturnIsNoticed
  <2>. SUFFICES ASSUME CompileInv, phase = "done", RunEnded, NEW v \in ReturnSlots(built),
                       memory[v] = "garbage"
                PROVE  Warned("doesn't seem to return a value in all cases") # {}
    BY DEF MissingReturnIsNoticed
  <2>1. Compiling
    BY RunningIsCompiled
  <2>2. function.returntype # NoType
    BY <2>1, CompilingIsSound DEF CompileInv, SoundGraph
  <2>3. function.line \in Nat \ {0}
    BY <2>1, NothingIsLeft, FunctionsAssumption DEF CompileInv, LinkInv, FunctionOK
  <2>4. returntype_line # 0
    BY <2>2, <2>3 DEF CompileInv, LinkInv
  <2>5. PICK s \in VarStatuses :
            /\ "garbage" \in MayHold(s) /\ s # "UNPREDICTABLE" /\ s # "UNDEFINED"
            /\ s = "POSSIBLY_UNDEFINED" =>
                    Warned("doesn't seem to return a value in all cases") # {}
    BY <2>4, EndDescribed
  <2>6. s = "POSSIBLY_UNDEFINED"
    BY <2>5, MayHoldTable DEF VarStatuses
  <2>. QED  BY <2>5, <2>6
<1>. QED  BY <1>1, CompilerIsSound, PTL
-----------------------------------------------------------------------------
\* What an execution has set so far, or has a pointer to, includes what is
\* known at its place.
SetSoFar(K) ==
    /\ K[pc] \cup ProvidedBy(function, st.block[pc].instructions, ip - 1) \subseteq written \cup addressed
    /\ \A v \in addressed : \E ins \in InstructionsIn(st) :
            ins.kind = "ADDRESS_OF_VARIABLE" /\ v \in OperandSet(ins)
TempsInv == \E K : /\ Ordered(function, K, st, agenda, values)
                   /\ pc # NoBlock => SetSoFar(K)

LEMMA TempsStay ==
    ASSUME TempsInv, UNCHANGED buildVars, UNCHANGED runVars
    PROVE  TempsInv'
BY DEF TempsInv, SetSoFar, buildVars, runVars

LEMMA BuildTemps ==
    ASSUME CompileInv, TempsInv, Build
    PROVE  TempsInv'
<1>1. BuildStep /\ pc' = pc /\ ~ Compiling /\ BuildInv /\ pc = NoBlock
  BY DEF Build, runVars, Compiling, CompileInv, LinkInv
<1>2. OrderInv
  BY DEF TempsInv, OrderInv
<1>3. OrderInv'
  BY <1>1, <1>2, BuildStepOrders
<1>. QED  BY <1>1, <1>3 DEF TempsInv, OrderInv

\* The place of an execution in the graph, as the builder's state has it.
LEMMA PlaceInBuilt ==
    ASSUME CompileInv, pc # NoBlock
    PROVE  /\ Compiling /\ BuildInv /\ BuildDone /\ StateFits(function, st) /\ function \in Functions
           /\ running.block = st.block /\ running = BuiltCfg
           /\ pc \in DOMAIN st.block /\ pc \in Nat
           /\ List(st.block[pc].instructions)
           /\ ip \in 1 .. Len(st.block[pc].instructions) + 1
           /\ WellFormed(running)
           /\ pc # EndBlock => {st.block[pc].iftrue, st.block[pc].iffalse} \subseteq DOMAIN st.block
           /\ NoBlock \notin DOMAIN st.block
<1>1. Compiling /\ BuildInv /\ BuildDone /\ built = BuiltCfg /\ running = built /\ pc \in BlockSet(cfg)
      /\ phase \in {"done", "failed"}
  BY DEF CompileInv, LinkInv, RunInv
<1>2. StateFits(function, st) /\ function \in Functions
  BY <1>1, NothingIsLeft
<1>3. BlockSet(built) = DOMAIN st.block /\ built.block = st.block
  BY <1>1, <1>2, BuiltParts
<1>4. pc \in BlockSet(built)
  BY <1>1 DEF CompileInv, BlocksInv
<1>5. WellFormed(built)
  BY <1>1, BuiltWellFormed
<1>6. \E r : Within(built, r)
  BY <1>1 DEF CompileInv, JumpsInv
<1>7. ip \in 1 .. Len(st.block[pc].instructions) + 1
  BY <1>3, <1>6 DEF Within, InstructionCount
<1>8. List(st.block[pc].instructions)
  BY <1>2, <1>3, <1>4 DEF StateFits, BlocksFit
<1>9. pc # EndBlock => {st.block[pc].iftrue, st.block[pc].iffalse} \subseteq DOMAIN st.block
  BY <1>3, <1>4, <1>5 DEF WellFormed, BlockOK
<1>10. NoBlock \notin DOMAIN st.block
  BY <1>3, <1>5 DEF WellFormed
<1>11. pc \in Nat
  BY <1>2, <1>3, <1>4, Lengths
<1>. QED  BY <1>1, <1>2, <1>3, <1>4, <1>5, <1>7, <1>8, <1>9, <1>10, <1>11

LEMMA CallTemps ==
    ASSUME CompileInv, TempsInv, CallFunction
    PROVE  TempsInv'
<1>1. /\ pc' = StartBlock /\ ip' = 1 /\ addressed' = {} /\ UNCHANGED buildVars
  BY DEF CallFunction, StartRun
<1>2. function' = function /\ st' = st /\ agenda' = agenda /\ values' = values
  BY <1>1 DEF buildVars
<1>3. PICK K : Ordered(function, K, st, agenda, values)
  BY DEF TempsInv
<1>4. K[StartBlock] = {}
  BY <1>3 DEF Ordered, InOrder
<1>5. \A q : ProvidedBy(function, q, 1 - 1) = {}
  BY DEF ProvidedBy
<1>6. SetSoFar(K)'
  BY <1>1, <1>2, <1>4, <1>5 DEF SetSoFar
<1>. QED  BY <1>2, <1>3, <1>6 DEF TempsInv

LEMMA RunTemps ==
    ASSUME CompileInv, TempsInv, Run
    PROVE  TempsInv'
<1>1. RunStep /\ UNCHANGED buildVars /\ pc \notin {NoBlock, EndBlock}
  BY DEF Run, RunStep, Execute, Executing, Jump
<1>2. function' = function /\ st' = st /\ agenda' = agenda /\ values' = values
  BY <1>1 DEF buildVars
<1>3. PICK K : Ordered(function, K, st, agenda, values) /\ SetSoFar(K)
  BY <1>1 DEF TempsInv
<1>4. /\ StateFits(function, st) /\ running.block = st.block
      /\ pc \in DOMAIN st.block
      /\ List(st.block[pc].instructions)
      /\ ip \in 1 .. Len(st.block[pc].instructions) + 1
      /\ {st.block[pc].iftrue, st.block[pc].iffalse} \subseteq DOMAIN st.block
      /\ NoBlock \notin DOMAIN st.block
  BY <1>1, PlaceInBuilt
<1>5. PICK q, n : q = st.block[pc].instructions /\ n = ip
  OBVIOUS
<1>6. CASE Execute
  <2>1. /\ ip' = n + 1 /\ pc' = pc /\ n \in 1 .. Len(q) /\ Current = q[n]
        /\ addressed' = IF q[n].kind = "ADDRESS_OF_VARIABLE" THEN addressed \cup OperandSet(q[n]) ELSE addressed
        /\ written' = IF q[n].destvar = NoVar THEN written ELSE written \cup {q[n].destvar}
    BY <1>4, <1>5, <1>6 DEF Execute, Executing, BlockEnded, Current, List
  <2>2. K[pc] \cup ProvidedBy(function, q, n - 1) \subseteq written \cup addressed
    BY <1>3, <1>5 DEF SetSoFar
  <2>3. ProvidedBy(function, q, n) = ProvidedBy(function, q, n - 1) \cup Provides(function, q[n])
    <3>1. 1 .. n = 1 .. n - 1 \cup {n}
      BY <1>4, <1>5
    <3>. QED  BY <3>1 DEF ProvidedBy
  <2>4. Provides(function, q[n]) \subseteq written' \cup addressed'
    <3>1. NoVar \notin Temps(function)
      <4>1. Len(function.variables) \in Nat
        BY <1>4, Lengths
      <4>. QED  BY <4>1 DEF Temps, NoVar
    <3>. QED  BY <2>1, <3>1 DEF Provides
  <2>5. K[pc'] \cup ProvidedBy(function, st'.block[pc'].instructions, ip' - 1) \subseteq written' \cup addressed'
    <3>1. (n + 1) - 1 = n
      BY <2>1
    <3>. QED  BY <1>2, <1>5, <2>1, <2>2, <2>3, <2>4, <3>1
  <2>6. q[n] \in InstructionsIn(st)
    <3>1. q[n] \in ToSet(q)
      BY <1>4, <1>5, <2>1 DEF ToSet, List
    <3>. QED  BY <1>4, <1>5, <3>1 DEF InstructionsIn
  <2>7. \A v \in addressed' : \E ins \in InstructionsIn(st) :
            ins.kind = "ADDRESS_OF_VARIABLE" /\ v \in OperandSet(ins)
    BY <1>3, <2>1, <2>6 DEF SetSoFar
  <2>8. SetSoFar(K)'
    BY <1>2, <2>5, <2>7 DEF SetSoFar
  <2>. QED  BY <1>2, <1>3, <2>8 DEF TempsInv
<1>7. CASE Jump
  <2>1. /\ pc' \in {st.block[pc].iftrue, st.block[pc].iffalse} /\ ip' = 1
        /\ n > Len(q) /\ UNCHANGED <<addressed, written>>
    <3>1. /\ ip' = 1 /\ n > Len(q) /\ UNCHANGED <<addressed, written>>
      BY <1>4, <1>5, <1>7 DEF Jump, BlockEnded
    <3>2. WellFormed(running)
      BY <1>1, PlaceInBuilt
    <3>3. pc' \in Targets(running, pc)
      <4>1. pc \in BlockSet(running)
        BY <1>1, PlaceInBuilt, BuiltParts
      <4>. QED  BY <1>7, <3>2, <4>1, JumpFollows
    <3>. QED  BY <1>4, <3>1, <3>3 DEF Targets
  <2>2. n - 1 = Len(q)
    BY <1>4, <1>5, <2>1 DEF List
  <2>3. After(function, K, st, pc) \subseteq written \cup addressed
    BY <1>3, <1>5, <2>2 DEF SetSoFar, After
  <2>4. BlockInOrder(function, K, st, pc) /\ pc' # NoBlock
    BY <1>3, <1>4, <2>1 DEF Ordered, InOrder
  <2>5. K[pc'] \subseteq After(function, K, st, pc)
    BY <2>1, <2>4 DEF BlockInOrder, JumpInOrder
  <2>6. \A l : ProvidedBy(function, l, 1 - 1) = {}
    BY DEF ProvidedBy
  <2>7. SetSoFar(K)'
    BY <1>2, <1>3, <2>1, <2>3, <2>5, <2>6 DEF SetSoFar
  <2>. QED  BY <1>2, <1>3, <2>7 DEF TempsInv
<1>. QED  BY <1>1, <1>6, <1>7 DEF RunStep

LEMMA TempsInvKept == CompileInv /\ TempsInv /\ [Next]_vars => TempsInv'
<1>. SUFFICES ASSUME CompileInv, TempsInv, [Next]_vars PROVE TempsInv'
  OBVIOUS
<1>1. CASE \/ FinishFunction \/ BuildFails \/ Simplify \/ UNCHANGED vars
  BY <1>1, TempsStay DEF FinishFunction, BuildFails, Simplify, vars
<1>. QED  BY <1>1, BuildTemps, CallTemps, RunTemps DEF Next, CompileStep, Stopped

LEMMA InitTemps == Init => TempsInv
<1>. SUFFICES ASSUME Init PROVE TempsInv
  OBVIOUS
<1>1. OrderInv /\ pc = NoBlock
  BY InitOrder DEF Init, NoRun
<1>. QED  BY <1>1 DEF TempsInv, OrderInv

LEMMA TempsInvShows == CompileInv /\ TempsInv => TemporariesAreSetBeforeUse
<1>. SUFFICES ASSUME CompileInv, TempsInv PROVE TemporariesAreSetBeforeUse
  OBVIOUS
<1>1. CASE pc \in {NoBlock, EndBlock}
  BY <1>1 DEF TemporariesAreSetBeforeUse, Executing
<1>2. CASE pc \notin {NoBlock, EndBlock}
  <2>1. PICK K : Ordered(function, K, st, agenda, values) /\ SetSoFar(K)
    BY <1>2 DEF TempsInv
  <2>2. /\ StateFits(function, st) /\ function \in Functions /\ running.block = st.block
        /\ running = BuiltCfg /\ BuildInv /\ BuildDone
        /\ pc \in DOMAIN st.block
        /\ List(st.block[pc].instructions)
        /\ ip \in 1 .. Len(st.block[pc].instructions) + 1
    BY <1>2, PlaceInBuilt
  <2>3. PICK q, n : q = st.block[pc].instructions /\ n = ip
    OBVIOUS
  <2>4. BlockInOrder(function, K, st, pc) /\ NoBoolPointers(function, st)
    BY <2>1, <2>2 DEF Ordered, InOrder
  <2>5. \A v \in VariablesIn(st) : VariableOf(running, v) = st.variables[v]
    BY <2>2, BuiltParts
  <2>6. ASSUME Executing, NEW v \in ReadBy(Current), VariableOf(running, v).name = ""
        PROVE  v \in written \cup addressed
    <3>1. Current = q[n] /\ n \in 1 .. Len(q)
      <4>1. Len(q) \in Nat /\ n \in 1 .. Len(q) + 1
        BY <2>2, <2>3 DEF List
      <4>2. ~ (n > Len(q)) /\ Current = q[n]
        BY <2>2, <2>3, <2>6 DEF Executing, BlockEnded, Current
      <4>. QED  BY <4>1, <4>2
    <3>2. q[n].kind # "ADDRESS_OF_VARIABLE" /\ v \in OperandSet(q[n])
      BY <2>6, <3>1 DEF ReadBy
    <3>3. q[n] \in InstructionsIn(st)
      <4>1. q[n] \in ToSet(q)
        BY <2>2, <2>3, <3>1 DEF ToSet, List
      <4>. QED  BY <2>2, <2>3, <4>1 DEF InstructionsIn
    <3>4. q[n].operands \in Seq(VariablesIn(st))
      BY <2>2, <3>3 DEF StateFits, BlocksFit, InstructionFits
    <3>5. v \in VariablesIn(st)
      BY <3>2, <3>4 DEF OperandSet
    <3>6. v \notin DOMAIN function.variables
      <4>1. VariablesOK(function)
        BY <2>2, FunctionsAssumption DEF FunctionOK
      <4>2. v \in DOMAIN function.variables => st.variables[v] = function.variables[v]
        BY <2>2 DEF StateFits, VariablesFit
      <4>. QED  BY <2>5, <2>6, <3>5, <4>1, <4>2 DEF VariablesOK
    <3>7. v \in Temps(function)
      <4>1. DOMAIN function.variables = 1 .. Len(function.variables) /\ Len(function.variables) \in Nat
        BY <2>2, Lengths
      <4>2. v \in Nat \ {0}
        BY <3>5 DEF VariablesIn
      <4>. QED  BY <3>6, <4>1, <4>2 DEF Temps
    <3>8. v \in K[pc] \cup ProvidedBy(function, q, n - 1)
      BY <2>3, <2>4, <3>1, <3>2, <3>7 DEF BlockInOrder, CodeInOrder, Needs
    <3>. QED  BY <2>1, <2>3, <3>8 DEF SetSoFar
  <2>7. ASSUME BlockEnded, Conditional(running, pc)
        PROVE  running.block[pc].branchvar \in written
    <3>1. PICK v : v = running.block[pc].branchvar
      OBVIOUS
    <3>2. n - 1 = Len(q)
      BY <2>2, <2>3, <2>7 DEF BlockEnded, List
    <3>3. v \in After(function, K, st, pc)
      BY <2>2, <2>4, <2>7, <3>1 DEF BlockInOrder, JumpInOrder, Conditional
    <3>4. v \in written \cup addressed
      BY <2>1, <2>3, <3>2, <3>3 DEF After, SetSoFar
    <3>5. v \in Temps(function)
      <4>1. K[pc] \subseteq Temps(function)
        <5>1. pc \in Nat
          BY <2>2, Lengths
        <5>. QED  BY <2>1, <5>1 DEF Ordered, InOrder
      <4>. QED  BY <3>3, <4>1 DEF After, ProvidedBy, Provides
    <3>6. TypeOf(st, v) = boolType
      <4>1. pc \notin Unfinished(st)
        BY <2>2, NothingIsLeft
      <4>2. pc \in InnerBlocks(st)
        BY <1>2, <2>2 DEF InnerBlocks
      <4>. QED  BY <2>2, <2>7, <3>1, <4>1, <4>2 DEF Unfinished, JumpIsSet, Conditional
    <3>7. v \notin addressed
      <4>. SUFFICES ASSUME v \in addressed PROVE FALSE
        OBVIOUS
      <4>1. PICK ins \in InstructionsIn(st) : ins.kind = "ADDRESS_OF_VARIABLE" /\ v \in OperandSet(ins)
        BY <2>1 DEF SetSoFar
      <4>. QED  BY <2>4, <3>5, <3>6, <4>1 DEF NoBoolPointers
    <3>. QED  BY <3>1, <3>4, <3>7
  <2>. QED  BY <2>6, <2>7 DEF TemporariesAreSetBeforeUse
<1>. QED  BY <1>1, <1>2

\* No execution reads a variable the builder made up before it is set or
\* something points to it; what a branch looks at is always set.
THEOREM TemporariesAreSet == Spec => []TemporariesAreSetBeforeUse
BY InitCompileInv, CompileInvKept, InitTemps, TempsInvKept, TempsInvShows, PTL DEF Spec
-----------------------------------------------------------------------------
\* What the instructions that are left mention, and what they set or let a
\* pointer set.
UsedIn(g) ==
    {v \in VarSet(g) : \E b \in BlockSet(g) : \E ins \in InstructionsOf(g, b) :
        v = ins.destvar \/ v \in OperandSet(ins)}
SetSomewhere ==
    {v \in VarSet(built) : \E b \in reachable : \E ins \in InstructionsOf(built, b) :
        v = ins.destvar \/ (ins.kind = "ADDRESS_OF_VARIABLE" /\ v \in OperandSet(ins))}

\* The blocks execution can know more in than is set anywhere are none: the
\* others are closed under jumps.
LEMMA KnownIsSetSomewhere ==
    ASSUME CompileInv, Compiling, phase \in BlocksGone,
           NEW K, Ordered(function, K, st, agenda, values), NEW b \in reachable
    PROVE  K[b] \cup After(function, K, st, b) \subseteq SetSomewhere
<1>. DEFINE All == UNION {ProvidedBy(function, st.block[c].instructions, Len(st.block[c].instructions)) : c \in reachable}
            S == {c \in reachable : K[c] \subseteq All}
<1>1. PICK g, h : g = built /\ h = Pruned
  OBVIOUS
<1>2. /\ SoundGraph(function, g) /\ BlockSet(h) = reachable \cup {EndBlock} /\ PartOf(h, g)
      /\ \A c : Targets(h, c) = Targets(cfg, c)
      /\ \A c \in reachable : Targets(h, c) \subseteq reachable
      /\ StartBlock \in reachable
  BY <1>1, PrunedGraph
<1>3. BuildInv /\ BuildDone /\ g = BuiltCfg
  BY <1>1 DEF CompileInv, LinkInv
<1>4. StateFits(function, st)
  BY <1>3, NothingIsLeft
<1>5. /\ BlockSet(g) = DOMAIN st.block /\ g.block = st.block /\ VarSet(g) = VariablesIn(st)
      /\ \A c \in DOMAIN st.block : InstructionsOf(g, c) = ToSet(st.block[c].instructions)
  BY <1>3, <1>4, BuiltParts
<1>6. reachable \subseteq BlockSet(g)
  BY <1>2 DEF PartOf
<1>7. phase # "clean_jumps" /\ phase # "reachability"
  BY DEF BlocksGone
<1>8. Searched(g, cfg, reachable, todo)
  BY <1>1, <1>7 DEF CompileInv, SearchInv
<1>9. PICK r : Cut(g, r, cfg)
  BY <1>1, <1>7 DEF CompileInv, JumpsInv
<1>10. Narrowed(g, cfg)
  BY <1>2, <1>9, CutNarrows
<1>11. \A c \in DOMAIN st.block : BlockInOrder(function, K, st, c)
  BY DEF Ordered, InOrder
<1>12. ASSUME NEW c \in S PROVE Targets(cfg, c) \subseteq S
  <2>1. c \in reachable /\ c \in DOMAIN st.block /\ K[c] \subseteq All
    BY <1>5, <1>6
  <2>2. ProvidedBy(function, st.block[c].instructions, Len(st.block[c].instructions)) \subseteq All
    BY <2>1
  <2>3. After(function, K, st, c) \subseteq All
    BY <2>1, <2>2 DEF After
  <2>. HIDE DEF All
  <2>4. ASSUME NEW t \in Targets(cfg, c) PROVE t \in reachable /\ K[t] \subseteq All
    <3>1. t \in reachable
      BY <1>2, <2>1
    <3>2. t \in Targets(g, c)
      BY <1>5, <1>10, <2>1 DEF Narrowed
    <3>3. t \in {st.block[c].iftrue, st.block[c].iffalse} /\ t # NoBlock
      BY <1>5, <3>2 DEF Targets
    <3>4. K[t] \subseteq After(function, K, st, c)
      BY <1>11, <2>1, <3>3 DEF BlockInOrder, JumpInOrder
    <3>. QED  BY <2>3, <3>1, <3>4
  <2>. QED  BY <2>4
<1>13. StartBlock \in S
  <2>1. K[StartBlock] = {}
    BY DEF Ordered, InOrder
  <2>. QED  BY <1>2, <2>1
<1>14. reachable \subseteq S
  <2>1. S \in SUBSET BlockSet(g)
    BY <1>6
  <2>. HIDE DEF S
  <2>. QED  BY <1>8, <1>12, <1>13, <2>1 DEF Searched
<1>15. K[b] \cup After(function, K, st, b) \subseteq All
  <2>1. K[b] \subseteq All
    BY <1>14
  <2>2. ProvidedBy(function, st.block[b].instructions, Len(st.block[b].instructions)) \subseteq All
    OBVIOUS
  <2>. QED  BY <2>1, <2>2 DEF After
<1>16. All \subseteq SetSomewhere
  <2>. SUFFICES ASSUME NEW c \in reachable,
                       NEW v \in ProvidedBy(function, st.block[c].instructions, Len(st.block[c].instructions))
                PROVE  v \in SetSomewhere
    OBVIOUS
  <2>1. c \in DOMAIN st.block /\ List(st.block[c].instructions)
    BY <1>4, <1>5, <1>6 DEF StateFits, BlocksFit
  <2>2. PICK q : q = st.block[c].instructions
    OBVIOUS
  <2>3. PICK i \in 1 .. Len(q) : v \in Provides(function, q[i])
    BY <2>2 DEF ProvidedBy
  <2>4. PICK ins : ins = q[i]
    OBVIOUS
  <2>5. ins \in InstructionsOf(g, c)
    BY <1>5, <2>1, <2>2, <2>4 DEF ToSet, List
  <2>6. /\ v \in Temps(function)
        /\ v = ins.destvar \/ (ins.kind = "ADDRESS_OF_VARIABLE" /\ v \in OperandSet(ins))
    BY <2>3, <2>4 DEF Provides
  <2>7. v \in VarSet(g)
    <3>1. WellFormed(g) /\ c \in BlockSet(g)
      BY <1>2, <1>6 DEF SoundGraph
    <3>2. InstructionOK(g, ins)
      BY <2>5, <3>1 DEF WellFormed, BlockOK
    <3>3. v # NoVar
      <4>1. Len(function.variables) \in Nat
        BY <1>4, Lengths
      <4>. QED  BY <2>6, <4>1 DEF Temps, NoVar
    <3>4. ins.destvar \in VarSet(g) \cup {NoVar} /\ OperandSet(ins) \subseteq VarSet(g)
      BY <3>2 DEF InstructionOK, OperandSet
    <3>. QED  BY <2>6, <3>3, <3>4
  <2>. QED  BY <1>1, <2>5, <2>6, <2>7 DEF SetSomewhere
<1>. QED  BY <1>15, <1>16

\* A branch is on a variable some kept instruction sets, although
\* remove_unused_variables does not count the branch as a use.
LEMMA BranchesAreOnUsed ==
    ASSUME CompileInv, TempsInv, Compiling, phase \in BlocksGone,
           NEW b \in BlockSet(cfg), b # EndBlock, Conditional(cfg, b)
    PROVE  cfg.block[b].branchvar \in UsedIn(Pruned)
<1>1. PICK g, h : g = built /\ h = Pruned
  OBVIOUS
<1>2. /\ SoundGraph(function, g) /\ BlockSet(h) = reachable \cup {EndBlock} /\ PartOf(h, g)
      /\ BlockSet(h) = BlockSet(cfg)
  BY <1>1, PrunedGraph
<1>3. PICK K : Ordered(function, K, st, agenda, values)
  BY DEF TempsInv
<1>4. b \in reachable /\ b \in BlockSet(g)
  BY <1>2 DEF PartOf
<1>5. BuildInv /\ BuildDone /\ g = BuiltCfg
  BY <1>1 DEF CompileInv, LinkInv
<1>6. BlockSet(g) = DOMAIN st.block /\ g.block = st.block
  <2>1. StateFits(function, st)
    BY <1>5, NothingIsLeft
  <2>. QED  BY <1>5, <2>1, BuiltParts
<1>7. phase # "clean_jumps"
  BY DEF BlocksGone
<1>8. PICK r : Cut(g, r, cfg)
  BY <1>1, <1>7 DEF CompileInv, JumpsInv
<1>9. Narrowed(g, cfg)
  BY <1>2, <1>8, CutNarrows
<1>10. cfg.block[b].branchvar = g.block[b].branchvar /\ Conditional(g, b)
  BY <1>4, <1>9 DEF Narrowed
<1>11. BlockInOrder(function, K, st, b)
  BY <1>3, <1>4, <1>6 DEF Ordered, InOrder
<1>12. g.block[b].branchvar \in After(function, K, st, b)
  BY <1>6, <1>10, <1>11 DEF BlockInOrder, JumpInOrder, Conditional
<1>13. g.block[b].branchvar \in SetSomewhere
  BY <1>3, <1>4, <1>12, KnownIsSetSomewhere
<1>14. SetSomewhere \subseteq UsedIn(h)
  <2>1. VarSet(h) = VarSet(g)
    BY <1>2, PartOfBasics
  <2>2. \A c \in reachable : c \in BlockSet(h) /\ InstructionsOf(h, c) = InstructionsOf(g, c)
    BY <1>2 DEF PartOf, InstructionsOf
  <2>. QED  BY <1>1, <2>1, <2>2 DEF SetSomewhere, UsedIn
<1>. QED  BY <1>1, <1>10, <1>13, <1>14
-----------------------------------------------------------------------------
\* The list of variables loses none that is used.
KeptInv ==
    Compiling /\ phase \in VariablesGone =>
        /\ used = UsedIn(Pruned) /\ used \subseteq VarSet(cfg)
        /\ ToSet(cfg.variables) \subseteq ToSet(built.variables)

LEMMA VariablesAreListed ==
    ASSUME NEW g
    PROVE  /\ VarSet(g) = {w.id : w \in ToSet(g.variables)}
           /\ Arguments(g) = {w.id : w \in {x \in ToSet(g.variables) : x.is_argument}}
BY DEF VarSet, Arguments, ToSet

\* After the removal of variables the code generator can work on what is
\* left, and the analysis can be run on it once more.
LEMMA LeftIsWellFormed ==
    ASSUME CompileInv, TempsInv, KeptInv, Compiling, phase \in VariablesGone
    PROVE  /\ WellFormed(cfg) /\ VarSet(cfg) \subseteq VarSet(built)
           /\ Arguments(cfg) \subseteq Arguments(built)
<1>1. PICK g, h, c : g = built /\ h = Pruned /\ c = cfg
  OBVIOUS
<1>2. phase \in BlocksGone
  BY DEF VariablesGone, BlocksGone
<1>3. /\ WellFormed(h) /\ PartOf(h, g) /\ SoundGraph(function, g)
      /\ BlockSet(h) = BlockSet(c) /\ \A b : Targets(h, b) = Targets(c, b)
  BY <1>1, <1>2, PrunedGraph
<1>4. h.block = c.block /\ h.all_blocks = c.all_blocks
  BY <1>1 DEF Pruned
<1>5. /\ UsedIn(h) \subseteq VarSet(c) /\ ToSet(c.variables) \subseteq ToSet(g.variables)
  BY <1>1 DEF KeptInv
<1>6. VarSet(c) \subseteq VarSet(g) /\ Arguments(c) \subseteq Arguments(g)
  BY <1>5, VariablesAreListed
<1>7. \A b \in BlockSet(c) : b # EndBlock /\ Conditional(c, b) => c.block[b].branchvar \in VarSet(c)
  BY <1>1, <1>2, <1>5, BranchesAreOnUsed
<1>8. \A b \in BlockSet(c) : InstructionsOf(h, b) = InstructionsOf(c, b)
  BY <1>4 DEF InstructionsOf
<1>9. ASSUME NEW b \in BlockSet(c) PROVE BlockOK(c, b)
  <2>1. BlockOK(h, b)
    BY <1>3 DEF WellFormed
  <2>2. ASSUME NEW ins \in InstructionsOf(c, b) PROVE InstructionOK(c, ins)
    <3>1. InstructionOK(h, ins)
      BY <1>8, <2>1 DEF BlockOK
    <3>2. \A v \in VarSet(h) : v = ins.destvar \/ v \in OperandSet(ins) => v \in VarSet(c)
      <4>1. ins \in InstructionsOf(h, b) /\ b \in BlockSet(h)
        BY <1>3, <1>8
      <4>. QED  BY <1>5, <4>1 DEF UsedIn
    <3>3. ins.destvar \in VarSet(c) \cup {NoVar}
      BY <3>1, <3>2 DEF InstructionOK
    <3>4. ins.operands \in Seq(VarSet(c))
      <4>1. ins.operands \in Seq(VarSet(h))
        BY <3>1 DEF InstructionOK
      <4>2. \A i \in 1 .. Len(ins.operands) : ins.operands[i] \in VarSet(h) /\ ins.operands[i] \in OperandSet(ins)
        BY <4>1 DEF OperandSet
      <4>3. \A i \in 1 .. Len(ins.operands) : ins.operands[i] \in VarSet(c)
        BY <3>2, <4>2
      <4>. QED  BY <4>1, <4>3, SeqOver
    <3>. QED  BY <3>1, <3>3, <3>4 DEF InstructionOK
  <2>3. c.block[b].instructions \in Seq(InstructionsOf(c, b))
    BY <1>4, <1>8, <2>1 DEF BlockOK
  <2>4. b # EndBlock => c.block[b].iftrue \in BlockSet(c) /\ c.block[b].iffalse \in BlockSet(c)
    BY <1>3, <1>4, <2>1 DEF BlockOK
  <2>. QED  BY <1>7, <2>2, <2>3, <2>4 DEF BlockOK
<1>10. VarSet(h) = VarSet(g)
  BY <1>3, PartOfBasics
<1>11. WellFormed(c)
  BY <1>3, <1>4, <1>6, <1>9, <1>10 DEF WellFormed
<1>. QED  BY <1>1, <1>6, <1>11
-----------------------------------------------------------------------------
LEMMA FindUsedKept ==
    ASSUME CompileInv, Simplify, FindUsedVariables
    PROVE  KeptInv'
<1>1. /\ phase = "unused" /\ used' = UsedVariables /\ cfg' = cfg
  BY DEF FindUsedVariables
<1>2. Compiling /\ built' = built
  BY WhileSimplifying
<1>3. cfg.variables = built.variables /\ IsGraph(cfg)
  BY <1>1, <1>2 DEF CompileInv, VariablesInv, VariablesGone, JumpsInv
<1>4. Pruned' = cfg
  BY <1>1, <1>2, <1>3 DEF Pruned, IsGraph
<1>5. UsedVariables = UsedIn(cfg) /\ UsedIn(cfg) \subseteq VarSet(cfg)
  BY DEF UsedVariables, UsedIn
<1>. QED  BY <1>1, <1>2, <1>3, <1>4, <1>5 DEF KeptInv

LEMMA RemoveUnusedKept ==
    ASSUME CompileInv, KeptInv, Simplify, RemoveUnusedVariable
    PROVE  KeptInv'
<1>1. /\ phase = "remove_vars" /\ phase' = phase /\ at > 0 /\ used' = used
      /\ cfg' = IF Unused(cfg.variables[at])
                THEN [cfg EXCEPT !.variables = SwapRemove(cfg.variables, at)] ELSE cfg
  BY DEF RemoveUnusedVariable
<1>2. Compiling /\ built' = built
  BY WhileSimplifying
<1>3. /\ List(cfg.variables) /\ at \in 1 .. Len(cfg.variables) /\ IsGraph(cfg)
      /\ used = UsedIn(Pruned) /\ used \subseteq VarSet(cfg)
      /\ ToSet(cfg.variables) \subseteq ToSet(built.variables)
  BY <1>1, <1>2 DEF CompileInv, VariablesInv, VariablesGone, JumpsInv, KeptInv
<1>4. CASE ~Unused(cfg.variables[at])
  <2>1. cfg' = cfg /\ Pruned' = Pruned
    BY <1>1, <1>2, <1>4 DEF Pruned
  <2>. QED  BY <1>1, <1>2, <1>3, <2>1 DEF KeptInv
<1>5. CASE Unused(cfg.variables[at])
  <2>1. PICK q, p : q = cfg.variables /\ p = SwapRemove(q, at)
    OBVIOUS
  <2>2. /\ cfg'.variables = p /\ cfg'.block = cfg.block /\ cfg'.all_blocks = cfg.all_blocks
    BY <1>1, <1>3, <1>5, <2>1 DEF IsGraph
  <2>3. Pruned' = Pruned
    BY <1>2, <2>2 DEF Pruned
  <2>4. ToSet(p) \subseteq ToSet(q) /\ ToSet(q) \subseteq ToSet(p) \cup {q[at]}
    <3>1. List(q) /\ at \in 1 .. Len(q)
      BY <1>3, <2>1
    <3>. QED  BY <2>1, <3>1, SwapRemoveList
  <2>5. q[at].id \notin used
    BY <1>5, <2>1 DEF Unused
  <2>6. used \subseteq VarSet(cfg')
    <3>1. VarSet(cfg) = {w.id : w \in ToSet(q)} /\ VarSet(cfg') = {w.id : w \in ToSet(p)}
      BY <2>1, <2>2, VariablesAreListed
    <3>. QED  BY <1>3, <2>4, <2>5, <3>1
  <2>. QED  BY <1>1, <1>2, <1>3, <2>1, <2>2, <2>3, <2>4, <2>6 DEF KeptInv
<1>. QED  BY <1>4, <1>5

LEMMA KeptStays ==
    ASSUME CompileInv, KeptInv, UNCHANGED <<built, cfg, used>>, phase' \in VariablesGone => phase \in VariablesGone,
           UNCHANGED buildVars
    PROVE  KeptInv'
<1>1. Compiling' => Compiling \/ phase \notin VariablesGone
  BY DEF Compiling, VariablesGone, buildVars
<1>2. Pruned' = Pruned
  BY DEF Pruned
<1>. QED  BY <1>1, <1>2 DEF KeptInv

LEMMA KeptInvKept == CompileInv /\ KeptInv /\ [Next]_vars => KeptInv'
<1>. SUFFICES ASSUME CompileInv, KeptInv, [Next]_vars PROVE KeptInv'
  OBVIOUS
<1>1. CASE Build \/ FinishFunction \/ BuildFails
  <2>1. phase' \notin VariablesGone
    BY <1>1 DEF Build, FinishFunction, BuildFails, VariablesGone, simplifyVars
  <2>. QED  BY <2>1 DEF KeptInv
<1>2. CASE Simplify
  <2>1. CASE \/ Analyse \/ CleanJumps \/ MarkReachable \/ CollectUnreachable \/ StartGrouping \/ GroupBlock
             \/ ShowUnreachableWarning \/ StartRemovingBlocks \/ RemoveGivenBlock \/ BlocksRemoved
             \/ ErrorAboutMissingReturn
    <3>1. phase' \notin VariablesGone \/ (phase = "undefined" /\ phase' = phase /\ UNCHANGED <<cfg, used>>)
      BY <2>1 DEF Analyse, CleanJumps, MarkReachable, CollectUnreachable, StartGrouping, GroupBlock,
                  ShowUnreachableWarning, StartRemovingBlocks, RemoveGivenBlock, BlocksRemoved,
                  ErrorAboutMissingReturn, AnalysingPhases, VariablesGone, simplifyVars, passes
    <3>2. UNCHANGED <<buildVars, built>>
      BY <1>2 DEF Simplify
    <3>3. CASE phase' \notin VariablesGone
      BY <3>3 DEF KeptInv
    <3>4. CASE phase = "undefined" /\ phase' = phase /\ UNCHANGED <<cfg, used>>
      BY <3>2, <3>4, KeptStays
    <3>. QED  BY <3>1, <3>3, <3>4
  <2>2. CASE \/ VariablesRemoved \/ StartScan \/ ScanOperand \/ ScanInstruction \/ ScanNextBlock
    <3>1. phase \in VariablesGone /\ UNCHANGED <<cfg, used>>
      BY <2>2 DEF VariablesRemoved, StartScan, ScanOperand, ScanInstruction, ScanNextBlock, VariablesGone, passes
    <3>2. UNCHANGED <<buildVars, built>>
      BY <1>2 DEF Simplify
    <3>. QED  BY <3>1, <3>2, KeptStays
  <2>. QED  BY <1>2, <2>1, <2>2, FindUsedKept, RemoveUnusedKept DEF Simplify, SimplifyStep
<1>3. CASE CallFunction \/ Run \/ Stopped \/ UNCHANGED vars
  <2>1. UNCHANGED <<built, cfg, used>> /\ UNCHANGED buildVars /\ phase' = phase
    BY <1>3 DEF CallFunction, Run, Stopped, vars, analysisVars, simplifyVars, passes
  <2>. QED  BY <2>1, KeptStays
<1>. QED  BY <1>1, <1>2, <1>3 DEF Next, CompileStep

LEMMA InitKept == Init => KeptInv
BY DEF Init, KeptInv, Compiling

\* What simplify_cfg hands to codegen_function_def is a graph it can work on:
\* no jump leads to a removed block, no instruction and no branch is about a
\* removed variable.
THEOREM CodegenCanWork == Spec => []ReadyForCodegen
<1>1. CompileInv /\ TempsInv /\ KeptInv => ReadyForCodegen
  <2>. SUFFICES ASSUME CompileInv, TempsInv, KeptInv, phase = "done" PROVE WellFormed(cfg)
    BY DEF ReadyForCodegen
  <2>1. Compiling /\ phase \in VariablesGone
    BY DEF CompileInv, LinkInv, Compiling, VariablesGone
  <2>. QED  BY <2>1, LeftIsWellFormed
<1>. QED  BY <1>1, InitCompileInv, CompileInvKept, InitTemps, TempsInvKept, InitKept, KeptInvKept, PTL DEF Spec
-----------------------------------------------------------------------------
LEMMA LeftParts ==
    ASSUME CompileInv, TempsInv, KeptInv, Compiling, phase \in VariablesGone
    PROVE  /\ WellFormed(cfg) /\ List(cfg.all_blocks) /\ BlockSet(cfg) = reachable \cup {EndBlock}
           /\ VarSet(cfg) \subseteq VarSet(built) /\ BlockSet(cfg) \subseteq BlockSet(built)
           /\ \A b \in BlockSet(cfg) :
                /\ cfg.block[b].instructions = built.block[b].instructions
                /\ InstructionsOf(cfg, b) = InstructionsOf(built, b)
           /\ \A b \in reachable : Targets(cfg, b) \subseteq reachable
           /\ \A S \in SUBSET reachable :
                StartBlock \in S /\ (\A b \in S : Targets(cfg, b) \subseteq S) => reachable \subseteq S
           /\ StartBlock \in reachable
<1>1. PICK g, h, c : g = built /\ h = Pruned /\ c = cfg
  OBVIOUS
<1>2. phase \in BlocksGone /\ phase \notin WalkingBlocks /\ phase # "clean_jumps"
  BY DEF VariablesGone, BlocksGone, WalkingBlocks
<1>3. /\ PartOf(h, g) /\ BlockSet(h) = reachable \cup {EndBlock} /\ BlockSet(h) = BlockSet(c)
      /\ \A b : Targets(h, b) = Targets(c, b)
      /\ \A b \in reachable : Targets(h, b) \subseteq reachable
      /\ StartBlock \in reachable
  BY <1>1, <1>2, PrunedGraph
<1>4. h.block = c.block
  BY <1>1 DEF Pruned
<1>5. \A b \in BlockSet(c) : /\ c.block[b].instructions = g.block[b].instructions
                             /\ InstructionsOf(c, b) = InstructionsOf(g, b)
  BY <1>3, <1>4 DEF PartOf, InstructionsOf
<1>6. List(c.all_blocks)
  BY <1>1 DEF CompileInv, BlocksInv
<1>7. \A S \in SUBSET reachable :
        StartBlock \in S /\ (\A b \in S : Targets(c, b) \subseteq S) => reachable \subseteq S
  <2>1. Searched(g, c, reachable, todo)
    BY <1>1, <1>2 DEF CompileInv, SearchInv
  <2>2. reachable \subseteq BlockSet(g)
    BY <2>1 DEF Searched
  <2>. QED  BY <2>1, <2>2 DEF Searched
<1>8. BlockSet(c) \subseteq BlockSet(g)
  BY <1>3 DEF PartOf
<1>9. WellFormed(c) /\ VarSet(c) \subseteq VarSet(g)
  BY <1>1, LeftIsWellFormed
<1>. QED  BY <1>1, <1>3, <1>5, <1>6, <1>7, <1>8, <1>9
-----------------------------------------------------------------------------
\* Once the analysis is over there is no block left that it has not been to.
LEMMA TraceIsKnown ==
    ASSUME WellFormed(cfg), NEW b \in BlockSet(cfg), NEW tr,
           Trace(cfg, b, tr, InstructionCount(cfg, b)), Known(tr[1])
    PROVE  Known(tr[InstructionCount(cfg, b) + 1])
<1>1. PICK n : n = InstructionCount(cfg, b)
  OBVIOUS
<1>2. n \in Nat /\ \A i \in 1 .. n : cfg.block[b].instructions[i] \in InstructionsOf(cfg, b)
  BY <1>1, InstructionCountNat
<1>3. /\ \A i \in 1 .. n + 1 : tr[i] \in Statuses
      /\ \A i \in 1 .. n :
            tr[i + 1] = update_statuses_with_instruction(tr[i], cfg.block[b].instructions[i])
  BY <1>1 DEF Trace, StatusesOf, Statuses
<1>4. \A i \in 1 .. n : InstructionOK(cfg, cfg.block[b].instructions[i])
  BY <1>2 DEF WellFormed, BlockOK
<1>5. \A i \in 1 .. n : Known(tr[i]) => Known(tr[i + 1])
  BY <1>2, <1>3, <1>4, UpdateType
<1>6. ASSUME ~Known(tr[n + 1]) PROVE FALSE
  <2>. DEFINE S == {i \in 1 .. n + 1 : ~Known(tr[i])}
  <2>1. S \in SUBSET Nat /\ S # {}
    BY <1>2, <1>6
  <2>2. PICK m \in S : \A k \in S : m <= k
    BY <2>1, LeastNatural
  <2>3. m \in 1 .. n + 1 /\ ~Known(tr[m])
    OBVIOUS
  <2>4. m # 1
    BY <2>3
  <2>5. m - 1 \in 1 .. n /\ (m - 1) + 1 = m /\ m - 1 \in 1 .. n + 1
    BY <1>2, <2>3, <2>4
  <2>6. ~Known(tr[m - 1])
    BY <1>5, <2>3, <2>5
  <2>7. m <= m - 1
    BY <2>2, <2>5, <2>6
  <2>. QED  BY <1>2, <2>3, <2>7
<1>. QED  BY <1>1, <1>6

LEMMA KnownClimbs ==
    ASSUME NEW s \in Statuses, NEW t \in Statuses, Known(s), Below(cfg, s, t)
    PROVE  Known(t)
<1>1. \A x, y \in VarStatuses : x # "UNVISITED" /\ Leq(x, y) => y # "UNVISITED"
  BY DEF Leq, merge
<1>. QED  BY <1>1 DEF Known, Below, Statuses

LEMMA AllIsKnown ==
    ASSUME WellFormed(cfg), Fixpoint(cfg, result), reachable \subseteq BlockSet(cfg), StartBlock \in reachable,
           \A b \in reachable : Targets(cfg, b) \subseteq reachable,
           \A S \in SUBSET reachable :
                StartBlock \in S /\ (\A b \in S : Targets(cfg, b) \subseteq S) => reachable \subseteq S
    PROVE  \A b \in reachable : Known(result[b])
<1>. DEFINE S == {b \in reachable : Known(result[b])}
<1>1. result \in [BlockSet(cfg) -> Statuses]
  BY DEF Fixpoint, StatusesOf, Statuses
<1>2. ASSUME NEW b \in BlockSet(cfg), NEW tr,
             Trace(cfg, b, tr, InstructionCount(cfg, b)), Known(tr[1]),
             Below(cfg, tr[InstructionCount(cfg, b) + 1], result[b])
      PROVE  Known(result[b])
  <2>1. Known(tr[InstructionCount(cfg, b) + 1])
    BY <1>2, TraceIsKnown
  <2>2. InstructionCount(cfg, b) + 1 \in 1 .. InstructionCount(cfg, b) + 1
    BY InstructionCountNat
  <2>3. tr[InstructionCount(cfg, b) + 1] \in Statuses
    BY <1>2, <2>2 DEF Trace, StatusesOf, Statuses
  <2>. QED  BY <1>1, <1>2, <2>1, <2>3, KnownClimbs
<1>3. \A b \in BlockSet(cfg) : \A tr : Trace(cfg, b, tr, InstructionCount(cfg, b)) => tr[1] \in Statuses
  <2>. SUFFICES ASSUME NEW b \in BlockSet(cfg), NEW tr, Trace(cfg, b, tr, InstructionCount(cfg, b))
                PROVE  tr[1] \in Statuses
    OBVIOUS
  <2>1. 1 \in 1 .. InstructionCount(cfg, b) + 1
    BY InstructionCountNat
  <2>. QED  BY <2>1 DEF Trace, StatusesOf, Statuses
<1>4. Known(result[StartBlock])
  <2>1. PICK tr : /\ Trace(cfg, StartBlock, tr, InstructionCount(cfg, StartBlock))
                  /\ Entered(cfg, result, StartBlock, tr[1], Predecessors(cfg, StartBlock))
                  /\ Below(cfg, tr[InstructionCount(cfg, StartBlock) + 1], result[StartBlock])
    BY DEF Fixpoint, Settled
  <2>2. tr[1] \in Statuses
    BY <1>3, <2>1
  <2>3. \A v \in VarSet(cfg) : Entry(cfg, StartBlock, v) \in {"DEFINED", "UNDEFINED"}
    BY DEF Entry
  <2>4. \A x \in {"DEFINED", "UNDEFINED"} : ~Leq(x, "UNVISITED")
    BY DEF Leq, merge
  <2>5. Known(tr[1])
    BY <2>1, <2>2, <2>3, <2>4 DEF Entered, Known
  <2>. QED  BY <1>2, <2>1, <2>5
<1>5. ASSUME NEW p \in S, NEW b \in Targets(cfg, p) PROVE b \in S
  <2>1. b \in reachable /\ b \in BlockSet(cfg) /\ p \in BlockSet(cfg) /\ Known(result[p])
    OBVIOUS
  <2>2. CASE VarSet(cfg) = {}
    BY <2>1, <2>2 DEF Known
  <2>3. CASE VarSet(cfg) # {}
    <3>1. Visited(cfg, result, p)
      BY <2>1, <2>3 DEF Visited, Known
    <3>2. PICK tr : /\ Trace(cfg, b, tr, InstructionCount(cfg, b))
                    /\ Entered(cfg, result, b, tr[1], Predecessors(cfg, b))
                    /\ Below(cfg, tr[InstructionCount(cfg, b) + 1], result[b])
      BY <2>1, <3>1 DEF Fixpoint, Settled
    <3>3. tr[1] \in Statuses
      BY <1>3, <2>1, <3>2
    <3>4. Below(cfg, result[p], tr[1])
      BY <2>1, <3>2 DEF Entered, Predecessors
    <3>5. Known(tr[1])
      BY <1>1, <2>1, <3>3, <3>4, KnownClimbs
    <3>. QED  BY <1>2, <2>1, <3>2, <3>5
  <2>. QED  BY <2>2, <2>3
<1>. QED  BY <1>4, <1>5
-----------------------------------------------------------------------------
\* Variables nothing sets or points to, and what is known of them.
Unset == {v \in VarSet(cfg) \ Arguments(cfg) : NeverSet(v)}
StillUnset(s) == \A v \in Unset : s[v] \in {"UNVISITED", "UNDEFINED"}

\* The last analysis.
UndefinedInv ==
    Compiling /\ phase = "undefined" =>
        /\ SoundInv
        /\ StillUnset(tempstatus) /\ \A b \in BlockSet(cfg) : StillUnset(result[b])

\* The scan: whatever it has passed it has reported.
Code(i) == cfg.block[cfg.all_blocks[i]].instructions
Passed(i, n, k) ==
    \/ phase = "done" \/ i < at
    \/ i = at /\ (n < next_ins \/ (n = next_ins /\ k < next_operand))
Reported(ins, k) ==
    ins.operands[k] \in Unset /\ VariableOf(cfg, ins.operands[k]).name # "" =>
        ins.line \in Warned("is undefined")
ScanInv ==
    Compiling /\ phase \in {"scan", "done"} =>
        /\ result \in [BlockSet(cfg) -> Statuses]
        /\ \A b \in reachable : Known(result[b])
        /\ \A b \in BlockSet(cfg) : StillUnset(result[b])
        /\ phase = "scan" => /\ at \in DOMAIN cfg.all_blocks
                             /\ next_ins \in Nat \ {0} /\ next_operand \in Nat \ {0}
        /\ \A i \in DOMAIN cfg.all_blocks : \A n \in DOMAIN Code(i) :
                \A k \in DOMAIN Code(i)[n].operands : Passed(i, n, k) => Reported(Code(i)[n], k)

LastInv == KeptInv /\ UndefinedInv /\ ScanInv
-----------------------------------------------------------------------------
LEMMA UpdateIsSilent ==
    ASSUME NEW s \in Statuses, NEW ins, InstructionOK(cfg, ins), NEW v \in VarSet(cfg), v # ins.destvar,
           ins.kind = "ADDRESS_OF_VARIABLE" => v \notin OperandSet(ins)
    PROVE  update_statuses_with_instruction(s, ins)[v] = s[v]
<1>1. ins.kind = "ADDRESS_OF_VARIABLE" => v # ins.operands[1]
  BY DEF OperandSet, InstructionOK
<1>. QED  BY <1>1 DEF update_statuses_with_instruction, Statuses

\* Any instruction of the graph.
LEMMA InstructionIsSilent ==
    ASSUME WellFormed(cfg), BlockSet(cfg) \subseteq BlockSet(built), NEW b \in BlockSet(cfg),
           InstructionsOf(cfg, b) = InstructionsOf(built, b),
           NEW ins \in InstructionsOf(cfg, b), NEW s \in Statuses, StillUnset(s)
    PROVE  StillUnset(update_statuses_with_instruction(s, ins))
<1>1. InstructionOK(cfg, ins)
  BY DEF WellFormed, BlockOK
<1>. SUFFICES ASSUME NEW v \in Unset
              PROVE  update_statuses_with_instruction(s, ins)[v] \in {"UNVISITED", "UNDEFINED"}
  BY DEF StillUnset
<1>2. v \in VarSet(cfg) /\ v # ins.destvar /\ (ins.kind = "ADDRESS_OF_VARIABLE" => v \notin OperandSet(ins))
  BY DEF Unset, NeverSet
<1>. QED  BY <1>1, <1>2, UpdateIsSilent DEF StillUnset

LEMMA MergeIsSilent ==
    ASSUME NEW s \in Statuses, NEW t \in Statuses, StillUnset(s), StillUnset(t)
    PROVE  StillUnset(merge_arrays(s, t))
<1>1. \A x, y \in {"UNVISITED", "UNDEFINED"} : merge(x, y) \in {"UNVISITED", "UNDEFINED"}
  BY DEF merge
<1>2. Unset \subseteq VarSet(cfg)
  BY DEF Unset
<1>. QED  BY <1>1, <1>2 DEF StillUnset, merge_arrays, Statuses

LEMMA AnalysisIsSilent ==
    ASSUME WellFormed(cfg), AnalysisTypeOK, AnalysisStep, cfg' = cfg, built' = built,
           BlockSet(cfg) \subseteq BlockSet(built),
           \A b \in BlockSet(cfg) : InstructionsOf(cfg, b) = InstructionsOf(built, b),
           StillUnset(tempstatus), \A b \in BlockSet(cfg) : StillUnset(result[b])
    PROVE  StillUnset(tempstatus)' /\ (\A b \in BlockSet(cfg) : StillUnset(result[b]))'
<1>1. /\ tempstatus \in Statuses /\ \A b \in BlockSet(cfg) : result[b] \in Statuses
      /\ result \in [BlockSet(cfg) -> Statuses]
  BY DEF AnalysisTypeOK, Statuses
<1>2. Unset' = Unset
  BY DEF Unset, NeverSet
<1>3. SUFFICES StillUnset(tempstatus') /\ \A b \in BlockSet(cfg) : StillUnset(result'[b])
  BY <1>2 DEF StillUnset
<1>4. CASE StartVisit
  <2>1. result' = result /\ tempstatus' = [v \in VarSet(cfg) |-> EntryStatus(visiting', v)]
    BY <1>4 DEF StartVisit
  <2>2. StillUnset(tempstatus')
    BY <2>1 DEF StillUnset, Unset, EntryStatus
  <2>. QED  BY <2>1, <2>2
<1>5. CASE MergePredecessor
  <2>1. PICK p : p = FirstListed(unmerged) /\ tempstatus' = merge_arrays(tempstatus, result[p])
    BY <1>5 DEF MergePredecessor
  <2>2. p \in BlockSet(cfg) /\ result' = result
    <3>1. unmerged \in SUBSET BlockSet(cfg) /\ unmerged # {} /\ result' = result
      BY <1>5 DEF MergePredecessor, AnalysisTypeOK
    <3>. QED  BY <2>1, <3>1, FirstListedMember
  <2>. QED  BY <1>1, <2>1, <2>2, MergeIsSilent
<1>6. CASE RunInstruction
  <2>1. PICK b, ins : b = visiting /\ ins = cfg.block[visiting].instructions[pos]
    OBVIOUS
  <2>2. /\ b \in BlockSet(cfg) /\ pos \in 1 .. InstructionCount(cfg, b)
        /\ tempstatus' = update_statuses_with_instruction(tempstatus, ins) /\ result' = result
    <3>1. b \in BlockSet(cfg) /\ pos \in Nat \ {0} /\ pos <= InstructionCount(cfg, b)
      BY <1>6, <2>1 DEF RunInstruction, AnalysisTypeOK, InstructionCount
    <3>. QED  BY <1>6, <2>1, <3>1, InstructionCountNat DEF RunInstruction
  <2>3. ins \in InstructionsOf(cfg, b)
    BY <2>1, <2>2, InstructionCountNat
  <2>. QED  BY <1>1, <2>2, <2>3, InstructionIsSilent
<1>7. CASE EndVisit
  <2>1. /\ visiting \in BlockSet(cfg) /\ tempstatus' = tempstatus
        /\ result' = [result EXCEPT ![visiting] = merge_arrays(result[visiting], tempstatus)]
    BY <1>7 DEF EndVisit, Learned, AnalysisTypeOK
  <2>2. StillUnset(merge_arrays(result[visiting], tempstatus))
    BY <1>1, <2>1, MergeIsSilent
  <2>. QED  BY <1>1, <2>1, <2>2
<1>. QED  BY <1>4, <1>5, <1>6, <1>7 DEF AnalysisStep
-----------------------------------------------------------------------------
LEMMA LastAnalysisStarts ==
    ASSUME CompileInv, TempsInv, LastInv, Simplify, VariablesRemoved
    PROVE  UndefinedInv' /\ ScanInv'
<1>1. /\ phase = "remove_vars" /\ phase' = "undefined" /\ CallAnalysis(cfg) /\ cfg' = cfg /\ built' = built
      /\ Compiling
  BY WhileSimplifying DEF VariablesRemoved
<1>2. WellFormed(cfg)
  BY <1>1, LeftIsWellFormed DEF LastInv, VariablesGone
<1>3. SoundInv'
  <2>1. WellFormed(cfg)' /\ AnalysisStart(cfg)'
    BY <1>1, <1>2 DEF CallAnalysis, AnalysisStart
  <2>2. AnalysisInit'
    BY <2>1 DEF AnalysisInit
  <2>3. (AnalysisInit => SoundInv)'
    BY InitSoundInv, PTL
  <2>. QED  BY <2>2, <2>3
<1>4. /\ result' = [b \in BlockSet(cfg) |-> [v \in VarSet(cfg) |-> "UNVISITED"]]
      /\ tempstatus' = [v \in VarSet(cfg) |-> "UNVISITED"]
  BY <1>1 DEF CallAnalysis
<1>5. Unset' = Unset /\ Unset \subseteq VarSet(cfg)
  BY <1>1 DEF Unset, NeverSet
<1>6. StillUnset(tempstatus)' /\ (\A b \in BlockSet(cfg) : StillUnset(result[b]))'
  BY <1>1, <1>4, <1>5 DEF StillUnset
<1>. QED  BY <1>1, <1>3, <1>6 DEF UndefinedInv, ScanInv

LEMMA LastAnalysisGoesOn ==
    ASSUME CompileInv, TempsInv, LastInv, Simplify, Analyse, phase = "undefined"
    PROVE  UndefinedInv' /\ ScanInv'
<1>1. /\ AnalysisStep /\ cfg' = cfg /\ phase' = phase /\ built' = built /\ Compiling
  BY WhileSimplifying DEF Analyse, simplifyVars
<1>2. SoundInv /\ StillUnset(tempstatus) /\ \A b \in BlockSet(cfg) : StillUnset(result[b])
  BY <1>1 DEF LastInv, UndefinedInv
<1>3. SoundInv'
  BY <1>1, <1>2, AnalysisStepSound
<1>4. WellFormed(cfg) /\ AnalysisTypeOK
  BY <1>2 DEF SoundInv, AnalysisInv
<1>5. /\ BlockSet(cfg) \subseteq BlockSet(built)
      /\ \A b \in BlockSet(cfg) : InstructionsOf(cfg, b) = InstructionsOf(built, b)
  BY <1>1, LeftParts DEF LastInv, VariablesGone
<1>6. StillUnset(tempstatus)' /\ (\A b \in BlockSet(cfg) : StillUnset(result[b]))'
  BY <1>1, <1>2, <1>4, <1>5, AnalysisIsSilent
<1>. QED  BY <1>1, <1>3, <1>6 DEF UndefinedInv, ScanInv

LEMMA ScanStarts ==
    ASSUME CompileInv, TempsInv, LastInv, Simplify, StartScan
    PROVE  UndefinedInv' /\ ScanInv'
<1>1. /\ phase = "undefined" /\ AnalysisDone /\ phase' = "scan" /\ at' = 1 /\ next_ins' = 1 /\ next_operand' = 1
      /\ cfg' = cfg /\ built' = built /\ Compiling /\ result' = result /\ reachable' = reachable
  BY WhileSimplifying DEF StartScan, analysis
<1>2. SoundInv /\ \A b \in BlockSet(cfg) : StillUnset(result[b])
  BY <1>1 DEF LastInv, UndefinedInv
<1>3. Fixpoint(cfg, result)
  BY <1>1, <1>2, DoneIsFixpoint
<1>4. result \in [BlockSet(cfg) -> Statuses] /\ \A b \in reachable : Known(result[b])
  <2>1. /\ WellFormed(cfg) /\ BlockSet(cfg) = reachable \cup {EndBlock}
        /\ \A b \in reachable : Targets(cfg, b) \subseteq reachable
        /\ \A S \in SUBSET reachable :
                StartBlock \in S /\ (\A b \in S : Targets(cfg, b) \subseteq S) => reachable \subseteq S
        /\ StartBlock \in reachable
    BY <1>1, LeftParts DEF LastInv, VariablesGone
  <2>2. reachable \subseteq BlockSet(cfg)
    BY <2>1
  <2>3. \A b \in reachable : Known(result[b])
    BY <1>3, <2>1, <2>2, AllIsKnown
  <2>. QED  BY <1>3, <2>3 DEF Fixpoint, StatusesOf, Statuses
<1>5. 1 \in DOMAIN cfg.all_blocks
  <2>1. List(cfg.all_blocks) /\ cfg.all_blocks # << >>
    BY <1>1 DEF CompileInv, BlocksInv
  <2>. QED  BY <2>1 DEF List
<1>6. Unset' = Unset
  BY <1>1 DEF Unset, NeverSet
<1>7. \A i \in DOMAIN cfg.all_blocks : \A n \in DOMAIN Code(i) :
            \A k \in DOMAIN Code(i)[n].operands : ~Passed(i, n, k)'
  <2>1. List(cfg.all_blocks)
    BY <1>1 DEF CompileInv, BlocksInv
  <2>2. DOMAIN cfg.all_blocks \subseteq Nat \ {0}
    BY <2>1 DEF List
  <2>3. ASSUME NEW i \in DOMAIN cfg.all_blocks, NEW n \in DOMAIN Code(i),
               NEW k \in DOMAIN Code(i)[n].operands
        PROVE  i \in Nat \ {0} /\ n \in Nat \ {0} /\ k \in Nat \ {0}
    <3>1. PICK b : b = cfg.all_blocks[i]
      OBVIOUS
    <3>2. WellFormed(cfg) /\ b \in BlockSet(cfg)
      BY <1>1, <3>1, LeftParts DEF LastInv, VariablesGone, BlockSet
    <3>3. cfg.block[b].instructions \in Seq(InstructionsOf(cfg, b)) /\ BlockOK(cfg, b)
      BY <3>2 DEF WellFormed, BlockOK
    <3>4. n \in Nat \ {0} /\ Code(i)[n] \in InstructionsOf(cfg, b)
      BY <2>3, <3>1, <3>3 DEF Code, InstructionsOf
    <3>5. Code(i)[n].operands \in Seq(VarSet(cfg))
      BY <3>3, <3>4 DEF BlockOK, InstructionOK
    <3>6. k \in Nat \ {0}
      BY <2>3, <3>5
    <3>. QED  BY <2>2, <3>4, <3>6
  <2>. QED  BY <1>1, <2>3 DEF Passed
<1>8. \A i : Code(i)' = Code(i)
  BY <1>1 DEF Code
<1>9. \A b \in BlockSet(cfg) : StillUnset(result[b])'
  BY <1>1, <1>2, <1>6 DEF StillUnset
<1>10. \A b \in reachable : Known(result[b])'
  BY <1>1, <1>4 DEF Known
<1>11. UndefinedInv'
  BY <1>1 DEF UndefinedInv
<1>12. /\ result' \in [BlockSet(cfg') -> Statuses']
       /\ \A b \in reachable' : Known(result[b])'
       /\ \A b \in BlockSet(cfg') : StillUnset(result[b])'
  BY <1>1, <1>4, <1>9, <1>10 DEF Statuses
<1>13. \A i \in DOMAIN cfg'.all_blocks : \A n \in DOMAIN Code(i)' :
            \A k \in DOMAIN (Code(i)')[n].operands : ~Passed(i, n, k)'
  BY <1>1, <1>7, <1>8
<1>. QED  BY <1>1, <1>5, <1>11, <1>12, <1>13 DEF ScanInv
-----------------------------------------------------------------------------
\* The place the scan is at.
LEMMA ScanPlace ==
    ASSUME CompileInv, TempsInv, LastInv, Compiling, phase = "scan",
           NEW b, b = cfg.all_blocks[at], NEW q, q = Scanned
    PROVE  /\ WellFormed(cfg) /\ b \in BlockSet(cfg) /\ q = Code(at) /\ q \in Seq(InstructionsOf(cfg, b))
           /\ next_ins <= Len(q) => /\ b \in reachable /\ next_ins \in DOMAIN q
                                    /\ q[next_ins] \in InstructionsOf(cfg, b)
                                    /\ q[next_ins].operands \in Seq(VarSet(cfg))
                                    /\ InstructionOK(cfg, q[next_ins])
<1>1. /\ WellFormed(cfg) /\ BlockSet(cfg) = reachable \cup {EndBlock}
  BY LeftParts DEF LastInv, VariablesGone
<1>2. at \in DOMAIN cfg.all_blocks /\ next_ins \in Nat \ {0}
  BY DEF LastInv, ScanInv
<1>3. b \in BlockSet(cfg) /\ q = cfg.block[b].instructions /\ q = Code(at)
  BY <1>2 DEF BlockSet, Scanned, Code
<1>4. q \in Seq(InstructionsOf(cfg, b)) /\ BlockOK(cfg, b)
  BY <1>1, <1>3 DEF WellFormed, BlockOK
<1>5. ASSUME next_ins <= Len(q)
      PROVE  /\ b \in reachable /\ next_ins \in DOMAIN q /\ q[next_ins] \in InstructionsOf(cfg, b)
             /\ InstructionOK(cfg, q[next_ins])
  <2>1. next_ins \in DOMAIN q
    BY <1>2, <1>4, <1>5
  <2>2. b # EndBlock
    <3>1. cfg.block[EndBlock].instructions = << >>
      BY <1>1 DEF WellFormed
    <3>2. q # << >>
      <4>1. ~ (next_ins \in DOMAIN << >>)
        OBVIOUS
      <4>. QED  BY <2>1, <4>1
    <3>. QED  BY <1>3, <3>1, <3>2
  <2>. QED  BY <1>1, <1>3, <1>4, <2>1, <2>2 DEF BlockOK
<1>. QED  BY <1>1, <1>3, <1>4, <1>5 DEF InstructionOK

LEMMA ScanOperandLast ==
    ASSUME CompileInv, TempsInv, LastInv, Simplify, ScanOperand
    PROVE  UndefinedInv' /\ ScanInv'
<1>1. /\ phase = "scan" /\ phase' = phase /\ at' = at /\ next_ins' = next_ins /\ next_operand' = next_operand + 1
      /\ next_ins <= Len(Scanned) /\ next_operand <= Len(Scanned[next_ins].operands)
      /\ cfg' = cfg /\ built' = built /\ Compiling /\ result' = result /\ reachable' = reachable
  BY WhileSimplifying DEF ScanOperand, analysis
<1>2. PICK b, q, ins, v, s : /\ b = cfg.all_blocks[at] /\ q = Scanned /\ ins = q[next_ins]
                             /\ v = ins.operands[next_operand] /\ s = result[b][v]
  OBVIOUS
<1>3. /\ b \in reachable /\ q = Code(at) /\ next_ins \in DOMAIN q
      /\ ins \in InstructionsOf(cfg, b) /\ ins.operands \in Seq(VarSet(cfg)) /\ b \in BlockSet(cfg)
  BY <1>1, <1>2, ScanPlace
<1>4. /\ result \in [BlockSet(cfg) -> Statuses]
      /\ Known(result[b]) /\ StillUnset(result[b]) /\ next_operand \in Nat \ {0}
      /\ at \in DOMAIN cfg.all_blocks /\ next_ins \in Nat \ {0}
      /\ \A c \in reachable : Known(result[c])
      /\ \A c \in BlockSet(cfg) : StillUnset(result[c])
      /\ \A i \in DOMAIN cfg.all_blocks : \A n \in DOMAIN Code(i) :
                \A k \in DOMAIN Code(i)[n].operands : Passed(i, n, k) => Reported(Code(i)[n], k)
  BY <1>1, <1>3 DEF LastInv, ScanInv
<1>5. warnings' = warnings \o UndefinedWarning(v, s, ins.line)
  BY <1>1, <1>2 DEF ScanOperand
<1>6. PICK w : w = UndefinedWarning(v, s, ins.line)
  OBVIOUS
<1>7. List(w)
  BY <1>6, ShortLists DEF UndefinedWarning
<1>8. List(warnings)
  BY DEF CompileInv, LinkInv
<1>9. ToSet(warnings') = ToSet(warnings) \cup ToSet(w)
  BY <1>5, <1>6, <1>7, <1>8, ConcatList
<1>10. Warned("is undefined") \subseteq Warned("is undefined")'
  BY <1>9 DEF Warned
<1>11. Unset' = Unset /\ \A i : Code(i)' = Code(i)
  BY <1>1 DEF Unset, NeverSet, Code
<1>12. ASSUME v \in Unset, VariableOf(cfg, v).name # "" PROVE ins.line \in Warned("is undefined")'
  <2>1. v \in VarSet(cfg)
    BY <1>12 DEF Unset
  <2>2. s = "UNDEFINED"
    BY <1>2, <1>4, <1>12, <2>1 DEF StillUnset, Known
  <2>3. PICK m : m = Warning("is undefined", ins.line, VariableOf(cfg, v).name)
    OBVIOUS
  <2>4. w = <<m>>
    BY <1>6, <1>12, <2>2, <2>3 DEF UndefinedWarning
  <2>5. m \in ToSet(w) /\ m.kind = "is undefined" /\ m.line = ins.line
    BY <2>3, <2>4, ShortLists DEF Warning
  <2>. QED  BY <1>9, <2>5 DEF Warned
<1>13. ASSUME NEW i \in DOMAIN cfg.all_blocks, NEW n \in DOMAIN Code(i), NEW k \in DOMAIN Code(i)[n].operands,
              Passed(i, n, k)'
       PROVE  Reported(Code(i)[n], k)'
  <2>1. CASE i = at /\ n = next_ins /\ k = next_operand
    <3>1. Code(i)[n] = ins /\ ins.operands[k] = v
      BY <1>2, <1>3, <2>1
    <3>. QED  BY <1>1, <1>11, <1>12, <3>1 DEF Reported
  <2>2. CASE ~(i = at /\ n = next_ins /\ k = next_operand)
    <3>1. Passed(i, n, k)
      <4>1. i = at /\ n = next_ins => k \in Nat
        <5>. SUFFICES ASSUME i = at, n = next_ins PROVE k \in Nat
          OBVIOUS
        <5>1. Code(i)[n] = ins
          BY <1>2, <1>3
        <5>2. k \in DOMAIN ins.operands
          BY <1>13, <5>1
        <5>. QED  BY <1>3, <5>2
      <4>2. \/ i < at
            \/ i = at /\ n < next_ins
            \/ i = at /\ n = next_ins /\ k < next_operand + 1
        BY <1>1, <1>13 DEF Passed
      <4>3. k \in Nat /\ k < next_operand + 1 => k < next_operand \/ k = next_operand
        BY <1>4
      <4>. QED  BY <2>2, <4>1, <4>2, <4>3 DEF Passed
    <3>2. Reported(Code(i)[n], k)
      BY <1>4, <1>13, <3>1
    <3>. QED  BY <1>1, <1>10, <1>11, <3>2 DEF Reported
  <2>. QED  BY <2>1, <2>2
<1>14. UndefinedInv'
  BY <1>1 DEF UndefinedInv
<1>15. /\ result' \in [BlockSet(cfg') -> Statuses']
       /\ \A c \in reachable' : Known(result[c])'
       /\ \A c \in BlockSet(cfg') : StillUnset(result[c])'
  BY <1>1, <1>4, <1>11 DEF Statuses, Known, StillUnset
<1>16. at' \in DOMAIN cfg'.all_blocks /\ next_ins' \in Nat \ {0} /\ next_operand' \in Nat \ {0}
  BY <1>1, <1>4
<1>17. \A i \in DOMAIN cfg'.all_blocks : \A n \in DOMAIN Code(i)' :
            \A k \in DOMAIN (Code(i)')[n].operands : Passed(i, n, k)' => Reported(Code(i)[n], k)'
  BY <1>1, <1>11, <1>13
<1>. QED  BY <1>14, <1>15, <1>16, <1>17 DEF ScanInv
-----------------------------------------------------------------------------
LEMMA ScanInstructionLast ==
    ASSUME CompileInv, TempsInv, LastInv, Simplify, ScanInstruction
    PROVE  UndefinedInv' /\ ScanInv'
<1>1. /\ phase = "scan" /\ phase' = phase /\ at' = at /\ next_ins' = next_ins + 1 /\ next_operand' = 1
      /\ next_ins <= Len(Scanned) /\ next_operand > Len(Scanned[next_ins].operands)
      /\ cfg' = cfg /\ built' = built /\ Compiling /\ reachable' = reachable /\ warnings' = warnings
  BY WhileSimplifying DEF ScanInstruction
<1>2. PICK b, q, ins : b = cfg.all_blocks[at] /\ q = Scanned /\ ins = q[next_ins]
  OBVIOUS
<1>3. /\ b \in reachable /\ q = Code(at) /\ next_ins \in DOMAIN q /\ WellFormed(cfg)
      /\ ins \in InstructionsOf(cfg, b) /\ ins.operands \in Seq(VarSet(cfg)) /\ b \in BlockSet(cfg)
      /\ InstructionOK(cfg, ins) /\ q \in Seq(InstructionsOf(cfg, b))
  BY <1>1, <1>2, ScanPlace
<1>4. /\ result \in [BlockSet(cfg) -> Statuses]
      /\ at \in DOMAIN cfg.all_blocks /\ next_ins \in Nat \ {0} /\ next_operand \in Nat \ {0}
      /\ \A c \in reachable : Known(result[c])
      /\ \A c \in BlockSet(cfg) : StillUnset(result[c])
      /\ \A i \in DOMAIN cfg.all_blocks : \A n \in DOMAIN Code(i) :
                \A k \in DOMAIN Code(i)[n].operands : Passed(i, n, k) => Reported(Code(i)[n], k)
  BY <1>1 DEF LastInv, ScanInv
<1>5. PICK u : u = update_statuses_with_instruction(result[b], ins)
  OBVIOUS
<1>6. result' = [result EXCEPT ![b] = u]
  BY <1>1, <1>2, <1>5 DEF ScanInstruction
<1>7. u \in Statuses /\ Known(u)
  BY <1>3, <1>4, <1>5, UpdateType
<1>8. StillUnset(u)
  <2>1. /\ BlockSet(cfg) \subseteq BlockSet(built)
        /\ InstructionsOf(cfg, b) = InstructionsOf(built, b)
    BY <1>1, <1>3, LeftParts DEF LastInv, VariablesGone
  <2>. QED  BY <1>3, <1>4, <1>5, <2>1, InstructionIsSilent
<1>9. Unset' = Unset /\ \A i : Code(i)' = Code(i)
  BY <1>1 DEF Unset, NeverSet, Code
<1>10. /\ result' \in [BlockSet(cfg) -> Statuses]
       /\ \A c \in reachable : Known(result'[c])
       /\ \A c \in BlockSet(cfg) : StillUnset(result'[c])
  <2>1. reachable \subseteq BlockSet(cfg)
    BY <1>1, LeftParts DEF LastInv, VariablesGone
  <2>. QED  BY <1>3, <1>4, <1>6, <1>7, <1>8, <2>1
<1>11. /\ result' \in [BlockSet(cfg') -> Statuses']
       /\ \A c \in reachable' : Known(result[c])'
       /\ \A c \in BlockSet(cfg') : StillUnset(result[c])'
  BY <1>1, <1>9, <1>10 DEF Statuses, Known, StillUnset
<1>12. ASSUME NEW i \in DOMAIN cfg.all_blocks, NEW n \in DOMAIN Code(i), NEW k \in DOMAIN Code(i)[n].operands,
              Passed(i, n, k)'
       PROVE  Reported(Code(i)[n], k)'
  <2>1. Passed(i, n, k)
    <3>1. \/ i < at
          \/ i = at /\ n < next_ins + 1
          \/ i = at /\ n = next_ins + 1 /\ k < 1
      BY <1>1, <1>12 DEF Passed
    <3>2. CASE i < at
      BY <3>2 DEF Passed
    <3>3. CASE i = at /\ n < next_ins + 1
      <4>1. n \in Nat
        BY <1>3, <3>3
      <4>2. n < next_ins \/ n = next_ins
        BY <1>4, <3>3, <4>1
      <4>3. CASE n < next_ins
        BY <3>3, <4>3 DEF Passed
      <4>4. CASE n = next_ins
        <5>1. Code(i)[n] = ins
          BY <1>2, <1>3, <3>3, <4>4
        <5>2. k \in DOMAIN ins.operands
          BY <1>12, <5>1
        <5>3. k \in 1 .. Len(ins.operands) /\ Len(ins.operands) \in Nat
          BY <1>3, <5>2
        <5>4. next_operand > Len(ins.operands)
          BY <1>1, <1>2
        <5>5. k < next_operand
          BY <1>4, <5>3, <5>4
        <5>. QED  BY <3>3, <4>4, <5>5 DEF Passed
      <4>. QED  BY <4>2, <4>3, <4>4
    <3>4. CASE i = at /\ n = next_ins + 1 /\ k < 1
      <4>1. n \in DOMAIN q
        BY <1>3, <3>4
      <4>2. q[n] \in InstructionsOf(cfg, b)
        BY <1>3, <4>1
      <4>3. q[n].operands \in Seq(VarSet(cfg))
        BY <1>3, <4>2 DEF WellFormed, BlockOK, InstructionOK
      <4>4. k \in DOMAIN q[n].operands
        BY <1>3, <1>12, <3>4
      <4>5. k \in 1 .. Len(q[n].operands)
        BY <4>3, <4>4
      <4>. QED  BY <3>4, <4>5
    <3>. QED  BY <3>1, <3>2, <3>3, <3>4
  <2>2. Reported(Code(i)[n], k)
    BY <1>4, <1>12, <2>1
  <2>3. Warned("is undefined")' = Warned("is undefined")
    BY <1>1 DEF Warned
  <2>. QED  BY <1>1, <1>9, <2>2, <2>3 DEF Reported
<1>13. UndefinedInv'
  BY <1>1 DEF UndefinedInv
<1>14. at' \in DOMAIN cfg'.all_blocks /\ next_ins' \in Nat \ {0} /\ next_operand' \in Nat \ {0}
  BY <1>1, <1>4
<1>15. \A i \in DOMAIN cfg'.all_blocks : \A n \in DOMAIN Code(i)' :
            \A k \in DOMAIN (Code(i)')[n].operands : Passed(i, n, k)' => Reported(Code(i)[n], k)'
  BY <1>1, <1>9, <1>12
<1>. QED  BY <1>11, <1>13, <1>14, <1>15 DEF ScanInv

LEMMA ScanNextBlockLast ==
    ASSUME CompileInv, TempsInv, LastInv, Simplify, ScanNextBlock
    PROVE  UndefinedInv' /\ ScanInv'
<1>1. /\ phase = "scan" /\ next_ins > Len(Scanned) /\ next_ins' = 1 /\ next_operand' = 1
      /\ \/ at < Len(cfg.all_blocks) /\ at' = at + 1 /\ phase' = phase
         \/ ~(at < Len(cfg.all_blocks)) /\ at' = at /\ phase' = "done"
      /\ cfg' = cfg /\ built' = built /\ Compiling /\ reachable' = reachable /\ warnings' = warnings
      /\ result' = result
  BY WhileSimplifying DEF ScanNextBlock, analysis
<1>2. PICK b, q : b = cfg.all_blocks[at] /\ q = Scanned
  OBVIOUS
<1>3. /\ q = Code(at) /\ WellFormed(cfg) /\ b \in BlockSet(cfg) /\ q \in Seq(InstructionsOf(cfg, b))
  BY <1>1, <1>2, ScanPlace
<1>4. /\ result \in [BlockSet(cfg) -> Statuses]
      /\ at \in DOMAIN cfg.all_blocks /\ next_ins \in Nat \ {0} /\ next_operand \in Nat \ {0}
      /\ \A c \in reachable : Known(result[c])
      /\ \A c \in BlockSet(cfg) : StillUnset(result[c])
      /\ \A i \in DOMAIN cfg.all_blocks : \A n \in DOMAIN Code(i) :
                \A k \in DOMAIN Code(i)[n].operands : Passed(i, n, k) => Reported(Code(i)[n], k)
  BY <1>1 DEF LastInv, ScanInv
<1>5. Unset' = Unset /\ \A i : Code(i)' = Code(i)
  BY <1>1 DEF Unset, NeverSet, Code
<1>6. /\ result' \in [BlockSet(cfg') -> Statuses']
      /\ \A c \in reachable' : Known(result[c])'
      /\ \A c \in BlockSet(cfg') : StillUnset(result[c])'
  BY <1>1, <1>4, <1>5 DEF Statuses, Known, StillUnset
<1>7. Len(cfg.all_blocks) \in Nat /\ DOMAIN cfg.all_blocks = 1 .. Len(cfg.all_blocks)
  BY <1>1 DEF CompileInv, BlocksInv, List
<1>8. ASSUME NEW i \in DOMAIN cfg.all_blocks, NEW n \in DOMAIN Code(i), NEW k \in DOMAIN Code(i)[n].operands,
              Passed(i, n, k)'
       PROVE  Reported(Code(i)[n], k)'
  <2>1. n \in Nat \ {0} /\ k \in Nat \ {0}
    <3>1. PICK c : c = cfg.all_blocks[i]
      OBVIOUS
    <3>2. c \in BlockSet(cfg)
      BY <3>1 DEF BlockSet
    <3>3. cfg.block[c].instructions \in Seq(InstructionsOf(cfg, c)) /\ BlockOK(cfg, c)
      BY <1>3, <3>2 DEF WellFormed, BlockOK
    <3>4. n \in Nat \ {0} /\ Code(i)[n] \in InstructionsOf(cfg, c)
      BY <1>8, <3>1, <3>3 DEF Code, InstructionsOf
    <3>5. Code(i)[n].operands \in Seq(VarSet(cfg))
      BY <3>3, <3>4 DEF BlockOK, InstructionOK
    <3>. QED  BY <1>8, <3>4, <3>5
  <2>2. i < at \/ i = at
    <3>1. i \in 1 .. Len(cfg.all_blocks) /\ at \in 1 .. Len(cfg.all_blocks)
      BY <1>4, <1>7
    <3>2. CASE at' = at + 1 /\ phase' = phase
      <4>1. i < at + 1 \/ (i = at + 1 /\ (n < 1 \/ (n = 1 /\ k < 1)))
        BY <1>1, <1>8, <3>2 DEF Passed
      <4>. QED  BY <2>1, <3>1, <4>1
    <3>3. CASE ~(at < Len(cfg.all_blocks))
      BY <1>7, <3>1, <3>3
    <3>. QED  BY <1>1, <3>2, <3>3
  <2>3. Passed(i, n, k)
    <3>1. CASE i < at
      BY <3>1 DEF Passed
    <3>2. CASE i = at
      <4>1. n \in DOMAIN q
        BY <1>3, <3>2
      <4>2. n \in 1 .. Len(q) /\ Len(q) \in Nat
        BY <1>3, <4>1
      <4>3. n < next_ins
        BY <1>1, <1>2, <1>4, <4>2
      <4>. QED  BY <3>2, <4>3 DEF Passed
    <3>. QED  BY <2>2, <3>1, <3>2
  <2>4. Reported(Code(i)[n], k)
    BY <1>4, <1>8, <2>3
  <2>5. Warned("is undefined")' = Warned("is undefined")
    BY <1>1 DEF Warned
  <2>. QED  BY <1>1, <1>5, <2>4, <2>5 DEF Reported
<1>9. UndefinedInv'
  BY <1>1 DEF UndefinedInv
<1>10. phase' = "scan" => /\ at' \in DOMAIN cfg'.all_blocks /\ next_ins' \in Nat \ {0} /\ next_operand' \in Nat \ {0}
  <2>. SUFFICES ASSUME phase' = "scan" PROVE at' \in DOMAIN cfg.all_blocks
    BY <1>1
  <2>1. at < Len(cfg.all_blocks) /\ at' = at + 1
    BY <1>1
  <2>2. at \in 1 .. Len(cfg.all_blocks)
    BY <1>4, <1>7
  <2>. QED  BY <1>7, <2>1, <2>2
<1>11. \A i \in DOMAIN cfg'.all_blocks : \A n \in DOMAIN Code(i)' :
            \A k \in DOMAIN (Code(i)')[n].operands : Passed(i, n, k)' => Reported(Code(i)[n], k)'
  BY <1>1, <1>5, <1>8
<1>. QED  BY <1>6, <1>9, <1>10, <1>11 DEF ScanInv
-----------------------------------------------------------------------------
LEMMA LastStays ==
    ASSUME UndefinedInv, ScanInv, UNCHANGED <<buildVars, analysisVars, simplifyVars, built>>
    PROVE  UndefinedInv' /\ ScanInv'
<1>1. /\ UNCHANGED <<cfg, result, tempstatus, phase, reachable, warnings, at, next_ins, next_operand, built>>
      /\ UNCHANGED build_error /\ UNCHANGED analysisVars
  BY DEF buildVars, analysisVars, simplifyVars, passes
<1>2. /\ Compiling' = Compiling /\ Unset' = Unset /\ Statuses' = Statuses
      /\ (\A b \in BlockSet(cfg) : StillUnset(result[b]))' = (\A b \in BlockSet(cfg) : StillUnset(result[b]))
      /\ StillUnset(tempstatus)' = StillUnset(tempstatus)
      /\ (\A b \in reachable : Known(result[b]))' = (\A b \in reachable : Known(result[b]))
  BY <1>1 DEF Compiling, Unset, NeverSet, StillUnset, Known, Statuses
<1>3. UndefinedInv'
  BY <1>1, <1>2, SoundStutterKeeps DEF UndefinedInv
<1>4. /\ \A i : Code(i)' = Code(i)
      /\ \A i, n, k : Passed(i, n, k)' = Passed(i, n, k)
      /\ \A ins, k : Reported(ins, k)' = Reported(ins, k)
  BY <1>1, <1>2 DEF Code, Passed, Reported, Warned
<1>5. ScanInv'
  BY <1>1, <1>2, <1>4 DEF ScanInv
<1>. QED  BY <1>3, <1>5

LEMMA NotLast ==
    ASSUME phase' \notin {"undefined", "scan", "done"}
    PROVE  UndefinedInv' /\ ScanInv'
BY DEF UndefinedInv, ScanInv

LEMMA LastInvKept == CompileInv /\ TempsInv /\ LastInv /\ [Next]_vars => LastInv'
<1>. SUFFICES ASSUME CompileInv, TempsInv, LastInv, [Next]_vars PROVE UndefinedInv' /\ ScanInv'
  BY KeptInvKept DEF LastInv
<1>1. CASE Build \/ FinishFunction \/ BuildFails
  <2>1. phase' \notin {"undefined", "scan", "done"}
    BY <1>1 DEF Build, FinishFunction, BuildFails, simplifyVars
  <2>. QED  BY <2>1, NotLast
<1>2. CASE Simplify
  <2>1. CASE \/ CleanJumps \/ MarkReachable \/ CollectUnreachable \/ StartGrouping \/ GroupBlock
             \/ ShowUnreachableWarning \/ StartRemovingBlocks \/ RemoveGivenBlock \/ BlocksRemoved
             \/ ErrorAboutMissingReturn \/ FindUsedVariables \/ RemoveUnusedVariable
    <3>1. phase' \notin {"undefined", "scan", "done"}
      BY <2>1 DEF CleanJumps, MarkReachable, CollectUnreachable, StartGrouping, GroupBlock,
                  ShowUnreachableWarning, StartRemovingBlocks, RemoveGivenBlock, BlocksRemoved,
                  ErrorAboutMissingReturn, FindUsedVariables, RemoveUnusedVariable
    <3>. QED  BY <3>1, NotLast
  <2>2. CASE Analyse
    <3>1. phase' = phase /\ phase \in AnalysingPhases
      BY <2>2 DEF Analyse, simplifyVars
    <3>2. CASE phase = "undefined"
      BY <1>2, <2>2, <3>2, LastAnalysisGoesOn
    <3>3. CASE phase # "undefined"
      BY <3>1, <3>3, NotLast DEF AnalysingPhases
    <3>. QED  BY <3>2, <3>3
  <2>. QED  BY <1>2, <2>1, <2>2, LastAnalysisStarts, ScanStarts, ScanOperandLast, ScanInstructionLast,
               ScanNextBlockLast DEF Simplify, SimplifyStep
<1>3. CASE CallFunction \/ Run \/ Stopped \/ UNCHANGED vars
  <2>1. UNCHANGED <<buildVars, analysisVars, simplifyVars, built>>
    BY <1>3 DEF CallFunction, Run, Stopped, vars
  <2>. QED  BY <2>1, LastStays DEF LastInv
<1>. QED  BY <1>1, <1>2, <1>3 DEF Next, CompileStep

LEMMA InitLast == Init => LastInv
<1>. SUFFICES ASSUME Init PROVE LastInv
  OBVIOUS
<1>1. phase = "build"
  BY DEF Init
<1>. QED  BY <1>1, InitKept DEF LastInv, UndefinedInv, ScanInv

\* All that holds of a function on its way through the compiler.
LEMMA LastInvHolds == Spec => [](CompileInv /\ TempsInv /\ LastInv)
BY InitCompileInv, CompileInvKept, InitTemps, TempsInvKept, InitLast, LastInvKept, PTL DEF Spec

\* The assertion that opens update_statuses_with_instruction holds in
\* warn_about_undefined_variables too, which calls it on the blocks as they
\* are listed: the analysis has been to each one that has instructions.
THEOREM ScanMeetsNoUnvisited == Spec => []NothingUnvisitedIsScanned
<1>1. CompileInv /\ TempsInv /\ LastInv => NothingUnvisitedIsScanned
  <2>. SUFFICES ASSUME CompileInv, TempsInv, LastInv, phase = "scan", next_ins <= Len(Scanned),
                       NEW v \in VarSet(cfg)
                PROVE  result[cfg.all_blocks[at]][v] # "UNVISITED"
    BY DEF NothingUnvisitedIsScanned
  <2>1. Compiling
    BY DEF CompileInv, LinkInv, Compiling
  <2>2. PICK b, q : b = cfg.all_blocks[at] /\ q = Scanned
    OBVIOUS
  <2>3. b \in reachable
    BY <2>1, <2>2, ScanPlace
  <2>. QED  BY <2>1, <2>2, <2>3 DEF LastInv, ScanInv, Known
<1>. QED  BY <1>1, LastInvHolds, PTL
-----------------------------------------------------------------------------
\* A variable that nothing sets and an execution reads has a name: those the
\* builder made up are set by some instruction that is left.
LEMMA UnsetHasName ==
    ASSUME CompileInv, TempsInv, Compiling, phase = "done", Executing,
           NEW v \in OperandSet(Current), NeverSet(v), v \in VarSet(built)
    PROVE  built.variables[v].name # "" /\ built.variables[v].id = v
<1>1. pc \notin {NoBlock, EndBlock}
  BY DEF Executing
<1>2. /\ StateFits(function, st) /\ function \in Functions /\ running.block = st.block
      /\ running = BuiltCfg /\ BuildInv /\ BuildDone
      /\ pc \in DOMAIN st.block /\ List(st.block[pc].instructions)
      /\ ip \in 1 .. Len(st.block[pc].instructions) + 1
  BY <1>1, PlaceInBuilt
<1>3. running = built /\ pc \in BlockSet(cfg) /\ built = BuiltCfg
  BY <1>1, <1>2 DEF CompileInv, RunInv, LinkInv
<1>4. /\ BlockSet(built) = DOMAIN st.block /\ built.variables = st.variables /\ VarSet(built) = VariablesIn(st)
      /\ InstructionsOf(built, pc) = ToSet(st.block[pc].instructions)
  BY <1>2, <1>3, BuiltParts
<1>5. PICK q, n : q = st.block[pc].instructions /\ n = ip
  OBVIOUS
<1>6. Current = q[n] /\ n \in 1 .. Len(q) /\ Len(q) \in Nat
  <2>1. Len(q) \in Nat /\ n \in 1 .. Len(q) + 1
    BY <1>2, <1>5 DEF List
  <2>2. ~ (n > Len(q)) /\ Current = q[n]
    BY <1>2, <1>5 DEF Executing, BlockEnded, Current
  <2>. QED  BY <2>1, <2>2
<1>7. q[n] \in InstructionsOf(built, pc) /\ pc \in BlockSet(built)
  BY <1>2, <1>4, <1>5, <1>6 DEF ToSet, List
<1>8. q[n].kind # "ADDRESS_OF_VARIABLE" /\ v \in OperandSet(q[n])
  BY <1>6, <1>7 DEF NeverSet
<1>9. SoundGraph(function, built)
  BY CompilingIsSound DEF CompileInv
<1>10. built.variables[v].id = v
  <2>1. v \in DOMAIN built.variables
    BY <1>2, <1>4, Lengths DEF VariablesIn
  <2>. QED  BY <1>9, <2>1 DEF SoundGraph
<1>11. ASSUME built.variables[v].name = "" PROVE FALSE
  <2>1. v \notin DOMAIN function.variables
    <3>1. VariablesOK(function)
      BY <1>2, FunctionsAssumption DEF FunctionOK
    <3>2. v \in DOMAIN function.variables => built.variables[v] = function.variables[v]
      BY <1>9 DEF SoundGraph
    <3>. QED  BY <1>11, <3>1, <3>2 DEF VariablesOK
  <2>2. v \in Temps(function)
    <3>1. DOMAIN function.variables = 1 .. Len(function.variables) /\ Len(function.variables) \in Nat
      BY <1>2, Lengths
    <3>2. v \in Nat \ {0}
      BY <1>4 DEF VariablesIn
    <3>. QED  BY <2>1, <3>1, <3>2 DEF Temps
  <2>3. PICK K : Ordered(function, K, st, agenda, values)
    BY DEF TempsInv
  <2>4. BlockInOrder(function, K, st, pc)
    BY <1>2, <2>3 DEF Ordered, InOrder
  <2>5. v \in K[pc] \cup ProvidedBy(function, q, n - 1)
    BY <1>5, <1>6, <1>8, <2>2, <2>4 DEF BlockInOrder, CodeInOrder, Needs
  <2>6. ProvidedBy(function, q, n - 1) \subseteq ProvidedBy(function, q, Len(q))
    <3>1. 1 .. n - 1 \subseteq 1 .. Len(q)
      BY <1>6
    <3>. QED  BY <3>1 DEF ProvidedBy
  <2>7. v \in K[pc] \cup After(function, K, st, pc)
    BY <1>5, <2>5, <2>6 DEF After
  <2>8. pc \in reachable /\ reachable \subseteq BlockSet(built)
    <3>1. phase \in BlocksGone
      BY DEF BlocksGone
    <3>2. PICK g, h : g = built /\ h = Pruned
      OBVIOUS
    <3>3. BlockSet(h) = reachable \cup {EndBlock} /\ BlockSet(h) = BlockSet(cfg) /\ PartOf(h, g)
      BY <3>1, <3>2, PrunedGraph
    <3>. QED  BY <1>1, <1>3, <3>2, <3>3 DEF PartOf
  <2>9. v \in SetSomewhere
    BY <2>3, <2>7, <2>8, KnownIsSetSomewhere DEF BlocksGone
  <2>. QED  BY <2>8, <2>9 DEF SetSomewhere, NeverSet
<1>. QED  BY <1>10, <1>11

\* warn_about_undefined_variables warns on the line of every use, that some
\* execution makes, of a variable that nothing in the function sets or points
\* to.
THEOREM UnsetUseIsReported == Spec => []UseOfUnsetIsWarned
<1>1. CompileInv /\ TempsInv /\ LastInv => UseOfUnsetIsWarned
  <2>. SUFFICES ASSUME CompileInv, TempsInv, LastInv, phase = "done", Executing,
                       NEW v \in OperandSet(Current) \ Arguments(running), NeverSet(v)
                PROVE  Current.line \in Warned("is undefined")
    BY DEF UseOfUnsetIsWarned
  <2>1. pc \notin {NoBlock, EndBlock} /\ Compiling /\ phase \in VariablesGone
    BY DEF Executing, CompileInv, LinkInv, Compiling, VariablesGone
  <2>2. running = built /\ pc \in BlockSet(cfg)
    BY <2>1 DEF CompileInv, RunInv
  <2>3. /\ WellFormed(cfg) /\ VarSet(cfg) \subseteq VarSet(built)
        /\ Arguments(cfg) \subseteq Arguments(built)
        /\ cfg.block[pc].instructions = built.block[pc].instructions
    BY <2>1, <2>2, LeftParts, LeftIsWellFormed DEF LastInv
  <2>4. PICK i \in DOMAIN cfg.all_blocks : cfg.all_blocks[i] = pc
    BY <2>2 DEF BlockSet
  <2>5. PICK q : q = cfg.block[pc].instructions
    OBVIOUS
  <2>6. q \in Seq(InstructionsOf(cfg, pc)) /\ BlockOK(cfg, pc) /\ Code(i) = q
    BY <2>2, <2>3, <2>4, <2>5 DEF WellFormed, BlockOK, Code
  <2>7. Current = q[ip] /\ ip \in DOMAIN q
    <3>1. ~(ip > Len(q)) /\ Current = q[ip]
      BY <2>2, <2>3, <2>5 DEF Executing, BlockEnded, Current
    <3>2. ip \in Nat \ {0}
      <4>1. ip \in 1 .. Len(st.block[pc].instructions) + 1
        BY <2>1, PlaceInBuilt
      <4>. QED  BY <4>1
    <3>. QED  BY <2>6, <3>1, <3>2
  <2>8. Current \in InstructionsOf(cfg, pc) /\ Current.operands \in Seq(VarSet(cfg))
    BY <2>6, <2>7 DEF BlockOK, InstructionOK
  <2>9. PICK k \in DOMAIN Current.operands : v = Current.operands[k]
    BY DEF OperandSet
  <2>10. v \in VarSet(cfg) /\ v \in Unset
    BY <2>2, <2>3, <2>8, <2>9 DEF Unset
  <2>11. built.variables[v].name # "" /\ built.variables[v].id = v
    BY <2>1, <2>3, <2>10, UnsetHasName
  <2>12. VariableOf(cfg, v).name # ""
    <3>1. PICK x : x = VariableOf(cfg, v)
      OBVIOUS
    <3>2. VariableOf(cfg, v) = CHOOSE w \in ToSet(cfg.variables) : w.id = v
      BY DEF VariableOf, ToSet
    <3>3. \E w \in ToSet(cfg.variables) : w.id = v
      BY <2>10, VariablesAreListed
    <3>4. x \in ToSet(cfg.variables) /\ x.id = v
      BY <3>1, <3>2, <3>3
    <3>5. x \in ToSet(built.variables)
      BY <2>1, <3>4 DEF LastInv, KeptInv
    <3>6. PICK j \in DOMAIN built.variables : x = built.variables[j]
      BY <3>5 DEF ToSet
    <3>7. built.variables[j].id = j
      BY <2>1, CompilingIsSound DEF CompileInv, SoundGraph
    <3>. QED  BY <2>11, <3>1, <3>4, <3>6, <3>7
  <2>13. Passed(i, ip, k)
    BY DEF Passed
  <2>14. Reported(Code(i)[ip], k)
    BY <2>1, <2>4, <2>6, <2>7, <2>9, <2>13 DEF LastInv, ScanInv
  <2>. QED  BY <2>6, <2>7, <2>9, <2>10, <2>12, <2>14 DEF Reported
<1>. QED  BY <1>1, LastInvHolds, PTL
-----------------------------------------------------------------------------
(***************************************************************************)
(* What the passes remember between two steps stays within the graph the   *)
(* builder returned.                                                       *)
(***************************************************************************)
BeforeInv ==
    /\ ~Compiling => cfg = EmptyGraph /\ built = EmptyGraph
    /\ ~Compiling \/ phase = "clean_jumps" =>
            todo = <<>> /\ reachable = {} /\ groups = <<>> /\ at = 0
    /\ ~Compiling \/ phase \notin VariablesGone => used = {}
    /\ pc = NoBlock => addressed = {}

\* There are no more blocks to remove than blocks, no more groups than
\* blocks to remove: the index of a loop over either fits.
InBounds(g, i) == i \in Nat /\ (i <= Len(g.all_blocks) + 1 \/ i <= Len(g.variables))
GroupsFit(g, gone, gs) ==
    /\ gone \in Seq(BlockSet(g)) /\ Len(gone) <= Len(g.all_blocks)
    /\ gs \in Seq(Seq(BlockSet(g))) /\ Len(gs) <= Len(gone)
PlacesInv ==
    Compiling =>
        /\ InBounds(built, at)
        /\ Len(cfg.all_blocks) <= Len(built.all_blocks)
        /\ Len(cfg.variables) <= Len(built.variables)
        /\ phase # "clean_jumps" => GroupsFit(built, blocks_to_remove, groups)
        /\ phase = "reachability" =>
            /\ at > Len(blocks_to_remove) /\ at <= Len(built.all_blocks) + 1
            /\ groups = <<>>

LEMMA SwapRemoveSeq ==
    ASSUME NEW S, NEW q \in Seq(S), NEW i \in 1 .. Len(q)
    PROVE  SwapRemove(q, i) \in Seq(S) /\ Len(SwapRemove(q, i)) = Len(q) - 1
<1>1. PICK n \in Nat : n = Len(q) - 1
  OBVIOUS
<1>2. PICK r : r = [j \in 1 .. n |-> IF j = i THEN q[Len(q)] ELSE q[j]]
  OBVIOUS
<1>3. r \in [1 .. n -> S]
  BY <1>1, <1>2
<1>4. SwapRemove(q, i) = r
  BY <1>1, <1>2 DEF SwapRemove
<1>. QED  BY <1>1, <1>3, <1>4, FunctionSeq

LEMMA JoinGroupsSeq ==
    ASSUME NEW B, NEW gs \in Seq(Seq(B)), NEW b1, NEW b2
    PROVE  JoinGroups(gs, b1, b2) \in Seq(Seq(B)) /\ Len(JoinGroups(gs, b1, b2)) <= Len(gs)
<1>. DEFINE G(b) == {i \in DOMAIN gs : b \in ToSet(gs[i])}
<1>1. CASE G(b1) = {} \/ G(b2) = {} \/ G(b1) = G(b2)
  <2>1. JoinGroups(gs, b1, b2) = gs
    BY <1>1 DEF JoinGroups
  <2>. QED  BY <2>1
<1>2. CASE ~(G(b1) = {} \/ G(b2) = {} \/ G(b1) = G(b2))
  <2>1. PICK i, j : i = (CHOOSE k \in G(b1) : TRUE) /\ j = (CHOOSE k \in G(b2) : TRUE)
    OBVIOUS
  <2>2. i \in DOMAIN gs /\ j \in DOMAIN gs
    BY <1>2, <2>1
  <2>3. PICK hs : hs = [gs EXCEPT ![i] = gs[i] \o gs[j]]
    OBVIOUS
  <2>4. hs \in Seq(Seq(B)) /\ Len(hs) = Len(gs)
    <3>1. gs[i] \o gs[j] \in Seq(B)
      BY <2>2
    <3>. HIDE DEF G
    <3>. QED  BY <2>2, <2>3, <3>1
  <2>5. JoinGroups(gs, b1, b2) = SwapRemove(hs, j)
    BY <1>2, <2>1, <2>3 DEF JoinGroups
  <2>6. j \in 1 .. Len(hs)
    BY <2>2, <2>4
  <2>. HIDE DEF G
  <2>7. SwapRemove(hs, j) \in Seq(Seq(B)) /\ Len(SwapRemove(hs, j)) = Len(hs) - 1
    BY <2>4, <2>6, SwapRemoveSeq
  <2>. QED  BY <2>4, <2>5, <2>7
<1>. QED  BY <1>1, <1>2
-----------------------------------------------------------------------------
\* What the passes can rely on.
LEMMA SimplifyingFits ==
    ASSUME CompileInv, BeforeInv, PlacesInv, Simplify
    PROVE  /\ Compiling /\ Compiling' /\ pc = NoBlock /\ addressed = {}
           /\ UNCHANGED <<built, pc, addressed>>
           /\ List(built.all_blocks) /\ List(cfg.all_blocks) /\ BlockSet(cfg) \subseteq BlockSet(built)
           /\ Len(built.all_blocks) \in Nat /\ Len(built.variables) \in Nat
           /\ Len(cfg.all_blocks) \in Nat /\ Len(cfg.variables) \in Nat
           /\ IsGraph(cfg)
           /\ InBounds(built, at) /\ InBounds(built, 0) /\ InBounds(built, 1)
           /\ Len(cfg.all_blocks) <= Len(built.all_blocks)
           /\ Len(cfg.variables) <= Len(built.variables)
<1>1. /\ Compiling /\ pc = NoBlock /\ SoundGraph(function, built)
      /\ UNCHANGED <<buildVars, runVars, built>>
      /\ phase \in WalkingBlocks \cup BlocksGone \cup {"remove_blocks"}
      /\ phase \notin {"build", "done", "failed"}
  BY WhileSimplifying
<1>2. Compiling'
  BY <1>1 DEF Compiling, buildVars, Simplify, SimplifyStep, Analyse, CleanJumps, MarkReachable,
         CollectUnreachable, StartGrouping, GroupBlock, ShowUnreachableWarning, StartRemovingBlocks,
         RemoveGivenBlock, BlocksRemoved, ErrorAboutMissingReturn, FindUsedVariables,
         RemoveUnusedVariable, VariablesRemoved, StartScan, ScanOperand, ScanInstruction,
         ScanNextBlock, simplifyVars, passes
<1>3. List(built.all_blocks) /\ List(built.variables)
  BY <1>1 DEF SoundGraph
<1>4. List(cfg.all_blocks) /\ List(cfg.variables) /\ BlockSet(cfg) \subseteq BlockSet(built) /\ IsGraph(cfg)
  BY <1>1 DEF CompileInv, BlocksInv, VariablesInv, JumpsInv
<1>5. /\ Len(built.all_blocks) \in Nat /\ Len(built.variables) \in Nat
      /\ Len(cfg.all_blocks) \in Nat /\ Len(cfg.variables) \in Nat
  BY <1>3, <1>4 DEF List
<1>6. InBounds(built, at) /\ InBounds(built, 0) /\ InBounds(built, 1)
  BY <1>1, <1>5 DEF PlacesInv, InBounds
<1>. QED  BY <1>1, <1>2, <1>3, <1>4, <1>5, <1>6 DEF PlacesInv, BeforeInv, runVars

\* Steps that leave the lists and the index alone.
LEMMA PlacesStay ==
    ASSUME PlacesInv, Compiling, UNCHANGED <<built, cfg, at, blocks_to_remove, groups>>,
           phase' = phase \/ phase' \notin {"clean_jumps", "reachability"},
           phase' # phase => phase # "clean_jumps"
    PROVE  PlacesInv'
BY DEF PlacesInv
-----------------------------------------------------------------------------
LEMMA CleaningPlaces ==
    ASSUME CompileInv, BeforeInv, PlacesInv, Simplify, CleanJumps
    PROVE  PlacesInv'
<1>1. /\ phase = "clean_jumps" /\ phase' = "reachability" /\ at' = 1 /\ blocks_to_remove' = <<>> /\ groups' = groups
      /\ cfg' = [cfg EXCEPT !.block = [b \in DOMAIN cfg.block |-> CleanedBlock(b)]]
  BY DEF CleanJumps
<1>2. /\ InBounds(built, 1) /\ built' = built /\ IsGraph(cfg)
      /\ Len(cfg.all_blocks) <= Len(built.all_blocks) /\ Len(cfg.variables) <= Len(built.variables)
      /\ Len(built.all_blocks) \in Nat
  BY SimplifyingFits
<1>3. cfg'.all_blocks = cfg.all_blocks /\ cfg'.variables = cfg.variables
  <2>1. PICK c : c = [b \in DOMAIN cfg.block |-> CleanedBlock(b)]
    OBVIOUS
  <2>. QED  BY <1>1, <1>2, <2>1 DEF IsGraph
<1>4. groups = <<>>
  BY <1>1 DEF BeforeInv
<1>5. GroupsFit(built, <<>>, <<>>)
  BY <1>2 DEF GroupsFit
<1>. QED  BY <1>1, <1>2, <1>3, <1>4, <1>5 DEF PlacesInv

LEMMA CollectingPlaces ==
    ASSUME CompileInv, BeforeInv, PlacesInv, Simplify, CollectUnreachable \/ StartGrouping
    PROVE  PlacesInv'
<1>1. phase = "reachability" /\ cfg' = cfg
  BY DEF CollectUnreachable, StartGrouping
<1>2. /\ InBounds(built, 1) /\ built' = built /\ Compiling /\ List(cfg.all_blocks)
      /\ Len(cfg.all_blocks) <= Len(built.all_blocks) /\ Len(cfg.variables) <= Len(built.variables)
      /\ Len(built.all_blocks) \in Nat /\ Len(cfg.all_blocks) \in Nat /\ BlockSet(cfg) \subseteq BlockSet(built)
  BY SimplifyingFits
<1>3. PICK gone, B, n : gone = blocks_to_remove /\ B = BlockSet(built) /\ n = Len(built.all_blocks)
  OBVIOUS
<1>4. /\ at \in Nat /\ at > Len(gone) /\ at <= n + 1 /\ groups = <<>>
      /\ gone \in Seq(B) /\ Len(gone) <= n
  BY <1>1, <1>2, <1>3 DEF PlacesInv, InBounds, GroupsFit
<1>5. CASE CollectUnreachable
  <2>1. /\ phase' = phase /\ at <= Len(cfg.all_blocks) /\ at' = at + 1 /\ groups' = groups
        /\ blocks_to_remove' = gone \/ blocks_to_remove' = Append(gone, cfg.all_blocks[at])
    BY <1>3, <1>5 DEF CollectUnreachable
  <2>2. cfg.all_blocks[at] \in B
    <3>1. at \in 1 .. Len(cfg.all_blocks)
      BY <1>2, <1>3, <1>4, <2>1
    <3>2. cfg.all_blocks[at] \in BlockSet(cfg)
      BY <1>2, <3>1 DEF BlockSet, ToSet, List
    <3>. QED  BY <1>2, <1>3, <3>2
  <2>3. PICK gone1 : gone1 = blocks_to_remove'
    OBVIOUS
  <2>4. gone1 \in Seq(B) /\ Len(gone1) < at + 1 /\ at + 1 <= n + 1 /\ Len(gone1) <= n
    <3>1. CASE gone1 = gone
      BY <1>2, <1>3, <1>4, <2>1, <3>1
    <3>2. CASE gone1 = Append(gone, cfg.all_blocks[at])
      <4>1. gone1 \in Seq(B) /\ Len(gone1) = Len(gone) + 1
        BY <1>4, <2>2, <3>2, AppendSeq
      <4>. QED  BY <1>2, <1>3, <1>4, <2>1, <4>1
    <3>. QED  BY <2>1, <2>3, <3>1, <3>2
  <2>5. GroupsFit(built, gone1, <<>>)
    BY <1>3, <2>4 DEF GroupsFit
  <2>6. InBounds(built, at + 1)
    BY <1>3, <1>4, <2>4 DEF InBounds
  <2>. QED  BY <1>1, <1>2, <1>3, <1>4, <2>1, <2>3, <2>4, <2>5, <2>6 DEF PlacesInv
<1>6. CASE StartGrouping
  <2>1. /\ phase' = "group" /\ at' = 1 /\ blocks_to_remove' = gone
        /\ groups' = [i \in DOMAIN gone |-> <<gone[i]>>]
    BY <1>3, <1>6 DEF StartGrouping
  <2>2. PICK gs, k : gs = groups' /\ k = Len(gone)
    OBVIOUS
  <2>3. k \in Nat /\ gs = [i \in 1 .. k |-> <<gone[i]>>] /\ \A i \in 1 .. k : gone[i] \in B
    BY <1>4, <2>1, <2>2
  <2>4. gs \in [1 .. k -> Seq(B)]
    BY <2>3
  <2>5. gs \in Seq(Seq(B)) /\ Len(gs) = k
    BY <2>3, <2>4, FunctionSeq
  <2>6. GroupsFit(built, gone, gs)
    BY <1>3, <1>4, <2>2, <2>3, <2>5 DEF GroupsFit
  <2>. QED  BY <1>1, <1>2, <2>1, <2>2, <2>6 DEF PlacesInv
<1>. QED  BY <1>5, <1>6

LEMMA GroupingPlaces ==
    ASSUME CompileInv, BeforeInv, PlacesInv, Simplify, GroupBlock
    PROVE  PlacesInv'
<1>1. phase = "group" /\ cfg' = cfg /\ blocks_to_remove' = blocks_to_remove
  BY DEF GroupBlock
<1>2. /\ InBounds(built, 1) /\ InBounds(built, at) /\ built' = built /\ Compiling
      /\ Len(cfg.all_blocks) <= Len(built.all_blocks) /\ Len(cfg.variables) <= Len(built.variables)
      /\ Len(built.all_blocks) \in Nat
  BY SimplifyingFits
<1>3. PICK gone, B, n, gs : gone = blocks_to_remove /\ B = BlockSet(built) /\ n = Len(built.all_blocks) /\ gs = groups
  OBVIOUS
<1>4. /\ at \in Nat /\ gone \in Seq(B) /\ Len(gone) <= n /\ gs \in Seq(Seq(B)) /\ Len(gs) <= Len(gone)
  BY <1>1, <1>2, <1>3 DEF PlacesInv, InBounds, GroupsFit
<1>5. CASE at <= Len(gone)
  <2>1. PICK b, b1, b2 : b = gone[at] /\ b1 = cfg.block[b].iftrue /\ b2 = cfg.block[b].iffalse
    OBVIOUS
  <2>2. groups' = JoinGroups(JoinGroups(gs, b, b1), b, b2) /\ at' = at + 1 /\ phase' = phase
    BY <1>3, <1>5, <2>1 DEF GroupBlock
  <2>3. PICK hs : hs = JoinGroups(gs, b, b1)
    OBVIOUS
  <2>4. PICK ks : ks = JoinGroups(hs, b, b2)
    OBVIOUS
  <2>5. hs \in Seq(Seq(B)) /\ Len(hs) <= Len(gs)
    BY <1>4, <2>3, JoinGroupsSeq
  <2>6. ks \in Seq(Seq(B)) /\ Len(ks) <= Len(hs)
    BY <2>4, <2>5, JoinGroupsSeq
  <2>7. GroupsFit(built, gone, ks)
    BY <1>3, <1>4, <2>5, <2>6 DEF GroupsFit
  <2>8. InBounds(built, at + 1)
    <3>1. at + 1 <= n + 1
      BY <1>2, <1>3, <1>4, <1>5
    <3>. QED  BY <1>3, <1>4, <3>1 DEF InBounds
  <2>9. groups' = ks
    BY <2>2, <2>3, <2>4
  <2>. QED  BY <1>1, <1>2, <1>3, <2>2, <2>7, <2>8, <2>9 DEF PlacesInv
<1>6. CASE ~(at <= Len(gone))
  <2>1. phase' = "show" /\ at' = 1 /\ groups' = groups
    BY <1>3, <1>6 DEF GroupBlock
  <2>. QED  BY <1>1, <1>2, <2>1 DEF PlacesInv
<1>. QED  BY <1>5, <1>6

LEMMA ShowingPlaces ==
    ASSUME CompileInv, BeforeInv, PlacesInv, Simplify, ShowUnreachableWarning \/ StartRemovingBlocks
    PROVE  PlacesInv'
<1>1. /\ phase = "show" /\ phase' \in {"show", "remove_blocks"} /\ cfg' = cfg
      /\ blocks_to_remove' = blocks_to_remove /\ groups' = groups
      /\ \/ at <= Len(groups) /\ at' = at + 1
         \/ at' = Len(cfg.all_blocks)
  BY DEF ShowUnreachableWarning, StartRemovingBlocks
<1>2. /\ InBounds(built, at) /\ built' = built /\ Compiling
      /\ Len(cfg.all_blocks) <= Len(built.all_blocks) /\ Len(cfg.variables) <= Len(built.variables)
      /\ Len(built.all_blocks) \in Nat /\ Len(cfg.all_blocks) \in Nat
  BY SimplifyingFits
<1>3. PICK n, k, m : n = Len(built.all_blocks) /\ k = Len(groups) /\ m = Len(blocks_to_remove)
  OBVIOUS
<1>4. at \in Nat /\ k \in Nat /\ m \in Nat /\ k <= m /\ m <= n
  BY <1>1, <1>2, <1>3 DEF PlacesInv, InBounds, GroupsFit
<1>5. InBounds(built, at')
  <2>1. at' \in Nat /\ at' <= n + 1
    BY <1>1, <1>2, <1>3, <1>4
  <2>. QED  BY <1>3, <2>1 DEF InBounds
<1>. QED  BY <1>1, <1>2, <1>5 DEF PlacesInv
-----------------------------------------------------------------------------
LEMMA RemovingPlaces ==
    ASSUME CompileInv, BeforeInv, PlacesInv, Simplify,
           RemoveGivenBlock \/ FindUsedVariables \/ RemoveUnusedVariable
    PROVE  PlacesInv'
<1>1. /\ phase \in {"remove_blocks", "unused", "remove_vars"} /\ phase' \in {"remove_blocks", "remove_vars"}
      /\ blocks_to_remove' = blocks_to_remove /\ groups' = groups
  BY DEF RemoveGivenBlock, FindUsedVariables, RemoveUnusedVariable
<1>2. /\ InBounds(built, at) /\ built' = built /\ Compiling /\ IsGraph(cfg)
      /\ List(cfg.all_blocks)
      /\ Len(cfg.all_blocks) <= Len(built.all_blocks) /\ Len(cfg.variables) <= Len(built.variables)
      /\ Len(built.all_blocks) \in Nat /\ Len(built.variables) \in Nat
      /\ Len(cfg.all_blocks) \in Nat /\ Len(cfg.variables) \in Nat
  BY SimplifyingFits
<1>3. GroupsFit(built, blocks_to_remove, groups)
  BY <1>1, <1>2 DEF PlacesInv
<1>4. /\ InBounds(built, at')
      /\ Len(cfg'.all_blocks) <= Len(built.all_blocks) /\ Len(cfg'.variables) <= Len(built.variables)
  <2>1. CASE RemoveGivenBlock
    <3>1. /\ at > 0 /\ at' = at - 1 /\ at \in 1 .. Len(cfg.all_blocks)
          /\ \/ cfg' = cfg
             \/ cfg' = [cfg EXCEPT !.all_blocks = SwapRemove(cfg.all_blocks, at)]
      BY <1>2, <2>1 DEF RemoveGivenBlock, CompileInv, BlocksInv
    <3>2. PICK q : q = SwapRemove(cfg.all_blocks, at)
      OBVIOUS
    <3>3. Len(q) = Len(cfg.all_blocks) - 1
      BY <1>2, <3>1, <3>2, SwapRemoveList
    <3>4. \/ cfg' = cfg
          \/ cfg'.all_blocks = q /\ cfg'.variables = cfg.variables
      BY <1>2, <3>1, <3>2 DEF IsGraph
    <3>5. InBounds(built, at')
      BY <1>2, <3>1 DEF InBounds
    <3>6. Len(q) <= Len(built.all_blocks)
      BY <1>2, <3>3
    <3>. QED  BY <1>2, <3>4, <3>5, <3>6
  <2>2. CASE FindUsedVariables
    <3>1. cfg' = cfg /\ at' = Len(cfg.variables)
      BY <2>2 DEF FindUsedVariables
    <3>. QED  BY <1>2, <3>1 DEF InBounds
  <2>3. CASE RemoveUnusedVariable
    <3>1. /\ at > 0 /\ at' = at - 1 /\ at \in 1 .. Len(cfg.variables) /\ List(cfg.variables)
          /\ \/ cfg' = cfg
             \/ cfg' = [cfg EXCEPT !.variables = SwapRemove(cfg.variables, at)]
      BY <1>2, <2>3 DEF RemoveUnusedVariable, CompileInv, VariablesInv
    <3>2. PICK q : q = SwapRemove(cfg.variables, at)
      OBVIOUS
    <3>3. Len(q) = Len(cfg.variables) - 1
      BY <1>2, <3>1, <3>2, SwapRemoveList
    <3>4. \/ cfg' = cfg
          \/ cfg'.variables = q /\ cfg'.all_blocks = cfg.all_blocks
      BY <1>2, <3>1, <3>2 DEF IsGraph
    <3>5. InBounds(built, at')
      BY <1>2, <3>1 DEF InBounds
    <3>6. Len(q) <= Len(built.variables)
      BY <1>2, <3>3
    <3>. QED  BY <1>2, <3>4, <3>5, <3>6
  <2>. QED  BY <2>1, <2>2, <2>3
<1>. QED  BY <1>1, <1>2, <1>3, <1>4 DEF PlacesInv

LEMMA ScanningPlaces ==
    ASSUME CompileInv, BeforeInv, PlacesInv, Simplify, StartScan \/ ScanNextBlock
    PROVE  PlacesInv'
<1>1. /\ phase \in {"undefined", "scan"} /\ phase' \in {"scan", "done"} /\ cfg' = cfg
      /\ blocks_to_remove' = blocks_to_remove /\ groups' = groups
      /\ \/ at' \in {1, at}
         \/ at < Len(cfg.all_blocks) /\ at' = at + 1
  BY DEF StartScan, ScanNextBlock
<1>2. /\ InBounds(built, at) /\ InBounds(built, 1) /\ built' = built /\ Compiling
      /\ Len(cfg.all_blocks) <= Len(built.all_blocks) /\ Len(cfg.variables) <= Len(built.variables)
      /\ Len(built.all_blocks) \in Nat /\ Len(cfg.all_blocks) \in Nat
  BY SimplifyingFits
<1>3. InBounds(built, at')
  BY <1>1, <1>2 DEF InBounds
<1>. QED  BY <1>1, <1>2, <1>3 DEF PlacesInv

LEMMA SimplifyPlaces ==
    ASSUME CompileInv, BeforeInv, PlacesInv, Simplify
    PROVE  PlacesInv'
<1>1. CASE \/ Analyse \/ MarkReachable \/ BlocksRemoved \/ ErrorAboutMissingReturn
           \/ VariablesRemoved \/ ScanOperand \/ ScanInstruction
  <2>1. /\ UNCHANGED <<cfg, at, blocks_to_remove, groups>>
        /\ phase' = phase \/ phase' \notin {"clean_jumps", "reachability"}
        /\ phase' # phase => phase # "clean_jumps"
    BY <1>1 DEF Analyse, MarkReachable, BlocksRemoved, ErrorAboutMissingReturn, VariablesRemoved,
                ScanOperand, ScanInstruction, simplifyVars, passes
  <2>2. Compiling /\ built' = built
    BY SimplifyingFits
  <2>. QED  BY <2>1, <2>2, PlacesStay
<1>. QED  BY <1>1, CleaningPlaces, CollectingPlaces, GroupingPlaces, ShowingPlaces, RemovingPlaces,
             ScanningPlaces DEF Simplify, SimplifyStep

\* The passes have not begun, or leave what later ones use alone.
LEMMA SimplifyBefore ==
    ASSUME CompileInv, BeforeInv, PlacesInv, Simplify
    PROVE  BeforeInv'
<1>1. Compiling /\ Compiling' /\ pc' = NoBlock /\ addressed' = {}
  BY SimplifyingFits
<1>2. phase' = "clean_jumps" => phase = "clean_jumps" /\ UNCHANGED <<todo, reachable, groups, at>>
  BY DEF Simplify, SimplifyStep, Analyse, CleanJumps, MarkReachable,
         CollectUnreachable, StartGrouping, GroupBlock, ShowUnreachableWarning, StartRemovingBlocks,
         RemoveGivenBlock, BlocksRemoved, ErrorAboutMissingReturn, FindUsedVariables,
         RemoveUnusedVariable, VariablesRemoved, StartScan, ScanOperand, ScanInstruction,
         ScanNextBlock, simplifyVars, passes
<1>3. phase' \notin VariablesGone => phase \notin VariablesGone /\ used' = used
  BY DEF Simplify, SimplifyStep, Analyse, CleanJumps, MarkReachable,
         CollectUnreachable, StartGrouping, GroupBlock, ShowUnreachableWarning, StartRemovingBlocks,
         RemoveGivenBlock, BlocksRemoved, ErrorAboutMissingReturn, FindUsedVariables,
         RemoveUnusedVariable, VariablesRemoved, StartScan, ScanOperand, ScanInstruction,
         ScanNextBlock, simplifyVars, passes, VariablesGone
<1>. QED  BY <1>1, <1>2, <1>3 DEF BeforeInv
-----------------------------------------------------------------------------
LEMMA PlacesKept == CompileInv /\ BeforeInv /\ PlacesInv /\ [Next]_vars => BeforeInv' /\ PlacesInv'
<1>. SUFFICES ASSUME CompileInv, BeforeInv, PlacesInv, [Next]_vars PROVE BeforeInv' /\ PlacesInv'
  OBVIOUS
<1>1. CASE Build \/ BuildFails
  <2>1. /\ ~Compiling /\ phase = "build" /\ UNCHANGED <<cfg, passes, runVars, built>>
        /\ phase' = "build" \/ (phase' = "failed" /\ build_error' # "")
    BY <1>1 DEF Build, BuildFails, Compiling, analysisVars, simplifyVars, buildVars
  <2>2. ~Compiling'
    BY <2>1 DEF Compiling
  <2>. QED  BY <2>1, <2>2 DEF BeforeInv, PlacesInv, passes, runVars
<1>2. CASE FinishFunction
  <2>1. /\ ~Compiling /\ phase' = "clean_jumps" /\ built' = cfg' /\ UNCHANGED <<passes, runVars>>
    BY <1>2 DEF FinishFunction, Compiling
  <2>2. CompileInv'
    BY <1>2, FinishFunctionKeeps
  <2>3. todo' = <<>> /\ reachable' = {} /\ groups' = <<>> /\ at' = 0 /\ used' = {} /\ (pc' = NoBlock => addressed' = {})
    BY <2>1 DEF BeforeInv, passes, runVars
  <2>4. Compiling' 
    BY <1>2 DEF FinishFunction, Compiling, CompileInv, LinkInv, BuildDone, buildVars
  <2>5. PICK n, m : n = Len(built'.all_blocks) /\ m = Len(built'.variables)
    OBVIOUS
  <2>6. n \in Nat /\ m \in Nat
    <3>1. (CompileInv /\ Compiling => List(cfg.all_blocks) /\ List(cfg.variables))'
      BY DEF CompileInv, BlocksInv, VariablesInv
    <3>. QED  BY <2>1, <2>2, <2>4, <2>5, <3>1 DEF List
  <2>7. PlacesInv'
    BY <2>1, <2>3, <2>5, <2>6 DEF PlacesInv, InBounds
  <2>8. BeforeInv'
    BY <2>1, <2>3, <2>4 DEF BeforeInv, VariablesGone
  <2>. QED  BY <2>7, <2>8
<1>3. CASE CallFunction \/ Run
  <2>1. UNCHANGED <<buildVars, cfg, simplifyVars, built>> /\ pc' # NoBlock
    <3>1. CASE CallFunction
      <4>1. pc' = StartBlock
        BY <3>1, Zenon DEF CallFunction, StartRun
      <4>2. UNCHANGED <<buildVars, cfg, simplifyVars, built>>
        BY <3>1 DEF CallFunction, analysisVars
      <4>. QED  BY <4>1, <4>2 DEF StartBlock, NoBlock
    <3>2. CASE Run
      <4>1. UNCHANGED <<buildVars, cfg, simplifyVars, built>>
        BY <3>2 DEF Run, analysisVars
      <4>2. Jump \/ (Execute /\ pc # NoBlock /\ pc' = pc)
        BY <3>2 DEF Run, RunStep, Execute, Executing
      <4>3. pc' # NoBlock
        BY <4>2, JumpSurvives DEF Targets
      <4>. QED  BY <4>1, <4>3
    <3>. QED  BY <1>3, <3>1, <3>2
  <2>2. Compiling' = Compiling
    BY <2>1 DEF Compiling, buildVars, simplifyVars
  <2>3. UNCHANGED <<phase, cfg, built, todo, reachable, groups, blocks_to_remove, at, used>>
    BY <2>1 DEF simplifyVars, passes
  <2>. QED  BY <2>1, <2>2, <2>3 DEF BeforeInv, PlacesInv
<1>4. CASE Stopped \/ UNCHANGED vars
  <2>1. UNCHANGED <<buildVars, cfg, simplifyVars, built, runVars>>
    BY <1>4 DEF Stopped, vars, analysisVars
  <2>2. Compiling' = Compiling
    BY <2>1 DEF Compiling, buildVars, simplifyVars
  <2>3. UNCHANGED <<phase, cfg, built, todo, reachable, groups, blocks_to_remove, at, used, pc, addressed>>
    BY <2>1 DEF simplifyVars, passes, runVars
  <2>. QED  BY <2>2, <2>3 DEF BeforeInv, PlacesInv
<1>. QED  BY <1>1, <1>2, <1>3, <1>4, SimplifyPlaces, SimplifyBefore DEF Next, CompileStep

LEMMA InitPlaces == Init => BeforeInv /\ PlacesInv
BY DEF Init, BeforeInv, PlacesInv, Compiling, PassesInit, NoRun
-----------------------------------------------------------------------------
LEMMA AddressesAreVariables ==
    ASSUME CompileInv, TempsInv, BeforeInv
    PROVE  addressed \subseteq VarSet(built)
<1>1. CASE pc = NoBlock
  BY <1>1 DEF BeforeInv
<1>2. CASE pc # NoBlock
  <2>1. /\ Compiling /\ StateFits(function, st) /\ running = BuiltCfg /\ running.block = st.block
        /\ WellFormed(running)
    BY <1>2, PlaceInBuilt
  <2>2. running = built /\ BlockSet(built) = DOMAIN st.block
    BY <1>2, <2>1, BuiltParts DEF CompileInv, RunInv
  <2>3. PICK g : g = built
    OBVIOUS
  <2>4. SUFFICES ASSUME NEW v \in addressed PROVE v \in VarSet(g)
    BY <2>3
  <2>5. PICK ins \in InstructionsIn(st) : v \in OperandSet(ins)
    BY <1>2 DEF TempsInv, SetSoFar
  <2>6. PICK b \in BlockSet(g) : ins \in InstructionsOf(g, b)
    <3>1. PICK b \in DOMAIN st.block : ins \in ToSet(st.block[b].instructions)
      BY DEF InstructionsIn
    <3>2. ToSet(st.block[b].instructions) = InstructionsOf(g, b)
      BY <2>1, <2>2, <2>3 DEF InstructionsOf, ToSet
    <3>. QED  BY <2>2, <2>3, <3>1, <3>2
  <2>7. InstructionOK(g, ins)
    BY <2>1, <2>2, <2>3, <2>6 DEF WellFormed, BlockOK
  <2>8. ins.operands \in Seq(VarSet(g))
    BY <2>7 DEF InstructionOK
  <2>. QED  BY <2>5, <2>8 DEF OperandSet
<1>. QED  BY <1>1, <1>2

\* Whatever the compiler does to a function, what it remembers is about
\* blocks and variables of the graph the function was built into, and the
\* indexes of its loops stay within the lists they walk.
THEOREM CompilerTypeCorrect == Spec => []TypeOK
<1>1. CompileInv /\ TempsInv /\ LastInv /\ BeforeInv /\ PlacesInv => TypeOK
  <2>. SUFFICES ASSUME CompileInv, TempsInv, LastInv, BeforeInv, PlacesInv PROVE TypeOK
    OBVIOUS
  <2>1. CASE ~Compiling
    <3>1. /\ phase \in {"build", "failed"} /\ cfg = EmptyGraph /\ built = EmptyGraph /\ pc = NoBlock
          /\ todo = <<>> /\ reachable = {} /\ groups = <<>> /\ at = 0 /\ used = {} /\ addressed = {}
      BY <2>1 DEF CompileInv, LinkInv, BeforeInv, Compiling
    <3>2. Len(built.all_blocks) = 2
      BY <3>1 DEF EmptyGraph
    <3>3. at \in 0 .. Len(built.all_blocks) + 1
      BY <3>1, <3>2
    <3>4. todo \in Seq(BlockSet(built))
      BY <3>1
    <3>5. UNION {ToSet(groups[i]) : i \in DOMAIN groups} \subseteq BlockSet(built)
      BY <3>1
    <3>6. BlockSet(cfg) \subseteq BlockSet(built) /\ VarSet(cfg) \subseteq VarSet(built)
      BY <3>1
    <3>. QED  BY <3>1, <3>3, <3>4, <3>5, <3>6 DEF TypeOK, AnalysingPhases
  <2>2. CASE Compiling
    <3>1. phase \in AnalysingPhases \cup {"build", "reachability", "group", "show",
                    "remove_blocks", "unused", "remove_vars", "scan", "done", "failed"}
      BY DEF CompileInv, LinkInv, AnalysingPhases, WalkingBlocks, BlocksGone
    <3>2. phase \in AnalysingPhases => AnalysisTypeOK
      BY <2>2 DEF AnalysingPhases, CompileInv, AnalysesInv, LastInv, UndefinedInv, SoundInv, AnalysisInv
    <3>3. BlockSet(cfg) \subseteq BlockSet(built)
      BY <2>2 DEF CompileInv, BlocksInv
    <3>4. VarSet(cfg) \subseteq VarSet(built)
      <4>1. CASE phase \in VariablesGone
        BY <2>2, <4>1, LeftIsWellFormed DEF LastInv
      <4>2. CASE phase \notin VariablesGone
        BY <2>2, <4>2 DEF CompileInv, VariablesInv, VarSet
      <4>. QED  BY <4>1, <4>2
    <3>5. todo \in Seq(BlockSet(built)) /\ reachable \subseteq BlockSet(built)
      <4>1. CASE phase = "clean_jumps"
        BY <4>1 DEF BeforeInv
      <4>2. CASE phase # "clean_jumps"
        BY <2>2, <4>2 DEF CompileInv, SearchInv, Searched
      <4>. QED  BY <4>1, <4>2
    <3>6. UNION {ToSet(groups[i]) : i \in DOMAIN groups} \subseteq BlockSet(built)
      <4>1. groups \in Seq(Seq(BlockSet(built)))
        <5>1. CASE phase = "clean_jumps"
          BY <5>1 DEF BeforeInv
        <5>2. CASE phase # "clean_jumps"
          BY <2>2, <5>2 DEF PlacesInv, GroupsFit
        <5>. QED  BY <5>1, <5>2
      <4>. QED  BY <4>1 DEF ToSet
    <3>7. used \subseteq VarSet(built)
      <4>1. CASE phase \in VariablesGone
        BY <2>2, <3>4, <4>1 DEF LastInv, KeptInv
      <4>2. CASE phase \notin VariablesGone
        BY <4>2 DEF BeforeInv
      <4>. QED  BY <4>1, <4>2
    <3>8. at \in 0 .. Len(built.all_blocks) + 1 \/ at \in 0 .. Len(built.variables)
      <4>1. List(built.all_blocks) /\ List(built.variables)
        BY <2>2, CompilingIsSound DEF CompileInv, SoundGraph
      <4>. QED  BY <2>2, <4>1 DEF PlacesInv, InBounds, List
    <3>9. pc \in BlockSet(built) \cup {NoBlock}
      BY <3>3 DEF CompileInv, RunInv
    <3>. QED  BY <3>1, <3>2, <3>3, <3>4, <3>5, <3>6, <3>7, <3>8, <3>9, AddressesAreVariables DEF TypeOK
  <2>. QED  BY <2>1, <2>2
<1>. QED  BY <1>1, LastInvHolds, InitPlaces, PlacesKept, PTL DEF Spec
-----------------------------------------------------------------------------
\* An analysis is over before the pass that asked for it goes on.
IdleInv == phase \notin AnalysingPhases => visiting = NoBlock

LEMMA IdleInvKept == CompileInv /\ IdleInv /\ [Next]_vars => IdleInv'
<1>. SUFFICES ASSUME CompileInv, IdleInv, [Next]_vars PROVE IdleInv'
  OBVIOUS
<1>1. CASE Build \/ BuildFails
  BY <1>1 DEF Build, BuildFails, IdleInv, AnalysingPhases, analysisVars
<1>2. CASE FinishFunction
  BY <1>2 DEF FinishFunction, IdleInv, CallAnalysis
<1>3. CASE Simplify
  <2>1. CASE Analyse
    BY <2>1 DEF Analyse, IdleInv, simplifyVars
  <2>2. CASE CleanJumps \/ ErrorAboutMissingReturn \/ StartScan
    <3>1. visiting = NoBlock /\ visiting' = visiting
      BY <2>2 DEF CleanJumps, ErrorAboutMissingReturn, StartScan, AnalysisDone, analysis
    <3>. QED  BY <3>1 DEF IdleInv
  <2>3. CASE BlocksRemoved \/ VariablesRemoved
    <3>1. visiting' = NoBlock \/ (visiting' = visiting /\ phase = "remove_blocks")
      BY <2>3 DEF BlocksRemoved, VariablesRemoved, CallAnalysis, analysis
    <3>. QED  BY <3>1 DEF IdleInv, AnalysingPhases
  <2>4. CASE \/ MarkReachable \/ CollectUnreachable \/ StartGrouping \/ GroupBlock \/ ShowUnreachableWarning
             \/ StartRemovingBlocks \/ RemoveGivenBlock \/ FindUsedVariables \/ RemoveUnusedVariable
             \/ ScanOperand \/ ScanInstruction \/ ScanNextBlock
    <3>1. phase \notin AnalysingPhases /\ visiting' = visiting
      BY <2>4 DEF MarkReachable, CollectUnreachable, StartGrouping, GroupBlock, ShowUnreachableWarning,
                  StartRemovingBlocks, RemoveGivenBlock, FindUsedVariables, RemoveUnusedVariable,
                  ScanOperand, ScanInstruction, ScanNextBlock, AnalysingPhases, analysis
    <3>. QED  BY <3>1 DEF IdleInv
  <2>. QED  BY <1>3, <2>1, <2>2, <2>3, <2>4 DEF Simplify, SimplifyStep
<1>4. CASE CallFunction \/ Run \/ Stopped \/ UNCHANGED vars
  <2>1. UNCHANGED <<phase, visiting>>
    BY <1>4 DEF CallFunction, Run, Stopped, vars, analysisVars, simplifyVars
  <2>. QED  BY <2>1 DEF IdleInv
<1>. QED  BY <1>1, <1>2, <1>3, <1>4 DEF Next, CompileStep

LEMMA IdleInvHolds == Spec => [](CompileInv /\ TempsInv /\ LastInv /\ IdleInv)
<1>1. Init => IdleInv
  BY DEF Init, AnalysisStart, IdleInv
<1>. QED  BY <1>1, IdleInvKept, LastInvHolds, PTL DEF Spec

LEMMA VisitsAreSound ==
    ASSUME CompileInv, LastInv, IdleInv, visiting # NoBlock
    PROVE  phase \in AnalysingPhases /\ Compiling /\ AnalysisInv
<1>1. phase \in AnalysingPhases
  BY DEF IdleInv
<1>2. Compiling
  BY <1>1 DEF CompileInv, LinkInv, Compiling, AnalysingPhases
<1>. QED  BY <1>1, <1>2 DEF AnalysingPhases, CompileInv, AnalysesInv, LastInv, UndefinedInv, SoundInv

\* The assertion that opens update_statuses_with_instruction holds in each of
\* the three analyses of a function.
THEOREM AssertionHoldsInPasses == Spec => []NeverUnvisited
<1>1. CompileInv /\ LastInv /\ IdleInv => NeverUnvisited
  BY VisitsAreSound DEF AnalysisInv, VisitInv, NeverUnvisited, Known
<1>. QED  BY <1>1, IdleInvHolds, PTL

\* What an analysis stored for a block is only ever weakened until the pass
\* takes it: this is why compilation comes to an end.
THEOREM StatusesClimbInPasses == Spec => ResultsOnlyClimb
<1>. DEFINE Climb == \A b \in BlockSet(cfg) : \A v \in VarSet(cfg) :
                cfg' = cfg /\ visiting # NoBlock => Leq(result[b][v], result'[b][v])
<1>1. CompileInv /\ LastInv /\ IdleInv /\ [Next]_vars => [Climb]_analysisVars
  <2>. SUFFICES ASSUME CompileInv, LastInv, IdleInv, [Next]_vars, visiting # NoBlock, cfg' = cfg
                PROVE  [Climb]_analysisVars
    OBVIOUS
  <2>1. phase \in AnalysingPhases /\ Compiling /\ AnalysisInv
    BY VisitsAreSound
  <2>2. [AnalysisNext]_analysisVars
    <3>1. ~ (Build \/ FinishFunction \/ BuildFails)
      BY <2>1 DEF Build, FinishFunction, BuildFails, Compiling
    <3>2. CASE Simplify
      <4>1. Analyse
        BY <2>1, <3>2 DEF Simplify, SimplifyStep, CleanJumps, MarkReachable,
           CollectUnreachable, StartGrouping, GroupBlock, ShowUnreachableWarning, StartRemovingBlocks,
           RemoveGivenBlock, BlocksRemoved, ErrorAboutMissingReturn, FindUsedVariables,
           RemoveUnusedVariable, VariablesRemoved, StartScan, ScanOperand, ScanInstruction,
           ScanNextBlock, AnalysingPhases, AnalysisDone
      <4>. QED  BY <4>1 DEF Analyse, AnalysisNext
    <3>3. CASE CallFunction \/ Run \/ Stopped \/ UNCHANGED vars
      BY <3>3 DEF CallFunction, Run, Stopped, vars
    <3>. QED  BY <3>1, <3>2, <3>3 DEF Next, CompileStep
  <2>. QED  BY <2>1, <2>2, StepsOnlyClimb
<1>. QED  BY <1>1, IdleInvHolds, PTL DEF Spec, ResultsOnlyClimb
-----------------------------------------------------------------------------
(***************************************************************************)
(* The report of code that cannot be reached.  The groups are always a     *)
(* partition of that code into parts that hang together, and the jumps of  *)
(* the blocks that were looked at stay inside a group; so in the end the   *)
(* groups are the pieces.                                                  *)
(***************************************************************************)
NeverRuns == "this code will never run"
Unreached == {b \in BlockSet(built) : ShouldGo(b)}
Reportable == {FirstLine(Piece(b, Unreached)) : b \in Unreached} \ {INT_MAX}

Together(gs, x, y) == \E i \in DOMAIN gs : x \in ToSet(gs[i]) /\ y \in ToSet(gs[i])
Grouped(gs, gone) ==
    /\ \A i \in DOMAIN gs : ToSet(gs[i]) # {}
    /\ \A i \in DOMAIN gs : \A x \in ToSet(gs[i]) : ToSet(gs[i]) \subseteq Piece(x, gone)
    /\ \A i, j \in DOMAIN gs : ToSet(gs[i]) \cap ToSet(gs[j]) # {} => i = j
    /\ \A x \in gone : \E i \in DOMAIN gs : x \in ToSet(gs[i])
JumpsInside(gs, x, gone) == \A t \in Targets(cfg, x) \cap gone : Together(gs, x, t)

GroupInv ==
    Compiling =>
        /\ phase = "reachability" =>
            /\ todo # <<>> => at = 1
            /\ \A i, j \in DOMAIN blocks_to_remove : blocks_to_remove[i] = blocks_to_remove[j] => i = j
            /\ ToSet(blocks_to_remove) = {b \in Unreached : b < at}
        /\ phase \in {"group", "show"} =>
            /\ at > 0
            /\ ToSet(blocks_to_remove) = Unreached
            /\ Grouped(groups, Unreached)
            /\ \A i \in DOMAIN blocks_to_remove :
                    (phase = "group" => i < at) => JumpsInside(groups, blocks_to_remove[i], Unreached)

ReportInv ==
    /\ ~Compiling \/ phase \in {"clean_jumps", "reachability", "group"} => warnings = <<>>
    /\ Compiling /\ phase = "show" =>
        /\ Warned(NeverRuns) =
            {FirstLine(ToSet(groups[i])) : i \in {j \in DOMAIN groups : j < at}} \ {INT_MAX}
        /\ prev_lineno \in Warned(NeverRuns) \cup {NoLine}
    /\ Compiling /\ phase \notin WalkingBlocks => Warned(NeverRuns) = Reportable

LEMMA SequencesAreLists ==
    ASSUME NEW X, NEW s \in Seq(X)
    PROVE  List(s)
<1>1. \A i \in 1 .. Len(s) : s[i] \in ToSet(s)
  BY DEF ToSet
<1>. QED  BY <1>1, SeqOver DEF List

\* Hanging together is an equivalence, and holds of the two ends of a jump.
LEMMA PieceLaws ==
    ASSUME NEW gone
    PROVE  /\ \A x : Piece(x, gone) \subseteq gone
           /\ \A x \in gone : x \in Piece(x, gone)
           /\ \A x, y \in gone : y \in Piece(x, gone) => x \in Piece(y, gone)
           /\ \A x, y, z \in gone : y \in Piece(x, gone) /\ z \in Piece(y, gone) => z \in Piece(x, gone)
           /\ \A x, y \in gone : y \in Targets(cfg, x) => y \in Piece(x, gone)
<1>1. \A x \in gone : x \in Piece(x, gone)
  BY DEF Piece
<1>2. ASSUME NEW x \in gone, NEW y \in gone, y \in Piece(x, gone)
      PROVE  x \in Piece(y, gone)
  <2>. SUFFICES ASSUME NEW P \in SUBSET gone, y \in P, Joined(P, gone), x \notin P
                PROVE  FALSE
    BY DEF Piece
  <2>1. Joined(gone \ P, gone)
    BY DEF Joined
  <2>2. y \in gone \ P
    BY <1>2, <2>1 DEF Piece
  <2>. QED  BY <2>2
<1>3. \A x, y, z \in gone : y \in Piece(x, gone) /\ z \in Piece(y, gone) => z \in Piece(x, gone)
  BY DEF Piece
<1>4. \A x, y \in gone : y \in Targets(cfg, x) => y \in Piece(x, gone)
  BY DEF Piece, Joined
<1>5. \A x : Piece(x, gone) \subseteq gone
  BY DEF Piece
<1>. QED  BY <1>1, <1>2, <1>3, <1>4, <1>5

\* A group that nothing outside is connected to is a piece.
LEMMA GroupsArePieces ==
    ASSUME NEW gone, NEW gs, Grouped(gs, gone), \A x \in gone : JumpsInside(gs, x, gone)
    PROVE  /\ \A i \in DOMAIN gs : \E b \in gone : ToSet(gs[i]) = Piece(b, gone)
           /\ \A b \in gone : \E i \in DOMAIN gs : ToSet(gs[i]) = Piece(b, gone)
<1>1. ASSUME NEW i \in DOMAIN gs, NEW x \in ToSet(gs[i])
      PROVE  x \in gone /\ ToSet(gs[i]) = Piece(x, gone)
  <2>1. ToSet(gs[i]) \subseteq Piece(x, gone) /\ ToSet(gs[i]) \subseteq gone
    BY PieceLaws DEF Grouped
  <2>2. Joined(ToSet(gs[i]), gone)
    <3>. SUFFICES ASSUME NEW p \in ToSet(gs[i]), NEW c \in gone,
                         c \in Targets(cfg, p) \/ p \in Targets(cfg, c)
                  PROVE  c \in ToSet(gs[i])
      BY DEF Joined
    <3>1. Together(gs, p, c)
      BY <2>1 DEF JumpsInside, Together
    <3>. QED  BY <3>1 DEF Together, Grouped
  <2>3. Piece(x, gone) \subseteq ToSet(gs[i])
    BY <2>1, <2>2 DEF Piece
  <2>. QED  BY <2>1, <2>3
<1>2. \A i \in DOMAIN gs : \E x : x \in ToSet(gs[i])
  BY DEF Grouped
<1>. QED  BY <1>1, <1>2 DEF Grouped

\* Joining the groups of the two ends of a jump.
LEMMA JoiningGroups ==
    ASSUME NEW B, NEW gs \in Seq(Seq(B)), NEW gone, Grouped(gs, gone), NEW b1 \in gone, NEW b2,
           b2 \in gone => b2 \in Piece(b1, gone), NEW r, r = JoinGroups(gs, b1, b2)
    PROVE  /\ r \in Seq(Seq(B)) /\ Grouped(r, gone)
           /\ b2 \in gone => Together(r, b1, b2)
           /\ \A x, y : Together(gs, x, y) => Together(r, x, y)
<1>. DEFINE G(b) == {i \in DOMAIN gs : b \in ToSet(gs[i])}
<1>1. r \in Seq(Seq(B))
  BY JoinGroupsSeq
<1>2. G(b1) # {}
  BY DEF Grouped
<1>3. \A b : b \in gone <=> G(b) # {}
  BY PieceLaws DEF Grouped
<1>4. CASE G(b2) = {} \/ G(b1) = G(b2)
  <2>1. r = gs
    BY <1>4 DEF JoinGroups
  <2>2. b2 \in gone => Together(gs, b1, b2)
    BY <1>2, <1>3, <1>4 DEF Together
  <2>. QED  BY <2>1, <2>2
<1>5. CASE ~(G(b2) = {} \/ G(b1) = G(b2))
  <2>1. PICK i, j : i = (CHOOSE k \in G(b1) : TRUE) /\ j = (CHOOSE k \in G(b2) : TRUE)
    OBVIOUS
  <2>2. /\ i \in DOMAIN gs /\ j \in DOMAIN gs /\ b1 \in ToSet(gs[i]) /\ b2 \in ToSet(gs[j])
    BY <1>2, <1>5, <2>1
  <2>3. i # j
    <3>1. \A b : \A k \in G(b) : G(b) = {k}
      BY DEF Grouped
    <3>. QED  BY <1>5, <2>2, <3>1
  <2>4. PICK hs : hs = [gs EXCEPT ![i] = gs[i] \o gs[j]]
    OBVIOUS
  <2>5. r = SwapRemove(hs, j)
    BY <1>2, <1>5, <2>1, <2>4 DEF JoinGroups
  <2>. HIDE DEF G
  <2>6. PICK n : n = Len(gs)
    OBVIOUS
  <2>7. n \in Nat /\ DOMAIN gs = 1 .. n
    BY <2>6
  <2>8. /\ Len(hs) = n /\ DOMAIN hs = 1 .. n
        /\ \A k \in 1 .. n : ToSet(hs[k]) = IF k = i THEN ToSet(gs[i]) \cup ToSet(gs[j]) ELSE ToSet(gs[k])
    <3>1. List(gs)
      BY SequencesAreLists
    <3>2. Len(hs) = n
      BY <2>4, <2>6, <3>1, ReplaceList
    <3>3. ToSet(gs[i] \o gs[j]) = ToSet(gs[i]) \cup ToSet(gs[j])
      <4>1. gs[i] \in Seq(B) /\ gs[j] \in Seq(B)
        BY <2>2
      <4>2. List(gs[i]) /\ List(gs[j])
        BY <4>1, SequencesAreLists
      <4>. QED  BY <4>2, ConcatList
    <3>. QED  BY <2>2, <2>4, <2>7, <3>2, <3>3
  <2>9. /\ DOMAIN r = 1 .. n - 1
        /\ \A k \in 1 .. n - 1 : r[k] = hs[IF k = j THEN n ELSE k]
    BY <2>5, <2>8 DEF SwapRemove
  <2>. DEFINE Was(k) == IF k = j THEN n ELSE k
              Is(k) == IF k = n THEN j ELSE k
  <2>10. /\ \A k \in 1 .. n - 1 : Was(k) \in 1 .. n /\ Was(k) # j
         /\ \A k, l \in 1 .. n - 1 : Was(k) = Was(l) => k = l
         /\ \A k \in 1 .. n : k # j => Is(k) \in 1 .. n - 1 /\ Was(Is(k)) = k
    BY <2>2, <2>7
  <2>11. \A k \in 1 .. n - 1 : ToSet(r[k]) = IF Was(k) = i THEN ToSet(gs[i]) \cup ToSet(gs[j])
                                            ELSE ToSet(gs[Was(k)])
    BY <2>8, <2>9, <2>10
  <2>. HIDE DEF Was, Is
  <2>12. \A x, y : Together(gs, x, y) => Together(r, x, y)
    <3>. SUFFICES ASSUME NEW x, NEW y, NEW k \in 1 .. n, x \in ToSet(gs[k]), y \in ToSet(gs[k])
                  PROVE  \E l \in 1 .. n - 1 : x \in ToSet(r[l]) /\ y \in ToSet(r[l])
      BY <2>7, <2>9 DEF Together
    <3>1. CASE k = j
      <4>1. Is(i) \in 1 .. n - 1 /\ Was(Is(i)) = i
        BY <2>2, <2>3, <2>7, <2>10
      <4>2. ToSet(r[Is(i)]) = ToSet(gs[i]) \cup ToSet(gs[j])
        BY <2>11, <4>1
      <4>. QED  BY <3>1, <4>1, <4>2
    <3>2. CASE k # j
      <4>1. Is(k) \in 1 .. n - 1 /\ Was(Is(k)) = k
        BY <2>10, <3>2
      <4>2. ToSet(gs[k]) \subseteq ToSet(r[Is(k)])
        BY <2>11, <4>1
      <4>. QED  BY <4>1, <4>2
    <3>. QED  BY <3>1, <3>2
  <2>13. Together(r, b1, b2)
    <3>1. Is(i) \in 1 .. n - 1 /\ Was(Is(i)) = i
      BY <2>2, <2>3, <2>7, <2>10
    <3>2. ToSet(r[Is(i)]) = ToSet(gs[i]) \cup ToSet(gs[j])
      BY <2>11, <3>1
    <3>. QED  BY <2>2, <2>9, <3>1, <3>2 DEF Together
  <2>14. Grouped(r, gone)
    <3>1. \A k \in DOMAIN r : ToSet(r[k]) # {}
      <4>1. \A k \in 1 .. n : ToSet(gs[k]) # {}
        BY <2>7 DEF Grouped
      <4>2. ToSet(gs[i]) \cup ToSet(gs[j]) # {}
        BY <2>2
      <4>. QED  BY <2>9, <2>10, <2>11, <4>1, <4>2
    <3>2. ASSUME NEW k \in DOMAIN r, NEW x \in ToSet(r[k]) PROVE ToSet(r[k]) \subseteq Piece(x, gone)
      <4>1. CASE Was(k) # i
        BY <2>7, <2>9, <2>10, <2>11, <3>2, <4>1 DEF Grouped
      <4>2. CASE Was(k) = i
        <5>1. ToSet(r[k]) = ToSet(gs[i]) \cup ToSet(gs[j])
          BY <2>9, <2>11, <4>2
        <5>2. /\ \A y \in ToSet(gs[i]) : y \in gone /\ y \in Piece(b1, gone) /\ b1 \in Piece(y, gone)
              /\ \A y \in ToSet(gs[j]) : y \in gone /\ y \in Piece(b2, gone) /\ b2 \in Piece(y, gone)
          BY <2>2, PieceLaws DEF Grouped
        <5>3. b2 \in gone /\ b2 \in Piece(b1, gone) /\ b1 \in Piece(b2, gone)
          BY <2>2, <5>2, PieceLaws
        <5>4. \A y \in ToSet(r[k]) : y \in gone /\ y \in Piece(b1, gone) /\ b1 \in Piece(y, gone)
          BY <5>1, <5>2, <5>3, PieceLaws
        <5>. QED  BY <3>2, <5>4, PieceLaws
      <4>. QED  BY <4>1, <4>2
    <3>3. ASSUME NEW k \in DOMAIN r, NEW l \in DOMAIN r, NEW x \in ToSet(r[k]) \cap ToSet(r[l]) PROVE k = l
      <4>. DEFINE In(m) == x \in ToSet(gs[m])
      <4>1. \A m, o \in 1 .. n : In(m) /\ In(o) => m = o
        BY <2>7 DEF Grouped
      <4>2. Was(k) \in 1 .. n /\ Was(l) \in 1 .. n /\ Was(k) # j /\ Was(l) # j
        BY <2>9, <2>10
      <4>3. /\ In(Was(k)) \/ (Was(k) = i /\ In(j))
            /\ In(Was(l)) \/ (Was(l) = i /\ In(j))
        BY <2>9, <2>11, <3>3
      <4>4. Was(k) = Was(l)
        BY <2>2, <2>7, <4>1, <4>2, <4>3
      <4>. QED  BY <2>9, <2>10, <4>4
    <3>4. ASSUME NEW x \in gone PROVE \E k \in DOMAIN r : x \in ToSet(r[k])
      <4>1. Together(gs, x, x)
        BY DEF Together, Grouped
      <4>. QED  BY <2>12, <4>1 DEF Together
    <3>5. \A k, l \in DOMAIN r : ToSet(r[k]) \cap ToSet(r[l]) # {} => k = l
      BY <3>3
    <3>. QED  BY <3>1, <3>2, <3>4, <3>5 DEF Grouped
  <2>. QED  BY <1>1, <2>12, <2>13, <2>14
<1>. QED  BY <1>4, <1>5

\* The lists of blocks and of variables are not what the report is about.
LEMMA ReportableStays ==
    ASSUME cfg'.block = cfg.block, UNCHANGED <<built, reachable>>
    PROVE  /\ Unreached' = Unreached /\ Reportable' = Reportable
           /\ \A B : FirstLine(B)' = FirstLine(B)
           /\ \A gs, gone : Grouped(gs, gone)' <=> Grouped(gs, gone)
           /\ \A gs, x, gone : JumpsInside(gs, x, gone)' <=> JumpsInside(gs, x, gone)
<1>1. Unreached' = Unreached
  BY DEF Unreached, ShouldGo
<1>2. \A b : InstructionsOf(cfg', b) = InstructionsOf(cfg, b) /\ Targets(cfg', b) = Targets(cfg, b)
  BY DEF InstructionsOf, Targets
<1>3. ASSUME NEW B PROVE FirstLine(B)' = FirstLine(B)
  <2>. DEFINE Lines(g, b) == {ins.line : ins \in {i \in InstructionsOf(g, b) : ~i.hide}}
  <2>1. \A b : Lines(cfg', b) = Lines(cfg, b)
    BY <1>2
  <2>. HIDE DEF Lines
  <2>2. UNION {Lines(cfg', b) : b \in B} = UNION {Lines(cfg, b) : b \in B}
    BY <2>1
  <2>3. /\ FirstLine(B) = Min({INT_MAX} \cup UNION {Lines(cfg, b) : b \in B})
        /\ FirstLine(B)' = Min({INT_MAX} \cup UNION {Lines(cfg', b) : b \in B})
    BY DEF FirstLine, Lines
  <2>. QED  BY <2>2, <2>3
<1>4. ASSUME NEW x, NEW gone PROVE Piece(x, gone)' = Piece(x, gone)
  <2>1. \A P : Joined(P, gone)' <=> Joined(P, gone)
    BY <1>2 DEF Joined
  <2>. QED  BY <2>1 DEF Piece
<1>5. Reportable' = Reportable
  <2>. DEFINE First(b) == FirstLine(Piece(b, Unreached))
  <2>1. \A b : First(b)' = First(b)
    <3>. SUFFICES ASSUME NEW b PROVE First(b)' = First(b)
      OBVIOUS
    <3>1. Piece(b, Unreached)' = Piece(b, Unreached)
      BY <1>1, <1>4
    <3>. QED  BY <1>3, <3>1
  <2>2. Reportable = {First(b) : b \in Unreached} \ {INT_MAX}
    BY DEF Reportable
  <2>3. Reportable' = {First(b)' : b \in Unreached'} \ {INT_MAX}
    BY DEF Reportable, NoLine
  <2>. HIDE DEF First
  <2>. QED  BY <1>1, <2>1, <2>2, <2>3
<1>6. ASSUME NEW gs, NEW gone PROVE Grouped(gs, gone)' <=> Grouped(gs, gone)
  BY <1>4 DEF Grouped
<1>7. ASSUME NEW gs, NEW x, NEW gone PROVE JumpsInside(gs, x, gone)' <=> JumpsInside(gs, x, gone)
  BY <1>2 DEF JumpsInside, Together
<1>. QED  BY <1>1, <1>3, <1>5, <1>6, <1>7

LEMMA OneMoreWarning ==
    ASSUME List(warnings), NEW w, warnings' = Append(warnings, w)
    PROVE  /\ Warned(w.kind)' = Warned(w.kind) \cup {w.line}
           /\ \A kind : kind # w.kind => Warned(kind)' = Warned(kind)
<1>1. ToSet(warnings') = ToSet(warnings) \cup {w}
  BY AppendList
<1>. QED  BY <1>1 DEF Warned

\* The builder's list of blocks is in the order of their numbers.
LEMMA BlocksAreNumbered ==
    ASSUME CompileInv, Compiling
    PROVE  \E n \in Nat : /\ Len(built.all_blocks) = n /\ BlockSet(built) = 1 .. n
                          /\ \A i \in 1 .. n : built.all_blocks[i] = i
<1>1. List(built.all_blocks) /\ built.all_blocks = [i \in DOMAIN st.block |-> i]
  <2>1. SoundGraph(function, built) /\ built = BuiltCfg
    BY CompilingIsSound DEF CompileInv, LinkInv
  <2>2. BuiltCfg.all_blocks = [i \in DOMAIN st.block |-> i]
    BY DEF BuiltCfg
  <2>. QED  BY <2>1, <2>2 DEF SoundGraph
<1>2. PICK q : q = built.all_blocks
  OBVIOUS
<1>3. Len(q) \in Nat /\ DOMAIN q = 1 .. Len(q) /\ \A i \in 1 .. Len(q) : q[i] = i
  BY <1>1, <1>2 DEF List
<1>4. BlockSet(built) = 1 .. Len(q)
  BY <1>2, <1>3 DEF BlockSet
<1>. QED  BY <1>2, <1>3, <1>4
-----------------------------------------------------------------------------
LEMMA CollectingGroups ==
    ASSUME CompileInv, BeforeInv, PlacesInv, GroupInv, ReportInv, Simplify,
           CleanJumps \/ MarkReachable \/ CollectUnreachable \/ StartGrouping
    PROVE  GroupInv'
<1>1. Compiling /\ Compiling' /\ built' = built
  BY SimplifyingFits
<1>2. PICK n \in Nat : /\ Len(built.all_blocks) = n /\ BlockSet(built) = 1 .. n
                       /\ \A i \in 1 .. n : built.all_blocks[i] = i
  BY <1>1, BlocksAreNumbered
<1>3. CASE CleanJumps
  <2>1. phase' = "reachability" /\ at' = 1 /\ blocks_to_remove' = <<>>
    BY <1>3 DEF CleanJumps
  <2>2. {b \in Unreached' : b < 1} = {}
    BY <1>1, <1>2 DEF Unreached
  <2>3. ToSet(blocks_to_remove') = {}
    BY <2>1, ShortLists
  <2>. QED  BY <2>1, <2>2, <2>3 DEF GroupInv
<1>4. CASE MarkReachable
  <2>1. /\ phase = "reachability" /\ phase' = phase /\ todo # <<>> /\ at' = at
        /\ blocks_to_remove' = blocks_to_remove
    BY <1>4 DEF MarkReachable
  <2>2. at = 1
    BY <1>1, <2>1 DEF GroupInv
  <2>3. {b \in Unreached' : b < 1} = {} /\ {b \in Unreached : b < 1} = {}
    BY <1>1, <1>2 DEF Unreached
  <2>. QED  BY <1>1, <2>1, <2>2, <2>3 DEF GroupInv
<1>5. CASE CollectUnreachable \/ StartGrouping
  <2>1. PICK gone, U : gone = blocks_to_remove /\ U = Unreached
    OBVIOUS
  <2>2. /\ phase = "reachability" /\ todo = <<>> /\ todo' = todo /\ UNCHANGED <<built, reachable, cfg>>
    BY <1>1, <1>5 DEF CollectUnreachable, StartGrouping
  <2>3. /\ at \in Nat /\ at > 0 /\ at <= n + 1 /\ gone \in Seq(BlockSet(built))
        /\ \A i, j \in DOMAIN gone : gone[i] = gone[j] => i = j
        /\ ToSet(gone) = {b \in U : b < at}
        /\ cfg.all_blocks = built.all_blocks /\ Unreached' = U
        /\ U = {b \in 1 .. n : ShouldGo(b)}
    <3>1. at \in Nat /\ at > Len(gone) /\ at <= n + 1 /\ gone \in Seq(BlockSet(built))
      BY <1>1, <1>2, <2>1, <2>2 DEF PlacesInv, InBounds, GroupsFit
    <3>2. at > 0
      BY <3>1
    <3>3. cfg.all_blocks = built.all_blocks
      BY <1>1, <2>2 DEF CompileInv, BlocksInv, WalkingBlocks
    <3>4. Unreached' = U
      BY <2>1, <2>2, ReportableStays
    <3>. QED  BY <1>1, <1>2, <2>1, <2>2, <3>1, <3>2, <3>3, <3>4 DEF GroupInv, Unreached
  <2>4. CASE CollectUnreachable
    <3>1. /\ at <= n /\ at' = at + 1 /\ phase' = phase
          /\ blocks_to_remove' = IF ShouldGo(at) THEN Append(gone, at) ELSE gone
      BY <1>2, <2>1, <2>3, <2>4 DEF CollectUnreachable
    <3>2. \A b \in U : b < at + 1 <=> b < at \/ b = at
      BY <1>2, <2>3
    <3>3. CASE ShouldGo(at)
      <4>1. List(gone)
        BY <2>3, SequencesAreLists
      <4>2. PICK more : more = Append(gone, at)
        OBVIOUS
      <4>3. /\ ToSet(more) = ToSet(gone) \cup {at} /\ Len(more) = Len(gone) + 1
            /\ more[Len(gone) + 1] = at /\ \A i \in 1 .. Len(gone) : more[i] = gone[i]
            /\ List(more)
        BY <4>1, <4>2, AppendList
      <4>4. at \in U
        BY <2>3, <3>1, <3>3
      <4>5. ToSet(more) = {b \in U : b < at + 1}
        BY <2>3, <3>2, <4>3, <4>4
      <4>6. \A i, j \in DOMAIN more : more[i] = more[j] => i = j
        <5>1. DOMAIN more = 1 .. Len(gone) + 1 /\ DOMAIN gone = 1 .. Len(gone) /\ Len(gone) \in Nat
          BY <4>1, <4>3 DEF List
        <5>2. \A i \in 1 .. Len(gone) : more[i] # at /\ more[i] = gone[i]
          <6>1. at \notin ToSet(gone)
            BY <2>3
          <6>. QED  BY <4>3, <5>1, <6>1 DEF ToSet
        <5>3. \A i \in DOMAIN more : i = Len(gone) + 1 \/ i \in 1 .. Len(gone)
          BY <5>1
        <5>. QED  BY <2>3, <4>3, <5>1, <5>2, <5>3
      <4>. QED  BY <2>2, <2>3, <3>1, <3>3, <4>2, <4>5, <4>6 DEF GroupInv
    <3>4. CASE ~ShouldGo(at)
      <4>1. at \notin U
        BY <2>3, <3>4
      <4>2. {b \in U : b < at + 1} = {b \in U : b < at}
        BY <3>2, <4>1
      <4>. QED  BY <2>1, <2>2, <2>3, <3>1, <3>4, <4>2 DEF GroupInv
    <3>. QED  BY <3>3, <3>4
  <2>5. CASE StartGrouping
    <3>1. /\ at > n /\ at' = 1 /\ phase' = "group" /\ blocks_to_remove' = gone
          /\ groups' = [i \in DOMAIN gone |-> <<gone[i]>>]
      BY <1>2, <2>1, <2>3, <2>5 DEF StartGrouping
    <3>2. ToSet(gone) = U
      BY <2>3, <3>1
    <3>3. PICK gs : gs = [i \in DOMAIN gone |-> <<gone[i]>>]
      OBVIOUS
    <3>4. DOMAIN gs = DOMAIN gone /\ \A i \in DOMAIN gone : ToSet(gs[i]) = {gone[i]}
      BY <3>3, ShortLists
    <3>5. Grouped(gs, U)
      <4>1. \A x \in U : x \in Piece(x, U)
        BY PieceLaws
      <4>2. \A i \in DOMAIN gone : gone[i] \in U
        BY <3>2 DEF ToSet
      <4>3. \A x \in U : \E i \in DOMAIN gone : x = gone[i]
        BY <3>2 DEF ToSet
      <4>4. \A i \in DOMAIN gs : ToSet(gs[i]) # {} /\ \A x \in ToSet(gs[i]) : ToSet(gs[i]) \subseteq Piece(x, U)
        BY <3>4, <4>1, <4>2
      <4>5. \A i, j \in DOMAIN gs : ToSet(gs[i]) \cap ToSet(gs[j]) # {} => i = j
        BY <2>3, <3>4
      <4>6. \A x \in U : \E i \in DOMAIN gs : x \in ToSet(gs[i])
        BY <3>4, <4>3
      <4>. QED  BY <4>4, <4>5, <4>6 DEF Grouped
    <3>6. Grouped(gs, U)'
      BY <2>2, <3>5, ReportableStays
    <3>7. \A i \in DOMAIN gone : ~ (i < 1)
      BY <2>3
    <3>. QED  BY <2>3, <3>1, <3>2, <3>3, <3>6, <3>7 DEF GroupInv
  <2>. QED  BY <1>5, <2>4, <2>5
<1>. QED  BY <1>3, <1>4, <1>5

LEMMA GroupingGroups ==
    ASSUME CompileInv, BeforeInv, PlacesInv, GroupInv, ReportInv, Simplify, GroupBlock
    PROVE  GroupInv'
<1>1. Compiling /\ Compiling' /\ built' = built /\ phase = "group"
  BY SimplifyingFits DEF GroupBlock
<1>2. PICK gone, U, gs : gone = blocks_to_remove /\ U = Unreached /\ gs = groups
  OBVIOUS
<1>3. /\ at \in Nat /\ at > 0 /\ gone \in Seq(BlockSet(built)) /\ gs \in Seq(Seq(BlockSet(built)))
      /\ ToSet(gone) = U /\ Grouped(gs, U)
      /\ \A i \in DOMAIN gone : i < at => JumpsInside(gs, gone[i], U)
  BY <1>1, <1>2 DEF PlacesInv, InBounds, GroupsFit, GroupInv
<1>4. UNCHANGED <<built, reachable, cfg>> /\ blocks_to_remove' = gone
  BY <1>1, <1>2 DEF GroupBlock
<1>5. Unreached' = U
  BY <1>2, <1>4, ReportableStays
<1>6. CASE at <= Len(gone)
  <2>1. PICK b, t, f : b = gone[at] /\ t = cfg.block[b].iftrue /\ f = cfg.block[b].iffalse
    OBVIOUS
  <2>2. PICK hs : hs = JoinGroups(gs, b, t)
    OBVIOUS
  <2>3. PICK ks : ks = JoinGroups(hs, b, f)
    OBVIOUS
  <2>4. groups' = ks /\ at' = at + 1 /\ phase' = phase
    BY <1>2, <1>6, <2>1, <2>2, <2>3 DEF GroupBlock
  <2>5. b \in U /\ DOMAIN gone = 1 .. Len(gone) /\ Len(gone) \in Nat /\ at \in DOMAIN gone
    BY <1>3, <1>6, <2>1 DEF ToSet
  <2>6. NoBlock \notin U
    BY <1>1, <1>2, CompilingIsSound DEF CompileInv, SoundGraph, WellFormed, Unreached
  <2>7. /\ t \in U => t \in Piece(b, U)
        /\ f \in U => f \in Piece(b, U)
        /\ Targets(cfg, b) \subseteq {t, f}
    BY <2>1, <2>5, <2>6, PieceLaws DEF Targets
  <2>8. /\ hs \in Seq(Seq(BlockSet(built))) /\ Grouped(hs, U)
        /\ t \in U => Together(hs, b, t)
        /\ \A x, y : Together(gs, x, y) => Together(hs, x, y)
    BY <1>3, <2>2, <2>5, <2>7, JoiningGroups
  <2>9. /\ Grouped(ks, U)
        /\ f \in U => Together(ks, b, f)
        /\ \A x, y : Together(hs, x, y) => Together(ks, x, y)
    BY <2>3, <2>5, <2>7, <2>8, JoiningGroups
  <2>10. \A i \in DOMAIN gone : i < at + 1 => JumpsInside(ks, gone[i], U)
    <3>1. JumpsInside(ks, b, U)
      BY <2>7, <2>8, <2>9 DEF JumpsInside
    <3>2. \A i \in DOMAIN gone : i < at => JumpsInside(ks, gone[i], U)
      BY <1>3, <2>8, <2>9 DEF JumpsInside
    <3>3. \A i \in DOMAIN gone : i < at + 1 => i < at \/ i = at
      BY <1>3, <2>5
    <3>. QED  BY <2>1, <3>1, <3>2, <3>3
  <2>11. Grouped(ks, U)' /\ \A i \in DOMAIN gone : i < at + 1 => JumpsInside(ks, gone[i], U)'
    BY <1>4, <2>9, <2>10, ReportableStays
  <2>12. at + 1 > 0
    BY <1>3
  <2>. QED  BY <1>1, <1>3, <1>4, <1>5, <2>4, <2>11, <2>12 DEF GroupInv
<1>7. CASE ~(at <= Len(gone))
  <2>1. phase' = "show" /\ at' = 1 /\ groups' = gs
    BY <1>2, <1>7 DEF GroupBlock
  <2>2. \A i \in DOMAIN gone : i < at
    BY <1>3, <1>7
  <2>3. Grouped(gs, U)' /\ \A i \in DOMAIN gone : JumpsInside(gs, gone[i], U)'
    BY <1>3, <1>4, <2>2, ReportableStays
  <2>. QED  BY <1>3, <1>4, <1>5, <2>1, <2>3 DEF GroupInv
<1>. QED  BY <1>6, <1>7

\* No line is mistaken for the one before the first.
LEMMA FirstLineIsALine ==
    ASSUME CompileInv, Compiling, NEW B \in SUBSET BlockSet(built)
    PROVE  FirstLine(B) \in Nat
<1>1. BuildInv /\ BuildDone /\ built = BuiltCfg
  BY DEF CompileInv, LinkInv
<1>2. \A b \in BlockSet(built) : InstructionsOf(cfg, b) = InstructionsOf(built, b)
  <2>1. CASE phase = "clean_jumps"
    BY <2>1 DEF CompileInv, JumpsInv
  <2>2. CASE phase # "clean_jumps"
    <3>1. PICK r : Cut(built, r, cfg)
      BY <2>2 DEF CompileInv, JumpsInv
    <3>2. BlockSet(built) = DOMAIN built.block
      BY <1>1, NothingIsLeft, BuiltParts
    <3>. QED  BY <3>1, <3>2 DEF Cut, InstructionsOf
  <2>. QED  BY <2>1, <2>2
<1>3. PICK S : S = {INT_MAX} \cup
        UNION {{ins.line : ins \in {i \in InstructionsOf(cfg, b) : ~i.hide}} : b \in B}
  OBVIOUS
<1>4. \A b \in B : \A ins \in InstructionsOf(cfg, b) : ins.line \in Nat
  BY <1>1, <1>2, BuiltLines
<1>5. S \in SUBSET Nat /\ S # {}
  BY <1>3, <1>4, LimitAssumption
<1>6. PICK m \in S : \A k \in S : m <= k
  BY <1>5, LeastNatural
<1>7. FirstLine(B) = Min(S)
  BY <1>3 DEF FirstLine
<1>8. Min(S) \in S
  BY <1>6 DEF Min
<1>. QED  BY <1>5, <1>7, <1>8

LEMMA ShowingGroups ==
    ASSUME CompileInv, BeforeInv, PlacesInv, GroupInv, ReportInv, Simplify,
           ShowUnreachableWarning \/ StartRemovingBlocks
    PROVE  GroupInv' /\ ReportInv'
<1>1. Compiling /\ Compiling' /\ phase = "show" /\ UNCHANGED <<built, reachable, cfg, groups, blocks_to_remove>>
  BY SimplifyingFits DEF ShowUnreachableWarning, StartRemovingBlocks
<1>2. PICK gs, U, W : gs = groups /\ U = Unreached /\ W = Warned(NeverRuns)
  OBVIOUS
<1>3. PICK L : L = {FirstLine(ToSet(gs[i])) : i \in {j \in DOMAIN gs : j < at}}
  OBVIOUS
<1>4. /\ at \in Nat /\ at > 0 /\ gs \in Seq(Seq(BlockSet(built))) /\ Grouped(gs, U)
      /\ ToSet(blocks_to_remove) = U
      /\ \A i \in DOMAIN blocks_to_remove : JumpsInside(gs, blocks_to_remove[i], U)
      /\ W = L \ {INT_MAX} /\ prev_lineno \in W \cup {NoLine}
  BY <1>1, <1>2, <1>3 DEF PlacesInv, InBounds, GroupsFit, GroupInv, ReportInv
<1>5. CASE ShowUnreachableWarning
  <2>1. /\ at <= Len(gs) /\ at' = at + 1 /\ phase' = "show"
    BY <1>1, <1>2, <1>5 DEF ShowUnreachableWarning
  <2>2. GroupInv'
    <3>1. Unreached' = U /\ Grouped(gs, U)'
          /\ \A i \in DOMAIN blocks_to_remove : JumpsInside(gs, blocks_to_remove[i], U)'
      BY <1>1, <1>2, <1>4, ReportableStays
    <3>2. at' > 0
      BY <1>4, <2>1
    <3>. QED  BY <1>1, <1>2, <1>4, <2>1, <3>1, <3>2 DEF GroupInv
  <2>3. PICK first : first = FirstLine(ToSet(gs[at]))
    OBVIOUS
  <2>9. first # NoLine
    <3>1. gs[at] \in Seq(BlockSet(built))
      BY <1>4, <2>1
    <3>2. ToSet(gs[at]) \subseteq BlockSet(built)
      BY <3>1 DEF ToSet
    <3>3. FirstLine(ToSet(gs[at])) \in Nat
      BY <1>1, <3>2, FirstLineIsALine
    <3>. QED  BY <2>3, <3>3 DEF NoLine
  <2>4. PICK M : M = {FirstLine(ToSet(gs[i])) : i \in {j \in DOMAIN gs : j < at + 1}}
    OBVIOUS
  <2>5. M = L \cup {first}
    <3>1. at \in DOMAIN gs /\ \A j \in DOMAIN gs : j < at + 1 <=> j < at \/ j = at
      BY <1>4, <2>1
    <3>. QED  BY <1>3, <2>3, <2>4, <3>1
  <2>6. /\ Warned(NeverRuns)' = M \ {INT_MAX}
        /\ prev_lineno' \in Warned(NeverRuns)' \cup {NoLine}
    <3>1. CASE first \in {INT_MAX, prev_lineno}
      <4>1. warnings' = warnings /\ prev_lineno' = prev_lineno
        BY <1>2, <1>5, <2>3, <3>1 DEF ShowUnreachableWarning
      <4>2. Warned(NeverRuns)' = W
        BY <1>2, <4>1 DEF Warned, NeverRuns
      <4>. QED  BY <1>4, <2>5, <2>9, <3>1, <4>1, <4>2
    <3>2. CASE first \notin {INT_MAX, prev_lineno}
      <4>1. PICK w : w = Warning(NeverRuns, first, "")
        OBVIOUS
      <4>2. warnings' = Append(warnings, w) /\ prev_lineno' = first
        BY <1>2, <1>5, <2>3, <3>2, <4>1 DEF ShowUnreachableWarning, NeverRuns
      <4>3. w.kind = NeverRuns /\ w.line = first
        BY <4>1 DEF Warning
      <4>4. List(warnings)
        BY DEF CompileInv, LinkInv
      <4>5. Warned(w.kind)' = Warned(w.kind) \cup {w.line}
        BY <4>2, <4>4, OneMoreWarning
      <4>. QED  BY <1>2, <1>4, <2>5, <3>2, <4>2, <4>3, <4>5
    <3>. QED  BY <3>1, <3>2
  <2>7. \A B : FirstLine(B)' = FirstLine(B)
    BY <1>1, ReportableStays
  <2>8. {FirstLine(ToSet(groups[i])) : i \in {j \in DOMAIN groups : j < at}}' = M
    BY <1>1, <1>2, <2>1, <2>4, <2>7
  <2>. QED  BY <1>1, <2>1, <2>2, <2>6, <2>8 DEF ReportInv, WalkingBlocks, NoLine
<1>6. CASE StartRemovingBlocks
  <2>1. at > Len(gs) /\ phase' = "remove_blocks" /\ warnings' = warnings
    BY <1>2, <1>6 DEF StartRemovingBlocks
  <2>2. L = {FirstLine(ToSet(gs[i])) : i \in DOMAIN gs}
    <3>1. \A i \in DOMAIN gs : i < at
      BY <1>4, <2>1
    <3>. QED  BY <1>3, <3>1
  <2>3. \A x \in U : JumpsInside(gs, x, U)
    BY <1>4 DEF ToSet
  <2>4. L = {FirstLine(Piece(b, U)) : b \in U}
    <3>1. /\ \A i \in DOMAIN gs : \E b \in U : ToSet(gs[i]) = Piece(b, U)
          /\ \A b \in U : \E i \in DOMAIN gs : ToSet(gs[i]) = Piece(b, U)
      BY <1>4, <2>3, GroupsArePieces
    <3>. QED  BY <2>2, <3>1
  <2>5. Warned(NeverRuns)' = W /\ Reportable' = Reportable
    <3>1. Reportable' = Reportable
      BY <1>1, ReportableStays
    <3>. QED  BY <1>2, <2>1, <3>1 DEF Warned, NeverRuns
  <2>6. W = Reportable
    BY <1>2, <1>4, <2>4 DEF Reportable
  <2>7. ReportInv'
    BY <1>1, <2>1, <2>5, <2>6 DEF ReportInv, WalkingBlocks
  <2>8. GroupInv'
    BY <2>1 DEF GroupInv
  <2>. QED  BY <2>7, <2>8
<1>. QED  BY <1>5, <1>6

LEMMA EarlyReport ==
    ASSUME CompileInv, BeforeInv, PlacesInv, GroupInv, ReportInv, Simplify,
           \/ CleanJumps \/ MarkReachable \/ CollectUnreachable \/ StartGrouping
           \/ GroupBlock
    PROVE  ReportInv'
<1>1. Compiling /\ Compiling'
  BY SimplifyingFits
<1>2. CASE phase' # "show"
  <2>1. /\ phase \in {"clean_jumps", "reachability", "group"} /\ phase' \in {"reachability", "group"}
        /\ warnings' = warnings
    BY <1>2 DEF CleanJumps, MarkReachable, CollectUnreachable, StartGrouping, GroupBlock
  <2>. QED  BY <1>1, <2>1 DEF ReportInv, WalkingBlocks
<1>3. CASE phase' = "show"
  <2>1. /\ phase \in {"clean_jumps", "reachability", "group"} /\ at' = 1 /\ groups' = groups
        /\ warnings' = warnings /\ prev_lineno' = NoLine
    BY <1>3 DEF CleanJumps, MarkReachable, CollectUnreachable, StartGrouping, GroupBlock
  <2>2. warnings' = <<>>
    BY <2>1 DEF ReportInv
  <2>3. Warned(NeverRuns)' = {}
    BY <2>2, ShortLists DEF Warned
  <2>4. groups \in Seq(Seq(BlockSet(built)))
    <3>1. CASE phase = "clean_jumps"
      BY <3>1 DEF BeforeInv
    <3>2. CASE phase # "clean_jumps"
      BY <1>1, <3>2 DEF PlacesInv, GroupsFit
    <3>. QED  BY <3>1, <3>2
  <2>5. {j \in DOMAIN groups : j < 1} = {}
    BY <2>4
  <2>6. {FirstLine(ToSet(groups[i])) : i \in {j \in DOMAIN groups : j < at}}' = {}
    BY <2>1, <2>5
  <2>. QED  BY <1>3, <2>1, <2>3, <2>6 DEF ReportInv, WalkingBlocks, NoLine
<1>. QED  BY <1>2, <1>3

\* Later passes warn of other things.
LEMMA LaterReport ==
    ASSUME CompileInv, BeforeInv, PlacesInv, GroupInv, ReportInv, Simplify,
           \/ RemoveGivenBlock \/ BlocksRemoved \/ ErrorAboutMissingReturn
           \/ FindUsedVariables \/ RemoveUnusedVariable \/ VariablesRemoved
           \/ StartScan \/ ScanOperand \/ ScanInstruction \/ ScanNextBlock
    PROVE  GroupInv' /\ ReportInv'
<1>1. Compiling /\ Compiling' /\ built' = built /\ IsGraph(cfg)
  BY SimplifyingFits
<1>2. /\ phase \notin WalkingBlocks /\ phase' \notin WalkingBlocks /\ reachable' = reachable
      /\ phase' \notin {"clean_jumps", "reachability", "group", "show"}
  BY DEF RemoveGivenBlock, BlocksRemoved, ErrorAboutMissingReturn, FindUsedVariables,
         RemoveUnusedVariable, VariablesRemoved, StartScan, ScanOperand, ScanInstruction,
         ScanNextBlock, WalkingBlocks, passes
<1>3. cfg'.block = cfg.block
  <2>1. \/ cfg' = cfg
        \/ cfg' = [cfg EXCEPT !.all_blocks = SwapRemove(cfg.all_blocks, at)]
        \/ cfg' = [cfg EXCEPT !.variables = SwapRemove(cfg.variables, at)]
    BY DEF RemoveGivenBlock, BlocksRemoved, ErrorAboutMissingReturn, FindUsedVariables,
           RemoveUnusedVariable, VariablesRemoved, StartScan, ScanOperand, ScanInstruction,
           ScanNextBlock
  <2>2. PICK p, q : p = SwapRemove(cfg.all_blocks, at) /\ q = SwapRemove(cfg.variables, at)
    OBVIOUS
  <2>. QED  BY <1>1, <2>1, <2>2 DEF IsGraph
<1>4. \/ warnings' = warnings
      \/ \E w : warnings' = Append(warnings, w) /\ w.kind # NeverRuns
  <2>1. CASE ErrorAboutMissingReturn
    <3>1. PICK w : w = Warning("doesn't seem to return a value in all cases", returntype_line, "")
      OBVIOUS
    <3>2. w.kind # NeverRuns
      BY <3>1 DEF Warning, NeverRuns
    <3>3. warnings' = warnings \/ warnings' = Append(warnings, w)
      BY <2>1, <3>1 DEF ErrorAboutMissingReturn
    <3>. QED  BY <3>2, <3>3
  <2>2. CASE ScanOperand
    <3>1. PICK v, s, l : warnings' = warnings \o UndefinedWarning(v, s, l)
      BY <2>2 DEF ScanOperand
    <3>2. PICK u : u = UndefinedWarning(v, s, l)
      OBVIOUS
    <3>3. u = <<>> \/ \E w : u = <<w>> /\ w.kind # NeverRuns
      <4>1. PICK a, b : /\ a = Warning("may be undefined", l, VariableOf(cfg, v).name)
                        /\ b = Warning("is undefined", l, VariableOf(cfg, v).name)
        OBVIOUS
      <4>2. a.kind # NeverRuns /\ b.kind # NeverRuns
        BY <4>1 DEF Warning, NeverRuns
      <4>3. u \in {<<>>, <<a>>, <<b>>}
        BY <3>2, <4>1 DEF UndefinedWarning
      <4>. QED  BY <4>2, <4>3
    <3>4. List(warnings)
      BY DEF CompileInv, LinkInv
    <3>5. warnings \o <<>> = warnings /\ \A w : warnings \o <<w>> = Append(warnings, w)
      BY <3>4 DEF List
    <3>. QED  BY <3>1, <3>2, <3>3, <3>5
  <2>3. CASE ~(ErrorAboutMissingReturn \/ ScanOperand)
    BY <2>3 DEF RemoveGivenBlock, BlocksRemoved, FindUsedVariables,
         RemoveUnusedVariable, VariablesRemoved, StartScan, ScanInstruction, ScanNextBlock
  <2>. QED  BY <2>1, <2>2, <2>3
<1>5. Warned(NeverRuns)' = Warned(NeverRuns)
  <2>1. List(warnings)
    BY DEF CompileInv, LinkInv
  <2>2. CASE warnings' = warnings
    BY <2>2 DEF Warned, NeverRuns
  <2>3. CASE warnings' # warnings
    <3>1. PICK w : warnings' = Append(warnings, w) /\ w.kind # NeverRuns
      BY <1>4, <2>3
    <3>2. \A kind : kind # w.kind => Warned(kind)' = Warned(kind)
      BY <2>1, <3>1, OneMoreWarning
    <3>. QED  BY <3>1, <3>2 DEF NeverRuns
  <2>. QED  BY <2>2, <2>3
<1>6. Reportable' = Reportable
  BY <1>1, <1>2, <1>3, ReportableStays
<1>7. ReportInv'
  BY <1>1, <1>2, <1>5, <1>6 DEF ReportInv
<1>8. GroupInv'
  BY <1>2 DEF GroupInv
<1>. QED  BY <1>7, <1>8

\* Steps that leave everything the report is about alone.
LEMMA ReportStays ==
    ASSUME GroupInv, ReportInv,
           UNCHANGED <<cfg, built, phase, build_error, todo, reachable, blocks_to_remove, groups, at,
                       prev_lineno, warnings>>
    PROVE  GroupInv' /\ ReportInv'
<1>1. Compiling' = Compiling
  BY DEF Compiling
<1>2. PICK gone, U, gs : gone = blocks_to_remove /\ U = Unreached /\ gs = groups
  OBVIOUS
<1>3. /\ Unreached' = U /\ Reportable' = Reportable
      /\ \A B : FirstLine(B)' = FirstLine(B)
      /\ Grouped(gs, U)' <=> Grouped(gs, U)
      /\ \A x : JumpsInside(gs, x, U)' <=> JumpsInside(gs, x, U)
  BY <1>2, ReportableStays
<1>4. GroupInv'
  BY <1>1, <1>2, <1>3 DEF GroupInv
<1>5. Warned(NeverRuns)' = Warned(NeverRuns)
  BY DEF Warned, NeverRuns
<1>6. {FirstLine(ToSet(groups[i])) : i \in {j \in DOMAIN groups : j < at}}'
        = {FirstLine(ToSet(groups[i])) : i \in {j \in DOMAIN groups : j < at}}
  BY <1>3
<1>7. ReportInv'
  BY <1>1, <1>3, <1>5, <1>6 DEF ReportInv, NoLine
<1>. QED  BY <1>4, <1>7

LEMMA ReportKept ==
    CompileInv /\ BeforeInv /\ PlacesInv /\ GroupInv /\ ReportInv /\ [Next]_vars => GroupInv' /\ ReportInv'
<1>. SUFFICES ASSUME CompileInv, BeforeInv, PlacesInv, GroupInv, ReportInv, [Next]_vars
              PROVE  GroupInv' /\ ReportInv'
  OBVIOUS
<1>1. CASE Build \/ BuildFails
  <2>1. /\ ~Compiling /\ ~Compiling' /\ warnings' = warnings
    BY <1>1 DEF Build, BuildFails, Compiling, simplifyVars, buildVars
  <2>. QED  BY <2>1 DEF GroupInv, ReportInv
<1>2. CASE FinishFunction
  <2>1. ~Compiling /\ phase' = "clean_jumps" /\ warnings' = warnings
    BY <1>2 DEF FinishFunction, Compiling
  <2>. QED  BY <2>1 DEF GroupInv, ReportInv, WalkingBlocks
<1>3. CASE Simplify
  <2>1. CASE Analyse
    <3>1. UNCHANGED <<cfg, built, phase, build_error, todo, reachable, blocks_to_remove, groups, at,
                       prev_lineno, warnings>>
      BY <1>3, <2>1 DEF Analyse, Simplify, simplifyVars, passes, buildVars
    <3>. QED  BY <3>1, ReportStays
  <2>. QED  BY <1>3, <2>1, CollectingGroups, GroupingGroups, ShowingGroups, EarlyReport, LaterReport
            DEF Simplify, SimplifyStep
<1>4. CASE CallFunction \/ Run \/ Stopped \/ UNCHANGED vars
  <2>1. UNCHANGED <<cfg, built, phase, build_error, todo, reachable, blocks_to_remove, groups, at,
                       prev_lineno, warnings>>
    BY <1>4 DEF CallFunction, Run, Stopped, vars, analysisVars, simplifyVars, passes, buildVars
  <2>. QED  BY <2>1, ReportStays
<1>. QED  BY <1>1, <1>2, <1>3, <1>4 DEF Next, CompileStep

\* show_unreachable_warnings, whatever the jumps between the blocks that
\* cannot be reached and in whatever order their groups were joined, shows
\* the first line of each piece of them and no other.
THEOREM UnreachableCodeShown == Spec => []UnreachableCodeIsReported
<1>1. Init => GroupInv /\ ReportInv
  BY DEF Init, GroupInv, ReportInv, Compiling, PassesInit, WalkingBlocks
<1>2. CompileInv /\ ReportInv => UnreachableCodeIsReported
  <2>. SUFFICES ASSUME CompileInv, ReportInv, Finished, build_error = "", pc = NoBlock
                PROVE  Warned(NeverRuns) =
                        {FirstLine(Piece(b, BlockSet(built) \ BlockSet(cfg))) :
                            b \in BlockSet(built) \ BlockSet(cfg)} \ {INT_MAX}
    BY DEF UnreachableCodeIsReported, NeverRuns
  <2>1. Compiling /\ phase \notin WalkingBlocks /\ phase \in BlocksGone
    BY DEF Finished, Compiling, WalkingBlocks, BlocksGone
  <2>2. BlockSet(cfg) = reachable \cup {EndBlock}
    BY <2>1 DEF CompileInv, BlocksInv
  <2>3. Unreached = BlockSet(built) \ BlockSet(cfg)
    BY <2>2 DEF Unreached, ShouldGo
  <2>4. Warned(NeverRuns) = Reportable
    BY <2>1 DEF ReportInv
  <2>. QED  BY <2>3, <2>4 DEF Reportable
<1>3. Spec => [](CompileInv /\ BeforeInv /\ PlacesInv)
  BY CompilerIsSound, InitPlaces, PlacesKept, PTL DEF Spec
<1>. QED  BY <1>1, <1>2, <1>3, ReportKept, PTL DEF Spec
=============================================================================
