-------------------------------- MODULE Cfg --------------------------------
(***************************************************************************)
(* The control flow graph of one function (struct CfGraph).  The C code    *)
(* identifies blocks and variables by address; here a block is its         *)
(* allocation number and a variable its id.  cfg.block holds every block   *)
(* ever allocated, cfg.all_blocks the list the passes walk.                *)
(***************************************************************************)
EXTENDS Naturals, Sequences

StartBlock == 1
EndBlock == 2
NoBlock == 0     \* NULL as a CfBlock pointer
NoVar == 0       \* NULL as a Variable pointer

\* struct CfBlock straight out of calloc.
EmptyBlock == [instructions |-> <<>>, branchvar |-> NoVar,
               iftrue |-> NoBlock, iffalse |-> NoBlock]

BlockSet(g) == {g.all_blocks[i] : i \in DOMAIN g.all_blocks}
VarSet(g) == {g.variables[i].id : i \in DOMAIN g.variables}
Arguments(g) == {g.variables[i].id :
                    i \in {j \in DOMAIN g.variables : g.variables[j].is_argument}}
VariableOf(g, v) == CHOOSE w \in {g.variables[i] : i \in DOMAIN g.variables} : w.id = v

\* The variable codegen and error_about_missing_return look up by name.
ReturnSlots(g) == {g.variables[i].id :
                    i \in {j \in DOMAIN g.variables : g.variables[j].name = "return"}}

Targets(g, b) == {g.block[b].iftrue, g.block[b].iffalse} \ {NoBlock}
Predecessors(g, b) == {p \in BlockSet(g) : b \in Targets(g, p)}
Conditional(g, b) == g.block[b].iftrue # g.block[b].iffalse
InstructionsOf(g, b) == {g.block[b].instructions[i] :
                            i \in DOMAIN g.block[b].instructions}
OperandSet(ins) == {ins.operands[i] : i \in DOMAIN ins.operands}

\* What the passes take for granted of a graph: both special blocks are
\* listed, the start block first, the end block is empty and jumps nowhere,
\* every other block jumps inside the list, and instructions mention only
\* variables of the graph.
InstructionOK(g, ins) ==
    /\ ins.destvar \in VarSet(g) \cup {NoVar}
    /\ ins.operands \in Seq(VarSet(g))
    /\ ins.kind \in {"VARCPY", "ADDRESS_OF_VARIABLE"} => Len(ins.operands) = 1
BlockOK(g, b) ==
    /\ g.block[b].instructions \in Seq(InstructionsOf(g, b))
    /\ \A ins \in InstructionsOf(g, b) : InstructionOK(g, ins)
    /\ b # EndBlock => /\ g.block[b].iftrue \in BlockSet(g)
                       /\ g.block[b].iffalse \in BlockSet(g)
                       /\ Conditional(g, b) => g.block[b].branchvar \in VarSet(g)
WellFormed(g) ==
    /\ g.all_blocks \in Seq(BlockSet(g))
    /\ {StartBlock, EndBlock} \subseteq BlockSet(g)
    /\ g.all_blocks[1] = StartBlock
    /\ NoBlock \notin BlockSet(g)
    /\ NoVar \notin VarSet(g)
    /\ g.block[EndBlock].instructions = <<>>
    /\ Targets(g, EndBlock) = {}
    /\ \A b \in BlockSet(g) : BlockOK(g, b)

\* list.ptr[i] = Pop(&list): the last element takes the place of element i.
SwapRemove(list, i) ==
    [j \in 1 .. Len(list) - 1 |-> IF j = i THEN list[Len(list)] ELSE list[j]]
=============================================================================
