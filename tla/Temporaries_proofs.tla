------------------------ MODULE Temporaries_proofs ------------------------
(***************************************************************************)
(* build_cfg.c makes up a variable for every intermediate value.  The      *)
(* proof that each is set before it is read, whichever way execution       *)
(* comes, for every function the checker may let through.                  *)
(*                                                                         *)
(* There is an assignment K of variables to blocks, those known to be set  *)
(* when a block is entered, that the code built so far respects: reading   *)
(* from K[b] on, block b reads no made-up variable before it is set, and   *)
(* what is set at its end covers K of the blocks it jumps to.  This alone  *)
(* is not inductive, as the calls still on the agenda emit code that reads *)
(* what earlier calls left on the stack of values, possibly in other       *)
(* blocks.  So the invariant also follows the agenda: each call must find  *)
(* known what it takes, and what it leaves known must be enough for the    *)
(* ones after it.                                                          *)
(***************************************************************************)
EXTENDS BuildCfg_proofs
-----------------------------------------------------------------------------
(* Order of evaluation: the variables the builder makes up are set before  *)
(* they are read, whichever way execution comes.  K[b] are those known to  *)
(* be set when block b is entered.  Only the blocks of and and or have     *)
(* any.                                                                    *)
Temps(f) == {v \in Nat : v > Len(f.variables)}
Provides(f, ins) ==
    Temps(f) \cap ({ins.destvar} \cup IF ins.kind = "ADDRESS_OF_VARIABLE" THEN OperandSet(ins) ELSE {})
Needs(f, ins) == IF ins.kind = "ADDRESS_OF_VARIABLE" THEN {} ELSE Temps(f) \cap OperandSet(ins)
\* What the first n instructions of a list set, or let a pointer set.
ProvidedBy(f, q, n) == UNION {Provides(f, q[i]) : i \in 1 .. n}
After(f, K, s, b) == K[b] \cup ProvidedBy(f, s.block[b].instructions, Len(s.block[b].instructions))
Live(f, K, s) == After(f, K, s, s.current_block)

CodeInOrder(f, q, known) ==
    \A i \in 1 .. Len(q) : Needs(f, q[i]) \subseteq known \cup ProvidedBy(f, q, i - 1)
JumpInOrder(K, block, known) ==
    /\ \A t \in {block.iftrue, block.iffalse} : t # NoBlock => K[t] \subseteq known
    /\ block.iftrue # block.iffalse => block.branchvar \in known
BlockInOrder(f, K, s, b) ==
    /\ CodeInOrder(f, s.block[b].instructions, K[b])
    /\ JumpInOrder(K, s.block[b], After(f, K, s, b))
NoBoolPointers(f, s) ==
    \A ins \in InstructionsIn(s) : ins.kind = "ADDRESS_OF_VARIABLE" =>
        \A v \in OperandSet(ins) \cap Temps(f) : TypeOf(s, v) # boolType
TargetsFit(s, block) == {block.iftrue, block.iffalse} \subseteq DOMAIN s.block \cup {NoBlock}
InOrder(f, K, s) ==
    /\ K \in [Nat -> SUBSET Temps(f)]
    /\ K[StartBlock] = {} /\ K[EndBlock] = {}
    /\ \A b \in DOMAIN s.block : BlockInOrder(f, K, s, b)
    /\ \A b \in DOMAIN s.block : TargetsFit(s, s.block[b])
    /\ NoBoolPointers(f, s)
    /\ \A b \in ToSet(s.breakstack) \cup ToSet(s.continuestack) : K[b] = {}

\* Code without jumps that keeps the order.
Grows(f, K, s, t) ==
    /\ Straight(f, s, t)
    /\ InOrder(f, K, t)
    /\ Live(f, K, s) \subseteq Live(f, K, t)

LEMMA GrowsTransitive ==
    ASSUME NEW f, NEW K, NEW s, NEW t, NEW u, Grows(f, K, s, t), Grows(f, K, t, u)
    PROVE  Grows(f, K, s, u)
<1>1. Straight(f, s, u)
  BY StraightTransitive DEF Grows
<1>. QED  BY <1>1 DEF Grows

LEMMA GrowsReflexive ==
    ASSUME NEW f, NEW K, NEW s, StateFits(f, s), InOrder(f, K, s)
    PROVE  Grows(f, K, s, s)
BY StraightReflexive DEF Grows

LEMMA GrowsKeeps ==
    ASSUME NEW f, NEW K, NEW s, NEW t, Grows(f, K, s, t)
    PROVE  /\ StateFits(f, s) /\ StateFits(f, t) /\ InOrder(f, K, t)
           /\ VariablesIn(s) \subseteq VariablesIn(t)
           /\ Live(f, K, s) \subseteq Live(f, K, t)
           /\ \A v \in VariablesIn(s) : TypeOf(t, v) = TypeOf(s, v)
<1>1. Straight(f, s, t) /\ InOrder(f, K, t) /\ Live(f, K, s) \subseteq Live(f, K, t)
  BY DEF Grows
<1>2. StateFits(f, s)
  BY <1>1 DEF Straight, Continues
<1>. QED  BY <1>1, <1>2, StraightKeeps

\* The code stays; variables may be added.
LEMMA SameCodeInOrder ==
    ASSUME NEW f, NEW K, NEW s, StateFits(f, s), InOrder(f, K, s),
           NEW t, t.block = s.block, Continues(f, s, t),
           \A b \in ToSet(t.breakstack) \cup ToSet(t.continuestack) : K[b] = {}
    PROVE  /\ InOrder(f, K, t)
           /\ \A b : After(f, K, t, b) = After(f, K, s, b)
<1>1. \A b : After(f, K, t, b) = After(f, K, s, b)
  BY DEF After
<1>2. \A b \in DOMAIN t.block : BlockInOrder(f, K, t, b)
  BY <1>1 DEF InOrder, BlockInOrder
<1>3. NoBoolPointers(f, t)
  <2>. SUFFICES ASSUME NEW ins \in InstructionsIn(t), ins.kind = "ADDRESS_OF_VARIABLE",
                       NEW v \in OperandSet(ins), v \in Temps(f)
                PROVE  TypeOf(t, v) # boolType
    BY DEF NoBoolPointers
  <2>1. ins \in InstructionsIn(s)
    BY DEF InstructionsIn
  <2>2. TypeOf(s, v) # boolType
    BY <2>1 DEF InOrder, NoBoolPointers
  <2>3. ins.operands \in Seq(VariablesIn(s))
    BY <2>1 DEF StateFits, BlocksFit, InstructionFits
  <2>4. v \in VariablesIn(s)
    BY <2>3 DEF OperandSet
  <2>5. TypeOf(t, v) = TypeOf(s, v)
    BY <2>4 DEF Continues, TypeOf
  <2>. QED  BY <2>2, <2>5
<1>. QED  BY <1>1, <1>2, <1>3 DEF InOrder, TargetsFit

LEMMA GrowVariable ==
    ASSUME NEW f, NEW K, NEW s, StateFits(f, s), InOrder(f, K, s), NEW ty,
           NEW u, u = add_variable(s, ty)
    PROVE  /\ Grows(f, K, s, u) /\ Live(f, K, u) = Live(f, K, s)
           /\ newest(u) = newest(s) + 1 /\ newest(s) + 1 \in VariablesIn(u)
           /\ TypeOf(u, newest(s) + 1) = ty /\ newest(s) + 1 \in Temps(f)
           /\ newest(s) \in Nat
<1>1. /\ Straight(f, s, u) /\ newest(u) = newest(s) + 1 /\ newest(u) \in VariablesIn(u)
      /\ TypeOf(u, newest(u)) = ty /\ u.block = s.block
  BY AddVariable
<1>2. Continues(f, s, u) /\ u.current_block = s.current_block
      /\ u.breakstack = s.breakstack /\ u.continuestack = s.continuestack
  BY <1>1 DEF Straight
<1>3. \A b \in ToSet(u.breakstack) \cup ToSet(u.continuestack) : K[b] = {}
  BY <1>2 DEF InOrder
<1>4. InOrder(f, K, u) /\ \A b : After(f, K, u, b) = After(f, K, s, b)
  BY <1>1, <1>2, <1>3, SameCodeInOrder
<1>5. newest(s) \in Nat /\ newest(s) + 1 > Len(f.variables)
  BY Lengths DEF newest
<1>. QED  BY <1>1, <1>2, <1>4, <1>5 DEF Grows, Live, Temps

\* Lists of instructions that are in order, and one more.
Longer(q, ins, r) ==
    /\ Len(r) = Len(q) + 1 /\ r[Len(q) + 1] = ins
    /\ \A i \in 1 .. Len(q) : r[i] = q[i]

LEMMA ProvidedMore ==
    ASSUME NEW f, NEW q, List(q), NEW ins, NEW r, Longer(q, ins, r)
    PROVE  /\ \A n \in 0 .. Len(q) : ProvidedBy(f, r, n) = ProvidedBy(f, q, n)
           /\ ProvidedBy(f, r, Len(r)) = ProvidedBy(f, q, Len(q)) \cup Provides(f, ins)
           /\ Len(q) \in Nat
<1>1. /\ Len(r) = Len(q) + 1 /\ r[Len(q) + 1] = ins
      /\ \A i \in 1 .. Len(q) : r[i] = q[i]
  BY DEF Longer
<1>2. Len(q) \in Nat
  BY DEF List
<1>3. \A n \in 0 .. Len(q) : ProvidedBy(f, r, n) = ProvidedBy(f, q, n)
  BY <1>1, <1>2 DEF ProvidedBy
<1>4. 1 .. Len(r) = 1 .. Len(q) \cup {Len(q) + 1}
  BY <1>1, <1>2
<1>5. ProvidedBy(f, r, Len(r)) = ProvidedBy(f, q, Len(q)) \cup Provides(f, ins)
  BY <1>1, <1>4 DEF ProvidedBy
<1>. QED  BY <1>1, <1>2, <1>3, <1>5

LEMMA CodeGoesOn ==
    ASSUME NEW f, NEW q, List(q), NEW known, CodeInOrder(f, q, known), NEW ins,
           Needs(f, ins) \subseteq known \cup ProvidedBy(f, q, Len(q)), NEW r, r = Append(q, ins)
    PROVE  CodeInOrder(f, r, known)
<1>0. /\ Len(r) = Len(q) + 1 /\ r[Len(q) + 1] = ins
      /\ \A i \in 1 .. Len(q) : r[i] = q[i]
  BY AppendList
<1>1. /\ \A n \in 0 .. Len(q) : ProvidedBy(f, r, n) = ProvidedBy(f, q, n)
      /\ Len(r) = Len(q) + 1 /\ Len(q) \in Nat /\ r[Len(q) + 1] = ins
      /\ \A i \in 1 .. Len(q) : r[i] = q[i]
  <2>1. Longer(q, ins, r)
    BY <1>0 DEF Longer
  <2>2. (\A n \in 0 .. Len(q) : ProvidedBy(f, r, n) = ProvidedBy(f, q, n)) /\ Len(q) \in Nat
    BY <2>1, ProvidedMore
  <2>. QED  BY <1>0, <2>2
<1>. SUFFICES ASSUME NEW i \in 1 .. Len(r)
              PROVE  Needs(f, r[i]) \subseteq known \cup ProvidedBy(f, r, i - 1)
  BY DEF CodeInOrder
<1>2. CASE i \in 1 .. Len(q)
  <2>1. i - 1 \in 0 .. Len(q)
    BY <1>1, <1>2
  <2>. QED  BY <1>1, <1>2, <2>1 DEF CodeInOrder
<1>3. CASE i = Len(q) + 1
  <2>1. i - 1 = Len(q) /\ Len(q) \in 0 .. Len(q)
    BY <1>1, <1>3
  <2>. QED  BY <1>1, <1>3, <2>1
<1>. QED  BY <1>1, <1>2, <1>3

LEMMA GrowInstruction ==
    ASSUME NEW f, NEW K, NEW s, StateFits(f, s), InOrder(f, K, s), NEW ins,
           Needs(f, ins) \subseteq Live(f, K, s),
           ins.kind = "ADDRESS_OF_VARIABLE" =>
                \A v \in OperandSet(ins) \cap Temps(f) : TypeOf(s, v) # boolType,
           NEW t, t = add_instruction(s, ins), Straight(f, s, t), t.variables = s.variables,
           InstructionsIn(t) = InstructionsIn(s) \cup {ins}
    PROVE  /\ Grows(f, K, s, t)
           /\ Live(f, K, t) = Live(f, K, s) \cup Provides(f, ins)
<1>1. PICK c : c = s.current_block
  OBVIOUS
<1>2. /\ c \in DOMAIN s.block /\ DOMAIN s.block[c] = {"instructions", "branchvar", "iftrue", "iffalse"}
      /\ List(s.block[c].instructions)
      /\ "block" \in DOMAIN s
  BY <1>1 DEF StateFits, BlocksFit, InnerBlocks
<1>3. PICK q, r : q = s.block[c].instructions /\ r = Append(q, ins)
  OBVIOUS
<1>4. t.block = [s.block EXCEPT ![c] = [s.block[c] EXCEPT !.instructions = r]]
  BY <1>1, <1>2, <1>3 DEF add_instruction
<1>5. /\ DOMAIN t.block = DOMAIN s.block
      /\ \A b \in DOMAIN s.block : b # c => t.block[b] = s.block[b]
      /\ t.block[c].instructions = r
      /\ t.block[c].iftrue = s.block[c].iftrue /\ t.block[c].iffalse = s.block[c].iffalse
      /\ t.block[c].branchvar = s.block[c].branchvar
  BY <1>2, <1>4
<1>6. /\ ProvidedBy(f, r, Len(r)) = ProvidedBy(f, q, Len(q)) \cup Provides(f, ins)
  <2>1. /\ Len(r) = Len(q) + 1 /\ r[Len(q) + 1] = ins
        /\ \A i \in 1 .. Len(q) : r[i] = q[i]
    BY <1>2, <1>3, AppendList
  <2>2. List(q) /\ Longer(q, ins, r)
    BY <1>2, <1>3, <2>1 DEF Longer
  <2>. QED  BY <2>2, ProvidedMore
<1>7. After(f, K, t, c) = After(f, K, s, c) \cup Provides(f, ins)
  BY <1>3, <1>5, <1>6 DEF After
<1>8. \A b \in DOMAIN s.block : b # c => After(f, K, t, b) = After(f, K, s, b)
  BY <1>5 DEF After
<1>9. t.current_block = c /\ t.breakstack = s.breakstack /\ t.continuestack = s.continuestack
  BY <1>1 DEF Straight
<1>10. Live(f, K, t) = Live(f, K, s) \cup Provides(f, ins)
  BY <1>1, <1>7, <1>9 DEF Live
<1>11. ASSUME NEW b \in DOMAIN t.block PROVE BlockInOrder(f, K, t, b)
  <2>1. b \in DOMAIN s.block /\ BlockInOrder(f, K, s, b)
    BY <1>5 DEF InOrder
  <2>2. CASE b # c
    BY <1>5, <1>8, <2>1, <2>2 DEF BlockInOrder
  <2>3. CASE b = c
    <3>1. Needs(f, ins) \subseteq K[c] \cup ProvidedBy(f, q, Len(q))
      BY <1>1, <1>3 DEF Live, After
    <3>2. CodeInOrder(f, q, K[c])
      BY <1>3, <2>1, <2>3 DEF BlockInOrder
    <3>3. CodeInOrder(f, r, K[c])
      BY <1>2, <1>3, <3>1, <3>2, CodeGoesOn
    <3>4. JumpInOrder(K, t.block[c], After(f, K, t, c))
      BY <1>5, <1>7, <2>1, <2>3 DEF BlockInOrder, JumpInOrder
    <3>. QED  BY <1>5, <2>3, <3>3, <3>4 DEF BlockInOrder
  <2>. QED  BY <2>2, <2>3
<1>12. NoBoolPointers(f, t)
  BY DEF NoBoolPointers, TypeOf, InOrder
<1>13. InOrder(f, K, t)
  <2>1. \A b \in DOMAIN t.block : TargetsFit(t, t.block[b])
    BY <1>5 DEF InOrder, TargetsFit
  <2>. QED  BY <1>9, <1>11, <1>12, <2>1 DEF InOrder
<1>. QED  BY <1>10, <1>13 DEF Grows

\* The laws of the builder's own code, once more for what they set.
LEMMA PlainInstructionGrows ==
    ASSUME NEW f, NEW K, NEW s, StateFits(f, s), InOrder(f, K, s),
           NEW ins, ins.kind # "ADDRESS_OF_VARIABLE", InstructionFits(s, ins),
           Temps(f) \cap OperandSet(ins) \subseteq Live(f, K, s), NEW t, t = add_instruction(s, ins)
    PROVE  /\ Grows(f, K, s, t) /\ t.variables = s.variables
           /\ ins.destvar \in Temps(f) => ins.destvar \in Live(f, K, t)
<1>1. PointersFit(f, InstructionsIn(s) \cup {ins})
  BY DEF StateFits, BlocksFit, PointersFit
<1>2. /\ Straight(f, s, t) /\ t.variables = s.variables
      /\ InstructionsIn(t) = InstructionsIn(s) \cup {ins}
  BY <1>1, AddInstruction
<1>3. Needs(f, ins) \subseteq Live(f, K, s)
  BY DEF Needs
<1>4. Grows(f, K, s, t) /\ Live(f, K, t) = Live(f, K, s) \cup Provides(f, ins)
  BY <1>2, <1>3, GrowInstruction
<1>. QED  BY <1>2, <1>4 DEF Provides

LEMMA EmitNamedGrows ==
    ASSUME NEW f, NEW K, NEW s, StateFits(f, s), InOrder(f, K, s),
           NEW line \in Nat, NEW kind, kind # "ADDRESS_OF_VARIABLE",
           NEW operands \in Seq(VariablesIn(s)), kind = "VARCPY" => Len(operands) = 1,
           Temps(f) \cap ToSet(operands) \subseteq Live(f, K, s),
           NEW destvar \in VariablesIn(s) \cup {NoVar}, NEW value,
           NEW t, t = EmitNamed(s, line, kind, value, operands, destvar)
    PROVE  /\ Grows(f, K, s, t) /\ t.variables = s.variables
           /\ destvar \in Temps(f) => destvar \in Live(f, K, t)
<1>. DEFINE i == Instruction(kind, value, operands, destvar, line, FALSE)
<1>1. /\ i.kind = kind /\ i.operands = operands /\ i.destvar = destvar /\ i.line = line
      /\ t = add_instruction(s, i)
  BY DEF Instruction, EmitNamed
<1>. HIDE DEF i
<1>2. InstructionFits(s, i)
  BY <1>1 DEF InstructionFits
<1>3. OperandSet(i) = ToSet(operands)
  BY <1>1 DEF OperandSet, ToSet
<1>. QED  BY <1>1, <1>2, <1>3, PlainInstructionGrows

LEMMA EmitGrows ==
    ASSUME NEW f, NEW K, NEW s, StateFits(f, s), InOrder(f, K, s),
           NEW line \in Nat, NEW kind, kind # "ADDRESS_OF_VARIABLE",
           NEW operands \in Seq(VariablesIn(s)), kind = "VARCPY" => Len(operands) = 1,
           Temps(f) \cap ToSet(operands) \subseteq Live(f, K, s),
           NEW destvar \in VariablesIn(s) \cup {NoVar},
           NEW t, t = Emit(s, line, kind, operands, destvar)
    PROVE  /\ Grows(f, K, s, t) /\ t.variables = s.variables
           /\ destvar \in Temps(f) => destvar \in Live(f, K, t)
<1>1. PICK value : t = EmitNamed(s, line, kind, value, operands, destvar)
  BY DEF Emit, EmitNamed
<1>. QED  BY <1>1, EmitNamedGrows

LEMMA EmitConstantGrows ==
    ASSUME NEW f, NEW K, NEW s, StateFits(f, s), InOrder(f, K, s),
           NEW line \in Nat, NEW value, NEW number, NEW destvar \in VariablesIn(s) \cup {NoVar},
           NEW t, t = EmitConstant(s, line, value, number, destvar)
    PROVE  /\ Grows(f, K, s, t) /\ t.variables = s.variables
           /\ destvar \in Temps(f) => destvar \in Live(f, K, t)
<1>. DEFINE i == [Instruction("CONSTANT", value, << >>, destvar, line, FALSE) EXCEPT !.number = number]
<1>1. /\ i.kind = "CONSTANT" /\ i.operands = << >> /\ i.destvar = destvar /\ i.line = line
      /\ t = add_instruction(s, i)
  BY DEF Instruction, EmitConstant
<1>. HIDE DEF i
<1>2. InstructionFits(s, i)
  BY <1>1 DEF InstructionFits
<1>3. OperandSet(i) = {}
  BY <1>1 DEF OperandSet
<1>4. i.kind # "ADDRESS_OF_VARIABLE"
  BY <1>1
<1>5. Temps(f) \cap OperandSet(i) \subseteq Live(f, K, s)
  BY <1>3
<1>6. t = add_instruction(s, i)
  BY <1>1
<1>7. /\ Grows(f, K, s, t) /\ t.variables = s.variables
      /\ i.destvar \in Temps(f) => i.destvar \in Live(f, K, t)
  BY <1>2, <1>4, <1>5, <1>6, PlainInstructionGrows
<1>. QED  BY <1>1, <1>7

\* A new variable with the instruction that sets it.
SetsNewest(f, K, s, ty, t) ==
    /\ Grows(f, K, s, t)
    /\ newest(t) = newest(s) + 1 /\ newest(s) + 1 \in VariablesIn(t)
    /\ TypeOf(t, newest(s) + 1) = ty
    /\ newest(s) + 1 \in Live(f, K, t)

LEMMA EmitNamedToGrows ==
    ASSUME NEW f, NEW K, NEW s, StateFits(f, s), InOrder(f, K, s),
           NEW line \in Nat, NEW kind, kind # "ADDRESS_OF_VARIABLE", NEW value,
           NEW operands \in Seq(VariablesIn(s)), kind = "VARCPY" => Len(operands) = 1,
           Temps(f) \cap ToSet(operands) \subseteq Live(f, K, s), NEW ty,
           NEW t, t = EmitNamed(add_variable(s, ty), line, kind, value, operands, newest(s) + 1)
    PROVE  SetsNewest(f, K, s, ty, t)
<1>1. PICK u : u = add_variable(s, ty)
  OBVIOUS
<1>2. /\ Grows(f, K, s, u) /\ Live(f, K, u) = Live(f, K, s)
      /\ newest(u) = newest(s) + 1 /\ newest(s) + 1 \in VariablesIn(u)
      /\ TypeOf(u, newest(s) + 1) = ty /\ newest(s) + 1 \in Temps(f)
  BY <1>1, GrowVariable
<1>3. StateFits(f, u) /\ InOrder(f, K, u) /\ VariablesIn(s) \subseteq VariablesIn(u)
  BY <1>2, GrowsKeeps
<1>4. operands \in Seq(VariablesIn(u)) /\ Temps(f) \cap ToSet(operands) \subseteq Live(f, K, u)
  BY <1>2, <1>3, SeqSubset
<1>5. t = EmitNamed(u, line, kind, value, operands, newest(s) + 1)
  BY <1>1
<1>6. newest(s) + 1 \in VariablesIn(u) \cup {NoVar}
  BY <1>2
<1>7. /\ Grows(f, K, u, t) /\ t.variables = u.variables
      /\ newest(s) + 1 \in Temps(f) => newest(s) + 1 \in Live(f, K, t)
  BY <1>3, <1>4, <1>5, <1>6, EmitNamedGrows
<1>8. Grows(f, K, s, t)
  BY <1>2, <1>7, GrowsTransitive
<1>. QED  BY <1>2, <1>7, <1>8 DEF SetsNewest, newest, TypeOf, VariablesIn

LEMMA EmitToGrows ==
    ASSUME NEW f, NEW K, NEW s, StateFits(f, s), InOrder(f, K, s),
           NEW line \in Nat, NEW kind, kind # "ADDRESS_OF_VARIABLE",
           NEW operands \in Seq(VariablesIn(s)), kind = "VARCPY" => Len(operands) = 1,
           Temps(f) \cap ToSet(operands) \subseteq Live(f, K, s), NEW ty,
           NEW t, t = EmitTo(s, line, kind, operands, ty)
    PROVE  SetsNewest(f, K, s, ty, t)
<1>1. PICK value : t = EmitNamed(add_variable(s, ty), line, kind, value, operands, newest(s) + 1)
  BY DEF EmitTo, Emit, EmitNamed
<1>. QED  BY <1>1, EmitNamedToGrows

\* A pointer counts as setting what it points to.
LEMMA AddressToGrows ==
    ASSUME NEW f, NEW K, NEW s, StateFits(f, s), InOrder(f, K, s),
           NEW line \in Nat, NEW v \in VariablesIn(s),
           \A ins \in InstructionsIn(s) : ins.kind = "ADDRESS_OF_VARIABLE" => ins.destvar # v,
           Addressable(f, v), v \in Temps(f) => TypeOf(s, v) # boolType,
           NEW ty, NEW t, t = EmitTo(s, line, "ADDRESS_OF_VARIABLE", <<v>>, ty)
    PROVE  SetsNewest(f, K, s, ty, t) /\ (v \in Temps(f) => v \in Live(f, K, t))
<1>. DEFINE i == Instruction("ADDRESS_OF_VARIABLE", "", <<v>>, newest(s) + 1, line, FALSE)
<1>1. PICK u : u = add_variable(s, ty)
  OBVIOUS
<1>2. /\ Grows(f, K, s, u) /\ Live(f, K, u) = Live(f, K, s)
      /\ newest(u) = newest(s) + 1 /\ newest(s) + 1 \in VariablesIn(u)
      /\ TypeOf(u, newest(s) + 1) = ty /\ newest(s) + 1 \in Temps(f)
  BY <1>1, GrowVariable
<1>3. /\ StateFits(f, u) /\ InOrder(f, K, u) /\ VariablesIn(s) \subseteq VariablesIn(u)
      /\ TypeOf(u, v) = TypeOf(s, v)
  BY <1>2, GrowsKeeps
<1>4. t = add_instruction(u, i)
  BY <1>1 DEF EmitTo, Emit
<1>5. /\ i.kind = "ADDRESS_OF_VARIABLE" /\ i.operands = <<v>> /\ i.destvar = newest(s) + 1
      /\ OperandSet(i) = {v} /\ i.line = line
  BY DEF Instruction, OperandSet
<1>. HIDE DEF i
<1>6. InstructionFits(u, i)
  BY <1>2, <1>3, <1>5 DEF InstructionFits
<1>7. PointersFit(f, InstructionsIn(u) \cup {i})
  <2>1. InstructionsIn(u) = InstructionsIn(s)
    BY <1>1 DEF InstructionsIn, add_variable, StateFits
  <2>2. \A j \in InstructionsIn(s) : InstructionFits(s, j)
    BY DEF StateFits, BlocksFit
  <2>3. Len(s.variables) \in Nat /\ Len(f.variables) <= Len(s.variables) /\ Len(f.variables) \in Nat
    BY Lengths
  <2>4. newest(s) + 1 > Len(f.variables) /\ newest(s) + 1 \notin VariablesIn(s)
    BY <2>3 DEF newest, VariablesIn
  <2>5. \A j \in InstructionsIn(s) : j.kind = "ADDRESS_OF_VARIABLE" =>
            newest(s) + 1 \notin OperandSet(j)
    BY <2>2, <2>4 DEF InstructionFits, OperandSet
  <2>6. newest(s) + 1 # v
    BY <2>4
  <2>7. PointersFit(f, InstructionsIn(s))
    BY DEF StateFits, BlocksFit
  <2>. QED  BY <1>5, <2>1, <2>4, <2>5, <2>6, <2>7 DEF PointersFit
<1>8. /\ Straight(f, u, t) /\ t.variables = u.variables
      /\ InstructionsIn(t) = InstructionsIn(u) \cup {i}
  BY <1>3, <1>4, <1>6, <1>7, AddInstruction
<1>9. Needs(f, i) \subseteq Live(f, K, u)
  BY <1>5 DEF Needs
<1>10. \A w \in OperandSet(i) \cap Temps(f) : TypeOf(u, w) # boolType
  BY <1>3, <1>5
<1>11. Grows(f, K, u, t) /\ Live(f, K, t) = Live(f, K, u) \cup Provides(f, i)
  BY <1>3, <1>4, <1>8, <1>9, <1>10, GrowInstruction
<1>12. Grows(f, K, s, t)
  BY <1>2, <1>11, GrowsTransitive
<1>13. newest(s) + 1 \in Live(f, K, t) /\ (v \in Temps(f) => v \in Live(f, K, t))
  BY <1>2, <1>5, <1>11 DEF Provides
<1>. QED  BY <1>2, <1>8, <1>12, <1>13 DEF SetsNewest, newest, TypeOf, VariablesIn

Makes(f, K, s, r) == Grows(f, K, s, r.s) /\ r.v \in Live(f, K, r.s)

LEMMA BuildCastMakes ==
    ASSUME NEW f, NEW K, NEW s, StateFits(f, s), InOrder(f, K, s),
           NEW obj \in VariablesIn(s), NEW to, NEW line \in Nat,
           obj \in Live(f, K, s) \/ (obj \notin Temps(f) /\ TypeOf(s, obj) # to),
           NEW r, r = build_cast(s, obj, to, line)
    PROVE  Makes(f, K, s, r)
<1>1. CASE TypeOf(s, obj) = to
  <2>1. r.s = s /\ r.v = obj
    BY <1>1 DEF build_cast
  <2>. QED  BY <1>1, <2>1, GrowsReflexive DEF Makes
<1>2. CASE TypeOf(s, obj) # to
  <2>1. PICK kind, operands : /\ r.s = EmitTo(s, line, kind, operands, to) /\ r.v = newest(s) + 1
                              /\ kind \notin {"ADDRESS_OF_VARIABLE", "VARCPY"}
                              /\ operands = <<obj>>
    BY <1>2 DEF build_cast
  <2>2. operands \in Seq(VariablesIn(s)) /\ kind # "ADDRESS_OF_VARIABLE" /\ kind # "VARCPY"
    BY <2>1
  <2>3. r.s = EmitTo(s, line, kind, operands, to)
    BY <2>1
  <2>4. Temps(f) \cap ToSet(operands) \subseteq Live(f, K, s)
    BY <2>1, ShortLists
  <2>5. SetsNewest(f, K, s, to, r.s)
    BY <2>2, <2>3, <2>4, EmitToGrows
  <2>. QED  BY <2>1, <2>5 DEF Makes, SetsNewest
<1>. QED  BY <1>1, <1>2

LEMMA EmittedMakes ==
    ASSUME NEW f, NEW K, NEW s, StateFits(f, s), InOrder(f, K, s), NEW line \in Nat, NEW kind, NEW ty,
           kind # "ADDRESS_OF_VARIABLE", NEW operands \in Seq(VariablesIn(s)),
           kind = "VARCPY" => Len(operands) = 1,
           Temps(f) \cap ToSet(operands) \subseteq Live(f, K, s),
           NEW r, r = [s |-> EmitTo(s, line, kind, operands, ty), v |-> newest(s) + 1]
    PROVE  Makes(f, K, s, r)
<1>1. r.s = EmitTo(s, line, kind, operands, ty) /\ r.v = newest(s) + 1
  OBVIOUS
<1>2. SetsNewest(f, K, s, ty, r.s)
  BY <1>1, EmitToGrows
<1>. QED  BY <1>1, <1>2 DEF SetsNewest, Makes

LEMMA StructFieldGrows ==
    ASSUME NEW f, NEW K, NEW s, StateFits(f, s), InOrder(f, K, s),
           NEW obj \in VariablesIn(s), obj \in Live(f, K, s), NEW name, NEW line \in Nat,
           NEW t, t = build_struct_field_pointer(s, obj, name, line)
    PROVE  Grows(f, K, s, t) /\ newest(s) + 1 \in Live(f, K, t)
<1>1. PICK ty, kind, operands :
        /\ t = EmitNamed(add_variable(s, ty), line, kind, name, operands, newest(s) + 1)
        /\ kind = "PTR_STRUCT_FIELD" /\ operands = <<obj>>
  BY DEF build_struct_field_pointer
<1>2. operands \in Seq(VariablesIn(s)) /\ kind # "ADDRESS_OF_VARIABLE" /\ kind # "VARCPY"
  BY <1>1
<1>3. t = EmitNamed(add_variable(s, ty), line, kind, name, operands, newest(s) + 1)
  BY <1>1
<1>4. Temps(f) \cap ToSet(operands) \subseteq Live(f, K, s)
  BY <1>1, ShortLists
<1>5. SetsNewest(f, K, s, ty, t)
  BY <1>2, <1>3, <1>4, EmitNamedToGrows
<1>. QED  BY <1>5 DEF SetsNewest

LEMMA BinopMakes ==
    ASSUME NEW f, NEW K, NEW s, StateFits(f, s), InOrder(f, K, s),
           NEW lhs \in VariablesIn(s), NEW rhs \in VariablesIn(s),
           lhs \in Live(f, K, s), rhs \in Live(f, K, s),
           NEW op \in ArithmeticKinds, NEW line \in Nat, NEW ty,
           NEW r, r = build_binop(s, op, line, lhs, rhs, ty)
    PROVE  Makes(f, K, s, r)
<1>. DEFINE k == CASE op = "ADD" -> "INT_ADD"
                   [] op = "SUB" -> "INT_SUB"
                   [] op = "MUL" -> "INT_MUL"
                   [] op = "DIV" -> IF intType \in {TypeOf(s, lhs), TypeOf(s, rhs)}
                                    THEN "INT_SDIV" ELSE "INT_UDIV"
                   [] op \in {"EQ", "NE"} ->
                        IF is_pointer_type(TypeOf(s, lhs)) /\ is_pointer_type(TypeOf(s, rhs))
                        THEN "PTR_EQ" ELSE "INT_EQ"
                   [] OTHER -> "INT_LT"
            operands == IF op \in {"GT", "LE"} THEN <<rhs, lhs>> ELSE <<lhs, rhs>>
            u == EmitTo(s, line, k, operands, ty)
            w == EmitTo(u, line, "BOOL_NEGATE", <<newest(u)>>, boolType)
<1>1. k # "ADDRESS_OF_VARIABLE" /\ k # "VARCPY"
  BY DEF ArithmeticKinds
<1>2. operands \in Seq(VariablesIn(s)) /\ ToSet(operands) = {lhs, rhs}
  BY ShortLists
<1>3. r = IF op \in {"NE", "LE", "GE"} THEN [s |-> w, v |-> newest(u) + 1]
          ELSE [s |-> u, v |-> newest(u)]
  BY DEF build_binop
<1>. HIDE DEF k, operands
<1>4. Temps(f) \cap ToSet(operands) \subseteq Live(f, K, s)
  BY <1>2
<1>5. \A t : t = u => SetsNewest(f, K, s, ty, t)
  BY <1>1, <1>2, <1>4, EmitToGrows
<1>6. /\ Grows(f, K, s, u) /\ newest(u) \in Live(f, K, u) /\ newest(u) \in VariablesIn(u)
      /\ StateFits(f, u) /\ InOrder(f, K, u)
  BY <1>5, GrowsKeeps DEF SetsNewest
<1>. HIDE DEF u
<1>7. PICK negate, operand : /\ w = EmitTo(u, line, negate, operand, boolType)
                             /\ negate = "BOOL_NEGATE" /\ operand = <<newest(u)>>
  OBVIOUS
<1>8. /\ operand \in Seq(VariablesIn(u)) /\ negate # "ADDRESS_OF_VARIABLE" /\ negate # "VARCPY"
      /\ Temps(f) \cap ToSet(operand) \subseteq Live(f, K, u)
  BY <1>6, <1>7, ShortLists
<1>9. w = EmitTo(u, line, negate, operand, boolType)
  BY <1>7
<1>. HIDE DEF w
<1>10. SetsNewest(f, K, u, boolType, w)
  BY <1>6, <1>8, <1>9, EmitToGrows
<1>11. Grows(f, K, s, w) /\ newest(u) + 1 \in Live(f, K, w)
  BY <1>6, <1>10, GrowsTransitive DEF SetsNewest
<1>12. CASE op \in {"NE", "LE", "GE"}
  BY <1>3, <1>11, <1>12 DEF Makes
<1>13. CASE op \notin {"NE", "LE", "GE"}
  BY <1>3, <1>6, <1>13 DEF Makes
<1>. QED  BY <1>12, <1>13

LEMMA NewVariableGrows ==
    ASSUME NEW f, NEW K, NEW s, StateFits(f, s), InOrder(f, K, s), NEW ty
    PROVE  LET u == add_variable(s, ty)
           IN  /\ Grows(f, K, s, u) /\ StateFits(f, u) /\ InOrder(f, K, u)
               /\ VariablesIn(s) \subseteq VariablesIn(u)
               /\ newest(u) = newest(s) + 1 /\ newest(s) + 1 \in VariablesIn(u)
               /\ newest(s) + 1 \in Temps(f)
<1>1. \A u : u = add_variable(s, ty) =>
        /\ Grows(f, K, s, u) /\ newest(u) = newest(s) + 1 /\ newest(s) + 1 \in VariablesIn(u)
        /\ newest(s) + 1 \in Temps(f)
  BY GrowVariable
<1>. QED  BY <1>1, GrowsKeeps

LEMMA IncrementMakes ==
    ASSUME NEW f, NEW K, NEW s, StateFits(f, s), InOrder(f, K, s),
           NEW addr \in VariablesIn(s), addr \in Live(f, K, s), NEW kind, NEW line \in Nat,
           NEW r, r = build_increment_or_decrement(s, kind, line, addr)
    PROVE  Makes(f, K, s, r)
<1>. DEFINE ty == valuetype(TypeOf(s, addr))
            n == newest(s)
            a == add_variable(s, ty)
            b == add_variable(a, ty)
            s1 == add_variable(b, IF is_integer_type(ty) THEN ty ELSE intType)
            diff == IF kind \in {"PRE_INCREMENT", "POST_INCREMENT"} THEN 1 ELSE -1
            s2 == EmitConstant(s1, line, "integer", diff, n + 1 + 1 + 1)
            s3 == Emit(s2, line, "PTR_LOAD", <<addr>>, n + 1)
            s4 == Emit(s3, line, IF is_integer_type(ty) THEN "INT_ADD" ELSE "PTR_ADD_INT",
                       <<n + 1, n + 1 + 1 + 1>>, n + 1 + 1)
            s5 == Emit(s4, line, "PTR_STORE", <<addr, n + 1 + 1>>, NoVar)
<1>1. r.s = s5 /\ (r.v = n + 1 + 1 \/ r.v = n + 1)
  BY DEF build_increment_or_decrement
<1>2. /\ Grows(f, K, s, a) /\ StateFits(f, a) /\ InOrder(f, K, a) /\ newest(a) = n + 1
      /\ n + 1 \in VariablesIn(a) /\ n + 1 \in Temps(f) /\ addr \in VariablesIn(a)
  BY NewVariableGrows
<1>. HIDE DEF a
<1>3. /\ Grows(f, K, a, b) /\ StateFits(f, b) /\ InOrder(f, K, b) /\ newest(b) = n + 1 + 1
      /\ n + 1 + 1 \in VariablesIn(b) /\ n + 1 + 1 \in Temps(f) /\ {addr, n + 1} \subseteq VariablesIn(b)
  BY <1>2, NewVariableGrows
<1>. HIDE DEF b
<1>4. /\ Grows(f, K, b, s1) /\ StateFits(f, s1) /\ InOrder(f, K, s1)
      /\ n + 1 + 1 + 1 \in VariablesIn(s1) /\ n + 1 + 1 + 1 \in Temps(f)
      /\ {addr, n + 1, n + 1 + 1} \subseteq VariablesIn(s1)
  BY <1>3, NewVariableGrows
<1>. DEFINE x == n + 1
            y == n + 1 + 1
            z == n + 1 + 1 + 1
<1>. HIDE DEF s1, x, y, z
<1>5. /\ {addr, x, y, z} \subseteq VariablesIn(s1) /\ {x, y, z} \subseteq Temps(f)
      /\ (r.v = x \/ r.v = y)
  BY <1>1, <1>2, <1>3, <1>4 DEF x, y, z
<1>6. Grows(f, K, s, s1) /\ addr \in Live(f, K, s1)
  BY <1>2, <1>3, <1>4, GrowsTransitive, GrowsKeeps
<1>7. s2 = EmitConstant(s1, line, "integer", diff, z)
  BY DEF z
<1>8. PICK s3kind, s3operands : /\ s3 = Emit(s2, line, s3kind, s3operands, x)
                                /\ s3kind = "PTR_LOAD" /\ s3operands = <<addr>>
  BY DEF x
<1>9. PICK s4kind, s4operands : /\ s4 = Emit(s3, line, s4kind, s4operands, y)
                                /\ s4kind \in {"INT_ADD", "PTR_ADD_INT"} /\ s4operands = <<x, z>>
  BY DEF x, y, z
<1>10. PICK s5kind, s5operands : /\ s5 = Emit(s4, line, s5kind, s5operands, NoVar)
                                 /\ s5kind = "PTR_STORE" /\ s5operands = <<addr, y>>
  BY DEF y
<1>11. /\ s3kind # "ADDRESS_OF_VARIABLE" /\ s3kind # "VARCPY" /\ s3operands \in Seq(VariablesIn(s1))
       /\ s4kind # "ADDRESS_OF_VARIABLE" /\ s4kind # "VARCPY" /\ s4operands \in Seq(VariablesIn(s1))
       /\ s5kind # "ADDRESS_OF_VARIABLE" /\ s5kind # "VARCPY" /\ s5operands \in Seq(VariablesIn(s1))
  BY <1>5, <1>8, <1>9, <1>10
<1>12. ToSet(s3operands) = {addr} /\ ToSet(s4operands) = {x, z} /\ ToSet(s5operands) = {addr, y}
  BY <1>8, <1>9, <1>10, ShortLists
<1>13. s3 = Emit(s2, line, s3kind, s3operands, x)
  BY <1>8
<1>14. s4 = Emit(s3, line, s4kind, s4operands, y)
  BY <1>9
<1>15. s5 = Emit(s4, line, s5kind, s5operands, NoVar)
  BY <1>10
<1>. HIDE DEF diff, s2, s3, s4, s5
<1>16. /\ Grows(f, K, s1, s2) /\ s2.variables = s1.variables /\ z \in Live(f, K, s2)
  BY <1>4, <1>5, <1>7, EmitConstantGrows
<1>17. /\ StateFits(f, s2) /\ InOrder(f, K, s2) /\ VariablesIn(s2) = VariablesIn(s1)
       /\ {addr, z} \subseteq Live(f, K, s2)
  BY <1>6, <1>16, GrowsKeeps DEF VariablesIn
<1>18. Temps(f) \cap ToSet(s3operands) \subseteq Live(f, K, s2)
  BY <1>12, <1>17
<1>19. Grows(f, K, s2, s3) /\ s3.variables = s2.variables /\ x \in Live(f, K, s3)
  BY <1>5, <1>11, <1>13, <1>17, <1>18, EmitGrows
<1>20. /\ StateFits(f, s3) /\ InOrder(f, K, s3) /\ VariablesIn(s3) = VariablesIn(s1)
       /\ {addr, x, z} \subseteq Live(f, K, s3)
  BY <1>17, <1>19, GrowsKeeps DEF VariablesIn
<1>21. Temps(f) \cap ToSet(s4operands) \subseteq Live(f, K, s3)
  BY <1>12, <1>20
<1>22. Grows(f, K, s3, s4) /\ s4.variables = s3.variables /\ y \in Live(f, K, s4)
  BY <1>5, <1>11, <1>14, <1>20, <1>21, EmitGrows
<1>23. /\ StateFits(f, s4) /\ InOrder(f, K, s4) /\ VariablesIn(s4) = VariablesIn(s1)
       /\ {addr, x, y} \subseteq Live(f, K, s4)
  BY <1>20, <1>22, GrowsKeeps DEF VariablesIn
<1>24. Temps(f) \cap ToSet(s5operands) \subseteq Live(f, K, s4)
  BY <1>12, <1>23
<1>25. Grows(f, K, s4, s5)
  BY <1>11, <1>15, <1>23, <1>24, EmitGrows
<1>26. {x, y} \subseteq Live(f, K, s5)
  BY <1>23, <1>25, GrowsKeeps
<1>27. Grows(f, K, s1, s5)
  BY <1>16, <1>19, <1>22, <1>25, GrowsTransitive
<1>28. Grows(f, K, s, s5)
  BY <1>6, <1>27, GrowsTransitive
<1>. QED  BY <1>1, <1>5, <1>26, <1>28 DEF Makes

\* What an expression's own code returns has been set; the one exception is a
\* named variable that the cast is going to copy.
Evaluates(f, K, s, e, r) ==
    /\ Grows(f, K, s, r.s)
    /\ ~ ReturnsNothing(e) =>
            \/ r.v \in Live(f, K, r.s)
            \/ /\ r.v \notin Temps(f)
               /\ e.type_after_cast # NoType /\ TypeOf(r.s, r.v) # e.type_after_cast

LEMMA ExpressionResultEvaluates ==
    ASSUME NEW f \in Functions, NEW K, NEW s, StateFits(f, s), InOrder(f, K, s),
           NEW e \in Trees[f].expressions, e.kind \notin {"AND", "OR", "BRACE_INIT"},
           NEW args \in Seq(VariablesIn(s)), Len(args) = Len(ExpressionCalls(e)),
           ToSet(args) \subseteq Live(f, K, s), NEW r, r = ExpressionResult(s, e, args)
    PROVE  Evaluates(f, K, s, e, r)
<1>. DEFINE calls == EvaluateAll(e.operands)
<1>1. ExpressionOK(f, Trees[f], e)
  BY ExpressionLaw
<1>30. e.line \in Nat
  BY <1>1 DEF ExpressionOK
<1>2. e.kind \in ExpressionKinds /\ Len(calls) = Len(e.operands)
  BY <1>1 DEF ExpressionOK, EvaluateAll
<1>3. e.kind \in UnaryKinds => Len(e.operands) = 1
  BY <1>1 DEF ExpressionOK
<1>4. e.kind \in BinaryKinds => Len(e.operands) = 2
  BY <1>1 DEF ExpressionOK
<1>5. e.kind \in AddressableByPointer \cup IncrementKinds \cup {"ADDRESS_OF"} => Len(args) = 1
  BY DEF ExpressionCalls, AddressableByPointer, IncrementKinds
<1>6. e.kind \notin AddressableByPointer \cup IncrementKinds \cup {"ADDRESS_OF"} =>
        Len(args) = Len(e.operands)
  <2>. HIDE DEF calls
  <2>1. e.kind \notin AddressableByPointer \cup IncrementKinds \cup {"ADDRESS_OF"} =>
            ExpressionCalls(e) = calls
    BY DEF ExpressionCalls, calls
  <2>. QED  BY <1>2, <2>1
<1>7. \A i \in 1 .. Len(args) : args[i] \in VariablesIn(s) /\ args[i] \in Live(f, K, s)
  BY DEF ToSet
<1>. HIDE DEF calls
<1>8. CASE e.kind = "FUNCTION_CALL" /\ e.type = NoType
  <2>1. r.s = EmitNamed(s, e.line, "CALL", e.name, args, NoVar) /\ r.v = NoVar
    BY <1>8 DEF ExpressionResult, AddressableByPointer, ArithmeticKinds, IncrementKinds
  <2>2. PICK kind : r.s = EmitNamed(s, e.line, kind, e.name, args, NoVar) /\ kind = "CALL"
    BY <2>1
  <2>3. kind # "ADDRESS_OF_VARIABLE" /\ kind # "VARCPY"
    BY <2>2
  <2>4. r.s = EmitNamed(s, e.line, kind, e.name, args, NoVar)
    BY <2>2
  <2>5. Grows(f, K, s, r.s)
    BY <2>3, <2>4, <1>30, EmitNamedGrows
  <2>. QED  BY <1>8, <2>5 DEF Evaluates, ReturnsNothing
<1>9. CASE e.kind = "FUNCTION_CALL" /\ e.type # NoType
  <2>1. /\ r.s = EmitNamed(add_variable(s, e.type), e.line, "CALL", e.name, args, newest(s) + 1)
        /\ r.v = newest(s) + 1
    BY <1>9 DEF ExpressionResult, AddressableByPointer, ArithmeticKinds, IncrementKinds
  <2>2. PICK kind :
            /\ r.s = EmitNamed(add_variable(s, e.type), e.line, kind, e.name, args, newest(s) + 1)
            /\ kind = "CALL"
    BY <2>1
  <2>3. kind # "ADDRESS_OF_VARIABLE" /\ kind # "VARCPY"
    BY <2>2
  <2>4. r.s = EmitNamed(add_variable(s, e.type), e.line, kind, e.name, args, newest(s) + 1)
    BY <2>2
  <2>5. SetsNewest(f, K, s, e.type, r.s)
    BY <2>3, <2>4, <1>30, EmitNamedToGrows
  <2>. QED  BY <2>1, <2>5 DEF Evaluates, SetsNewest
<1>10. CASE e.kind \in AddressableByPointer \cup {"DEREFERENCE"}
  <2>1. PICK kind : /\ r = [s |-> EmitTo(s, e.line, kind, args, e.type), v |-> newest(s) + 1]
                    /\ kind = "PTR_LOAD"
    BY <1>10 DEF ExpressionResult, AddressableByPointer, ArithmeticKinds, IncrementKinds
  <2>2. kind # "ADDRESS_OF_VARIABLE" /\ kind # "VARCPY"
    BY <2>1
  <2>3. r = [s |-> EmitTo(s, e.line, kind, args, e.type), v |-> newest(s) + 1]
    BY <2>1
  <2>4. Makes(f, K, s, r)
    BY <2>2, <2>3, <1>30, EmittedMakes
  <2>. QED  BY <2>4 DEF Evaluates, Makes
<1>11. CASE e.kind = "ADDRESS_OF"
  <2>1. r.s = s /\ r.v = args[1]
    BY <1>11 DEF ExpressionResult, AddressableByPointer, ArithmeticKinds, IncrementKinds
  <2>2. args[1] \in Live(f, K, s)
    BY <1>5, <1>7, <1>11
  <2>. QED  BY <2>1, <2>2, GrowsReflexive DEF Evaluates
<1>12. CASE e.kind = "GET_VARIABLE"
  <2>. DEFINE var == find_variable(s, e.name)
  <2>1. PICK i \in DOMAIN f.variables : f.variables[i].name = e.name /\ f.variables[i].type = e.type
    BY <1>1, <1>12 DEF ExpressionOK
  <2>2. HasVariable(f, e.name)
    BY <2>1 DEF HasVariable
  <2>3. /\ var \in DOMAIN f.variables /\ var \in VariablesIn(s)
        /\ f.variables[var].name = e.name /\ TypeOf(s, var) = f.variables[var].type
    BY <2>2, FindVariable
  <2>4. var = i
    <3>. HIDE DEF var
    <3>. QED  BY <2>1, <2>3, NamesDiffer
  <2>5. TypeOf(s, var) = e.type
    BY <2>1, <2>3, <2>4
  <2>6. r = ValueOfVariable(s, e)
    BY <1>12 DEF ExpressionResult, AddressableByPointer, ArithmeticKinds, IncrementKinds
  <2>7. var \notin Temps(f)
    <3>1. DOMAIN f.variables = 1 .. Len(f.variables) /\ Len(f.variables) \in Nat
      BY Lengths
    <3>. HIDE DEF var
    <3>. QED  BY <2>3, <3>1 DEF Temps
  <2>8. CASE e.type_after_cast \in {NoType, e.type}
    <3>1. PICK kind, operands, ty :
            /\ r = [s |-> EmitTo(s, e.line, kind, operands, ty), v |-> newest(s) + 1]
            /\ kind = "VARCPY" /\ operands = <<var>> /\ ty = TypeOf(s, var)
      BY <2>6, <2>8 DEF ValueOfVariable
    <3>. HIDE DEF var
    <3>2. /\ kind # "ADDRESS_OF_VARIABLE" /\ operands \in Seq(VariablesIn(s)) /\ Len(operands) = 1
          /\ ToSet(operands) = {var}
      BY <2>3, <3>1, ShortLists
    <3>3. r = [s |-> EmitTo(s, e.line, kind, operands, ty), v |-> newest(s) + 1]
      BY <3>1
    <3>4. Temps(f) \cap ToSet(operands) \subseteq Live(f, K, s)
      BY <2>7, <3>2
    <3>5. Makes(f, K, s, r)
      BY <3>2, <3>3, <3>4, <1>30, EmittedMakes
    <3>. QED  BY <3>5 DEF Evaluates, Makes
  <2>9. CASE e.type_after_cast \notin {NoType, e.type}
    <3>1. r.s = s /\ r.v = var
      BY <2>6, <2>9 DEF ValueOfVariable
    <3>. HIDE DEF var
    <3>. QED  BY <2>5, <2>7, <2>9, <3>1, GrowsReflexive DEF Evaluates
  <2>. QED  BY <2>8, <2>9
<1>13. CASE e.kind = "CONSTANT"
  <2>. DEFINE u == add_variable(s, e.type)
  <2>1. /\ r.s = EmitConstant(u, e.line, e.name, e.number, newest(s) + 1)
        /\ r.v = newest(s) + 1
    BY <1>13 DEF ExpressionResult, AddressableByPointer, ArithmeticKinds, IncrementKinds
  <2>2. /\ Grows(f, K, s, u) /\ StateFits(f, u) /\ InOrder(f, K, u)
        /\ newest(s) + 1 \in VariablesIn(u) /\ newest(s) + 1 \in Temps(f)
    BY NewVariableGrows
  <2>. HIDE DEF u
  <2>3. Grows(f, K, u, r.s) /\ newest(s) + 1 \in Live(f, K, r.s)
    BY <2>1, <2>2, <1>30, EmitConstantGrows
  <2>4. Grows(f, K, s, r.s)
    BY <2>2, <2>3, GrowsTransitive
  <2>. QED  BY <2>1, <2>3, <2>4 DEF Evaluates
<1>14. CASE e.kind = "NOT"
  <2>1. PICK kind, ty : /\ r = [s |-> EmitTo(s, e.line, kind, args, ty), v |-> newest(s) + 1]
                        /\ kind = "BOOL_NEGATE" /\ ty = boolType
    BY <1>14 DEF ExpressionResult, AddressableByPointer, ArithmeticKinds, IncrementKinds
  <2>2. kind # "ADDRESS_OF_VARIABLE" /\ kind # "VARCPY"
    BY <2>1
  <2>3. r = [s |-> EmitTo(s, e.line, kind, args, ty), v |-> newest(s) + 1]
    BY <2>1
  <2>4. Makes(f, K, s, r)
    BY <2>2, <2>3, <1>30, EmittedMakes
  <2>. QED  BY <2>4 DEF Evaluates, Makes
<1>15. CASE e.kind \in ArithmeticKinds
  <2>1. r = build_binop(s, e.kind, e.line, args[1], args[2], e.type)
    BY <1>15 DEF ExpressionResult, AddressableByPointer, ArithmeticKinds, IncrementKinds
  <2>2. Len(args) = 2
    BY <1>4, <1>6, <1>15 DEF ArithmeticKinds, BinaryKinds, AddressableByPointer, IncrementKinds
  <2>3. /\ args[1] \in VariablesIn(s) /\ args[2] \in VariablesIn(s)
        /\ args[1] \in Live(f, K, s) /\ args[2] \in Live(f, K, s)
    BY <1>7, <2>2
  <2>4. Makes(f, K, s, r)
    BY <1>15, <2>1, <2>3, <1>30, BinopMakes
  <2>. QED  BY <2>4 DEF Evaluates, Makes
<1>16. CASE e.kind \in IncrementKinds
  <2>1. r = build_increment_or_decrement(s, e.kind, e.line, args[1])
    BY <1>16 DEF ExpressionResult, AddressableByPointer, ArithmeticKinds, IncrementKinds
  <2>2. args[1] \in VariablesIn(s) /\ args[1] \in Live(f, K, s)
    BY <1>5, <1>7, <1>16
  <2>3. Makes(f, K, s, r)
    BY <2>1, <2>2, <1>30, IncrementMakes
  <2>. QED  BY <2>3 DEF Evaluates, Makes
<1>17. CASE e.kind = "AS"
  <2>1. r = build_cast(s, args[1], e.type, e.line)
    BY <1>17 DEF ExpressionResult, AddressableByPointer, ArithmeticKinds, IncrementKinds
  <2>2. args[1] \in VariablesIn(s) /\ args[1] \in Live(f, K, s)
    BY <1>3, <1>6, <1>7, <1>17 DEF UnaryKinds, AddressableByPointer, IncrementKinds
  <2>3. Makes(f, K, s, r)
    BY <2>1, <2>2, <1>30, BuildCastMakes
  <2>. QED  BY <2>3 DEF Evaluates, Makes
<1>. QED
  BY <1>2, <1>8, <1>9, <1>10, <1>11, <1>12, <1>13, <1>14, <1>15, <1>16, <1>17
     DEF ExpressionKinds, AddressableKinds

LEMMA ConvertedMakes ==
    ASSUME NEW f \in Functions, NEW K, NEW s, NEW e \in Trees[f].expressions,
           NEW r, Returns(f, s, e, r), Evaluates(f, K, s, e, r), NEW q, q = Converted(r, e)
    PROVE  Grows(f, K, s, q.s) /\ (q.v # NoVar => q.v \in Live(f, K, q.s))
<1>1. StateFits(f, r.s) /\ InOrder(f, K, r.s) /\ Grows(f, K, s, r.s)
  BY GrowsKeeps DEF Evaluates
<1>2. NoVar \notin VariablesIn(r.s)
  BY DEF VariablesIn, NoVar
<1>6. e.line \in Nat
  BY ExpressionLaw DEF ExpressionOK
<1>3. CASE ReturnsNothing(e)
  <2>1. q = r /\ r.v = NoVar
    BY <1>3 DEF Returns, Converted
  <2>. QED  BY <1>1, <2>1
<1>4. CASE ~ ReturnsNothing(e) /\ e.type_after_cast = NoType
  <2>1. q = r /\ r.v \in Live(f, K, r.s)
    BY <1>4 DEF Evaluates, Converted
  <2>. QED  BY <1>1, <2>1
<1>5. CASE ~ ReturnsNothing(e) /\ e.type_after_cast # NoType
  <2>1. r.v \in VariablesIn(r.s)
    BY <1>5 DEF Returns
  <2>2. q = build_cast(r.s, r.v, e.type_after_cast, e.line)
    BY <1>2, <1>5, <2>1 DEF Converted
  <2>3. r.v \in Live(f, K, r.s) \/ (r.v \notin Temps(f) /\ TypeOf(r.s, r.v) # e.type_after_cast)
    BY <1>5 DEF Evaluates
  <2>4. Makes(f, K, r.s, q)
    BY <1>1, <1>6, <2>1, <2>2, <2>3, BuildCastMakes
  <2>. QED  BY <1>1, <2>4, GrowsTransitive DEF Makes
<1>. QED  BY <1>3, <1>4, <1>5

LEMMA AddressResultMakes ==
    ASSUME NEW f \in Functions, NEW K, NEW s, StateFits(f, s), InOrder(f, K, s),
           NEW e \in Trees[f].expressions, e.kind \in AddressableKinds,
           NEW args \in Seq(VariablesIn(s)), Len(args) = Len(AddressCalls(e)),
           ToSet(args) \subseteq Live(f, K, s), NEW r, r = AddressResult(s, e, args)
    PROVE  Makes(f, K, s, r)
<1>1. ExpressionOK(f, Trees[f], e)
  BY ExpressionLaw
<1>30. e.line \in Nat
  BY <1>1 DEF ExpressionOK
<1>2. Len(args) = IF e.kind = "GET_FIELD" THEN 1 ELSE Len(e.operands)
  <2>. DEFINE calls == EvaluateAll(e.operands)
  <2>1. Len(calls) = Len(e.operands)
    BY <1>1 DEF ExpressionOK, EvaluateAll
  <2>2. e.kind # "GET_FIELD" => AddressCalls(e) = calls
    BY DEF AddressCalls
  <2>3. e.kind = "GET_FIELD" => Len(AddressCalls(e)) = 1
    BY DEF AddressCalls
  <2>. HIDE DEF calls
  <2>. QED  BY <2>1, <2>2, <2>3
<1>3. e.kind # "GET_VARIABLE" => Len(args) \in {1, 2}
  <2>1. /\ e.kind \in UnaryKinds => Len(e.operands) = 1
        /\ e.kind \in BinaryKinds => Len(e.operands) = 2
    BY <1>1 DEF ExpressionOK
  <2>. QED  BY <1>2, <2>1 DEF AddressableKinds, AddressableByPointer, UnaryKinds, BinaryKinds
<1>4. e.kind # "GET_VARIABLE" => args[1] \in VariablesIn(s) /\ args[1] \in Live(f, K, s)
  BY <1>3 DEF ToSet
<1>5. CASE e.kind = "GET_VARIABLE"
  <2>. DEFINE var == find_variable(s, e.name)
  <2>1. HasVariable(f, e.name)
    BY <1>1, <1>5 DEF ExpressionOK, HasVariable
  <2>2. var \in DOMAIN f.variables /\ var \in VariablesIn(s) /\ f.variables[var].name = e.name
    BY <2>1, FindVariable
  <2>3. e.name # "return"
    BY <1>1, <1>5 DEF ExpressionOK
  <2>4. PICK ty : /\ r.s = EmitTo(s, e.line, "ADDRESS_OF_VARIABLE", <<var>>, ty)
                  /\ r.v = newest(s) + 1
    BY <1>5 DEF AddressResult
  <2>. HIDE DEF var
  <2>5. \A ins \in InstructionsIn(s) : ins.kind = "ADDRESS_OF_VARIABLE" => ins.destvar # var
    BY <2>2, ArgumentsOfAddress
  <2>6. Addressable(f, var)
    BY <2>2, <2>3 DEF Addressable
  <2>7. var \notin Temps(f)
    <3>1. DOMAIN f.variables = 1 .. Len(f.variables) /\ Len(f.variables) \in Nat
      BY Lengths
    <3>. QED  BY <2>2, <3>1 DEF Temps
  <2>8. SetsNewest(f, K, s, ty, r.s)
    BY <2>2, <2>4, <2>5, <2>6, <2>7, <1>30, AddressToGrows
  <2>. QED  BY <2>4, <2>8 DEF Makes, SetsNewest
<1>6. CASE e.kind = "DEREFERENCE"
  <2>1. r.s = s /\ r.v = args[1]
    BY <1>6 DEF AddressResult
  <2>. QED  BY <1>4, <1>6, <2>1, GrowsReflexive DEF Makes
<1>7. CASE e.kind \in {"GET_FIELD", "DEREF_AND_GET_FIELD"}
  <2>1. r.s = build_struct_field_pointer(s, args[1], e.name, e.line) /\ r.v = newest(s) + 1
    BY <1>7 DEF AddressResult
  <2>2. args[1] \in VariablesIn(s) /\ args[1] \in Live(f, K, s)
    BY <1>4, <1>7
  <2>3. Grows(f, K, s, r.s) /\ newest(s) + 1 \in Live(f, K, r.s)
    BY <2>1, <2>2, <1>30, StructFieldGrows
  <2>. QED  BY <2>1, <2>3 DEF Makes
<1>8. CASE e.kind = "INDEXING"
  <2>1. PICK kind, ty : /\ r = [s |-> EmitTo(s, e.line, kind, args, ty), v |-> newest(s) + 1]
                        /\ kind = "PTR_ADD_INT"
    BY <1>8 DEF AddressResult
  <2>2. kind # "ADDRESS_OF_VARIABLE" /\ kind # "VARCPY"
    BY <2>1
  <2>3. r = [s |-> EmitTo(s, e.line, kind, args, ty), v |-> newest(s) + 1]
    BY <2>1
  <2>4. Temps(f) \cap ToSet(args) \subseteq Live(f, K, s)
    OBVIOUS
  <2>. QED  BY <2>2, <2>3, <2>4, <1>30, EmittedMakes
<1>. QED  BY <1>5, <1>6, <1>7, <1>8 DEF AddressableKinds, AddressableByPointer
-----------------------------------------------------------------------------
(* The calls still to be made keep the order too.  A stage is what is      *)
(* known between two calls: variables that are set, how many values are on *)
(* the stack, and how many of those that are on it now are left below.     *)
Stages == {x \in [known : SUBSET Nat, height : Nat, kept : Nat] : x.kept <= x.height}
Now(f, K, s, vals) == [known |-> Live(f, K, s), height |-> Len(vals), kept |-> Len(vals)]
\* Between two statements.
Bottom == [known |-> {}, height |-> 0, kept |-> 0]

Outermost ==
    {"build_statement", "statement_result", "if_condition", "if_body_done", "if_done",
     "loop_entered", "loop_condition", "loop_body_done", "loop_repeat", "implicit_return"}
Joining == {"lhsfalse", "and_or_done"}

\* Variables a call takes from elsewhere than the stack of values.
Carried(K, item) ==
    CASE item.call = "struct_field" -> {item.ptr}
      [] item.call = "store_field" -> {item.fieldptr}
      [] item.call = "struct_done" -> {item.instance}
      [] item.call \in Joining -> K[item.c.done]
      [] OTHER -> {}
Remains(K, item, known) ==
    CASE item.call \in Outermost -> {}
      [] item.call \in Joining -> K[item.c.done]
      [] item.call = "rhs_evaluated" -> known \cup {item.c.result}
      [] OTHER -> known
\* The values that wait while a block is entered are known to be set there.
Survive(K, vals, item, x) ==
    /\ x.height <= x.kept
    /\ \A i \in 1 .. x.height : vals[i] \in K[item.c.done] \cup {NoVar}
LeftCount(item) == IF LeftFor(item) = {} THEN 0 ELSE 1
Carry(K, vals, item, x, y) ==
    /\ TakenCount(item) <= x.height
    /\ y.height = (x.height - TakenCount(item)) + LeftCount(item)
    /\ y.kept <= x.kept /\ y.kept <= x.height - TakenCount(item)
    /\ Carried(K, item) \subseteq x.known
    /\ y.known \subseteq Remains(K, item, x.known)
    /\ item.call \in Outermost => x.height = TakenCount(item)
    /\ item.call \in Joining => Survive(K, vals, item, x)
Flows(K, vals, items, x, y) ==
    \E lay \in [1 .. Len(items) + 1 -> Stages] :
        /\ lay[1] = x
        /\ lay[Len(items) + 1] = y
        /\ \A i \in 1 .. Len(items) : Carry(K, vals, items[i], lay[i], lay[i + 1])
        /\ \A i, j \in 1 .. Len(items) + 1 : i <= j => lay[j].kept <= lay[i].kept

\* What a call takes for granted of the blocks it is about.
ItemInOrder(K, item) ==
    /\ item.call \in Joining \cup {"rhs_evaluated"} => item.c.result \in K[item.c.done]
    /\ item.call = "lhsfalse" => K[item.c.done] \ {item.c.result} \subseteq K[item.c.lhsfalse]
    /\ item.call \in {"if_condition", "if_body_done", "if_done"} => K[item.done] = {}
    /\ item.call = "if_body_done" => K[item.otherwise] = {}
    /\ item.call \in {"loop_entered", "loop_condition", "loop_body_done", "loop_repeat"} =>
            \A b \in {item.l.cond, item.l.body, item.l.incr, item.l.done} : K[b] = {}

Ordered(f, K, s, items, vals) ==
    /\ InOrder(f, K, s)
    /\ \A b \in Nat \ DOMAIN s.block : K[b] = {}
    /\ \A item \in ToSet(items) : ItemInOrder(K, item)
    /\ vals \in Seq(Live(f, K, s) \cup {NoVar})
    /\ \E y : Flows(K, vals, items, Now(f, K, s, vals), y)

\* x knows all that y does.
Above(x, y) == y.known \subseteq x.known /\ y.kept <= x.kept /\ y.height = x.height
-----------------------------------------------------------------------------
LEMMA LiveIsTemps ==
    ASSUME NEW f, NEW K, NEW s, StateFits(f, s), InOrder(f, K, s)
    PROVE  Live(f, K, s) \subseteq Temps(f) /\ Live(f, K, s) \subseteq Nat
<1>1. s.current_block \in Nat
  BY Lengths DEF StateFits, InnerBlocks
<1>2. K[s.current_block] \subseteq Temps(f)
  BY <1>1 DEF InOrder
<1>3. \A q, n : ProvidedBy(f, q, n) \subseteq Temps(f)
  BY DEF ProvidedBy, Provides
<1>. QED  BY <1>2, <1>3 DEF Live, After, Temps

LEMMA NowStage ==
    ASSUME NEW f, NEW K, NEW s, StateFits(f, s), InOrder(f, K, s), NEW vals, Len(vals) \in Nat
    PROVE  /\ Now(f, K, s, vals) \in Stages
           /\ Now(f, K, s, vals).known = Live(f, K, s)
           /\ Now(f, K, s, vals).height = Len(vals) /\ Now(f, K, s, vals).kept = Len(vals)
BY LiveIsTemps DEF Now, Stages

LEMMA StageParts ==
    ASSUME NEW x \in Stages
    PROVE  /\ x.known \subseteq Nat /\ x.height \in Nat /\ x.kept \in Nat /\ x.kept <= x.height
           /\ x = [known |-> x.known, height |-> x.height, kept |-> x.kept]
BY DEF Stages

LEMMA MakeStage ==
    ASSUME NEW known \in SUBSET Nat, NEW h \in Nat, NEW k \in Nat, k <= h
    PROVE  [known |-> known, height |-> h, kept |-> k] \in Stages
BY DEF Stages

LEMMA FlowsNone ==
    ASSUME NEW K, NEW vals, NEW x \in Stages
    PROVE  Flows(K, vals, << >>, x, x)
<1>. DEFINE lay == [i \in 1 .. 1 |-> x]
<1>1. lay \in [1 .. 1 -> Stages] /\ lay[1] = x
  OBVIOUS
<1>. HIDE DEF lay
<1>2. \A i, j \in 1 .. 1 : lay[j].kept <= lay[i].kept
  BY <1>1, StageParts
<1>3. \A q : Len(q) = 0 => Flows(K, vals, q, x, x)
  BY <1>1, <1>2 DEF Flows
<1>. QED  BY <1>3

LEMMA FlowsOne ==
    ASSUME NEW K, NEW vals, NEW x \in Stages, NEW y \in Stages, NEW item, Carry(K, vals, item, x, y)
    PROVE  Flows(K, vals, <<item>>, x, y)
<1>. DEFINE lay == [i \in 1 .. 2 |-> IF i = 1 THEN x ELSE y]
<1>1. lay \in [1 .. 2 -> Stages] /\ lay[1] = x /\ lay[2] = y
  OBVIOUS
<1>. HIDE DEF lay
<1>2. Len(<<item>>) = 1 /\ <<item>>[1] = item
  OBVIOUS
<1>3. \A i \in 1 .. 1 : Carry(K, vals, <<item>>[i], lay[i], lay[i + 1])
  BY <1>1, <1>2
<1>4. y.kept <= x.kept /\ y.kept \in Nat /\ x.kept \in Nat
  BY StageParts DEF Carry
<1>5. \A i, j \in 1 .. 2 : i <= j => lay[j].kept <= lay[i].kept
  BY <1>1, <1>4
<1>. QED  BY <1>1, <1>2, <1>3, <1>5 DEF Flows

LEMMA FlowsTyped ==
    ASSUME NEW K, NEW vals, NEW q, List(q), NEW x, NEW y, Flows(K, vals, q, x, y)
    PROVE  x \in Stages /\ y \in Stages /\ y.kept <= x.kept
<1>1. Len(q) \in Nat
  BY DEF List
<1>. QED  BY <1>1 DEF Flows

LEMMA FlowsFirst ==
    ASSUME NEW K, NEW vals, NEW q, List(q), q # << >>, NEW x, NEW y, Flows(K, vals, q, x, y)
    PROVE  \E m \in Stages : Carry(K, vals, q[1], x, m) /\ Flows(K, vals, Tail(q), m, y)
<1>. DEFINE n == Len(Tail(q))
<1>1. /\ Len(q) = n + 1 /\ n \in Nat
      /\ \A i \in 1 .. n : Tail(q)[i] = q[i + 1]
  BY TailList
<1>2. PICK lay \in [1 .. Len(q) + 1 -> Stages] :
        /\ lay[1] = x /\ lay[Len(q) + 1] = y
        /\ \A i \in 1 .. Len(q) : Carry(K, vals, q[i], lay[i], lay[i + 1])
        /\ \A i, j \in 1 .. Len(q) + 1 : i <= j => lay[j].kept <= lay[i].kept
  BY DEF Flows
<1>. DEFINE later == [i \in 1 .. n + 1 |-> lay[i + 1]]
<1>. HIDE DEF n
<1>3. /\ later \in [1 .. n + 1 -> Stages]
      /\ \A i \in 1 .. n + 1 : later[i] = lay[i + 1]
  BY <1>1
<1>. HIDE DEF later
<1>4. later[1] = lay[2] /\ later[n + 1] = y
  BY <1>1, <1>2, <1>3
<1>5. \A i \in 1 .. n : Carry(K, vals, Tail(q)[i], later[i], later[i + 1])
  <2>. SUFFICES ASSUME NEW i \in 1 .. n PROVE Carry(K, vals, Tail(q)[i], later[i], later[i + 1])
    OBVIOUS
  <2>1. i + 1 \in 1 .. Len(q) /\ i \in 1 .. n + 1 /\ i + 1 \in 1 .. n + 1
    BY <1>1
  <2>2. Carry(K, vals, q[i + 1], lay[i + 1], lay[(i + 1) + 1])
    BY <1>2, <2>1
  <2>. QED  BY <1>1, <1>3, <2>1, <2>2
<1>6. \A i, j \in 1 .. n + 1 : i <= j => later[j].kept <= later[i].kept
  <2>. SUFFICES ASSUME NEW i \in 1 .. n + 1, NEW j \in 1 .. n + 1, i <= j
                PROVE  later[j].kept <= later[i].kept
    OBVIOUS
  <2>1. i + 1 \in 1 .. Len(q) + 1 /\ j + 1 \in 1 .. Len(q) + 1 /\ i + 1 <= j + 1
    BY <1>1
  <2>2. lay[j + 1].kept <= lay[i + 1].kept
    BY <1>2, <2>1
  <2>. QED  BY <1>3, <2>2
<1>7. Flows(K, vals, Tail(q), lay[2], y)
  BY <1>3, <1>4, <1>5, <1>6 DEF Flows, n
<1>8. Carry(K, vals, q[1], x, lay[2]) /\ lay[2] \in Stages
  <2>1. 1 \in 1 .. Len(q) /\ 2 \in 1 .. Len(q) + 1
    BY <1>1
  <2>2. Carry(K, vals, q[1], lay[1], lay[1 + 1])
    BY <1>2, <2>1
  <2>. QED  BY <1>2, <2>1, <2>2
<1>. QED  BY <1>7, <1>8

LEMMA FlowsConcat ==
    ASSUME NEW K, NEW vals, NEW p, List(p), NEW q, List(q), NEW x, NEW m, NEW y,
           Flows(K, vals, p, x, m), Flows(K, vals, q, m, y)
    PROVE  Flows(K, vals, p \o q, x, y)
<1>1. Len(p) \in Nat /\ Len(q) \in Nat
  BY DEF List
<1>2. /\ Len(p \o q) = Len(p) + Len(q)
      /\ \A i \in 1 .. Len(p) : (p \o q)[i] = p[i]
      /\ \A i \in 1 .. Len(q) : (p \o q)[Len(p) + i] = q[i]
  BY ConcatList
<1>3. PICK one \in [1 .. Len(p) + 1 -> Stages] :
        /\ one[1] = x /\ one[Len(p) + 1] = m
        /\ \A i \in 1 .. Len(p) : Carry(K, vals, p[i], one[i], one[i + 1])
        /\ \A i, j \in 1 .. Len(p) + 1 : i <= j => one[j].kept <= one[i].kept
  BY DEF Flows
<1>4. PICK two \in [1 .. Len(q) + 1 -> Stages] :
        /\ two[1] = m /\ two[Len(q) + 1] = y
        /\ \A i \in 1 .. Len(q) : Carry(K, vals, q[i], two[i], two[i + 1])
        /\ \A i, j \in 1 .. Len(q) + 1 : i <= j => two[j].kept <= two[i].kept
  BY DEF Flows
<1>. DEFINE n == Len(p)
            k == Len(q)
            lay == [i \in 1 .. n + k + 1 |-> IF i <= n THEN one[i] ELSE two[i - n]]
<1>. HIDE DEF n, k
<1>5. /\ n \in Nat /\ k \in Nat /\ n = Len(p) /\ k = Len(q)
  BY <1>1 DEF n, k
<1>6. /\ lay \in [1 .. n + k + 1 -> Stages]
      /\ \A i \in 1 .. n : lay[i] = one[i]
      /\ \A i \in 1 .. k + 1 : lay[n + i] = two[i]
  BY <1>3, <1>4, <1>5
<1>. HIDE DEF lay
<1>7. \A i \in 1 .. n + 1 : lay[i] = one[i]
  <2>1. lay[n + 1] = one[n + 1]
    BY <1>3, <1>4, <1>5, <1>6
  <2>. QED  BY <1>5, <1>6, <2>1
<1>8. lay[1] = x /\ lay[n + k + 1] = y
  <2>1. lay[n + (k + 1)] = two[k + 1]
    BY <1>5, <1>6
  <2>. QED  BY <1>3, <1>4, <1>5, <1>7, <2>1
<1>9. \A i \in 1 .. n + k : Carry(K, vals, (p \o q)[i], lay[i], lay[i + 1])
  <2>. SUFFICES ASSUME NEW i \in 1 .. n + k PROVE Carry(K, vals, (p \o q)[i], lay[i], lay[i + 1])
    OBVIOUS
  <2>1. CASE i <= n
    <3>1. i \in 1 .. n /\ i \in 1 .. n + 1 /\ i + 1 \in 1 .. n + 1
      BY <1>5, <2>1
    <3>. QED  BY <1>2, <1>3, <1>5, <1>7, <3>1
  <2>2. CASE ~ (i <= n)
    <3>. DEFINE j == i - n
    <3>1. j \in 1 .. k /\ j \in 1 .. k + 1 /\ j + 1 \in 1 .. k + 1 /\ i = n + j /\ i + 1 = n + (j + 1)
      BY <1>5, <2>2
    <3>. HIDE DEF j
    <3>2. Carry(K, vals, q[j], two[j], two[j + 1])
      BY <1>4, <1>5, <3>1
    <3>3. (p \o q)[i] = q[j] /\ lay[i] = two[j] /\ lay[i + 1] = two[j + 1]
      BY <1>2, <1>5, <1>6, <3>1
    <3>. QED  BY <3>2, <3>3
  <2>. QED  BY <2>1, <2>2
<1>10. Len(p \o q) = n + k
  BY <1>2, <1>5
<1>11. \A i, j \in 1 .. n + k + 1 : i <= j => lay[j].kept <= lay[i].kept
  <2>. SUFFICES ASSUME NEW i \in 1 .. n + k + 1, NEW j \in 1 .. n + k + 1, i <= j
                PROVE  lay[j].kept <= lay[i].kept
    OBVIOUS
  <2>1. CASE j <= n + 1
    <3>1. i \in 1 .. n + 1 /\ j \in 1 .. n + 1
      BY <1>5, <2>1
    <3>. QED  BY <1>3, <1>5, <1>7, <3>1
  <2>2. CASE i > n
    <3>. DEFINE a == i - n
                b == j - n
    <3>1. a \in 1 .. k + 1 /\ b \in 1 .. k + 1 /\ i = n + a /\ j = n + b /\ a <= b
      BY <1>5, <2>2
    <3>. HIDE DEF a, b
    <3>2. lay[i] = two[a] /\ lay[j] = two[b]
      BY <1>6, <3>1
    <3>. QED  BY <1>4, <1>5, <3>1, <3>2
  <2>3. CASE i <= n /\ j > n + 1
    <3>. DEFINE b == j - n
    <3>1. b \in 1 .. k + 1 /\ 1 \in 1 .. k + 1 /\ j = n + b /\ 1 <= b
          /\ i \in 1 .. n + 1 /\ n + 1 \in 1 .. n + 1 /\ i <= n + 1
      BY <1>5, <2>3
    <3>. HIDE DEF b
    <3>2. lay[i] = one[i] /\ lay[j] = two[b]
      BY <1>6, <1>7, <3>1
    <3>3. one[n + 1].kept <= one[i].kept /\ two[b].kept <= two[1].kept
      BY <1>3, <1>4, <1>5, <3>1
    <3>4. one[n + 1] = m /\ two[1] = m /\ m \in Stages /\ one[i] \in Stages /\ two[b] \in Stages
      BY <1>3, <1>4, <1>5, <3>1
    <3>5. m.kept \in Nat /\ one[i].kept \in Nat /\ two[b].kept \in Nat
      BY <3>4, StageParts
    <3>. QED  BY <3>2, <3>3, <3>4, <3>5
  <2>. QED  BY <1>5, <2>1, <2>2, <2>3
<1>. QED  BY <1>6, <1>8, <1>9, <1>10, <1>11 DEF Flows
-----------------------------------------------------------------------------
\* What a call has to do with the blocks and the values stays the same.
SameDone(K, K2, item) == item.call \in Joining => K2[item.c.done] = K[item.c.done]
SameBelow(vals, vals2, k) == \A i \in 1 .. k : vals2[i] = vals[i]

LEMMA CarryGoesOn ==
    ASSUME NEW K, NEW vals, NEW item, NEW x \in Stages, NEW y \in Stages, Carry(K, vals, item, x, y),
           NEW K2, SameDone(K, K2, item), NEW vals2, SameBelow(vals, vals2, x.kept),
           NEW w \in Stages, Above(w, x)
    PROVE  Carry(K2, vals2, item, w, y)
<1>1. /\ x.height \in Nat /\ x.kept \in Nat /\ y.kept \in Nat /\ w.kept \in Nat
      /\ x.known \subseteq w.known /\ x.kept <= w.kept /\ w.height = x.height
  BY StageParts DEF Above
<1>2. Carried(K2, item) \subseteq w.known
  <2>1. Carried(K2, item) = Carried(K, item)
    BY DEF Carried, Joining, SameDone
  <2>. QED  BY <1>1, <2>1 DEF Carry
<1>3. y.known \subseteq Remains(K2, item, w.known)
  <2>1. Remains(K, item, x.known) \subseteq Remains(K2, item, w.known)
    BY <1>1 DEF Remains, Joining, SameDone
  <2>. QED  BY <2>1 DEF Carry
<1>4. item.call \in Joining => Survive(K2, vals2, item, w)
  <2>. SUFFICES ASSUME item.call \in Joining PROVE Survive(K2, vals2, item, w)
    OBVIOUS
  <2>1. Survive(K, vals, item, x)
    BY DEF Carry
  <2>2. 1 .. x.height \subseteq 1 .. x.kept /\ x.height <= w.kept
    BY <1>1, <2>1 DEF Survive
  <2>. QED  BY <1>1, <2>1, <2>2 DEF Survive, SameDone, SameBelow
<1>. QED  BY <1>1, <1>2, <1>3, <1>4 DEF Carry

LEMMA FlowsGoOn ==
    ASSUME NEW K, NEW vals, NEW q, List(q), NEW x, NEW y, Flows(K, vals, q, x, y),
           NEW K2, \A item \in ToSet(q) : SameDone(K, K2, item),
           NEW vals2, SameBelow(vals, vals2, x.kept),
           NEW w \in Stages, Above(w, x)
    PROVE  \E z : Flows(K2, vals2, q, w, z)
<1>. DEFINE n == Len(q)
<1>1. n \in Nat /\ \A i \in 1 .. n : q[i] \in ToSet(q)
  BY DEF List, ToSet
<1>2. PICK lay \in [1 .. n + 1 -> Stages] :
        /\ lay[1] = x /\ lay[n + 1] = y
        /\ \A i \in 1 .. n : Carry(K, vals, q[i], lay[i], lay[i + 1])
        /\ \A i, j \in 1 .. n + 1 : i <= j => lay[j].kept <= lay[i].kept
  BY DEF Flows
<1>. DEFINE new == [i \in 1 .. n + 1 |-> IF i = 1 THEN w ELSE lay[i]]
<1>. HIDE DEF n
<1>3. /\ new \in [1 .. n + 1 -> Stages] /\ new[1] = w
      /\ \A i \in 1 .. n + 1 : i # 1 => new[i] = lay[i]
  BY <1>1, <1>2
<1>. HIDE DEF new
<1>4. /\ x \in Stages /\ x.kept \in Nat /\ w.kept \in Nat /\ x.kept <= w.kept
      /\ \A i \in 1 .. n + 1 : lay[i] \in Stages /\ lay[i].kept \in Nat /\ lay[i].kept <= x.kept
  <2>1. \A i \in 1 .. n + 1 : lay[i] \in Stages /\ lay[i].kept \in Nat
    BY <1>2, StageParts
  <2>2. 1 \in 1 .. n + 1
    BY <1>1
  <2>. QED  BY <1>1, <1>2, <2>1, <2>2, StageParts DEF Above
<1>5. \A i \in 1 .. n : Carry(K2, vals2, q[i], new[i], new[i + 1])
  <2>. SUFFICES ASSUME NEW i \in 1 .. n PROVE Carry(K2, vals2, q[i], new[i], new[i + 1])
    OBVIOUS
  <2>1. /\ i \in 1 .. n + 1 /\ i + 1 \in 1 .. n + 1 /\ i + 1 # 1
        /\ Carry(K, vals, q[i], lay[i], lay[i + 1]) /\ q[i] \in ToSet(q)
    BY <1>1, <1>2
  <2>2. new[i + 1] = lay[i + 1] /\ lay[i] \in Stages /\ lay[i + 1] \in Stages /\ new[i] \in Stages
    BY <1>2, <1>3, <2>1
  <2>3. Above(new[i], lay[i])
    <3>1. CASE i = 1
      BY <1>2, <1>3, <3>1
    <3>2. CASE i # 1
      BY <1>3, <1>4, <2>1, <3>2 DEF Above
    <3>. QED  BY <3>1, <3>2
  <2>4. SameBelow(vals, vals2, lay[i].kept)
    <3>1. lay[i].kept \in Nat /\ lay[i].kept <= x.kept /\ x.kept \in Nat
      BY <1>4, <2>1
    <3>. QED  BY <3>1 DEF SameBelow
  <2>5. SameDone(K, K2, q[i])
    BY <2>1
  <2>6. Carry(K2, vals2, q[i], new[i], lay[i + 1])
    BY <2>1, <2>2, <2>3, <2>4, <2>5, CarryGoesOn
  <2>. QED  BY <2>2, <2>6
<1>6. \A i, j \in 1 .. n + 1 : i <= j => new[j].kept <= new[i].kept
  <2>. SUFFICES ASSUME NEW i \in 1 .. n + 1, NEW j \in 1 .. n + 1, i <= j
                PROVE  new[j].kept <= new[i].kept
    OBVIOUS
  <2>1. CASE i # 1
    BY <1>2, <1>3, <1>1, <2>1
  <2>2. CASE i = 1 /\ j # 1
    <3>1. lay[j].kept \in Nat /\ lay[j].kept <= x.kept
      BY <1>4
    <3>. QED  BY <1>3, <1>4, <2>2, <3>1
  <2>3. CASE i = 1 /\ j = 1
    BY <1>3, <1>4, <2>3
  <2>. QED  BY <2>1, <2>2, <2>3
<1>7. Flows(K2, vals2, q, w, new[n + 1])
  BY <1>3, <1>5, <1>6 DEF Flows, n
<1>. QED  BY <1>7

\* Calls that change nothing in the layout.
LEMMA FlowsSame ==
    ASSUME NEW K, NEW vals, NEW q, List(q), NEW x \in Stages,
           \A item \in ToSet(q) : Carry(K, vals, item, x, x)
    PROVE  Flows(K, vals, q, x, x)
<1>1. Len(q) \in Nat /\ \A i \in 1 .. Len(q) : q[i] \in ToSet(q)
  BY DEF List, ToSet
<1>. DEFINE lay == [i \in 1 .. Len(q) + 1 |-> x]
<1>2. /\ lay \in [1 .. Len(q) + 1 -> Stages] /\ lay[1] = x /\ lay[Len(q) + 1] = x
      /\ \A i \in 1 .. Len(q) + 1 : lay[i] = x
      /\ \A i \in 1 .. Len(q) : lay[i] = x /\ lay[i + 1] = x
  BY <1>1
<1>. HIDE DEF lay
<1>3. \A i \in 1 .. Len(q) : Carry(K, vals, q[i], lay[i], lay[i + 1])
  BY <1>1, <1>2
<1>4. \A i, j \in 1 .. Len(q) + 1 : i <= j => lay[j].kept <= lay[i].kept
  BY <1>2, StageParts
<1>. QED  BY <1>2, <1>3, <1>4 DEF Flows

\* Calls that each leave one more value.
Operand(call) == call.call \in {"build_expression", "build_address_of_expression"}
Raised(x, k) == [known |-> x.known, height |-> x.height + k, kept |-> x.kept]

LEMMA OperandCarries ==
    ASSUME NEW K, NEW vals, NEW call, Operand(call), NEW x \in Stages
    PROVE  Carry(K, vals, call, x, Raised(x, 1)) /\ Raised(x, 1) \in Stages
<1>1. /\ TakenCount(call) = 0 /\ LeftFor(call) # {} /\ Carried(K, call) = {}
      /\ call.call \notin Outermost \cup Joining /\ Remains(K, call, x.known) = x.known
  BY DEF Operand, TakenCount, LeftFor, UsesOf, Carried, Joining, Outermost, Remains
<1>2. x.known \subseteq Nat /\ x.height \in Nat /\ x.kept \in Nat /\ x.kept <= x.height
  BY StageParts
<1>. QED  BY <1>1, <1>2 DEF Carry, LeftCount, Raised, Stages

LEMMA FlowsPush ==
    ASSUME NEW K, NEW vals, NEW q, List(q), \A call \in ToSet(q) : Operand(call), NEW x \in Stages
    PROVE  Flows(K, vals, q, x, Raised(x, Len(q))) /\ Raised(x, Len(q)) \in Stages
<1>1. Len(q) \in Nat /\ \A i \in 1 .. Len(q) : q[i] \in ToSet(q)
  BY DEF List, ToSet
<1>2. x.known \subseteq Nat /\ x.height \in Nat /\ x.kept \in Nat /\ x.kept <= x.height
  BY StageParts
<1>3. \A k \in Nat : Raised(x, k) \in Stages /\ Raised(x, k).kept = x.kept
  BY <1>2 DEF Raised, Stages
<1>4. Raised(x, 0) = x
  BY <1>2, StageParts DEF Raised
<1>5. \A k \in Nat : Raised(Raised(x, k), 1) = Raised(x, k + 1)
  BY <1>2 DEF Raised
<1>. DEFINE lay == [i \in 1 .. Len(q) + 1 |-> Raised(x, i - 1)]
<1>6. /\ lay \in [1 .. Len(q) + 1 -> Stages] /\ lay[1] = x /\ lay[Len(q) + 1] = Raised(x, Len(q))
      /\ \A i \in 1 .. Len(q) + 1 : lay[i] = Raised(x, i - 1) /\ i - 1 \in Nat
  <2>. HIDE DEF Raised
  <2>1. \A i \in 1 .. Len(q) + 1 : i - 1 \in Nat
    BY <1>1
  <2>2. lay \in [1 .. Len(q) + 1 -> Stages]
    BY <1>3, <2>1
  <2>. QED  BY <1>1, <1>4, <2>1, <2>2
<1>. HIDE DEF lay
<1>7. \A i \in 1 .. Len(q) : Carry(K, vals, q[i], lay[i], lay[i + 1])
  <2>. SUFFICES ASSUME NEW i \in 1 .. Len(q) PROVE Carry(K, vals, q[i], lay[i], lay[i + 1])
    OBVIOUS
  <2>1. i \in 1 .. Len(q) + 1 /\ i + 1 \in 1 .. Len(q) + 1 /\ i - 1 \in Nat /\ (i - 1) + 1 = (i + 1) - 1
    BY <1>1
  <2>2. lay[i] \in Stages /\ lay[i + 1] = Raised(lay[i], 1)
    BY <1>3, <1>5, <1>6, <2>1
  <2>. QED  BY <1>1, <2>2, OperandCarries
<1>8. \A i, j \in 1 .. Len(q) + 1 : i <= j => lay[j].kept <= lay[i].kept
  BY <1>2, <1>3, <1>6
<1>. QED  BY <1>1, <1>3, <1>6, <1>7, <1>8 DEF Flows

\* Operands and the call that takes their values.
LEMMA FlowsResult ==
    ASSUME NEW K, NEW vals, NEW q, List(q), \A call \in ToSet(q) : Operand(call), NEW x \in Stages,
           NEW item, NEW y \in Stages, Carry(K, vals, item, Raised(x, Len(q)), y)
    PROVE  Flows(K, vals, q \o <<item>>, x, y)
<1>1. Flows(K, vals, q, x, Raised(x, Len(q))) /\ Raised(x, Len(q)) \in Stages
  BY FlowsPush
<1>2. Flows(K, vals, <<item>>, Raised(x, Len(q)), y)
  BY <1>1, FlowsOne
<1>3. List(<<item>>)
  BY ShortLists
<1>. QED  BY <1>1, <1>2, <1>3, FlowsConcat
-----------------------------------------------------------------------------
\* The general rule for a call that is replaced by others.
LEMMA ItemInOrderStays ==
    ASSUME NEW f, NEW s, NEW item, ItemFits(f, s, item), NEW K, ItemInOrder(K, item),
           NEW K2, \A b \in DOMAIN s.block : K2[b] = K[b]
    PROVE  ItemInOrder(K2, item) /\ SameDone(K, K2, item)
<1>1. \A b \in InnerBlocks(s) : K2[b] = K[b]
  BY DEF InnerBlocks
<1>2. item.call \in Joining \cup {"rhs_evaluated"} => {item.c.lhsfalse, item.c.done} \subseteq InnerBlocks(s)
  BY DEF ItemFits, AndOrFits, Joining
<1>3. item.call \in {"if_condition", "if_body_done", "if_done"} => item.done \in InnerBlocks(s)
  BY DEF ItemFits
<1>4. item.call = "if_body_done" => item.otherwise \in InnerBlocks(s)
  BY DEF ItemFits
<1>5. item.call \in {"loop_entered", "loop_condition", "loop_body_done", "loop_repeat"} =>
        {item.l.cond, item.l.body, item.l.incr, item.l.done} \subseteq InnerBlocks(s)
  BY DEF ItemFits, LoopFits
<1>6. item.call \in Joining \cup {"rhs_evaluated"} =>
        K2[item.c.done] = K[item.c.done] /\ K2[item.c.lhsfalse] = K[item.c.lhsfalse]
  BY <1>1, <1>2
<1>7. item.call \in {"if_condition", "if_body_done", "if_done"} => K2[item.done] = K[item.done]
  BY <1>1, <1>3
<1>8. item.call = "if_body_done" => K2[item.otherwise] = K[item.otherwise]
  BY <1>1, <1>4
<1>9. item.call \in {"loop_entered", "loop_condition", "loop_body_done", "loop_repeat"} =>
        \A b \in {item.l.cond, item.l.body, item.l.incr, item.l.done} : K2[b] = K[b]
  BY <1>1, <1>5
<1>10. item.call = "lhsfalse" => item.call \in Joining
  BY DEF Joining
<1>. QED  BY <1>6, <1>7, <1>8, <1>9, <1>10 DEF ItemInOrder, SameDone

LEMMA StepOrders ==
    ASSUME NEW f, NEW K, NEW s, NEW ag, NEW vals, Construction(f, s, ag, vals),
           Ordered(f, K, s, ag, vals), ag # << >>,
           NEW K2, NEW t, StateFits(f, t), InOrder(f, K2, t), DOMAIN s.block \subseteq DOMAIN t.block,
           \A b \in DOMAIN s.block : K2[b] = K[b],
           \A b \in Nat \ DOMAIN t.block : K2[b] = {},
           NEW p, List(p), \A item \in ToSet(p) : ItemInOrder(K2, item),
           NEW vals2 \in Seq(Live(f, K2, t) \cup {NoVar}),
           \A m \in Stages : Carry(K, vals, ag[1], Now(f, K, s, vals), m) =>
                /\ SameBelow(vals, vals2, m.kept)
                /\ \E x, w : Flows(K2, vals2, p, x, w) /\ Above(Now(f, K2, t, vals2), x) /\ Above(w, m)
    PROVE  Ordered(f, K2, t, p \o Tail(ag), vals2)
<1>1. /\ List(ag) /\ List(Tail(ag)) /\ StateFits(f, s)
      /\ \A item \in ToSet(Tail(ag)) : ItemFits(f, s, item)
      /\ ToSet(ag) = {ag[1]} \cup ToSet(Tail(ag))
  BY TopLaw, TailList
<1>2. PICK y : Flows(K, vals, ag, Now(f, K, s, vals), y)
  BY DEF Ordered
<1>3. PICK m \in Stages : Carry(K, vals, ag[1], Now(f, K, s, vals), m) /\ Flows(K, vals, Tail(ag), m, y)
  BY <1>1, <1>2, FlowsFirst
<1>4. PICK x, w : Flows(K2, vals2, p, x, w) /\ Above(Now(f, K2, t, vals2), x) /\ Above(w, m)
  BY <1>3
<1>0. SameBelow(vals, vals2, m.kept)
  BY <1>3
<1>5. w \in Stages
  BY <1>4, FlowsTyped
<1>6. \A item \in ToSet(Tail(ag)) :
        ItemInOrder(K2, item) /\ SameDone(K, K2, item)
  BY <1>1, ItemInOrderStays DEF Ordered
<1>7. PICK z : Flows(K2, vals2, Tail(ag), w, z)
  BY <1>0, <1>1, <1>3, <1>4, <1>5, <1>6, FlowsGoOn
<1>8. Flows(K2, vals2, p \o Tail(ag), x, z)
  BY <1>1, <1>4, <1>7, FlowsConcat
<1>9. List(p \o Tail(ag)) /\ ToSet(p \o Tail(ag)) = ToSet(p) \cup ToSet(Tail(ag))
  BY <1>1, ConcatList
<1>10. Now(f, K2, t, vals2) \in Stages
  BY NowStage
<1>13. (\A item : SameDone(K2, K2, item)) /\ \A k : SameBelow(vals2, vals2, k)
  BY DEF SameDone, SameBelow
<1>11. \E e : Flows(K2, vals2, p \o Tail(ag), Now(f, K2, t, vals2), e)
  BY <1>4, <1>8, <1>9, <1>10, <1>13, FlowsGoOn
<1>12. \A item \in ToSet(p \o Tail(ag)) : ItemInOrder(K2, item)
  BY <1>6, <1>9
<1>. QED  BY <1>11, <1>12 DEF Ordered
-----------------------------------------------------------------------------
\* What an order says of the next call.
LEMMA TopOrdered ==
    ASSUME NEW f, NEW K, NEW s, NEW ag, NEW vals, Construction(f, s, ag, vals),
           Ordered(f, K, s, ag, vals), ag # << >>
    PROVE  /\ InOrder(f, K, s) /\ StateFits(f, s) /\ ItemInOrder(K, ag[1])
           /\ \E m \in Stages : Carry(K, vals, ag[1], Now(f, K, s, vals), m)
           /\ Len(vals) \in Nat /\ TakenCount(ag[1]) \in Nat /\ TakenCount(ag[1]) <= Len(vals)
           /\ Now(f, K, s, vals) \in Stages
           /\ Carried(K, ag[1]) \subseteq Live(f, K, s)
           /\ ag[1].call \in Outermost => Len(vals) = TakenCount(ag[1])
           /\ ag[1].call \in Joining =>
                    \A i \in 1 .. Len(vals) : vals[i] \in K[ag[1].c.done] \cup {NoVar}
<1>1. /\ List(ag) /\ StateFits(f, s) /\ ItemFits(f, s, ag[1]) /\ f \in Functions /\ vals \in Seq(Nat)
      /\ ToSet(ag) = {ag[1]} \cup ToSet(Tail(ag))
  BY TopLaw, TailList
<1>2. PICK y : Flows(K, vals, ag, Now(f, K, s, vals), y)
  BY DEF Ordered
<1>3. PICK m \in Stages : Carry(K, vals, ag[1], Now(f, K, s, vals), m)
  BY <1>1, <1>2, FlowsFirst
<1>4. InOrder(f, K, s) /\ ItemInOrder(K, ag[1])
  BY <1>1 DEF Ordered
<1>5. Len(vals) \in Nat /\ TakenCount(ag[1]) \in Nat
  BY <1>1, TakenNat
<1>6. /\ Now(f, K, s, vals) \in Stages
      /\ Now(f, K, s, vals).known = Live(f, K, s)
      /\ Now(f, K, s, vals).height = Len(vals) /\ Now(f, K, s, vals).kept = Len(vals)
  BY <1>1, <1>4, <1>5, NowStage
<1>7. /\ TakenCount(ag[1]) <= Len(vals) /\ Carried(K, ag[1]) \subseteq Live(f, K, s)
      /\ ag[1].call \in Outermost => Len(vals) = TakenCount(ag[1])
      /\ ag[1].call \in Joining => Survive(K, vals, ag[1], Now(f, K, s, vals))
  BY <1>3, <1>6 DEF Carry
<1>8. ag[1].call \in Joining =>
        \A i \in 1 .. Len(vals) : vals[i] \in K[ag[1].c.done] \cup {NoVar}
  BY <1>6, <1>7 DEF Survive
<1>. QED  BY <1>1, <1>3, <1>4, <1>5, <1>6, <1>7, <1>8

LEMMA TakenLive ==
    ASSUME NEW f, NEW K, NEW s, NEW ag, NEW vals, Construction(f, s, ag, vals),
           Ordered(f, K, s, ag, vals), ag # << >>,
           NEW args, args = TakenOf(vals, TakenCount(ag[1]))
    PROVE  /\ TakenFor(ag[1]) \in {"value", "bool"} => ToSet(args) \subseteq Live(f, K, s)
           /\ KeptOf(vals, TakenCount(ag[1])) \in Seq(Live(f, K, s) \cup {NoVar})
           /\ Len(KeptOf(vals, TakenCount(ag[1]))) = Len(vals) - TakenCount(ag[1])
           /\ SameBelow(vals, KeptOf(vals, TakenCount(ag[1])), Len(vals) - TakenCount(ag[1]))
<1>. DEFINE n == TakenCount(ag[1])
            use == TakenFor(ag[1])
            kept == KeptOf(vals, n)
<1>1. Len(vals) \in Nat /\ n \in Nat /\ n <= Len(vals)
  BY TopOrdered
<1>2. vals \in Seq(Live(f, K, s) \cup {NoVar})
  BY DEF Ordered
<1>3. Len(args) = n /\ \A i \in 1 .. n : GoodFor(s, use, args[i])
  BY TakenGood
<1>4. args = SubSeq(vals, Len(vals) - n + 1, Len(vals)) /\ kept = SubSeq(vals, 1, Len(vals) - n)
  BY DEF TakenOf, KeptOf
<1>. HIDE DEF n, use, kept
<1>5. DOMAIN args = 1 .. n /\ \A i \in 1 .. n : args[i] \in Live(f, K, s) \cup {NoVar}
  BY <1>1, <1>2, <1>4
<1>6. use \in {"value", "bool"} => \A i \in 1 .. n : args[i] # NoVar
  BY <1>3 DEF GoodFor
<1>7. use \in {"value", "bool"} => ToSet(args) \subseteq Live(f, K, s)
  BY <1>5, <1>6 DEF ToSet
<1>8. /\ kept \in Seq(Live(f, K, s) \cup {NoVar}) /\ Len(kept) = Len(vals) - n
      /\ \A i \in 1 .. Len(vals) - n : kept[i] = vals[i]
  BY <1>1, <1>2, <1>4, DropSome
<1>. QED  BY <1>7, <1>8 DEF n, use, kept, SameBelow

LEMMA NothingNew ==
    ASSUME NEW ag, List(ag), ag # << >>
    PROVE  LET p == << >> IN List(p) /\ ToSet(p) = {} /\ p \o Tail(ag) = Tail(ag)
<1>1. List(<< >>) /\ ToSet(<< >>) = {}
  BY ShortLists
<1>2. List(Tail(ag))
  BY TailList
<1>3. << >> \o Tail(ag) = Tail(ag)
  BY <1>2 DEF List
<1>. QED  BY <1>1, <1>3

\* A call within an expression that is finished.
LEMMA StepLeaves ==
    ASSUME NEW f, NEW K, NEW s, NEW ag, NEW vals, Construction(f, s, ag, vals),
           Ordered(f, K, s, ag, vals), ag # << >>, ag[1].call \notin Outermost,
           NEW t, StateFits(f, t), InOrder(f, K, t), DOMAIN t.block = DOMAIN s.block,
           Remains(K, ag[1], Live(f, K, s)) \subseteq Live(f, K, t),
           NEW vals2 \in Seq(Live(f, K, t) \cup {NoVar}),
           SameBelow(vals, vals2, Len(vals) - TakenCount(ag[1])),
           Len(vals2) = (Len(vals) - TakenCount(ag[1])) + LeftCount(ag[1])
    PROVE  Ordered(f, K, t, Tail(ag), vals2)
<1>1. /\ List(ag) /\ Now(f, K, s, vals) \in Stages /\ Len(vals) \in Nat
      /\ TakenCount(ag[1]) \in Nat /\ TakenCount(ag[1]) <= Len(vals)
  BY TopLaw, TopOrdered
<1>2. Len(vals2) \in Nat
  OBVIOUS
<1>3. /\ Now(f, K, t, vals2) \in Stages
      /\ Now(f, K, t, vals2).known = Live(f, K, t)
      /\ Now(f, K, t, vals2).height = Len(vals2) /\ Now(f, K, t, vals2).kept = Len(vals2)
  BY <1>2, NowStage
<1>4. PICK p : p = << >>
  OBVIOUS
<1>5. List(p) /\ ToSet(p) = {} /\ p \o Tail(ag) = Tail(ag)
  BY <1>1, <1>4, NothingNew
<1>6. ASSUME NEW m \in Stages, Carry(K, vals, ag[1], Now(f, K, s, vals), m)
      PROVE  /\ SameBelow(vals, vals2, m.kept)
             /\ \E x, w : Flows(K, vals2, p, x, w) /\ Above(Now(f, K, t, vals2), x) /\ Above(w, m)
  <2>1. Now(f, K, s, vals).known = Live(f, K, s) /\ Now(f, K, s, vals).height = Len(vals)
    BY DEF Now
  <2>2. /\ m.height = (Len(vals) - TakenCount(ag[1])) + LeftCount(ag[1])
        /\ m.kept <= Len(vals) - TakenCount(ag[1])
        /\ m.known \subseteq Remains(K, ag[1], Live(f, K, s))
    BY <1>6, <2>1 DEF Carry
  <2>3. m.kept \in Nat /\ LeftCount(ag[1]) \in Nat
    BY StageParts DEF LeftCount
  <2>4. Above(Now(f, K, t, vals2), m)
    BY <1>1, <1>3, <2>2, <2>3 DEF Above
  <2>5. SameBelow(vals, vals2, m.kept)
    BY <1>1, <2>2, <2>3 DEF SameBelow
  <2>6. Flows(K, vals2, p, Now(f, K, t, vals2), Now(f, K, t, vals2))
    BY <1>3, <1>4, FlowsNone
  <2>7. Above(Now(f, K, t, vals2), Now(f, K, t, vals2))
    BY <1>3 DEF Above
  <2>. QED  BY <2>4, <2>5, <2>6, <2>7
<1>7. \A b \in Nat \ DOMAIN t.block : K[b] = {}
  BY DEF Ordered
<1>8. Ordered(f, K, t, p \o Tail(ag), vals2)
  BY <1>5, <1>6, <1>7, StepOrders
<1>. QED  BY <1>5, <1>8

\* A call whose operands are evaluated first.
LEMMA StepAsks ==
    ASSUME NEW f, NEW K, NEW s, NEW ag, NEW vals, Construction(f, s, ag, vals),
           Ordered(f, K, s, ag, vals), ag # << >>, TakenCount(ag[1]) = 0,
           NEW calls, List(calls), \A call \in ToSet(calls) : Operand(call),
           NEW item, ItemInOrder(K, item), TakenCount(item) = Len(calls),
           LeftFor(item) = LeftFor(ag[1]), Carried(K, item) = {}, item.call \notin Joining,
           \A known : Remains(K, item, known) = Remains(K, ag[1], known),
           item.call \in Outermost => ag[1].call \in Outermost
    PROVE  Ordered(f, K, s, (calls \o <<item>>) \o Tail(ag), vals)
<1>. DEFINE p == calls \o <<item>>
            now == Now(f, K, s, vals)
            n == Len(calls)
<1>1. /\ InOrder(f, K, s) /\ StateFits(f, s) /\ now \in Stages /\ Len(vals) \in Nat
      /\ ag[1].call \in Outermost => Len(vals) = 0
  BY TopOrdered
<1>2. now.known = Live(f, K, s) /\ now.height = Len(vals) /\ now.kept = Len(vals)
  BY DEF Now
<1>3. List(p) /\ ToSet(p) = ToSet(calls) \cup {item}
  BY ShortLists, ConcatList
<1>4. n \in Nat
  BY DEF List
<1>. HIDE DEF p, now, n
<1>5. \A c \in ToSet(p) : ItemInOrder(K, c)
  <2>1. \A c \in ToSet(calls) : ItemInOrder(K, c)
    BY DEF Operand, ItemInOrder, Joining
  <2>. QED  BY <1>3, <2>1
<1>6. ASSUME NEW m \in Stages, Carry(K, vals, ag[1], now, m)
      PROVE  /\ SameBelow(vals, vals, m.kept)
             /\ \E x, w : Flows(K, vals, p, x, w) /\ Above(now, x) /\ Above(w, m)
  <2>1. /\ m.height = Len(vals) + LeftCount(ag[1]) /\ m.kept <= Len(vals)
        /\ m.known \subseteq Remains(K, ag[1], now.known)
    BY <1>1, <1>2, <1>6 DEF Carry
  <2>2. m.kept \in Nat /\ LeftCount(item) = LeftCount(ag[1]) /\ LeftCount(item) \in Nat
    BY StageParts DEF LeftCount
  <2>3. /\ Raised(now, n).height = Len(vals) + n /\ Raised(now, n).kept = Len(vals)
        /\ Raised(now, n).known = now.known
    BY <1>2 DEF Raised
  <2>4. Carry(K, vals, item, Raised(now, n), m)
    BY <1>1, <1>4, <2>1, <2>2, <2>3 DEF Carry, n
  <2>5. Flows(K, vals, p, now, m)
    BY <1>1, <2>4, FlowsResult DEF p, n
  <2>6. Above(now, now) /\ Above(m, m)
    BY <1>1, <1>2, <2>2 DEF Above
  <2>7. SameBelow(vals, vals, m.kept)
    BY DEF SameBelow
  <2>. QED  BY <2>5, <2>6, <2>7
<1>7. /\ \A b \in Nat \ DOMAIN s.block : K[b] = {}
      /\ vals \in Seq(Live(f, K, s) \cup {NoVar})
  BY DEF Ordered
<1>8. Ordered(f, K, s, p \o Tail(ag), vals)
  BY <1>1, <1>3, <1>5, <1>6, <1>7, StepOrders DEF now
<1>. QED  BY <1>8 DEF p

\* Between statements nothing is known and nothing waits.
LEMMA BottomStage == Bottom \in Stages /\ Bottom.known = {} /\ Bottom.height = 0 /\ Bottom.kept = 0
BY DEF Bottom, Stages

LEMMA StepOfStatement ==
    ASSUME NEW f, NEW K, NEW s, NEW ag, NEW vals, Construction(f, s, ag, vals),
           Ordered(f, K, s, ag, vals), ag # << >>, ag[1].call \in Outermost,
           LeftFor(ag[1]) = {},
           NEW t, StateFits(f, t), InOrder(f, K, t), DOMAIN s.block \subseteq DOMAIN t.block,
           NEW p, List(p), \A item \in ToSet(p) : ItemInOrder(K, item),
           Flows(K, << >>, p, Bottom, Bottom)
    PROVE  /\ KeptOf(vals, TakenCount(ag[1])) = << >>
           /\ Ordered(f, K, t, p \o Tail(ag), << >>)
<1>1. /\ Now(f, K, s, vals) \in Stages /\ Len(vals) \in Nat /\ TakenCount(ag[1]) = Len(vals)
  BY TopOrdered
<1>2. KeptOf(vals, TakenCount(ag[1])) = << >>
  <2>1. PICK kept : kept = KeptOf(vals, TakenCount(ag[1]))
    OBVIOUS
  <2>2. kept \in Seq(Live(f, K, s) \cup {NoVar}) /\ Len(kept) = Len(vals) - TakenCount(ag[1])
    BY <2>1, TakenLive
  <2>3. kept = << >>
    BY <1>1, <2>2
  <2>. QED  BY <2>1, <2>3
<1>3. PICK none : none = << >>
  OBVIOUS
<1>4. none \in Seq(Live(f, K, t) \cup {NoVar}) /\ Len(none) = 0
  BY <1>3
<1>5. /\ Now(f, K, t, none) \in Stages
      /\ Now(f, K, t, none).height = 0 /\ Now(f, K, t, none).kept = 0
  BY <1>4, NowStage
<1>6. Above(Now(f, K, t, none), Bottom)
  BY <1>5, BottomStage DEF Above
<1>7. ASSUME NEW m \in Stages, Carry(K, vals, ag[1], Now(f, K, s, vals), m)
      PROVE  /\ SameBelow(vals, none, m.kept)
             /\ \E x, w : Flows(K, none, p, x, w) /\ Above(Now(f, K, t, none), x) /\ Above(w, m)
  <2>1. Now(f, K, s, vals).height = Len(vals)
    BY DEF Now
  <2>6. LeftCount(ag[1]) = 0 /\ Remains(K, ag[1], Now(f, K, s, vals).known) = {}
    BY DEF LeftCount, Remains, Outermost, Joining
  <2>2. m.height = 0 /\ m.kept <= 0 /\ m.known = {} /\ m.kept \in Nat
    BY <1>1, <1>7, <2>1, <2>6, StageParts DEF Carry
  <2>3. Above(Bottom, m)
    BY <2>2, BottomStage DEF Above
  <2>4. SameBelow(vals, none, m.kept)
    BY <2>2 DEF SameBelow
  <2>5. Flows(K, none, p, Bottom, Bottom)
    BY <1>3
  <2>. QED  BY <1>6, <2>3, <2>4, <2>5
<1>8. \A b \in Nat \ DOMAIN t.block : K[b] = {}
  BY DEF Ordered
<1>9. Ordered(f, K, t, p \o Tail(ag), none)
  BY <1>4, <1>7, <1>8, StepOrders
<1>. QED  BY <1>2, <1>3, <1>9
-----------------------------------------------------------------------------
(* One action after the other: each keeps an order.                        *)
LEMMA OperandLists ==
    /\ \A es : \A call \in ToSet(EvaluateAll(es)) : Operand(call)
    /\ \A e : Operand(Evaluate(e)) /\ Operand(TakeAddress(e))
<1>1. \A e : Operand(Evaluate(e)) /\ Operand(TakeAddress(e))
  BY DEF Operand, Evaluate, TakeAddress
<1>2. ASSUME NEW es, NEW call \in ToSet(EvaluateAll(es))
      PROVE  Operand(call)
  <2>1. PICK q : q = EvaluateAll(es)
    OBVIOUS
  <2>2. DOMAIN q = DOMAIN es /\ \A i \in DOMAIN es : q[i] = Evaluate(es[i])
    BY <2>1 DEF EvaluateAll
  <2>3. PICK i \in DOMAIN q : call = q[i]
    BY <2>1 DEF ToSet
  <2>. QED  BY <1>1, <2>2, <2>3
<1>. QED  BY <1>1, <1>2

LEMMA ExpressionOperands ==
    ASSUME NEW e, NEW calls, calls = ExpressionCalls(e)
    PROVE  \A call \in ToSet(calls) : Operand(call)
<1>1. PICK a, b : a = TakeAddress(e) /\ b = TakeAddress(e.operands[1])
  OBVIOUS
<1>2. calls = <<a>> \/ calls = <<b>> \/ calls = EvaluateAll(e.operands)
  BY <1>1 DEF ExpressionCalls
<1>3. Operand(a) /\ Operand(b)
  BY <1>1, OperandLists
<1>. QED  BY <1>2, <1>3, OperandLists, ShortLists

LEMMA AddressOperands ==
    ASSUME NEW e, NEW calls, calls = AddressCalls(e)
    PROVE  \A call \in ToSet(calls) : Operand(call)
<1>1. PICK b : b = TakeAddress(e.operands[1])
  OBVIOUS
<1>2. calls = <<b>> \/ calls = EvaluateAll(e.operands)
  BY <1>1 DEF AddressCalls
<1>3. Operand(b)
  BY <1>1, OperandLists
<1>. QED  BY <1>2, <1>3, OperandLists, ShortLists

LEMMA StatementOperands ==
    ASSUME NEW stmt, stmt.kind \in SimpleStatements, NEW calls, calls = StatementCalls(stmt)
    PROVE  \A call \in ToSet(calls) : Operand(call)
<1>1. PICK a, b, c : a = TakeAddress(stmt.target) /\ b = Evaluate(stmt.value) /\ c = Evaluate(stmt.expression)
  OBVIOUS
<1>2. calls \in {<< >>, <<b>>, <<c>>, <<a, b>>, EvaluateAll(stmt.initial_value)}
  BY <1>1 DEF StatementCalls
<1>3. Operand(a) /\ Operand(b) /\ Operand(c)
  BY <1>1, OperandLists
<1>. QED  BY <1>2, <1>3, OperandLists, ShortLists

LEMMA BuildOperandsOrders ==
    ASSUME BuildInv, NEW K, Ordered(function, K, st, agenda, values), BuildOperands
    PROVE  Ordered(function', K, st', agenda', values')
<1>1. /\ Construction(function, st, agenda, values) /\ agenda # << >>
      /\ agenda[1].call = "build_expression"
      /\ agenda[1].e.kind \notin {"AND", "OR", "BRACE_INIT"}
      /\ function' = function /\ st' = st /\ values' = values
  BY DEF BuildInv, BuildOperands, IsNext, Top
<1>. DEFINE e == agenda[1].e
            calls == ExpressionCalls(e)
<1>2. PICK item : item = [call |-> "expression_result", e |-> e]
  OBVIOUS
<1>3. item.call = "expression_result" /\ item.e = e
  BY <1>2
<1>4. agenda' = (calls \o <<item>>) \o Tail(agenda)
  BY <1>2 DEF BuildOperands, Top, Later
<1>5. function \in Functions /\ e \in Trees[function].expressions
  BY <1>1, TopLaw DEF ItemFits
<1>6. List(calls) /\ \A call \in ToSet(calls) : Operand(call)
  BY <1>1, <1>5, ExpressionCallsLaw, ExpressionOperands
<1>7. /\ ItemInOrder(K, item) /\ TakenCount(item) = Len(calls) /\ LeftFor(item) = LeftFor(agenda[1])
      /\ Carried(K, item) = {} /\ item.call \notin Joining /\ item.call \notin Outermost
  BY <1>1, <1>3 DEF ItemInOrder, TakenCount, LeftFor, Carried, Joining, Outermost
<1>8. TakenCount(agenda[1]) = 0
  BY <1>1 DEF TakenCount
<1>9. \A known : Remains(K, item, known) = Remains(K, agenda[1], known)
  BY <1>1, <1>3 DEF Remains, Joining, Outermost
<1>. HIDE DEF e, calls
<1>10. Ordered(function, K, st, (calls \o <<item>>) \o Tail(agenda), values)
  BY <1>1, <1>6, <1>7, <1>8, <1>9, StepAsks
<1>. QED  BY <1>1, <1>4, <1>10

LEMMA BuildAddressOperandsOrders ==
    ASSUME BuildInv, NEW K, Ordered(function, K, st, agenda, values), BuildAddressOperands
    PROVE  Ordered(function', K, st', agenda', values')
<1>1. /\ Construction(function, st, agenda, values) /\ agenda # << >>
      /\ agenda[1].call = "build_address_of_expression"
      /\ function' = function /\ st' = st /\ values' = values
  BY DEF BuildInv, BuildAddressOperands, IsNext, Top
<1>. DEFINE e == agenda[1].e
            calls == AddressCalls(e)
<1>2. PICK item : item = [call |-> "address_result", e |-> e]
  OBVIOUS
<1>3. item.call = "address_result" /\ item.e = e
  BY <1>2
<1>4. agenda' = (calls \o <<item>>) \o Tail(agenda)
  BY <1>2 DEF BuildAddressOperands, Top, Later
<1>5. function \in Functions /\ e \in Trees[function].expressions
  BY <1>1, TopLaw DEF ItemFits
<1>6. List(calls) /\ \A call \in ToSet(calls) : Operand(call)
  BY <1>5, AddressCallsLaw, AddressOperands
<1>7. /\ ItemInOrder(K, item) /\ TakenCount(item) = Len(calls) /\ LeftFor(item) = LeftFor(agenda[1])
      /\ Carried(K, item) = {} /\ item.call \notin Joining /\ item.call \notin Outermost
  BY <1>1, <1>3 DEF ItemInOrder, TakenCount, LeftFor, Carried, Joining, Outermost
<1>8. TakenCount(agenda[1]) = 0
  BY <1>1 DEF TakenCount
<1>9. \A known : Remains(K, item, known) = Remains(K, agenda[1], known)
  BY <1>1, <1>3 DEF Remains, Joining, Outermost
<1>. HIDE DEF e, calls
<1>10. Ordered(function, K, st, (calls \o <<item>>) \o Tail(agenda), values)
  BY <1>1, <1>6, <1>7, <1>8, <1>9, StepAsks
<1>. QED  BY <1>1, <1>4, <1>10

LEMMA BuildStatementOperandsOrders ==
    ASSUME BuildInv, NEW K, Ordered(function, K, st, agenda, values), BuildStatementOperands
    PROVE  Ordered(function', K, st', agenda', values')
<1>1. /\ Construction(function, st, agenda, values) /\ agenda # << >>
      /\ agenda[1].call = "build_statement"
      /\ agenda[1].s.kind \in SimpleStatements
      /\ function' = function /\ st' = st /\ values' = values
  BY DEF BuildInv, BuildStatementOperands, StatementIsNext, IsNext, Top, SimpleStatements
<1>. DEFINE stmt == agenda[1].s
            calls == StatementCalls(stmt)
<1>2. PICK item : item = [call |-> "statement_result", s |-> stmt]
  OBVIOUS
<1>3. item.call = "statement_result" /\ item.s = stmt
  BY <1>2
<1>4. agenda' = (calls \o <<item>>) \o Tail(agenda)
  BY <1>2 DEF BuildStatementOperands, Top, Later
<1>5. function \in Functions /\ stmt \in Trees[function].statements
  BY <1>1, TopLaw DEF ItemFits
<1>6. List(calls) /\ \A call \in ToSet(calls) : Operand(call)
  BY <1>1, <1>5, StatementCallsLaw, StatementOperands
<1>7. /\ ItemInOrder(K, item) /\ TakenCount(item) = Len(calls) /\ LeftFor(item) = LeftFor(agenda[1])
      /\ Carried(K, item) = {} /\ item.call \notin Joining /\ agenda[1].call \in Outermost
  BY <1>1, <1>3 DEF ItemInOrder, TakenCount, LeftFor, Carried, Joining, Outermost
<1>8. TakenCount(agenda[1]) = 0
  BY <1>1 DEF TakenCount
<1>9. \A known : Remains(K, item, known) = Remains(K, agenda[1], known)
  BY <1>1, <1>3 DEF Remains, Joining, Outermost
<1>. HIDE DEF stmt, calls
<1>10. Ordered(function, K, st, (calls \o <<item>>) \o Tail(agenda), values)
  BY <1>1, <1>6, <1>7, <1>8, <1>9, StepAsks
<1>. QED  BY <1>1, <1>4, <1>10

LEMMA BuildAndOrOrders ==
    ASSUME BuildInv, NEW K, Ordered(function, K, st, agenda, values), BuildAndOr
    PROVE  Ordered(function', K, st', agenda', values')
<1>1. /\ Construction(function, st, agenda, values) /\ agenda # << >>
      /\ agenda[1].call = "build_expression"
      /\ function' = function /\ st' = st /\ values' = values
  BY DEF BuildInv, BuildAndOr, IsNext, Top
<1>2. PICK item : item = [call |-> "lhs_evaluated", e |-> agenda[1].e]
  OBVIOUS
<1>3. item.call = "lhs_evaluated" /\ item.e = agenda[1].e
  BY <1>2
<1>4. PICK call : call = Evaluate(agenda[1].e.operands[1])
  OBVIOUS
<1>5. PICK calls : calls = <<call>>
  OBVIOUS
<1>6. Operand(call) /\ List(calls) /\ Len(calls) = 1 /\ ToSet(calls) = {call}
  BY <1>4, <1>5, OperandLists, ShortLists
<1>7. agenda' = (calls \o <<item>>) \o Tail(agenda)
  <2>1. calls \o <<item>> = <<call, item>>
    BY <1>5, TwoLists
  <2>. QED  BY <1>2, <1>4, <2>1 DEF BuildAndOr, Top, Later
<1>8. /\ ItemInOrder(K, item) /\ TakenCount(item) = Len(calls) /\ LeftFor(item) = LeftFor(agenda[1])
      /\ Carried(K, item) = {} /\ item.call \notin Joining /\ item.call \notin Outermost
  BY <1>1, <1>3, <1>6 DEF ItemInOrder, TakenCount, LeftFor, Carried, Joining, Outermost
<1>9. TakenCount(agenda[1]) = 0
  BY <1>1 DEF TakenCount
<1>10. \A known : Remains(K, item, known) = Remains(K, agenda[1], known)
  BY <1>1, <1>3 DEF Remains, Joining, Outermost
<1>11. Ordered(function, K, st, (calls \o <<item>>) \o Tail(agenda), values)
  BY <1>1, <1>6, <1>8, <1>9, <1>10, StepAsks
<1>. QED  BY <1>1, <1>7, <1>11
-----------------------------------------------------------------------------
\* A call that returns a variable.
LEMMA StepReturnsOrdered ==
    ASSUME NEW f, NEW K, NEW s, NEW ag, NEW vals, Construction(f, s, ag, vals),
           Ordered(f, K, s, ag, vals), ag # << >>,
           ag[1].call \in {"expression_result", "address_result", "struct_done"},
           NEW t, Grows(f, K, s, t), NEW v \in Live(f, K, t) \cup {NoVar}
    PROVE  Ordered(f, K, t, Tail(ag), Append(KeptOf(vals, TakenCount(ag[1])), v))
<1>. DEFINE n == TakenCount(ag[1])
            kept == KeptOf(vals, n)
<1>1. /\ StateFits(f, t) /\ InOrder(f, K, t) /\ Live(f, K, s) \subseteq Live(f, K, t)
  BY GrowsKeeps
<1>2. DOMAIN t.block = DOMAIN s.block
  BY StraightKeeps, Lengths DEF Grows, Straight, Continues
<1>3. /\ kept \in Seq(Live(f, K, s) \cup {NoVar}) /\ Len(kept) = Len(vals) - n
      /\ SameBelow(vals, kept, Len(vals) - n)
  <2>1. PICK args : args = TakenOf(vals, n)
    OBVIOUS
  <2>. QED  BY <2>1, TakenLive
<1>4. Len(vals) \in Nat /\ n \in Nat /\ n <= Len(vals)
  BY TopOrdered
<1>. HIDE DEF kept, n
<1>5. PICK more : more = Append(kept, v)
  OBVIOUS
<1>6. /\ more \in Seq(Live(f, K, t) \cup {NoVar}) /\ Len(more) = (Len(vals) - n) + 1
      /\ \A i \in 1 .. Len(vals) - n : more[i] = kept[i]
  BY <1>1, <1>3, <1>4, <1>5
<1>7. SameBelow(vals, more, Len(vals) - n)
  BY <1>3, <1>6 DEF SameBelow
<1>8. LeftCount(ag[1]) = 1 /\ ag[1].call \notin Outermost
  BY DEF LeftCount, LeftFor, UsesOf, Outermost
<1>9. Remains(K, ag[1], Live(f, K, s)) \subseteq Live(f, K, t)
  BY <1>1 DEF Remains, Outermost, Joining
<1>10. Ordered(f, K, t, Tail(ag), more)
  BY <1>1, <1>2, <1>6, <1>7, <1>8, <1>9, StepLeaves DEF n
<1>. QED  BY <1>5, <1>10 DEF kept, n

\* A call that takes a value for an instruction of its own.
LEMMA StepTakesOrdered ==
    ASSUME NEW f, NEW K, NEW s, NEW ag, NEW vals, Construction(f, s, ag, vals),
           Ordered(f, K, s, ag, vals), ag # << >>,
           ag[1].call \in {"store_field", "rhs_evaluated"},
           NEW t, Grows(f, K, s, t), Remains(K, ag[1], Live(f, K, s)) \subseteq Live(f, K, t)
    PROVE  Ordered(f, K, t, Tail(ag), KeptOf(vals, TakenCount(ag[1])))
<1>. DEFINE n == TakenCount(ag[1])
            kept == KeptOf(vals, n)
<1>1. /\ StateFits(f, t) /\ InOrder(f, K, t) /\ Live(f, K, s) \subseteq Live(f, K, t)
  BY GrowsKeeps
<1>2. DOMAIN t.block = DOMAIN s.block
  BY StraightKeeps, Lengths DEF Grows, Straight, Continues
<1>3. /\ kept \in Seq(Live(f, K, s) \cup {NoVar}) /\ Len(kept) = Len(vals) - n
      /\ SameBelow(vals, kept, Len(vals) - n)
  <2>1. PICK args : args = TakenOf(vals, n)
    OBVIOUS
  <2>. QED  BY <2>1, TakenLive
<1>4. Len(vals) \in Nat /\ n \in Nat /\ n <= Len(vals)
  BY TopOrdered
<1>. HIDE DEF kept, n
<1>5. LeftCount(ag[1]) = 0 /\ ag[1].call \notin Outermost
  BY DEF LeftCount, LeftFor, Outermost
<1>6. kept \in Seq(Live(f, K, t) \cup {NoVar}) /\ Len(kept) = (Len(vals) - n) + LeftCount(ag[1])
  BY <1>1, <1>3, <1>4, <1>5
<1>7. Ordered(f, K, t, Tail(ag), kept)
  BY <1>1, <1>2, <1>3, <1>5, <1>6, StepLeaves DEF n
<1>. QED  BY <1>7 DEF kept, n
-----------------------------------------------------------------------------
LEMMA BuildExpressionOrders ==
    ASSUME BuildInv, NEW K, Ordered(function, K, st, agenda, values), BuildExpression
    PROVE  Ordered(function', K, st', agenda', values')
<1>. DEFINE e == agenda[1].e
            n == Len(ExpressionCalls(e))
            args == TakenOf(values, n)
            r == ExpressionResult(st, e, args)
            q == Converted(r, e)
<1>1. /\ Construction(function, st, agenda, values) /\ agenda # << >>
      /\ agenda[1].call = "expression_result"
      /\ function' = function /\ st' = q.s /\ values' = Append(KeptOf(values, n), q.v)
      /\ agenda' = Tail(agenda)
  BY DEF BuildInv, BuildExpression, IsNext, Top, Later, LastValues, AllBut, TakenOf, KeptOf
<1>2. /\ function \in Functions /\ e \in Trees[function].expressions /\ StateFits(function, st)
      /\ e.kind \notin {"AND", "OR", "BRACE_INIT"}
  BY <1>1, TopLaw DEF ItemFits
<1>3. TakenCount(agenda[1]) = n /\ TakenFor(agenda[1]) = "value"
  BY <1>1 DEF TakenCount, TakenFor
<1>0. InOrder(function, K, st)
  BY DEF Ordered
<1>. HIDE DEF e, n
<1>4. /\ Len(args) = n /\ args \in Seq(Nat) /\ \A i \in 1 .. n : GoodFor(st, "value", args[i])
      /\ ToSet(args) \subseteq Live(function, K, st)
  <2>1. args = TakenOf(values, TakenCount(agenda[1]))
    BY <1>3
  <2>2. ToSet(args) \subseteq Live(function, K, st)
    BY <1>1, <1>3, <2>1, TakenLive
  <2>. QED  BY <1>1, <1>3, <2>1, <2>2, TakenGood
<1>. HIDE DEF args
<1>5. args \in Seq(VariablesIn(st))
  BY <1>4, ArgumentsGood
<1>6. Returns(function, st, e, r)
  BY <1>2, <1>4, <1>5, ExpressionResultLaw DEF n
<1>7. Evaluates(function, K, st, e, r)
  BY <1>0, <1>2, <1>4, <1>5, ExpressionResultEvaluates DEF n
<1>. HIDE DEF r
<1>8. Grows(function, K, st, q.s) /\ (q.v # NoVar => q.v \in Live(function, K, q.s))
  BY <1>2, <1>6, <1>7, ConvertedMakes
<1>. HIDE DEF q
<1>9. Ordered(function, K, q.s, Tail(agenda), Append(KeptOf(values, n), q.v))
  BY <1>1, <1>3, <1>8, StepReturnsOrdered
<1>. QED  BY <1>1, <1>9

LEMMA BuildAddressOfExpressionOrders ==
    ASSUME BuildInv, NEW K, Ordered(function, K, st, agenda, values), BuildAddressOfExpression
    PROVE  Ordered(function', K, st', agenda', values')
<1>. DEFINE e == agenda[1].e
            n == Len(AddressCalls(e))
            args == TakenOf(values, n)
            r == AddressResult(st, e, args)
<1>1. /\ Construction(function, st, agenda, values) /\ agenda # << >>
      /\ agenda[1].call = "address_result"
      /\ function' = function /\ st' = r.s /\ values' = Append(KeptOf(values, n), r.v)
      /\ agenda' = Tail(agenda)
  BY DEF BuildInv, BuildAddressOfExpression, IsNext, Top, Later, LastValues, AllBut, TakenOf, KeptOf
<1>2. /\ function \in Functions /\ e \in Trees[function].expressions /\ StateFits(function, st)
      /\ e.kind \in AddressableKinds
  BY <1>1, TopLaw DEF ItemFits
<1>3. TakenCount(agenda[1]) = n /\ TakenFor(agenda[1]) = "value"
  BY <1>1 DEF TakenCount, TakenFor
<1>0. InOrder(function, K, st)
  BY DEF Ordered
<1>. HIDE DEF e, n
<1>4. /\ Len(args) = n /\ args \in Seq(Nat) /\ \A i \in 1 .. n : GoodFor(st, "value", args[i])
      /\ ToSet(args) \subseteq Live(function, K, st)
  <2>1. args = TakenOf(values, TakenCount(agenda[1]))
    BY <1>3
  <2>2. ToSet(args) \subseteq Live(function, K, st)
    BY <1>1, <1>3, <2>1, TakenLive
  <2>. QED  BY <1>1, <1>3, <2>1, <2>2, TakenGood
<1>. HIDE DEF args
<1>5. args \in Seq(VariablesIn(st))
  BY <1>4, ArgumentsGood
<1>6. Makes(function, K, st, r)
  BY <1>0, <1>2, <1>4, <1>5, AddressResultMakes DEF n
<1>. HIDE DEF r
<1>7. Ordered(function, K, r.s, Tail(agenda), Append(KeptOf(values, n), r.v))
  BY <1>1, <1>3, <1>6, StepReturnsOrdered DEF Makes
<1>. QED  BY <1>1, <1>7

LEMMA BuildStructDoneOrders ==
    ASSUME BuildInv, NEW K, Ordered(function, K, st, agenda, values), BuildStructDone
    PROVE  Ordered(function', K, st', agenda', values')
<1>. DEFINE e == agenda[1].e
            r == [s |-> st, v |-> agenda[1].instance]
            q == Converted(r, e)
<1>1. /\ Construction(function, st, agenda, values) /\ agenda # << >>
      /\ agenda[1].call = "struct_done"
      /\ function' = function /\ st' = q.s /\ values' = Append(values, q.v)
      /\ agenda' = Tail(agenda)
  BY DEF BuildInv, BuildStructDone, IsNext, Top, Later
<1>2. /\ function \in Functions /\ e \in Trees[function].expressions /\ StateFits(function, st)
      /\ e.kind = "BRACE_INIT" /\ agenda[1].instance \in VariablesIn(st)
      /\ TypeOf(st, agenda[1].instance) = e.type /\ values \in Seq(Nat)
  BY <1>1, TopLaw DEF ItemFits
<1>3. TakenCount(agenda[1]) = 0
  BY <1>1 DEF TakenCount
<1>4. Returns(function, st, e, r)
  BY <1>2, StraightReflexive DEF Returns, ReturnsNothing
<1>5. InOrder(function, K, st) /\ agenda[1].instance \in Live(function, K, st)
  <2>1. InOrder(function, K, st) /\ Carried(K, agenda[1]) \subseteq Live(function, K, st)
    BY <1>1, TopOrdered
  <2>. QED  BY <1>1, <2>1 DEF Carried, Joining
<1>6. Evaluates(function, K, st, e, r)
  BY <1>2, <1>5, GrowsReflexive DEF Evaluates
<1>. HIDE DEF r, e
<1>7. Grows(function, K, st, q.s) /\ (q.v # NoVar => q.v \in Live(function, K, q.s))
  BY <1>2, <1>4, <1>6, ConvertedMakes
<1>. HIDE DEF q
<1>8. Ordered(function, K, q.s, Tail(agenda), Append(KeptOf(values, 0), q.v))
  BY <1>1, <1>3, <1>7, StepReturnsOrdered
<1>. QED  BY <1>1, <1>2, <1>8, KeptNone

LEMMA BuildAndOrCopyOrders ==
    ASSUME BuildInv, NEW K, Ordered(function, K, st, agenda, values), BuildAndOrCopy
    PROVE  Ordered(function', K, st', agenda', values')
<1>1. PICK kind, operands, line :
        /\ st' = Emit(st, line, kind, operands, agenda[1].c.result)
        /\ kind = "VARCPY" /\ operands = <<values[Len(values)]>>
        /\ line = agenda[1].c.e.operands[2].line
  BY DEF BuildAndOrCopy, Top, Returned
<1>2. /\ Construction(function, st, agenda, values) /\ agenda # << >>
      /\ agenda[1].call = "rhs_evaluated"
      /\ function' = function /\ values' = KeptOf(values, 1) /\ agenda' = Tail(agenda)
  BY DEF BuildInv, BuildAndOrCopy, IsNext, Top, Later, AllBut, KeptOf
<1>3. TakenCount(agenda[1]) = 1 /\ TakenFor(agenda[1]) = "value"
  BY <1>2 DEF TakenCount, TakenFor
<1>4. /\ StateFits(function, st) /\ agenda[1].c.result \in VariablesIn(st)
      /\ agenda[1].c.done \in InnerBlocks(st)
      /\ AndOrFits(function, st, agenda[1].c) /\ function \in Functions
  BY <1>2, TopLaw DEF ItemFits, AndOrFits
<1>30. line \in Nat
  BY <1>1, <1>4, SideLines DEF AndOrFits
<1>5. PICK args : args = TakenOf(values, 1)
  OBVIOUS
<1>6. GoodFor(st, "value", values[Len(values)]) /\ values[Len(values)] \in Live(function, K, st)
  <2>1. Len(args) = 1 /\ args[1] = values[Len(values)] /\ GoodFor(st, "value", args[1])
        /\ ToSet(args) \subseteq Live(function, K, st) /\ args \in Seq(Nat)
    <3>1. args = TakenOf(values, TakenCount(agenda[1]))
      BY <1>3, <1>5
    <3>2. ToSet(args) \subseteq Live(function, K, st)
      BY <1>2, <1>3, <3>1, TakenLive
    <3>3. /\ Len(args) = TakenCount(agenda[1]) /\ args \in Seq(Nat)
          /\ \A i \in 1 .. TakenCount(agenda[1]) : GoodFor(st, TakenFor(agenda[1]), args[i])
          /\ TakenCount(agenda[1]) = 1 => args[1] = values[Len(values)]
      BY <1>2, <3>1, TakenGood
    <3>. QED  BY <1>3, <3>2, <3>3
  <2>. QED  BY <2>1 DEF ToSet
<1>7. operands \in Seq(VariablesIn(st)) /\ Len(operands) = 1
  BY <1>1, <1>6 DEF GoodFor
<1>8. st' = Emit(st, line, kind, operands, agenda[1].c.result) /\ kind # "ADDRESS_OF_VARIABLE"
  BY <1>1
<1>9. Temps(function) \cap ToSet(operands) \subseteq Live(function, K, st)
  BY <1>1, <1>6, ShortLists
<1>10. InOrder(function, K, st) /\ agenda[1].c.result \in K[agenda[1].c.done]
  BY <1>2, TopOrdered DEF ItemInOrder
<1>11. agenda[1].c.result \in Temps(function)
  <2>1. agenda[1].c.done \in Nat
    BY <1>4, Lengths DEF InnerBlocks
  <2>. QED  BY <1>10, <2>1 DEF InOrder
<1>12. /\ Grows(function, K, st, st') /\ agenda[1].c.result \in Live(function, K, st')
       /\ Live(function, K, st) \subseteq Live(function, K, st')
  <2>1. Grows(function, K, st, st') /\ agenda[1].c.result \in Live(function, K, st')
    BY <1>4, <1>7, <1>8, <1>9, <1>10, <1>11, <1>30, EmitGrows
  <2>. QED  BY <2>1 DEF Grows
<1>13. Remains(K, agenda[1], Live(function, K, st)) \subseteq Live(function, K, st')
  BY <1>2, <1>12 DEF Remains, Joining, Outermost
<1>14. Ordered(function, K, st', Tail(agenda), KeptOf(values, 1))
  BY <1>2, <1>3, <1>12, <1>13, StepTakesOrdered
<1>. QED  BY <1>2, <1>14

LEMMA BuildStoreFieldOrders ==
    ASSUME BuildInv, NEW K, Ordered(function, K, st, agenda, values), BuildStoreField
    PROVE  Ordered(function', K, st', agenda', values')
<1>1. PICK kind, operands, line :
        /\ st' = Emit(st, line, kind, operands, NoVar)
        /\ kind = "PTR_STORE" /\ operands = <<agenda[1].fieldptr, values[Len(values)]>>
        /\ line = agenda[1].e.line
  BY DEF BuildStoreField, Top, Returned
<1>2. /\ Construction(function, st, agenda, values) /\ agenda # << >>
      /\ agenda[1].call = "store_field"
      /\ function' = function /\ values' = KeptOf(values, 1) /\ agenda' = Tail(agenda)
  BY DEF BuildInv, BuildStoreField, IsNext, Top, Later, AllBut, KeptOf
<1>3. TakenCount(agenda[1]) = 1 /\ TakenFor(agenda[1]) = "value"
  BY <1>2 DEF TakenCount, TakenFor
<1>4. /\ StateFits(function, st) /\ agenda[1].fieldptr \in VariablesIn(st)
      /\ function \in Functions /\ agenda[1].e \in Trees[function].expressions
  BY <1>2, TopLaw DEF ItemFits
<1>30. line \in Nat
  BY <1>1, <1>4, ExpressionLaw DEF ExpressionOK
<1>5. PICK args : args = TakenOf(values, 1)
  OBVIOUS
<1>6. GoodFor(st, "value", values[Len(values)]) /\ values[Len(values)] \in Live(function, K, st)
  <2>1. Len(args) = 1 /\ args[1] = values[Len(values)] /\ GoodFor(st, "value", args[1])
        /\ ToSet(args) \subseteq Live(function, K, st) /\ args \in Seq(Nat)
    <3>1. args = TakenOf(values, TakenCount(agenda[1]))
      BY <1>3, <1>5
    <3>2. ToSet(args) \subseteq Live(function, K, st)
      BY <1>2, <1>3, <3>1, TakenLive
    <3>3. /\ Len(args) = TakenCount(agenda[1]) /\ args \in Seq(Nat)
          /\ \A i \in 1 .. TakenCount(agenda[1]) : GoodFor(st, TakenFor(agenda[1]), args[i])
          /\ TakenCount(agenda[1]) = 1 => args[1] = values[Len(values)]
      BY <1>2, <3>1, TakenGood
    <3>. QED  BY <1>3, <3>2, <3>3
  <2>. QED  BY <2>1 DEF ToSet
<1>7. operands \in Seq(VariablesIn(st))
  BY <1>1, <1>4, <1>6 DEF GoodFor
<1>8. /\ st' = Emit(st, line, kind, operands, NoVar)
      /\ kind # "ADDRESS_OF_VARIABLE" /\ kind # "VARCPY"
  BY <1>1
<1>9. InOrder(function, K, st) /\ agenda[1].fieldptr \in Live(function, K, st)
  <2>1. InOrder(function, K, st) /\ Carried(K, agenda[1]) \subseteq Live(function, K, st)
    BY <1>2, TopOrdered
  <2>. QED  BY <1>2, <2>1 DEF Carried, Joining
<1>10. Temps(function) \cap ToSet(operands) \subseteq Live(function, K, st)
  BY <1>1, <1>6, <1>9, ShortLists
<1>11. Grows(function, K, st, st')
  BY <1>4, <1>7, <1>8, <1>9, <1>10, <1>30, EmitGrows
<1>12. Remains(K, agenda[1], Live(function, K, st)) \subseteq Live(function, K, st')
  BY <1>2, <1>11 DEF Remains, Joining, Outermost, Grows
<1>13. Ordered(function, K, st', Tail(agenda), KeptOf(values, 1))
  BY <1>2, <1>3, <1>11, <1>12, StepTakesOrdered
<1>. QED  BY <1>2, <1>13
-----------------------------------------------------------------------------
\* Struct literals.
LEMMA StructStartGrows ==
    ASSUME NEW f, NEW K, NEW s, StateFits(f, s), InOrder(f, K, s),
           NEW ty, ty # boolType, NEW line \in Nat, NEW pointer,
           NEW s0, s0 = add_variable(s, ty),
           NEW s1, s1 = EmitTo(s0, line, "ADDRESS_OF_VARIABLE", <<newest(s) + 1>>, pointer),
           NEW t, t = Emit(s1, line, "PTR_MEMSET_TO_ZERO", <<newest(s1)>>, NoVar)
    PROVE  Grows(f, K, s, t) /\ {newest(s) + 1, newest(s1)} \subseteq Live(f, K, t)
<1>0. PICK v : v = newest(s) + 1
  OBVIOUS
<1>1. /\ Straight(f, s, s0) /\ s0.block = s.block /\ v \in VariablesIn(s0) /\ TypeOf(s0, v) = ty
      /\ newest(s0) = newest(s) + 1
  BY <1>0, NewVariable
<1>2. Grows(f, K, s, s0) /\ StateFits(f, s0) /\ InOrder(f, K, s0) /\ v \in Temps(f)
  BY <1>0, NewVariableGrows
<1>3. newest(s) \in Nat
  BY Lengths DEF newest
<1>4. \A ins \in InstructionsIn(s0) : ins.kind = "ADDRESS_OF_VARIABLE" => ins.destvar # v
  <2>1. InstructionsIn(s0) = InstructionsIn(s)
    BY <1>1 DEF InstructionsIn
  <2>2. \A ins \in InstructionsIn(s) : ins.destvar \in VariablesIn(s) \cup {NoVar}
    BY DEF StateFits, BlocksFit, InstructionFits
  <2>3. v \notin VariablesIn(s) /\ v # NoVar
    BY <1>0, <1>3 DEF newest, VariablesIn, NoVar
  <2>. QED  BY <2>1, <2>2, <2>3
<1>5. Addressable(f, v)
  <2>1. v \notin DOMAIN f.variables
    BY <1>0, <1>3, Lengths DEF newest
  <2>. QED  BY <2>1 DEF Addressable
<1>6. s1 = EmitTo(s0, line, "ADDRESS_OF_VARIABLE", <<v>>, pointer)
  BY <1>0
<1>7. SetsNewest(f, K, s0, pointer, s1) /\ v \in Live(f, K, s1)
  BY <1>1, <1>2, <1>4, <1>5, <1>6, AddressToGrows
<1>8. PICK p : p = newest(s1)
  OBVIOUS
<1>9. /\ Grows(f, K, s0, s1) /\ p \in VariablesIn(s1) /\ p \in Live(f, K, s1)
      /\ StateFits(f, s1) /\ InOrder(f, K, s1)
  BY <1>7, <1>8, GrowsKeeps DEF SetsNewest
<1>10. PICK kind, operands, none : /\ kind = "PTR_MEMSET_TO_ZERO" /\ operands = <<p>> /\ none = NoVar
                                   /\ t = Emit(s1, line, kind, operands, none)
  BY <1>8
<1>11. /\ operands \in Seq(VariablesIn(s1)) /\ kind # "ADDRESS_OF_VARIABLE" /\ kind # "VARCPY"
       /\ none \in VariablesIn(s1) \cup {NoVar} /\ t = Emit(s1, line, kind, operands, none)
       /\ Temps(f) \cap ToSet(operands) \subseteq Live(f, K, s1)
  BY <1>9, <1>10, ShortLists
<1>12. Grows(f, K, s1, t)
  BY <1>9, <1>11, EmitGrows
<1>13. {v, p} \subseteq Live(f, K, t)
  BY <1>7, <1>9, <1>12 DEF Grows
<1>14. Grows(f, K, s0, t)
  BY <1>9, <1>12, GrowsTransitive
<1>15. Grows(f, K, s, t)
  BY <1>2, <1>14, GrowsTransitive
<1>. QED  BY <1>0, <1>8, <1>13, <1>15

\* The values on the stack stay known while code is added.
LEMMA ValuesStay ==
    ASSUME NEW f, NEW K, NEW s, NEW t, Grows(f, K, s, t), NEW vals \in Seq(Live(f, K, s) \cup {NoVar})
    PROVE  /\ vals \in Seq(Live(f, K, t) \cup {NoVar}) /\ Len(vals) \in Nat
           /\ Now(f, K, t, vals) \in Stages
           /\ Now(f, K, t, vals).known = Live(f, K, t)
           /\ Now(f, K, t, vals).height = Len(vals) /\ Now(f, K, t, vals).kept = Len(vals)
<1>1. Live(f, K, s) \subseteq Live(f, K, t) /\ StateFits(f, t) /\ InOrder(f, K, t)
  BY GrowsKeeps
<1>2. vals \in Seq(Live(f, K, t) \cup {NoVar}) /\ Len(vals) \in Nat
  BY <1>1
<1>. QED  BY <1>1, <1>2, NowStage
-----------------------------------------------------------------------------
LEMMA BuildStructInitOrders ==
    ASSUME BuildInv, NEW K, Ordered(function, K, st, agenda, values), BuildStructInit
    PROVE  Ordered(function', K, st', agenda', values')
<1>. DEFINE e == agenda[1].e
            s0 == add_variable(st, e.type)
            s1 == EmitTo(s0, e.line, "ADDRESS_OF_VARIABLE", <<newest(st) + 1>>, get_pointer_type(e.type))
            ptr == newest(s1)
            fields == [i \in DOMAIN e.operands |->
                            [call |-> "struct_field", e |-> e, i |-> i, ptr |-> ptr]]
            now == Now(function, K, st', values)
<1>1. PICK last : last = [call |-> "struct_done", e |-> e, instance |-> newest(st) + 1]
  OBVIOUS
<1>2. last.call = "struct_done" /\ last.e = e /\ last.instance = newest(st) + 1
  BY <1>1
<1>3. PICK q : q = fields \o <<last>>
  OBVIOUS
<1>4. /\ Construction(function, st, agenda, values) /\ agenda # << >>
      /\ agenda[1].call = "build_expression" /\ e.kind = "BRACE_INIT"
      /\ function' = function /\ values' = values
      /\ st' = Emit(s1, e.line, "PTR_MEMSET_TO_ZERO", <<newest(s1)>>, NoVar)
  BY DEF BuildInv, BuildStructInit, IsNext, Top
<1>5. agenda' = q \o Tail(agenda)
  BY <1>1, <1>3 DEF BuildStructInit, Top, Later
<1>6. /\ function \in Functions /\ StateFits(function, st)
      /\ e \in Trees[function].expressions
  BY <1>4, TopLaw DEF ItemFits
<1>7. e.type # boolType
  <2>1. ExpressionOK(function, Trees[function], e)
    BY <1>6, ExpressionLaw
  <2>. QED  BY <1>4, <2>1 DEF ExpressionOK
<1>8. InOrder(function, K, st) /\ values \in Seq(Live(function, K, st) \cup {NoVar})
      /\ (\A b \in Nat \ DOMAIN st.block : K[b] = {})
  BY DEF Ordered
<1>30. e.line \in Nat
  BY <1>6, ExpressionLaw DEF ExpressionOK
<1>. HIDE DEF e, s0, s1
<1>9. /\ Straight(function, st, st') /\ ptr \in VariablesIn(st')
  BY <1>4, <1>6, <1>30, StructStartLaw DEF s0, s1
<1>10. Grows(function, K, st, st') /\ {newest(st) + 1, ptr} \subseteq Live(function, K, st')
  BY <1>4, <1>6, <1>7, <1>8, <1>30, StructStartGrows DEF s0, s1
<1>. HIDE DEF ptr
<1>11. List(fields)
  BY <1>6, <1>9, FieldsLaw
<1>12. ASSUME NEW item \in ToSet(fields)
       PROVE  item.call = "struct_field" /\ item.ptr = ptr
  <2>1. PICK i \in DOMAIN e.operands : item = [call |-> "struct_field", e |-> e, i |-> i, ptr |-> ptr]
    BY <1>12 DEF ToSet
  <2>. QED  BY <2>1
<1>. HIDE DEF fields
<1>13. PICK lasts : lasts = <<last>>
  OBVIOUS
<1>14. List(lasts) /\ ToSet(lasts) = {last} /\ q = fields \o lasts
  BY <1>3, <1>13, ShortLists
<1>15. List(q) /\ ToSet(q) = ToSet(fields) \cup {last}
  <2>1. List(fields \o lasts) /\ ToSet(fields \o lasts) = ToSet(fields) \cup ToSet(lasts)
    BY <1>11, <1>14, ConcatList
  <2>. QED  BY <1>14, <2>1
<1>16. /\ values \in Seq(Live(function, K, st') \cup {NoVar}) /\ Len(values) \in Nat
       /\ now \in Stages
       /\ now.known = Live(function, K, st')
       /\ now.height = Len(values) /\ now.kept = Len(values)
  <2>1. Grows(function, K, st, st') /\ values \in Seq(Live(function, K, st) \cup {NoVar})
    BY <1>8, <1>10
  <2>. QED  BY <2>1, ValuesStay
<1>. HIDE DEF now
<1>17. ASSUME NEW item \in ToSet(fields)
       PROVE  Carry(K, values, item, now, now) /\ ItemInOrder(K, item)
  <2>1. item.call = "struct_field" /\ item.ptr = ptr
    BY <1>12
  <2>2. /\ TakenCount(item) = 0 /\ LeftCount(item) = 0 /\ Carried(K, item) = {ptr}
        /\ item.call \notin Outermost /\ item.call \notin Joining
        /\ Remains(K, item, now.known) = now.known
    BY <2>1 DEF TakenCount, LeftFor, LeftCount, Carried, Outermost, Joining, Remains
  <2>3. ItemInOrder(K, item)
    BY <2>1 DEF ItemInOrder, Joining
  <2>4. Carry(K, values, item, now, now)
    BY <1>10, <1>16, <2>2 DEF Carry
  <2>. QED  BY <2>3, <2>4
<1>18. ItemInOrder(K, last)
  BY <1>2 DEF ItemInOrder, Joining
<1>19. \A item \in ToSet(q) : ItemInOrder(K, item)
  BY <1>15, <1>17, <1>18
<1>20. Flows(K, values, fields, now, now)
  BY <1>11, <1>16, <1>17, FlowsSame
<1>21. StateFits(function, st') /\ InOrder(function, K, st') /\ DOMAIN st'.block = DOMAIN st.block
       /\ Live(function, K, st) \subseteq Live(function, K, st')
  <2>1. StateFits(function, st') /\ InOrder(function, K, st')
        /\ Live(function, K, st) \subseteq Live(function, K, st')
    BY <1>10, GrowsKeeps
  <2>2. Len(st.block) = Len(st'.block)
    BY <1>9 DEF Straight
  <2>. QED  BY <1>6, <2>1, <2>2, Lengths
<1>22. ASSUME NEW m \in Stages, Carry(K, values, agenda[1], Now(function, K, st, values), m)
       PROVE  /\ SameBelow(values, values, m.kept)
              /\ \E x, w : Flows(K, values, q, x, w) /\ Above(now, x) /\ Above(w, m)
  <2>1. /\ TakenCount(agenda[1]) = 0 /\ LeftCount(agenda[1]) = 1
        /\ Remains(K, agenda[1], Live(function, K, st)) = Live(function, K, st)
    BY <1>4 DEF TakenCount, LeftFor, LeftCount, UsesOf, Remains, Outermost, Joining
  <2>2. /\ m.height = Len(values) + 1 /\ m.kept <= Len(values) /\ m.kept \in Nat
        /\ m.known \subseteq Live(function, K, st)
    BY <1>16, <1>22, <2>1, StageParts DEF Carry, Now
  <2>3. /\ TakenCount(last) = 0 /\ LeftCount(last) = 1 /\ Carried(K, last) = {newest(st) + 1}
        /\ last.call \notin Outermost /\ last.call \notin Joining
        /\ Remains(K, last, now.known) = now.known
    BY <1>2 DEF TakenCount, LeftFor, LeftCount, UsesOf, Carried, Outermost, Joining, Remains
  <2>4. Carry(K, values, last, now, m)
    BY <1>10, <1>16, <1>21, <2>2, <2>3 DEF Carry
  <2>5. Flows(K, values, lasts, now, m)
    BY <1>13, <1>16, <2>4, FlowsOne
  <2>6. Flows(K, values, q, now, m)
    BY <1>11, <1>14, <1>20, <2>5, FlowsConcat
  <2>7. Above(now, now) /\ Above(m, m)
    BY <1>16, <2>2 DEF Above
  <2>8. SameBelow(values, values, m.kept)
    BY DEF SameBelow
  <2>. QED  BY <2>6, <2>7, <2>8
<1>23. \A b \in Nat \ DOMAIN st'.block : K[b] = {}
  BY <1>8, <1>21
<1>24. Ordered(function, K, st', q \o Tail(agenda), values)
  BY <1>4, <1>15, <1>16, <1>19, <1>21, <1>22, <1>23, StepOrders DEF now
<1>. QED  BY <1>4, <1>5, <1>24

LEMMA BuildStructFieldOrders ==
    ASSUME BuildInv, NEW K, Ordered(function, K, st, agenda, values), BuildStructField
    PROVE  Ordered(function', K, st', agenda', values')
<1>. DEFINE e == agenda[1].e
            arg == e.operands[agenda[1].i]
            now == Now(function, K, st', values)
<1>1. PICK call, item : /\ call = Evaluate(arg)
                        /\ item = [call |-> "store_field", e |-> e, fieldptr |-> newest(st) + 1]
  OBVIOUS
<1>2. item.call = "store_field" /\ item.fieldptr = newest(st) + 1 /\ Operand(call)
  BY <1>1, OperandLists
<1>3. PICK q : q = <<call, item>>
  OBVIOUS
<1>4. /\ Construction(function, st, agenda, values) /\ agenda # << >>
      /\ agenda[1].call = "struct_field"
      /\ function' = function /\ values' = values
  BY DEF BuildInv, BuildStructField, IsNext, Top
<1>5. agenda' = q \o Tail(agenda)
  BY <1>1, <1>3 DEF BuildStructField, Top, Later
<1>6. PICK name, line : /\ st' = build_struct_field_pointer(st, agenda[1].ptr, name, line)
                        /\ line = arg.line
  BY DEF BuildStructField, Top
<1>7. /\ function \in Functions /\ StateFits(function, st)
      /\ e \in Trees[function].expressions /\ agenda[1].i \in DOMAIN e.operands
      /\ agenda[1].ptr \in VariablesIn(st)
  BY <1>4, TopLaw DEF ItemFits
<1>30. line \in Nat
  BY <1>6, <1>7, OperandLines
<1>8. InOrder(function, K, st) /\ values \in Seq(Live(function, K, st) \cup {NoVar})
      /\ (\A b \in Nat \ DOMAIN st.block : K[b] = {})
  BY DEF Ordered
<1>9. agenda[1].ptr \in Live(function, K, st)
  <2>1. Carried(K, agenda[1]) \subseteq Live(function, K, st)
    BY <1>4, TopOrdered
  <2>. QED  BY <1>4, <2>1 DEF Carried, Joining
<1>. HIDE DEF e, arg
<1>10. Grows(function, K, st, st') /\ newest(st) + 1 \in Live(function, K, st')
  BY <1>6, <1>7, <1>8, <1>9, <1>30, StructFieldGrows
<1>11. PICK calls : calls = <<call>>
  OBVIOUS
<1>12. List(calls) /\ ToSet(calls) = {call} /\ Len(calls) = 1
  BY <1>11, ShortLists
<1>13. List(q) /\ ToSet(q) = {call, item} /\ q = calls \o <<item>>
  BY <1>3, <1>11, ShortLists, TwoLists
<1>14. /\ values \in Seq(Live(function, K, st') \cup {NoVar}) /\ Len(values) \in Nat
       /\ now \in Stages
       /\ now.known = Live(function, K, st')
       /\ now.height = Len(values) /\ now.kept = Len(values)
  <2>1. Grows(function, K, st, st') /\ values \in Seq(Live(function, K, st) \cup {NoVar})
    BY <1>8, <1>10
  <2>. QED  BY <2>1, ValuesStay
<1>. HIDE DEF now
<1>15. \A i \in ToSet(q) : ItemInOrder(K, i)
  <2>1. ItemInOrder(K, item) /\ ItemInOrder(K, call)
    BY <1>2 DEF ItemInOrder, Joining, Operand
  <2>. QED  BY <1>13, <2>1
<1>16. StateFits(function, st') /\ InOrder(function, K, st') /\ DOMAIN st'.block = DOMAIN st.block
       /\ Live(function, K, st) \subseteq Live(function, K, st')
  <2>1. StateFits(function, st') /\ InOrder(function, K, st')
        /\ Live(function, K, st) \subseteq Live(function, K, st')
    BY <1>10, GrowsKeeps
  <2>2. Len(st.block) = Len(st'.block)
    BY <1>10 DEF Grows, Straight
  <2>. QED  BY <1>7, <2>1, <2>2, Lengths
<1>17. ASSUME NEW m \in Stages, Carry(K, values, agenda[1], Now(function, K, st, values), m)
       PROVE  /\ SameBelow(values, values, m.kept)
              /\ \E x, w : Flows(K, values, q, x, w) /\ Above(now, x) /\ Above(w, m)
  <2>1. /\ TakenCount(agenda[1]) = 0 /\ LeftCount(agenda[1]) = 0
        /\ Remains(K, agenda[1], Live(function, K, st)) = Live(function, K, st)
    BY <1>4 DEF TakenCount, LeftFor, LeftCount, Remains, Outermost, Joining
  <2>2. /\ m.height = Len(values) /\ m.kept <= Len(values) /\ m.kept \in Nat
        /\ m.known \subseteq Live(function, K, st)
    BY <1>14, <1>17, <2>1, StageParts DEF Carry, Now
  <2>3. /\ TakenCount(item) = 1 /\ LeftCount(item) = 0 /\ Carried(K, item) = {newest(st) + 1}
        /\ item.call \notin Outermost /\ item.call \notin Joining
        /\ Remains(K, item, now.known) = now.known
    BY <1>2 DEF TakenCount, LeftFor, LeftCount, Carried, Outermost, Joining, Remains
  <2>4. /\ Raised(now, 1).height = Len(values) + 1 /\ Raised(now, 1).kept = Len(values)
        /\ Raised(now, 1).known = now.known
    BY <1>14 DEF Raised
  <2>5. Carry(K, values, item, Raised(now, 1), m)
    BY <1>10, <1>14, <1>16, <2>2, <2>3, <2>4 DEF Carry
  <2>6. Flows(K, values, q, now, m)
    BY <1>2, <1>12, <1>13, <1>14, <2>5, FlowsResult
  <2>7. Above(now, now) /\ Above(m, m)
    BY <1>14, <2>2 DEF Above
  <2>8. SameBelow(values, values, m.kept)
    BY DEF SameBelow
  <2>. QED  BY <2>6, <2>7, <2>8
<1>18. \A b \in Nat \ DOMAIN st'.block : K[b] = {}
  BY <1>8, <1>16
<1>19. Ordered(function, K, st', q \o Tail(agenda), values)
  BY <1>4, <1>13, <1>14, <1>15, <1>16, <1>17, <1>18, StepOrders DEF now
<1>. QED  BY <1>4, <1>5, <1>19
-----------------------------------------------------------------------------
\* What is known of blocks that are not there yet may be chosen later.
LEMMA OrderRename ==
    ASSUME NEW f, NEW K, NEW s, StateFits(f, s), InOrder(f, K, s),
           NEW K2 \in [Nat -> SUBSET Temps(f)], \A b \in DOMAIN s.block : K2[b] = K[b]
    PROVE  /\ InOrder(f, K2, s)
           /\ \A b \in DOMAIN s.block : After(f, K2, s, b) = After(f, K, s, b)
           /\ Live(f, K2, s) = Live(f, K, s)
<1>1. \A b \in DOMAIN s.block : After(f, K2, s, b) = After(f, K, s, b)
  BY DEF After
<1>2. /\ StartBlock \in DOMAIN s.block /\ EndBlock \in DOMAIN s.block /\ s.current_block \in DOMAIN s.block
      /\ ToSet(s.breakstack) \subseteq DOMAIN s.block /\ ToSet(s.continuestack) \subseteq DOMAIN s.block
  <2>1. /\ StartBlock \in DOMAIN s.block /\ EndBlock \in DOMAIN s.block
    BY Lengths DEF StateFits, BlocksFit, StartBlock, EndBlock
  <2>2. ToSet(s.breakstack) \subseteq InnerBlocks(s) /\ ToSet(s.continuestack) \subseteq InnerBlocks(s)
        /\ s.current_block \in InnerBlocks(s)
    BY DEF StateFits, ToSet
  <2>. QED  BY <2>1, <2>2 DEF InnerBlocks
<1>3. ASSUME NEW b \in DOMAIN s.block PROVE BlockInOrder(f, K2, s, b)
  <2>1. BlockInOrder(f, K, s, b) /\ TargetsFit(s, s.block[b])
    BY DEF InOrder
  <2>2. \A t \in {s.block[b].iftrue, s.block[b].iffalse} : t # NoBlock => K2[t] = K[t]
    BY <2>1 DEF TargetsFit
  <2>3. After(f, K2, s, b) = After(f, K, s, b) /\ K2[b] = K[b]
    BY <1>1
  <2>4. JumpInOrder(K2, s.block[b], After(f, K2, s, b))
    BY <2>1, <2>2, <2>3 DEF BlockInOrder, JumpInOrder
  <2>. QED  BY <2>1, <2>3, <2>4 DEF BlockInOrder
<1>4. K2[StartBlock] = {} /\ K2[EndBlock] = {}
      /\ \A b \in ToSet(s.breakstack) \cup ToSet(s.continuestack) : K2[b] = {}
  BY <1>2 DEF InOrder
<1>5. InOrder(f, K2, s)
  BY <1>3, <1>4 DEF InOrder
<1>. QED  BY <1>1, <1>2, <1>5 DEF Live

LEMMA OrderAddBlock ==
    ASSUME NEW f, NEW K, NEW s, StateFits(f, s), InOrder(f, K, s), NEW t, t = add_block(s)
    PROVE  /\ InOrder(f, K, t) /\ StateFits(f, t) /\ Live(f, K, t) = Live(f, K, s)
           /\ DOMAIN t.block = DOMAIN s.block \cup {newblock(s) + 1}
           /\ newblock(t) = newblock(s) + 1 /\ newblock(s) + 1 \notin DOMAIN s.block
           /\ newblock(s) \in Nat /\ newblock(s) + 1 \in InnerBlocks(t)
           /\ InnerBlocks(s) \subseteq InnerBlocks(t)
           /\ t.variables = s.variables /\ t.current_block = s.current_block
           /\ t.breakstack = s.breakstack /\ t.continuestack = s.continuestack
           /\ \A b \in DOMAIN s.block : t.block[b] = s.block[b]
<1>. DEFINE new == newblock(s) + 1
<1>1. /\ Continues(f, s, t) /\ newblock(t) = new
      /\ t.current_block = s.current_block /\ t.variables = s.variables
      /\ t.breakstack = s.breakstack /\ t.continuestack = s.continuestack
      /\ InnerBlocks(t) = InnerBlocks(s) \cup {new}
  BY AddBlock
<1>2. StateFits(f, t)
  BY <1>1 DEF Continues
<1>3. /\ newblock(s) \in Nat /\ DOMAIN s.block = 1 .. newblock(s) /\ DOMAIN t.block = 1 .. new
  BY <1>1, <1>2, Lengths DEF newblock
<1>4. t.block[new] = EmptyBlock /\ \A b \in DOMAIN s.block : t.block[b] = s.block[b]
  <2>1. t.block = Append(s.block, EmptyBlock) /\ List(s.block)
    BY DEF add_block, StateFits, BlocksFit
  <2>. QED  BY <1>3, <2>1, AppendList DEF newblock
<1>5. DOMAIN t.block = DOMAIN s.block \cup {new} /\ new \notin DOMAIN s.block /\ new \in Nat
  BY <1>3
<1>. HIDE DEF new
<1>6. \A b \in DOMAIN s.block : After(f, K, t, b) = After(f, K, s, b)
  BY <1>4 DEF After
<1>7. s.current_block \in DOMAIN s.block
  BY DEF StateFits, InnerBlocks
<1>8. Live(f, K, t) = Live(f, K, s)
  BY <1>1, <1>6, <1>7 DEF Live
<1>9. ASSUME NEW b \in DOMAIN t.block PROVE BlockInOrder(f, K, t, b) /\ TargetsFit(t, t.block[b])
  <2>1. CASE b \in DOMAIN s.block
    <3>1. BlockInOrder(f, K, s, b) /\ TargetsFit(s, s.block[b])
      BY <2>1 DEF InOrder
    <3>. QED  BY <1>4, <1>5, <1>6, <2>1, <3>1 DEF BlockInOrder, TargetsFit
  <2>2. CASE b = new
    <3>1. t.block[b].instructions = << >> /\ t.block[b].iftrue = NoBlock /\ t.block[b].iffalse = NoBlock
      BY <1>4, <2>2 DEF EmptyBlock
    <3>2. \A q : q = << >> => CodeInOrder(f, q, K[b])
      BY DEF CodeInOrder
    <3>3. CodeInOrder(f, t.block[b].instructions, K[b])
      BY <3>1, <3>2
    <3>. QED  BY <3>1, <3>3 DEF BlockInOrder, JumpInOrder, TargetsFit
  <2>. QED  BY <1>5, <2>1, <2>2
<1>10. InstructionsIn(t) = InstructionsIn(s)
  <2>1. t.block[new].instructions = << >> /\ ToSet(<< >>) = {}
    BY <1>4, ShortLists DEF EmptyBlock
  <2>2. InstructionsIn(t) = (UNION {ToSet(t.block[b].instructions) : b \in DOMAIN s.block})
                                \cup ToSet(t.block[new].instructions)
    BY <1>5 DEF InstructionsIn
  <2>3. ToSet(t.block[new].instructions) = {}
    BY <2>1
  <2>. QED  BY <1>4, <2>2, <2>3 DEF InstructionsIn
<1>11. NoBoolPointers(f, t)
  BY <1>1, <1>10 DEF InOrder, NoBoolPointers, TypeOf
<1>12. InOrder(f, K, t)
  BY <1>1, <1>9, <1>11 DEF InOrder
<1>. QED  BY <1>1, <1>2, <1>3, <1>4, <1>5, <1>8, <1>12 DEF new

\* What a jump needs: its target's variables, and the one that decides it.
JumpKnows(K, known, branchvar, iftrue, iffalse) ==
    /\ K[iftrue] \subseteq known /\ K[iffalse] \subseteq known
    /\ iftrue # iffalse => branchvar \in known

LEMMA OrderJump ==
    ASSUME NEW f, NEW K, NEW s, StateFits(f, s), InOrder(f, K, s), NEW branchvar,
           NEW iftrue \in DOMAIN s.block, NEW iffalse \in DOMAIN s.block,
           Decides(s, branchvar, iftrue, iffalse),
           JumpKnows(K, Live(f, K, s), branchvar, iftrue, iffalse),
           NEW t, t = WithJump(s, branchvar, iftrue, iffalse)
    PROVE  /\ InOrder(f, K, t) /\ StateFits(f, t) /\ DOMAIN t.block = DOMAIN s.block
           /\ \A b \in DOMAIN s.block : After(f, K, t, b) = After(f, K, s, b)
<1>. DEFINE c == s.current_block
<1>1. /\ Continues(f, s, t) /\ Len(t.block) = Len(s.block) /\ t.variables = s.variables
      /\ t.current_block = s.current_block
      /\ t.breakstack = s.breakstack /\ t.continuestack = s.continuestack
  BY SetJump
<1>2. StateFits(f, t) /\ DOMAIN t.block = DOMAIN s.block
  BY <1>1, Lengths DEF Continues
<1>3. /\ c \in DOMAIN s.block
      /\ DOMAIN s.block[c] = {"instructions", "branchvar", "iftrue", "iffalse"}
      /\ DOMAIN s = {"block", "variables", "structs", "current_block", "breakstack", "continuestack"}
  BY DEF StateFits, BlocksFit, InnerBlocks
<1>4. /\ t.block[c].iftrue = iftrue /\ t.block[c].iffalse = iffalse
      /\ t.block[c].branchvar = branchvar
      /\ t.block[c].instructions = s.block[c].instructions
      /\ \A b \in DOMAIN s.block : b # c => t.block[b] = s.block[b]
  <2>1. t.block = [s.block EXCEPT ![c] = [s.block[c] EXCEPT !.branchvar = branchvar, !.iftrue = iftrue,
                                                            !.iffalse = iffalse]]
    BY <1>3 DEF WithJump
  <2>2. \A b \in DOMAIN s.block : b # c => t.block[b] = s.block[b]
    BY <2>1
  <2>. QED  BY <1>3, <2>1, <2>2
<1>. HIDE DEF c
<1>5. \A b \in DOMAIN s.block : t.block[b].instructions = s.block[b].instructions
  BY <1>4
<1>6. \A b \in DOMAIN s.block : After(f, K, t, b) = After(f, K, s, b)
  BY <1>5 DEF After
<1>7. ASSUME NEW b \in DOMAIN t.block PROVE BlockInOrder(f, K, t, b) /\ TargetsFit(t, t.block[b])
  <2>1. BlockInOrder(f, K, s, b) /\ TargetsFit(s, s.block[b]) /\ b \in DOMAIN s.block
    BY <1>2 DEF InOrder
  <2>2. CodeInOrder(f, t.block[b].instructions, K[b])
    BY <1>5, <2>1 DEF BlockInOrder
  <2>3. CASE b # c
    BY <1>2, <1>4, <1>6, <2>1, <2>2, <2>3 DEF BlockInOrder, TargetsFit
  <2>4. CASE b = c
    <3>1. After(f, K, t, b) = Live(f, K, s)
      BY <1>6, <2>1, <2>4 DEF Live, c
    <3>2. JumpInOrder(K, t.block[b], After(f, K, t, b))
      BY <1>4, <2>4, <3>1 DEF JumpInOrder, JumpKnows
    <3>3. TargetsFit(t, t.block[b])
      BY <1>2, <1>4, <2>4 DEF TargetsFit
    <3>. QED  BY <2>2, <3>2, <3>3 DEF BlockInOrder
  <2>. QED  BY <2>3, <2>4
<1>8. NoBoolPointers(f, t)
  <2>1. InstructionsIn(t) = InstructionsIn(s)
    BY <1>2, <1>5 DEF InstructionsIn
  <2>. QED  BY <1>1, <2>1 DEF InOrder, NoBoolPointers, TypeOf
<1>9. InOrder(f, K, t)
  BY <1>1, <1>7, <1>8 DEF InOrder
<1>. QED  BY <1>2, <1>6, <1>9

\* Code goes on in another block that is there.
Arrives(f, K, s, t, new) ==
    /\ InOrder(f, K, t) /\ StateFits(f, t) /\ DOMAIN t.block = DOMAIN s.block
    /\ \A b \in DOMAIN s.block : After(f, K, t, b) = After(f, K, s, b)
    /\ t.current_block = new /\ K[new] \subseteq Live(f, K, t)
    /\ t.breakstack = s.breakstack /\ t.continuestack = s.continuestack
    /\ t.variables = s.variables

LEMMA OrderAddJump ==
    ASSUME NEW f, NEW K, NEW s, StateFits(f, s), InOrder(f, K, s), NEW branchvar,
           NEW iftrue \in DOMAIN s.block, NEW iffalse \in DOMAIN s.block,
           Decides(s, branchvar, iftrue, iffalse),
           JumpKnows(K, Live(f, K, s), branchvar, iftrue, iffalse),
           NEW new \in InnerBlocks(s),
           NEW t, t = add_jump(s, branchvar, iftrue, iffalse, new)
    PROVE  Arrives(f, K, s, t, new)
<1>1. PICK u : u = WithJump(s, branchvar, iftrue, iffalse)
  OBVIOUS
<1>2. /\ InOrder(f, K, u) /\ StateFits(f, u) /\ DOMAIN u.block = DOMAIN s.block
      /\ \A b \in DOMAIN s.block : After(f, K, u, b) = After(f, K, s, b)
  BY <1>1, OrderJump
<1>3. u.breakstack = s.breakstack /\ u.continuestack = s.continuestack /\ u.variables = s.variables
  BY <1>1, SetJump
<1>4. new # NoBlock /\ InnerBlocks(u) = InnerBlocks(s)
  BY <1>2, Lengths DEF InnerBlocks, NoBlock
<1>5. t = [u EXCEPT !.current_block = new]
  BY <1>1, <1>4 DEF add_jump, WithJump
<1>6. /\ DOMAIN t = DOMAIN u /\ t.block = u.block /\ t.variables = u.variables
      /\ t.current_block = new
      /\ t.breakstack = u.breakstack /\ t.continuestack = u.continuestack
  BY <1>2, <1>5 DEF StateFits
<1>7. u.breakstack \in Seq(InnerBlocks(u)) /\ u.continuestack \in Seq(InnerBlocks(u))
  BY <1>2 DEF StateFits
<1>8. Continues(f, u, t)
  BY <1>2, <1>4, <1>6, <1>7, Reframe
<1>9. \A b \in ToSet(t.breakstack) \cup ToSet(t.continuestack) : K[b] = {}
  BY <1>2, <1>6 DEF InOrder
<1>10. InOrder(f, K, t) /\ \A b : After(f, K, t, b) = After(f, K, u, b)
  BY <1>2, <1>6, <1>8, <1>9, SameCodeInOrder
<1>11. StateFits(f, t)
  BY <1>8 DEF Continues
<1>12. K[new] \subseteq Live(f, K, t)
  BY <1>6 DEF Live, After
<1>13. \A b \in DOMAIN s.block : After(f, K, t, b) = After(f, K, s, b)
  BY <1>2, <1>10
<1>14. DOMAIN t.block = DOMAIN s.block
  BY <1>2, <1>6
<1>. QED  BY <1>3, <1>6, <1>10, <1>11, <1>12, <1>13, <1>14 DEF Arrives

LEMMA OrderGoto ==
    ASSUME NEW f, NEW K, NEW s, StateFits(f, s), InOrder(f, K, s),
           NEW target \in DOMAIN s.block, K[target] \subseteq Live(f, K, s),
           NEW new \in InnerBlocks(s), NEW t, t = Goto(s, target, new)
    PROVE  Arrives(f, K, s, t, new)
<1>1. PICK v, i, j : t = add_jump(s, v, i, j, new) /\ i = target /\ j = target
  BY DEF Goto
<1>2. i \in DOMAIN s.block /\ j \in DOMAIN s.block /\ t = add_jump(s, v, i, j, new)
  BY <1>1
<1>3. Decides(s, v, i, j) /\ JumpKnows(K, Live(f, K, s), v, i, j)
  BY <1>1 DEF Decides, JumpKnows
<1>. QED  BY <1>2, <1>3, OrderAddJump

\* A jump out, to go on in a new block.
LEMMA OrderJumpAway ==
    ASSUME NEW f, NEW K, NEW s, StateFits(f, s), InOrder(f, K, s),
           NEW target \in DOMAIN s.block, K[target] \subseteq Live(f, K, s),
           NEW t, t = Goto(s, target, NoBlock)
    PROVE  InOrder(f, K, t) /\ StateFits(f, t) /\ DOMAIN s.block \subseteq DOMAIN t.block
<1>1. PICK u : u = WithJump(s, NoVar, target, target)
  OBVIOUS
<1>2. Decides(s, NoVar, target, target) /\ JumpKnows(K, Live(f, K, s), NoVar, target, target)
  BY DEF Decides, JumpKnows
<1>3. InOrder(f, K, u) /\ StateFits(f, u) /\ DOMAIN u.block = DOMAIN s.block
  BY <1>1, <1>2, OrderJump
<1>4. PICK w : w = add_block(u)
  OBVIOUS
<1>5. /\ InOrder(f, K, w) /\ StateFits(f, w) /\ DOMAIN u.block \subseteq DOMAIN w.block
      /\ newblock(u) + 1 \in InnerBlocks(w)
  BY <1>3, <1>4, OrderAddBlock
<1>6. t = [w EXCEPT !.current_block = newblock(u) + 1]
  BY <1>1, <1>4 DEF Goto, add_jump, WithJump
<1>7. /\ DOMAIN t = DOMAIN w /\ t.block = w.block /\ t.variables = w.variables
      /\ t.current_block = newblock(u) + 1
      /\ t.breakstack = w.breakstack /\ t.continuestack = w.continuestack
  BY <1>5, <1>6 DEF StateFits
<1>8. w.breakstack \in Seq(InnerBlocks(w)) /\ w.continuestack \in Seq(InnerBlocks(w))
  BY <1>5 DEF StateFits
<1>9. Continues(f, w, t)
  BY <1>5, <1>7, <1>8, Reframe
<1>10. \A b \in ToSet(t.breakstack) \cup ToSet(t.continuestack) : K[b] = {}
  BY <1>5, <1>7 DEF InOrder
<1>11. InOrder(f, K, t)
  BY <1>5, <1>7, <1>9, <1>10, SameCodeInOrder
<1>12. StateFits(f, t)
  BY <1>9 DEF Continues
<1>. QED  BY <1>3, <1>5, <1>7, <1>11, <1>12
-----------------------------------------------------------------------------
\* Calls that leave nothing behind and, on the way, know of nothing.
Settles(K, q) ==
    /\ List(q) /\ \A item \in ToSet(q) : ItemInOrder(K, item)
    /\ Flows(K, << >>, q, Bottom, Bottom)
Level(item) == item.call \in Outermost /\ TakenCount(item) = 0 /\ LeftFor(item) = {}

LEMMA LevelCarries ==
    ASSUME NEW K, NEW item, Level(item)
    PROVE  Carry(K, << >>, item, Bottom, Bottom)
<1>1. /\ TakenCount(item) = 0 /\ LeftCount(item) = 0 /\ item.call \in Outermost
      /\ item.call \notin Joining
  BY DEF Level, LeftCount, Outermost, Joining
<1>2. Carried(K, item) = {} /\ Remains(K, item, {}) = {}
  BY <1>1 DEF Carried, Remains, Outermost, Joining
<1>. QED  BY <1>1, <1>2, BottomStage DEF Carry

LEMMA LevelSettles ==
    ASSUME NEW K, NEW q, List(q), \A item \in ToSet(q) : Level(item) /\ ItemInOrder(K, item)
    PROVE  Settles(K, q)
<1>1. \A item \in ToSet(q) : Carry(K, << >>, item, Bottom, Bottom)
  BY LevelCarries
<1>2. Flows(K, << >>, q, Bottom, Bottom)
  BY <1>1, BottomStage, FlowsSame
<1>. QED  BY <1>2 DEF Settles

LEMMA SettlesConcat ==
    ASSUME NEW K, NEW p, Settles(K, p), NEW q, Settles(K, q)
    PROVE  Settles(K, p \o q)
<1>1. List(p) /\ List(q) /\ Flows(K, << >>, p, Bottom, Bottom) /\ Flows(K, << >>, q, Bottom, Bottom)
  BY DEF Settles
<1>2. Flows(K, << >>, p \o q, Bottom, Bottom)
  BY <1>1, FlowsConcat
<1>3. List(p \o q) /\ ToSet(p \o q) = ToSet(p) \cup ToSet(q)
  BY <1>1, ConcatList
<1>. QED  BY <1>2, <1>3 DEF Settles

LEMMA BodySettles ==
    ASSUME NEW f, NEW K, NEW b, BodyOK(Trees[f], b), NEW q, q = Body(b)
    PROVE  Settles(K, q)
<1>1. PICK s : s = FreshState(f)
  OBVIOUS
<1>2. List(q)
  BY <1>1, BodyLaw
<1>3. ASSUME NEW item \in ToSet(q) PROVE Level(item) /\ ItemInOrder(K, item)
  <2>1. PICK i \in DOMAIN b : item = Statement(b[i])
    BY <1>3 DEF Body, ToSet
  <2>2. item.call = "build_statement"
    BY <2>1 DEF Statement
  <2>. QED  BY <2>2 DEF Level, TakenCount, LeftFor, Outermost, ItemInOrder, Joining
<1>. QED  BY <1>2, <1>3, LevelSettles

LEMMA BodyThenSettles ==
    ASSUME NEW f, NEW K, NEW b, BodyOK(Trees[f], b), NEW item, Level(item), ItemInOrder(K, item),
           NEW q, q = Body(b) \o <<item>>
    PROVE  Settles(K, q)
<1>1. PICK body : body = Body(b)
  OBVIOUS
<1>2. Settles(K, body)
  BY <1>1, BodySettles
<1>3. List(<<item>>) /\ ToSet(<<item>>) = {item}
  BY ShortLists
<1>4. Settles(K, <<item>>)
  BY <1>3, LevelSettles
<1>. QED  BY <1>1, <1>2, <1>4, SettlesConcat

\* A condition and what is done with it.
LEMMA ConditionSettles ==
    ASSUME NEW K, NEW e, NEW item, item.call \in {"if_condition", "loop_condition"}, ItemInOrder(K, item),
           NEW q, q = <<Evaluate(e), item>>
    PROVE  Settles(K, q)
<1>1. PICK call : call = Evaluate(e)
  OBVIOUS
<1>2. PICK calls : calls = <<call>>
  OBVIOUS
<1>3. Operand(call)
  BY <1>1, OperandLists
<1>4. List(calls) /\ ToSet(calls) = {call} /\ Len(calls) = 1
  BY <1>2, ShortLists
<1>5. q = calls \o <<item>>
  BY <1>1, <1>2, TwoLists
<1>6. /\ TakenCount(item) = 1 /\ LeftCount(item) = 0 /\ item.call \in Outermost
      /\ item.call \notin Joining
  BY DEF TakenCount, LeftFor, LeftCount, Outermost, Joining
<1>7. Carried(K, item) = {} /\ Remains(K, item, {}) = {}
  BY <1>6 DEF Carried, Remains, Outermost, Joining
<1>8. /\ Raised(Bottom, Len(calls)).height = 1 /\ Raised(Bottom, Len(calls)).kept = 0
      /\ Raised(Bottom, Len(calls)).known = {}
  BY <1>4, BottomStage DEF Raised
<1>9. Carry(K, << >>, item, Raised(Bottom, Len(calls)), Bottom)
  BY <1>6, <1>7, <1>8, BottomStage DEF Carry
<1>10. \A c \in ToSet(calls) : Operand(c)
  BY <1>3, <1>4
<1>11. Flows(K, << >>, calls \o <<item>>, Bottom, Bottom)
  BY <1>4, <1>9, <1>10, BottomStage, FlowsResult
<1>12. List(q) /\ ToSet(q) = {call, item}
  BY <1>1, ShortLists
<1>13. ItemInOrder(K, call)
  BY <1>3 DEF Operand, ItemInOrder, Joining
<1>. QED  BY <1>5, <1>11, <1>12, <1>13 DEF Settles

LEMMA NothingSettles == \A K : Settles(K, << >>)
<1>1. \A q, K : List(q) /\ ToSet(q) = {} => Settles(K, q)
  BY LevelSettles
<1>. QED  BY <1>1, ShortLists

\* The general rule for calls between statements.
LEMMA StatementGoesOn ==
    ASSUME NEW f, NEW K, NEW s, NEW ag, NEW vals, Construction(f, s, ag, vals),
           Ordered(f, K, s, ag, vals), ag # << >>, ag[1].call \in Outermost,
           LeftFor(ag[1]) = {},
           NEW t, StateFits(f, t), InOrder(f, K, t), DOMAIN s.block \subseteq DOMAIN t.block,
           NEW p, Settles(K, p), NEW n, n = TakenCount(ag[1])
    PROVE  Ordered(f, K, t, p \o Tail(ag), KeptOf(vals, n))
<1>1. List(p) /\ (\A item \in ToSet(p) : ItemInOrder(K, item)) /\ Flows(K, << >>, p, Bottom, Bottom)
  BY DEF Settles
<1>2. KeptOf(vals, TakenCount(ag[1])) = << >> /\ Ordered(f, K, t, p \o Tail(ag), << >>)
  BY <1>1, StepOfStatement
<1>. QED  BY <1>2

LEMMA StatementDone ==
    ASSUME NEW f, NEW K, NEW s, NEW ag, NEW vals, Construction(f, s, ag, vals),
           Ordered(f, K, s, ag, vals), ag # << >>, ag[1].call \in Outermost,
           LeftFor(ag[1]) = {},
           NEW t, StateFits(f, t), InOrder(f, K, t), DOMAIN s.block \subseteq DOMAIN t.block,
           NEW n, n = TakenCount(ag[1])
    PROVE  Ordered(f, K, t, Tail(ag), KeptOf(vals, n))
<1>1. List(ag)
  BY TopLaw
<1>2. PICK p : p = << >>
  OBVIOUS
<1>3. p \o Tail(ag) = Tail(ag)
  BY <1>1, <1>2, NothingNew
<1>4. Settles(K, p)
  BY <1>2, NothingSettles
<1>5. Ordered(f, K, t, p \o Tail(ag), KeptOf(vals, n))
  BY <1>4, StatementGoesOn
<1>. QED  BY <1>3, <1>5
-----------------------------------------------------------------------------
\* What a simple statement does.
Onwards(f, K, s, t) ==
    StateFits(f, t) /\ InOrder(f, K, t) /\ DOMAIN s.block \subseteq DOMAIN t.block

LEMMA GrowsOnwards ==
    ASSUME NEW f, NEW K, NEW s, NEW t, Grows(f, K, s, t)
    PROVE  Onwards(f, K, s, t) /\ DOMAIN t.block = DOMAIN s.block
<1>1. StateFits(f, s) /\ StateFits(f, t) /\ InOrder(f, K, t)
  BY GrowsKeeps
<1>2. DOMAIN t.block = DOMAIN s.block
  BY <1>1, Lengths DEF Grows, Straight
<1>. QED  BY <1>1, <1>2 DEF Onwards

LEMMA ReturnsOnwards ==
    ASSUME NEW f, NEW K, NEW s, NEW u, Grows(f, K, s, u), NEW t, t = ReturnJump(u)
    PROVE  Onwards(f, K, s, t)
<1>1. StateFits(f, u) /\ InOrder(f, K, u) /\ DOMAIN u.block = DOMAIN s.block
  BY GrowsOnwards DEF Onwards
<1>2. PICK target : target = EndBlock /\ t = Goto(u, target, NoBlock)
  BY DEF ReturnJump
<1>3. target \in DOMAIN u.block /\ K[target] \subseteq Live(f, K, u)
  BY <1>1, <1>2, Lengths DEF StateFits, BlocksFit, EndBlock, InOrder
<1>4. InOrder(f, K, t) /\ StateFits(f, t) /\ DOMAIN u.block \subseteq DOMAIN t.block
  BY <1>1, <1>2, <1>3, OrderJumpAway
<1>. QED  BY <1>1, <1>4 DEF Onwards

LEMMA StatementResultGrows ==
    ASSUME NEW f \in Functions, NEW K, NEW s, StateFits(f, s), InOrder(f, K, s),
           NEW stmt \in Trees[f].statements,
           stmt.kind \in SimpleStatements,
           NEW args \in Seq(Nat), Len(args) = Len(StatementCalls(stmt)),
           \A i \in 1 .. Len(args) : GoodFor(s, UseIn(stmt), args[i]),
           UseIn(stmt) = "value" => ToSet(args) \subseteq Live(f, K, s),
           NEW t, t = StatementResult(s, stmt, args)
    PROVE  Onwards(f, K, s, t)
<1>1. StatementOK(f, Trees[f], stmt)
  BY StatementLaw
<1>12. stmt.kind \in {"ASSIGN", "DECLARE_LOCAL_VAR", "RETURN_VALUE"} => stmt.line \in Nat
  BY <1>1 DEF StatementOK
<1>2. UseIn(stmt) = "value" => args \in Seq(VariablesIn(s)) /\ Temps(f) \cap ToSet(args) \subseteq Live(f, K, s)
  BY ArgumentsGood
<1>6. \A line \in Nat : \A v, u :
        UseIn(stmt) = "value" /\ Len(args) = 1 /\ v \in VariablesIn(s)
            /\ u = Emit(s, line, "VARCPY", args, v) => Grows(f, K, s, u)
  <2>. SUFFICES ASSUME NEW line \in Nat, NEW v \in VariablesIn(s), NEW u,
                       UseIn(stmt) = "value", Len(args) = 1,
                       u = Emit(s, line, "VARCPY", args, v)
                PROVE  Grows(f, K, s, u)
    OBVIOUS
  <2>1. PICK kind : u = Emit(s, line, kind, args, v) /\ kind = "VARCPY"
    OBVIOUS
  <2>2. u = Emit(s, line, kind, args, v) /\ kind # "ADDRESS_OF_VARIABLE"
    BY <2>1
  <2>. QED  BY <1>2, <2>2, EmitGrows
<1>7. CASE stmt.kind = "ASSIGN"
  <2>1. stmt.target \in Trees[f].expressions /\ UseIn(stmt) = "value"
    BY <1>1, <1>7 DEF StatementOK, UseIn
  <2>2. ExpressionOK(f, Trees[f], stmt.target)
    BY <2>1, ExpressionLaw
  <2>3. CASE stmt.target.kind = "GET_VARIABLE"
    <3>1. t = Emit(s, stmt.line, "VARCPY", args, find_variable(s, stmt.target.name))
      BY <1>7, <2>3 DEF StatementResult
    <3>2. Len(args) = 1
      BY <1>7, <2>3 DEF StatementCalls
    <3>3. HasVariable(f, stmt.target.name)
      BY <2>2, <2>3 DEF ExpressionOK, HasVariable
    <3>4. find_variable(s, stmt.target.name) \in VariablesIn(s)
      BY <3>3, FindVariable
    <3>5. Grows(f, K, s, t)
      BY <1>6, <1>7, <1>12, <2>1, <3>1, <3>2, <3>4
    <3>. QED  BY <3>5, GrowsOnwards
  <2>4. CASE stmt.target.kind # "GET_VARIABLE"
    <3>1. PICK kind : t = Emit(s, stmt.line, kind, args, NoVar) /\ kind = "PTR_STORE"
      BY <1>7, <2>4 DEF StatementResult
    <3>2. kind # "VARCPY" /\ kind # "ADDRESS_OF_VARIABLE" /\ t = Emit(s, stmt.line, kind, args, NoVar)
      BY <3>1
    <3>3. Grows(f, K, s, t)
      BY <1>2, <1>7, <1>12, <2>1, <3>2, EmitGrows
    <3>. QED  BY <3>3, GrowsOnwards
  <2>. QED  BY <2>3, <2>4
<1>8. CASE stmt.kind = "DECLARE_LOCAL_VAR"
  <2>1. /\ HasVariable(f, stmt.name) /\ UseIn(stmt) = "value"
        /\ stmt.initial_value \in Seq(Trees[f].expressions) /\ Len(stmt.initial_value) <= 1
        /\ \A i \in DOMAIN stmt.initial_value : Value(Trees[f], stmt.initial_value[i])
    BY <1>1, <1>8 DEF StatementOK, UseIn
  <2>2. find_variable(s, stmt.name) \in VariablesIn(s)
    BY <2>1, FindVariable
  <2>3. StatementCalls(stmt) = EvaluateAll(stmt.initial_value)
    BY <1>8 DEF StatementCalls
  <2>4. Len(args) <= 1
    BY <2>1, <2>3, EvaluateAllLaw
  <2>5. CASE args = << >>
    <3>1. t = s
      BY <1>8, <2>5 DEF StatementResult
    <3>. QED  BY <3>1, GrowsReflexive, GrowsOnwards
  <2>6. CASE args # << >>
    <3>1. t = Emit(s, stmt.line, "VARCPY", args, find_variable(s, stmt.name))
      BY <1>8, <2>6 DEF StatementResult
    <3>2. Len(args) = 1
      BY <2>4, <2>6
    <3>3. Grows(f, K, s, t)
      BY <1>6, <1>8, <1>12, <2>1, <2>2, <3>1, <3>2
    <3>. QED  BY <3>3, GrowsOnwards
  <2>. QED  BY <2>5, <2>6
<1>9. CASE stmt.kind = "RETURN_VALUE"
  <2>1. HasVariable(f, "return") /\ UseIn(stmt) = "value"
    BY <1>1, <1>9 DEF StatementOK, UseIn
  <2>2. find_variable(s, "return") \in VariablesIn(s)
    BY <2>1, FindVariable
  <2>3. Len(args) = 1
    BY <1>9 DEF StatementCalls
  <2>4. PICK u : u = Emit(s, stmt.line, "VARCPY", args, find_variable(s, "return"))
    OBVIOUS
  <2>5. Grows(f, K, s, u)
    BY <1>6, <1>9, <1>12, <2>1, <2>2, <2>3, <2>4
  <2>6. t = ReturnJump(u)
    BY <1>9, <2>4 DEF StatementResult
  <2>. QED  BY <2>5, <2>6, ReturnsOnwards
<1>10. CASE stmt.kind = "RETURN_WITHOUT_VALUE"
  <2>1. t = ReturnJump(s)
    BY <1>10 DEF StatementResult
  <2>2. Grows(f, K, s, s)
    BY GrowsReflexive
  <2>. QED  BY <2>1, <2>2, ReturnsOnwards
<1>11. CASE stmt.kind = "EXPRESSION_STATEMENT"
  <2>1. t = s
    BY <1>11 DEF StatementResult
  <2>. QED  BY <2>1, GrowsReflexive, GrowsOnwards
<1>. QED  BY <1>7, <1>8, <1>9, <1>10, <1>11 DEF SimpleStatements

LEMMA BuildStatementOrders ==
    ASSUME BuildInv, NEW K, Ordered(function, K, st, agenda, values), BuildStatement
    PROVE  Ordered(function', K, st', agenda', values')
<1>. DEFINE stmt == agenda[1].s
            n == Len(StatementCalls(stmt))
            args == TakenOf(values, n)
<1>1. /\ Construction(function, st, agenda, values) /\ agenda # << >>
      /\ agenda[1].call = "statement_result"
      /\ function' = function /\ st' = StatementResult(st, stmt, args) /\ values' = KeptOf(values, n)
      /\ agenda' = Tail(agenda)
  BY DEF BuildInv, BuildStatement, IsNext, Top, Later, LastValues, AllBut, TakenOf, KeptOf
<1>2. /\ function \in Functions /\ stmt \in Trees[function].statements /\ StateFits(function, st)
      /\ stmt.kind \in SimpleStatements
  BY <1>1, TopLaw DEF ItemFits, SimpleStatements
<1>3. /\ TakenCount(agenda[1]) = n /\ TakenFor(agenda[1]) = UseIn(stmt) /\ LeftFor(agenda[1]) = {}
      /\ agenda[1].call \in Outermost
  BY <1>1 DEF TakenCount, TakenFor, LeftFor, UseIn, Outermost
<1>. HIDE DEF stmt, n
<1>4. /\ Len(args) = n /\ args \in Seq(Nat) /\ \A i \in 1 .. n : GoodFor(st, UseIn(stmt), args[i])
  BY <1>1, <1>3, TakenGood
<1>5. args = TakenOf(values, TakenCount(agenda[1]))
  BY <1>3
<1>. HIDE DEF args
<1>6. UseIn(stmt) = "value" => ToSet(args) \subseteq Live(function, K, st)
  <2>1. TakenFor(agenda[1]) \in {"value", "bool"} => ToSet(args) \subseteq Live(function, K, st)
    BY <1>1, <1>5, TakenLive
  <2>. QED  BY <1>3, <2>1
<1>7. InOrder(function, K, st)
  BY DEF Ordered
<1>8. Onwards(function, K, st, st')
  BY <1>1, <1>2, <1>4, <1>6, <1>7, StatementResultGrows DEF n
<1>9. StateFits(function, st') /\ InOrder(function, K, st') /\ DOMAIN st.block \subseteq DOMAIN st'.block
  BY <1>8 DEF Onwards
<1>10. Ordered(function, K, st', Tail(agenda), KeptOf(values, n))
  BY <1>1, <1>3, <1>9, StatementDone
<1>. QED  BY <1>1, <1>10
-----------------------------------------------------------------------------
\* A jump to a block about which nothing is known.
LEMMA GotoOnwards ==
    ASSUME NEW f, NEW K, NEW s, StateFits(f, s), InOrder(f, K, s),
           NEW target \in InnerBlocks(s) \cup {EndBlock}, K[target] = {}, NEW new \in InnerBlocks(s),
           NEW t, t = Goto(s, target, new)
    PROVE  Onwards(f, K, s, t) /\ t.current_block = new
           /\ t.breakstack = s.breakstack /\ t.continuestack = s.continuestack
<1>1. target \in DOMAIN s.block /\ K[target] \subseteq Live(f, K, s)
  BY Lengths DEF StateFits, BlocksFit, EndBlock, InnerBlocks
<1>2. Arrives(f, K, s, t, new)
  BY <1>1, OrderGoto
<1>. QED  BY <1>2 DEF Arrives, Onwards

LEMMA GoesOnOrdered ==
    ASSUME NEW K, Construction(function, st, agenda, values), Ordered(function, K, st, agenda, values),
           agenda # << >>, agenda[1].call \in Outermost, LeftFor(agenda[1]) = {},
           TakenCount(agenda[1]) = 0,
           NEW t, Onwards(function, K, st, t), NEW p, Settles(K, p)
    PROVE  Ordered(function, K, t, p \o Tail(agenda), values)
<1>1. StateFits(function, t) /\ InOrder(function, K, t) /\ DOMAIN st.block \subseteq DOMAIN t.block
  BY DEF Onwards
<1>2. PICK n : n = TakenCount(agenda[1])
  OBVIOUS
<1>3. Ordered(function, K, t, p \o Tail(agenda), KeptOf(values, n))
  BY <1>1, <1>2, StatementGoesOn
<1>4. values \in Seq(Nat) /\ n = 0
  BY <1>2, TopLaw
<1>. QED  BY <1>3, <1>4, KeptNone

LEMMA DoneOrdered ==
    ASSUME NEW K, Construction(function, st, agenda, values), Ordered(function, K, st, agenda, values),
           agenda # << >>, agenda[1].call \in Outermost, LeftFor(agenda[1]) = {},
           TakenCount(agenda[1]) = 0,
           NEW t, Onwards(function, K, st, t)
    PROVE  Ordered(function, K, t, Tail(agenda), values)
<1>1. PICK p : p = << >>
  OBVIOUS
<1>2. Settles(K, p)
  BY <1>1, NothingSettles
<1>3. List(agenda)
  BY TopLaw
<1>4. p \o Tail(agenda) = Tail(agenda)
  BY <1>1, <1>3, NothingNew
<1>5. Ordered(function, K, t, p \o Tail(agenda), values)
  BY <1>2, GoesOnOrdered
<1>. QED  BY <1>4, <1>5

LEMMA BuildJumpOrders ==
    ASSUME BuildInv, NEW K, Ordered(function, K, st, agenda, values),
           NEW kind, kind \in {"BREAK", "CONTINUE"}, NEW stack \in Seq(InnerBlocks(st)),
           \A b \in ToSet(stack) : K[b] = {},
           NEW message, BuildJump(kind, stack, message)
    PROVE  Ordered(function', K, st', agenda', values')
<1>1. /\ Construction(function, st, agenda, values) /\ agenda # << >>
      /\ agenda[1].call = "build_statement"
      /\ function' = function /\ values' = values
  BY DEF BuildInv, BuildJump, StatementIsNext, IsNext, Top
<1>2. CASE stack = << >>
  <2>1. st' = st /\ agenda' = agenda
    BY <1>2 DEF BuildJump
  <2>. QED  BY <1>1, <2>1
<1>3. CASE stack # << >>
  <2>1. st' = Goto(st, stack[Len(stack)], NoBlock) /\ agenda' = Tail(agenda)
    BY <1>3 DEF BuildJump, Later
  <2>2. PICK target : target = stack[Len(stack)]
    OBVIOUS
  <2>3. target \in DOMAIN st.block /\ K[target] = {}
    BY <1>3, <2>2 DEF InnerBlocks, ToSet
  <2>4. StateFits(function, st) /\ InOrder(function, K, st)
    BY <1>1, TopOrdered
  <2>5. K[target] \subseteq Live(function, K, st)
    BY <2>3
  <2>6. InOrder(function, K, st') /\ StateFits(function, st') /\ DOMAIN st.block \subseteq DOMAIN st'.block
    BY <2>1, <2>2, <2>3, <2>4, <2>5, OrderJumpAway
  <2>7. TakenCount(agenda[1]) = 0 /\ LeftFor(agenda[1]) = {} /\ agenda[1].call \in Outermost
    BY <1>1 DEF TakenCount, LeftFor, Outermost
  <2>8. Ordered(function, K, st', Tail(agenda), values)
    BY <1>1, <2>6, <2>7, DoneOrdered DEF Onwards
  <2>. QED  BY <1>1, <2>1, <2>8
<1>. QED  BY <1>2, <1>3

LEMMA BuildBreakOrders ==
    ASSUME BuildInv, NEW K, Ordered(function, K, st, agenda, values), BuildBreak
    PROVE  Ordered(function', K, st', agenda', values')
<1>1. PICK kind, message : BuildJump(kind, st.breakstack, message) /\ kind = "BREAK"
  BY DEF BuildBreak
<1>2. st.breakstack \in Seq(InnerBlocks(st)) /\ \A b \in ToSet(st.breakstack) : K[b] = {}
  BY DEF BuildInv, Construction, StateFits, Ordered, InOrder
<1>. QED  BY <1>1, <1>2, BuildJumpOrders

LEMMA BuildContinueOrders ==
    ASSUME BuildInv, NEW K, Ordered(function, K, st, agenda, values), BuildContinue
    PROVE  Ordered(function', K, st', agenda', values')
<1>1. PICK kind, message : BuildJump(kind, st.continuestack, message) /\ kind = "CONTINUE"
  BY DEF BuildContinue
<1>2. st.continuestack \in Seq(InnerBlocks(st)) /\ \A b \in ToSet(st.continuestack) : K[b] = {}
  BY DEF BuildInv, Construction, StateFits, Ordered, InOrder
<1>. QED  BY <1>1, <1>2, BuildJumpOrders

LEMMA BuildIfDoneOrders ==
    ASSUME BuildInv, NEW K, Ordered(function, K, st, agenda, values), BuildIfDone
    PROVE  Ordered(function', K, st', agenda', values')
<1>1. /\ Construction(function, st, agenda, values) /\ agenda # << >>
      /\ agenda[1].call = "if_done"
      /\ function' = function /\ values' = values /\ agenda' = Tail(agenda)
      /\ st' = Goto(st, agenda[1].done, agenda[1].done)
  BY DEF BuildInv, BuildIfDone, IsNext, Top, Later
<1>2. StateFits(function, st) /\ InOrder(function, K, st) /\ ItemInOrder(K, agenda[1])
  BY <1>1, TopOrdered
<1>3. agenda[1].done \in InnerBlocks(st)
  BY <1>1, TopLaw DEF ItemFits
<1>4. K[agenda[1].done] = {}
  BY <1>1, <1>2 DEF ItemInOrder
<1>5. Onwards(function, K, st, st')
  BY <1>1, <1>2, <1>3, <1>4, GotoOnwards
<1>6. TakenCount(agenda[1]) = 0 /\ LeftFor(agenda[1]) = {} /\ agenda[1].call \in Outermost
  BY <1>1 DEF TakenCount, LeftFor, Outermost
<1>. QED  BY <1>1, <1>5, <1>6, DoneOrdered

LEMMA BuildLoopRepeatOrders ==
    ASSUME BuildInv, NEW K, Ordered(function, K, st, agenda, values), BuildLoopRepeat
    PROVE  Ordered(function', K, st', agenda', values')
<1>1. /\ Construction(function, st, agenda, values) /\ agenda # << >>
      /\ agenda[1].call = "loop_repeat"
      /\ function' = function /\ values' = values /\ agenda' = Tail(agenda)
      /\ st' = Goto(st, agenda[1].l.cond, agenda[1].l.done)
  BY DEF BuildInv, BuildLoopRepeat, IsNext, Top, Later
<1>2. StateFits(function, st) /\ InOrder(function, K, st) /\ ItemInOrder(K, agenda[1])
  BY <1>1, TopOrdered
<1>3. agenda[1].l.cond \in InnerBlocks(st) /\ agenda[1].l.done \in InnerBlocks(st)
  BY <1>1, TopLaw DEF ItemFits, LoopFits
<1>4. K[agenda[1].l.cond] = {}
  BY <1>1, <1>2 DEF ItemInOrder
<1>5. Onwards(function, K, st, st')
  BY <1>1, <1>2, <1>3, <1>4, GotoOnwards
<1>6. TakenCount(agenda[1]) = 0 /\ LeftFor(agenda[1]) = {} /\ agenda[1].call \in Outermost
  BY <1>1 DEF TakenCount, LeftFor, Outermost
<1>. QED  BY <1>1, <1>5, <1>6, DoneOrdered

LEMMA BuildImplicitReturnOrders ==
    ASSUME BuildInv, NEW K, Ordered(function, K, st, agenda, values), BuildImplicitReturn
    PROVE  Ordered(function', K, st', agenda', values')
<1>1. /\ Construction(function, st, agenda, values) /\ agenda # << >>
      /\ agenda[1].call = "implicit_return"
      /\ function' = function /\ values' = values /\ agenda' = Tail(agenda)
      /\ st' = Goto(st, EndBlock, st.current_block)
  BY DEF BuildInv, BuildImplicitReturn, IsNext, Top, Later
<1>2. StateFits(function, st) /\ InOrder(function, K, st)
  BY <1>1, TopOrdered
<1>3. PICK target, new : target = EndBlock /\ new = st.current_block
  OBVIOUS
<1>4. target \in InnerBlocks(st) \cup {EndBlock} /\ K[target] = {} /\ new \in InnerBlocks(st)
  BY <1>2, <1>3 DEF StateFits, InOrder
<1>5. Onwards(function, K, st, st')
  BY <1>1, <1>2, <1>3, <1>4, GotoOnwards
<1>6. TakenCount(agenda[1]) = 0 /\ LeftFor(agenda[1]) = {} /\ agenda[1].call \in Outermost
  BY <1>1 DEF TakenCount, LeftFor, Outermost
<1>. QED  BY <1>1, <1>5, <1>6, DoneOrdered
-----------------------------------------------------------------------------
\* If statements.
LEMMA IfRestSettles ==
    ASSUME NEW f \in Functions, NEW K, NEW stmt \in Trees[f].statements, stmt.kind = "IF",
           NEW i, NEW done, K[done] = {}, NEW q, q = IfRest(stmt, i, done)
    PROVE  Settles(K, q)
<1>1. BodyOK(Trees[f], stmt.elsebody)
  BY StatementLaw DEF StatementOK
<1>2. CASE i <= Len(stmt.if_and_elifs)
  <2>1. PICK item, e : /\ item = [call |-> "if_condition", s |-> stmt, i |-> i, done |-> done]
                       /\ e = stmt.if_and_elifs[i].condition
    OBVIOUS
  <2>2. q = <<Evaluate(e), item>>
    BY <1>2, <2>1 DEF IfRest
  <2>3. item.call = "if_condition" /\ item.done = done
    BY <2>1
  <2>4. ItemInOrder(K, item)
    BY <2>3 DEF ItemInOrder, Joining
  <2>. QED  BY <2>2, <2>3, <2>4, ConditionSettles
<1>3. CASE ~ (i <= Len(stmt.if_and_elifs))
  <2>1. PICK item : item = [call |-> "if_done", done |-> done]
    OBVIOUS
  <2>2. q = Body(stmt.elsebody) \o <<item>>
    BY <1>3, <2>1 DEF IfRest
  <2>3. item.call = "if_done" /\ item.done = done
    BY <2>1
  <2>4. Level(item) /\ ItemInOrder(K, item)
    BY <2>3 DEF Level, Outermost, TakenCount, LeftFor, ItemInOrder, Joining
  <2>. QED  BY <1>1, <2>2, <2>4, BodyThenSettles
<1>. QED  BY <1>2, <1>3

LEMMA BuildIfOrders ==
    ASSUME BuildInv, NEW K, Ordered(function, K, st, agenda, values), BuildIf
    PROVE  Ordered(function', K, st', agenda', values')
<1>. DEFINE stmt == agenda[1].s
<1>1. /\ Construction(function, st, agenda, values) /\ agenda # << >>
      /\ agenda[1].call = "build_statement" /\ stmt.kind = "IF"
      /\ function' = function /\ values' = values
      /\ agenda' = IfRest(stmt, 1, newblock(st')) \o Tail(agenda)
      /\ st' = add_block(st)
  BY DEF BuildInv, BuildIf, StatementIsNext, IsNext, Top, Later
<1>2. StateFits(function, st) /\ InOrder(function, K, st)
  BY <1>1, TopOrdered
<1>3. function \in Functions /\ stmt \in Trees[function].statements
  BY <1>1, TopLaw DEF ItemFits
<1>4. /\ InOrder(function, K, st') /\ StateFits(function, st')
      /\ DOMAIN st'.block = DOMAIN st.block \cup {newblock(st) + 1}
      /\ newblock(st') = newblock(st) + 1 /\ newblock(st) + 1 \notin DOMAIN st.block
      /\ newblock(st) \in Nat
  BY <1>1, <1>2, OrderAddBlock
<1>5. PICK done : done = newblock(st')
  OBVIOUS
<1>6. K[done] = {}
  BY <1>4, <1>5 DEF Ordered
<1>7. PICK q, i : i = 1 /\ q = IfRest(stmt, i, done)
  OBVIOUS
<1>8. Settles(K, q)
  BY <1>1, <1>3, <1>6, <1>7, IfRestSettles
<1>9. Onwards(function, K, st, st')
  BY <1>4 DEF Onwards
<1>10. TakenCount(agenda[1]) = 0 /\ LeftFor(agenda[1]) = {} /\ agenda[1].call \in Outermost
  BY <1>1 DEF TakenCount, LeftFor, Outermost
<1>11. Ordered(function, K, st', q \o Tail(agenda), values)
  BY <1>1, <1>8, <1>9, <1>10, GoesOnOrdered
<1>. QED  BY <1>1, <1>5, <1>7, <1>11

LEMMA BuildIfBodyDoneOrders ==
    ASSUME BuildInv, NEW K, Ordered(function, K, st, agenda, values), BuildIfBodyDone
    PROVE  Ordered(function', K, st', agenda', values')
<1>. DEFINE top == agenda[1]
<1>1. /\ Construction(function, st, agenda, values) /\ agenda # << >>
      /\ top.call = "if_body_done"
      /\ function' = function /\ values' = values
      /\ agenda' = IfRest(top.s, top.i + 1, top.done) \o Tail(agenda)
      /\ st' = Goto(st, top.done, top.otherwise)
  BY DEF BuildInv, BuildIfBodyDone, IsNext, Top, Later
<1>2. StateFits(function, st) /\ InOrder(function, K, st) /\ ItemInOrder(K, top)
  BY <1>1, TopOrdered
<1>3. /\ function \in Functions /\ top.done \in InnerBlocks(st) /\ top.otherwise \in InnerBlocks(st)
      /\ top.s \in Trees[function].statements /\ top.s.kind = "IF"
  BY <1>1, TopLaw DEF ItemFits, IfFits
<1>4. K[top.done] = {}
  BY <1>1, <1>2 DEF ItemInOrder
<1>5. Onwards(function, K, st, st')
  BY <1>1, <1>2, <1>3, <1>4, GotoOnwards
<1>6. PICK q, i : q = IfRest(top.s, i, top.done) /\ i = top.i + 1
  OBVIOUS
<1>7. Settles(K, q)
  BY <1>3, <1>4, <1>6, IfRestSettles
<1>8. TakenCount(agenda[1]) = 0 /\ LeftFor(agenda[1]) = {} /\ agenda[1].call \in Outermost
  BY <1>1 DEF TakenCount, LeftFor, Outermost
<1>9. Ordered(function, K, st', q \o Tail(agenda), values)
  BY <1>1, <1>5, <1>7, <1>8, GoesOnOrdered
<1>. QED  BY <1>1, <1>6, <1>9

\* The condition a branch is about to be made on.
LEMMA ConditionLive ==
    ASSUME NEW K, Construction(function, st, agenda, values), Ordered(function, K, st, agenda, values),
           agenda # << >>, agenda[1].call \in {"lhs_evaluated", "if_condition", "loop_condition"},
           NEW v, v = values[Len(values)]
    PROVE  GoodFor(st, "bool", v) /\ v \in Live(function, K, st)
<1>1. PICK args : args = TakenOf(values, TakenCount(agenda[1]))
  OBVIOUS
<1>2. TakenCount(agenda[1]) = 1 /\ TakenFor(agenda[1]) = "bool"
  BY DEF TakenCount, TakenFor
<1>3. /\ Len(args) = 1 /\ args \in Seq(Nat) /\ args[1] = v
      /\ \A i \in 1 .. 1 : GoodFor(st, "bool", args[i])
  <2>1. /\ Len(args) = TakenCount(agenda[1]) /\ args \in Seq(Nat)
        /\ \A i \in 1 .. TakenCount(agenda[1]) : GoodFor(st, TakenFor(agenda[1]), args[i])
        /\ TakenCount(agenda[1]) = 1 => args[1] = values[Len(values)]
    BY <1>1, TakenGood
  <2>. QED  BY <1>2, <2>1
<1>4. TakenFor(agenda[1]) \in {"value", "bool"} => ToSet(args) \subseteq Live(function, K, st)
  BY <1>1, TakenLive
<1>5. v \in ToSet(args)
  BY <1>3 DEF ToSet
<1>. QED  BY <1>2, <1>3, <1>4, <1>5

LEMMA BuildIfConditionOrders ==
    ASSUME BuildInv, NEW K, Ordered(function, K, st, agenda, values), BuildIfCondition
    PROVE  Ordered(function', K, st', agenda', values')
<1>. DEFINE top == agenda[1]
            branch == top.s.if_and_elifs[top.i]
            s1 == add_block(st)
            s == add_block(s1)
            then == newblock(st) + 1
            v == values[Len(values)]
<1>1. PICK item : item = [call |-> "if_body_done", s |-> top.s, i |-> top.i,
                          done |-> top.done, otherwise |-> then + 1]
  OBVIOUS
<1>2. item.call = "if_body_done" /\ item.done = top.done /\ item.otherwise = then + 1
  BY <1>1
<1>3. PICK q : q = Body(branch.body) \o <<item>>
  OBVIOUS
<1>4. /\ Construction(function, st, agenda, values) /\ agenda # << >>
      /\ top.call = "if_condition"
      /\ function' = function /\ values' = KeptOf(values, 1) /\ agenda' = q \o Tail(agenda)
      /\ st' = add_jump(s, v, then, then + 1, then)
  BY <1>1, <1>3 DEF BuildInv, BuildIfCondition, IsNext, Top, Later, Returned, AllBut, KeptOf
<1>5. StateFits(function, st) /\ InOrder(function, K, st) /\ ItemInOrder(K, top)
  BY <1>4, TopOrdered
<1>6. function \in Functions /\ IfFits(function, top)
  BY <1>4, TopLaw DEF ItemFits
<1>7. BodyOK(Trees[function], branch.body)
  BY <1>6, StatementLaw DEF IfFits, StatementOK
<1>8. GoodFor(st, "bool", v) /\ v \in Live(function, K, st)
  BY <1>4, ConditionLive
<1>9. /\ TakenCount(top) = 1 /\ LeftFor(top) = {} /\ top.call \in Outermost
  BY <1>4 DEF TakenCount, LeftFor, Outermost
<1>10. K[top.done] = {}
  BY <1>4, <1>5 DEF ItemInOrder
<1>. HIDE DEF v, branch, s1, s, top
<1>11. /\ InOrder(function, K, s1) /\ StateFits(function, s1) /\ Live(function, K, s1) = Live(function, K, st)
       /\ DOMAIN s1.block = DOMAIN st.block \cup {then} /\ newblock(s1) = then
       /\ then \notin DOMAIN st.block /\ newblock(st) \in Nat /\ then \in InnerBlocks(s1)
       /\ s1.variables = st.variables
  <2>1. s1 = add_block(st)
    BY DEF s1
  <2>. QED  BY <1>5, <2>1, OrderAddBlock
<1>12. /\ InOrder(function, K, s) /\ StateFits(function, s) /\ Live(function, K, s) = Live(function, K, s1)
       /\ DOMAIN s.block = DOMAIN s1.block \cup {then + 1}
       /\ then + 1 \notin DOMAIN s1.block /\ InnerBlocks(s1) \subseteq InnerBlocks(s)
       /\ s.variables = s1.variables
  <2>1. /\ InOrder(function, K, s) /\ StateFits(function, s) /\ Live(function, K, s) = Live(function, K, s1)
        /\ DOMAIN s.block = DOMAIN s1.block \cup {newblock(s1) + 1}
        /\ newblock(s1) + 1 \notin DOMAIN s1.block /\ InnerBlocks(s1) \subseteq InnerBlocks(s)
        /\ s.variables = s1.variables
    <3>1. s = add_block(s1) /\ InOrder(function, K, s1) /\ StateFits(function, s1)
      BY <1>11 DEF s
    <3>. QED  BY <3>1, OrderAddBlock
  <2>2. newblock(s1) = then
    BY <1>11
  <2>. HIDE DEF then
  <2>. QED  BY <2>1, <2>2
<1>13. K[then] = {} /\ K[then + 1] = {}
  BY <1>11, <1>12 DEF Ordered
<1>14. Decides(s, v, then, then + 1)
  <2>1. s.variables = st.variables
    BY <1>11, <1>12
  <2>2. GoodFor(s, "bool", v)
    BY <1>8, <2>1 DEF GoodFor, VariablesIn, TypeOf
  <2>. QED  BY <2>2 DEF Decides
<1>15. JumpKnows(K, Live(function, K, s), v, then, then + 1)
  BY <1>8, <1>11, <1>12, <1>13 DEF JumpKnows
<1>. HIDE DEF then
<1>16. Arrives(function, K, s, st', then)
  <2>1. PICK other : other = then + 1
    OBVIOUS
  <2>2. /\ then \in DOMAIN s.block /\ other \in DOMAIN s.block /\ Decides(s, v, then, other)
        /\ JumpKnows(K, Live(function, K, s), v, then, other) /\ then \in InnerBlocks(s)
        /\ st' = add_jump(s, v, then, other, then)
    BY <1>4, <1>11, <1>12, <1>14, <1>15, <2>1
  <2>. QED  BY <1>12, <2>2, OrderAddJump
<1>17. StateFits(function, st') /\ InOrder(function, K, st') /\ DOMAIN st.block \subseteq DOMAIN st'.block
  BY <1>11, <1>12, <1>16 DEF Arrives
<1>18. Level(item) /\ ItemInOrder(K, item)
  BY <1>2, <1>10, <1>13 DEF Level, Outermost, TakenCount, LeftFor, ItemInOrder, Joining
<1>19. Settles(K, q)
  BY <1>3, <1>7, <1>18, BodyThenSettles
<1>20. PICK n : n = 1 /\ n = TakenCount(agenda[1])
  BY <1>9 DEF top
<1>21. Ordered(function, K, st', q \o Tail(agenda), KeptOf(values, n))
  BY <1>4, <1>9, <1>17, <1>19, <1>20, StatementGoesOn DEF top
<1>. QED  BY <1>4, <1>20, <1>21
-----------------------------------------------------------------------------
\* Loops.
LEMMA LevelLoop ==
    ASSUME NEW K, NEW item, item.call \in {"loop_entered", "loop_body_done", "loop_repeat"},
           \A b \in {item.l.cond, item.l.body, item.l.incr, item.l.done} : K[b] = {}
    PROVE  Level(item) /\ ItemInOrder(K, item)
BY DEF Level, Outermost, TakenCount, LeftFor, ItemInOrder, Joining

\* What is known of a block that has just been added.
Fresh(f, K, s, t) ==
    /\ InOrder(f, K, t) /\ StateFits(f, t) /\ DOMAIN s.block \subseteq DOMAIN t.block
    /\ newblock(t) = newblock(s) + 1 /\ newblock(s) \in Nat
    /\ newblock(s) + 1 \notin DOMAIN s.block

LEMMA AddsFresh ==
    ASSUME NEW f, NEW K, NEW s, StateFits(f, s), InOrder(f, K, s), NEW t, t = add_block(s)
    PROVE  Fresh(f, K, s, t)
<1>1. /\ InOrder(f, K, t) /\ StateFits(f, t)
      /\ DOMAIN t.block = DOMAIN s.block \cup {newblock(s) + 1}
      /\ newblock(t) = newblock(s) + 1 /\ newblock(s) + 1 \notin DOMAIN s.block
      /\ newblock(s) \in Nat
  BY OrderAddBlock
<1>. QED  BY <1>1 DEF Fresh

LEMMA BuildLoopOrders ==
    ASSUME BuildInv, NEW K, Ordered(function, K, st, agenda, values), BuildLoop
    PROVE  Ordered(function', K, st', agenda', values')
<1>. DEFINE stmt == agenda[1].s
            n == newblock(st)
<1>1. PICK loop : loop = [s |-> stmt, cond |-> n + 1, body |-> n + 2, incr |-> n + 3, done |-> n + 4]
  OBVIOUS
<1>2. loop.cond = n + 1 /\ loop.body = n + 2 /\ loop.incr = n + 3 /\ loop.done = n + 4
  BY <1>1
<1>3. PICK item : item = [call |-> "loop_entered", l |-> loop]
  OBVIOUS
<1>4. item.call = "loop_entered" /\ item.l = loop
  BY <1>3
<1>5. PICK q : q = Body(stmt.init) \o <<item>>
  OBVIOUS
<1>6. PICK s1, s2, s3 : s1 = add_block(st) /\ s2 = add_block(s1) /\ s3 = add_block(s2)
  OBVIOUS
<1>7. /\ Construction(function, st, agenda, values) /\ agenda # << >>
      /\ agenda[1].call = "build_statement" /\ stmt.kind \in {"WHILE", "FOR"}
      /\ function' = function /\ values' = values /\ st' = add_block(s3)
  BY <1>6 DEF BuildInv, BuildLoop, StatementIsNext, IsNext, Top
<1>8. agenda' = q \o Tail(agenda)
  BY <1>1, <1>3, <1>5 DEF BuildLoop, Top, Later
<1>9. StateFits(function, st) /\ InOrder(function, K, st)
  BY <1>7, TopOrdered
<1>10. function \in Functions /\ stmt \in Trees[function].statements
  BY <1>7, TopLaw DEF ItemFits
<1>11. BodyOK(Trees[function], stmt.init)
  BY <1>7, <1>10, StatementLaw DEF StatementOK
<1>12. TakenCount(agenda[1]) = 0 /\ LeftFor(agenda[1]) = {} /\ agenda[1].call \in Outermost
  BY <1>7 DEF TakenCount, LeftFor, Outermost
<1>13. Fresh(function, K, st, s1)
  BY <1>6, <1>9, AddsFresh
<1>14. Fresh(function, K, s1, s2)
  BY <1>6, <1>13, AddsFresh DEF Fresh
<1>15. Fresh(function, K, s2, s3)
  BY <1>6, <1>14, AddsFresh DEF Fresh
<1>16. Fresh(function, K, s3, st')
  BY <1>7, <1>15, AddsFresh DEF Fresh
<1>. HIDE DEF stmt, n
<1>17. Onwards(function, K, st, st')
  BY <1>13, <1>14, <1>15, <1>16 DEF Fresh, Onwards
<1>18. /\ n \in Nat /\ n + 1 \notin DOMAIN st.block /\ n + 2 \notin DOMAIN s1.block
       /\ n + 3 \notin DOMAIN s2.block /\ n + 4 \notin DOMAIN s3.block
  <2>1. n \in Nat /\ newblock(s1) = n + 1 /\ n + 1 \notin DOMAIN st.block
    BY <1>13 DEF Fresh, n
  <2>2. newblock(s2) = n + 2 /\ n + 2 \notin DOMAIN s1.block
    <3>1. newblock(s2) = newblock(s1) + 1 /\ newblock(s1) + 1 \notin DOMAIN s1.block
      BY <1>14 DEF Fresh
    <3>2. newblock(s1) + 1 = n + 2
      BY <2>1
    <3>. QED  BY <3>1, <3>2
  <2>3. newblock(s3) = n + 3 /\ n + 3 \notin DOMAIN s2.block
    <3>1. newblock(s3) = newblock(s2) + 1 /\ newblock(s2) + 1 \notin DOMAIN s2.block
      BY <1>15 DEF Fresh
    <3>2. newblock(s2) + 1 = n + 3
      BY <2>1, <2>2
    <3>. QED  BY <3>1, <3>2
  <2>4. n + 4 \notin DOMAIN s3.block
    <3>1. newblock(s3) + 1 \notin DOMAIN s3.block
      BY <1>16 DEF Fresh
    <3>2. newblock(s3) + 1 = n + 4
      BY <2>1, <2>3
    <3>. QED  BY <3>1, <3>2
  <2>. QED  BY <2>1, <2>2, <2>3, <2>4
<1>19. DOMAIN st.block \subseteq DOMAIN s1.block /\ DOMAIN st.block \subseteq DOMAIN s2.block
       /\ DOMAIN st.block \subseteq DOMAIN s3.block
  BY <1>13, <1>14, <1>15 DEF Fresh
<1>20. K[n + 1] = {} /\ K[n + 2] = {} /\ K[n + 3] = {} /\ K[n + 4] = {}
  BY <1>18, <1>19 DEF Ordered
<1>21. Level(item) /\ ItemInOrder(K, item)
  BY <1>2, <1>4, <1>20, LevelLoop
<1>22. Settles(K, q)
  BY <1>5, <1>11, <1>21, BodyThenSettles
<1>23. Ordered(function, K, st', q \o Tail(agenda), values)
  BY <1>7, <1>12, <1>17, <1>22, GoesOnOrdered
<1>. QED  BY <1>7, <1>8, <1>23

\* The blocks of the loop the next call is about.
LoopKnown(K, l) ==
    {l.cond, l.body, l.incr, l.done} \subseteq InnerBlocks(st)
        /\ \A b \in {l.cond, l.body, l.incr, l.done} : K[b] = {}

LEMMA LoopBlocks ==
    ASSUME NEW K, Construction(function, st, agenda, values), Ordered(function, K, st, agenda, values),
           agenda # << >>,
           agenda[1].call \in {"loop_entered", "loop_condition", "loop_body_done", "loop_repeat"}
    PROVE  /\ LoopKnown(K, agenda[1].l)
           /\ BodyOK(Trees[function], agenda[1].l.s.body) /\ BodyOK(Trees[function], agenda[1].l.s.incr)
           /\ StateFits(function, st) /\ InOrder(function, K, st)
<1>1. StateFits(function, st) /\ InOrder(function, K, st) /\ ItemInOrder(K, agenda[1])
  BY TopOrdered
<1>2. function \in Functions /\ LoopFits(function, st, agenda[1].l)
  BY TopLaw DEF ItemFits
<1>3. /\ BodyOK(Trees[function], agenda[1].l.s.body) /\ BodyOK(Trees[function], agenda[1].l.s.incr)
      /\ {agenda[1].l.cond, agenda[1].l.body, agenda[1].l.incr, agenda[1].l.done} \subseteq InnerBlocks(st)
  BY <1>2, LoopLaw
<1>4. \A b \in {agenda[1].l.cond, agenda[1].l.body, agenda[1].l.incr, agenda[1].l.done} : K[b] = {}
  BY <1>1 DEF ItemInOrder
<1>. QED  BY <1>1, <1>3, <1>4 DEF LoopKnown

LEMMA BuildLoopEnteredOrders ==
    ASSUME BuildInv, NEW K, Ordered(function, K, st, agenda, values), BuildLoopEntered
    PROVE  Ordered(function', K, st', agenda', values')
<1>. DEFINE l == agenda[1].l
<1>1. PICK item, e : item = [call |-> "loop_condition", l |-> l] /\ e = l.s.cond
  OBVIOUS
<1>2. item.call = "loop_condition" /\ item.l = l
  BY <1>1
<1>3. PICK q : q = <<Evaluate(e), item>>
  OBVIOUS
<1>4. /\ Construction(function, st, agenda, values) /\ agenda # << >>
      /\ agenda[1].call = "loop_entered"
      /\ function' = function /\ values' = values /\ st' = Goto(st, l.cond, l.cond)
  BY DEF BuildInv, BuildLoopEntered, IsNext, Top
<1>5. agenda' = q \o Tail(agenda)
  BY <1>1, <1>3 DEF BuildLoopEntered, Top, Later
<1>6. LoopKnown(K, l) /\ StateFits(function, st) /\ InOrder(function, K, st)
  BY <1>4, LoopBlocks
<1>7. TakenCount(agenda[1]) = 0 /\ LeftFor(agenda[1]) = {} /\ agenda[1].call \in Outermost
  BY <1>4 DEF TakenCount, LeftFor, Outermost
<1>. HIDE DEF l
<1>8. Onwards(function, K, st, st')
  BY <1>4, <1>6, GotoOnwards DEF LoopKnown
<1>9. ItemInOrder(K, item)
  BY <1>2, <1>6 DEF ItemInOrder, Joining, LoopKnown
<1>10. Settles(K, q)
  BY <1>2, <1>3, <1>9, ConditionSettles
<1>11. Ordered(function, K, st', q \o Tail(agenda), values)
  BY <1>4, <1>7, <1>8, <1>10, GoesOnOrdered
<1>. QED  BY <1>4, <1>5, <1>11

\* The loops the code is in may change.
LEMMA StacksOnwards ==
    ASSUME NEW f, NEW K, NEW s, NEW u, Onwards(f, K, s, u),
           NEW t, DOMAIN t = DOMAIN u, t.block = u.block, t.variables = u.variables,
           t.current_block = u.current_block,
           t.breakstack \in Seq(InnerBlocks(u)), t.continuestack \in Seq(InnerBlocks(u)),
           \A b \in ToSet(t.breakstack) \cup ToSet(t.continuestack) : K[b] = {}
    PROVE  Onwards(f, K, s, t)
<1>1. StateFits(f, u) /\ InOrder(f, K, u) /\ DOMAIN s.block \subseteq DOMAIN u.block
  BY DEF Onwards
<1>2. u.current_block \in InnerBlocks(u)
  BY <1>1 DEF StateFits
<1>3. Continues(f, u, t)
  BY <1>1, <1>2, Reframe
<1>4. StateFits(f, t) /\ InOrder(f, K, t)
  BY <1>1, <1>3, SameCodeInOrder DEF Continues
<1>. QED  BY <1>1, <1>4 DEF Onwards

LEMMA BuildLoopConditionOrders ==
    ASSUME BuildInv, NEW K, Ordered(function, K, st, agenda, values), BuildLoopCondition
    PROVE  Ordered(function', K, st', agenda', values')
<1>. DEFINE l == agenda[1].l
            v == values[Len(values)]
<1>1. PICK item, u : /\ item = [call |-> "loop_body_done", l |-> l]
                     /\ u = add_jump(st, v, l.body, l.done, l.body)
  OBVIOUS
<1>2. item.call = "loop_body_done" /\ item.l = l
  BY <1>1
<1>3. PICK q : q = Body(l.s.body) \o <<item>>
  OBVIOUS
<1>4. /\ Construction(function, st, agenda, values) /\ agenda # << >>
      /\ agenda[1].call = "loop_condition"
      /\ function' = function /\ values' = KeptOf(values, 1)
      /\ st' = [u EXCEPT !.breakstack = Append(@, l.done), !.continuestack = Append(@, l.incr)]
  BY <1>1 DEF BuildInv, BuildLoopCondition, IsNext, Top, Returned, AllBut, KeptOf
<1>5. agenda' = q \o Tail(agenda)
  BY <1>1, <1>3 DEF BuildLoopCondition, Top, Later
<1>6. /\ LoopKnown(K, l) /\ StateFits(function, st) /\ InOrder(function, K, st)
      /\ BodyOK(Trees[function], l.s.body)
  BY <1>4, LoopBlocks
<1>7. TakenCount(agenda[1]) = 1 /\ LeftFor(agenda[1]) = {} /\ agenda[1].call \in Outermost
  BY <1>4 DEF TakenCount, LeftFor, Outermost
<1>8. GoodFor(st, "bool", v) /\ v \in Live(function, K, st)
  BY <1>4, ConditionLive
<1>. HIDE DEF l, v
<1>9. Arrives(function, K, st, u, l.body)
  <2>1. l.body \in DOMAIN st.block /\ l.done \in DOMAIN st.block /\ l.body \in InnerBlocks(st)
    BY <1>6 DEF InnerBlocks, LoopKnown
  <2>2. Decides(st, v, l.body, l.done)
    BY <1>8 DEF Decides
  <2>3. JumpKnows(K, Live(function, K, st), v, l.body, l.done)
    BY <1>6, <1>8 DEF JumpKnows, LoopKnown
  <2>. QED  BY <1>1, <1>6, <2>1, <2>2, <2>3, OrderAddJump
<1>10. /\ Onwards(function, K, st, u) /\ InnerBlocks(u) = InnerBlocks(st)
       /\ u.breakstack = st.breakstack /\ u.continuestack = st.continuestack
  BY <1>9 DEF Arrives, Onwards, InnerBlocks
<1>11. /\ DOMAIN st' = DOMAIN u /\ st'.block = u.block /\ st'.variables = u.variables
       /\ st'.current_block = u.current_block
       /\ st'.breakstack = Append(st.breakstack, l.done)
       /\ st'.continuestack = Append(st.continuestack, l.incr)
  BY <1>4, <1>10 DEF Onwards, StateFits
<1>12. /\ st.breakstack \in Seq(InnerBlocks(st)) /\ st.continuestack \in Seq(InnerBlocks(st))
       /\ \A b \in ToSet(st.breakstack) \cup ToSet(st.continuestack) : K[b] = {}
  BY <1>6 DEF StateFits, InOrder
<1>13. /\ l.done \in InnerBlocks(st) /\ l.incr \in InnerBlocks(st) /\ K[l.done] = {} /\ K[l.incr] = {}
  BY <1>6 DEF LoopKnown
<1>14. /\ st'.breakstack \in Seq(InnerBlocks(u)) /\ st'.continuestack \in Seq(InnerBlocks(u))
  BY <1>10, <1>11, <1>12, <1>13
<1>15. \A b \in ToSet(st'.breakstack) \cup ToSet(st'.continuestack) : K[b] = {}
  <2>1. \A stack \in Seq(InnerBlocks(st)) : List(stack)
    BY DEF List, ToSet
  <2>2. ToSet(st'.breakstack) = ToSet(st.breakstack) \cup {l.done}
        /\ ToSet(st'.continuestack) = ToSet(st.continuestack) \cup {l.incr}
    BY <1>11, <1>12, <2>1, AppendList
  <2>. QED  BY <1>12, <1>13, <2>2
<1>16. Onwards(function, K, st, st')
  BY <1>10, <1>11, <1>14, <1>15, StacksOnwards
<1>17. Level(item) /\ ItemInOrder(K, item)
  BY <1>2, <1>6, LevelLoop DEF LoopKnown
<1>18. Settles(K, q)
  BY <1>3, <1>6, <1>17, BodyThenSettles
<1>19. PICK n : n = 1 /\ n = TakenCount(agenda[1])
  BY <1>7
<1>20. Ordered(function, K, st', q \o Tail(agenda), KeptOf(values, n))
  BY <1>4, <1>7, <1>16, <1>18, <1>19, StatementGoesOn DEF Onwards
<1>. QED  BY <1>4, <1>5, <1>19, <1>20

LEMMA BuildLoopBodyDoneOrders ==
    ASSUME BuildInv, NEW K, Ordered(function, K, st, agenda, values), BuildLoopBodyDone
    PROVE  Ordered(function', K, st', agenda', values')
<1>. DEFINE l == agenda[1].l
<1>1. PICK item, u : /\ item = [call |-> "loop_repeat", l |-> l]
                     /\ u = Goto(st, l.incr, l.incr)
  OBVIOUS
<1>2. item.call = "loop_repeat" /\ item.l = l
  BY <1>1
<1>3. PICK q : q = Body(l.s.incr) \o <<item>>
  OBVIOUS
<1>4. /\ Construction(function, st, agenda, values) /\ agenda # << >>
      /\ agenda[1].call = "loop_body_done"
      /\ function' = function /\ values' = values
      /\ st' = [u EXCEPT !.breakstack = WithoutLast(@), !.continuestack = WithoutLast(@)]
  BY <1>1 DEF BuildInv, BuildLoopBodyDone, IsNext, Top
<1>5. agenda' = q \o Tail(agenda)
  BY <1>1, <1>3 DEF BuildLoopBodyDone, Top, Later
<1>6. /\ LoopKnown(K, l) /\ StateFits(function, st) /\ InOrder(function, K, st)
      /\ BodyOK(Trees[function], l.s.incr)
  BY <1>4, LoopBlocks
<1>7. TakenCount(agenda[1]) = 0 /\ LeftFor(agenda[1]) = {} /\ agenda[1].call \in Outermost
  BY <1>4 DEF TakenCount, LeftFor, Outermost
<1>8. Len(st.breakstack) > 0 /\ Len(st.continuestack) > 0
  <2>1. PICK args : args = TakenOf(values, TakenCount(agenda[1]))
    OBVIOUS
  <2>. QED  BY <1>4, <2>1, TakenGood
<1>. HIDE DEF l
<1>9. /\ Onwards(function, K, st, u)
      /\ u.breakstack = st.breakstack /\ u.continuestack = st.continuestack
  BY <1>1, <1>6, GotoOnwards DEF LoopKnown
<1>10. StateFits(function, u) /\ InOrder(function, K, u)
  BY <1>9 DEF Onwards
<1>11. /\ u.breakstack \in Seq(InnerBlocks(u)) /\ u.continuestack \in Seq(InnerBlocks(u))
       /\ \A b \in ToSet(u.breakstack) \cup ToSet(u.continuestack) : K[b] = {}
  BY <1>10 DEF StateFits, InOrder
<1>12. /\ DOMAIN st' = DOMAIN u /\ st'.block = u.block /\ st'.variables = u.variables
       /\ st'.current_block = u.current_block
       /\ st'.breakstack = WithoutLast(u.breakstack)
       /\ st'.continuestack = WithoutLast(u.continuestack)
  BY <1>4, <1>10 DEF StateFits
<1>13. \A stack \in Seq(InnerBlocks(u)) : Len(stack) > 0 =>
            /\ WithoutLast(stack) \in Seq(InnerBlocks(u))
            /\ ToSet(WithoutLast(stack)) \subseteq ToSet(stack)
  <2>. SUFFICES ASSUME NEW stack \in Seq(InnerBlocks(u)), Len(stack) > 0
                PROVE  /\ WithoutLast(stack) \in Seq(InnerBlocks(u))
                       /\ ToSet(WithoutLast(stack)) \subseteq ToSet(stack)
    OBVIOUS
  <2>1. PICK r, k : r = SubSeq(stack, 1, Len(stack) - k) /\ k = 1
    OBVIOUS
  <2>2. PICK blocks : blocks = InnerBlocks(u) /\ stack \in Seq(blocks) /\ k \in Nat /\ k <= Len(stack)
    BY <2>1
  <2>3. r \in Seq(blocks) /\ Len(r) = Len(stack) - k /\ \A i \in 1 .. Len(stack) - k : r[i] = stack[i]
    <3>1. r = SubSeq(stack, 1, Len(stack) - k)
      BY <2>1
    <3>2. stack \in Seq(blocks) /\ k \in Nat /\ k <= Len(stack)
      BY <2>2
    <3>. QED  BY <3>1, <3>2, DropSome
  <2>4. ToSet(r) \subseteq ToSet(stack)
    BY <2>1, <2>2, <2>3 DEF ToSet
  <2>. QED  BY <2>1, <2>2, <2>3, <2>4 DEF WithoutLast
<1>14. Onwards(function, K, st, st')
  <2>1. st'.breakstack \in Seq(InnerBlocks(u)) /\ st'.continuestack \in Seq(InnerBlocks(u))
    BY <1>8, <1>9, <1>11, <1>12, <1>13
  <2>2. \A b \in ToSet(st'.breakstack) \cup ToSet(st'.continuestack) : K[b] = {}
    BY <1>8, <1>9, <1>11, <1>12, <1>13
  <2>. QED  BY <1>9, <1>12, <2>1, <2>2, StacksOnwards
<1>15. Level(item) /\ ItemInOrder(K, item)
  BY <1>2, <1>6, LevelLoop DEF LoopKnown
<1>16. Settles(K, q)
  BY <1>3, <1>6, <1>15, BodyThenSettles
<1>17. Ordered(function, K, st', q \o Tail(agenda), values)
  BY <1>4, <1>7, <1>14, <1>16, GoesOnOrdered
<1>. QED  BY <1>4, <1>5, <1>17
-----------------------------------------------------------------------------
\* And and or: what is set before the branch is set in all three blocks, and
\* the result too in the one where the two ways meet.
AtBranch(f, K, s) ==
    LET n == newblock(s)
    IN  [b \in Nat |-> IF b \in {n + 1, n + 2} THEN Live(f, K, s)
                       ELSE IF b = n + 3 THEN Live(f, K, s) \cup {newest(s) + 1} ELSE K[b]]
Branched(f, K, s, K2, n, result, u) ==
    /\ InOrder(f, K2, u) /\ StateFits(f, u)
    /\ DOMAIN u.block = DOMAIN s.block \cup {n + 1, n + 2, n + 3}
    /\ {n + 1, n + 2, n + 3} \subseteq InnerBlocks(u)
    /\ Live(f, K, s) \subseteq Live(f, K2, u)
    /\ result \in VariablesIn(u) /\ result \in Temps(f)
    /\ K2[n + 1] = Live(f, K, s) /\ K2[n + 2] = Live(f, K, s)
    /\ K2[n + 3] = Live(f, K, s) \cup {result}
    /\ \A b \in DOMAIN s.block : K2[b] = K[b]
    /\ \A b \in Nat \ DOMAIN u.block : K2[b] = {}

LEMMA ShortCircuitGrows ==
    ASSUME NEW f, NEW K, NEW s, StateFits(f, s), InOrder(f, K, s),
           NEW e, e.operands[1].line \in Nat, NEW value,
           NEW result \in VariablesIn(s), NEW t, t = ShortCircuit(s, e, value, result)
    PROVE  Grows(f, K, s, t) /\ (result \in Temps(f) => result \in Live(f, K, t))
<1>1. PICK ins : ins = Instruction("CONSTANT", value, << >>, result, e.operands[1].line, TRUE)
  OBVIOUS
<1>2. /\ ins.kind = "CONSTANT" /\ ins.operands = << >> /\ ins.destvar = result
      /\ ins.line = e.operands[1].line /\ t = add_instruction(s, ins)
  BY <1>1 DEF Instruction, ShortCircuit
<1>3. InstructionFits(s, ins) /\ ins.kind # "ADDRESS_OF_VARIABLE"
  BY <1>2 DEF InstructionFits
<1>4. OperandSet(ins) = {}
  BY <1>2 DEF OperandSet
<1>5. Temps(f) \cap OperandSet(ins) \subseteq Live(f, K, s)
  BY <1>4
<1>6. /\ Grows(f, K, s, t)
      /\ ins.destvar \in Temps(f) => ins.destvar \in Live(f, K, t)
  BY <1>2, <1>3, <1>5, PlainInstructionGrows
<1>. QED  BY <1>2, <1>6

LEMMA AtBranchLaw ==
    ASSUME NEW f, NEW K, NEW s, StateFits(f, s), InOrder(f, K, s),
           \A b \in Nat \ DOMAIN s.block : K[b] = {},
           NEW n, n = newblock(s), NEW K2, K2 = AtBranch(f, K, s)
    PROVE  /\ K2 \in [Nat -> SUBSET Temps(f)] /\ n \in Nat
           /\ K2[n + 1] = Live(f, K, s) /\ K2[n + 2] = Live(f, K, s)
           /\ K2[n + 3] = Live(f, K, s) \cup {newest(s) + 1}
           /\ \A b \in DOMAIN s.block : K2[b] = K[b]
           /\ \A b \in Nat : b \notin DOMAIN s.block \cup {n + 1, n + 2, n + 3} => K2[b] = {}
<1>1. n \in Nat /\ DOMAIN s.block = 1 .. n
  BY Lengths DEF newblock
<1>2. Live(f, K, s) \subseteq Temps(f)
  BY LiveIsTemps
<1>3. newest(s) + 1 \in Temps(f)
  <2>1. PICK u : u = add_variable(s, boolType)
    OBVIOUS
  <2>. QED  BY <2>1, GrowVariable
<1>4. K \in [Nat -> SUBSET Temps(f)]
  BY DEF InOrder
<1>5. PICK L, r : L = Live(f, K, s) /\ r = newest(s) + 1
  OBVIOUS
<1>6. K2 = [b \in Nat |-> IF b \in {n + 1, n + 2} THEN L ELSE IF b = n + 3 THEN L \cup {r} ELSE K[b]]
  BY <1>5 DEF AtBranch
<1>7. L \in SUBSET Temps(f) /\ L \cup {r} \in SUBSET Temps(f)
  BY <1>2, <1>3, <1>5
<1>8. K2 \in [Nat -> SUBSET Temps(f)]
  BY <1>4, <1>6, <1>7
<1>9. n + 1 \in Nat /\ n + 2 \in Nat /\ n + 3 \in Nat /\ n + 3 \notin {n + 1, n + 2}
  BY <1>1
<1>10. K2[n + 1] = L /\ K2[n + 2] = L /\ K2[n + 3] = L \cup {r}
  BY <1>6, <1>9
<1>11. \A b \in DOMAIN s.block : b \in Nat /\ b \notin {n + 1, n + 2, n + 3}
  BY <1>1
<1>12. \A b \in DOMAIN s.block : K2[b] = K[b]
  BY <1>6, <1>11
<1>13. \A b \in Nat : b \notin DOMAIN s.block \cup {n + 1, n + 2, n + 3} => K2[b] = {}
  BY <1>6
<1>. QED  BY <1>1, <1>5, <1>8, <1>10, <1>12, <1>13

LEMMA BranchOrders ==
    ASSUME NEW f, NEW K, NEW s, StateFits(f, s), InOrder(f, K, s),
           \A b \in Nat \ DOMAIN s.block : K[b] = {},
           NEW lhs, GoodFor(s, "bool", lhs), lhs \in Live(f, K, s),
           NEW s0, s0 = add_variable(s, boolType),
           NEW s1, s1 = add_block(s0), NEW s2, s2 = add_block(s1), NEW w, w = add_block(s2),
           NEW n, n = newblock(s),
           NEW u, u = add_jump(w, lhs, n + 1, n + 2, n + 1)
    PROVE  Branched(f, K, s, AtBranch(f, K, s), n, newest(s) + 1, u)
<1>1. PICK K2, result : K2 = AtBranch(f, K, s) /\ result = newest(s) + 1
  OBVIOUS
<1>2. /\ K2 \in [Nat -> SUBSET Temps(f)] /\ n \in Nat
      /\ K2[n + 1] = Live(f, K, s) /\ K2[n + 2] = Live(f, K, s)
      /\ K2[n + 3] = Live(f, K, s) \cup {result}
      /\ \A b \in DOMAIN s.block : K2[b] = K[b]
      /\ \A b \in Nat : b \notin DOMAIN s.block \cup {n + 1, n + 2, n + 3} => K2[b] = {}
  BY <1>1, AtBranchLaw
<1>3. /\ Grows(f, K, s, s0) /\ Live(f, K, s0) = Live(f, K, s)
      /\ result \in VariablesIn(s0) /\ result \in Temps(f)
  BY <1>1, GrowVariable
<1>4. s0.block = s.block /\ \A v \in VariablesIn(s) : v \in VariablesIn(s0) /\ TypeOf(s0, v) = TypeOf(s, v)
  <2>1. s0.block = s.block
    BY NewVariable
  <2>. QED  BY <1>3, <2>1, GrowsKeeps
<1>5. StateFits(f, s0) /\ InOrder(f, K, s0)
  BY <1>3, GrowsKeeps
<1>6. InOrder(f, K2, s0) /\ Live(f, K2, s0) = Live(f, K, s)
  BY <1>2, <1>3, <1>4, <1>5, OrderRename
<1>7. newblock(s0) = n
  BY <1>4 DEF newblock
<1>8. /\ InOrder(f, K2, s1) /\ StateFits(f, s1) /\ Live(f, K2, s1) = Live(f, K, s)
      /\ DOMAIN s1.block = DOMAIN s.block \cup {n + 1}
      /\ newblock(s1) = n + 1 /\ n + 1 \in InnerBlocks(s1) /\ s1.variables = s0.variables
  <2>1. /\ InOrder(f, K2, s1) /\ StateFits(f, s1) /\ Live(f, K2, s1) = Live(f, K2, s0)
        /\ DOMAIN s1.block = DOMAIN s0.block \cup {newblock(s0) + 1}
        /\ newblock(s1) = newblock(s0) + 1 /\ newblock(s0) + 1 \in InnerBlocks(s1)
        /\ s1.variables = s0.variables
    BY <1>5, <1>6, OrderAddBlock
  <2>. QED  BY <1>4, <1>6, <1>7, <2>1
<1>9. /\ InOrder(f, K2, s2) /\ StateFits(f, s2) /\ Live(f, K2, s2) = Live(f, K, s)
      /\ DOMAIN s2.block = DOMAIN s.block \cup {n + 1, n + 2}
      /\ newblock(s2) = n + 2 /\ {n + 1, n + 2} \subseteq InnerBlocks(s2) /\ s2.variables = s0.variables
  <2>1. /\ InOrder(f, K2, s2) /\ StateFits(f, s2) /\ Live(f, K2, s2) = Live(f, K2, s1)
        /\ DOMAIN s2.block = DOMAIN s1.block \cup {newblock(s1) + 1}
        /\ newblock(s2) = newblock(s1) + 1 /\ newblock(s1) + 1 \in InnerBlocks(s2)
        /\ InnerBlocks(s1) \subseteq InnerBlocks(s2) /\ s2.variables = s1.variables
    BY <1>8, OrderAddBlock
  <2>2. newblock(s1) + 1 = n + 2
    BY <1>2, <1>8
  <2>. QED  BY <1>8, <2>1, <2>2
<1>10. /\ InOrder(f, K2, w) /\ StateFits(f, w) /\ Live(f, K2, w) = Live(f, K, s)
       /\ DOMAIN w.block = DOMAIN s.block \cup {n + 1, n + 2, n + 3}
       /\ {n + 1, n + 2, n + 3} \subseteq InnerBlocks(w) /\ w.variables = s0.variables
  <2>1. /\ InOrder(f, K2, w) /\ StateFits(f, w) /\ Live(f, K2, w) = Live(f, K2, s2)
        /\ DOMAIN w.block = DOMAIN s2.block \cup {newblock(s2) + 1}
        /\ newblock(s2) + 1 \in InnerBlocks(w)
        /\ InnerBlocks(s2) \subseteq InnerBlocks(w) /\ w.variables = s2.variables
    BY <1>9, OrderAddBlock
  <2>2. newblock(s2) + 1 = n + 3
    BY <1>2, <1>9
  <2>. QED  BY <1>9, <2>1, <2>2
<1>11. GoodFor(w, "bool", lhs)
  <2>1. \A v \in VariablesIn(s) : v \in VariablesIn(w) /\ TypeOf(w, v) = TypeOf(s, v)
    BY <1>4, <1>10 DEF VariablesIn, TypeOf
  <2>. QED  BY <2>1 DEF GoodFor
<1>12. PICK i, j : i = n + 1 /\ j = n + 2
  OBVIOUS
<1>13. /\ i \in DOMAIN w.block /\ j \in DOMAIN w.block /\ i \in InnerBlocks(w)
       /\ Decides(w, lhs, i, j) /\ u = add_jump(w, lhs, i, j, i)
  BY <1>10, <1>11, <1>12 DEF Decides
<1>14. JumpKnows(K2, Live(f, K2, w), lhs, i, j)
  BY <1>2, <1>10, <1>12 DEF JumpKnows
<1>15. Arrives(f, K2, w, u, i)
  BY <1>10, <1>13, <1>14, OrderAddJump
<1>16. /\ InOrder(f, K2, u) /\ StateFits(f, u) /\ DOMAIN u.block = DOMAIN w.block
       /\ K2[i] \subseteq Live(f, K2, u) /\ u.variables = w.variables
  BY <1>15 DEF Arrives
<1>17. InnerBlocks(u) = InnerBlocks(w) /\ result \in VariablesIn(u)
  BY <1>3, <1>10, <1>16 DEF InnerBlocks, VariablesIn
<1>18. Branched(f, K, s, K2, n, result, u)
  BY <1>2, <1>3, <1>10, <1>12, <1>16, <1>17 DEF Branched
<1>. QED  BY <1>1, <1>18

\* The rest of or: the result is set, and code goes on where the left side is false.
LEMMA OrSideOrders ==
    ASSUME NEW f, NEW K, NEW s, NEW K2, NEW n, NEW result, NEW u, Branched(f, K, s, K2, n, result, u),
           NEW v, NEW e, e.operands[1].line \in Nat,
           NEW value, v = ShortCircuit(u, e, value, result),
           NEW t, t = Goto(v, n + 3, n + 2)
    PROVE  Branched(f, K, s, K2, n, result, t)
<1>1. /\ InOrder(f, K2, u) /\ StateFits(f, u)
      /\ DOMAIN u.block = DOMAIN s.block \cup {n + 1, n + 2, n + 3}
      /\ {n + 1, n + 2, n + 3} \subseteq InnerBlocks(u)
      /\ Live(f, K, s) \subseteq Live(f, K2, u)
      /\ result \in VariablesIn(u) /\ result \in Temps(f)
      /\ K2[n + 2] = Live(f, K, s) /\ K2[n + 3] = Live(f, K, s) \cup {result}
  BY DEF Branched
<1>2. Grows(f, K2, u, v) /\ result \in Live(f, K2, v)
  BY <1>1, ShortCircuitGrows
<1>3. /\ StateFits(f, v) /\ InOrder(f, K2, v) /\ VariablesIn(u) \subseteq VariablesIn(v)
      /\ Live(f, K2, u) \subseteq Live(f, K2, v)
  BY <1>2, GrowsKeeps
<1>4. DOMAIN v.block = DOMAIN u.block /\ InnerBlocks(v) = InnerBlocks(u)
  BY <1>2, GrowsOnwards DEF InnerBlocks
<1>5. PICK target, new : target = n + 3 /\ new = n + 2
  OBVIOUS
<1>6. target \in DOMAIN v.block /\ K2[target] \subseteq Live(f, K2, v) /\ new \in InnerBlocks(v)
      /\ t = Goto(v, target, new)
  BY <1>1, <1>2, <1>3, <1>4, <1>5
<1>7. Arrives(f, K2, v, t, new)
  BY <1>3, <1>6, OrderGoto
<1>8. /\ InOrder(f, K2, t) /\ StateFits(f, t) /\ DOMAIN t.block = DOMAIN v.block
      /\ K2[new] \subseteq Live(f, K2, t) /\ t.variables = v.variables
  BY <1>7 DEF Arrives
<1>9. InnerBlocks(t) = InnerBlocks(v) /\ result \in VariablesIn(t)
  BY <1>1, <1>3, <1>8 DEF InnerBlocks, VariablesIn
<1>. QED  BY <1>1, <1>4, <1>5, <1>8, <1>9 DEF Branched

\* The calls for the right side and what follows it: known is set before
\* them, and L where the two ways meet.
RightSide(K2, c, known, L, h, vals2, call, item, last, q, x, y) ==
    /\ known \subseteq Nat /\ L \subseteq known /\ c.result \in Nat /\ K2[c.done] = L \cup {c.result}
    /\ h \in Nat /\ vals2 \in Seq(L \cup {NoVar}) /\ Len(vals2) = h
    /\ Operand(call)
    /\ item.call = "rhs_evaluated" /\ item.c = c
    /\ last.call \in Joining /\ last.c = c
    /\ q = <<call, item>> \o <<last>>
    /\ x = [known |-> known, height |-> h, kept |-> h]
    /\ y = [known |-> L \cup {c.result}, height |-> h + 1, kept |-> h]

LEMMA RightSideFlows ==
    ASSUME NEW K2, NEW c, NEW known, NEW L, NEW h, NEW vals2, NEW call, NEW item, NEW last,
           NEW q, NEW x, NEW y, RightSide(K2, c, known, L, h, vals2, call, item, last, q, x, y)
    PROVE  Flows(K2, vals2, q, x, y) /\ List(q) /\ ToSet(q) = {call, item, last}
<1>. USE DEF RightSide
<1>. DEFINE m == [known |-> known \cup {c.result}, height |-> h, kept |-> h]
<1>1. x \in Stages /\ y \in Stages /\ m \in Stages
  <2>1. /\ L \cup {c.result} \in SUBSET Nat /\ known \cup {c.result} \in SUBSET Nat /\ known \in SUBSET Nat
        /\ h + 1 \in Nat /\ h <= h + 1 /\ h <= h
    <3>1. h + 1 \in Nat /\ h <= h + 1 /\ h <= h
      OBVIOUS
    <3>2. L \cup {c.result} \subseteq Nat /\ known \cup {c.result} \subseteq Nat
      OBVIOUS
    <3>. QED  BY <3>1, <3>2
  <2>2. x \in Stages
    BY <2>1, MakeStage
  <2>3. y \in Stages
    BY <2>1, MakeStage
  <2>4. m \in Stages
    BY <2>1, MakeStage
  <2>. QED  BY <2>2, <2>3, <2>4
<1>2. m.known = known \cup {c.result} /\ m.height = h /\ m.kept = h
  OBVIOUS
<1>. HIDE DEF m
<1>3. /\ Raised(x, 1).known = known /\ Raised(x, 1).height = h + 1 /\ Raised(x, 1).kept = h
  BY DEF Raised
<1>4. /\ TakenCount(item) = 1 /\ LeftCount(item) = 0 /\ item.call \notin Outermost /\ item.call \notin Joining
      /\ Carried(K2, item) = {} /\ Remains(K2, item, known) = known \cup {c.result}
  BY DEF TakenCount, LeftCount, LeftFor, Outermost, Joining, Carried, Remains
<1>5. Carry(K2, vals2, item, Raised(x, 1), m)
  BY <1>2, <1>3, <1>4 DEF Carry
<1>6. PICK calls : calls = <<call>>
  OBVIOUS
<1>7. List(calls) /\ ToSet(calls) = {call} /\ Len(calls) = 1
  BY <1>6, ShortLists
<1>8. \A k \in ToSet(calls) : Operand(k)
  BY <1>7
<1>9. Flows(K2, vals2, calls \o <<item>>, x, m)
  <2>1. Carry(K2, vals2, item, Raised(x, Len(calls)), m)
    BY <1>5, <1>7
  <2>. QED  BY <1>1, <1>7, <1>8, <2>1, FlowsResult
<1>10. /\ TakenCount(last) = 0 /\ LeftCount(last) = 1 /\ last.call \notin Outermost
       /\ Carried(K2, last) = L \cup {c.result}
       /\ Remains(K2, last, m.known) = L \cup {c.result}
  BY DEF TakenCount, LeftCount, LeftFor, UsesOf, Outermost, Joining, Carried, Remains
<1>11. Survive(K2, vals2, last, m)
  <2>1. \A i \in 1 .. h : vals2[i] \in L \cup {NoVar}
    OBVIOUS
  <2>. QED  BY <1>2, <2>1 DEF Survive
<1>12. Carry(K2, vals2, last, m, y)
  <2>1. y.known = L \cup {c.result} /\ y.height = h + 1 /\ y.kept = h
    OBVIOUS
  <2>2. Carried(K2, last) \subseteq m.known /\ y.known \subseteq Remains(K2, last, m.known)
    BY <1>2, <1>10, <2>1
  <2>3. /\ TakenCount(last) <= m.height /\ y.height = (m.height - TakenCount(last)) + LeftCount(last)
        /\ y.kept <= m.kept /\ y.kept <= m.height - TakenCount(last)
    BY <1>2, <1>10, <2>1
  <2>. QED  BY <1>10, <1>11, <2>2, <2>3 DEF Carry
<1>13. Flows(K2, vals2, <<last>>, m, y)
  BY <1>1, <1>12, FlowsOne
<1>14. PICK first, lasts : first = <<call, item>> /\ lasts = <<last>> /\ q = first \o lasts
  OBVIOUS
<1>15. List(first) /\ ToSet(first) = {call, item} /\ List(lasts) /\ ToSet(lasts) = {last}
  BY <1>14, ShortLists
<1>16. List(q) /\ ToSet(q) = {call, item, last}
  <2>1. List(first \o lasts) /\ ToSet(first \o lasts) = ToSet(first) \cup ToSet(lasts)
    BY <1>15, ConcatList
  <2>. QED  BY <1>14, <1>15, <2>1
<1>17. first = calls \o <<item>>
  BY <1>6, <1>14, TwoLists
<1>18. Flows(K2, vals2, first, x, m) /\ Flows(K2, vals2, lasts, m, y)
  BY <1>9, <1>13, <1>14, <1>17
<1>19. Flows(K2, vals2, first \o lasts, x, y)
  BY <1>15, <1>18, FlowsConcat
<1>. QED  BY <1>14, <1>16, <1>19
-----------------------------------------------------------------------------
LEMMA BuildAndOrBranchOrders ==
    ASSUME BuildInv, NEW K, Ordered(function, K, st, agenda, values), BuildAndOrBranch
    PROVE  \E K2 : Ordered(function', K2, st', agenda', values')
<1>. DEFINE e == agenda[1].e
            n == newblock(st)
            s0 == add_variable(st, boolType)
            s1 == add_block(s0)
            s2 == add_block(s1)
            w == add_block(s2)
            lhs == values[Len(values)]
            u == add_jump(w, lhs, n + 1, n + 2, n + 1)
            name == IF e.kind = "AND" THEN "lhsfalse" ELSE "and_or_done"
            L == Live(function, K, st)
            vals2 == KeptOf(values, 1)
<1>1. PICK c : c = [e |-> e, result |-> newest(w), lhsfalse |-> n + 2, done |-> n + 3]
  OBVIOUS
<1>2. c.e = e /\ c.result = newest(w) /\ c.lhsfalse = n + 2 /\ c.done = n + 3
  BY <1>1
<1>3. PICK call, item, last : /\ call = Evaluate(e.operands[2])
                              /\ item = [call |-> "rhs_evaluated", c |-> c]
                              /\ last = [call |-> name, c |-> c]
  OBVIOUS
<1>4. /\ item.call = "rhs_evaluated" /\ item.c = c /\ last.call = name /\ last.c = c
      /\ last.call \in Joining /\ Operand(call)
  BY <1>3, OperandLists DEF Joining
<1>5. PICK q : q = <<call, item>> \o <<last>>
  OBVIOUS
<1>6. /\ Construction(function, st, agenda, values) /\ agenda # << >>
      /\ agenda[1].call = "lhs_evaluated"
      /\ function' = function /\ values' = vals2
  BY DEF BuildInv, BuildAndOrBranch, IsNext, Top, AllBut, KeptOf
<1>7. /\ function \in Functions /\ StateFits(function, st) /\ values \in Seq(Nat)
      /\ e \in Trees[function].expressions /\ e.kind \in {"AND", "OR"}
  BY <1>6, TopLaw DEF ItemFits
<1>8. n \in Nat /\ (n + 1) + 1 = n + 2 /\ (n + 1) + 2 = n + 3
  <2>1. n \in Nat
    BY <1>7, Lengths DEF newblock
  <2>. QED  BY <2>1
<1>9. agenda' = q \o Tail(agenda)
  <2>1. CASE e.kind = "AND"
    BY <1>1, <1>3, <1>5, <1>8, <2>1 DEF BuildAndOrBranch, Top, Later
  <2>2. CASE e.kind # "AND"
    BY <1>1, <1>3, <1>5, <1>8, <2>2 DEF BuildAndOrBranch, Top, Later
  <2>. QED  BY <2>1, <2>2
<1>10. IF e.kind = "AND" THEN st' = u
       ELSE st' = Goto(ShortCircuit(u, e, "TRUE", c.result), n + 3, n + 2)
  BY <1>1, <1>2, <1>8 DEF BuildAndOrBranch, Top, Returned
<1>11. TakenCount(agenda[1]) = 1 /\ LeftCount(agenda[1]) = 1
  BY <1>6 DEF TakenCount, LeftFor, LeftCount, UsesOf
<1>12. GoodFor(st, "bool", lhs) /\ lhs \in L
  BY <1>6, ConditionLive
<1>13. newest(w) = newest(st) + 1
  BY <1>7, <1>12, BranchLaw
<1>14. InOrder(function, K, st) /\ (\A b \in Nat \ DOMAIN st.block : K[b] = {})
  BY DEF Ordered
<1>15. PICK K2 : K2 = AtBranch(function, K, st)
  OBVIOUS
<1>16. Branched(function, K, st, K2, n, newest(st) + 1, u)
  BY <1>7, <1>12, <1>14, <1>15, BranchOrders
<1>17. Remains(K, agenda[1], L) = L
  BY <1>6 DEF Remains, Outermost, Joining
<1>18. vals2 \in Seq(L \cup {NoVar}) /\ Len(vals2) = Len(values) - 1
       /\ SameBelow(values, vals2, Len(values) - 1) /\ Len(values) \in Nat /\ 1 <= Len(values)
  <2>1. PICK args : args = TakenOf(values, TakenCount(agenda[1]))
    OBVIOUS
  <2>2. PICK taken : taken = 1 /\ taken = TakenCount(agenda[1])
    BY <1>11
  <2>3. /\ KeptOf(values, taken) \in Seq(L \cup {NoVar})
        /\ Len(KeptOf(values, taken)) = Len(values) - taken
        /\ SameBelow(values, KeptOf(values, taken), Len(values) - taken)
    BY <1>6, <2>1, <2>2, TakenLive
  <2>4. Len(values) \in Nat /\ TakenCount(agenda[1]) <= Len(values)
    BY <1>6, TopOrdered
  <2>. QED  BY <2>2, <2>3, <2>4
<1>. HIDE DEF e, n, u, name, L, vals2, lhs, s0, s1, s2, w
<1>19. Branched(function, K, st, K2, n, c.result, st')
  <2>1. CASE e.kind = "AND"
    BY <1>2, <1>10, <1>13, <1>16, <2>1
  <2>2. CASE e.kind # "AND"
    <3>1. PICK value : st' = Goto(ShortCircuit(u, e, value, c.result), n + 3, n + 2)
      BY <1>10, <2>2
    <3>2. PICK v : v = ShortCircuit(u, e, value, c.result)
      OBVIOUS
    <3>3. Branched(function, K, st, K2, n, c.result, u) /\ st' = Goto(v, n + 3, n + 2)
      BY <1>2, <1>13, <1>16, <3>1, <3>2
    <3>. QED  BY <1>7, <3>2, <3>3, OrSideOrders, SideLines
  <2>. QED  BY <2>1, <2>2
<1>20. PICK known, h : known = Live(function, K2, st') /\ h = Len(values) - 1
  OBVIOUS
<1>21. /\ StateFits(function, st') /\ InOrder(function, K2, st') /\ DOMAIN st.block \subseteq DOMAIN st'.block
       /\ \A b \in DOMAIN st.block : K2[b] = K[b]
       /\ \A b \in Nat \ DOMAIN st'.block : K2[b] = {}
       /\ L \subseteq known /\ c.result \in Temps(function)
       /\ K2[c.done] = L \cup {c.result} /\ K2[c.lhsfalse] = L
  BY <1>2, <1>19, <1>20 DEF Branched, L
<1>22. known \subseteq Nat /\ c.result \in Nat /\ h \in Nat
  <2>1. Live(function, K2, st') \subseteq Nat
    BY <1>21, LiveIsTemps
  <2>2. c.result \in Nat
    BY <1>21 DEF Temps
  <2>. QED  BY <1>18, <1>20, <2>1, <2>2
<1>23. PICK x, y : /\ x = [known |-> known, height |-> h, kept |-> h]
                   /\ y = [known |-> L \cup {c.result}, height |-> h + 1, kept |-> h]
  OBVIOUS
<1>24. Flows(K2, vals2, q, x, y) /\ List(q) /\ ToSet(q) = {call, item, last}
  <2>1. vals2 \in Seq(L \cup {NoVar}) /\ Len(vals2) = h
    BY <1>18, <1>20
  <2>2. PICK l, kept : l = L /\ kept = vals2
    OBVIOUS
  <2>3. /\ known \subseteq Nat /\ l \subseteq known /\ c.result \in Nat /\ K2[c.done] = l \cup {c.result}
        /\ h \in Nat /\ kept \in Seq(l \cup {NoVar}) /\ Len(kept) = h
    BY <1>21, <1>22, <2>1, <2>2
  <2>4. x = [known |-> known, height |-> h, kept |-> h] /\ y = [known |-> l \cup {c.result}, height |-> h + 1, kept |-> h]
    BY <1>23, <2>2
  <2>5. Flows(K2, kept, q, x, y) /\ List(q) /\ ToSet(q) = {call, item, last}
    <3>1. RightSide(K2, c, known, l, h, kept, call, item, last, q, x, y)
      BY <1>4, <1>5, <2>3, <2>4 DEF RightSide
    <3>. QED  BY <3>1, RightSideFlows
  <2>. QED  BY <2>2, <2>5
<1>25. x = Now(function, K2, st', vals2)
  BY <1>18, <1>20, <1>23 DEF Now
<1>26. vals2 \in Seq(Live(function, K2, st') \cup {NoVar})
  BY <1>18, <1>20, <1>21
<1>27. \A i \in ToSet(q) : ItemInOrder(K2, i)
  <2>1. ItemInOrder(K2, call)
    BY <1>4 DEF ItemInOrder, Joining, Operand
  <2>2. ItemInOrder(K2, item)
    BY <1>4, <1>21 DEF ItemInOrder, Joining
  <2>3. ItemInOrder(K2, last)
    BY <1>4, <1>21 DEF ItemInOrder, Joining
  <2>. QED  BY <1>24, <2>1, <2>2, <2>3
<1>28. ASSUME NEW m \in Stages, Carry(K, values, agenda[1], Now(function, K, st, values), m)
       PROVE  /\ SameBelow(values, vals2, m.kept)
              /\ \E a, z : Flows(K2, vals2, q, a, z) /\ Above(Now(function, K2, st', vals2), a) /\ Above(z, m)
  <2>1. Now(function, K, st, values).known = L /\ Now(function, K, st, values).height = Len(values)
    BY DEF Now, L
  <2>2. m.known \subseteq L /\ m.height = h + 1 /\ m.kept <= h /\ m.kept \in Nat
    BY <1>11, <1>17, <1>18, <1>20, <1>28, <2>1, StageParts DEF Carry
  <2>3. y.known = L \cup {c.result} /\ y.height = h + 1 /\ y.kept = h
    BY <1>23
  <2>4. x.known = known /\ x.height = h /\ x.kept = h
    BY <1>23
  <2>5. Above(y, m)
    BY <2>2, <2>3 DEF Above
  <2>6. Above(Now(function, K2, st', vals2), x)
    BY <1>22, <1>25, <2>4 DEF Above
  <2>7. SameBelow(values, vals2, m.kept)
    BY <1>18, <1>20, <2>2 DEF SameBelow
  <2>. QED  BY <1>24, <2>5, <2>6, <2>7
<1>29. Ordered(function, K2, st', q \o Tail(agenda), vals2)
  BY <1>6, <1>21, <1>24, <1>26, <1>27, <1>28, StepOrders
<1>. QED  BY <1>6, <1>9, <1>29
-----------------------------------------------------------------------------
\* What is known where the two ways meet: the values that wait, and the result.
LEMMA Meeting ==
    ASSUME NEW K, Construction(function, st, agenda, values), Ordered(function, K, st, agenda, values),
           agenda # << >>, agenda[1].call \in Joining
    PROVE  /\ K[agenda[1].c.done] \subseteq Live(function, K, st)
           /\ agenda[1].c.result \in K[agenda[1].c.done]
           /\ values \in Seq(K[agenda[1].c.done] \cup {NoVar}) /\ Len(values) \in Nat
           /\ AndOrFits(function, st, agenda[1].c) /\ function \in Functions
           /\ StateFits(function, st) /\ InOrder(function, K, st)
           /\ TakenCount(agenda[1]) = 0 /\ LeftCount(agenda[1]) = 1
           /\ agenda[1].call \notin Outermost
           /\ Remains(K, agenda[1], Live(function, K, st)) = K[agenda[1].c.done]
<1>. DEFINE c == agenda[1].c
<1>1. agenda[1].call \in {"lhsfalse", "and_or_done"}
  BY DEF Joining
<1>2. /\ TakenCount(agenda[1]) = 0 /\ LeftCount(agenda[1]) = 1
      /\ agenda[1].call \notin Outermost
      /\ Remains(K, agenda[1], Live(function, K, st)) = K[c.done]
      /\ Carried(K, agenda[1]) = K[c.done]
  BY <1>1 DEF TakenCount, LeftFor, LeftCount, UsesOf, Outermost, Joining, Remains, Carried
<1>3. /\ InOrder(function, K, st) /\ StateFits(function, st) /\ ItemInOrder(K, agenda[1])
      /\ Len(values) \in Nat /\ Carried(K, agenda[1]) \subseteq Live(function, K, st)
      /\ \A i \in 1 .. Len(values) : values[i] \in K[c.done] \cup {NoVar}
  BY TopOrdered
<1>4. function \in Functions /\ AndOrFits(function, st, c)
  BY <1>1, TopLaw DEF ItemFits
<1>5. c.result \in K[c.done]
  BY <1>3 DEF ItemInOrder
<1>6. values \in Seq(K[c.done] \cup {NoVar})
  <2>1. values \in Seq(Nat)
    BY TopLaw
  <2>2. PICK S, q : S = K[c.done] \cup {NoVar} /\ q = values
    OBVIOUS
  <2>3. q \in Seq(Nat) /\ \A i \in 1 .. Len(q) : q[i] \in S
    BY <1>3, <2>1, <2>2
  <2>4. q \in Seq(S)
    BY <2>3
  <2>. QED  BY <2>2, <2>4
<1>. QED  BY <1>2, <1>3, <1>4, <1>5, <1>6

LEMMA BuildAndFalseOrders ==
    ASSUME BuildInv, NEW K, Ordered(function, K, st, agenda, values), BuildAndFalse
    PROVE  Ordered(function', K, st', agenda', values')
<1>. DEFINE c == agenda[1].c
            u == Goto(st, c.done, c.lhsfalse)
            now == Now(function, K, st', values)
<1>1. PICK item : item = [call |-> "and_or_done", c |-> c]
  OBVIOUS
<1>2. item.call = "and_or_done" /\ item.c = c
  BY <1>1
<1>3. PICK q : q = <<item>>
  OBVIOUS
<1>4. /\ Construction(function, st, agenda, values) /\ agenda # << >>
      /\ agenda[1].call = "lhsfalse"
      /\ function' = function /\ values' = values
  BY DEF BuildInv, BuildAndFalse, IsNext, Top
<1>5. agenda' = q \o Tail(agenda)
  BY <1>1, <1>3 DEF BuildAndFalse, Top, Later
<1>6. PICK value : st' = ShortCircuit(u, c.e, value, c.result)
  BY DEF BuildAndFalse, Top
<1>30. function \in Functions
  BY <1>4, TopLaw
<1>7. PICK L : L = K[c.done]
  OBVIOUS
<1>8. /\ L \subseteq Live(function, K, st) /\ c.result \in L
      /\ values \in Seq(L \cup {NoVar}) /\ Len(values) \in Nat
      /\ AndOrFits(function, st, c)
      /\ StateFits(function, st) /\ InOrder(function, K, st)
      /\ TakenCount(agenda[1]) = 0 /\ LeftCount(agenda[1]) = 1
      /\ Remains(K, agenda[1], Live(function, K, st)) = L
  <2>1. agenda[1].call \in Joining
    BY <1>4 DEF Joining
  <2>. QED  BY <1>4, <1>7, <2>1, Meeting
<1>9. L \ {c.result} \subseteq K[c.lhsfalse]
  <2>1. ItemInOrder(K, agenda[1])
    BY <1>4, TopOrdered
  <2>. QED  BY <1>4, <1>7, <2>1 DEF ItemInOrder
<1>10. \A b \in Nat \ DOMAIN st.block : K[b] = {}
  BY DEF Ordered
<1>. HIDE DEF c
<1>11. c.result \in VariablesIn(st) /\ c.done \in DOMAIN st.block /\ c.lhsfalse \in InnerBlocks(st)
  BY <1>8 DEF AndOrFits, InnerBlocks
<1>12. Arrives(function, K, st, u, c.lhsfalse)
  <2>1. PICK target, new : target = c.done /\ new = c.lhsfalse
    OBVIOUS
  <2>2. /\ target \in DOMAIN st.block /\ K[target] \subseteq Live(function, K, st) /\ new \in InnerBlocks(st)
        /\ u = Goto(st, target, new)
    BY <1>7, <1>8, <1>11, <2>1
  <2>3. Arrives(function, K, st, u, new)
    BY <1>8, <2>2, OrderGoto
  <2>. QED  BY <2>1, <2>3
<1>. HIDE DEF u
<1>13. /\ InOrder(function, K, u) /\ StateFits(function, u) /\ DOMAIN u.block = DOMAIN st.block
       /\ K[c.lhsfalse] \subseteq Live(function, K, u) /\ c.result \in VariablesIn(u)
  BY <1>11, <1>12 DEF Arrives, VariablesIn
<1>14. Grows(function, K, u, st') /\ (c.result \in Temps(function) => c.result \in Live(function, K, st'))
  BY <1>6, <1>8, <1>13, <1>30, ShortCircuitGrows, SideLines DEF AndOrFits
<1>15. /\ StateFits(function, st') /\ InOrder(function, K, st')
       /\ Live(function, K, u) \subseteq Live(function, K, st') /\ DOMAIN st'.block = DOMAIN st.block
  <2>1. StateFits(function, st') /\ InOrder(function, K, st')
        /\ Live(function, K, u) \subseteq Live(function, K, st')
    BY <1>14, GrowsKeeps
  <2>2. DOMAIN st'.block = DOMAIN u.block
    BY <1>13, <1>14, GrowsOnwards
  <2>. QED  BY <1>13, <2>1, <2>2
<1>16. L \subseteq Live(function, K, st')
  <2>1. Live(function, K, st) \subseteq Temps(function)
    BY <1>8, LiveIsTemps
  <2>. QED  BY <1>8, <1>9, <1>13, <1>14, <1>15, <2>1
<1>17. /\ values \in Seq(Live(function, K, st') \cup {NoVar})
       /\ now \in Stages /\ now.known = Live(function, K, st')
       /\ now.height = Len(values) /\ now.kept = Len(values)
  <2>1. values \in Seq(Live(function, K, st') \cup {NoVar})
    BY <1>8, <1>16
  <2>. QED  BY <1>8, <1>15, <2>1, NowStage
<1>. HIDE DEF now
<1>18. List(q) /\ ToSet(q) = {item}
  BY <1>3, ShortLists
<1>19. \A i \in ToSet(q) : ItemInOrder(K, i)
  <2>1. ItemInOrder(K, item)
    BY <1>2, <1>7, <1>8 DEF ItemInOrder, Joining
  <2>. QED  BY <1>18, <2>1
<1>20. ASSUME NEW m \in Stages, Carry(K, values, agenda[1], Now(function, K, st, values), m)
       PROVE  /\ SameBelow(values, values, m.kept)
              /\ \E x, w : Flows(K, values, q, x, w) /\ Above(now, x) /\ Above(w, m)
  <2>1. Now(function, K, st, values).known = Live(function, K, st)
        /\ Now(function, K, st, values).height = Len(values)
    BY DEF Now
  <2>2. /\ m.height = Len(values) + 1 /\ m.kept <= Len(values) /\ m.kept \in Nat
        /\ m.known \subseteq L
    BY <1>8, <1>20, <2>1, StageParts DEF Carry
  <2>3. /\ TakenCount(item) = 0 /\ LeftCount(item) = 1 /\ Carried(K, item) = L
        /\ item.call \notin Outermost
        /\ Remains(K, item, now.known) = L
    BY <1>2, <1>7 DEF TakenCount, LeftFor, LeftCount, UsesOf, Carried, Outermost, Joining, Remains
  <2>4. Survive(K, values, item, now)
    <3>1. \A i \in 1 .. Len(values) : values[i] \in L \cup {NoVar}
      BY <1>8
    <3>. QED  BY <1>2, <1>7, <1>8, <1>17, <3>1 DEF Survive
  <2>5. Carry(K, values, item, now, m)
    BY <1>8, <1>16, <1>17, <2>2, <2>3, <2>4 DEF Carry
  <2>6. Flows(K, values, q, now, m)
    BY <1>3, <1>17, <2>5, FlowsOne
  <2>7. Above(now, now) /\ Above(m, m)
    BY <1>8, <1>17, <2>2 DEF Above
  <2>8. SameBelow(values, values, m.kept)
    BY DEF SameBelow
  <2>. QED  BY <2>6, <2>7, <2>8
<1>21. Ordered(function, K, st', q \o Tail(agenda), values)
  BY <1>4, <1>10, <1>15, <1>17, <1>18, <1>19, <1>20, StepOrders DEF now
<1>. QED  BY <1>4, <1>5, <1>21

LEMMA BuildAndOrDoneOrders ==
    ASSUME BuildInv, NEW K, Ordered(function, K, st, agenda, values), BuildAndOrDone
    PROVE  Ordered(function', K, st', agenda', values')
<1>. DEFINE c == agenda[1].c
            u == Goto(st, c.done, c.done)
            r == [s |-> u, v |-> c.result]
            q == Converted(r, c.e)
<1>1. /\ Construction(function, st, agenda, values) /\ agenda # << >>
      /\ agenda[1].call = "and_or_done"
      /\ function' = function /\ st' = q.s /\ values' = Append(values, q.v)
      /\ agenda' = Tail(agenda)
  BY DEF BuildInv, BuildAndOrDone, IsNext, Top, Later
<1>2. PICK L : L = K[c.done]
  OBVIOUS
<1>3. /\ L \subseteq Live(function, K, st) /\ c.result \in L
      /\ values \in Seq(L \cup {NoVar}) /\ Len(values) \in Nat
      /\ AndOrFits(function, st, c) /\ function \in Functions
      /\ StateFits(function, st) /\ InOrder(function, K, st)
      /\ TakenCount(agenda[1]) = 0 /\ LeftCount(agenda[1]) = 1
      /\ agenda[1].call \notin Outermost
      /\ Remains(K, agenda[1], Live(function, K, st)) = L
  <2>1. agenda[1].call \in Joining
    BY <1>1 DEF Joining
  <2>. QED  BY <1>1, <1>2, <2>1, Meeting
<1>. HIDE DEF c
<1>4. Moved(function, st, u, c.done)
  BY <1>3, GotoLaw DEF AndOrFits
<1>5. Arrives(function, K, st, u, c.done)
  <2>1. PICK target : target = c.done
    OBVIOUS
  <2>2. /\ target \in DOMAIN st.block /\ K[target] \subseteq Live(function, K, st) /\ target \in InnerBlocks(st)
        /\ u = Goto(st, target, target)
    BY <1>2, <1>3, <2>1 DEF AndOrFits, InnerBlocks
  <2>3. Arrives(function, K, st, u, target)
    BY <1>3, <2>2, OrderGoto
  <2>. QED  BY <2>1, <2>3
<1>6. r.s = u /\ r.v = c.result
  OBVIOUS
<1>. HIDE DEF u, r
<1>7. /\ c.e \in Trees[function].expressions /\ c.e.kind \in {"AND", "OR"}
      /\ StateFits(function, u) /\ c.result \in VariablesIn(u) /\ TypeOf(u, c.result) = boolType
  BY <1>3, <1>4, ContinuesKeeps DEF AndOrFits, Moved, Continues
<1>8. Returns(function, u, c.e, r)
  BY <1>6, <1>7, StraightReflexive DEF Returns, ReturnsNothing
<1>9. InOrder(function, K, u) /\ L \subseteq Live(function, K, u) /\ DOMAIN u.block = DOMAIN st.block
  BY <1>2, <1>5 DEF Arrives
<1>10. Evaluates(function, K, u, c.e, r)
  <2>1. Grows(function, K, u, u)
    BY <1>7, <1>9, GrowsReflexive
  <2>. QED  BY <1>3, <1>6, <1>9, <2>1 DEF Evaluates
<1>11. Grows(function, K, u, q.s) /\ (q.v # NoVar => q.v \in Live(function, K, q.s))
  BY <1>3, <1>7, <1>8, <1>10, ConvertedMakes
<1>. HIDE DEF q
<1>12. /\ StateFits(function, q.s) /\ InOrder(function, K, q.s)
       /\ L \subseteq Live(function, K, q.s) /\ DOMAIN q.s.block = DOMAIN st.block
  <2>1. StateFits(function, q.s) /\ InOrder(function, K, q.s)
        /\ Live(function, K, u) \subseteq Live(function, K, q.s)
    BY <1>11, GrowsKeeps
  <2>2. DOMAIN q.s.block = DOMAIN u.block
    BY <1>7, <1>9, <1>11, GrowsOnwards
  <2>. QED  BY <1>9, <2>1, <2>2
<1>13. PICK S, vals, v : S = Live(function, K, q.s) \cup {NoVar} /\ vals = values /\ v = q.v
  OBVIOUS
<1>14. vals \in Seq(S) /\ v \in S /\ Len(vals) \in Nat
  BY <1>3, <1>11, <1>12, <1>13
<1>15. /\ Append(vals, v) \in Seq(S) /\ Len(Append(vals, v)) = Len(vals) + 1
       /\ \A i \in 1 .. Len(vals) : Append(vals, v)[i] = vals[i]
  BY <1>14
<1>16. SameBelow(vals, Append(vals, v), Len(vals))
  BY <1>15 DEF SameBelow
<1>17. /\ Append(values, q.v) \in Seq(Live(function, K, q.s) \cup {NoVar})
       /\ SameBelow(values, Append(values, q.v), Len(values) - TakenCount(agenda[1]))
       /\ Len(Append(values, q.v)) = (Len(values) - TakenCount(agenda[1])) + LeftCount(agenda[1])
  <2>1. PICK n : n = Len(values) - TakenCount(agenda[1]) /\ n = Len(vals)
    BY <1>3, <1>13
  <2>. QED  BY <1>3, <1>13, <1>15, <1>16, <2>1
<1>18. Ordered(function, K, q.s, Tail(agenda), Append(values, q.v))
  BY <1>1, <1>3, <1>12, <1>17, StepLeaves
<1>. QED  BY <1>1, <1>18

LEMMA BuildAddressAbortsOrders ==
    ASSUME BuildInv, NEW K, Ordered(function, K, st, agenda, values), BuildAddressAborts
    PROVE  Ordered(function', K, st', agenda', values')
BY DEF BuildAddressAborts
-----------------------------------------------------------------------------
\* Some choice of the variables known at each block has everything in order.
OrderInv == \E K : Ordered(function, K, st, agenda, values)

LEMMA FreshOrder ==
    ASSUME NEW f \in Functions, NEW s, s = FreshState(f), NEW K, K = [b \in Nat |-> {}],
           StateFits(f, s)
    PROVE  InOrder(f, K, s)
<1>1. /\ s.block = <<EmptyBlock, EmptyBlock>> /\ s.breakstack = << >> /\ s.continuestack = << >>
  BY DEF FreshState
<1>2. /\ DOMAIN s.block = {1, 2} /\ \A b \in {1, 2} : s.block[b] = EmptyBlock
  BY <1>1
<1>3. \A b \in {1, 2} : /\ s.block[b].instructions = << >>
                        /\ s.block[b].iftrue = NoBlock /\ s.block[b].iffalse = NoBlock
  BY <1>2 DEF EmptyBlock
<1>4. \A b \in Nat : K[b] = {}
  OBVIOUS
<1>5. ToSet(s.breakstack) = {} /\ ToSet(s.continuestack) = {}
  BY <1>1 DEF ToSet
<1>6. InstructionsIn(s) = {}
  <2>1. \A b \in DOMAIN s.block : s.block[b].instructions = << >>
    BY <1>2, <1>3
  <2>2. \A b \in DOMAIN s.block : ToSet(s.block[b].instructions) = {}
    BY <2>1 DEF ToSet
  <2>. QED  BY <2>2 DEF InstructionsIn
<1>7. \A b \in DOMAIN s.block : BlockInOrder(f, K, s, b)
  <2>. SUFFICES ASSUME NEW b \in DOMAIN s.block PROVE BlockInOrder(f, K, s, b)
    OBVIOUS
  <2>1. s.block[b].instructions = << >> /\ s.block[b].iftrue = NoBlock /\ s.block[b].iffalse = NoBlock
    BY <1>2, <1>3
  <2>2. Len(s.block[b].instructions) = 0
    BY <2>1
  <2>3. CodeInOrder(f, s.block[b].instructions, K[b])
    BY <2>2 DEF CodeInOrder
  <2>4. JumpInOrder(K, s.block[b], After(f, K, s, b))
    BY <2>1 DEF JumpInOrder
  <2>. QED  BY <2>3, <2>4 DEF BlockInOrder
<1>8. \A b \in DOMAIN s.block : TargetsFit(s, s.block[b])
  BY <1>2, <1>3 DEF TargetsFit
<1>9. NoBoolPointers(f, s)
  BY <1>6 DEF NoBoolPointers
<1>10. K \in [Nat -> SUBSET Temps(f)] /\ K[StartBlock] = {} /\ K[EndBlock] = {}
  BY DEF StartBlock, EndBlock
<1>. QED  BY <1>5, <1>7, <1>8, <1>9, <1>10 DEF InOrder

LEMMA InitOrder == BuildInit(Functions) => OrderInv
<1>. SUFFICES ASSUME BuildInit(Functions) PROVE OrderInv
  OBVIOUS
<1>1. /\ function \in Functions /\ st = FreshState(function) /\ values = << >>
      /\ agenda = Body(function.body) \o <<[call |-> "implicit_return"]>>
  BY DEF BuildInit, FreshAgenda
<1>2. StateFits(function, st)
  BY <1>1, FreshStateFits
<1>3. PICK item : item = [call |-> "implicit_return"]
  OBVIOUS
<1>4. item.call = "implicit_return"
  BY <1>3
<1>5. PICK K : K = [b \in Nat |-> {}]
  OBVIOUS
<1>6. InOrder(function, K, st)
  BY <1>1, <1>2, <1>5, FreshOrder
<1>7. Level(item) /\ ItemInOrder(K, item)
  BY <1>4 DEF Level, Outermost, TakenCount, LeftFor, ItemInOrder, Joining
<1>8. BodyOK(Trees[function], function.body)
  BY <1>1, FunctionsAssumption DEF FunctionOK
<1>9. Settles(K, agenda)
  BY <1>1, <1>3, <1>7, <1>8, BodyThenSettles
<1>10. /\ Bottom \in Stages /\ Bottom.known = {} /\ Bottom.height = 0 /\ Bottom.kept = 0
  BY BottomStage
<1>11. PICK vals : vals = << >>
  OBVIOUS
<1>12. Len(vals) = 0 /\ \A S : vals \in Seq(S)
  BY <1>11
<1>13. Now(function, K, st, vals) \in Stages
       /\ Now(function, K, st, vals).height = 0 /\ Now(function, K, st, vals).kept = 0
  BY <1>2, <1>6, <1>12, NowStage
<1>14. Above(Now(function, K, st, vals), Bottom)
  BY <1>10, <1>13 DEF Above
<1>15. /\ List(agenda) /\ \A i \in ToSet(agenda) : ItemInOrder(K, i)
       /\ Flows(K, vals, agenda, Bottom, Bottom)
  BY <1>9, <1>11 DEF Settles
<1>16. (\A i : SameDone(K, K, i)) /\ \A k : SameBelow(vals, vals, k)
  BY DEF SameDone, SameBelow
<1>17. \E y : Flows(K, vals, agenda, Now(function, K, st, vals), y)
  BY <1>13, <1>14, <1>15, <1>16, FlowsGoOn
<1>18. \A b \in Nat \ DOMAIN st.block : K[b] = {}
  BY <1>5
<1>19. Ordered(function, K, st, agenda, vals)
  BY <1>6, <1>12, <1>15, <1>17, <1>18 DEF Ordered
<1>. QED  BY <1>1, <1>11, <1>19 DEF OrderInv

LEMMA BuildStepOrders ==
    ASSUME BuildInv, OrderInv, BuildStep
    PROVE  OrderInv'
<1>1. PICK K : Ordered(function, K, st, agenda, values)
  BY DEF OrderInv
<1>. SUFFICES \E K2 : Ordered(function', K2, st', agenda', values')
  BY DEF OrderInv
<1>2. CASE BuildAndOrBranch
  BY <1>1, <1>2, BuildAndOrBranchOrders
<1>3. CASE \/ BuildOperands \/ BuildExpression
           \/ BuildAddressOperands \/ BuildAddressAborts \/ BuildAddressOfExpression
  BY <1>1, <1>3, BuildOperandsOrders, BuildExpressionOrders, BuildAddressOperandsOrders,
     BuildAddressAbortsOrders, BuildAddressOfExpressionOrders
<1>4. CASE BuildAndOr \/ BuildAndOrCopy \/ BuildAndFalse \/ BuildAndOrDone
  BY <1>1, <1>4, BuildAndOrOrders, BuildAndOrCopyOrders, BuildAndFalseOrders, BuildAndOrDoneOrders
<1>5. CASE BuildStructInit \/ BuildStructField \/ BuildStoreField \/ BuildStructDone
  BY <1>1, <1>5, BuildStructInitOrders, BuildStructFieldOrders, BuildStoreFieldOrders,
     BuildStructDoneOrders
<1>6. CASE BuildStatementOperands \/ BuildStatement \/ BuildBreak \/ BuildContinue
  BY <1>1, <1>6, BuildStatementOperandsOrders, BuildStatementOrders, BuildBreakOrders,
     BuildContinueOrders
<1>7. CASE BuildIf \/ BuildIfCondition \/ BuildIfBodyDone \/ BuildIfDone
  BY <1>1, <1>7, BuildIfOrders, BuildIfConditionOrders, BuildIfBodyDoneOrders, BuildIfDoneOrders
<1>8. CASE \/ BuildLoop \/ BuildLoopEntered \/ BuildLoopCondition
           \/ BuildLoopBodyDone \/ BuildLoopRepeat \/ BuildImplicitReturn
  BY <1>1, <1>8, BuildLoopOrders, BuildLoopEnteredOrders, BuildLoopConditionOrders,
     BuildLoopBodyDoneOrders, BuildLoopRepeatOrders, BuildImplicitReturnOrders
<1>. QED  BY <1>2, <1>3, <1>4, <1>5, <1>6, <1>7, <1>8 DEF BuildStep

LEMMA BuildStutterOrders == OrderInv /\ UNCHANGED buildVars => OrderInv'
BY DEF OrderInv, buildVars
=============================================================================
