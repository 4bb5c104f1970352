--------------------------- MODULE BuildCfg_proofs ---------------------------
(***************************************************************************)
(* build_function returns a sound graph, whatever function the checker     *)
(* accepted: WellFormed, with a bool variable for every branch and all its *)
(* stacks empty, and with pointers that only go to variables it made up.   *)
(*                                                                         *)
(* The graph is unsound for as long as it is under construction: blocks    *)
(* have no jump yet, variables wait on the stack of values.  The invariant *)
(* says which call still to be made is going to see to each of them.       *)
(***************************************************************************)
EXTENDS CheckedFunctions, BuildCfg, SharedLemmas

List(q) == q \in Seq(ToSet(q))

InnerBlocks(s) == DOMAIN s.block \ {EndBlock}
InstructionsIn(s) == UNION {ToSet(s.block[b].instructions) : b \in DOMAIN s.block}
VariablesIn(s) == 1 .. Len(s.variables)

\* Instructions mention variables of the graph.
InstructionFits(s, ins) ==
    /\ ins.destvar \in VariablesIn(s) \cup {NoVar}
    /\ ins.operands \in Seq(VariablesIn(s))
    /\ ins.kind \in {"VARCPY", "ADDRESS_OF_VARIABLE"} => Len(ins.operands) = 1
    /\ ins.line \in Nat
\* A pointer to a variable goes to a temporary nothing points to; nothing
\* points to the return value.
Addressable(f, v) == v \in DOMAIN f.variables => f.variables[v].name # "return"
PointersFit(f, instructions) ==
    \A i, j \in instructions :
        i.kind = "ADDRESS_OF_VARIABLE" /\ j.kind = "ADDRESS_OF_VARIABLE" =>
            /\ i.destvar > Len(f.variables) /\ i.destvar \notin OperandSet(j)
            /\ \A v \in OperandSet(j) : Addressable(f, v)

BlocksFit(f, s) ==
    /\ List(s.block) /\ Len(s.block) >= 2
    /\ \A b \in DOMAIN s.block :
        /\ DOMAIN s.block[b] = {"instructions", "branchvar", "iftrue", "iffalse"}
        /\ List(s.block[b].instructions)
    /\ s.block[EndBlock] = EmptyBlock
    /\ \A ins \in InstructionsIn(s) : InstructionFits(s, ins)
    /\ PointersFit(f, InstructionsIn(s))
\* The function's variables first, then those the builder made up.
VariablesFit(f, s) ==
    /\ List(f.variables) /\ List(s.variables)
    /\ Len(f.variables) <= Len(s.variables)
    /\ \A v \in VariablesIn(s) : s.variables[v].id = v
    /\ \A v \in DOMAIN f.variables : s.variables[v] = f.variables[v]
    /\ \A v \in VariablesIn(s) : v > Len(f.variables) =>
            s.variables[v].name = "" /\ s.variables[v].is_argument = FALSE
StateFits(f, s) ==
    /\ DOMAIN s = {"block", "variables", "structs", "current_block", "breakstack", "continuestack"}
    /\ BlocksFit(f, s)
    /\ VariablesFit(f, s)
    /\ s.current_block \in InnerBlocks(s)
    /\ s.breakstack \in Seq(InnerBlocks(s)) /\ s.continuestack \in Seq(InnerBlocks(s))

\* The blocks whose jump has not been set.
JumpIsSet(s, b) ==
    LET block == s.block[b]
    IN  /\ {block.iftrue, block.iffalse} \subseteq DOMAIN s.block
        /\ block.iftrue # block.iffalse =>
                /\ block.branchvar \in VariablesIn(s)
                /\ TypeOf(s, block.branchvar) = boolType
Unfinished(s) == {b \in InnerBlocks(s) : ~JumpIsSet(s, b)}
-----------------------------------------------------------------------------
\* What a returned variable is good for: nothing, a value, a condition.
Uses == {"any", "value", "bool"}
GoodFor(s, use, v) ==
    /\ v \in VariablesIn(s) \cup {NoVar}
    /\ use \in {"value", "bool"} => v # NoVar
    /\ use = "bool" => TypeOf(s, v) = boolType
UsesOf(e) ==
    {"any"} \cup (IF ReturnsNothing(e) THEN {}
                  ELSE {"value"} \cup (IF FinalType(e) = boolType THEN {"bool"} ELSE {}))

\* The state between two calls: what is on the stack of values, how many
\* loops the code is in, and whether there is a block to put code into.
Layouts == [uses : Seq(Uses), loops : Nat, open : BOOLEAN]
EndLayout == [uses |-> <<>>, loops |-> 0, open |-> FALSE]
Fits(s, vals, x) ==
    /\ Len(vals) = Len(x.uses)
    /\ \A i \in 1 .. Len(vals) : GoodFor(s, x.uses[i], vals[i])
    /\ Len(s.breakstack) = x.loops /\ Len(s.continuestack) = x.loops

\* What an item takes from the stack, and what it leaves there.
TakenCount(item) ==
    CASE item.call = "expression_result" -> Len(ExpressionCalls(item.e))
      [] item.call = "address_result" -> Len(AddressCalls(item.e))
      [] item.call = "statement_result" -> Len(StatementCalls(item.s))
      [] item.call \in {"lhs_evaluated", "rhs_evaluated", "store_field",
                        "if_condition", "loop_condition"} -> 1
      [] OTHER -> 0
TakenFor(item) ==
    CASE item.call \in {"lhs_evaluated", "if_condition", "loop_condition"} -> "bool"
      [] item.call = "statement_result" ->
            IF item.s.kind = "EXPRESSION_STATEMENT" THEN "any" ELSE "value"
      [] OTHER -> "value"
LeftFor(item) ==
    CASE item.call \in {"build_expression", "expression_result", "lhs_evaluated", "struct_done"} ->
            UsesOf(item.e)
      [] item.call \in {"lhsfalse", "and_or_done"} -> UsesOf(item.c.e)
      [] item.call \in {"build_address_of_expression", "address_result"} -> {"value"}
      [] OTHER -> {}
Without(x, n) ==
    [uses |-> SubSeq(x.uses, 1, Len(x.uses) - n), loops |-> x.loops, open |-> x.open]
Leaves(item, x, y) ==
    /\ IF LeftFor(item) = {} THEN y.uses = x.uses
       ELSE \E use \in LeftFor(item) : y.uses = Append(x.uses, use)
    /\ x.loops = IF item.call = "loop_body_done" THEN y.loops + 1 ELSE y.loops
    /\ IF item.call = "implicit_return" THEN y = EndLayout ELSE y.open
Effect(item, x, y) ==
    LET n == TakenCount(item)
    IN  /\ x.open
        /\ n <= Len(x.uses)
        /\ \A i \in 1 .. Len(x.uses) : i > Len(x.uses) - n => x.uses[i] = TakenFor(item)
        /\ Leaves(item, Without(x, n), y)

\* The calls of the agenda, one after the other, lead from x to y.
Leads(items, x, y) ==
    \E lay \in [1 .. Len(items) + 1 -> Layouts] :
        /\ lay[1] = x
        /\ lay[Len(items) + 1] = y
        /\ \A i \in 1 .. Len(items) : Effect(items[i], lay[i], lay[i + 1])
-----------------------------------------------------------------------------
AndOrFits(f, s, c) ==
    /\ c.e \in Trees[f].expressions /\ c.e.kind \in {"AND", "OR"}
    /\ c.result \in VariablesIn(s) /\ TypeOf(s, c.result) = boolType
    /\ {c.lhsfalse, c.done} \subseteq InnerBlocks(s)
IfFits(f, item) ==
    /\ item.s \in Trees[f].statements /\ item.s.kind = "IF"
    /\ item.i \in 1 .. Len(item.s.if_and_elifs)
LoopFits(f, s, l) ==
    /\ l.s \in Trees[f].statements /\ l.s.kind \in {"WHILE", "FOR"}
    /\ {l.cond, l.body, l.incr, l.done} \subseteq InnerBlocks(s)

\* What a call is about: parts of the function, blocks and variables that
\* are there.
ItemFits(f, s, item) ==
    LET call == item.call
    IN  /\ call \in {"build_expression", "build_address_of_expression", "expression_result",
                     "address_result", "lhs_evaluated", "struct_field", "store_field",
                     "struct_done"} =>
                item.e \in Trees[f].expressions
        /\ call = "expression_result" => item.e.kind \notin {"AND", "OR", "BRACE_INIT"}
        /\ call = "address_result" => item.e.kind \in AddressableKinds
        /\ call = "lhs_evaluated" => item.e.kind \in {"AND", "OR"}
        /\ call \in {"rhs_evaluated", "lhsfalse", "and_or_done"} => AndOrFits(f, s, item.c)
        /\ call = "struct_field" => /\ item.i \in DOMAIN item.e.operands
                                    /\ item.ptr \in VariablesIn(s)
        /\ call = "store_field" => item.fieldptr \in VariablesIn(s)
        /\ call = "struct_done" => /\ item.e.kind = "BRACE_INIT"
                                   /\ item.instance \in VariablesIn(s)
                                   /\ TypeOf(s, item.instance) = item.e.type
        /\ call \in {"build_statement", "statement_result"} => item.s \in Trees[f].statements
        /\ call = "statement_result" =>
                item.s.kind \in {"ASSIGN", "DECLARE_LOCAL_VAR", "RETURN_VALUE",
                                 "RETURN_WITHOUT_VALUE", "EXPRESSION_STATEMENT"}
        /\ call \in {"if_condition", "if_body_done"} => IfFits(f, item)
        /\ call \in {"if_condition", "if_body_done", "if_done"} => item.done \in InnerBlocks(s)
        /\ call = "if_body_done" => item.otherwise \in InnerBlocks(s)
        /\ call \in {"loop_entered", "loop_condition", "loop_body_done", "loop_repeat"} =>
                LoopFits(f, s, item.l)

\* The blocks a call is going to finish, or to start.
Pending(item) ==
    CASE item.call = "lhsfalse" -> {item.c.lhsfalse, item.c.done}
      [] item.call = "and_or_done" -> {item.c.done}
      [] item.call \in {"if_condition", "if_done"} -> {item.done}
      [] item.call = "if_body_done" -> {item.otherwise, item.done}
      [] item.call = "loop_entered" -> {item.l.cond, item.l.body, item.l.incr, item.l.done}
      [] item.call = "loop_condition" -> {item.l.body, item.l.incr, item.l.done}
      [] item.call = "loop_body_done" -> {item.l.incr, item.l.done}
      [] item.call = "loop_repeat" -> {item.l.done}
      [] OTHER -> {}
PendingIn(items) == UNION {Pending(item) : item \in ToSet(items)}

Construction(f, s, items, vals) ==
    /\ f \in Functions
    /\ StateFits(f, s)
    /\ List(items) /\ \A item \in ToSet(items) : ItemFits(f, s, item)
    /\ vals \in Seq(Nat)
    /\ \E x \in Layouts :
        /\ Fits(s, vals, x)
        /\ Leads(items, x, EndLayout)
        /\ Unfinished(s) \subseteq
                PendingIn(items) \cup (IF x.open THEN {s.current_block} ELSE {})

\* The inductive invariant.
BuildInv == Construction(function, st, agenda, values)
-----------------------------------------------------------------------------
\* Lists of anything.
LEMMA AppendList ==
    ASSUME NEW q, List(q), NEW e
    PROVE  /\ List(Append(q, e)) /\ ToSet(Append(q, e)) = ToSet(q) \cup {e}
           /\ Len(Append(q, e)) = Len(q) + 1 /\ Append(q, e)[Len(q) + 1] = e
           /\ \A i \in 1 .. Len(q) : Append(q, e)[i] = q[i]
<1>1. q \in Seq(ToSet(q) \cup {e})
  BY DEF List
<1>2. Append(q, e) \in Seq(ToSet(q) \cup {e})
  BY <1>1
<1>3. /\ Len(Append(q, e)) = Len(q) + 1 /\ Append(q, e)[Len(q) + 1] = e
      /\ \A i \in 1 .. Len(q) : Append(q, e)[i] = q[i]
  BY <1>1
<1>4. ToSet(Append(q, e)) = ToSet(q) \cup {e}
  BY <1>1, <1>2, <1>3 DEF ToSet
<1>. QED  BY <1>2, <1>3, <1>4 DEF List

LEMMA ConcatList ==
    ASSUME NEW q, List(q), NEW r, List(r)
    PROVE  /\ List(q \o r) /\ ToSet(q \o r) = ToSet(q) \cup ToSet(r)
           /\ Len(q \o r) = Len(q) + Len(r)
           /\ \A i \in 1 .. Len(q) : (q \o r)[i] = q[i]
           /\ \A i \in 1 .. Len(r) : (q \o r)[Len(q) + i] = r[i]
<1>. DEFINE S == ToSet(q) \cup ToSet(r)
<1>1. q \in Seq(S) /\ r \in Seq(S)
  BY DEF List
<1>. HIDE DEF S
<1>2. /\ q \o r \in Seq(S) /\ Len(q \o r) = Len(q) + Len(r)
      /\ Len(q) \in Nat /\ Len(r) \in Nat
      /\ \A i \in 1 .. Len(q) + Len(r) : (q \o r)[i] = IF i <= Len(q) THEN q[i] ELSE r[i - Len(q)]
  BY <1>1
<1>3. \A i \in 1 .. Len(q) : (q \o r)[i] = q[i]
  BY <1>2
<1>4. \A i \in 1 .. Len(r) : (q \o r)[Len(q) + i] = r[i]
  BY <1>2
<1>5. ToSet(q \o r) = ToSet(q) \cup ToSet(r)
  <2>1. DOMAIN q = 1 .. Len(q) /\ DOMAIN r = 1 .. Len(r) /\ DOMAIN (q \o r) = 1 .. Len(q) + Len(r)
    BY <1>1, <1>2
  <2>2. ToSet(q) \subseteq ToSet(q \o r)
    BY <2>1, <1>2, <1>3 DEF ToSet
  <2>3. ToSet(r) \subseteq ToSet(q \o r)
    <3>1. \A i \in 1 .. Len(r) : Len(q) + i \in 1 .. Len(q) + Len(r)
      BY <1>2
    <3>. QED  BY <2>1, <3>1, <1>4 DEF ToSet
  <2>4. ToSet(q \o r) \subseteq ToSet(q) \cup ToSet(r)
    BY <2>1, <1>2 DEF ToSet
  <2>. QED  BY <2>2, <2>3, <2>4
<1>. QED  BY <1>2, <1>3, <1>4, <1>5 DEF S, List

LEMMA ReplaceList ==
    ASSUME NEW q, List(q), NEW i, NEW e, NEW r, r = [q EXCEPT ![i] = e]
    PROVE  List(r) /\ Len(r) = Len(q)
<1>1. DOMAIN q = 1 .. Len(q) /\ Len(q) \in Nat
  BY DEF List
<1>2. DOMAIN r = 1 .. Len(q) /\ r = [j \in 1 .. Len(q) |-> r[j]]
  BY <1>1
<1>3. \A S : (\A j \in 1 .. Len(q) : r[j] \in S) => r \in Seq(S) /\ Len(r) = Len(q)
  <2>. SUFFICES ASSUME NEW S, \A j \in 1 .. Len(q) : r[j] \in S
                PROVE  r \in Seq(S) /\ Len(r) = Len(q)
    OBVIOUS
  <2>1. PICK h : h = [j \in 1 .. Len(q) |-> r[j]]
    OBVIOUS
  <2>2. h \in Seq(S) /\ Len(h) = Len(q)
    BY <1>1, <2>1
  <2>. QED  BY <1>2, <2>1, <2>2
<1>4. \A j \in 1 .. Len(q) : r[j] \in ToSet(r)
  BY <1>2 DEF ToSet
<1>. QED  BY <1>3, <1>4 DEF List

LEMMA ShortLists ==
    /\ List(<< >>) /\ ToSet(<< >>) = {}
    /\ \A a : List(<<a>>) /\ ToSet(<<a>>) = {a} /\ Len(<<a>>) = 1
    /\ \A a, b : List(<<a, b>>) /\ ToSet(<<a, b>>) = {a, b} /\ Len(<<a, b>>) = 2
BY DEF List, ToSet

LEMMA SeqOver ==
    ASSUME NEW S, NEW T, NEW q \in Seq(S), \A i \in 1 .. Len(q) : q[i] \in T
    PROVE  q \in Seq(T)
OBVIOUS

LEMMA TailList ==
    ASSUME NEW q, List(q), q # << >>
    PROVE  /\ List(Tail(q)) /\ ToSet(q) = {q[1]} \cup ToSet(Tail(q))
           /\ Len(q) = Len(Tail(q)) + 1 /\ Len(Tail(q)) \in Nat
           /\ \A i \in 1 .. Len(Tail(q)) : Tail(q)[i] = q[i + 1]
<1>1. /\ Tail(q) \in Seq(ToSet(q)) /\ Len(q) = Len(Tail(q)) + 1 /\ Len(Tail(q)) \in Nat
      /\ \A i \in 1 .. Len(Tail(q)) : Tail(q)[i] = q[i + 1]
      /\ DOMAIN q = 1 .. Len(q) /\ DOMAIN Tail(q) = 1 .. Len(Tail(q))
  BY DEF List
<1>2. \A x : x \in ToSet(q) <=> \E i \in 1 .. Len(q) : x = q[i]
  BY <1>1 DEF ToSet
<1>3. \A x : x \in ToSet(Tail(q)) <=> \E i \in 1 .. Len(Tail(q)) : x = Tail(q)[i]
  BY <1>1 DEF ToSet
<1>4. \A i \in 1 .. Len(q) : i = 1 \/ (i - 1 \in 1 .. Len(Tail(q)) /\ q[i] = Tail(q)[i - 1])
  BY <1>1
<1>5. \A i \in 1 .. Len(Tail(q)) : i + 1 \in 1 .. Len(q) /\ Tail(q)[i] = q[i + 1]
  BY <1>1
<1>6. 1 \in 1 .. Len(q)
  BY <1>1
<1>7. ToSet(q) \subseteq {q[1]} \cup ToSet(Tail(q))
  <2>. SUFFICES ASSUME NEW x \in ToSet(q) PROVE x = q[1] \/ x \in ToSet(Tail(q))
    OBVIOUS
  <2>1. PICK i \in 1 .. Len(q) : x = q[i]
    BY <1>2
  <2>. QED  BY <2>1, <1>3, <1>4
<1>8. {q[1]} \cup ToSet(Tail(q)) \subseteq ToSet(q)
  <2>. SUFFICES ASSUME NEW x \in ToSet(Tail(q)) PROVE x \in ToSet(q)
    BY <1>2, <1>6
  <2>1. PICK i \in 1 .. Len(Tail(q)) : x = Tail(q)[i]
    BY <1>3
  <2>. QED  BY <2>1, <1>2, <1>5
<1>9. Tail(q) \in Seq(ToSet(Tail(q)))
  BY <1>1, <1>3, SeqOver
<1>. QED  BY <1>1, <1>7, <1>8, <1>9 DEF List
-----------------------------------------------------------------------------
\* t comes after s: nothing that was there has gone or changed its meaning.
Continues(f, s, t) ==
    /\ StateFits(f, s) /\ StateFits(f, t)
    /\ Len(s.variables) <= Len(t.variables)
    /\ \A v \in VariablesIn(s) : t.variables[v] = s.variables[v]
    /\ Len(s.block) <= Len(t.block)
SameJump(p, q) == p.branchvar = q.branchvar /\ p.iftrue = q.iftrue /\ p.iffalse = q.iffalse
\* Between s and t only instructions and variables were added.
Straight(f, s, t) ==
    /\ Continues(f, s, t)
    /\ Len(s.block) = Len(t.block)
    /\ \A b \in DOMAIN s.block : SameJump(s.block[b], t.block[b])
    /\ t.current_block = s.current_block
    /\ t.breakstack = s.breakstack /\ t.continuestack = s.continuestack

LEMMA Lengths ==
    ASSUME NEW f, NEW s, StateFits(f, s)
    PROVE  /\ Len(s.variables) \in Nat /\ DOMAIN s.variables = 1 .. Len(s.variables)
           /\ Len(s.block) \in Nat /\ DOMAIN s.block = 1 .. Len(s.block)
           /\ Len(f.variables) \in Nat /\ DOMAIN f.variables = 1 .. Len(f.variables)
           /\ Len(f.variables) <= Len(s.variables)
<1>1. \A q : List(q) => Len(q) \in Nat /\ DOMAIN q = 1 .. Len(q)
  BY DEF List
<1>2. List(s.variables) /\ List(s.block) /\ List(f.variables) /\ Len(f.variables) <= Len(s.variables)
  BY DEF StateFits, BlocksFit, VariablesFit
<1>. QED  BY <1>1, <1>2

LEMMA StraightReflexive ==
    ASSUME NEW f, NEW s, StateFits(f, s)
    PROVE  Straight(f, s, s)
BY Lengths DEF Straight, Continues, SameJump

LEMMA ContinuesTransitive ==
    ASSUME NEW f, NEW s, NEW t, NEW u, Continues(f, s, t), Continues(f, t, u)
    PROVE  Continues(f, s, u)
<1>1. StateFits(f, s) /\ StateFits(f, t) /\ StateFits(f, u)
  BY DEF Continues
<1>2. /\ Len(s.variables) \in Nat /\ Len(t.variables) \in Nat /\ Len(u.variables) \in Nat
      /\ Len(s.block) \in Nat /\ Len(t.block) \in Nat /\ Len(u.block) \in Nat
  BY <1>1, Lengths
<1>3. VariablesIn(s) \subseteq VariablesIn(t)
  BY <1>2 DEF Continues, VariablesIn
<1>. QED  BY <1>1, <1>2, <1>3 DEF Continues

LEMMA StraightTransitive ==
    ASSUME NEW f, NEW s, NEW t, NEW u, Straight(f, s, t), Straight(f, t, u)
    PROVE  Straight(f, s, u)
<1>1. Continues(f, s, u)
  BY ContinuesTransitive DEF Straight
<1>2. DOMAIN s.block = DOMAIN t.block
  BY Lengths DEF Straight, Continues
<1>. QED  BY <1>1, <1>2 DEF Straight, SameJump

LEMMA AddVariable ==
    ASSUME NEW f, NEW s, StateFits(f, s), NEW ty, NEW t, t = add_variable(s, ty)
    PROVE  /\ Straight(f, s, t)
           /\ newest(t) = newest(s) + 1 /\ newest(t) \in VariablesIn(t) /\ TypeOf(t, newest(t)) = ty
           /\ t.block = s.block
<1>. DEFINE new == [id |-> Len(s.variables) + 1, name |-> "", type |-> ty, is_argument |-> FALSE]
<1>1. /\ DOMAIN t = DOMAIN s
      /\ t.block = s.block /\ t.current_block = s.current_block
      /\ t.breakstack = s.breakstack /\ t.continuestack = s.continuestack
      /\ t.variables = Append(s.variables, new)
  BY DEF add_variable, StateFits
<1>2. new.id = Len(s.variables) + 1 /\ new.name = "" /\ new.is_argument = FALSE /\ new.type = ty
  OBVIOUS
<1>. HIDE DEF new
<1>3. /\ List(t.variables) /\ Len(t.variables) = Len(s.variables) + 1
      /\ t.variables[Len(s.variables) + 1] = new
      /\ \A v \in 1 .. Len(s.variables) : t.variables[v] = s.variables[v]
  <2>1. List(s.variables)
    BY DEF StateFits, VariablesFit
  <2>. QED  BY <1>1, <2>1, AppendList
<1>4. /\ Len(s.variables) \in Nat /\ DOMAIN s.block = 1 .. Len(s.block) /\ Len(s.block) \in Nat
      /\ Len(f.variables) \in Nat /\ DOMAIN f.variables = 1 .. Len(f.variables)
      /\ Len(f.variables) <= Len(s.variables)
  BY Lengths
<1>5. VariablesIn(t) = VariablesIn(s) \cup {Len(s.variables) + 1}
  BY <1>3, <1>4 DEF VariablesIn
<1>6. InstructionsIn(t) = InstructionsIn(s) /\ InnerBlocks(t) = InnerBlocks(s)
  BY <1>1 DEF InstructionsIn, InnerBlocks
<1>7. \A ins \in InstructionsIn(s) : InstructionFits(t, ins)
  <2>1. \A ins : InstructionFits(s, ins) => InstructionFits(t, ins)
    BY <1>5, SeqSubset DEF InstructionFits
  <2>. QED  BY <2>1 DEF StateFits, BlocksFit
<1>8. BlocksFit(f, t)
  BY <1>1, <1>6, <1>7 DEF BlocksFit, StateFits
<1>9. VariablesFit(f, t)
  <2>1. /\ \A v \in VariablesIn(s) : s.variables[v].id = v
        /\ \A v \in VariablesIn(s) : v > Len(f.variables) =>
                s.variables[v].name = "" /\ s.variables[v].is_argument = FALSE
        /\ \A v \in DOMAIN f.variables : s.variables[v] = f.variables[v]
        /\ List(f.variables)
    BY DEF StateFits, VariablesFit
  <2>2. /\ \A v \in VariablesIn(t) : t.variables[v].id = v
        /\ \A v \in VariablesIn(t) : v > Len(f.variables) =>
                t.variables[v].name = "" /\ t.variables[v].is_argument = FALSE
    BY <1>2, <1>3, <1>5, <2>1 DEF VariablesIn
  <2>3. \A v \in DOMAIN f.variables : t.variables[v] = f.variables[v]
    <3>1. DOMAIN f.variables \subseteq 1 .. Len(s.variables)
      BY <1>4
    <3>. QED  BY <1>3, <2>1, <3>1
  <2>4. Len(f.variables) <= Len(t.variables)
    BY <1>3, <1>4
  <2>. QED  BY <1>3, <2>1, <2>2, <2>3, <2>4 DEF VariablesFit
<1>10. StateFits(f, t)
  BY <1>1, <1>6, <1>8, <1>9 DEF StateFits
<1>11. newest(t) = newest(s) + 1 /\ newest(t) \in VariablesIn(t) /\ TypeOf(t, newest(t)) = ty
  BY <1>2, <1>3, <1>4, <1>5 DEF newest, TypeOf
<1>12. Continues(f, s, t)
  BY <1>1, <1>3, <1>4, <1>10 DEF Continues, VariablesIn
<1>. QED  BY <1>1, <1>11, <1>12 DEF Straight, SameJump

\* An instruction at the end of the current block.
LEMMA AddInstruction ==
    ASSUME NEW f, NEW s, StateFits(f, s), NEW ins, InstructionFits(s, ins),
           PointersFit(f, InstructionsIn(s) \cup {ins}),
           NEW t, t = add_instruction(s, ins)
    PROVE  /\ Straight(f, s, t) /\ t.variables = s.variables
           /\ InstructionsIn(t) = InstructionsIn(s) \cup {ins}
<1>. DEFINE c == s.current_block
            code == Append(s.block[c].instructions, ins)
<1>1. /\ c \in DOMAIN s.block /\ c # EndBlock
      /\ DOMAIN s.block[c] = {"instructions", "branchvar", "iftrue", "iffalse"}
      /\ List(s.block[c].instructions)
      /\ \A b \in DOMAIN s.block : /\ DOMAIN s.block[b] = {"instructions", "branchvar", "iftrue", "iffalse"}
                                   /\ List(s.block[b].instructions)
      /\ List(s.block) /\ Len(s.block) >= 2
  BY DEF StateFits, BlocksFit, InnerBlocks
<1>2. /\ DOMAIN t = DOMAIN s
      /\ t.block = [s.block EXCEPT ![c] = [s.block[c] EXCEPT !.instructions = code]]
      /\ t.current_block = c /\ t.variables = s.variables
      /\ t.breakstack = s.breakstack /\ t.continuestack = s.continuestack
  BY <1>1 DEF add_instruction, StateFits
<1>3. /\ t.block[c] = [s.block[c] EXCEPT !.instructions = code]
      /\ \A b \in DOMAIN s.block : b # c => t.block[b] = s.block[b]
      /\ DOMAIN t.block = DOMAIN s.block
  BY <1>1, <1>2
<1>4. /\ DOMAIN t.block[c] = {"instructions", "branchvar", "iftrue", "iffalse"}
      /\ SameJump(s.block[c], t.block[c]) /\ t.block[c].instructions = code
  BY <1>1, <1>3 DEF SameJump
<1>5. List(code) /\ ToSet(code) = ToSet(s.block[c].instructions) \cup {ins}
  BY <1>1, AppendList
<1>. HIDE DEF c, code
<1>6. List(t.block) /\ Len(t.block) = Len(s.block)
  <2>. DEFINE S == ToSet(t.block)
  <2>1. DOMAIN t.block = 1 .. Len(s.block) /\ Len(s.block) \in Nat
    BY <1>3, Lengths
  <2>2. \A i \in 1 .. Len(s.block) : t.block[i] \in S
    BY <2>1 DEF ToSet
  <2>3. t.block = [i \in 1 .. Len(s.block) |-> t.block[i]]
    BY <1>2, <2>1
  <2>. HIDE DEF S
  <2>4. t.block \in Seq(S) /\ Len(t.block) = Len(s.block)
    BY <2>1, <2>2, <2>3
  <2>. QED  BY <2>4 DEF S, List
<1>7. InstructionsIn(t) = InstructionsIn(s) \cup {ins}
  <2>1. InstructionsIn(t) = UNION {ToSet(t.block[b].instructions) : b \in DOMAIN s.block}
    BY <1>3 DEF InstructionsIn
  <2>2. \A b \in DOMAIN s.block : b # c => ToSet(t.block[b].instructions) = ToSet(s.block[b].instructions)
    BY <1>3
  <2>3. ToSet(t.block[c].instructions) = ToSet(s.block[c].instructions) \cup {ins}
    BY <1>4, <1>5
  <2>. QED  BY <1>1, <2>1, <2>2, <2>3 DEF InstructionsIn
<1>8. VariablesIn(t) = VariablesIn(s) /\ InnerBlocks(t) = InnerBlocks(s)
  BY <1>2, <1>3 DEF VariablesIn, InnerBlocks
<1>9. \A i \in InstructionsIn(t) : InstructionFits(t, i)
  <2>1. \A i : InstructionFits(s, i) => InstructionFits(t, i)
    BY <1>8 DEF InstructionFits
  <2>2. \A i \in InstructionsIn(s) : InstructionFits(s, i)
    BY DEF StateFits, BlocksFit
  <2>. QED  BY <2>1, <2>2, <1>7
<1>10. \A b \in DOMAIN t.block :
        /\ DOMAIN t.block[b] = {"instructions", "branchvar", "iftrue", "iffalse"}
        /\ List(t.block[b].instructions)
  BY <1>1, <1>3, <1>4, <1>5
<1>11. t.block[EndBlock] = EmptyBlock
  <2>1. s.block[EndBlock] = EmptyBlock /\ EndBlock \in DOMAIN s.block
    BY Lengths, <1>1 DEF StateFits, BlocksFit, EndBlock
  <2>. QED  BY <2>1, <1>1, <1>3
<1>12. BlocksFit(f, t)
  BY <1>1, <1>6, <1>7, <1>9, <1>10, <1>11 DEF BlocksFit
<1>13. StateFits(f, t)
  BY <1>2, <1>8, <1>12 DEF StateFits, VariablesFit, c
<1>14. \A b \in DOMAIN s.block : SameJump(s.block[b], t.block[b])
  BY <1>3, <1>4 DEF SameJump
<1>15. Continues(f, s, t)
  BY <1>2, <1>6, <1>13, Lengths DEF Continues
<1>. QED  BY <1>2, <1>6, <1>7, <1>14, <1>15 DEF Straight, c

LEMMA AddPlainInstruction ==
    ASSUME NEW f, NEW s, StateFits(f, s), NEW ins, ins.kind # "ADDRESS_OF_VARIABLE",
           InstructionFits(s, ins), NEW t, t = add_instruction(s, ins)
    PROVE  Straight(f, s, t) /\ t.variables = s.variables
<1>1. PointersFit(f, InstructionsIn(s) \cup {ins})
  BY DEF StateFits, BlocksFit, PointersFit
<1>. QED  BY <1>1, AddInstruction

LEMMA EmitNamedLaw ==
    ASSUME NEW f, NEW s, StateFits(f, s), NEW line \in Nat, NEW kind, kind # "ADDRESS_OF_VARIABLE",
           NEW operands \in Seq(VariablesIn(s)), kind = "VARCPY" => Len(operands) = 1,
           NEW destvar \in VariablesIn(s) \cup {NoVar}, NEW value,
           NEW t, t = EmitNamed(s, line, kind, value, operands, destvar)
    PROVE  Straight(f, s, t) /\ t.variables = s.variables
<1>. DEFINE i == Instruction(kind, value, operands, destvar, line, FALSE)
<1>1. /\ i.kind = kind /\ i.operands = operands /\ i.destvar = destvar /\ i.line = line
      /\ t = add_instruction(s, i)
  BY DEF Instruction, EmitNamed
<1>. HIDE DEF i
<1>2. InstructionFits(s, i)
  BY <1>1 DEF InstructionFits
<1>. QED  BY <1>1, <1>2, AddPlainInstruction

LEMMA EmitLaw ==
    ASSUME NEW f, NEW s, StateFits(f, s), NEW line \in Nat, NEW kind, kind # "ADDRESS_OF_VARIABLE",
           NEW operands \in Seq(VariablesIn(s)), kind = "VARCPY" => Len(operands) = 1,
           NEW destvar \in VariablesIn(s) \cup {NoVar},
           NEW t, t = Emit(s, line, kind, operands, destvar)
    PROVE  Straight(f, s, t) /\ t.variables = s.variables
<1>1. PICK value : t = EmitNamed(s, line, kind, value, operands, destvar)
  BY DEF Emit, EmitNamed
<1>. QED  BY <1>1, EmitNamedLaw

LEMMA EmitConstantLaw ==
    ASSUME NEW f, NEW s, StateFits(f, s), NEW line \in Nat, NEW value, NEW number,
           NEW destvar \in VariablesIn(s) \cup {NoVar},
           NEW t, t = EmitConstant(s, line, value, number, destvar)
    PROVE  Straight(f, s, t) /\ t.variables = s.variables
<1>. DEFINE i == [Instruction("CONSTANT", value, << >>, destvar, line, FALSE) EXCEPT !.number = number]
<1>1. /\ i.kind = "CONSTANT" /\ i.operands = << >> /\ i.destvar = destvar /\ i.line = line
      /\ t = add_instruction(s, i)
  BY DEF Instruction, EmitConstant
<1>. HIDE DEF i
<1>2. InstructionFits(s, i)
  BY <1>1 DEF InstructionFits
<1>. QED  BY <1>1, <1>2, AddPlainInstruction

LEMMA StraightKeeps ==
    ASSUME NEW f, NEW s, NEW t, Straight(f, s, t)
    PROVE  /\ StateFits(f, t) /\ VariablesIn(s) \subseteq VariablesIn(t)
           /\ newest(s) <= newest(t) /\ newest(s) \in Nat /\ newest(t) \in Nat
           /\ \A v \in VariablesIn(s) : TypeOf(t, v) = TypeOf(s, v)
           /\ Seq(VariablesIn(s)) \subseteq Seq(VariablesIn(t))
<1>1. /\ StateFits(f, s) /\ StateFits(f, t) /\ Len(s.variables) <= Len(t.variables)
      /\ \A v \in VariablesIn(s) : t.variables[v] = s.variables[v]
  BY DEF Straight, Continues
<1>2. Len(s.variables) \in Nat /\ Len(t.variables) \in Nat
  BY <1>1, Lengths
<1>3. VariablesIn(s) \subseteq VariablesIn(t)
  BY <1>1, <1>2 DEF VariablesIn
<1>. QED  BY <1>1, <1>2, <1>3, SeqSubset DEF newest, TypeOf

LEMMA NewVariable ==
    ASSUME NEW f, NEW s, StateFits(f, s), NEW ty
    PROVE  LET u == add_variable(s, ty)
           IN  /\ Straight(f, s, u) /\ u.block = s.block
               /\ newest(u) = newest(s) + 1 /\ newest(s) + 1 \in VariablesIn(u)
               /\ TypeOf(u, newest(s) + 1) = ty
<1>1. \A u : u = add_variable(s, ty) =>
        /\ Straight(f, s, u) /\ u.block = s.block
        /\ newest(u) = newest(s) + 1 /\ newest(u) \in VariablesIn(u) /\ TypeOf(u, newest(u)) = ty
  BY AddVariable
<1>. QED  BY <1>1

\* A new variable, and the instruction that sets it.
LEMMA EmitToLaw ==
    ASSUME NEW f, NEW s, StateFits(f, s), NEW line \in Nat, NEW kind, kind # "ADDRESS_OF_VARIABLE",
           NEW operands \in Seq(VariablesIn(s)), kind = "VARCPY" => Len(operands) = 1,
           NEW ty, NEW t, t = EmitTo(s, line, kind, operands, ty)
    PROVE  /\ Straight(f, s, t)
           /\ newest(t) = newest(s) + 1 /\ newest(t) \in VariablesIn(t) /\ TypeOf(t, newest(t)) = ty
<1>. DEFINE u == add_variable(s, ty)
<1>1. /\ Straight(f, s, u) /\ newest(u) = newest(s) + 1 /\ newest(s) + 1 \in VariablesIn(u)
      /\ TypeOf(u, newest(s) + 1) = ty
  BY NewVariable
<1>2. t = Emit(u, line, kind, operands, newest(s) + 1)
  BY DEF EmitTo
<1>. HIDE DEF u
<1>3. StateFits(f, u) /\ operands \in Seq(VariablesIn(u))
  BY <1>1, StraightKeeps
<1>4. Straight(f, u, t) /\ t.variables = u.variables
  BY <1>1, <1>2, <1>3, EmitLaw
<1>5. Straight(f, s, t)
  BY <1>1, <1>4, StraightTransitive
<1>. QED  BY <1>1, <1>4, <1>5 DEF newest, TypeOf, VariablesIn

\* The same for a pointer, to a variable that holds none.
LEMMA AddressToLaw ==
    ASSUME NEW f, NEW s, StateFits(f, s), NEW line \in Nat, NEW v \in VariablesIn(s),
           \A ins \in InstructionsIn(s) : ins.kind = "ADDRESS_OF_VARIABLE" => ins.destvar # v,
           Addressable(f, v), NEW ty, NEW t, t = EmitTo(s, line, "ADDRESS_OF_VARIABLE", <<v>>, ty)
    PROVE  /\ Straight(f, s, t)
           /\ newest(t) = newest(s) + 1 /\ newest(t) \in VariablesIn(t) /\ TypeOf(t, newest(t)) = ty
<1>. DEFINE u == add_variable(s, ty)
            i == Instruction("ADDRESS_OF_VARIABLE", "", <<v>>, newest(s) + 1, line, FALSE)
<1>1. /\ Straight(f, s, u) /\ newest(u) = newest(s) + 1 /\ newest(s) + 1 \in VariablesIn(u)
      /\ TypeOf(u, newest(s) + 1) = ty /\ u.block = s.block
  BY NewVariable
<1>2. t = add_instruction(u, i)
  BY DEF EmitTo, Emit
<1>3. /\ i.kind = "ADDRESS_OF_VARIABLE" /\ i.operands = <<v>> /\ i.destvar = newest(s) + 1
      /\ i.line = line
  BY DEF Instruction
<1>. HIDE DEF u, i
<1>4. StateFits(f, u) /\ VariablesIn(s) \subseteq VariablesIn(u)
  BY <1>1, StraightKeeps
<1>5. InstructionFits(u, i)
  BY <1>1, <1>3, <1>4 DEF InstructionFits
<1>6. PointersFit(f, InstructionsIn(u) \cup {i})
  <2>1. InstructionsIn(u) = InstructionsIn(s)
    BY <1>1 DEF InstructionsIn
  <2>2. \A j \in InstructionsIn(s) : InstructionFits(s, j)
    BY DEF StateFits, BlocksFit
  <2>3. Len(s.variables) \in Nat /\ Len(f.variables) <= Len(s.variables) /\ Len(f.variables) \in Nat
    BY Lengths
  <2>4. newest(s) + 1 > Len(f.variables) /\ newest(s) + 1 \notin VariablesIn(s)
    BY <2>3 DEF newest, VariablesIn
  <2>5. \A j \in InstructionsIn(s) : j.kind = "ADDRESS_OF_VARIABLE" =>
            newest(s) + 1 \notin OperandSet(j)
    BY <2>2, <2>4 DEF InstructionFits, OperandSet
  <2>6. OperandSet(i) = {v} /\ newest(s) + 1 # v
    BY <1>3, <2>4 DEF OperandSet
  <2>7. PointersFit(f, InstructionsIn(s))
    BY DEF StateFits, BlocksFit
  <2>. QED  BY <1>3, <2>1, <2>4, <2>5, <2>6, <2>7 DEF PointersFit
<1>7. Straight(f, u, t) /\ t.variables = u.variables
  BY <1>2, <1>4, <1>5, <1>6, AddInstruction
<1>8. Straight(f, s, t)
  BY <1>1, <1>7, StraightTransitive
<1>. QED  BY <1>1, <1>7, <1>8 DEF newest, TypeOf, VariablesIn
-----------------------------------------------------------------------------
\* What the functions that return a variable return.
Yields(f, s, r) == Straight(f, s, r.s) /\ r.v \in VariablesIn(r.s)

LEMMA NewestIsThere ==
    ASSUME NEW f, NEW s, NEW t, Straight(f, s, t), newest(t) = newest(s) + 1
    PROVE  newest(s) + 1 \in VariablesIn(t)
BY StraightKeeps DEF VariablesIn, newest

LEMMA FindVariable ==
    ASSUME NEW f \in Functions, NEW s, StateFits(f, s), NEW name, HasVariable(f, name)
    PROVE  LET v == find_variable(s, name)
           IN  /\ v \in DOMAIN f.variables /\ v \in VariablesIn(s)
               /\ f.variables[v].name = name /\ TypeOf(s, v) = f.variables[v].type
<1>. DEFINE S == {v \in 1 .. Len(s.variables) : s.variables[v].name = name}
<1>1. PICK i \in DOMAIN f.variables : f.variables[i].name = name
  BY DEF HasVariable
<1>2. /\ Len(s.variables) \in Nat /\ Len(f.variables) \in Nat
      /\ DOMAIN f.variables = 1 .. Len(f.variables) /\ Len(f.variables) <= Len(s.variables)
  BY Lengths
<1>3. \A v \in DOMAIN f.variables : s.variables[v] = f.variables[v] /\ f.variables[v].name # ""
  <2>1. VariablesOK(f)
    BY FunctionsAssumption DEF FunctionOK
  <2>2. \A v \in DOMAIN f.variables : f.variables[v].name # ""
    BY <2>1 DEF VariablesOK
  <2>3. VariablesFit(f, s)
    BY DEF StateFits
  <2>. QED  BY <2>2, <2>3 DEF VariablesFit
<1>4. DOMAIN f.variables \subseteq 1 .. Len(s.variables)
  BY <1>2
<1>5. i \in S /\ S \in SUBSET Nat
  <2>1. i \in 1 .. Len(s.variables) /\ s.variables[i].name = name
    BY <1>1, <1>3, <1>4
  <2>2. 1 .. Len(s.variables) \subseteq Nat
    BY <1>2
  <2>. QED  BY <2>1, <2>2
<1>6. PICK m \in S : \A k \in S : m <= k
  BY <1>5, LeastNatural
<1>7. \E v \in 1 .. Len(s.variables) :
            s.variables[v].name = name /\ \A w \in 1 .. v - 1 : s.variables[w].name # name
  <2>1. m \in 1 .. Len(s.variables) /\ s.variables[m].name = name
    OBVIOUS
  <2>2. \A w \in 1 .. m - 1 : w \in 1 .. Len(s.variables) /\ ~ (m <= w)
    BY <1>2, <2>1
  <2>3. \A w \in 1 .. m - 1 : s.variables[w].name # name
    BY <1>6, <2>2
  <2>. QED  BY <2>1, <2>3
<1>. DEFINE v == find_variable(s, name)
<1>8. v \in 1 .. Len(s.variables) /\ s.variables[v].name = name
  BY <1>7 DEF find_variable
<1>. HIDE DEF v, S
<1>9. v \in DOMAIN f.variables
  <2>. SUFFICES ASSUME v > Len(f.variables) PROVE FALSE
    BY <1>2, <1>8
  <2>1. s.variables[v].name = ""
    BY <1>8 DEF StateFits, VariablesFit, VariablesIn
  <2>2. name # ""
    BY <1>1, <1>3
  <2>. QED  BY <1>8, <2>1, <2>2
<1>. QED  BY <1>3, <1>8, <1>9 DEF v, TypeOf, VariablesIn

LEMMA BuildCastLaw ==
    ASSUME NEW f, NEW s, StateFits(f, s), NEW obj \in VariablesIn(s), NEW to, NEW line \in Nat,
           NEW r, r = build_cast(s, obj, to, line)
    PROVE  Yields(f, s, r) /\ TypeOf(r.s, r.v) = to
<1>1. CASE TypeOf(s, obj) = to
  <2>1. r.s = s /\ r.v = obj
    BY <1>1 DEF build_cast
  <2>. QED  BY <1>1, <2>1, StraightReflexive DEF Yields
<1>2. CASE TypeOf(s, obj) # to
  <2>1. PICK kind, operands : /\ r.s = EmitTo(s, line, kind, operands, to) /\ r.v = newest(s) + 1
                              /\ kind \notin {"ADDRESS_OF_VARIABLE", "VARCPY"}
                              /\ operands = <<obj>>
    BY <1>2 DEF build_cast
  <2>2. operands \in Seq(VariablesIn(s)) /\ kind # "ADDRESS_OF_VARIABLE" /\ kind # "VARCPY"
    BY <2>1
  <2>3. r.s = EmitTo(s, line, kind, operands, to)
    BY <2>1
  <2>4. Straight(f, s, r.s) /\ newest(r.s) = newest(s) + 1 /\ newest(r.s) \in VariablesIn(r.s)
        /\ TypeOf(r.s, newest(r.s)) = to
    BY <2>2, <2>3, EmitToLaw
  <2>. QED  BY <2>1, <2>4 DEF Yields
<1>. QED  BY <1>1, <1>2

LEMMA EmitNamedToLaw ==
    ASSUME NEW f, NEW s, StateFits(f, s), NEW line \in Nat, NEW kind, NEW value, NEW ty,
           kind \notin {"ADDRESS_OF_VARIABLE", "VARCPY"}, NEW operands \in Seq(VariablesIn(s)),
           NEW t, t = EmitNamed(add_variable(s, ty), line, kind, value, operands, newest(s) + 1)
    PROVE  /\ Straight(f, s, t) /\ newest(t) = newest(s) + 1 /\ newest(s) + 1 \in VariablesIn(t)
           /\ TypeOf(t, newest(s) + 1) = ty
<1>. DEFINE u == add_variable(s, ty)
<1>1. /\ Straight(f, s, u) /\ newest(u) = newest(s) + 1 /\ newest(s) + 1 \in VariablesIn(u)
      /\ TypeOf(u, newest(s) + 1) = ty
  BY NewVariable
<1>. HIDE DEF u
<1>2. StateFits(f, u) /\ operands \in Seq(VariablesIn(u))
  BY <1>1, StraightKeeps
<1>3. t = EmitNamed(u, line, kind, value, operands, newest(s) + 1)
  BY DEF u
<1>4. Straight(f, u, t) /\ t.variables = u.variables
  BY <1>1, <1>2, <1>3, EmitNamedLaw
<1>5. Straight(f, s, t)
  BY <1>1, <1>4, StraightTransitive
<1>. QED  BY <1>1, <1>4, <1>5 DEF newest, TypeOf, VariablesIn

LEMMA StructFieldLaw ==
    ASSUME NEW f, NEW s, StateFits(f, s), NEW obj \in VariablesIn(s), NEW name, NEW line \in Nat,
           NEW t, t = build_struct_field_pointer(s, obj, name, line)
    PROVE  Straight(f, s, t) /\ newest(t) = newest(s) + 1 /\ newest(s) + 1 \in VariablesIn(t)
<1>1. PICK ty, kind, operands :
        /\ t = EmitNamed(add_variable(s, ty), line, kind, name, operands, newest(s) + 1)
        /\ kind = "PTR_STRUCT_FIELD" /\ operands = <<obj>>
  BY DEF build_struct_field_pointer
<1>2. operands \in Seq(VariablesIn(s)) /\ kind \notin {"ADDRESS_OF_VARIABLE", "VARCPY"}
  BY <1>1
<1>3. t = EmitNamed(add_variable(s, ty), line, kind, name, operands, newest(s) + 1)
  BY <1>1
<1>. QED  BY <1>2, <1>3, EmitNamedToLaw

LEMMA BinopLaw ==
    ASSUME NEW f, NEW s, StateFits(f, s), NEW lhs \in VariablesIn(s), NEW rhs \in VariablesIn(s),
           NEW op \in ArithmeticKinds, NEW line \in Nat, NEW ty,
           NEW r, r = build_binop(s, op, line, lhs, rhs, ty)
    PROVE  Yields(f, s, r) /\ TypeOf(r.s, r.v) \in {boolType, ty}
<1>. DEFINE k == CASE op = "ADD" -> "INT_ADD"
                   [] op = "SUB" -> "INT_SUB"
                   [] op = "MUL" -> "INT_MUL"
                   [] op = "DIV" -> IF intType \in {TypeOf(s, lhs), TypeOf(s, rhs)}
                                    THEN "INT_SDIV" ELSE "INT_UDIV"
                   [] op \in {"EQ", "NE"} ->
                        IF is_pointer_type(TypeOf(s, lhs)) /\ is_pointer_type(TypeOf(s, rhs))
                        THEN "PTR_EQ" ELSE "INT_EQ"
                   [] OTHER -> "INT_LT"
            operands == IF op \in {"GT", "LE"} THEN <<rhs, lhs>> ELSE <<lhs, rhs>>
            u == EmitTo(s, line, k, operands, ty)
            w == EmitTo(u, line, "BOOL_NEGATE", <<newest(u)>>, boolType)
<1>1. k \notin {"ADDRESS_OF_VARIABLE", "VARCPY"}
  BY DEF ArithmeticKinds
<1>2. operands \in Seq(VariablesIn(s))
  OBVIOUS
<1>3. r = IF op \in {"NE", "LE", "GE"} THEN [s |-> w, v |-> newest(u) + 1]
          ELSE [s |-> u, v |-> newest(u)]
  BY DEF build_binop
<1>. HIDE DEF k, operands
<1>4. \A t : t = u => Straight(f, s, t) /\ newest(t) \in VariablesIn(t) /\ TypeOf(t, newest(t)) = ty
  BY <1>1, <1>2, EmitToLaw
<1>5. Straight(f, s, u) /\ newest(u) \in VariablesIn(u) /\ TypeOf(u, newest(u)) = ty
  BY <1>4
<1>. HIDE DEF u
<1>6. StateFits(f, u)
  BY <1>5, StraightKeeps
<1>7. PICK negate, operand : /\ w = EmitTo(u, line, negate, operand, boolType)
                             /\ negate = "BOOL_NEGATE" /\ operand = <<newest(u)>>
  OBVIOUS
<1>8. operand \in Seq(VariablesIn(u)) /\ negate \notin {"ADDRESS_OF_VARIABLE", "VARCPY"}
  BY <1>5, <1>7
<1>9. w = EmitTo(u, line, negate, operand, boolType)
  BY <1>7
<1>. HIDE DEF w
<1>10. Straight(f, u, w) /\ newest(w) = newest(u) + 1
        /\ newest(w) \in VariablesIn(w) /\ TypeOf(w, newest(w)) = boolType
  BY <1>6, <1>8, <1>9, EmitToLaw
<1>11. Straight(f, s, w)
  BY <1>5, <1>10, StraightTransitive
<1>12. CASE op \in {"NE", "LE", "GE"}
  <2>1. r.s = w /\ r.v = newest(w)
    BY <1>3, <1>10, <1>12
  <2>. QED  BY <1>10, <1>11, <2>1 DEF Yields
<1>13. CASE op \notin {"NE", "LE", "GE"}
  <2>1. r.s = u /\ r.v = newest(u)
    BY <1>3, <1>13
  <2>. QED  BY <1>5, <2>1 DEF Yields
<1>. QED  BY <1>12, <1>13

LEMMA IncrementLaw ==
    ASSUME NEW f, NEW s, StateFits(f, s), NEW addr \in VariablesIn(s), NEW kind, NEW line \in Nat,
           NEW r, r = build_increment_or_decrement(s, kind, line, addr)
    PROVE  Yields(f, s, r)
<1>. DEFINE ty == valuetype(TypeOf(s, addr))
            n == newest(s)
            a == add_variable(s, ty)
            b == add_variable(a, ty)
            s1 == add_variable(b, IF is_integer_type(ty) THEN ty ELSE intType)
            diff == IF kind \in {"PRE_INCREMENT", "POST_INCREMENT"} THEN 1 ELSE -1
            s2 == EmitConstant(s1, line, "integer", diff, n + 1 + 1 + 1)
            s3 == Emit(s2, line, "PTR_LOAD", <<addr>>, n + 1)
            s4 == Emit(s3, line, IF is_integer_type(ty) THEN "INT_ADD" ELSE "PTR_ADD_INT",
                       <<n + 1, n + 1 + 1 + 1>>, n + 1 + 1)
            s5 == Emit(s4, line, "PTR_STORE", <<addr, n + 1 + 1>>, NoVar)
<1>1. r.s = s5 /\ (r.v = n + 1 + 1 \/ r.v = n + 1)
  BY DEF build_increment_or_decrement
<1>2. Straight(f, s, a) /\ newest(a) = n + 1 /\ n + 1 \in VariablesIn(a)
  BY NewVariable
<1>. HIDE DEF a
<1>3. Straight(f, a, b) /\ newest(b) = n + 1 + 1 /\ n + 1 + 1 \in VariablesIn(b)
  BY <1>2, StraightKeeps, NewVariable
<1>. HIDE DEF b
<1>4. Straight(f, b, s1) /\ n + 1 + 1 + 1 \in VariablesIn(s1)
  BY <1>3, StraightKeeps, NewVariable
<1>5. Straight(f, s, s1) /\ StateFits(f, s1)
      /\ {addr, n + 1, n + 1 + 1, n + 1 + 1 + 1} \subseteq VariablesIn(s1)
  <2>1. Straight(f, s, b)
    BY <1>2, <1>3, StraightTransitive
  <2>2. Straight(f, s, s1)
    BY <2>1, <1>4, StraightTransitive
  <2>3. Straight(f, a, s1)
    BY <1>3, <1>4, StraightTransitive
  <2>. QED  BY <1>2, <1>3, <1>4, <2>2, <2>3, StraightKeeps
<1>. DEFINE x == n + 1
            y == n + 1 + 1
            z == n + 1 + 1 + 1
<1>. HIDE DEF s1, x, y, z
<1>6. {addr, x, y, z} \subseteq VariablesIn(s1) /\ (r.v = x \/ r.v = y)
  BY <1>1, <1>5 DEF x, y, z
<1>7. s2 = EmitConstant(s1, line, "integer", diff, z)
  BY DEF z
<1>8. PICK s3kind, s3operands : /\ s3 = Emit(s2, line, s3kind, s3operands, x)
                                /\ s3kind = "PTR_LOAD" /\ s3operands = <<addr>>
  BY DEF x
<1>9. PICK s4kind, s4operands : /\ s4 = Emit(s3, line, s4kind, s4operands, y)
                                /\ s4kind \in {"INT_ADD", "PTR_ADD_INT"} /\ s4operands = <<x, z>>
  BY DEF x, y, z
<1>10. PICK s5kind, s5operands : /\ s5 = Emit(s4, line, s5kind, s5operands, NoVar)
                                 /\ s5kind = "PTR_STORE" /\ s5operands = <<addr, y>>
  BY DEF y
<1>11. /\ s3kind \notin {"VARCPY", "ADDRESS_OF_VARIABLE"} /\ s3operands \in Seq(VariablesIn(s1))
       /\ s4kind \notin {"VARCPY", "ADDRESS_OF_VARIABLE"} /\ s4operands \in Seq(VariablesIn(s1))
       /\ s5kind \notin {"VARCPY", "ADDRESS_OF_VARIABLE"} /\ s5operands \in Seq(VariablesIn(s1))
  BY <1>6, <1>8, <1>9, <1>10
<1>12. s3 = Emit(s2, line, s3kind, s3operands, x)
  BY <1>8
<1>13. s4 = Emit(s3, line, s4kind, s4operands, y)
  BY <1>9
<1>14. s5 = Emit(s4, line, s5kind, s5operands, NoVar)
  BY <1>10
<1>. HIDE DEF diff, s2, s3, s4, s5
<1>15. Straight(f, s1, s2) /\ s2.variables = s1.variables
  BY <1>5, <1>6, <1>7, EmitConstantLaw
<1>16. StateFits(f, s2) /\ VariablesIn(s2) = VariablesIn(s1)
  BY <1>15, StraightKeeps DEF VariablesIn
<1>17. Straight(f, s2, s3) /\ s3.variables = s2.variables
  BY <1>6, <1>11, <1>12, <1>16, EmitLaw
<1>18. StateFits(f, s3) /\ VariablesIn(s3) = VariablesIn(s1)
  BY <1>16, <1>17, StraightKeeps DEF VariablesIn
<1>19. Straight(f, s3, s4) /\ s4.variables = s3.variables
  BY <1>6, <1>11, <1>13, <1>18, EmitLaw
<1>20. StateFits(f, s4) /\ VariablesIn(s4) = VariablesIn(s1)
  BY <1>18, <1>19, StraightKeeps DEF VariablesIn
<1>21. Straight(f, s4, s5) /\ s5.variables = s4.variables
  BY <1>6, <1>11, <1>14, <1>20, EmitLaw
<1>22. Straight(f, s, s5)
  BY <1>5, <1>15, <1>17, <1>19, <1>21, StraightTransitive
<1>23. VariablesIn(s5) = VariablesIn(s1)
  BY <1>20, <1>21 DEF VariablesIn
<1>. QED  BY <1>1, <1>6, <1>22, <1>23 DEF Yields

LEMMA EmittedLaw ==
    ASSUME NEW f, NEW s, StateFits(f, s), NEW line \in Nat, NEW kind, NEW ty,
           kind # "ADDRESS_OF_VARIABLE", NEW operands \in Seq(VariablesIn(s)),
           kind = "VARCPY" => Len(operands) = 1,
           NEW r, r = [s |-> EmitTo(s, line, kind, operands, ty), v |-> newest(s) + 1]
    PROVE  Yields(f, s, r) /\ TypeOf(r.s, r.v) = ty
<1>1. r.s = EmitTo(s, line, kind, operands, ty) /\ r.v = newest(s) + 1
  OBVIOUS
<1>2. /\ Straight(f, s, r.s)
      /\ newest(r.s) = newest(s) + 1 /\ newest(r.s) \in VariablesIn(r.s) /\ TypeOf(r.s, newest(r.s)) = ty
  BY <1>1, EmitToLaw
<1>. QED  BY <1>1, <1>2 DEF Yields

LEMMA ExpressionLaw ==
    ASSUME NEW f \in Functions, NEW e \in Trees[f].expressions
    PROVE  ExpressionOK(f, Trees[f], e)
BY FunctionsAssumption DEF FunctionOK

\* The lines and, or and struct literals give to what they emit for an operand.
LEMMA OperandLines ==
    ASSUME NEW f \in Functions, NEW e \in Trees[f].expressions, NEW i \in DOMAIN e.operands
    PROVE  e.operands[i].line \in Nat
<1>1. e.operands[i] \in Trees[f].expressions
  BY ExpressionLaw DEF ExpressionOK, Value
<1>. QED  BY <1>1, ExpressionLaw DEF ExpressionOK

LEMMA SideLines ==
    ASSUME NEW f \in Functions, NEW e \in Trees[f].expressions, e.kind \in {"AND", "OR"}
    PROVE  e.operands[1].line \in Nat /\ e.operands[2].line \in Nat
<1>1. Len(e.operands) = 2 /\ e.operands \in Seq(Trees[f].expressions)
  BY ExpressionLaw DEF ExpressionOK, BinaryKinds
<1>2. 1 \in DOMAIN e.operands /\ 2 \in DOMAIN e.operands
  BY <1>1
<1>. QED  BY <1>2, OperandLines

LEMMA NamesDiffer ==
    ASSUME NEW f \in Functions, NEW i \in DOMAIN f.variables, NEW j \in DOMAIN f.variables,
           f.variables[i].name = f.variables[j].name
    PROVE  i = j
<1>1. VariablesOK(f)
  BY FunctionsAssumption DEF FunctionOK
<1>2. \A k, l \in DOMAIN f.variables : f.variables[k].name = f.variables[l].name => k = l
  BY <1>1 DEF VariablesOK
<1>. QED  BY <1>2

\* What an expression's own code returns: before the cast, nothing only if it
\* has no value, and a bool if that is its type.
Returns(f, s, e, r) ==
    /\ Straight(f, s, r.s)
    /\ IF ReturnsNothing(e) THEN r.v = NoVar
       ELSE /\ r.v \in VariablesIn(r.s)
            /\ e.type = boolType /\ e.type_after_cast = NoType => TypeOf(r.s, r.v) = boolType

LEMMA ExpressionResultLaw ==
    ASSUME NEW f \in Functions, NEW s, StateFits(f, s), NEW e \in Trees[f].expressions,
           e.kind \notin {"AND", "OR", "BRACE_INIT"},
           NEW args \in Seq(VariablesIn(s)), Len(args) = Len(ExpressionCalls(e)),
           NEW r, r = ExpressionResult(s, e, args)
    PROVE  Returns(f, s, e, r)
<1>. DEFINE calls == EvaluateAll(e.operands)
<1>1. ExpressionOK(f, Trees[f], e)
  BY ExpressionLaw
<1>18. e.line \in Nat
  BY <1>1 DEF ExpressionOK
<1>2. e.kind \in ExpressionKinds /\ Len(calls) = Len(e.operands)
  BY <1>1 DEF ExpressionOK, EvaluateAll
<1>3. e.kind \in UnaryKinds => Len(e.operands) = 1
  BY <1>1 DEF ExpressionOK
<1>4. e.kind \in BinaryKinds => Len(e.operands) = 2
  BY <1>1 DEF ExpressionOK
<1>5. e.kind \in AddressableByPointer \cup IncrementKinds \cup {"ADDRESS_OF"} => Len(args) = 1
  BY DEF ExpressionCalls, AddressableByPointer, IncrementKinds
<1>6. e.kind \notin AddressableByPointer \cup IncrementKinds \cup {"ADDRESS_OF"} =>
        Len(args) = Len(e.operands)
  <2>. HIDE DEF calls
  <2>1. e.kind \notin AddressableByPointer \cup IncrementKinds \cup {"ADDRESS_OF"} =>
            ExpressionCalls(e) = calls
    BY DEF ExpressionCalls, calls
  <2>. QED  BY <1>2, <2>1
<1>7. \A i \in 1 .. Len(args) : args[i] \in VariablesIn(s)
  OBVIOUS
<1>. HIDE DEF calls
<1>8. CASE e.kind = "FUNCTION_CALL" /\ e.type = NoType
  <2>1. r.s = EmitNamed(s, e.line, "CALL", e.name, args, NoVar) /\ r.v = NoVar
    BY <1>8 DEF ExpressionResult, AddressableByPointer, ArithmeticKinds, IncrementKinds
  <2>2. PICK kind : r.s = EmitNamed(s, e.line, kind, e.name, args, NoVar) /\ kind = "CALL"
    BY <2>1
  <2>3. kind # "ADDRESS_OF_VARIABLE" /\ kind # "VARCPY"
    BY <2>2
  <2>4. r.s = EmitNamed(s, e.line, kind, e.name, args, NoVar)
    BY <2>2
  <2>5. Straight(f, s, r.s)
    BY <2>3, <2>4, <1>18, EmitNamedLaw
  <2>. QED  BY <1>8, <2>1, <2>5 DEF Returns, ReturnsNothing
<1>9. CASE e.kind = "FUNCTION_CALL" /\ e.type # NoType
  <2>1. /\ r.s = EmitNamed(add_variable(s, e.type), e.line, "CALL", e.name, args, newest(s) + 1)
        /\ r.v = newest(s) + 1
    BY <1>9 DEF ExpressionResult, AddressableByPointer, ArithmeticKinds, IncrementKinds
  <2>2. PICK kind :
            /\ r.s = EmitNamed(add_variable(s, e.type), e.line, kind, e.name, args, newest(s) + 1)
            /\ kind = "CALL"
    BY <2>1
  <2>3. kind \notin {"ADDRESS_OF_VARIABLE", "VARCPY"}
    BY <2>2
  <2>4. r.s = EmitNamed(add_variable(s, e.type), e.line, kind, e.name, args, newest(s) + 1)
    BY <2>2
  <2>5. /\ Straight(f, s, r.s) /\ newest(s) + 1 \in VariablesIn(r.s)
        /\ TypeOf(r.s, newest(s) + 1) = e.type
    BY <2>3, <2>4, <1>18, EmitNamedToLaw
  <2>. QED  BY <1>9, <2>1, <2>5 DEF Returns, ReturnsNothing
<1>10. CASE e.kind \in AddressableByPointer \cup {"DEREFERENCE"}
  <2>1. PICK kind : /\ r = [s |-> EmitTo(s, e.line, kind, args, e.type), v |-> newest(s) + 1]
                    /\ kind = "PTR_LOAD"
    BY <1>10 DEF ExpressionResult, AddressableByPointer, ArithmeticKinds, IncrementKinds
  <2>2. kind # "ADDRESS_OF_VARIABLE" /\ kind # "VARCPY"
    BY <2>1
  <2>3. r = [s |-> EmitTo(s, e.line, kind, args, e.type), v |-> newest(s) + 1]
    BY <2>1
  <2>4. Yields(f, s, r) /\ TypeOf(r.s, r.v) = e.type
    BY <2>2, <2>3, <1>18, EmittedLaw
  <2>. QED  BY <1>10, <2>4 DEF Returns, ReturnsNothing, Yields, AddressableByPointer
<1>11. CASE e.kind = "ADDRESS_OF"
  <2>1. r.s = s /\ r.v = args[1]
    BY <1>11 DEF ExpressionResult, AddressableByPointer, ArithmeticKinds, IncrementKinds
  <2>2. e.type # boolType
    BY <1>1, <1>11 DEF ExpressionOK
  <2>3. args[1] \in VariablesIn(s)
    BY <1>5, <1>7, <1>11
  <2>. QED  BY <1>11, <2>1, <2>2, <2>3, StraightReflexive DEF Returns, ReturnsNothing
<1>12. CASE e.kind = "GET_VARIABLE"
  <2>. DEFINE var == find_variable(s, e.name)
  <2>1. PICK i \in DOMAIN f.variables : f.variables[i].name = e.name /\ f.variables[i].type = e.type
    BY <1>1, <1>12 DEF ExpressionOK
  <2>2. HasVariable(f, e.name)
    BY <2>1 DEF HasVariable
  <2>3. /\ var \in DOMAIN f.variables /\ var \in VariablesIn(s)
        /\ f.variables[var].name = e.name /\ TypeOf(s, var) = f.variables[var].type
    BY <2>2, FindVariable
  <2>4. var = i
    <3>. HIDE DEF var
    <3>. QED  BY <2>1, <2>3, NamesDiffer
  <2>5. TypeOf(s, var) = e.type
    BY <2>1, <2>3, <2>4
  <2>6. r = ValueOfVariable(s, e)
    BY <1>12 DEF ExpressionResult, AddressableByPointer, ArithmeticKinds, IncrementKinds
  <2>7. CASE e.type_after_cast \in {NoType, e.type}
    <3>1. PICK kind, operands, ty :
            /\ r = [s |-> EmitTo(s, e.line, kind, operands, ty), v |-> newest(s) + 1]
            /\ kind = "VARCPY" /\ operands = <<var>> /\ ty = TypeOf(s, var)
      BY <2>6, <2>7 DEF ValueOfVariable
    <3>. HIDE DEF var
    <3>2. /\ kind # "ADDRESS_OF_VARIABLE" /\ operands \in Seq(VariablesIn(s)) /\ Len(operands) = 1
          /\ ty = e.type
      BY <2>3, <2>5, <3>1
    <3>3. r = [s |-> EmitTo(s, e.line, kind, operands, ty), v |-> newest(s) + 1]
      BY <3>1
    <3>4. Yields(f, s, r) /\ TypeOf(r.s, r.v) = ty
      BY <3>2, <3>3, <1>18, EmittedLaw
    <3>. QED  BY <1>12, <3>2, <3>4 DEF Returns, ReturnsNothing, Yields
  <2>8. CASE e.type_after_cast \notin {NoType, e.type}
    <3>1. r.s = s /\ r.v = var
      BY <2>6, <2>8 DEF ValueOfVariable
    <3>. QED  BY <1>12, <2>3, <2>5, <3>1, StraightReflexive DEF Returns, ReturnsNothing
  <2>. QED  BY <2>7, <2>8
<1>13. CASE e.kind = "CONSTANT"
  <2>. DEFINE u == add_variable(s, e.type)
  <2>1. /\ r.s = EmitConstant(u, e.line, e.name, e.number, newest(s) + 1)
        /\ r.v = newest(s) + 1
    BY <1>13 DEF ExpressionResult, AddressableByPointer, ArithmeticKinds, IncrementKinds
  <2>2. /\ Straight(f, s, u) /\ newest(s) + 1 \in VariablesIn(u)
        /\ TypeOf(u, newest(s) + 1) = e.type
    BY NewVariable
  <2>. HIDE DEF u
  <2>3. StateFits(f, u)
    BY <2>2, StraightKeeps
  <2>4. Straight(f, u, r.s) /\ r.s.variables = u.variables
    BY <2>1, <2>2, <2>3, <1>18, EmitConstantLaw
  <2>5. Straight(f, s, r.s)
    BY <2>2, <2>4, StraightTransitive
  <2>. QED  BY <1>13, <2>1, <2>2, <2>4, <2>5 DEF Returns, ReturnsNothing, VariablesIn, TypeOf
<1>14. CASE e.kind = "NOT"
  <2>1. PICK kind, ty : /\ r = [s |-> EmitTo(s, e.line, kind, args, ty), v |-> newest(s) + 1]
                        /\ kind = "BOOL_NEGATE" /\ ty = boolType
    BY <1>14 DEF ExpressionResult, AddressableByPointer, ArithmeticKinds, IncrementKinds
  <2>2. kind # "ADDRESS_OF_VARIABLE" /\ kind # "VARCPY" /\ ty = boolType
    BY <2>1
  <2>3. r = [s |-> EmitTo(s, e.line, kind, args, ty), v |-> newest(s) + 1]
    BY <2>1
  <2>4. Yields(f, s, r) /\ TypeOf(r.s, r.v) = ty
    BY <2>2, <2>3, <1>18, EmittedLaw
  <2>. QED  BY <1>14, <2>2, <2>4 DEF Returns, ReturnsNothing, Yields
<1>15. CASE e.kind \in ArithmeticKinds
  <2>1. r = build_binop(s, e.kind, e.line, args[1], args[2], e.type)
    BY <1>15 DEF ExpressionResult, AddressableByPointer, ArithmeticKinds, IncrementKinds
  <2>2. Len(args) = 2
    BY <1>4, <1>6, <1>15 DEF ArithmeticKinds, BinaryKinds, AddressableByPointer, IncrementKinds
  <2>3. args[1] \in VariablesIn(s) /\ args[2] \in VariablesIn(s)
    BY <1>7, <2>2
  <2>4. Yields(f, s, r) /\ TypeOf(r.s, r.v) \in {boolType, e.type}
    BY <1>15, <2>1, <2>3, <1>18, BinopLaw
  <2>. QED  BY <1>15, <2>4 DEF Returns, ReturnsNothing, Yields, ArithmeticKinds
<1>16. CASE e.kind \in IncrementKinds
  <2>1. r = build_increment_or_decrement(s, e.kind, e.line, args[1])
    BY <1>16 DEF ExpressionResult, AddressableByPointer, ArithmeticKinds, IncrementKinds
  <2>2. args[1] \in VariablesIn(s)
    BY <1>5, <1>7, <1>16
  <2>3. Yields(f, s, r)
    BY <2>1, <2>2, <1>18, IncrementLaw
  <2>4. e.type # boolType
    BY <1>1, <1>16 DEF ExpressionOK
  <2>. QED  BY <1>16, <2>3, <2>4 DEF Returns, ReturnsNothing, Yields, IncrementKinds
<1>17. CASE e.kind = "AS"
  <2>1. r = build_cast(s, args[1], e.type, e.line)
    BY <1>17 DEF ExpressionResult, AddressableByPointer, ArithmeticKinds, IncrementKinds
  <2>2. args[1] \in VariablesIn(s)
    BY <1>3, <1>6, <1>7, <1>17 DEF UnaryKinds, AddressableByPointer, IncrementKinds
  <2>3. Yields(f, s, r) /\ TypeOf(r.s, r.v) = e.type
    BY <2>1, <2>2, <1>18, BuildCastLaw
  <2>. QED  BY <1>17, <2>3 DEF Returns, ReturnsNothing, Yields
<1>. QED
  BY <1>2, <1>8, <1>9, <1>10, <1>11, <1>12, <1>13, <1>14, <1>15, <1>16, <1>17
     DEF ExpressionKinds, AddressableKinds

LEMMA GoodForKept ==
    ASSUME NEW f, NEW s, NEW t, Straight(f, s, t), NEW use, NEW v, GoodFor(s, use, v)
    PROVE  GoodFor(t, use, v)
<1>1. VariablesIn(s) \subseteq VariablesIn(t) /\ \A w \in VariablesIn(s) : TypeOf(t, w) = TypeOf(s, w)
  BY StraightKeeps
<1>. QED  BY <1>1 DEF GoodFor

LEMMA ConvertedLaw ==
    ASSUME NEW f \in Functions, NEW s, NEW e \in Trees[f].expressions,
           NEW r, Returns(f, s, e, r), NEW q, q = Converted(r, e)
    PROVE  Straight(f, s, q.s) /\ \A use \in UsesOf(e) : GoodFor(q.s, use, q.v)
<1>1. Straight(f, s, r.s) /\ StateFits(f, r.s)
  BY StraightKeeps DEF Returns
<1>2. NoVar \notin VariablesIn(r.s)
  BY DEF VariablesIn, NoVar
<1>6. e.line \in Nat
  BY ExpressionLaw DEF ExpressionOK
<1>3. CASE ReturnsNothing(e)
  <2>1. q = r /\ r.v = NoVar
    BY <1>3 DEF Returns, Converted
  <2>. QED  BY <1>1, <1>3, <2>1 DEF UsesOf, GoodFor
<1>4. CASE ~ ReturnsNothing(e) /\ e.type_after_cast = NoType
  <2>1. q = r /\ r.v \in VariablesIn(r.s)
    BY <1>4 DEF Returns, Converted
  <2>2. FinalType(e) = boolType => TypeOf(r.s, r.v) = boolType
    BY <1>4 DEF Returns, FinalType
  <2>. QED  BY <1>1, <1>2, <1>4, <2>1, <2>2 DEF UsesOf, GoodFor
<1>5. CASE ~ ReturnsNothing(e) /\ e.type_after_cast # NoType
  <2>1. r.v \in VariablesIn(r.s)
    BY <1>5 DEF Returns
  <2>2. q = build_cast(r.s, r.v, e.type_after_cast, e.line)
    BY <1>2, <1>5, <2>1 DEF Converted
  <2>3. Yields(f, r.s, q) /\ TypeOf(q.s, q.v) = e.type_after_cast
    BY <1>1, <1>6, <2>1, <2>2, BuildCastLaw
  <2>4. Straight(f, s, q.s) /\ q.v \in VariablesIn(q.s)
    BY <1>1, <2>3, StraightTransitive DEF Yields
  <2>5. q.v # NoVar
    BY <2>4 DEF VariablesIn, NoVar
  <2>. QED  BY <1>5, <2>3, <2>4, <2>5 DEF UsesOf, GoodFor, FinalType
<1>. QED  BY <1>3, <1>4, <1>5

LEMMA ArgumentsOfAddress ==
    ASSUME NEW f, NEW s, StateFits(f, s), NEW v \in DOMAIN f.variables,
           NEW ins \in InstructionsIn(s), ins.kind = "ADDRESS_OF_VARIABLE"
    PROVE  ins.destvar # v
<1>1. ins.destvar > Len(f.variables)
  BY DEF StateFits, BlocksFit, PointersFit
<1>2. Len(f.variables) \in Nat /\ DOMAIN f.variables = 1 .. Len(f.variables)
  BY Lengths
<1>3. v \in Nat /\ v <= Len(f.variables)
  BY <1>2
<1>. QED  BY <1>1, <1>2, <1>3

LEMMA AddressResultLaw ==
    ASSUME NEW f \in Functions, NEW s, StateFits(f, s), NEW e \in Trees[f].expressions,
           e.kind \in AddressableKinds,
           NEW args \in Seq(VariablesIn(s)), Len(args) = Len(AddressCalls(e)),
           NEW r, r = AddressResult(s, e, args)
    PROVE  Yields(f, s, r)
<1>1. ExpressionOK(f, Trees[f], e)
  BY ExpressionLaw
<1>9. e.line \in Nat
  BY <1>1 DEF ExpressionOK
<1>2. Len(args) = IF e.kind = "GET_FIELD" THEN 1 ELSE Len(e.operands)
  <2>. DEFINE calls == EvaluateAll(e.operands)
  <2>1. Len(calls) = Len(e.operands)
    BY <1>1 DEF ExpressionOK, EvaluateAll
  <2>2. e.kind # "GET_FIELD" => AddressCalls(e) = calls
    BY DEF AddressCalls
  <2>3. e.kind = "GET_FIELD" => Len(AddressCalls(e)) = 1
    BY DEF AddressCalls
  <2>. HIDE DEF calls
  <2>. QED  BY <2>1, <2>2, <2>3
<1>3. e.kind # "GET_VARIABLE" => Len(args) \in {1, 2}
  <2>1. /\ e.kind \in UnaryKinds => Len(e.operands) = 1
        /\ e.kind \in BinaryKinds => Len(e.operands) = 2
    BY <1>1 DEF ExpressionOK
  <2>. QED  BY <1>2, <2>1 DEF AddressableKinds, AddressableByPointer, UnaryKinds, BinaryKinds
<1>4. e.kind # "GET_VARIABLE" => args[1] \in VariablesIn(s)
  BY <1>3
<1>5. CASE e.kind = "GET_VARIABLE"
  <2>. DEFINE var == find_variable(s, e.name)
  <2>1. HasVariable(f, e.name)
    BY <1>1, <1>5 DEF ExpressionOK, HasVariable
  <2>2. var \in DOMAIN f.variables /\ var \in VariablesIn(s) /\ f.variables[var].name = e.name
    BY <2>1, FindVariable
  <2>6. e.name # "return"
    BY <1>1, <1>5 DEF ExpressionOK
  <2>3. PICK ty : /\ r.s = EmitTo(s, e.line, "ADDRESS_OF_VARIABLE", <<var>>, ty)
                  /\ r.v = newest(s) + 1
    BY <1>5 DEF AddressResult
  <2>. HIDE DEF var
  <2>4. \A ins \in InstructionsIn(s) : ins.kind = "ADDRESS_OF_VARIABLE" => ins.destvar # var
    BY <2>2, ArgumentsOfAddress
  <2>7. Addressable(f, var)
    BY <2>2, <2>6 DEF Addressable
  <2>5. Straight(f, s, r.s) /\ newest(r.s) = newest(s) + 1 /\ newest(r.s) \in VariablesIn(r.s)
    BY <2>2, <2>3, <2>4, <2>7, <1>9, AddressToLaw
  <2>. QED  BY <2>3, <2>5 DEF Yields
<1>6. CASE e.kind = "DEREFERENCE"
  <2>1. r.s = s /\ r.v = args[1]
    BY <1>6 DEF AddressResult
  <2>. QED  BY <1>4, <1>6, <2>1, StraightReflexive DEF Yields
<1>7. CASE e.kind \in {"GET_FIELD", "DEREF_AND_GET_FIELD"}
  <2>1. r.s = build_struct_field_pointer(s, args[1], e.name, e.line) /\ r.v = newest(s) + 1
    BY <1>7 DEF AddressResult
  <2>2. args[1] \in VariablesIn(s)
    BY <1>4, <1>7
  <2>3. Straight(f, s, r.s) /\ newest(s) + 1 \in VariablesIn(r.s)
    BY <2>1, <2>2, <1>9, StructFieldLaw
  <2>. QED  BY <2>1, <2>3 DEF Yields
<1>8. CASE e.kind = "INDEXING"
  <2>1. r = [s |-> EmitTo(s, e.line, "PTR_ADD_INT", args, TypeOf(s, args[1])), v |-> newest(s) + 1]
    BY <1>8 DEF AddressResult
  <2>2. PICK kind, ty : /\ r = [s |-> EmitTo(s, e.line, kind, args, ty), v |-> newest(s) + 1]
                        /\ kind = "PTR_ADD_INT"
    BY <2>1
  <2>3. kind # "ADDRESS_OF_VARIABLE" /\ kind # "VARCPY"
    BY <2>2
  <2>4. r = [s |-> EmitTo(s, e.line, kind, args, ty), v |-> newest(s) + 1]
    BY <2>2
  <2>. QED  BY <2>3, <2>4, <1>9, EmittedLaw
<1>. QED  BY <1>5, <1>6, <1>7, <1>8 DEF AddressableKinds, AddressableByPointer
-----------------------------------------------------------------------------
\* Blocks and jumps.
LEMMA StraightFinishes ==
    ASSUME NEW f, NEW s, NEW t, Straight(f, s, t)
    PROVE  InnerBlocks(t) = InnerBlocks(s) /\ Unfinished(t) \subseteq Unfinished(s)
<1>1. DOMAIN t.block = DOMAIN s.block
  BY Lengths DEF Straight, Continues
<1>2. InnerBlocks(t) = InnerBlocks(s)
  BY <1>1 DEF InnerBlocks
<1>3. ASSUME NEW b \in InnerBlocks(s), JumpIsSet(s, b) PROVE JumpIsSet(t, b)
  <2>1. SameJump(s.block[b], t.block[b])
    BY DEF InnerBlocks, Straight
  <2>2. VariablesIn(s) \subseteq VariablesIn(t) /\ \A v \in VariablesIn(s) : TypeOf(t, v) = TypeOf(s, v)
    BY StraightKeeps
  <2>. QED  BY <1>1, <1>3, <2>1, <2>2 DEF JumpIsSet, SameJump
<1>. QED  BY <1>2, <1>3 DEF Unfinished

LEMMA AddBlock ==
    ASSUME NEW f, NEW s, StateFits(f, s), NEW t, t = add_block(s)
    PROVE  /\ Continues(f, s, t) /\ newblock(t) = newblock(s) + 1
           /\ t.current_block = s.current_block /\ t.variables = s.variables
           /\ t.breakstack = s.breakstack /\ t.continuestack = s.continuestack
           /\ InnerBlocks(t) = InnerBlocks(s) \cup {newblock(s) + 1}
           /\ Unfinished(t) \subseteq Unfinished(s) \cup {newblock(s) + 1}
<1>1. /\ DOMAIN t = DOMAIN s /\ t.block = Append(s.block, EmptyBlock)
      /\ t.current_block = s.current_block /\ t.variables = s.variables
      /\ t.breakstack = s.breakstack /\ t.continuestack = s.continuestack
  BY DEF add_block, StateFits
<1>2. /\ List(t.block) /\ Len(t.block) = Len(s.block) + 1
      /\ t.block[Len(s.block) + 1] = EmptyBlock
      /\ \A b \in 1 .. Len(s.block) : t.block[b] = s.block[b]
  BY <1>1, AppendList DEF StateFits, BlocksFit
<1>3. /\ Len(s.block) \in Nat /\ Len(s.block) >= 2 /\ DOMAIN s.block = 1 .. Len(s.block)
      /\ DOMAIN t.block = 1 .. Len(s.block) + 1
  <2>1. \A q : List(q) => DOMAIN q = 1 .. Len(q)
    BY DEF List
  <2>. QED  BY <1>2, <2>1, Lengths DEF StateFits, BlocksFit
<1>4. DOMAIN t.block = DOMAIN s.block \cup {Len(s.block) + 1} /\ Len(s.block) + 1 # EndBlock
  BY <1>3 DEF EndBlock
<1>5. EmptyBlock.instructions = << >> /\ ToSet(<< >>) = {} /\ List(<< >>)
      /\ DOMAIN EmptyBlock = {"instructions", "branchvar", "iftrue", "iffalse"}
  BY ShortLists DEF EmptyBlock
<1>6. InstructionsIn(t) = InstructionsIn(s)
  <2>1. InstructionsIn(t) = (UNION {ToSet(t.block[b].instructions) : b \in DOMAIN s.block})
                                \cup ToSet(t.block[Len(s.block) + 1].instructions)
    BY <1>4 DEF InstructionsIn
  <2>2. ToSet(t.block[Len(s.block) + 1].instructions) = {}
    BY <1>2, <1>5
  <2>3. \A b \in DOMAIN s.block : t.block[b] = s.block[b]
    BY <1>2, <1>3
  <2>. QED  BY <2>1, <2>2, <2>3 DEF InstructionsIn
<1>7. InnerBlocks(t) = InnerBlocks(s) \cup {Len(s.block) + 1} /\ VariablesIn(t) = VariablesIn(s)
  BY <1>1, <1>4 DEF InnerBlocks, VariablesIn
<1>8. \A b \in DOMAIN t.block :
        /\ DOMAIN t.block[b] = {"instructions", "branchvar", "iftrue", "iffalse"}
        /\ List(t.block[b].instructions)
  <2>1. \A b \in DOMAIN s.block :
        /\ DOMAIN s.block[b] = {"instructions", "branchvar", "iftrue", "iffalse"}
        /\ List(s.block[b].instructions)
    BY DEF StateFits, BlocksFit
  <2>2. \A b \in DOMAIN s.block : t.block[b] = s.block[b]
    BY <1>2, <1>3
  <2>. QED  BY <1>2, <1>4, <1>5, <2>1, <2>2
<1>9. BlocksFit(f, t)
  <2>1. t.block[EndBlock] = EmptyBlock
    BY <1>2, <1>3 DEF StateFits, BlocksFit, EndBlock
  <2>2. Len(t.block) >= 2
    BY <1>2, <1>3
  <2>3. \A ins \in InstructionsIn(t) : InstructionFits(t, ins)
    BY <1>6, <1>7 DEF StateFits, BlocksFit, InstructionFits
  <2>. QED  BY <1>2, <1>6, <1>8, <2>1, <2>2, <2>3 DEF StateFits, BlocksFit
<1>10. StateFits(f, t)
  <2>1. VariablesFit(f, t)
    BY <1>1, <1>7 DEF StateFits, VariablesFit
  <2>2. Seq(InnerBlocks(s)) \subseteq Seq(InnerBlocks(t))
    BY <1>7, SeqSubset
  <2>. QED  BY <1>1, <1>7, <1>9, <2>1, <2>2 DEF StateFits
<1>11. Unfinished(t) \subseteq Unfinished(s) \cup {Len(s.block) + 1}
  <2>1. ASSUME NEW b \in InnerBlocks(s), JumpIsSet(s, b) PROVE JumpIsSet(t, b)
    <3>1. t.block[b] = s.block[b] /\ DOMAIN s.block \subseteq DOMAIN t.block
      BY <1>2, <1>3, <1>4 DEF InnerBlocks
    <3>. QED  BY <1>1, <1>7, <2>1, <3>1 DEF JumpIsSet, TypeOf
  <2>. QED  BY <1>7, <2>1 DEF Unfinished
<1>12. Continues(f, s, t)
  BY <1>1, <1>2, <1>3, <1>10 DEF Continues
<1>. QED  BY <1>1, <1>2, <1>7, <1>11, <1>12 DEF newblock

\* add_jump before it changes the current block.
WithJump(s, branchvar, iftrue, iffalse) ==
    [s EXCEPT !.block[s.current_block].branchvar = branchvar,
              !.block[s.current_block].iftrue = iftrue,
              !.block[s.current_block].iffalse = iffalse]

\* A branch needs a variable to decide it.
Decides(s, branchvar, iftrue, iffalse) == iftrue # iffalse => GoodFor(s, "bool", branchvar)

LEMMA SetJump ==
    ASSUME NEW f, NEW s, StateFits(f, s), NEW branchvar,
           NEW iftrue \in DOMAIN s.block, NEW iffalse \in DOMAIN s.block,
           Decides(s, branchvar, iftrue, iffalse),
           NEW t, t = WithJump(s, branchvar, iftrue, iffalse)
    PROVE  /\ Continues(f, s, t) /\ Len(t.block) = Len(s.block) /\ t.variables = s.variables
           /\ t.current_block = s.current_block
           /\ t.breakstack = s.breakstack /\ t.continuestack = s.continuestack
           /\ Unfinished(t) \subseteq Unfinished(s) \ {s.current_block}
<1>. DEFINE c == s.current_block
            jump == [s.block[c] EXCEPT !.branchvar = branchvar, !.iftrue = iftrue, !.iffalse = iffalse]
<1>1. /\ c \in DOMAIN s.block /\ c # EndBlock
      /\ \A b \in DOMAIN s.block : /\ DOMAIN s.block[b] = {"instructions", "branchvar", "iftrue", "iffalse"}
                                   /\ List(s.block[b].instructions)
      /\ List(s.block) /\ Len(s.block) >= 2
  BY DEF StateFits, BlocksFit, InnerBlocks
<1>2. /\ DOMAIN t = DOMAIN s /\ t.block = [s.block EXCEPT ![c] = jump]
      /\ t.current_block = c /\ t.variables = s.variables
      /\ t.breakstack = s.breakstack /\ t.continuestack = s.continuestack
  BY <1>1 DEF StateFits, WithJump
<1>3. /\ DOMAIN jump = {"instructions", "branchvar", "iftrue", "iffalse"}
      /\ jump.instructions = s.block[c].instructions
      /\ jump.branchvar = branchvar /\ jump.iftrue = iftrue /\ jump.iffalse = iffalse
  BY <1>1
<1>. HIDE DEF c, jump
<1>4. /\ t.block[c] = jump /\ DOMAIN t.block = DOMAIN s.block
      /\ \A b \in DOMAIN s.block : b # c => t.block[b] = s.block[b]
  BY <1>1, <1>2
<1>5. List(t.block) /\ Len(t.block) = Len(s.block)
  <2>. DEFINE old == s.block
              new == t.block
  <2>1. List(old) /\ new = [old EXCEPT ![c] = jump]
    BY <1>1, <1>2
  <2>. HIDE DEF old, new
  <2>2. List(new) /\ Len(new) = Len(old)
    BY ONLY <2>1, ReplaceList
  <2>. QED  BY <2>2 DEF old, new
<1>6. \A b \in DOMAIN s.block : t.block[b].instructions = s.block[b].instructions
  BY <1>3, <1>4
<1>7. /\ InstructionsIn(t) = InstructionsIn(s) /\ InnerBlocks(t) = InnerBlocks(s)
      /\ VariablesIn(t) = VariablesIn(s)
  BY <1>2, <1>4, <1>6 DEF InstructionsIn, InnerBlocks, VariablesIn
<1>8. BlocksFit(f, t)
  <2>1. t.block[EndBlock] = EmptyBlock
    <3>1. s.block[EndBlock] = EmptyBlock /\ EndBlock \in DOMAIN s.block
      BY Lengths, <1>1 DEF StateFits, BlocksFit, EndBlock
    <3>. QED  BY <3>1, <1>1, <1>4
  <2>2. \A b \in DOMAIN t.block :
            /\ DOMAIN t.block[b] = {"instructions", "branchvar", "iftrue", "iffalse"}
            /\ List(t.block[b].instructions)
    BY <1>1, <1>3, <1>4
  <2>3. \A ins \in InstructionsIn(t) : InstructionFits(t, ins)
    BY <1>7 DEF StateFits, BlocksFit, InstructionFits
  <2>. QED  BY <1>1, <1>5, <1>7, <2>1, <2>2, <2>3 DEF StateFits, BlocksFit
<1>9. StateFits(f, t)
  BY <1>2, <1>7, <1>8 DEF StateFits, VariablesFit, c
<1>10. Continues(f, s, t)
  BY <1>2, <1>5, <1>9, Lengths DEF Continues
<1>11. JumpIsSet(t, c)
  BY <1>2, <1>3, <1>4, <1>7 DEF JumpIsSet, Decides, GoodFor, TypeOf, NoVar
<1>12. ASSUME NEW b \in InnerBlocks(s), b # c, JumpIsSet(s, b) PROVE JumpIsSet(t, b)
  <2>1. t.block[b] = s.block[b]
    BY <1>4, <1>12 DEF InnerBlocks
  <2>. QED  BY <1>2, <1>4, <1>7, <1>12, <2>1 DEF JumpIsSet, TypeOf
<1>13. Unfinished(t) \subseteq Unfinished(s) \ {c}
  BY <1>7, <1>11, <1>12 DEF Unfinished
<1>. QED  BY <1>2, <1>5, <1>10, <1>13 DEF c

\* Nothing but the place where code goes, and the loops it is in.
LEMMA Reframe ==
    ASSUME NEW f, NEW s, StateFits(f, s), NEW t, DOMAIN t = DOMAIN s,
           t.block = s.block, t.variables = s.variables,
           t.current_block \in InnerBlocks(s),
           t.breakstack \in Seq(InnerBlocks(s)), t.continuestack \in Seq(InnerBlocks(s))
    PROVE  Continues(f, s, t) /\ InnerBlocks(t) = InnerBlocks(s) /\ Unfinished(t) = Unfinished(s)
<1>1. InnerBlocks(t) = InnerBlocks(s) /\ InstructionsIn(t) = InstructionsIn(s)
      /\ VariablesIn(t) = VariablesIn(s)
  BY DEF InnerBlocks, InstructionsIn, VariablesIn
<1>2. StateFits(f, t)
  BY <1>1 DEF StateFits, BlocksFit, VariablesFit, InstructionFits
<1>3. Unfinished(t) = Unfinished(s)
  BY <1>1 DEF Unfinished, JumpIsSet, TypeOf
<1>. QED  BY <1>1, <1>2, <1>3, Lengths DEF Continues

LEMMA ContinuesKeeps ==
    ASSUME NEW f, NEW s, NEW t, Continues(f, s, t)
    PROVE  /\ VariablesIn(s) \subseteq VariablesIn(t) /\ InnerBlocks(s) \subseteq InnerBlocks(t)
           /\ DOMAIN s.block \subseteq DOMAIN t.block
           /\ \A v \in VariablesIn(s) : TypeOf(t, v) = TypeOf(s, v)
<1>1. StateFits(f, s) /\ StateFits(f, t)
  BY DEF Continues
<1>2. /\ Len(s.variables) \in Nat /\ Len(t.variables) \in Nat
      /\ Len(s.block) \in Nat /\ Len(t.block) \in Nat
      /\ DOMAIN s.block = 1 .. Len(s.block) /\ DOMAIN t.block = 1 .. Len(t.block)
  BY <1>1, Lengths
<1>3. VariablesIn(s) \subseteq VariablesIn(t) /\ DOMAIN s.block \subseteq DOMAIN t.block
  BY <1>2 DEF Continues, VariablesIn
<1>. QED  BY <1>3 DEF Continues, InnerBlocks, TypeOf

\* The current block is finished, code goes on in a block that is there.
Moved(f, s, t, new) ==
    /\ Continues(f, s, t) /\ t.current_block = new /\ InnerBlocks(t) = InnerBlocks(s)
    /\ t.breakstack = s.breakstack /\ t.continuestack = s.continuestack
    /\ Unfinished(t) \subseteq Unfinished(s) \ {s.current_block}

LEMMA AddJump ==
    ASSUME NEW f, NEW s, StateFits(f, s), NEW branchvar,
           NEW iftrue \in DOMAIN s.block, NEW iffalse \in DOMAIN s.block,
           Decides(s, branchvar, iftrue, iffalse),
           NEW new \in InnerBlocks(s),
           NEW t, t = add_jump(s, branchvar, iftrue, iffalse, new)
    PROVE  Moved(f, s, t, new)
<1>. DEFINE u == WithJump(s, branchvar, iftrue, iffalse)
<1>1. /\ Continues(f, s, u) /\ Len(u.block) = Len(s.block)
      /\ u.breakstack = s.breakstack /\ u.continuestack = s.continuestack
      /\ Unfinished(u) \subseteq Unfinished(s) \ {s.current_block}
  BY SetJump
<1>2. new # NoBlock
  BY Lengths DEF InnerBlocks, NoBlock
<1>3. t = [u EXCEPT !.current_block = new]
  BY <1>2 DEF add_jump, WithJump
<1>. HIDE DEF u
<1>4. StateFits(f, u) /\ DOMAIN u.block = DOMAIN s.block
  BY <1>1, Lengths DEF Continues
<1>5. InnerBlocks(u) = InnerBlocks(s)
  BY <1>4 DEF InnerBlocks
<1>6. /\ DOMAIN t = DOMAIN u /\ t.block = u.block /\ t.variables = u.variables
      /\ t.current_block = new
      /\ t.breakstack = u.breakstack /\ t.continuestack = u.continuestack
  BY <1>3, <1>4 DEF StateFits
<1>7. u.breakstack \in Seq(InnerBlocks(u)) /\ u.continuestack \in Seq(InnerBlocks(u))
  BY <1>4 DEF StateFits
<1>8. Continues(f, u, t) /\ InnerBlocks(t) = InnerBlocks(u) /\ Unfinished(t) = Unfinished(u)
  BY <1>4, <1>5, <1>6, <1>7, Reframe
<1>9. Continues(f, s, t)
  BY <1>1, <1>8, ContinuesTransitive
<1>. QED  BY <1>1, <1>5, <1>6, <1>8, <1>9 DEF Moved

\* A jump out of the current block, to go on in a new one.
LEMMA JumpAway ==
    ASSUME NEW f, NEW s, StateFits(f, s), NEW target \in DOMAIN s.block,
           NEW t, t = Goto(s, target, NoBlock)
    PROVE  /\ Continues(f, s, t)
           /\ t.breakstack = s.breakstack /\ t.continuestack = s.continuestack
           /\ Unfinished(t) \subseteq (Unfinished(s) \ {s.current_block}) \cup {t.current_block}
<1>. DEFINE u == WithJump(s, NoVar, target, target)
            w == add_block(u)
<1>1. /\ Continues(f, s, u)
      /\ u.breakstack = s.breakstack /\ u.continuestack = s.continuestack
      /\ Unfinished(u) \subseteq Unfinished(s) \ {s.current_block}
  BY SetJump DEF Decides
<1>2. t = [w EXCEPT !.current_block = newblock(u) + 1]
  BY DEF Goto, add_jump, WithJump
<1>3. StateFits(f, u)
  BY <1>1 DEF Continues
<1>. HIDE DEF u
<1>4. /\ Continues(f, u, w) /\ w.breakstack = u.breakstack /\ w.continuestack = u.continuestack
      /\ InnerBlocks(w) = InnerBlocks(u) \cup {newblock(u) + 1}
      /\ Unfinished(w) \subseteq Unfinished(u) \cup {newblock(u) + 1}
  BY <1>3, AddBlock
<1>. HIDE DEF w
<1>5. StateFits(f, w)
  BY <1>4 DEF Continues
<1>6. /\ DOMAIN t = DOMAIN w /\ t.block = w.block /\ t.variables = w.variables
      /\ t.current_block = newblock(u) + 1
      /\ t.breakstack = w.breakstack /\ t.continuestack = w.continuestack
  BY <1>2, <1>5 DEF StateFits
<1>7. w.breakstack \in Seq(InnerBlocks(w)) /\ w.continuestack \in Seq(InnerBlocks(w))
  BY <1>5 DEF StateFits
<1>8. Continues(f, w, t) /\ Unfinished(t) = Unfinished(w)
  BY <1>4, <1>5, <1>6, <1>7, Reframe
<1>9. Continues(f, s, t)
  BY <1>1, <1>4, <1>8, ContinuesTransitive
<1>. QED  BY <1>1, <1>4, <1>6, <1>8, <1>9

LEMMA GoodForStays ==
    ASSUME NEW f, NEW s, NEW t, Continues(f, s, t), NEW use, NEW v, GoodFor(s, use, v)
    PROVE  GoodFor(t, use, v)
BY ContinuesKeeps DEF GoodFor

LEMMA ItemStays ==
    ASSUME NEW f, NEW s, NEW t, Continues(f, s, t), NEW item, ItemFits(f, s, item)
    PROVE  ItemFits(f, t, item)
<1>1. /\ VariablesIn(s) \subseteq VariablesIn(t) /\ InnerBlocks(s) \subseteq InnerBlocks(t)
      /\ \A v \in VariablesIn(s) : TypeOf(t, v) = TypeOf(s, v)
  BY ContinuesKeeps
<1>2. \A c : AndOrFits(f, s, c) => AndOrFits(f, t, c)
  BY <1>1 DEF AndOrFits
<1>3. \A l : LoopFits(f, s, l) => LoopFits(f, t, l)
  BY <1>1 DEF LoopFits
<1>. QED  BY <1>1, <1>2, <1>3 DEF ItemFits
-----------------------------------------------------------------------------
\* What a sequence of calls does to the layout.
LEMMA LeadsNone ==
    ASSUME NEW x \in Layouts
    PROVE  Leads(<< >>, x, x)
<1>. DEFINE lay == [i \in 1 .. 1 |-> x]
<1>1. lay \in [1 .. 1 -> Layouts] /\ lay[1] = x
  OBVIOUS
<1>. HIDE DEF lay
<1>2. \A q : Len(q) = 0 => Leads(q, x, x)
  BY <1>1 DEF Leads
<1>. QED  BY <1>2

LEMMA LeadsFirst ==
    ASSUME NEW q, List(q), q # << >>, NEW x, NEW y, Leads(q, x, y)
    PROVE  \E m \in Layouts : Effect(q[1], x, m) /\ Leads(Tail(q), m, y)
<1>. DEFINE n == Len(Tail(q))
<1>1. /\ Len(q) = n + 1 /\ n \in Nat
      /\ \A i \in 1 .. n : Tail(q)[i] = q[i + 1]
  BY TailList
<1>2. PICK lay \in [1 .. Len(q) + 1 -> Layouts] :
        /\ lay[1] = x /\ lay[Len(q) + 1] = y
        /\ \A i \in 1 .. Len(q) : Effect(q[i], lay[i], lay[i + 1])
  BY DEF Leads
<1>. DEFINE later == [i \in 1 .. n + 1 |-> lay[i + 1]]
<1>. HIDE DEF n
<1>3. /\ later \in [1 .. n + 1 -> Layouts]
      /\ \A i \in 1 .. n + 1 : later[i] = lay[i + 1]
  BY <1>1
<1>. HIDE DEF later
<1>4. later[1] = lay[2] /\ later[n + 1] = y
  BY <1>1, <1>2, <1>3
<1>5. \A i \in 1 .. n : Effect(Tail(q)[i], later[i], later[i + 1])
  <2>. SUFFICES ASSUME NEW i \in 1 .. n PROVE Effect(Tail(q)[i], later[i], later[i + 1])
    OBVIOUS
  <2>1. i + 1 \in 1 .. Len(q) /\ i \in 1 .. n + 1 /\ i + 1 \in 1 .. n + 1
    BY <1>1
  <2>2. Effect(q[i + 1], lay[i + 1], lay[(i + 1) + 1])
    BY <1>2, <2>1
  <2>. QED  BY <1>1, <1>3, <2>1, <2>2
<1>6. Leads(Tail(q), lay[2], y)
  BY <1>3, <1>4, <1>5 DEF Leads, n
<1>7. Effect(q[1], x, lay[2]) /\ lay[2] \in Layouts
  <2>1. 1 \in 1 .. Len(q) /\ 2 \in 1 .. Len(q) + 1
    BY <1>1
  <2>2. Effect(q[1], lay[1], lay[1 + 1])
    BY <1>2, <2>1
  <2>. QED  BY <1>2, <2>1, <2>2
<1>. QED  BY <1>6, <1>7

LEMMA LeadsConcat ==
    ASSUME NEW p, List(p), NEW q, List(q), NEW x, NEW m, NEW y,
           Leads(p, x, m), Leads(q, m, y)
    PROVE  Leads(p \o q, x, y)
<1>1. Len(p) \in Nat /\ Len(q) \in Nat
  BY DEF List
<1>2. /\ Len(p \o q) = Len(p) + Len(q)
      /\ \A i \in 1 .. Len(p) : (p \o q)[i] = p[i]
      /\ \A i \in 1 .. Len(q) : (p \o q)[Len(p) + i] = q[i]
  BY ConcatList
<1>3. PICK one \in [1 .. Len(p) + 1 -> Layouts] :
        /\ one[1] = x /\ one[Len(p) + 1] = m
        /\ \A i \in 1 .. Len(p) : Effect(p[i], one[i], one[i + 1])
  BY DEF Leads
<1>4. PICK two \in [1 .. Len(q) + 1 -> Layouts] :
        /\ two[1] = m /\ two[Len(q) + 1] = y
        /\ \A i \in 1 .. Len(q) : Effect(q[i], two[i], two[i + 1])
  BY DEF Leads
<1>. DEFINE n == Len(p)
            k == Len(q)
            lay == [i \in 1 .. n + k + 1 |-> IF i <= n THEN one[i] ELSE two[i - n]]
<1>. HIDE DEF n, k
<1>5. /\ n \in Nat /\ k \in Nat /\ n = Len(p) /\ k = Len(q)
  BY <1>1 DEF n, k
<1>6. /\ lay \in [1 .. n + k + 1 -> Layouts]
      /\ \A i \in 1 .. n : lay[i] = one[i]
      /\ \A i \in 1 .. k + 1 : lay[n + i] = two[i]
  BY <1>3, <1>4, <1>5
<1>. HIDE DEF lay
<1>7. \A i \in 1 .. n + 1 : lay[i] = one[i]
  <2>1. lay[n + 1] = one[n + 1]
    BY <1>3, <1>4, <1>5, <1>6
  <2>. QED  BY <1>5, <1>6, <2>1
<1>8. lay[1] = x /\ lay[n + k + 1] = y
  <2>1. lay[n + (k + 1)] = two[k + 1]
    BY <1>5, <1>6
  <2>. QED  BY <1>3, <1>4, <1>5, <1>7, <2>1
<1>9. \A i \in 1 .. n + k : Effect((p \o q)[i], lay[i], lay[i + 1])
  <2>. SUFFICES ASSUME NEW i \in 1 .. n + k PROVE Effect((p \o q)[i], lay[i], lay[i + 1])
    OBVIOUS
  <2>1. CASE i <= n
    <3>1. i \in 1 .. n /\ i \in 1 .. n + 1 /\ i + 1 \in 1 .. n + 1
      BY <1>5, <2>1
    <3>. QED  BY <1>2, <1>3, <1>5, <1>7, <3>1
  <2>2. CASE ~ (i <= n)
    <3>. DEFINE j == i - n
    <3>1. j \in 1 .. k /\ j \in 1 .. k + 1 /\ j + 1 \in 1 .. k + 1 /\ i = n + j /\ i + 1 = n + (j + 1)
      BY <1>5, <2>2
    <3>. HIDE DEF j
    <3>2. Effect(q[j], two[j], two[j + 1])
      BY <1>4, <1>5, <3>1
    <3>3. (p \o q)[i] = q[j] /\ lay[i] = two[j] /\ lay[i + 1] = two[j + 1]
      BY <1>2, <1>5, <1>6, <3>1
    <3>. QED  BY <3>2, <3>3
  <2>. QED  BY <2>1, <2>2
<1>10. Len(p \o q) = n + k
  BY <1>2, <1>5
<1>. QED  BY <1>6, <1>8, <1>9, <1>10 DEF Leads

LEMMA LeadsOne ==
    ASSUME NEW x \in Layouts, NEW y \in Layouts, NEW item, Effect(item, x, y)
    PROVE  Leads(<<item>>, x, y)
<1>. DEFINE lay == [i \in 1 .. 2 |-> IF i = 1 THEN x ELSE y]
<1>1. lay \in [1 .. 2 -> Layouts] /\ lay[1] = x /\ lay[2] = y
  OBVIOUS
<1>. HIDE DEF lay
<1>2. Len(<<item>>) = 1 /\ <<item>>[1] = item
  OBVIOUS
<1>3. \A i \in 1 .. 1 : Effect(<<item>>[i], lay[i], lay[i + 1])
  BY <1>1, <1>2
<1>. QED  BY <1>1, <1>2, <1>3 DEF Leads

\* A call that only adds something to the stack of values, or does not
\* change the layout at all.
Plain(item) == TakenCount(item) = 0 /\ item.call \notin {"loop_body_done", "implicit_return"}
Pushes(item, use) == Plain(item) /\ use \in LeftFor(item)
Silent(item) == Plain(item) /\ LeftFor(item) = {}

\* y is x with n more variables, all good for the same.
Pushed(x, y, n, use) ==
    /\ y \in Layouts /\ y.open
    /\ Len(y.uses) = Len(x.uses) + n
    /\ \A i \in 1 .. Len(y.uses) : i > Len(y.uses) - n => y.uses[i] = use
    /\ Without(y, n) = x

LEMMA DropSome ==
    ASSUME NEW S, NEW q \in Seq(S), NEW n \in Nat, n <= Len(q), NEW r, r = SubSeq(q, 1, Len(q) - n)
    PROVE  /\ r \in Seq(S) /\ Len(r) = Len(q) - n
           /\ \A i \in 1 .. Len(q) - n : r[i] = q[i]
           /\ n = 0 => r = q
<1>1. Len(q) \in Nat
  OBVIOUS
<1>2. r \in Seq(S) /\ Len(r) = Len(q) - n /\ \A i \in 1 .. Len(q) - n : r[i] = q[i]
  BY <1>1
<1>. QED  BY <1>2

LEMMA FunctionSeq ==
    ASSUME NEW S, NEW n \in Nat, NEW h \in [1 .. n -> S]
    PROVE  h \in Seq(S) /\ Len(h) = n
OBVIOUS

LEMMA WithoutNone ==
    ASSUME NEW x \in Layouts
    PROVE  Without(x, 0) = x
<1>1. x.uses \in Seq(Uses) /\ Len(x.uses) \in Nat /\ 0 <= Len(x.uses)
  BY DEF Layouts
<1>2. SubSeq(x.uses, 1, Len(x.uses) - 0) = x.uses
  BY <1>1, DropSome
<1>. QED  BY <1>2 DEF Without, Layouts

LEMMA NoEffect ==
    ASSUME NEW q, List(q), \A item \in ToSet(q) : Silent(item), NEW x \in Layouts, x.open
    PROVE  Leads(q, x, x)
<1>1. Len(q) \in Nat /\ \A i \in 1 .. Len(q) : q[i] \in ToSet(q)
  BY DEF List, ToSet
<1>2. Without(x, 0) = x /\ Len(x.uses) \in Nat
  BY WithoutNone DEF Layouts
<1>3. \A item : Silent(item) => Effect(item, x, x)
  BY <1>2 DEF Silent, Plain, Effect, Leaves
<1>. DEFINE lay == [i \in 1 .. Len(q) + 1 |-> x]
<1>4. /\ lay \in [1 .. Len(q) + 1 -> Layouts] /\ lay[1] = x /\ lay[Len(q) + 1] = x
      /\ \A i \in 1 .. Len(q) : lay[i] = x /\ lay[i + 1] = x
  BY <1>1
<1>. HIDE DEF lay
<1>5. \A i \in 1 .. Len(q) : Effect(q[i], lay[i], lay[i + 1])
  BY <1>1, <1>3, <1>4
<1>. QED  BY <1>4, <1>5 DEF Leads

LEMMA PushMany ==
    ASSUME NEW use \in Uses, NEW q, List(q), \A item \in ToSet(q) : Pushes(item, use),
           NEW x \in Layouts, x.open
    PROVE  \E y : Leads(q, x, y) /\ Pushed(x, y, Len(q), use)
<1>. DEFINE k == Len(x.uses)
            n == Len(q)
            Uses_(i) == [j \in 1 .. k + i - 1 |-> IF j <= k THEN x.uses[j] ELSE use]
            Layout(i) == [uses |-> Uses_(i), loops |-> x.loops, open |-> TRUE]
<1>1. n \in Nat /\ \A i \in 1 .. n : q[i] \in ToSet(q)
  BY DEF List, ToSet
<1>2. x.uses \in Seq(Uses) /\ k \in Nat /\ x.loops \in Nat /\ x.open = TRUE
      /\ x = [uses |-> x.uses, loops |-> x.loops, open |-> x.open]
  BY DEF Layouts
<1>3. \A i \in 1 .. n + 1 : Uses_(i) \in Seq(Uses) /\ Len(Uses_(i)) = k + i - 1
  <2>. SUFFICES ASSUME NEW i \in 1 .. n + 1
                PROVE  Uses_(i) \in Seq(Uses) /\ Len(Uses_(i)) = k + i - 1
    OBVIOUS
  <2>1. k + i - 1 \in Nat
    BY <1>1, <1>2
  <2>2. Uses_(i) \in [1 .. k + i - 1 -> Uses]
    BY <1>2, <2>1
  <2>. HIDE DEF Uses_
  <2>. QED  BY <2>1, <2>2, FunctionSeq
<1>4. \A i \in 1 .. n : Uses_(i + 1) = Append(Uses_(i), use)
  <2>. SUFFICES ASSUME NEW i \in 1 .. n PROVE Uses_(i + 1) = Append(Uses_(i), use)
    OBVIOUS
  <2>. DEFINE a == Uses_(i)
              b == Uses_(i + 1)
  <2>1. /\ a \in Seq(Uses) /\ b \in Seq(Uses) /\ Len(a) = k + i - 1 /\ Len(b) = k + i
    <3>. HIDE DEF Uses_
    <3>1. i \in 1 .. n + 1 /\ i + 1 \in 1 .. n + 1 /\ k + (i + 1) - 1 = k + i
      BY <1>1, <1>2
    <3>. QED  BY <1>3, <3>1
  <2>2. \A j \in 1 .. k + i - 1 : b[j] = a[j]
    BY <1>1, <1>2
  <2>3. b[k + i] = use
    BY <1>1, <1>2
  <2>. HIDE DEF a, b
  <2>4. b = Append(a, use)
    BY <1>1, <1>2, <2>1, <2>2, <2>3
  <2>. QED  BY <2>4 DEF a, b
<1>5. Uses_(1) = x.uses
  BY <1>2
<1>. HIDE DEF Uses_
<1>6. \A i \in 1 .. n + 1 : Layout(i) \in Layouts
  BY <1>2, <1>3 DEF Layouts
<1>7. Layout(1) = x
  BY <1>2, <1>5
<1>8. \A i \in 1 .. n : Effect(q[i], Layout(i), Layout(i + 1))
  <2>. SUFFICES ASSUME NEW i \in 1 .. n PROVE Effect(q[i], Layout(i), Layout(i + 1))
    OBVIOUS
  <2>1. Pushes(q[i], use) /\ i \in 1 .. n + 1
    BY <1>1
  <2>2. Without(Layout(i), 0) = Layout(i) /\ Len(Layout(i).uses) = k + i - 1
    BY <1>3, <1>6, <2>1, WithoutNone
  <2>3. Leaves(q[i], Layout(i), Layout(i + 1))
    BY <1>4, <2>1 DEF Leaves, Pushes, Plain
  <2>. QED  BY <1>2, <2>1, <2>2, <2>3 DEF Effect, Pushes, Plain
<1>9. Leads(q, x, Layout(n + 1))
  <2>. DEFINE lay == [i \in 1 .. n + 1 |-> Layout(i)]
  <2>. HIDE DEF Layout
  <2>1. /\ lay \in [1 .. n + 1 -> Layouts] /\ lay[1] = x /\ lay[n + 1] = Layout(n + 1)
        /\ \A i \in 1 .. n : lay[i] = Layout(i) /\ lay[i + 1] = Layout(i + 1)
    BY <1>1, <1>6, <1>7
  <2>. HIDE DEF lay
  <2>2. \A i \in 1 .. n : Effect(q[i], lay[i], lay[i + 1])
    BY <1>8, <2>1
  <2>. QED  BY <2>1, <2>2 DEF Leads
<1>10. Pushed(x, Layout(n + 1), n, use)
  <2>. DEFINE u == Uses_(n + 1)
  <2>1. u \in Seq(Uses) /\ Len(u) = k + n /\ k + n - n = k
    BY <1>1, <1>2, <1>3
  <2>2. /\ \A j \in 1 .. k : u[j] = x.uses[j]
        /\ \A j \in 1 .. k + n : j > k => u[j] = use
    BY <1>1, <1>2 DEF Uses_
  <2>3. SubSeq(u, 1, k + n - n) = x.uses
    <3>. HIDE DEF u
    <3>1. SubSeq(u, 1, k) \in Seq(Uses) /\ Len(SubSeq(u, 1, k)) = k
          /\ \A j \in 1 .. k : SubSeq(u, 1, k)[j] = u[j]
      BY <1>1, <1>2, <2>1
    <3>2. SubSeq(u, 1, k) = x.uses
      BY <1>2, <2>2, <3>1
    <3>. QED  BY <2>1, <3>2
  <2>4. Without(Layout(n + 1), n) = x
    <3>1. Layout(n + 1).uses = u
      OBVIOUS
    <3>2. Layout(n + 1).loops = x.loops /\ Layout(n + 1).open = TRUE /\ Layout(n + 1) \in Layouts
      BY <1>1, <1>6
    <3>. HIDE DEF Layout
    <3>3. Without(Layout(n + 1), n) = [uses |-> SubSeq(u, 1, Len(u) - n), loops |-> x.loops, open |-> TRUE]
      BY <3>1, <3>2 DEF Without
    <3>4. Len(u) - n = k + n - n
      BY <2>1
    <3>. QED  BY <1>2, <2>3, <3>3, <3>4
  <2>5. Layout(n + 1) \in Layouts
    BY <1>1, <1>6
  <2>6. Len(Layout(n + 1).uses) = Len(x.uses) + n
    BY <2>1
  <2>7. \A i \in 1 .. Len(Layout(n + 1).uses) : i > Len(Layout(n + 1).uses) - n => Layout(n + 1).uses[i] = use
    BY <2>1, <2>2
  <2>. QED  BY <2>4, <2>5, <2>6, <2>7 DEF Pushed
<1>. HIDE DEF Layout
<1>. QED  BY <1>9, <1>10

\* Calls whose results the last one takes.
LEMMA CallsThenResult ==
    ASSUME NEW q, List(q), NEW item, TakenCount(item) = Len(q), TakenFor(item) \in Uses,
           \A call \in ToSet(q) : Pushes(call, TakenFor(item)),
           NEW x \in Layouts, x.open, NEW m \in Layouts, Leaves(item, x, m)
    PROVE  Leads(q \o <<item>>, x, m)
<1>1. PICK y : Leads(q, x, y) /\ Pushed(x, y, Len(q), TakenFor(item))
  BY PushMany
<1>2. y \in Layouts /\ Len(x.uses) \in Nat /\ Len(q) \in Nat
  BY <1>1 DEF Pushed, Layouts, List
<1>3. Effect(item, y, m)
  BY <1>1, <1>2 DEF Pushed, Effect
<1>4. Leads(<<item>>, y, m)
  BY <1>2, <1>3, LeadsOne
<1>5. List(<<item>>)
  BY ShortLists
<1>. QED  BY <1>1, <1>4, <1>5, LeadsConcat

LEMMA TwoLists ==
    ASSUME NEW a, NEW b
    PROVE  <<a>> \o <<b>> = <<a, b>>
<1>. DEFINE S == {a, b}
            p == <<a>> \o <<b>>
            q == <<a, b>>
<1>1. <<a>> \in Seq(S) /\ <<b>> \in Seq(S) /\ q \in Seq(S) /\ Len(q) = 2 /\ q[1] = a /\ q[2] = b
  OBVIOUS
<1>2. p \in Seq(S) /\ Len(p) = 2 /\ p[1] = a /\ p[2] = b
  BY <1>1
<1>. HIDE DEF p, q, S
<1>3. p = q
  <2>1. \A i \in 1 .. 2 : p[i] = q[i]
    BY <1>1, <1>2
  <2>. QED  BY <1>1, <1>2, <2>1
<1>. QED  BY <1>3 DEF p, q

\* One call, whose result is taken by the next.
LEMMA CallThenResult ==
    ASSUME NEW call, NEW item, TakenCount(item) = 1, TakenFor(item) \in Uses,
           Pushes(call, TakenFor(item)),
           NEW x \in Layouts, x.open, NEW m \in Layouts, Leaves(item, x, m)
    PROVE  Leads(<<call, item>>, x, m)
<1>1. List(<<call>>) /\ ToSet(<<call>>) = {call} /\ Len(<<call>>) = 1
  BY ShortLists
<1>2. \A q : q = <<call>> => Leads(q \o <<item>>, x, m)
  BY <1>1, CallsThenResult
<1>3. <<call>> \o <<item>> = <<call, item>>
  BY TwoLists
<1>. QED  BY <1>2, <1>3

\* Statements, the fields of a struct literal: nothing is left behind.
LEMMA SilentThenLast ==
    ASSUME NEW q, List(q), \A item \in ToSet(q) : Silent(item),
           NEW item, TakenCount(item) = 0,
           NEW x \in Layouts, x.open, NEW m \in Layouts, Leaves(item, x, m)
    PROVE  Leads(q \o <<item>>, x, m)
<1>1. Leads(q, x, x)
  BY NoEffect
<1>2. Effect(item, x, m)
  BY WithoutNone DEF Effect, Layouts
<1>3. Leads(<<item>>, x, m) /\ List(<<item>>)
  BY <1>2, LeadsOne, ShortLists
<1>. QED  BY <1>1, <1>3, LeadsConcat
-----------------------------------------------------------------------------
\* The stack of values.
TakenOf(vals, n) == SubSeq(vals, Len(vals) - n + 1, Len(vals))
KeptOf(vals, n) == SubSeq(vals, 1, Len(vals) - n)

LEMMA TopLaw ==
    ASSUME NEW f, NEW s, NEW ag, NEW vals, Construction(f, s, ag, vals), ag # << >>
    PROVE  /\ f \in Functions /\ StateFits(f, s) /\ ItemFits(f, s, ag[1])
           /\ List(ag) /\ List(Tail(ag)) /\ vals \in Seq(Nat)
           /\ \A item \in ToSet(Tail(ag)) : ItemFits(f, s, item)
BY TailList DEF Construction

\* The general rule for a call that is replaced by others.
LEMMA StepKeeps ==
    ASSUME NEW f, NEW s, NEW ag, NEW vals, Construction(f, s, ag, vals), ag # << >>,
           NEW t, Continues(f, s, t), NEW vals2 \in Seq(Nat),
           NEW q, List(q), \A item \in ToSet(q) : ItemFits(f, t, item),
           \A x, m \in Layouts : Fits(s, vals, x) /\ Effect(ag[1], x, m) =>
                \E w \in Layouts :
                    /\ Fits(t, vals2, w) /\ Leads(q, w, m)
                    /\ Unfinished(t) \subseteq
                            PendingIn(q) \cup (IF w.open THEN {t.current_block} ELSE {})
                                \cup (Unfinished(s) \ ({s.current_block} \cup Pending(ag[1])))
    PROVE  Construction(f, t, q \o Tail(ag), vals2)
<1>1. /\ f \in Functions /\ List(ag) /\ List(Tail(ag)) /\ StateFits(f, t)
      /\ ToSet(ag) = {ag[1]} \cup ToSet(Tail(ag))
      /\ \A item \in ToSet(Tail(ag)) : ItemFits(f, s, item)
  BY TopLaw, TailList DEF Continues
<1>2. List(q \o Tail(ag)) /\ ToSet(q \o Tail(ag)) = ToSet(q) \cup ToSet(Tail(ag))
  BY <1>1, ConcatList
<1>3. \A item \in ToSet(q \o Tail(ag)) : ItemFits(f, t, item)
  BY <1>1, <1>2, ItemStays
<1>4. PICK x \in Layouts :
        /\ Fits(s, vals, x) /\ Leads(ag, x, EndLayout)
        /\ Unfinished(s) \subseteq PendingIn(ag) \cup (IF x.open THEN {s.current_block} ELSE {})
  BY DEF Construction
<1>5. PICK m \in Layouts : Effect(ag[1], x, m) /\ Leads(Tail(ag), m, EndLayout)
  BY <1>1, <1>4, LeadsFirst
<1>6. PICK w \in Layouts :
        /\ Fits(t, vals2, w) /\ Leads(q, w, m)
        /\ Unfinished(t) \subseteq
                PendingIn(q) \cup (IF w.open THEN {t.current_block} ELSE {})
                    \cup (Unfinished(s) \ ({s.current_block} \cup Pending(ag[1])))
  BY <1>4, <1>5
<1>7. Leads(q \o Tail(ag), w, EndLayout)
  BY <1>1, <1>5, <1>6, LeadsConcat
<1>8. /\ PendingIn(ag) = Pending(ag[1]) \cup PendingIn(Tail(ag))
      /\ PendingIn(q \o Tail(ag)) = PendingIn(q) \cup PendingIn(Tail(ag))
  BY <1>1, <1>2 DEF PendingIn
<1>9. Unfinished(t) \subseteq PendingIn(q \o Tail(ag)) \cup (IF w.open THEN {t.current_block} ELSE {})
  BY <1>4, <1>6, <1>8
<1>. QED  BY <1>1, <1>2, <1>3, <1>6, <1>7, <1>9 DEF Construction

LEMMA ValuesLaw ==
    ASSUME NEW f, NEW s, NEW t, Continues(f, s, t), NEW vals \in Seq(Nat),
           NEW item, TakenCount(item) \in Nat,
           NEW x \in Layouts, Fits(s, vals, x), NEW m, Effect(item, x, m),
           Len(t.breakstack) = Len(s.breakstack), Len(t.continuestack) = Len(s.continuestack)
    PROVE  /\ TakenCount(item) <= Len(vals)
           /\ \A i \in 1 .. Len(vals) : i > Len(vals) - TakenCount(item) =>
                    GoodFor(s, TakenFor(item), vals[i])
           /\ KeptOf(vals, TakenCount(item)) \in Seq(Nat)
           /\ Without(x, TakenCount(item)) \in Layouts
           /\ Fits(t, KeptOf(vals, TakenCount(item)), Without(x, TakenCount(item)))
<1>. DEFINE n == TakenCount(item)
            y == Without(x, n)
            kept == KeptOf(vals, n)
<1>1. /\ x.uses \in Seq(Uses) /\ Len(x.uses) = Len(vals) /\ n <= Len(vals) /\ Len(vals) \in Nat
      /\ x.loops \in Nat /\ x.open \in BOOLEAN
      /\ \A i \in 1 .. Len(vals) : GoodFor(s, x.uses[i], vals[i])
      /\ \A i \in 1 .. Len(vals) : i > Len(vals) - n => x.uses[i] = TakenFor(item)
  BY DEF Layouts, Fits, Effect
<1>2. /\ y.uses = SubSeq(x.uses, 1, Len(x.uses) - n) /\ y.loops = x.loops /\ y.open = x.open
      /\ kept = SubSeq(vals, 1, Len(vals) - n)
  BY DEF Without, KeptOf
<1>. HIDE DEF n
<1>3. /\ y.uses \in Seq(Uses) /\ Len(y.uses) = Len(vals) - n
      /\ \A i \in 1 .. Len(vals) - n : y.uses[i] = x.uses[i]
  BY <1>1, <1>2, DropSome DEF n
<1>4. /\ kept \in Seq(Nat) /\ Len(kept) = Len(vals) - n
      /\ \A i \in 1 .. Len(vals) - n : kept[i] = vals[i]
  BY <1>1, <1>2, DropSome DEF n
<1>5. y \in Layouts
  BY <1>1, <1>2, <1>3 DEF Layouts, Without
<1>. HIDE DEF y, kept
<1>6. \A i \in 1 .. Len(kept) : GoodFor(t, y.uses[i], kept[i])
  <2>. SUFFICES ASSUME NEW i \in 1 .. Len(kept) PROVE GoodFor(t, y.uses[i], kept[i])
    OBVIOUS
  <2>1. i \in 1 .. Len(vals) - n /\ i \in 1 .. Len(vals)
    BY <1>1, <1>4 DEF n
  <2>2. GoodFor(s, x.uses[i], vals[i])
    BY <1>1, <2>1
  <2>3. GoodFor(t, x.uses[i], vals[i])
    BY <2>2, GoodForStays
  <2>. QED  BY <1>3, <1>4, <2>1, <2>3
<1>7. Fits(t, kept, y)
  BY <1>2, <1>3, <1>4, <1>6 DEF Fits
<1>. QED  BY <1>1, <1>4, <1>5, <1>7 DEF n, y, kept
-----------------------------------------------------------------------------
\* The calls made for operands.
LEMMA EvaluateLaw ==
    ASSUME NEW f, NEW s, NEW e \in Trees[f].expressions, NEW item, item = Evaluate(e)
    PROVE  /\ ItemFits(f, s, item) /\ Plain(item) /\ LeftFor(item) = UsesOf(e)
           /\ Pending(item) = {} /\ Pushes(item, "any")
           /\ Value(Trees[f], e) => Pushes(item, "value")
           /\ Condition(Trees[f], e) => Pushes(item, "bool")
<1>1. item.call = "build_expression" /\ item.e = e
  BY DEF Evaluate
<1>2. ItemFits(f, s, item) /\ Plain(item) /\ LeftFor(item) = UsesOf(e) /\ Pending(item) = {}
  BY <1>1 DEF ItemFits, Plain, TakenCount, LeftFor, Pending
<1>3. Value(Trees[f], e) => "value" \in UsesOf(e)
  BY DEF Value, UsesOf
<1>4. Condition(Trees[f], e) => "bool" \in UsesOf(e)
  BY DEF Condition, Value, UsesOf
<1>5. "any" \in UsesOf(e)
  BY DEF UsesOf
<1>. QED  BY <1>2, <1>3, <1>4, <1>5 DEF Pushes

LEMMA TakeAddressLaw ==
    ASSUME NEW f, NEW s, NEW e \in Trees[f].expressions, NEW item, item = TakeAddress(e)
    PROVE  ItemFits(f, s, item) /\ Pushes(item, "value") /\ Pending(item) = {}
<1>1. item.call = "build_address_of_expression" /\ item.e = e
  BY DEF TakeAddress
<1>. QED  BY <1>1 DEF ItemFits, Pushes, Plain, TakenCount, LeftFor, Pending

LEMMA EvaluateAllLaw ==
    ASSUME NEW f, NEW s, NEW es \in Seq(Trees[f].expressions),
           \A i \in DOMAIN es : Value(Trees[f], es[i]), NEW q, q = EvaluateAll(es)
    PROVE  /\ List(q) /\ Len(q) = Len(es)
           /\ \A call \in ToSet(q) : ItemFits(f, s, call) /\ Pushes(call, "value") /\ Pending(call) = {}
<1>1. /\ DOMAIN es = 1 .. Len(es) /\ Len(es) \in Nat
      /\ \A i \in 1 .. Len(es) : es[i] \in Trees[f].expressions
  OBVIOUS
<1>2. DOMAIN q = 1 .. Len(es) /\ \A i \in 1 .. Len(es) : q[i] = Evaluate(es[i])
  BY <1>1 DEF EvaluateAll
<1>3. q \in [1 .. Len(es) -> ToSet(q)]
  BY <1>1, <1>2 DEF EvaluateAll, ToSet
<1>4. List(q) /\ Len(q) = Len(es)
  BY <1>1, <1>3, FunctionSeq DEF List
<1>5. \A call \in ToSet(q) : \E i \in 1 .. Len(es) : call = Evaluate(es[i])
  BY <1>2 DEF ToSet
<1>. QED  BY <1>1, <1>4, <1>5, EvaluateLaw

\* The statements of a body.
LEMMA BodyLaw ==
    ASSUME NEW f, NEW s, NEW b, BodyOK(Trees[f], b), NEW q, q = Body(b)
    PROVE  /\ List(q)
           /\ \A item \in ToSet(q) : ItemFits(f, s, item) /\ Silent(item) /\ Pending(item) = {}
<1>1. /\ DOMAIN b = 1 .. Len(b) /\ Len(b) \in Nat
      /\ \A i \in 1 .. Len(b) : b[i] \in Trees[f].statements
  BY DEF BodyOK
<1>2. DOMAIN q = 1 .. Len(b) /\ \A i \in 1 .. Len(b) : q[i] = Statement(b[i])
  BY <1>1 DEF Body
<1>3. q \in [1 .. Len(b) -> ToSet(q)]
  BY <1>1, <1>2 DEF Body, ToSet
<1>4. List(q)
  BY <1>1, <1>3, FunctionSeq DEF List
<1>5. \A item \in ToSet(q) : \E i \in 1 .. Len(b) : item = Statement(b[i])
  BY <1>2 DEF ToSet
<1>6. ASSUME NEW x \in Trees[f].statements, NEW item, item = Statement(x)
      PROVE  ItemFits(f, s, item) /\ Silent(item) /\ Pending(item) = {}
  <2>1. item.call = "build_statement" /\ item.s = x
    BY <1>6 DEF Statement
  <2>. QED  BY <2>1 DEF ItemFits, Silent, Plain, TakenCount, LeftFor, Pending
<1>. QED  BY <1>1, <1>4, <1>5, <1>6

LEMMA OneCall ==
    ASSUME NEW f, NEW s, NEW call, NEW use, ItemFits(f, s, call), Pushes(call, use), Pending(call) = {},
           NEW q, q = <<call>>
    PROVE  /\ List(q) /\ Len(q) = 1
           /\ \A c \in ToSet(q) : ItemFits(f, s, c) /\ Pushes(c, use) /\ Pending(c) = {}
BY ShortLists

LEMMA ExpressionCallsLaw ==
    ASSUME NEW f \in Functions, NEW s, NEW e \in Trees[f].expressions,
           e.kind \notin {"AND", "OR", "BRACE_INIT"}, NEW q, q = ExpressionCalls(e)
    PROVE  /\ List(q)
           /\ \A call \in ToSet(q) : ItemFits(f, s, call) /\ Pushes(call, "value") /\ Pending(call) = {}
<1>1. ExpressionOK(f, Trees[f], e)
  BY ExpressionLaw
<1>2. CASE e.kind \in AddressableByPointer
  <2>0. e.kind \notin IncrementKinds \cup {"ADDRESS_OF"}
    BY <1>2 DEF AddressableByPointer, IncrementKinds
  <2>1. q = <<TakeAddress(e)>>
    BY <1>2, <2>0 DEF ExpressionCalls
  <2>2. PICK call : call = TakeAddress(e)
    OBVIOUS
  <2>3. ItemFits(f, s, call) /\ Pushes(call, "value") /\ Pending(call) = {}
    BY <2>2, TakeAddressLaw
  <2>. QED  BY <2>1, <2>2, <2>3, ShortLists
<1>3. CASE e.kind \in IncrementKinds \cup {"ADDRESS_OF"}
  <2>1. e.kind \notin AddressableByPointer /\ e.kind \in UnaryKinds
    BY <1>3 DEF AddressableByPointer, IncrementKinds, UnaryKinds
  <2>2. q = <<TakeAddress(e.operands[1])>>
    BY <1>3, <2>1 DEF ExpressionCalls
  <2>3. e.operands[1] \in Trees[f].expressions
    BY <1>1, <2>1 DEF ExpressionOK
  <2>4. PICK call : call = TakeAddress(e.operands[1])
    OBVIOUS
  <2>5. ItemFits(f, s, call) /\ Pushes(call, "value") /\ Pending(call) = {}
    BY <2>3, <2>4, TakeAddressLaw
  <2>. QED  BY <2>2, <2>4, <2>5, ShortLists
<1>4. CASE e.kind \notin AddressableByPointer \cup IncrementKinds \cup {"ADDRESS_OF"}
  <2>1. q = EvaluateAll(e.operands)
    BY <1>4 DEF ExpressionCalls
  <2>. QED  BY <1>1, <2>1, EvaluateAllLaw DEF ExpressionOK
<1>. QED  BY <1>2, <1>3, <1>4

LEMMA AddressCallsLaw ==
    ASSUME NEW f \in Functions, NEW s, NEW e \in Trees[f].expressions,
           NEW q, q = AddressCalls(e)
    PROVE  /\ List(q)
           /\ \A call \in ToSet(q) : ItemFits(f, s, call) /\ Pushes(call, "value") /\ Pending(call) = {}
<1>1. ExpressionOK(f, Trees[f], e)
  BY ExpressionLaw
<1>2. CASE e.kind = "GET_FIELD"
  <2>1. q = <<TakeAddress(e.operands[1])>>
    BY <1>2 DEF AddressCalls
  <2>2. e.operands[1] \in Trees[f].expressions
    BY <1>1, <1>2 DEF ExpressionOK, UnaryKinds
  <2>3. PICK call : call = TakeAddress(e.operands[1])
    OBVIOUS
  <2>4. ItemFits(f, s, call) /\ Pushes(call, "value") /\ Pending(call) = {}
    BY <2>2, <2>3, TakeAddressLaw
  <2>. QED  BY <2>1, <2>3, <2>4, ShortLists
<1>3. CASE e.kind # "GET_FIELD"
  <2>1. q = EvaluateAll(e.operands)
    BY <1>3 DEF AddressCalls
  <2>. QED  BY <1>1, <2>1, EvaluateAllLaw DEF ExpressionOK
<1>. QED  BY <1>2, <1>3

\* The kind of use a statement makes of its operands.
UseIn(stmt) == IF stmt.kind = "EXPRESSION_STATEMENT" THEN "any" ELSE "value"
SimpleStatements ==
    {"ASSIGN", "DECLARE_LOCAL_VAR", "RETURN_VALUE", "RETURN_WITHOUT_VALUE", "EXPRESSION_STATEMENT"}

LEMMA StatementLaw ==
    ASSUME NEW f \in Functions, NEW stmt \in Trees[f].statements
    PROVE  StatementOK(f, Trees[f], stmt)
BY FunctionsAssumption DEF FunctionOK

LEMMA StatementCallsLaw ==
    ASSUME NEW f \in Functions, NEW s, NEW stmt \in Trees[f].statements,
           stmt.kind \in SimpleStatements, NEW q, q = StatementCalls(stmt)
    PROVE  /\ List(q)
           /\ \A call \in ToSet(q) : ItemFits(f, s, call) /\ Pushes(call, UseIn(stmt)) /\ Pending(call) = {}
<1>1. StatementOK(f, Trees[f], stmt)
  BY StatementLaw
<1>. DEFINE Right(call, use) == ItemFits(f, s, call) /\ Pushes(call, use) /\ Pending(call) = {}
<1>2. CASE stmt.kind = "ASSIGN"
  <2>1. stmt.target \in Trees[f].expressions /\ Value(Trees[f], stmt.value)
    BY <1>1, <1>2 DEF StatementOK
  <2>2. stmt.value \in Trees[f].expressions
    BY <2>1 DEF Value
  <2>3. PICK a, b, use : a = TakeAddress(stmt.target) /\ b = Evaluate(stmt.value) /\ use = "value"
    OBVIOUS
  <2>4. Right(a, use) /\ Right(b, use)
    BY <2>1, <2>2, <2>3, TakeAddressLaw, EvaluateLaw
  <2>5. q = IF stmt.target.kind = "GET_VARIABLE" THEN <<b>> ELSE <<a, b>>
    BY <1>2, <2>3 DEF StatementCalls
  <2>6. UseIn(stmt) = use
    BY <1>2, <2>3 DEF UseIn
  <2>. HIDE DEF Right
  <2>7. List(q) /\ \A call \in ToSet(q) : Right(call, use)
    BY <2>4, <2>5, ShortLists
  <2>. QED  BY <2>6, <2>7 DEF Right
<1>3. CASE stmt.kind = "DECLARE_LOCAL_VAR"
  <2>1. /\ stmt.initial_value \in Seq(Trees[f].expressions)
        /\ \A i \in DOMAIN stmt.initial_value : Value(Trees[f], stmt.initial_value[i])
    BY <1>1, <1>3 DEF StatementOK
  <2>2. q = EvaluateAll(stmt.initial_value) /\ UseIn(stmt) = "value"
    BY <1>3 DEF StatementCalls, UseIn
  <2>. QED  BY <2>1, <2>2, EvaluateAllLaw
<1>4. CASE stmt.kind \in {"RETURN_VALUE", "EXPRESSION_STATEMENT"}
  <2>1. /\ stmt.expression \in Trees[f].expressions
        /\ stmt.kind = "RETURN_VALUE" => Value(Trees[f], stmt.expression)
    BY <1>1, <1>4 DEF StatementOK, Value
  <2>2. PICK a : a = Evaluate(stmt.expression)
    OBVIOUS
  <2>3. q = <<a>>
    BY <1>4, <2>2 DEF StatementCalls
  <2>4. Right(a, UseIn(stmt))
    BY <1>4, <2>1, <2>2, EvaluateLaw DEF UseIn
  <2>. HIDE DEF Right
  <2>5. List(q) /\ \A call \in ToSet(q) : Right(call, UseIn(stmt))
    BY <2>3, <2>4, ShortLists
  <2>. QED  BY <2>5 DEF Right
<1>5. CASE stmt.kind = "RETURN_WITHOUT_VALUE"
  <2>1. q = << >>
    BY <1>5 DEF StatementCalls
  <2>. QED  BY <2>1, ShortLists
<1>. QED  BY <1>2, <1>3, <1>4, <1>5 DEF SimpleStatements

LEMMA TakenNat ==
    ASSUME NEW f \in Functions, NEW s, NEW item, ItemFits(f, s, item)
    PROVE  TakenCount(item) \in Nat /\ TakenFor(item) \in Uses
<1>1. CASE item.call = "expression_result"
  <2>1. TakenCount(item) = Len(ExpressionCalls(item.e))
    BY <1>1 DEF TakenCount
  <2>2. List(ExpressionCalls(item.e))
    BY <1>1, ExpressionCallsLaw DEF ItemFits
  <2>. QED  BY <1>1, <2>1, <2>2 DEF List, TakenFor, Uses
<1>2. CASE item.call = "address_result"
  <2>1. TakenCount(item) = Len(AddressCalls(item.e))
    BY <1>2 DEF TakenCount
  <2>2. List(AddressCalls(item.e))
    BY <1>2, AddressCallsLaw DEF ItemFits
  <2>. QED  BY <1>2, <2>1, <2>2 DEF List, TakenFor, Uses
<1>3. CASE item.call = "statement_result"
  <2>1. TakenCount(item) = Len(StatementCalls(item.s))
    BY <1>3 DEF TakenCount
  <2>2. List(StatementCalls(item.s))
    BY <1>3, StatementCallsLaw DEF ItemFits, SimpleStatements
  <2>. QED  BY <1>3, <2>1, <2>2 DEF List, TakenFor, Uses
<1>4. CASE item.call \notin {"expression_result", "address_result", "statement_result"}
  BY <1>4 DEF TakenCount, TakenFor, Uses
<1>. QED  BY <1>1, <1>2, <1>3, <1>4
-----------------------------------------------------------------------------
\* What the next call finds on the stacks.
LEMMA TakenGood ==
    ASSUME NEW f, NEW s, NEW ag, NEW vals, Construction(f, s, ag, vals), ag # << >>,
           NEW args, args = TakenOf(vals, TakenCount(ag[1]))
    PROVE  /\ TakenCount(ag[1]) <= Len(vals) /\ Len(vals) \in Nat
           /\ Len(args) = TakenCount(ag[1]) /\ args \in Seq(Nat)
           /\ \A i \in 1 .. TakenCount(ag[1]) : GoodFor(s, TakenFor(ag[1]), args[i])
           /\ TakenCount(ag[1]) = 1 => args[1] = vals[Len(vals)]
           /\ ag[1].call = "loop_body_done" => Len(s.breakstack) > 0 /\ Len(s.continuestack) > 0
<1>. DEFINE n == TakenCount(ag[1])
            use == TakenFor(ag[1])
<1>1. f \in Functions /\ List(ag) /\ ItemFits(f, s, ag[1]) /\ StateFits(f, s) /\ vals \in Seq(Nat)
  BY TopLaw
<1>2. n \in Nat /\ Continues(f, s, s)
  BY <1>1, TakenNat, StraightReflexive DEF Straight
<1>3. PICK x \in Layouts : Fits(s, vals, x) /\ Leads(ag, x, EndLayout)
  BY DEF Construction
<1>4. PICK m \in Layouts : Effect(ag[1], x, m)
  BY <1>1, <1>3, LeadsFirst
<1>5. /\ n <= Len(vals) /\ Len(vals) \in Nat
      /\ \A i \in 1 .. Len(vals) : i > Len(vals) - n => GoodFor(s, use, vals[i])
  BY <1>1, <1>2, <1>3, <1>4, ValuesLaw
<1>6. args = SubSeq(vals, Len(vals) - n + 1, Len(vals))
  BY DEF TakenOf
<1>7. ag[1].call = "loop_body_done" => Len(s.breakstack) > 0 /\ Len(s.continuestack) > 0
  <2>1. /\ x.loops = Len(s.breakstack) /\ x.loops = Len(s.continuestack)
        /\ ag[1].call = "loop_body_done" => x.loops = m.loops + 1
        /\ m.loops \in Nat
    BY <1>3, <1>4 DEF Fits, Effect, Leaves, Without, Layouts
  <2>. QED  BY <2>1
<1>. HIDE DEF n, use
<1>8. /\ Len(args) = n /\ args \in Seq(Nat)
      /\ \A i \in 1 .. n : args[i] = vals[Len(vals) - n + i]
  BY <1>1, <1>2, <1>5, <1>6
<1>9. \A i \in 1 .. n : GoodFor(s, use, args[i])
  <2>. SUFFICES ASSUME NEW i \in 1 .. n PROVE GoodFor(s, use, args[i])
    OBVIOUS
  <2>. DEFINE j == Len(vals) - n + i
  <2>1. j \in 1 .. Len(vals) /\ j > Len(vals) - n /\ args[i] = vals[j]
    BY <1>2, <1>5, <1>8
  <2>. QED  BY <1>5, <2>1
<1>10. n = 1 => args[1] = vals[Len(vals)]
  BY <1>5, <1>8
<1>. QED  BY <1>5, <1>7, <1>8, <1>9, <1>10 DEF n, use

LEMMA ArgumentsGood ==
    ASSUME NEW s, NEW args, args \in Seq(Nat), \A i \in 1 .. Len(args) : GoodFor(s, "value", args[i])
    PROVE  args \in Seq(VariablesIn(s))
<1>1. \A i \in 1 .. Len(args) : args[i] \in VariablesIn(s)
  BY DEF GoodFor
<1>. QED  BY <1>1, SeqOver

\* A call that takes what it needs from the stack and makes others.
LEMMA StepReplaces ==
    ASSUME NEW f, NEW s, NEW ag, NEW vals, Construction(f, s, ag, vals), ag # << >>,
           NEW t, Continues(f, s, t),
           Len(t.breakstack) = Len(s.breakstack), Len(t.continuestack) = Len(s.continuestack),
           NEW q, List(q), \A item \in ToSet(q) : ItemFits(f, t, item),
           Unfinished(t) \subseteq PendingIn(q) \cup {t.current_block}
                \cup (Unfinished(s) \ ({s.current_block} \cup Pending(ag[1]))),
           \A x, m \in Layouts : x.open /\ Leaves(ag[1], x, m) => Leads(q, x, m)
    PROVE  Construction(f, t, q \o Tail(ag), KeptOf(vals, TakenCount(ag[1])))
<1>. DEFINE n == TakenCount(ag[1])
            kept == KeptOf(vals, n)
<1>1. f \in Functions /\ ItemFits(f, s, ag[1]) /\ vals \in Seq(Nat)
  BY TopLaw
<1>2. n \in Nat
  BY <1>1, TakenNat
<1>3. ASSUME NEW x \in Layouts, NEW m \in Layouts, Fits(s, vals, x), Effect(ag[1], x, m)
      PROVE  /\ kept \in Seq(Nat)
             /\ \E w \in Layouts : Fits(t, kept, w) /\ Leads(q, w, m) /\ w.open
  <2>1. kept \in Seq(Nat) /\ Without(x, n) \in Layouts /\ Fits(t, kept, Without(x, n))
    BY <1>1, <1>2, <1>3, ValuesLaw
  <2>2. Without(x, n).open /\ Leaves(ag[1], Without(x, n), m)
    BY <1>3 DEF Effect, Without
  <2>3. Leads(q, Without(x, n), m)
    BY <2>1, <2>2
  <2>. QED  BY <2>1, <2>2, <2>3
<1>4. kept \in Seq(Nat)
  <2>1. PICK x \in Layouts : Fits(s, vals, x) /\ Leads(ag, x, EndLayout)
    BY DEF Construction
  <2>2. PICK m \in Layouts : Effect(ag[1], x, m)
    BY <2>1, TopLaw, LeadsFirst
  <2>. QED  BY <1>3, <2>1, <2>2
<1>. HIDE DEF kept
<1>5. \A x, m \in Layouts : Fits(s, vals, x) /\ Effect(ag[1], x, m) =>
        \E w \in Layouts :
            /\ Fits(t, kept, w) /\ Leads(q, w, m)
            /\ Unfinished(t) \subseteq
                    PendingIn(q) \cup (IF w.open THEN {t.current_block} ELSE {})
                        \cup (Unfinished(s) \ ({s.current_block} \cup Pending(ag[1])))
  <2>. SUFFICES ASSUME NEW x \in Layouts, NEW m \in Layouts, Fits(s, vals, x), Effect(ag[1], x, m)
                PROVE  \E w \in Layouts :
            /\ Fits(t, kept, w) /\ Leads(q, w, m)
            /\ Unfinished(t) \subseteq
                    PendingIn(q) \cup (IF w.open THEN {t.current_block} ELSE {})
                        \cup (Unfinished(s) \ ({s.current_block} \cup Pending(ag[1])))
    OBVIOUS
  <2>1. PICK w \in Layouts : Fits(t, kept, w) /\ Leads(q, w, m) /\ w.open
    BY <1>3
  <2>2. {t.current_block} = IF w.open THEN {t.current_block} ELSE {}
    BY <2>1
  <2>. QED  BY <2>1, <2>2
<1>6. Construction(f, t, q \o Tail(ag), kept)
  BY <1>4, <1>5, StepKeeps
<1>. QED  BY <1>6 DEF kept

\* A call that returns a variable.
LEMMA StepReturns ==
    ASSUME NEW f, NEW s, NEW ag, NEW vals, Construction(f, s, ag, vals), ag # << >>,
           LeftFor(ag[1]) # {},
           NEW t, Continues(f, s, t),
           Len(t.breakstack) = Len(s.breakstack), Len(t.continuestack) = Len(s.continuestack),
           Unfinished(t) \subseteq {t.current_block}
                \cup (Unfinished(s) \ ({s.current_block} \cup Pending(ag[1]))),
           NEW v, \A use \in LeftFor(ag[1]) : GoodFor(t, use, v)
    PROVE  Construction(f, t, Tail(ag), Append(KeptOf(vals, TakenCount(ag[1])), v))
<1>. DEFINE n == TakenCount(ag[1])
            kept == KeptOf(vals, n)
            more == Append(kept, v)
<1>1. f \in Functions /\ ItemFits(f, s, ag[1]) /\ vals \in Seq(Nat) /\ List(Tail(ag))
  BY TopLaw
<1>2. n \in Nat
  BY <1>1, TakenNat
<1>3. v \in Nat
  <2>1. \E use : use \in LeftFor(ag[1])
    OBVIOUS
  <2>. QED  BY <2>1 DEF GoodFor, VariablesIn, NoVar
<1>4. ASSUME NEW x \in Layouts, NEW m \in Layouts, Fits(s, vals, x), Effect(ag[1], x, m)
      PROVE  more \in Seq(Nat) /\ Fits(t, more, m) /\ m.open
  <2>. DEFINE y == Without(x, n)
  <2>1. kept \in Seq(Nat) /\ y \in Layouts /\ Fits(t, kept, y)
    BY <1>1, <1>2, <1>4, ValuesLaw
  <2>2. Leaves(ag[1], y, m)
    BY <1>4 DEF Effect
  <2>. HIDE DEF y, kept
  <2>3. ag[1].call \notin {"loop_body_done", "implicit_return"}
    BY DEF LeftFor
  <2>4. PICK use \in LeftFor(ag[1]) : m.uses = Append(y.uses, use)
    BY <2>2 DEF Leaves
  <2>5. GoodFor(t, use, v)
    BY <2>4
  <2>6. m.loops = y.loops /\ m.open
    BY <2>2, <2>3 DEF Leaves
  <2>7. /\ y.uses \in Seq(Uses) /\ Len(y.uses) = Len(kept) /\ Len(kept) \in Nat
        /\ \A i \in 1 .. Len(kept) : GoodFor(t, y.uses[i], kept[i])
    BY <2>1 DEF Layouts, Fits
  <2>8. /\ more \in Seq(Nat) /\ Len(more) = Len(kept) + 1 /\ more[Len(kept) + 1] = v
        /\ \A i \in 1 .. Len(kept) : more[i] = kept[i]
    BY <1>3, <2>1
  <2>9. /\ Len(m.uses) = Len(kept) + 1 /\ m.uses[Len(kept) + 1] = use
        /\ \A i \in 1 .. Len(kept) : m.uses[i] = y.uses[i]
    <3>1. List(y.uses)
      BY <2>7 DEF List, ToSet
    <3>. QED  BY <2>4, <2>7, <3>1, AppendList
  <2>. HIDE DEF more
  <2>10. \A i \in 1 .. Len(more) : GoodFor(t, m.uses[i], more[i])
    <3>. SUFFICES ASSUME NEW i \in 1 .. Len(more) PROVE GoodFor(t, m.uses[i], more[i])
      OBVIOUS
    <3>1. CASE i = Len(kept) + 1
      BY <2>5, <2>8, <2>9, <3>1
    <3>2. CASE i # Len(kept) + 1
      <4>1. i \in 1 .. Len(kept)
        BY <2>7, <2>8, <3>2
      <4>. QED  BY <2>7, <2>8, <2>9, <4>1
    <3>. QED  BY <3>1, <3>2
  <2>11. Fits(t, more, m)
    BY <2>1, <2>6, <2>8, <2>9, <2>10 DEF Fits
  <2>. QED  BY <2>6, <2>8, <2>11
<1>5. more \in Seq(Nat)
  <2>1. PICK x \in Layouts : Fits(s, vals, x) /\ Leads(ag, x, EndLayout)
    BY DEF Construction
  <2>2. PICK m \in Layouts : Effect(ag[1], x, m)
    BY <2>1, TopLaw, LeadsFirst
  <2>. QED  BY <1>4, <2>1, <2>2
<1>. HIDE DEF more
<1>6. PICK q : q = << >>
  OBVIOUS
<1>7. List(q) /\ ToSet(q) = {} /\ PendingIn(q) = {} /\ q \o Tail(ag) = Tail(ag)
  <2>1. List(q) /\ ToSet(q) = {}
    BY <1>6, ShortLists
  <2>2. q \o Tail(ag) = Tail(ag)
    BY <1>1, <1>6 DEF List
  <2>. QED  BY <2>1, <2>2 DEF PendingIn
<1>8. \A x, m \in Layouts : Fits(s, vals, x) /\ Effect(ag[1], x, m) =>
        \E w \in Layouts :
            /\ Fits(t, more, w) /\ Leads(q, w, m)
            /\ Unfinished(t) \subseteq
                    PendingIn(q) \cup (IF w.open THEN {t.current_block} ELSE {})
                        \cup (Unfinished(s) \ ({s.current_block} \cup Pending(ag[1])))
  <2>. SUFFICES ASSUME NEW x \in Layouts, NEW m \in Layouts, Fits(s, vals, x), Effect(ag[1], x, m)
                PROVE  \E w \in Layouts :
            /\ Fits(t, more, w) /\ Leads(q, w, m)
            /\ Unfinished(t) \subseteq
                    PendingIn(q) \cup (IF w.open THEN {t.current_block} ELSE {})
                        \cup (Unfinished(s) \ ({s.current_block} \cup Pending(ag[1])))
    OBVIOUS
  <2>1. Fits(t, more, m) /\ m.open
    BY <1>4
  <2>2. Leads(q, m, m)
    BY <1>6, LeadsNone
  <2>. QED  BY <1>7, <2>1, <2>2
<1>9. Construction(f, t, q \o Tail(ag), more)
  BY <1>5, <1>7, <1>8, StepKeeps
<1>. QED  BY <1>7, <1>9 DEF more
-----------------------------------------------------------------------------
\* One action after the other: what each leaves to be done fits.
LEMMA KeptNone ==
    ASSUME NEW vals \in Seq(Nat)
    PROVE  KeptOf(vals, 0) = vals
<1>1. Len(vals) \in Nat /\ 0 <= Len(vals)
  OBVIOUS
<1>. QED  BY <1>1, DropSome DEF KeptOf

\* The calls for its operands come before the rest of a call.
LEMMA CallsMade ==
    ASSUME NEW f, NEW s, NEW ag, NEW vals, Construction(f, s, ag, vals), ag # << >>,
           Plain(ag[1]), Pending(ag[1]) = {},
           NEW calls, List(calls), NEW item, ItemFits(f, s, item), Pending(item) = {},
           \A call \in ToSet(calls) :
                ItemFits(f, s, call) /\ Pushes(call, TakenFor(item)) /\ Pending(call) = {},
           TakenCount(item) = Len(calls), LeftFor(item) = LeftFor(ag[1]),
           item.call \notin {"loop_body_done", "implicit_return"}
    PROVE  Construction(f, s, (calls \o <<item>>) \o Tail(ag), vals)
<1>. DEFINE q == calls \o <<item>>
<1>1. f \in Functions /\ vals \in Seq(Nat) /\ StateFits(f, s)
  BY TopLaw
<1>2. List(q) /\ ToSet(q) = ToSet(calls) \cup {item}
  BY ShortLists, ConcatList
<1>3. \A x, m \in Layouts : x.open /\ Leaves(ag[1], x, m) => Leads(q, x, m)
  <2>. SUFFICES ASSUME NEW x \in Layouts, NEW m \in Layouts, x.open, Leaves(ag[1], x, m)
                PROVE  Leads(q, x, m)
    OBVIOUS
  <2>1. Leaves(item, x, m)
    BY DEF Leaves, Plain
  <2>2. TakenFor(item) \in Uses
    BY <1>1, TakenNat
  <2>. QED  BY <2>1, <2>2, CallsThenResult
<1>. HIDE DEF q
<1>4. \A c \in ToSet(q) : ItemFits(f, s, c)
  BY <1>2
<1>5. Continues(f, s, s)
  BY <1>1, StraightReflexive DEF Straight
<1>6. Construction(f, s, q \o Tail(ag), KeptOf(vals, TakenCount(ag[1])))
  BY <1>2, <1>3, <1>4, <1>5, StepReplaces
<1>. QED  BY <1>1, <1>6, KeptNone DEF q, Plain

LEMMA BuildOperandsKeeps == BuildInv /\ BuildOperands => BuildInv'
<1>. SUFFICES ASSUME BuildInv, BuildOperands PROVE BuildInv'
  OBVIOUS
<1>1. /\ Construction(function, st, agenda, values) /\ agenda # << >>
      /\ agenda[1].call = "build_expression"
      /\ agenda[1].e.kind \notin {"AND", "OR", "BRACE_INIT"}
      /\ function' = function /\ st' = st /\ values' = values
  BY DEF BuildInv, BuildOperands, IsNext, Top
<1>. DEFINE e == agenda[1].e
            calls == ExpressionCalls(e)
<1>2. PICK item : item = [call |-> "expression_result", e |-> e]
  OBVIOUS
<1>3. item.call = "expression_result" /\ item.e = e
  BY <1>2
<1>4. agenda' = (calls \o <<item>>) \o Tail(agenda)
  BY <1>2 DEF BuildOperands, Top, Later
<1>5. function \in Functions /\ e \in Trees[function].expressions
  BY <1>1, TopLaw DEF ItemFits
<1>6. /\ List(calls)
      /\ \A call \in ToSet(calls) :
            ItemFits(function, st, call) /\ Pushes(call, "value") /\ Pending(call) = {}
  BY <1>1, <1>5, ExpressionCallsLaw
<1>7. /\ ItemFits(function, st, item) /\ Pending(item) = {} /\ TakenFor(item) = "value"
      /\ TakenCount(item) = Len(calls) /\ LeftFor(item) = UsesOf(e)
  BY <1>1, <1>3, <1>5 DEF ItemFits, Pending, TakenFor, TakenCount, LeftFor
<1>8. Plain(agenda[1]) /\ Pending(agenda[1]) = {} /\ LeftFor(agenda[1]) = UsesOf(e)
  BY <1>1 DEF Plain, TakenCount, Pending, LeftFor
<1>. HIDE DEF e, calls
<1>9. Construction(function, st, (calls \o <<item>>) \o Tail(agenda), values)
  BY <1>1, <1>3, <1>6, <1>7, <1>8, CallsMade
<1>. QED  BY <1>1, <1>4, <1>9 DEF BuildInv

LEMMA BuildAddressOperandsKeeps == BuildInv /\ BuildAddressOperands => BuildInv'
<1>. SUFFICES ASSUME BuildInv, BuildAddressOperands PROVE BuildInv'
  OBVIOUS
<1>1. /\ Construction(function, st, agenda, values) /\ agenda # << >>
      /\ agenda[1].call = "build_address_of_expression"
      /\ agenda[1].e.kind \in AddressableKinds
      /\ function' = function /\ st' = st /\ values' = values
  BY DEF BuildInv, BuildAddressOperands, IsNext, Top
<1>. DEFINE e == agenda[1].e
            calls == AddressCalls(e)
<1>2. PICK item : item = [call |-> "address_result", e |-> e]
  OBVIOUS
<1>3. item.call = "address_result" /\ item.e = e
  BY <1>2
<1>4. agenda' = (calls \o <<item>>) \o Tail(agenda)
  BY <1>2 DEF BuildAddressOperands, Top, Later
<1>5. function \in Functions /\ e \in Trees[function].expressions
  BY <1>1, TopLaw DEF ItemFits
<1>6. /\ List(calls)
      /\ \A call \in ToSet(calls) :
            ItemFits(function, st, call) /\ Pushes(call, "value") /\ Pending(call) = {}
  BY <1>5, AddressCallsLaw
<1>7. /\ ItemFits(function, st, item) /\ Pending(item) = {} /\ TakenFor(item) = "value"
      /\ TakenCount(item) = Len(calls) /\ LeftFor(item) = {"value"}
  BY <1>1, <1>3, <1>5 DEF ItemFits, Pending, TakenFor, TakenCount, LeftFor
<1>8. Plain(agenda[1]) /\ Pending(agenda[1]) = {} /\ LeftFor(agenda[1]) = {"value"}
  BY <1>1 DEF Plain, TakenCount, Pending, LeftFor
<1>. HIDE DEF e, calls
<1>9. Construction(function, st, (calls \o <<item>>) \o Tail(agenda), values)
  BY <1>1, <1>3, <1>6, <1>7, <1>8, CallsMade
<1>. QED  BY <1>1, <1>4, <1>9 DEF BuildInv

LEMMA BuildStatementOperandsKeeps == BuildInv /\ BuildStatementOperands => BuildInv'
<1>. SUFFICES ASSUME BuildInv, BuildStatementOperands PROVE BuildInv'
  OBVIOUS
<1>1. /\ Construction(function, st, agenda, values) /\ agenda # << >>
      /\ agenda[1].call = "build_statement"
      /\ agenda[1].s.kind \in SimpleStatements
      /\ function' = function /\ st' = st /\ values' = values
  BY DEF BuildInv, BuildStatementOperands, StatementIsNext, IsNext, Top, SimpleStatements
<1>. DEFINE stmt == agenda[1].s
            calls == StatementCalls(stmt)
<1>2. PICK item : item = [call |-> "statement_result", s |-> stmt]
  OBVIOUS
<1>3. item.call = "statement_result" /\ item.s = stmt
  BY <1>2
<1>4. agenda' = (calls \o <<item>>) \o Tail(agenda)
  BY <1>2 DEF BuildStatementOperands, Top, Later
<1>5. function \in Functions /\ stmt \in Trees[function].statements
  BY <1>1, TopLaw DEF ItemFits
<1>6. /\ List(calls)
      /\ \A call \in ToSet(calls) :
            ItemFits(function, st, call) /\ Pushes(call, UseIn(stmt)) /\ Pending(call) = {}
  BY <1>1, <1>5, StatementCallsLaw
<1>7. /\ ItemFits(function, st, item) /\ Pending(item) = {} /\ TakenFor(item) = UseIn(stmt)
      /\ TakenCount(item) = Len(calls) /\ LeftFor(item) = {}
  BY <1>1, <1>3, <1>5 DEF ItemFits, Pending, TakenFor, TakenCount, LeftFor, UseIn, SimpleStatements
<1>8. Plain(agenda[1]) /\ Pending(agenda[1]) = {} /\ LeftFor(agenda[1]) = {}
  BY <1>1 DEF Plain, TakenCount, Pending, LeftFor
<1>. HIDE DEF stmt, calls
<1>9. Construction(function, st, (calls \o <<item>>) \o Tail(agenda), values)
  BY <1>1, <1>3, <1>6, <1>7, <1>8, CallsMade
<1>. QED  BY <1>1, <1>4, <1>9 DEF BuildInv

\* A call that returns a variable and has only added code to the block.
LEMMA StraightReturns ==
    ASSUME NEW f, NEW s, NEW ag, NEW vals, Construction(f, s, ag, vals), ag # << >>,
           LeftFor(ag[1]) # {}, Pending(ag[1]) = {},
           NEW t, Straight(f, s, t), NEW v, \A use \in LeftFor(ag[1]) : GoodFor(t, use, v)
    PROVE  Construction(f, t, Tail(ag), Append(KeptOf(vals, TakenCount(ag[1])), v))
<1>1. /\ Continues(f, s, t) /\ t.current_block = s.current_block
      /\ t.breakstack = s.breakstack /\ t.continuestack = s.continuestack
  BY DEF Straight
<1>2. Unfinished(t) \subseteq {t.current_block}
            \cup (Unfinished(s) \ ({s.current_block} \cup Pending(ag[1])))
  BY <1>1, StraightFinishes
<1>. QED  BY <1>1, <1>2, StepReturns

LEMMA BuildExpressionKeeps == BuildInv /\ BuildExpression => BuildInv'
<1>. SUFFICES ASSUME BuildInv, BuildExpression PROVE BuildInv'
  OBVIOUS
<1>. DEFINE e == agenda[1].e
            n == Len(ExpressionCalls(e))
            args == TakenOf(values, n)
            r == ExpressionResult(st, e, args)
            q == Converted(r, e)
<1>1. /\ Construction(function, st, agenda, values) /\ agenda # << >>
      /\ agenda[1].call = "expression_result"
      /\ function' = function /\ st' = q.s /\ values' = Append(KeptOf(values, n), q.v)
      /\ agenda' = Tail(agenda)
  BY DEF BuildInv, BuildExpression, IsNext, Top, Later, LastValues, AllBut, TakenOf, KeptOf
<1>2. /\ function \in Functions /\ e \in Trees[function].expressions /\ StateFits(function, st)
      /\ e.kind \notin {"AND", "OR", "BRACE_INIT"}
  BY <1>1, TopLaw DEF ItemFits
<1>3. /\ TakenCount(agenda[1]) = n /\ TakenFor(agenda[1]) = "value" /\ LeftFor(agenda[1]) = UsesOf(e)
      /\ Pending(agenda[1]) = {}
  BY <1>1 DEF TakenCount, TakenFor, LeftFor, Pending
<1>. HIDE DEF e, n
<1>4. /\ Len(args) = n /\ args \in Seq(Nat) /\ \A i \in 1 .. n : GoodFor(st, "value", args[i])
  BY <1>1, <1>3, TakenGood
<1>. HIDE DEF args
<1>5. args \in Seq(VariablesIn(st))
  BY <1>4, ArgumentsGood
<1>6. Returns(function, st, e, r)
  BY <1>2, <1>4, <1>5, ExpressionResultLaw DEF n
<1>. HIDE DEF r
<1>7. Straight(function, st, q.s) /\ \A use \in UsesOf(e) : GoodFor(q.s, use, q.v)
  BY <1>2, <1>6, ConvertedLaw
<1>. HIDE DEF q
<1>8. UsesOf(e) # {}
  BY DEF UsesOf
<1>9. Construction(function, q.s, Tail(agenda), Append(KeptOf(values, n), q.v))
  BY <1>1, <1>3, <1>7, <1>8, StraightReturns
<1>. QED  BY <1>1, <1>9 DEF BuildInv

LEMMA BuildAddressOfExpressionKeeps == BuildInv /\ BuildAddressOfExpression => BuildInv'
<1>. SUFFICES ASSUME BuildInv, BuildAddressOfExpression PROVE BuildInv'
  OBVIOUS
<1>. DEFINE e == agenda[1].e
            n == Len(AddressCalls(e))
            args == TakenOf(values, n)
            r == AddressResult(st, e, args)
<1>1. /\ Construction(function, st, agenda, values) /\ agenda # << >>
      /\ agenda[1].call = "address_result"
      /\ function' = function /\ st' = r.s /\ values' = Append(KeptOf(values, n), r.v)
      /\ agenda' = Tail(agenda)
  BY DEF BuildInv, BuildAddressOfExpression, IsNext, Top, Later, LastValues, AllBut, TakenOf, KeptOf
<1>2. /\ function \in Functions /\ e \in Trees[function].expressions /\ StateFits(function, st)
      /\ e.kind \in AddressableKinds
  BY <1>1, TopLaw DEF ItemFits
<1>3. /\ TakenCount(agenda[1]) = n /\ TakenFor(agenda[1]) = "value" /\ LeftFor(agenda[1]) = {"value"}
      /\ Pending(agenda[1]) = {}
  BY <1>1 DEF TakenCount, TakenFor, LeftFor, Pending
<1>. HIDE DEF e, n
<1>4. /\ Len(args) = n /\ args \in Seq(Nat) /\ \A i \in 1 .. n : GoodFor(st, "value", args[i])
  BY <1>1, <1>3, TakenGood
<1>. HIDE DEF args
<1>5. args \in Seq(VariablesIn(st))
  BY <1>4, ArgumentsGood
<1>6. Yields(function, st, r)
  BY <1>2, <1>4, <1>5, AddressResultLaw DEF n
<1>. HIDE DEF r
<1>7. Straight(function, st, r.s) /\ GoodFor(r.s, "value", r.v)
  BY <1>6 DEF Yields, GoodFor, VariablesIn, NoVar
<1>8. LeftFor(agenda[1]) # {}
  BY <1>3
<1>9. Construction(function, r.s, Tail(agenda), Append(KeptOf(values, n), r.v))
  BY <1>1, <1>3, <1>7, <1>8, StraightReturns
<1>. QED  BY <1>1, <1>9 DEF BuildInv

LEMMA BuildAddressAbortsKeeps == BuildInv /\ BuildAddressAborts => BuildInv'
BY DEF BuildInv, BuildAddressAborts

\* A call that returns nothing.
LEMMA StepTakes ==
    ASSUME NEW f, NEW s, NEW ag, NEW vals, Construction(f, s, ag, vals), ag # << >>,
           LeftFor(ag[1]) = {}, ag[1].call \notin {"loop_body_done", "implicit_return"},
           NEW t, Continues(f, s, t),
           Len(t.breakstack) = Len(s.breakstack), Len(t.continuestack) = Len(s.continuestack),
           Unfinished(t) \subseteq {t.current_block}
                \cup (Unfinished(s) \ ({s.current_block} \cup Pending(ag[1])))
    PROVE  Construction(f, t, Tail(ag), KeptOf(vals, TakenCount(ag[1])))
<1>1. PICK q : q = << >>
  OBVIOUS
<1>2. List(q) /\ ToSet(q) = {} /\ PendingIn(q) = {} /\ q \o Tail(ag) = Tail(ag)
  <2>1. List(q) /\ ToSet(q) = {}
    BY <1>1, ShortLists
  <2>2. q \o Tail(ag) = Tail(ag)
    BY <1>1, TopLaw DEF List
  <2>. QED  BY <2>1, <2>2 DEF PendingIn
<1>3. \A x, m \in Layouts : x.open /\ Leaves(ag[1], x, m) => Leads(q, x, m)
  <2>. SUFFICES ASSUME NEW x \in Layouts, NEW m \in Layouts, x.open, Leaves(ag[1], x, m)
                PROVE  Leads(q, x, m)
    OBVIOUS
  <2>1. m.uses = x.uses /\ m.loops = x.loops /\ m.open = TRUE /\ x.open = TRUE
    BY DEF Leaves, Layouts
  <2>2. m = x
    BY <2>1 DEF Layouts
  <2>. QED  BY <1>1, <2>2, LeadsNone
<1>4. Construction(f, t, q \o Tail(ag), KeptOf(vals, TakenCount(ag[1])))
  BY <1>2, <1>3, StepReplaces
<1>. QED  BY <1>2, <1>4

LEMMA StraightTakes ==
    ASSUME NEW f, NEW s, NEW ag, NEW vals, Construction(f, s, ag, vals), ag # << >>,
           LeftFor(ag[1]) = {}, ag[1].call \notin {"loop_body_done", "implicit_return"},
           Pending(ag[1]) = {}, NEW t, Straight(f, s, t)
    PROVE  Construction(f, t, Tail(ag), KeptOf(vals, TakenCount(ag[1])))
<1>1. /\ Continues(f, s, t) /\ t.current_block = s.current_block
      /\ t.breakstack = s.breakstack /\ t.continuestack = s.continuestack
  BY DEF Straight
<1>2. Unfinished(t) \subseteq {t.current_block}
            \cup (Unfinished(s) \ ({s.current_block} \cup Pending(ag[1])))
  BY <1>1, StraightFinishes
<1>. QED  BY <1>1, <1>2, StepTakes

LEMMA BuildAndOrCopyKeeps == BuildInv /\ BuildAndOrCopy => BuildInv'
<1>. SUFFICES ASSUME BuildInv, BuildAndOrCopy PROVE BuildInv'
  OBVIOUS
<1>1. PICK kind, operands, line :
        /\ st' = Emit(st, line, kind, operands, agenda[1].c.result)
        /\ kind = "VARCPY" /\ operands = <<values[Len(values)]>>
        /\ line = agenda[1].c.e.operands[2].line
  BY DEF BuildAndOrCopy, Top, Returned
<1>2. /\ Construction(function, st, agenda, values) /\ agenda # << >>
      /\ agenda[1].call = "rhs_evaluated"
      /\ function' = function /\ values' = KeptOf(values, 1) /\ agenda' = Tail(agenda)
  BY DEF BuildInv, BuildAndOrCopy, IsNext, Top, Later, AllBut, KeptOf
<1>3. /\ TakenCount(agenda[1]) = 1 /\ TakenFor(agenda[1]) = "value" /\ LeftFor(agenda[1]) = {}
      /\ Pending(agenda[1]) = {}
  BY <1>2 DEF TakenCount, TakenFor, LeftFor, Pending
<1>4. /\ StateFits(function, st) /\ agenda[1].c.result \in VariablesIn(st)
      /\ AndOrFits(function, st, agenda[1].c) /\ function \in Functions
  BY <1>2, TopLaw DEF ItemFits, AndOrFits
<1>11. line \in Nat
  BY <1>1, <1>4, SideLines DEF AndOrFits
<1>5. PICK args : args = TakenOf(values, 1)
  OBVIOUS
<1>6. GoodFor(st, "value", values[Len(values)])
  BY <1>2, <1>3, <1>5, TakenGood
<1>7. operands \in Seq(VariablesIn(st)) /\ Len(operands) = 1
  BY <1>1, <1>6 DEF GoodFor
<1>8. st' = Emit(st, line, kind, operands, agenda[1].c.result) /\ kind # "ADDRESS_OF_VARIABLE"
  BY <1>1
<1>9. Straight(function, st, st')
  BY <1>4, <1>7, <1>8, <1>11, EmitLaw
<1>10. Construction(function, st', Tail(agenda), KeptOf(values, 1))
  BY <1>2, <1>3, <1>9, StraightTakes
<1>. QED  BY <1>2, <1>10 DEF BuildInv

LEMMA BuildStoreFieldKeeps == BuildInv /\ BuildStoreField => BuildInv'
<1>. SUFFICES ASSUME BuildInv, BuildStoreField PROVE BuildInv'
  OBVIOUS
<1>1. PICK kind, operands, line :
        /\ st' = Emit(st, line, kind, operands, NoVar)
        /\ kind = "PTR_STORE" /\ operands = <<agenda[1].fieldptr, values[Len(values)]>>
        /\ line = agenda[1].e.line
  BY DEF BuildStoreField, Top, Returned
<1>2. /\ Construction(function, st, agenda, values) /\ agenda # << >>
      /\ agenda[1].call = "store_field"
      /\ function' = function /\ values' = KeptOf(values, 1) /\ agenda' = Tail(agenda)
  BY DEF BuildInv, BuildStoreField, IsNext, Top, Later, AllBut, KeptOf
<1>3. /\ TakenCount(agenda[1]) = 1 /\ TakenFor(agenda[1]) = "value" /\ LeftFor(agenda[1]) = {}
      /\ Pending(agenda[1]) = {}
  BY <1>2 DEF TakenCount, TakenFor, LeftFor, Pending
<1>4. /\ StateFits(function, st) /\ agenda[1].fieldptr \in VariablesIn(st)
      /\ function \in Functions /\ agenda[1].e \in Trees[function].expressions
  BY <1>2, TopLaw DEF ItemFits
<1>11. line \in Nat
  BY <1>1, <1>4, ExpressionLaw DEF ExpressionOK
<1>5. PICK args : args = TakenOf(values, 1)
  OBVIOUS
<1>6. GoodFor(st, "value", values[Len(values)])
  BY <1>2, <1>3, <1>5, TakenGood
<1>7. operands \in Seq(VariablesIn(st))
  BY <1>1, <1>4, <1>6 DEF GoodFor
<1>8. /\ st' = Emit(st, line, kind, operands, NoVar)
      /\ kind # "ADDRESS_OF_VARIABLE" /\ kind # "VARCPY"
  BY <1>1
<1>9. Straight(function, st, st')
  BY <1>4, <1>7, <1>8, <1>11, EmitLaw
<1>10. Construction(function, st', Tail(agenda), KeptOf(values, 1))
  BY <1>2, <1>3, <1>9, StraightTakes
<1>. QED  BY <1>2, <1>10 DEF BuildInv

\* The cast at the end of and, or and struct literals.
LEMMA BuildStructDoneKeeps == BuildInv /\ BuildStructDone => BuildInv'
<1>. SUFFICES ASSUME BuildInv, BuildStructDone PROVE BuildInv'
  OBVIOUS
<1>. DEFINE e == agenda[1].e
            r == [s |-> st, v |-> agenda[1].instance]
            q == Converted(r, e)
<1>1. /\ Construction(function, st, agenda, values) /\ agenda # << >>
      /\ agenda[1].call = "struct_done"
      /\ function' = function /\ st' = q.s /\ values' = Append(values, q.v)
      /\ agenda' = Tail(agenda)
  BY DEF BuildInv, BuildStructDone, IsNext, Top, Later
<1>2. /\ function \in Functions /\ e \in Trees[function].expressions /\ StateFits(function, st)
      /\ e.kind = "BRACE_INIT" /\ agenda[1].instance \in VariablesIn(st)
      /\ TypeOf(st, agenda[1].instance) = e.type /\ values \in Seq(Nat)
  BY <1>1, TopLaw DEF ItemFits
<1>3. /\ TakenCount(agenda[1]) = 0 /\ LeftFor(agenda[1]) = UsesOf(e) /\ Pending(agenda[1]) = {}
  BY <1>1 DEF TakenCount, LeftFor, Pending
<1>4. Returns(function, st, e, r)
  BY <1>2, StraightReflexive DEF Returns, ReturnsNothing
<1>. HIDE DEF r, e
<1>5. Straight(function, st, q.s) /\ \A use \in UsesOf(e) : GoodFor(q.s, use, q.v)
  BY <1>2, <1>4, ConvertedLaw
<1>. HIDE DEF q
<1>6. UsesOf(e) # {}
  BY DEF UsesOf
<1>7. Construction(function, q.s, Tail(agenda), Append(KeptOf(values, 0), q.v))
  BY <1>1, <1>3, <1>5, <1>6, StraightReturns
<1>. QED  BY <1>1, <1>2, <1>7, KeptNone DEF BuildInv

LEMMA StatementResultLaw ==
    ASSUME NEW f \in Functions, NEW s, StateFits(f, s), NEW stmt \in Trees[f].statements,
           stmt.kind \in SimpleStatements,
           NEW args \in Seq(Nat), Len(args) = Len(StatementCalls(stmt)),
           \A i \in 1 .. Len(args) : GoodFor(s, UseIn(stmt), args[i]),
           NEW t, t = StatementResult(s, stmt, args)
    PROVE  /\ Continues(f, s, t)
           /\ t.breakstack = s.breakstack /\ t.continuestack = s.continuestack
           /\ Unfinished(t) \subseteq (Unfinished(s) \ {s.current_block}) \cup {t.current_block}
<1>. DEFINE Right(u) == /\ Continues(f, s, u)
                        /\ u.breakstack = s.breakstack /\ u.continuestack = s.continuestack
                        /\ Unfinished(u) \subseteq (Unfinished(s) \ {s.current_block}) \cup {u.current_block}
<1>1. StatementOK(f, Trees[f], stmt)
  BY StatementLaw
<1>2. UseIn(stmt) = "value" => args \in Seq(VariablesIn(s))
  BY ArgumentsGood
<1>3. \A u : Straight(f, s, u) => Right(u)
  <2>. SUFFICES ASSUME NEW u, Straight(f, s, u) PROVE Right(u)
    OBVIOUS
  <2>1. Unfinished(u) \subseteq Unfinished(s)
    BY StraightFinishes
  <2>. QED  BY <2>1 DEF Straight
<1>4. EndBlock \in DOMAIN s.block
  BY Lengths DEF StateFits, BlocksFit, EndBlock
<1>12. stmt.kind \in {"ASSIGN", "DECLARE_LOCAL_VAR", "RETURN_VALUE"} => stmt.line \in Nat
  BY <1>1 DEF StatementOK
<1>5. ASSUME NEW u, Straight(f, s, u), NEW w, w = ReturnJump(u)
      PROVE  Right(w)
  <2>1. /\ Continues(f, s, u) /\ StateFits(f, u) /\ DOMAIN u.block = DOMAIN s.block
        /\ u.current_block = s.current_block
        /\ u.breakstack = s.breakstack /\ u.continuestack = s.continuestack
    BY <1>5, Lengths DEF Straight, Continues
  <2>2. w = Goto(u, EndBlock, NoBlock)
    BY <1>5 DEF ReturnJump
  <2>3. /\ Continues(f, u, w)
        /\ w.breakstack = u.breakstack /\ w.continuestack = u.continuestack
        /\ Unfinished(w) \subseteq (Unfinished(u) \ {u.current_block}) \cup {w.current_block}
    BY <1>4, <2>1, <2>2, JumpAway
  <2>4. Unfinished(u) \subseteq Unfinished(s)
    BY <1>5, StraightFinishes
  <2>. QED  BY <2>1, <2>3, <2>4, ContinuesTransitive
<1>6. \A line \in Nat : \A v, u :
        args \in Seq(VariablesIn(s)) /\ Len(args) = 1 /\ v \in VariablesIn(s)
            /\ u = Emit(s, line, "VARCPY", args, v) => Straight(f, s, u)
  <2>. SUFFICES ASSUME NEW line \in Nat, NEW v \in VariablesIn(s), NEW u,
                       args \in Seq(VariablesIn(s)), Len(args) = 1,
                       u = Emit(s, line, "VARCPY", args, v)
                PROVE  Straight(f, s, u)
    OBVIOUS
  <2>1. PICK kind : u = Emit(s, line, kind, args, v) /\ kind = "VARCPY"
    OBVIOUS
  <2>2. u = Emit(s, line, kind, args, v) /\ kind # "ADDRESS_OF_VARIABLE"
    BY <2>1
  <2>. QED  BY <2>2, EmitLaw
<1>. HIDE DEF Right
<1>7. CASE stmt.kind = "ASSIGN"
  <2>1. stmt.target \in Trees[f].expressions /\ UseIn(stmt) = "value"
    BY <1>1, <1>7 DEF StatementOK, UseIn
  <2>2. ExpressionOK(f, Trees[f], stmt.target)
    BY <2>1, ExpressionLaw
  <2>3. CASE stmt.target.kind = "GET_VARIABLE"
    <3>1. t = Emit(s, stmt.line, "VARCPY", args, find_variable(s, stmt.target.name))
      BY <1>7, <2>3 DEF StatementResult
    <3>2. Len(args) = 1
      BY <1>7, <2>3 DEF StatementCalls
    <3>3. HasVariable(f, stmt.target.name)
      BY <2>2, <2>3 DEF ExpressionOK, HasVariable
    <3>4. find_variable(s, stmt.target.name) \in VariablesIn(s)
      BY <3>3, FindVariable
    <3>5. Straight(f, s, t)
      BY <1>2, <1>6, <1>7, <1>12, <2>1, <3>1, <3>2, <3>4
    <3>. QED  BY <1>3, <3>5 DEF Right
  <2>4. CASE stmt.target.kind # "GET_VARIABLE"
    <3>1. PICK kind : t = Emit(s, stmt.line, kind, args, NoVar) /\ kind = "PTR_STORE"
      BY <1>7, <2>4 DEF StatementResult
    <3>2. kind # "VARCPY" /\ kind # "ADDRESS_OF_VARIABLE" /\ t = Emit(s, stmt.line, kind, args, NoVar)
      BY <3>1
    <3>3. Straight(f, s, t)
      BY <1>2, <1>7, <1>12, <2>1, <3>2, EmitLaw
    <3>. QED  BY <1>3, <3>3 DEF Right
  <2>. QED  BY <2>3, <2>4
<1>8. CASE stmt.kind = "DECLARE_LOCAL_VAR"
  <2>1. /\ HasVariable(f, stmt.name) /\ UseIn(stmt) = "value"
        /\ stmt.initial_value \in Seq(Trees[f].expressions) /\ Len(stmt.initial_value) <= 1
        /\ \A i \in DOMAIN stmt.initial_value : Value(Trees[f], stmt.initial_value[i])
    BY <1>1, <1>8 DEF StatementOK, UseIn
  <2>2. find_variable(s, stmt.name) \in VariablesIn(s)
    BY <2>1, FindVariable
  <2>3. StatementCalls(stmt) = EvaluateAll(stmt.initial_value)
    BY <1>8 DEF StatementCalls
  <2>4. Len(args) <= 1
    BY <2>1, <2>3, EvaluateAllLaw
  <2>5. CASE args = << >>
    <3>1. t = s
      BY <1>8, <2>5 DEF StatementResult
    <3>. QED  BY <1>3, <3>1, StraightReflexive DEF Right
  <2>6. CASE args # << >>
    <3>1. t = Emit(s, stmt.line, "VARCPY", args, find_variable(s, stmt.name))
      BY <1>8, <2>6 DEF StatementResult
    <3>2. Len(args) = 1
      BY <2>4, <2>6
    <3>3. Straight(f, s, t)
      BY <1>2, <1>6, <1>8, <1>12, <2>1, <2>2, <3>1, <3>2
    <3>. QED  BY <1>3, <3>3 DEF Right
  <2>. QED  BY <2>5, <2>6
<1>9. CASE stmt.kind = "RETURN_VALUE"
  <2>1. HasVariable(f, "return") /\ UseIn(stmt) = "value"
    BY <1>1, <1>9 DEF StatementOK, UseIn
  <2>2. find_variable(s, "return") \in VariablesIn(s)
    BY <2>1, FindVariable
  <2>3. Len(args) = 1
    BY <1>9 DEF StatementCalls
  <2>4. PICK u : u = Emit(s, stmt.line, "VARCPY", args, find_variable(s, "return"))
    OBVIOUS
  <2>5. Straight(f, s, u)
    BY <1>2, <1>6, <1>9, <1>12, <2>1, <2>2, <2>3, <2>4
  <2>6. t = ReturnJump(u)
    BY <1>9, <2>4 DEF StatementResult
  <2>. QED  BY <1>5, <2>5, <2>6 DEF Right
<1>10. CASE stmt.kind = "RETURN_WITHOUT_VALUE"
  <2>1. t = ReturnJump(s)
    BY <1>10 DEF StatementResult
  <2>. QED  BY <1>5, <2>1, StraightReflexive DEF Right
<1>11. CASE stmt.kind = "EXPRESSION_STATEMENT"
  <2>1. t = s
    BY <1>11 DEF StatementResult
  <2>. QED  BY <1>3, <2>1, StraightReflexive DEF Right
<1>. QED  BY <1>7, <1>8, <1>9, <1>10, <1>11 DEF SimpleStatements

LEMMA BuildStatementKeeps == BuildInv /\ BuildStatement => BuildInv'
<1>. SUFFICES ASSUME BuildInv, BuildStatement PROVE BuildInv'
  OBVIOUS
<1>. DEFINE stmt == agenda[1].s
            n == Len(StatementCalls(stmt))
            args == TakenOf(values, n)
<1>1. /\ Construction(function, st, agenda, values) /\ agenda # << >>
      /\ agenda[1].call = "statement_result"
      /\ function' = function /\ st' = StatementResult(st, stmt, args) /\ values' = KeptOf(values, n)
      /\ agenda' = Tail(agenda)
  BY DEF BuildInv, BuildStatement, IsNext, Top, Later, LastValues, AllBut, TakenOf, KeptOf
<1>2. /\ function \in Functions /\ stmt \in Trees[function].statements /\ StateFits(function, st)
      /\ stmt.kind \in SimpleStatements
  BY <1>1, TopLaw DEF ItemFits, SimpleStatements
<1>3. /\ TakenCount(agenda[1]) = n /\ TakenFor(agenda[1]) = UseIn(stmt) /\ LeftFor(agenda[1]) = {}
      /\ Pending(agenda[1]) = {}
  BY <1>1 DEF TakenCount, TakenFor, LeftFor, Pending, UseIn
<1>. HIDE DEF stmt, n
<1>4. /\ Len(args) = n /\ args \in Seq(Nat) /\ \A i \in 1 .. n : GoodFor(st, UseIn(stmt), args[i])
  BY <1>1, <1>3, TakenGood
<1>. HIDE DEF args
<1>5. /\ Continues(function, st, st')
      /\ st'.breakstack = st.breakstack /\ st'.continuestack = st.continuestack
      /\ Unfinished(st') \subseteq (Unfinished(st) \ {st.current_block}) \cup {st'.current_block}
  BY <1>1, <1>2, <1>4, StatementResultLaw DEF n
<1>6. Construction(function, st', Tail(agenda), KeptOf(values, n))
  BY <1>1, <1>3, <1>5, StepTakes
<1>. QED  BY <1>1, <1>6 DEF BuildInv
-----------------------------------------------------------------------------
\* Calls about blocks.
LEMMA PendingParts ==
    /\ \A a : PendingIn(<<a>>) = Pending(a)
    /\ \A p, q : List(p) /\ List(q) => PendingIn(p \o q) = PendingIn(p) \cup PendingIn(q)
    /\ \A q : (\A item \in ToSet(q) : Pending(item) = {}) => PendingIn(q) = {}
<1>1. \A a : PendingIn(<<a>>) = Pending(a)
  <2>1. \A q, a : ToSet(q) = {a} => PendingIn(q) = Pending(a)
    BY DEF PendingIn
  <2>. QED  BY <2>1, ShortLists
<1>2. ASSUME NEW p, NEW q, List(p), List(q)
      PROVE  PendingIn(p \o q) = PendingIn(p) \cup PendingIn(q)
  <2>1. ToSet(p \o q) = ToSet(p) \cup ToSet(q)
    BY <1>2, ConcatList
  <2>. QED  BY <2>1 DEF PendingIn
<1>3. \A q : (\A item \in ToSet(q) : Pending(item) = {}) => PendingIn(q) = {}
  BY DEF PendingIn
<1>. QED  BY <1>1, <1>2, <1>3

LEMMA LeavesAlone ==
    ASSUME NEW item, LeftFor(item) = {}, item.call \notin {"loop_body_done", "implicit_return"},
           NEW x \in Layouts, x.open, NEW m \in Layouts
    PROVE  Leaves(item, x, m) <=> m = x
<1>1. Leaves(item, x, x)
  BY DEF Leaves
<1>2. ASSUME Leaves(item, x, m) PROVE m = x
  <2>1. m.uses = x.uses /\ m.loops = x.loops /\ m.open = TRUE /\ x.open = TRUE
    BY <1>2 DEF Leaves, Layouts
  <2>. QED  BY <2>1 DEF Layouts
<1>. QED  BY <1>1, <1>2

\* A call replaced by others which in the end leave nothing behind.
LEMMA StepGoesOn ==
    ASSUME NEW f, NEW s, NEW ag, NEW vals, Construction(f, s, ag, vals), ag # << >>,
           LeftFor(ag[1]) = {}, ag[1].call \notin {"loop_body_done", "implicit_return"},
           NEW t, Continues(f, s, t),
           Len(t.breakstack) = Len(s.breakstack), Len(t.continuestack) = Len(s.continuestack),
           NEW q, List(q), \A item \in ToSet(q) : ItemFits(f, t, item),
           Unfinished(t) \subseteq PendingIn(q) \cup {t.current_block}
                \cup (Unfinished(s) \ ({s.current_block} \cup Pending(ag[1]))),
           \A x \in Layouts : x.open => Leads(q, x, x)
    PROVE  Construction(f, t, q \o Tail(ag), KeptOf(vals, TakenCount(ag[1])))
<1>1. \A x, m \in Layouts : x.open /\ Leaves(ag[1], x, m) => Leads(q, x, m)
  BY LeavesAlone
<1>. QED  BY <1>1, StepReplaces

\* A jump and what comes after it.
LEMMA BuildJumpKeeps ==
    ASSUME BuildInv, NEW kind, kind \in {"BREAK", "CONTINUE"}, NEW stack \in Seq(InnerBlocks(st)),
           NEW message, BuildJump(kind, stack, message)
    PROVE  BuildInv'
<1>1. /\ Construction(function, st, agenda, values) /\ agenda # << >>
      /\ agenda[1].call = "build_statement"
      /\ function' = function /\ values' = values
  BY DEF BuildInv, BuildJump, StatementIsNext, IsNext, Top
<1>2. CASE stack = << >>
  <2>1. st' = st /\ agenda' = agenda
    BY <1>2 DEF BuildJump
  <2>. QED  BY <1>1, <2>1 DEF BuildInv
<1>3. CASE stack # << >>
  <2>1. st' = Goto(st, stack[Len(stack)], NoBlock) /\ agenda' = Tail(agenda)
    BY <1>3 DEF BuildJump, Later
  <2>2. stack[Len(stack)] \in DOMAIN st.block
    BY <1>3 DEF InnerBlocks
  <2>3. StateFits(function, st) /\ values \in Seq(Nat)
    BY <1>1, TopLaw
  <2>4. /\ Continues(function, st, st')
        /\ st'.breakstack = st.breakstack /\ st'.continuestack = st.continuestack
        /\ Unfinished(st') \subseteq (Unfinished(st) \ {st.current_block}) \cup {st'.current_block}
    BY <2>1, <2>2, <2>3, JumpAway
  <2>5. TakenCount(agenda[1]) = 0 /\ LeftFor(agenda[1]) = {} /\ Pending(agenda[1]) = {}
    BY <1>1 DEF TakenCount, LeftFor, Pending
  <2>6. Construction(function, st', Tail(agenda), KeptOf(values, 0))
    BY <1>1, <2>4, <2>5, StepTakes
  <2>. QED  BY <1>1, <2>1, <2>3, <2>6, KeptNone DEF BuildInv
<1>. QED  BY <1>2, <1>3

LEMMA BuildBreakKeeps == BuildInv /\ BuildBreak => BuildInv'
<1>. SUFFICES ASSUME BuildInv, BuildBreak PROVE BuildInv'
  OBVIOUS
<1>1. PICK kind, message : BuildJump(kind, st.breakstack, message) /\ kind = "BREAK"
  BY DEF BuildBreak
<1>2. st.breakstack \in Seq(InnerBlocks(st))
  BY DEF BuildInv, Construction, StateFits
<1>. QED  BY <1>1, <1>2, BuildJumpKeeps

LEMMA BuildContinueKeeps == BuildInv /\ BuildContinue => BuildInv'
<1>. SUFFICES ASSUME BuildInv, BuildContinue PROVE BuildInv'
  OBVIOUS
<1>1. PICK kind, message : BuildJump(kind, st.continuestack, message) /\ kind = "CONTINUE"
  BY DEF BuildContinue
<1>2. st.continuestack \in Seq(InnerBlocks(st))
  BY DEF BuildInv, Construction, StateFits
<1>. QED  BY <1>1, <1>2, BuildJumpKeeps

\* A jump to a block that is there, with code going on in another one.
LEMMA GotoLaw ==
    ASSUME NEW f, NEW s, StateFits(f, s), NEW target \in InnerBlocks(s) \cup {EndBlock},
           NEW new \in InnerBlocks(s), NEW t, t = Goto(s, target, new)
    PROVE  Moved(f, s, t, new)
<1>1. PICK v, i, j : t = add_jump(s, v, i, j, new) /\ i = target /\ j = target
  BY DEF Goto
<1>2. i \in DOMAIN s.block /\ j \in DOMAIN s.block
  BY <1>1, Lengths DEF StateFits, BlocksFit, EndBlock, InnerBlocks
<1>3. t = add_jump(s, v, i, j, new) /\ Decides(s, v, i, j)
  BY <1>1 DEF Decides
<1>. QED  BY <1>2, <1>3, AddJump

LEMMA BuildIfDoneKeeps == BuildInv /\ BuildIfDone => BuildInv'
<1>. SUFFICES ASSUME BuildInv, BuildIfDone PROVE BuildInv'
  OBVIOUS
<1>1. /\ Construction(function, st, agenda, values) /\ agenda # << >>
      /\ agenda[1].call = "if_done"
      /\ function' = function /\ values' = values /\ agenda' = Tail(agenda)
      /\ st' = Goto(st, agenda[1].done, agenda[1].done)
  BY DEF BuildInv, BuildIfDone, IsNext, Top, Later
<1>2. StateFits(function, st) /\ values \in Seq(Nat) /\ agenda[1].done \in InnerBlocks(st)
  BY <1>1, TopLaw DEF ItemFits
<1>3. /\ Continues(function, st, st') /\ st'.current_block = agenda[1].done
      /\ st'.breakstack = st.breakstack /\ st'.continuestack = st.continuestack
      /\ Unfinished(st') \subseteq Unfinished(st) \ {st.current_block}
  BY <1>1, <1>2, GotoLaw DEF Moved
<1>4. /\ TakenCount(agenda[1]) = 0 /\ LeftFor(agenda[1]) = {}
      /\ Pending(agenda[1]) = {agenda[1].done}
  BY <1>1 DEF TakenCount, LeftFor, Pending
<1>5. Construction(function, st', Tail(agenda), KeptOf(values, 0))
  BY <1>1, <1>3, <1>4, StepTakes
<1>. QED  BY <1>1, <1>2, <1>5, KeptNone DEF BuildInv

LEMMA BuildLoopRepeatKeeps == BuildInv /\ BuildLoopRepeat => BuildInv'
<1>. SUFFICES ASSUME BuildInv, BuildLoopRepeat PROVE BuildInv'
  OBVIOUS
<1>1. /\ Construction(function, st, agenda, values) /\ agenda # << >>
      /\ agenda[1].call = "loop_repeat"
      /\ function' = function /\ values' = values /\ agenda' = Tail(agenda)
      /\ st' = Goto(st, agenda[1].l.cond, agenda[1].l.done)
  BY DEF BuildInv, BuildLoopRepeat, IsNext, Top, Later
<1>2. /\ StateFits(function, st) /\ values \in Seq(Nat)
      /\ agenda[1].l.cond \in InnerBlocks(st) /\ agenda[1].l.done \in InnerBlocks(st)
  BY <1>1, TopLaw DEF ItemFits, LoopFits
<1>3. /\ Continues(function, st, st') /\ st'.current_block = agenda[1].l.done
      /\ st'.breakstack = st.breakstack /\ st'.continuestack = st.continuestack
      /\ Unfinished(st') \subseteq Unfinished(st) \ {st.current_block}
  BY <1>1, <1>2, GotoLaw DEF Moved
<1>4. /\ TakenCount(agenda[1]) = 0 /\ LeftFor(agenda[1]) = {}
      /\ Pending(agenda[1]) = {agenda[1].l.done}
  BY <1>1 DEF TakenCount, LeftFor, Pending
<1>5. Construction(function, st', Tail(agenda), KeptOf(values, 0))
  BY <1>1, <1>3, <1>4, StepTakes
<1>. QED  BY <1>1, <1>2, <1>5, KeptNone DEF BuildInv

LEMMA BuildImplicitReturnKeeps == BuildInv /\ BuildImplicitReturn => BuildInv'
<1>. SUFFICES ASSUME BuildInv, BuildImplicitReturn PROVE BuildInv'
  OBVIOUS
<1>1. /\ Construction(function, st, agenda, values) /\ agenda # << >>
      /\ agenda[1].call = "implicit_return"
      /\ function' = function /\ values' = values /\ agenda' = Tail(agenda)
      /\ st' = Goto(st, EndBlock, st.current_block)
  BY DEF BuildInv, BuildImplicitReturn, IsNext, Top, Later
<1>2. /\ StateFits(function, st) /\ values \in Seq(Nat) /\ List(Tail(agenda))
      /\ st.current_block \in InnerBlocks(st)
  BY <1>1, TopLaw DEF StateFits
<1>3. /\ Continues(function, st, st')
      /\ st'.breakstack = st.breakstack /\ st'.continuestack = st.continuestack
      /\ Unfinished(st') \subseteq Unfinished(st) \ {st.current_block}
  <2>1. PICK target : target = EndBlock /\ st' = Goto(st, target, st.current_block)
    BY <1>1
  <2>2. target \in InnerBlocks(st) \cup {EndBlock}
    BY <2>1
  <2>3. Moved(function, st, st', st.current_block)
    BY <1>2, <2>1, <2>2, GotoLaw
  <2>. QED  BY <2>3 DEF Moved
<1>4. TakenCount(agenda[1]) = 0 /\ LeftFor(agenda[1]) = {} /\ Pending(agenda[1]) = {}
  BY <1>1 DEF TakenCount, LeftFor, Pending
<1>5. PICK q : q = << >>
  OBVIOUS
<1>6. List(q) /\ ToSet(q) = {} /\ q \o Tail(agenda) = Tail(agenda)
  <2>1. List(q) /\ ToSet(q) = {}
    BY <1>5, ShortLists
  <2>2. q \o Tail(agenda) = Tail(agenda)
    BY <1>2, <1>5 DEF List
  <2>. QED  BY <2>1, <2>2
<1>7. ASSUME NEW x \in Layouts, NEW m \in Layouts, Fits(st, values, x), Effect(agenda[1], x, m)
      PROVE  /\ Fits(st', values, m) /\ Leads(q, m, m)
             /\ Unfinished(st') \subseteq
                    PendingIn(q) \cup (IF m.open THEN {st'.current_block} ELSE {})
                        \cup (Unfinished(st) \ ({st.current_block} \cup Pending(agenda[1])))
  <2>1. Leaves(agenda[1], x, m)
    BY <1>4, <1>7, WithoutNone DEF Effect
  <2>2. m = EndLayout /\ m.uses = x.uses /\ x.loops = m.loops
    BY <1>1, <1>4, <2>1 DEF Leaves
  <2>3. m.uses = << >> /\ m.loops = 0
    BY <2>2 DEF EndLayout
  <2>4. Len(values) = Len(m.uses) /\ Len(st.breakstack) = m.loops /\ Len(st.continuestack) = m.loops
    BY <1>7, <2>2 DEF Fits
  <2>5. Len(values) = 0
    BY <2>3, <2>4
  <2>6. Fits(st', values, m)
    BY <1>3, <2>4, <2>5 DEF Fits
  <2>7. Leads(q, m, m)
    BY <1>5, <1>7, LeadsNone
  <2>. QED  BY <1>3, <1>4, <2>6, <2>7
<1>8. Construction(function, st', q \o Tail(agenda), values)
  BY <1>1, <1>2, <1>3, <1>6, <1>7, StepKeeps
<1>. QED  BY <1>1, <1>6, <1>8 DEF BuildInv
-----------------------------------------------------------------------------
\* If statements.
LEMMA NewBlock ==
    ASSUME NEW f, NEW s, StateFits(f, s), NEW t, t = add_block(s)
    PROVE  /\ StateFits(f, t) /\ Continues(f, s, t)
           /\ newblock(t) = newblock(s) + 1 /\ newblock(s) \in Nat
           /\ newblock(t) \in InnerBlocks(t) /\ InnerBlocks(s) \subseteq InnerBlocks(t)
           /\ t.current_block = s.current_block
           /\ t.breakstack = s.breakstack /\ t.continuestack = s.continuestack
           /\ Unfinished(t) \subseteq Unfinished(s) \cup {newblock(t)}
<1>1. /\ Continues(f, s, t) /\ newblock(t) = newblock(s) + 1
      /\ t.current_block = s.current_block
      /\ t.breakstack = s.breakstack /\ t.continuestack = s.continuestack
      /\ InnerBlocks(t) = InnerBlocks(s) \cup {newblock(s) + 1}
      /\ Unfinished(t) \subseteq Unfinished(s) \cup {newblock(s) + 1}
  BY AddBlock
<1>2. newblock(s) \in Nat
  BY Lengths DEF newblock
<1>. QED  BY <1>1, <1>2 DEF Continues

\* The statements of a body and what comes after them.
ComesTo(f, s, q, item) ==
    /\ List(q) /\ \A c \in ToSet(q) : ItemFits(f, s, c)
    /\ PendingIn(q) = Pending(item)
    /\ \A x, m \in Layouts : x.open /\ Leaves(item, x, m) => Leads(q, x, m)

LEMMA BodyThen ==
    ASSUME NEW f, NEW s, NEW b, BodyOK(Trees[f], b), NEW item, ItemFits(f, s, item), TakenCount(item) = 0,
           NEW q, q = Body(b) \o <<item>>
    PROVE  ComesTo(f, s, q, item)
<1>1. PICK body : body = Body(b)
  OBVIOUS
<1>2. /\ List(body)
      /\ \A c \in ToSet(body) : ItemFits(f, s, c) /\ Silent(c) /\ Pending(c) = {}
  BY <1>1, BodyLaw
<1>3. List(<<item>>) /\ ToSet(<<item>>) = {item} /\ q = body \o <<item>>
  BY <1>1, ShortLists
<1>4. List(q) /\ ToSet(q) = ToSet(body) \cup {item}
  BY <1>2, <1>3, ConcatList
<1>5. PendingIn(q) = Pending(item)
  BY <1>2, <1>4 DEF PendingIn
<1>6. \A x, m \in Layouts : x.open /\ Leaves(item, x, m) => Leads(q, x, m)
  BY <1>2, <1>3, SilentThenLast
<1>. QED  BY <1>2, <1>4, <1>5, <1>6 DEF ComesTo

LEMMA IfRestLaw ==
    ASSUME NEW f \in Functions, NEW s, NEW stmt \in Trees[f].statements, stmt.kind = "IF",
           NEW i \in Nat \ {0}, NEW done \in InnerBlocks(s), NEW q, q = IfRest(stmt, i, done)
    PROVE  /\ List(q) /\ \A item \in ToSet(q) : ItemFits(f, s, item)
           /\ PendingIn(q) = {done}
           /\ \A x \in Layouts : x.open => Leads(q, x, x)
<1>1. /\ Len(stmt.if_and_elifs) \in Nat /\ BodyOK(Trees[f], stmt.elsebody)
      /\ \A k \in 1 .. Len(stmt.if_and_elifs) : Condition(Trees[f], stmt.if_and_elifs[k].condition)
  BY StatementLaw DEF StatementOK
<1>2. CASE i <= Len(stmt.if_and_elifs)
  <2>1. i \in 1 .. Len(stmt.if_and_elifs)
    BY <1>1, <1>2
  <2>. DEFINE e == stmt.if_and_elifs[i].condition
  <2>2. PICK call, item : /\ call = Evaluate(e)
                          /\ item = [call |-> "if_condition", s |-> stmt, i |-> i, done |-> done]
    OBVIOUS
  <2>3. q = <<call, item>>
    BY <1>2, <2>2 DEF IfRest
  <2>4. item.call = "if_condition" /\ item.s = stmt /\ item.i = i /\ item.done = done
    BY <2>2
  <2>5. Condition(Trees[f], e) /\ e \in Trees[f].expressions
    BY <1>1, <2>1 DEF Condition, Value
  <2>. HIDE DEF e
  <2>6. ItemFits(f, s, call) /\ Pushes(call, "bool") /\ Pending(call) = {}
    BY <2>2, <2>5, EvaluateLaw
  <2>7. /\ ItemFits(f, s, item) /\ Pending(item) = {done} /\ LeftFor(item) = {}
        /\ TakenCount(item) = 1 /\ TakenFor(item) = "bool"
    BY <2>1, <2>4 DEF ItemFits, IfFits, Pending, LeftFor, TakenCount, TakenFor
  <2>8. List(q) /\ ToSet(q) = {call, item}
    BY <2>3, ShortLists
  <2>9. PendingIn(q) = {done}
    BY <2>6, <2>7, <2>8 DEF PendingIn
  <2>10. ASSUME NEW x \in Layouts, x.open PROVE Leads(q, x, x)
    <3>1. Leaves(item, x, x)
      BY <2>4, <2>7, <2>10, LeavesAlone
    <3>2. Leads(<<call, item>>, x, x)
      BY <2>6, <2>7, <2>10, <3>1, CallThenResult DEF Uses
    <3>. QED  BY <2>3, <3>2
  <2>. QED  BY <2>6, <2>7, <2>8, <2>9, <2>10
<1>3. CASE ~ (i <= Len(stmt.if_and_elifs))
  <2>1. PICK item : item = [call |-> "if_done", done |-> done]
    OBVIOUS
  <2>2. q = Body(stmt.elsebody) \o <<item>>
    BY <1>3, <2>1 DEF IfRest
  <2>3. item.call = "if_done" /\ item.done = done
    BY <2>1
  <2>4. /\ ItemFits(f, s, item) /\ Pending(item) = {done} /\ LeftFor(item) = {} /\ TakenCount(item) = 0
    BY <2>3 DEF ItemFits, Pending, LeftFor, TakenCount
  <2>5. ComesTo(f, s, q, item)
    BY <1>1, <2>2, <2>4, BodyThen
  <2>. QED  BY <2>3, <2>4, <2>5, LeavesAlone DEF ComesTo
<1>. QED  BY <1>2, <1>3

LEMMA BuildIfKeeps == BuildInv /\ BuildIf => BuildInv'
<1>. SUFFICES ASSUME BuildInv, BuildIf PROVE BuildInv'
  OBVIOUS
<1>. DEFINE stmt == agenda[1].s
            q == IfRest(stmt, 1, newblock(st'))
<1>1. /\ Construction(function, st, agenda, values) /\ agenda # << >>
      /\ agenda[1].call = "build_statement" /\ stmt.kind = "IF"
      /\ function' = function /\ values' = values /\ agenda' = q \o Tail(agenda)
      /\ st' = add_block(st)
  BY DEF BuildInv, BuildIf, StatementIsNext, IsNext, Top, Later
<1>2. /\ function \in Functions /\ StateFits(function, st) /\ values \in Seq(Nat)
      /\ stmt \in Trees[function].statements
  BY <1>1, TopLaw DEF ItemFits
<1>3. TakenCount(agenda[1]) = 0 /\ LeftFor(agenda[1]) = {} /\ Pending(agenda[1]) = {}
  BY <1>1 DEF TakenCount, LeftFor, Pending
<1>. HIDE DEF stmt
<1>4. /\ Continues(function, st, st') /\ newblock(st') \in InnerBlocks(st')
      /\ st'.current_block = st.current_block
      /\ st'.breakstack = st.breakstack /\ st'.continuestack = st.continuestack
      /\ Unfinished(st') \subseteq Unfinished(st) \cup {newblock(st')}
  BY <1>1, <1>2, NewBlock
<1>5. /\ List(q) /\ \A item \in ToSet(q) : ItemFits(function, st', item)
      /\ PendingIn(q) = {newblock(st')}
      /\ \A x \in Layouts : x.open => Leads(q, x, x)
  <2>1. PICK i : i = 1 /\ q = IfRest(stmt, i, newblock(st'))
    OBVIOUS
  <2>2. i \in Nat \ {0}
    BY <2>1
  <2>. HIDE DEF q
  <2>. QED  BY <1>1, <1>2, <1>4, <2>1, <2>2, IfRestLaw
<1>. HIDE DEF q
<1>6. Construction(function, st', q \o Tail(agenda), KeptOf(values, 0))
  BY <1>1, <1>3, <1>4, <1>5, StepGoesOn
<1>. QED  BY <1>1, <1>2, <1>6, KeptNone DEF BuildInv

LEMMA BuildIfBodyDoneKeeps == BuildInv /\ BuildIfBodyDone => BuildInv'
<1>. SUFFICES ASSUME BuildInv, BuildIfBodyDone PROVE BuildInv'
  OBVIOUS
<1>. DEFINE top == agenda[1]
            q == IfRest(top.s, top.i + 1, top.done)
<1>1. /\ Construction(function, st, agenda, values) /\ agenda # << >>
      /\ top.call = "if_body_done"
      /\ function' = function /\ values' = values /\ agenda' = q \o Tail(agenda)
      /\ st' = Goto(st, top.done, top.otherwise)
  BY DEF BuildInv, BuildIfBodyDone, IsNext, Top, Later
<1>2. /\ function \in Functions /\ StateFits(function, st) /\ values \in Seq(Nat)
      /\ top.done \in InnerBlocks(st) /\ top.otherwise \in InnerBlocks(st) /\ IfFits(function, top)
  BY <1>1, TopLaw DEF ItemFits
<1>3. /\ TakenCount(top) = 0 /\ LeftFor(top) = {} /\ Pending(top) = {top.otherwise, top.done}
  BY <1>1 DEF TakenCount, LeftFor, Pending
<1>4. Moved(function, st, st', top.otherwise)
  BY <1>1, <1>2, GotoLaw
<1>5. /\ top.s \in Trees[function].statements /\ top.s.kind = "IF" /\ top.i + 1 \in Nat \ {0}
  <2>1. Len(top.s.if_and_elifs) \in Nat
    BY <1>2, StatementLaw DEF IfFits, StatementOK
  <2>. QED  BY <1>2, <2>1 DEF IfFits
<1>6. top.done \in InnerBlocks(st')
  BY <1>2, <1>4 DEF Moved
<1>. HIDE DEF q
<1>7. /\ List(q) /\ \A item \in ToSet(q) : ItemFits(function, st', item)
      /\ PendingIn(q) = {top.done}
      /\ \A x \in Layouts : x.open => Leads(q, x, x)
  BY <1>2, <1>5, <1>6, IfRestLaw DEF q
<1>8. Construction(function, st', q \o Tail(agenda), KeptOf(values, 0))
  BY <1>1, <1>3, <1>4, <1>7, StepGoesOn DEF Moved
<1>. QED  BY <1>1, <1>2, <1>8, KeptNone DEF BuildInv

LEMMA BuildIfConditionKeeps == BuildInv /\ BuildIfCondition => BuildInv'
<1>. SUFFICES ASSUME BuildInv, BuildIfCondition PROVE BuildInv'
  OBVIOUS
<1>. DEFINE top == agenda[1]
            branch == top.s.if_and_elifs[top.i]
            s1 == add_block(st)
            s == add_block(s1)
            then == newblock(st) + 1
            v == values[Len(values)]
<1>1. PICK item : item = [call |-> "if_body_done", s |-> top.s, i |-> top.i,
                          done |-> top.done, otherwise |-> then + 1]
  OBVIOUS
<1>2. /\ item.call = "if_body_done" /\ item.s = top.s /\ item.i = top.i
      /\ item.done = top.done /\ item.otherwise = then + 1
  BY <1>1
<1>3. PICK q : q = Body(branch.body) \o <<item>>
  OBVIOUS
<1>4. /\ Construction(function, st, agenda, values) /\ agenda # << >>
      /\ top.call = "if_condition"
      /\ function' = function /\ values' = KeptOf(values, 1) /\ agenda' = q \o Tail(agenda)
      /\ st' = add_jump(s, v, then, then + 1, then)
  BY <1>1, <1>3 DEF BuildInv, BuildIfCondition, IsNext, Top, Later, Returned, AllBut, KeptOf
<1>5. /\ function \in Functions /\ StateFits(function, st)
      /\ top.done \in InnerBlocks(st) /\ IfFits(function, top)
  BY <1>4, TopLaw DEF ItemFits
<1>6. /\ TakenCount(top) = 1 /\ TakenFor(top) = "bool" /\ LeftFor(top) = {}
      /\ Pending(top) = {top.done}
  BY <1>4 DEF TakenCount, TakenFor, LeftFor, Pending
<1>7. GoodFor(st, "bool", v)
  <2>1. PICK args : args = TakenOf(values, TakenCount(top))
    OBVIOUS
  <2>. QED  BY <1>4, <1>6, <2>1, TakenGood
<1>8. BodyOK(Trees[function], branch.body)
  BY <1>5, StatementLaw DEF IfFits, StatementOK
<1>. HIDE DEF v, branch, s1, s, top
<1>9. /\ StateFits(function, s1) /\ Continues(function, st, s1)
      /\ newblock(s1) = then /\ newblock(st) \in Nat
      /\ then \in InnerBlocks(s1)
      /\ s1.current_block = st.current_block
      /\ s1.breakstack = st.breakstack /\ s1.continuestack = st.continuestack
      /\ Unfinished(s1) \subseteq Unfinished(st) \cup {then}
  BY <1>5, NewBlock DEF s1
<1>10. /\ StateFits(function, s) /\ Continues(function, s1, s)
       /\ newblock(s) = then + 1
       /\ then + 1 \in InnerBlocks(s) /\ then \in InnerBlocks(s)
       /\ s.current_block = st.current_block
       /\ s.breakstack = st.breakstack /\ s.continuestack = st.continuestack
       /\ Unfinished(s) \subseteq Unfinished(st) \cup {then, then + 1}
  <2>1. /\ StateFits(function, s) /\ Continues(function, s1, s)
        /\ newblock(s) = newblock(s1) + 1
        /\ newblock(s) \in InnerBlocks(s) /\ InnerBlocks(s1) \subseteq InnerBlocks(s)
        /\ s.current_block = s1.current_block
        /\ s.breakstack = s1.breakstack /\ s.continuestack = s1.continuestack
        /\ Unfinished(s) \subseteq Unfinished(s1) \cup {newblock(s)}
    BY <1>9, NewBlock DEF s
  <2>2. newblock(s) = then + 1
    BY <1>9, <2>1
  <2>. HIDE DEF then
  <2>. QED  BY <1>9, <2>1, <2>2
<1>. HIDE DEF then
<1>11. Continues(function, st, s) /\ GoodFor(s, "bool", v)
  BY <1>7, <1>9, <1>10, ContinuesTransitive, GoodForStays
<1>12. Moved(function, s, st', then)
  <2>1. then \in DOMAIN s.block /\ then + 1 \in DOMAIN s.block
    BY <1>10 DEF InnerBlocks
  <2>. QED  BY <1>4, <1>10, <1>11, <2>1, AddJump DEF Decides
<1>13. /\ Continues(function, st, st') /\ st'.current_block = then
       /\ st'.breakstack = st.breakstack /\ st'.continuestack = st.continuestack
       /\ Unfinished(st') \subseteq (Unfinished(st) \cup {then, then + 1}) \ {st.current_block}
  <2>1. Continues(function, s, st')
    BY <1>12 DEF Moved
  <2>2. Continues(function, st, st')
    BY <1>11, <2>1, ContinuesTransitive
  <2>. QED  BY <1>10, <1>12, <2>2 DEF Moved
<1>14. ItemFits(function, st', item) /\ TakenCount(item) = 0 /\ LeftFor(item) = {}
       /\ Pending(item) = {then + 1, top.done}
  <2>1. top.done \in InnerBlocks(st') /\ then + 1 \in InnerBlocks(st')
    BY <1>5, <1>10, <1>12, <1>13, ContinuesKeeps DEF Moved
  <2>2. IfFits(function, item)
    BY <1>2, <1>5 DEF IfFits
  <2>. QED  BY <1>2, <2>1, <2>2 DEF ItemFits, TakenCount, LeftFor, Pending
<1>15. /\ List(q) /\ \A c \in ToSet(q) : ItemFits(function, st', c)
       /\ PendingIn(q) = {then + 1, top.done}
       /\ \A x \in Layouts : x.open => Leads(q, x, x)
  <2>1. ComesTo(function, st', q, item)
    BY <1>3, <1>8, <1>14, BodyThen
  <2>. QED  BY <1>2, <1>14, <2>1, LeavesAlone DEF ComesTo
<1>16. Construction(function, st', q \o Tail(agenda), KeptOf(values, 1))
  BY <1>4, <1>6, <1>13, <1>15, StepGoesOn DEF top
<1>. QED  BY <1>4, <1>16 DEF BuildInv
-----------------------------------------------------------------------------
\* Loops.
LEMMA LoopLaw ==
    ASSUME NEW f \in Functions, NEW s, NEW l, LoopFits(f, s, l)
    PROVE  /\ BodyOK(Trees[f], l.s.init) /\ Condition(Trees[f], l.s.cond)
           /\ BodyOK(Trees[f], l.s.incr) /\ BodyOK(Trees[f], l.s.body)
           /\ {l.cond, l.body, l.incr, l.done} \subseteq InnerBlocks(s)
<1>1. l.s \in Trees[f].statements /\ l.s.kind \in {"WHILE", "FOR"}
      /\ {l.cond, l.body, l.incr, l.done} \subseteq InnerBlocks(s)
  BY DEF LoopFits
<1>2. StatementOK(f, Trees[f], l.s)
  BY <1>1, StatementLaw
<1>. QED  BY <1>1, <1>2 DEF StatementOK

LEMMA BuildLoopKeeps == BuildInv /\ BuildLoop => BuildInv'
<1>. SUFFICES ASSUME BuildInv, BuildLoop PROVE BuildInv'
  OBVIOUS
<1>. DEFINE stmt == agenda[1].s
            n == newblock(st)
            s1 == add_block(st)
            s2 == add_block(s1)
            s3 == add_block(s2)
<1>1. PICK loop : loop = [s |-> stmt, cond |-> n + 1, body |-> n + 2, incr |-> n + 3, done |-> n + 4]
  OBVIOUS
<1>2. /\ loop.s = stmt /\ loop.cond = n + 1 /\ loop.body = n + 2
      /\ loop.incr = n + 3 /\ loop.done = n + 4
  BY <1>1
<1>3. PICK item : item = [call |-> "loop_entered", l |-> loop]
  OBVIOUS
<1>4. item.call = "loop_entered" /\ item.l = loop
  BY <1>3
<1>5. PICK q : q = Body(stmt.init) \o <<item>>
  OBVIOUS
<1>6. /\ Construction(function, st, agenda, values) /\ agenda # << >>
      /\ agenda[1].call = "build_statement" /\ stmt.kind \in {"WHILE", "FOR"}
      /\ function' = function /\ values' = values /\ st' = add_block(s3)
  BY DEF BuildInv, BuildLoop, StatementIsNext, IsNext, Top
<1>7. agenda' = q \o Tail(agenda)
  BY <1>1, <1>3, <1>5 DEF BuildLoop, Top, Later
<1>8. /\ function \in Functions /\ StateFits(function, st) /\ values \in Seq(Nat)
      /\ stmt \in Trees[function].statements
  BY <1>6, TopLaw DEF ItemFits
<1>9. TakenCount(agenda[1]) = 0 /\ LeftFor(agenda[1]) = {} /\ Pending(agenda[1]) = {}
  BY <1>6 DEF TakenCount, LeftFor, Pending
<1>10. BodyOK(Trees[function], stmt.init)
  BY <1>6, <1>8, StatementLaw DEF StatementOK
<1>. HIDE DEF stmt, s1, s2, s3, n
<1>11. /\ StateFits(function, s1) /\ Continues(function, st, s1)
       /\ newblock(s1) = n + 1 /\ n \in Nat
       /\ n + 1 \in InnerBlocks(s1)
       /\ s1.current_block = st.current_block
       /\ s1.breakstack = st.breakstack /\ s1.continuestack = st.continuestack
       /\ Unfinished(s1) \subseteq Unfinished(st) \cup {n + 1}
  <2>1. /\ StateFits(function, s1) /\ Continues(function, st, s1)
        /\ newblock(s1) = newblock(st) + 1 /\ newblock(st) \in Nat
        /\ newblock(s1) \in InnerBlocks(s1)
        /\ s1.current_block = st.current_block
        /\ s1.breakstack = st.breakstack /\ s1.continuestack = st.continuestack
        /\ Unfinished(s1) \subseteq Unfinished(st) \cup {newblock(s1)}
    BY <1>8, NewBlock DEF s1
  <2>. QED  BY <2>1 DEF n
<1>12. /\ StateFits(function, s2) /\ Continues(function, s1, s2)
       /\ newblock(s2) = n + 2
       /\ {n + 1, n + 2} \subseteq InnerBlocks(s2)
       /\ s2.current_block = st.current_block
       /\ s2.breakstack = st.breakstack /\ s2.continuestack = st.continuestack
       /\ Unfinished(s2) \subseteq Unfinished(st) \cup {n + 1, n + 2}
  <2>1. /\ StateFits(function, s2) /\ Continues(function, s1, s2)
        /\ newblock(s2) = newblock(s1) + 1
        /\ newblock(s2) \in InnerBlocks(s2) /\ InnerBlocks(s1) \subseteq InnerBlocks(s2)
        /\ s2.current_block = s1.current_block
        /\ s2.breakstack = s1.breakstack /\ s2.continuestack = s1.continuestack
        /\ Unfinished(s2) \subseteq Unfinished(s1) \cup {newblock(s2)}
    BY <1>11, NewBlock DEF s2
  <2>2. newblock(s2) = n + 2
    BY <1>11, <2>1
  <2>. QED  BY <1>11, <2>1, <2>2
<1>13. /\ StateFits(function, s3) /\ Continues(function, s2, s3)
       /\ newblock(s3) = n + 3
       /\ {n + 1, n + 2, n + 3} \subseteq InnerBlocks(s3)
       /\ s3.current_block = st.current_block
       /\ s3.breakstack = st.breakstack /\ s3.continuestack = st.continuestack
       /\ Unfinished(s3) \subseteq Unfinished(st) \cup {n + 1, n + 2, n + 3}
  <2>1. /\ StateFits(function, s3) /\ Continues(function, s2, s3)
        /\ newblock(s3) = newblock(s2) + 1
        /\ newblock(s3) \in InnerBlocks(s3) /\ InnerBlocks(s2) \subseteq InnerBlocks(s3)
        /\ s3.current_block = s2.current_block
        /\ s3.breakstack = s2.breakstack /\ s3.continuestack = s2.continuestack
        /\ Unfinished(s3) \subseteq Unfinished(s2) \cup {newblock(s3)}
    BY <1>12, NewBlock DEF s3
  <2>2. newblock(s3) = n + 3
    BY <1>11, <1>12, <2>1
  <2>. QED  BY <1>12, <2>1, <2>2
<1>14. /\ Continues(function, s3, st')
       /\ {n + 1, n + 2, n + 3, n + 4} \subseteq InnerBlocks(st')
       /\ st'.current_block = st.current_block
       /\ st'.breakstack = st.breakstack /\ st'.continuestack = st.continuestack
       /\ Unfinished(st') \subseteq Unfinished(st) \cup {n + 1, n + 2, n + 3, n + 4}
  <2>1. /\ Continues(function, s3, st')
        /\ newblock(st') = newblock(s3) + 1
        /\ newblock(st') \in InnerBlocks(st') /\ InnerBlocks(s3) \subseteq InnerBlocks(st')
        /\ st'.current_block = s3.current_block
        /\ st'.breakstack = s3.breakstack /\ st'.continuestack = s3.continuestack
        /\ Unfinished(st') \subseteq Unfinished(s3) \cup {newblock(st')}
    BY <1>6, <1>13, NewBlock
  <2>2. newblock(st') = n + 4
    BY <1>11, <1>13, <2>1
  <2>. QED  BY <1>13, <2>1, <2>2
<1>15. Continues(function, st, st')
  <2>1. Continues(function, st, s2)
    BY <1>11, <1>12, ContinuesTransitive
  <2>2. Continues(function, st, s3)
    BY <1>13, <2>1, ContinuesTransitive
  <2>. QED  BY <1>14, <2>2, ContinuesTransitive
<1>16. /\ ItemFits(function, st', item) /\ TakenCount(item) = 0 /\ LeftFor(item) = {}
       /\ Pending(item) = {n + 1, n + 2, n + 3, n + 4}
  <2>1. LoopFits(function, st', loop)
    BY <1>2, <1>6, <1>8, <1>14 DEF LoopFits
  <2>. QED  BY <1>2, <1>4, <2>1 DEF ItemFits, TakenCount, LeftFor, Pending
<1>17. ComesTo(function, st', q, item)
  BY <1>5, <1>10, <1>16, BodyThen
<1>18. \A x \in Layouts : x.open => Leads(q, x, x)
  BY <1>4, <1>16, <1>17, LeavesAlone DEF ComesTo
<1>19. Construction(function, st', q \o Tail(agenda), KeptOf(values, 0))
  BY <1>6, <1>9, <1>14, <1>15, <1>16, <1>17, <1>18, StepGoesOn DEF ComesTo
<1>. QED  BY <1>6, <1>7, <1>8, <1>19, KeptNone DEF BuildInv

LEMMA BuildLoopEnteredKeeps == BuildInv /\ BuildLoopEntered => BuildInv'
<1>. SUFFICES ASSUME BuildInv, BuildLoopEntered PROVE BuildInv'
  OBVIOUS
<1>. DEFINE l == agenda[1].l
            e == l.s.cond
<1>1. PICK call, item : call = Evaluate(e) /\ item = [call |-> "loop_condition", l |-> l]
  OBVIOUS
<1>2. item.call = "loop_condition" /\ item.l = l
  BY <1>1
<1>3. PICK q : q = <<call, item>>
  OBVIOUS
<1>4. /\ Construction(function, st, agenda, values) /\ agenda # << >>
      /\ agenda[1].call = "loop_entered"
      /\ function' = function /\ values' = values /\ st' = Goto(st, l.cond, l.cond)
  BY DEF BuildInv, BuildLoopEntered, IsNext, Top
<1>5. agenda' = q \o Tail(agenda)
  BY <1>1, <1>3 DEF BuildLoopEntered, Top, Later
<1>6. /\ function \in Functions /\ StateFits(function, st) /\ values \in Seq(Nat)
      /\ LoopFits(function, st, l)
  BY <1>4, TopLaw DEF ItemFits
<1>7. /\ TakenCount(agenda[1]) = 0 /\ LeftFor(agenda[1]) = {}
      /\ Pending(agenda[1]) = {l.cond, l.body, l.incr, l.done}
  BY <1>4 DEF TakenCount, LeftFor, Pending
<1>8. Condition(Trees[function], e) /\ {l.cond, l.body, l.incr, l.done} \subseteq InnerBlocks(st)
  BY <1>6, LoopLaw
<1>. HIDE DEF l, e
<1>9. Moved(function, st, st', l.cond)
  BY <1>4, <1>6, <1>8, GotoLaw
<1>10. ItemFits(function, st', call) /\ Pushes(call, "bool") /\ Pending(call) = {}
  BY <1>1, <1>8, EvaluateLaw DEF Condition, Value
<1>11. /\ ItemFits(function, st', item) /\ LeftFor(item) = {}
       /\ TakenCount(item) = 1 /\ TakenFor(item) = "bool"
       /\ Pending(item) = {l.body, l.incr, l.done}
  <2>1. LoopFits(function, st', l)
    BY <1>6, <1>9 DEF LoopFits, Moved
  <2>. QED  BY <1>2, <2>1 DEF ItemFits, TakenCount, TakenFor, LeftFor, Pending
<1>12. List(q) /\ ToSet(q) = {call, item}
  BY <1>3, ShortLists
<1>13. PendingIn(q) = {l.body, l.incr, l.done}
  BY <1>10, <1>11, <1>12 DEF PendingIn
<1>14. ASSUME NEW x \in Layouts, x.open PROVE Leads(q, x, x)
  <2>1. Leaves(item, x, x)
    BY <1>2, <1>11, <1>14, LeavesAlone
  <2>2. Leads(<<call, item>>, x, x)
    BY <1>10, <1>11, <1>14, <2>1, CallThenResult DEF Uses
  <2>. QED  BY <1>3, <2>2
<1>15. \A c \in ToSet(q) : ItemFits(function, st', c)
  BY <1>10, <1>11, <1>12
<1>16. /\ Continues(function, st, st') /\ st'.current_block = l.cond
       /\ st'.breakstack = st.breakstack /\ st'.continuestack = st.continuestack
       /\ Unfinished(st') \subseteq PendingIn(q) \cup {st'.current_block}
                \cup (Unfinished(st) \ ({st.current_block} \cup Pending(agenda[1])))
  BY <1>7, <1>9, <1>13 DEF Moved
<1>17. Construction(function, st', q \o Tail(agenda), KeptOf(values, 0))
  BY <1>4, <1>7, <1>12, <1>14, <1>15, <1>16, StepGoesOn
<1>. QED  BY <1>4, <1>5, <1>6, <1>17, KeptNone DEF BuildInv

LEMMA BuildLoopConditionKeeps == BuildInv /\ BuildLoopCondition => BuildInv'
<1>. SUFFICES ASSUME BuildInv, BuildLoopCondition PROVE BuildInv'
  OBVIOUS
<1>. DEFINE l == agenda[1].l
            v == values[Len(values)]
            u == add_jump(st, v, l.body, l.done, l.body)
<1>1. PICK item : item = [call |-> "loop_body_done", l |-> l]
  OBVIOUS
<1>2. item.call = "loop_body_done" /\ item.l = l
  BY <1>1
<1>3. PICK q : q = Body(l.s.body) \o <<item>>
  OBVIOUS
<1>4. /\ Construction(function, st, agenda, values) /\ agenda # << >>
      /\ agenda[1].call = "loop_condition"
      /\ function' = function /\ values' = KeptOf(values, 1)
      /\ st' = [u EXCEPT !.breakstack = Append(@, l.done), !.continuestack = Append(@, l.incr)]
  BY DEF BuildInv, BuildLoopCondition, IsNext, Top, Returned, AllBut, KeptOf
<1>5. agenda' = q \o Tail(agenda)
  BY <1>1, <1>3 DEF BuildLoopCondition, Top, Later
<1>6. /\ function \in Functions /\ StateFits(function, st) /\ values \in Seq(Nat)
      /\ LoopFits(function, st, l)
  BY <1>4, TopLaw DEF ItemFits
<1>7. /\ TakenCount(agenda[1]) = 1 /\ TakenFor(agenda[1]) = "bool" /\ LeftFor(agenda[1]) = {}
      /\ Pending(agenda[1]) = {l.body, l.incr, l.done}
  BY <1>4 DEF TakenCount, TakenFor, LeftFor, Pending
<1>8. BodyOK(Trees[function], l.s.body) /\ {l.cond, l.body, l.incr, l.done} \subseteq InnerBlocks(st)
  BY <1>6, LoopLaw
<1>9. GoodFor(st, "bool", v)
  <2>1. PICK args : args = TakenOf(values, TakenCount(agenda[1]))
    OBVIOUS
  <2>. QED  BY <1>4, <1>7, <2>1, TakenGood
<1>. HIDE DEF l, v
<1>10. Moved(function, st, u, l.body)
  <2>1. l.body \in DOMAIN st.block /\ l.done \in DOMAIN st.block
    BY <1>8 DEF InnerBlocks
  <2>. QED  BY <1>6, <1>8, <1>9, <2>1, AddJump DEF Decides
<1>. HIDE DEF u
<1>11. /\ StateFits(function, u) /\ u.current_block \in InnerBlocks(u)
       /\ u.breakstack \in Seq(InnerBlocks(u)) /\ u.continuestack \in Seq(InnerBlocks(u))
       /\ InnerBlocks(u) = InnerBlocks(st)
       /\ u.breakstack = st.breakstack /\ u.continuestack = st.continuestack
  BY <1>10 DEF Moved, Continues, StateFits
<1>12. /\ DOMAIN st' = DOMAIN u /\ st'.block = u.block /\ st'.variables = u.variables
       /\ st'.current_block = u.current_block
       /\ st'.breakstack = Append(u.breakstack, l.done)
       /\ st'.continuestack = Append(u.continuestack, l.incr)
  BY <1>4, <1>11 DEF StateFits
<1>13. /\ st'.breakstack \in Seq(InnerBlocks(u)) /\ st'.continuestack \in Seq(InnerBlocks(u))
       /\ Len(st'.breakstack) = Len(u.breakstack) + 1
       /\ Len(st'.continuestack) = Len(u.continuestack) + 1
  BY <1>8, <1>11, <1>12
<1>14. /\ Continues(function, u, st') /\ InnerBlocks(st') = InnerBlocks(u)
       /\ Unfinished(st') = Unfinished(u)
  BY <1>11, <1>12, <1>13, Reframe
<1>15. /\ Continues(function, st, st')
       /\ Unfinished(st') \subseteq Unfinished(st) \ {st.current_block}
       /\ st'.current_block = l.body
  BY <1>10, <1>12, <1>14, ContinuesTransitive DEF Moved
<1>16. /\ ItemFits(function, st', item) /\ TakenCount(item) = 0 /\ LeftFor(item) = {}
       /\ Pending(item) = {l.incr, l.done}
  <2>1. LoopFits(function, st', l)
    BY <1>6, <1>11, <1>14 DEF LoopFits
  <2>. QED  BY <1>2, <2>1 DEF ItemFits, TakenCount, LeftFor, Pending
<1>17. ComesTo(function, st', q, item)
  BY <1>3, <1>8, <1>16, BodyThen
<1>18. ASSUME NEW x \in Layouts, NEW m \in Layouts, Fits(st, values, x), Effect(agenda[1], x, m)
       PROVE  /\ KeptOf(values, 1) \in Seq(Nat)
              /\ \E w \in Layouts : Fits(st', KeptOf(values, 1), w) /\ Leads(q, w, m) /\ w.open
  <2>1. StateFits(function, st) /\ Continues(function, st, st)
    BY <1>6, StraightReflexive DEF Straight
  <2>. DEFINE y == Without(x, 1)
  <2>2. KeptOf(values, 1) \in Seq(Nat) /\ y \in Layouts /\ Fits(st, KeptOf(values, 1), y)
    BY <1>6, <1>7, <1>18, <2>1, ValuesLaw
  <2>3. y.open /\ Leaves(agenda[1], y, m)
    BY <1>7, <1>18 DEF Effect, Without
  <2>. HIDE DEF y
  <2>4. m = y
    BY <1>4, <1>7, <2>2, <2>3, LeavesAlone
  <2>. DEFINE w == [uses |-> y.uses, loops |-> y.loops + 1, open |-> TRUE]
  <2>5. w \in Layouts /\ w.uses = y.uses /\ w.loops = y.loops + 1 /\ w.open
    BY <2>2 DEF Layouts
  <2>. HIDE DEF w
  <2>6. Leaves(item, w, m)
    BY <1>2, <1>16, <2>3, <2>4, <2>5 DEF Leaves
  <2>7. Leads(q, w, m)
    BY <1>17, <2>5, <2>6 DEF ComesTo
  <2>8. Fits(st', KeptOf(values, 1), w)
    BY <1>11, <1>13, <1>15, <2>2, <2>5, GoodForStays DEF Fits
  <2>. QED  BY <2>2, <2>5, <2>7, <2>8
<1>19. KeptOf(values, 1) \in Seq(Nat)
  <2>1. PICK x \in Layouts : Fits(st, values, x) /\ Leads(agenda, x, EndLayout)
    BY <1>4 DEF Construction
  <2>2. PICK m \in Layouts : Effect(agenda[1], x, m)
    BY <1>4, <2>1, TopLaw, LeadsFirst
  <2>. QED  BY <1>18, <2>1, <2>2
<1>20. Unfinished(st') \subseteq PendingIn(q) \cup {st'.current_block}
            \cup (Unfinished(st) \ ({st.current_block} \cup Pending(agenda[1])))
  BY <1>7, <1>15, <1>16, <1>17 DEF ComesTo
<1>21. \A x, m \in Layouts : Fits(st, values, x) /\ Effect(agenda[1], x, m) =>
        \E w \in Layouts :
            /\ Fits(st', KeptOf(values, 1), w) /\ Leads(q, w, m)
            /\ Unfinished(st') \subseteq
                    PendingIn(q) \cup (IF w.open THEN {st'.current_block} ELSE {})
                        \cup (Unfinished(st) \ ({st.current_block} \cup Pending(agenda[1])))
  <2>. SUFFICES ASSUME NEW x \in Layouts, NEW m \in Layouts,
                       Fits(st, values, x), Effect(agenda[1], x, m)
                PROVE  \E w \in Layouts :
            /\ Fits(st', KeptOf(values, 1), w) /\ Leads(q, w, m)
            /\ Unfinished(st') \subseteq
                    PendingIn(q) \cup (IF w.open THEN {st'.current_block} ELSE {})
                        \cup (Unfinished(st) \ ({st.current_block} \cup Pending(agenda[1])))
    OBVIOUS
  <2>1. PICK w \in Layouts : Fits(st', KeptOf(values, 1), w) /\ Leads(q, w, m) /\ w.open
    BY <1>18
  <2>2. {st'.current_block} = IF w.open THEN {st'.current_block} ELSE {}
    BY <2>1
  <2>. QED  BY <1>20, <2>1, <2>2
<1>22. Construction(function, st', q \o Tail(agenda), KeptOf(values, 1))
  BY <1>4, <1>15, <1>16, <1>17, <1>19, <1>21, StepKeeps DEF ComesTo
<1>. QED  BY <1>4, <1>5, <1>22 DEF BuildInv

LEMMA BuildLoopBodyDoneKeeps == BuildInv /\ BuildLoopBodyDone => BuildInv'
<1>. SUFFICES ASSUME BuildInv, BuildLoopBodyDone PROVE BuildInv'
  OBVIOUS
<1>. DEFINE l == agenda[1].l
            u == Goto(st, l.incr, l.incr)
<1>1. PICK item : item = [call |-> "loop_repeat", l |-> l]
  OBVIOUS
<1>2. item.call = "loop_repeat" /\ item.l = l
  BY <1>1
<1>3. PICK q : q = Body(l.s.incr) \o <<item>>
  OBVIOUS
<1>4. /\ Construction(function, st, agenda, values) /\ agenda # << >>
      /\ agenda[1].call = "loop_body_done"
      /\ function' = function /\ values' = values
      /\ st' = [u EXCEPT !.breakstack = WithoutLast(@), !.continuestack = WithoutLast(@)]
  BY DEF BuildInv, BuildLoopBodyDone, IsNext, Top
<1>5. agenda' = q \o Tail(agenda)
  BY <1>1, <1>3 DEF BuildLoopBodyDone, Top, Later
<1>6. /\ function \in Functions /\ StateFits(function, st) /\ values \in Seq(Nat)
      /\ LoopFits(function, st, l)
  BY <1>4, TopLaw DEF ItemFits
<1>7. /\ TakenCount(agenda[1]) = 0 /\ LeftFor(agenda[1]) = {}
      /\ Pending(agenda[1]) = {l.incr, l.done}
  BY <1>4 DEF TakenCount, LeftFor, Pending
<1>8. BodyOK(Trees[function], l.s.incr) /\ {l.cond, l.body, l.incr, l.done} \subseteq InnerBlocks(st)
  BY <1>6, LoopLaw
<1>9. Len(st.breakstack) > 0 /\ Len(st.continuestack) > 0
  <2>1. PICK args : args = TakenOf(values, TakenCount(agenda[1]))
    OBVIOUS
  <2>. QED  BY <1>4, <2>1, TakenGood
<1>. HIDE DEF l
<1>10. Moved(function, st, u, l.incr)
  BY <1>6, <1>8, GotoLaw
<1>. HIDE DEF u
<1>11. /\ StateFits(function, u) /\ u.current_block \in InnerBlocks(u)
       /\ u.breakstack \in Seq(InnerBlocks(u)) /\ u.continuestack \in Seq(InnerBlocks(u))
       /\ InnerBlocks(u) = InnerBlocks(st)
       /\ u.breakstack = st.breakstack /\ u.continuestack = st.continuestack
  BY <1>10 DEF Moved, Continues, StateFits
<1>12. /\ DOMAIN st' = DOMAIN u /\ st'.block = u.block /\ st'.variables = u.variables
       /\ st'.current_block = u.current_block
       /\ st'.breakstack = WithoutLast(u.breakstack)
       /\ st'.continuestack = WithoutLast(u.continuestack)
  BY <1>4, <1>11 DEF StateFits
<1>13. /\ st'.breakstack \in Seq(InnerBlocks(u)) /\ st'.continuestack \in Seq(InnerBlocks(u))
       /\ Len(st'.breakstack) = Len(u.breakstack) - 1
       /\ Len(st'.continuestack) = Len(u.continuestack) - 1
  BY <1>9, <1>11, <1>12, DropSome DEF WithoutLast
<1>14. /\ Continues(function, u, st') /\ InnerBlocks(st') = InnerBlocks(u)
       /\ Unfinished(st') = Unfinished(u)
  BY <1>11, <1>12, <1>13, Reframe
<1>15. /\ Continues(function, st, st')
       /\ Unfinished(st') \subseteq Unfinished(st) \ {st.current_block}
       /\ st'.current_block = l.incr
  BY <1>10, <1>12, <1>14, ContinuesTransitive DEF Moved
<1>16. /\ ItemFits(function, st', item) /\ TakenCount(item) = 0 /\ LeftFor(item) = {}
       /\ Pending(item) = {l.done}
  <2>1. LoopFits(function, st', l)
    BY <1>6, <1>11, <1>14 DEF LoopFits
  <2>. QED  BY <1>2, <2>1 DEF ItemFits, TakenCount, LeftFor, Pending
<1>17. ComesTo(function, st', q, item)
  BY <1>3, <1>8, <1>16, BodyThen
<1>18. ASSUME NEW x \in Layouts, NEW m \in Layouts, Fits(st, values, x), Effect(agenda[1], x, m)
       PROVE  Fits(st', values, m) /\ Leads(q, m, m) /\ m.open
  <2>1. Leaves(agenda[1], x, m)
    BY <1>7, <1>18, WithoutNone DEF Effect
  <2>2. m.uses = x.uses /\ x.loops = m.loops + 1 /\ m.open /\ m.loops \in Nat /\ x.loops \in Nat
    BY <1>4, <1>7, <2>1 DEF Leaves, Layouts
  <2>3. Leaves(item, m, m)
    BY <1>2, <1>16, <2>2, LeavesAlone
  <2>4. Leads(q, m, m)
    BY <1>17, <2>2, <2>3 DEF ComesTo
  <2>5. Len(st'.breakstack) = m.loops /\ Len(st'.continuestack) = m.loops
    BY <1>11, <1>13, <1>18, <2>2 DEF Fits
  <2>6. Fits(st', values, m)
    BY <1>15, <1>18, <2>2, <2>5, GoodForStays DEF Fits
  <2>. QED  BY <2>2, <2>4, <2>6
<1>19. Unfinished(st') \subseteq PendingIn(q) \cup {st'.current_block}
            \cup (Unfinished(st) \ ({st.current_block} \cup Pending(agenda[1])))
  BY <1>7, <1>15, <1>16, <1>17 DEF ComesTo
<1>20. \A x, m \in Layouts : Fits(st, values, x) /\ Effect(agenda[1], x, m) =>
        \E w \in Layouts :
            /\ Fits(st', values, w) /\ Leads(q, w, m)
            /\ Unfinished(st') \subseteq
                    PendingIn(q) \cup (IF w.open THEN {st'.current_block} ELSE {})
                        \cup (Unfinished(st) \ ({st.current_block} \cup Pending(agenda[1])))
  <2>. SUFFICES ASSUME NEW x \in Layouts, NEW m \in Layouts,
                       Fits(st, values, x), Effect(agenda[1], x, m)
                PROVE  \E w \in Layouts :
            /\ Fits(st', values, w) /\ Leads(q, w, m)
            /\ Unfinished(st') \subseteq
                    PendingIn(q) \cup (IF w.open THEN {st'.current_block} ELSE {})
                        \cup (Unfinished(st) \ ({st.current_block} \cup Pending(agenda[1])))
    OBVIOUS
  <2>1. Fits(st', values, m) /\ Leads(q, m, m) /\ m.open
    BY <1>18
  <2>2. {st'.current_block} = IF m.open THEN {st'.current_block} ELSE {}
    BY <2>1
  <2>. QED  BY <1>19, <2>1, <2>2
<1>21. Construction(function, st', q \o Tail(agenda), values)
  BY <1>4, <1>6, <1>15, <1>16, <1>17, <1>20, StepKeeps DEF ComesTo
<1>. QED  BY <1>4, <1>5, <1>21 DEF BuildInv
-----------------------------------------------------------------------------
\* And and or.
LEMMA SidesLaw ==
    ASSUME NEW f \in Functions, NEW e \in Trees[f].expressions, e.kind \in {"AND", "OR"}
    PROVE  /\ Condition(Trees[f], e.operands[1]) /\ e.operands[1] \in Trees[f].expressions
           /\ Condition(Trees[f], e.operands[2]) /\ e.operands[2] \in Trees[f].expressions
<1>1. /\ e.operands \in Seq(Trees[f].expressions) /\ Len(e.operands) = 2
      /\ \A i \in DOMAIN e.operands : Condition(Trees[f], e.operands[i])
  BY ExpressionLaw DEF ExpressionOK, BinaryKinds
<1>2. 1 \in DOMAIN e.operands /\ 2 \in DOMAIN e.operands
  BY <1>1
<1>. QED  BY <1>1, <1>2

LEMMA BuildAndOrKeeps == BuildInv /\ BuildAndOr => BuildInv'
<1>. SUFFICES ASSUME BuildInv, BuildAndOr PROVE BuildInv'
  OBVIOUS
<1>. DEFINE e == agenda[1].e
<1>1. PICK call, item : call = Evaluate(e.operands[1]) /\ item = [call |-> "lhs_evaluated", e |-> e]
  OBVIOUS
<1>2. item.call = "lhs_evaluated" /\ item.e = e
  BY <1>1
<1>3. PICK calls : calls = <<call>>
  OBVIOUS
<1>4. /\ Construction(function, st, agenda, values) /\ agenda # << >>
      /\ agenda[1].call = "build_expression" /\ e.kind \in {"AND", "OR"}
      /\ function' = function /\ st' = st /\ values' = values
  BY DEF BuildInv, BuildAndOr, IsNext, Top
<1>5. agenda' = (calls \o <<item>>) \o Tail(agenda)
  <2>1. agenda' = <<call, item>> \o Tail(agenda)
    BY <1>1 DEF BuildAndOr, Top, Later
  <2>. QED  BY <1>3, <2>1, TwoLists
<1>6. function \in Functions /\ e \in Trees[function].expressions
  BY <1>4, TopLaw DEF ItemFits
<1>7. Plain(agenda[1]) /\ Pending(agenda[1]) = {} /\ LeftFor(agenda[1]) = UsesOf(e)
  BY <1>4 DEF Plain, TakenCount, Pending, LeftFor
<1>. HIDE DEF e
<1>8. Condition(Trees[function], e.operands[1]) /\ e.operands[1] \in Trees[function].expressions
  BY <1>4, <1>6, SidesLaw
<1>9. ItemFits(function, st, call) /\ Pushes(call, "bool") /\ Pending(call) = {}
  BY <1>1, <1>8, EvaluateLaw
<1>10. List(calls) /\ ToSet(calls) = {call} /\ Len(calls) = 1
  BY <1>3, ShortLists
<1>11. /\ ItemFits(function, st, item) /\ Pending(item) = {} /\ TakenFor(item) = "bool"
       /\ TakenCount(item) = 1 /\ LeftFor(item) = UsesOf(e)
  BY <1>2, <1>4, <1>6 DEF ItemFits, Pending, TakenFor, TakenCount, LeftFor
<1>12. Construction(function, st, (calls \o <<item>>) \o Tail(agenda), values)
  BY <1>2, <1>4, <1>7, <1>9, <1>10, <1>11, CallsMade
<1>. QED  BY <1>4, <1>5, <1>12 DEF BuildInv

LEMMA ShortCircuitLaw ==
    ASSUME NEW f, NEW s, StateFits(f, s), NEW e, e.operands[1].line \in Nat,
           NEW value, NEW result \in VariablesIn(s), NEW t, t = ShortCircuit(s, e, value, result)
    PROVE  Straight(f, s, t)
<1>1. PICK ins : ins = Instruction("CONSTANT", value, << >>, result, e.operands[1].line, TRUE)
  OBVIOUS
<1>2. /\ ins.kind = "CONSTANT" /\ ins.operands = << >> /\ ins.destvar = result
      /\ ins.line = e.operands[1].line /\ t = add_instruction(s, ins)
  BY <1>1 DEF Instruction, ShortCircuit
<1>3. InstructionFits(s, ins) /\ ins.kind # "ADDRESS_OF_VARIABLE"
  BY <1>2 DEF InstructionFits
<1>. QED  BY <1>2, <1>3, AddPlainInstruction

\* The left side decides between two new blocks; the result is a new variable.
BranchOf(f, s, u, lhs, result, lhstrue, lhsfalse, done) ==
    /\ Continues(f, s, u) /\ u.current_block = lhstrue
    /\ u.breakstack = s.breakstack /\ u.continuestack = s.continuestack
    /\ result \in VariablesIn(u) /\ TypeOf(u, result) = boolType
    /\ {lhstrue, lhsfalse, done} \subseteq InnerBlocks(u)
    /\ Unfinished(u) \subseteq (Unfinished(s) \ {s.current_block}) \cup {lhstrue, lhsfalse, done}

LEMMA BranchLaw ==
    ASSUME NEW f, NEW s, StateFits(f, s), NEW lhs, GoodFor(s, "bool", lhs),
           NEW w, w = add_block(add_block(add_block(add_variable(s, boolType)))),
           NEW n, n = newblock(s),
           NEW u, u = add_jump(w, lhs, n + 1, n + 2, n + 1)
    PROVE  newest(w) = newest(s) + 1 /\ BranchOf(f, s, u, lhs, newest(s) + 1, n + 1, n + 2, n + 3)
<1>. DEFINE s0 == add_variable(s, boolType)
            s1 == add_block(s0)
            s2 == add_block(s1)
<1>1. /\ Straight(f, s, s0) /\ s0.block = s.block
      /\ newest(s0) = newest(s) + 1 /\ newest(s) + 1 \in VariablesIn(s0)
      /\ TypeOf(s0, newest(s) + 1) = boolType
  BY NewVariable
<1>2. w = add_block(s2)
  OBVIOUS
<1>. DEFINE r == newest(s) + 1
<1>. HIDE DEF s0, s1, s2, r
<1>3. /\ StateFits(f, s0) /\ Continues(f, s, s0) /\ Unfinished(s0) \subseteq Unfinished(s)
      /\ s0.current_block = s.current_block /\ s.current_block \in InnerBlocks(s)
      /\ s0.breakstack = s.breakstack /\ s0.continuestack = s.continuestack
      /\ newblock(s0) = n
  BY <1>1, StraightFinishes DEF Straight, Continues, newblock, StateFits
<1>4. /\ StateFits(f, s1) /\ Continues(f, s0, s1)
      /\ newblock(s1) = n + 1 /\ n \in Nat
      /\ newblock(s1) \in InnerBlocks(s1) /\ InnerBlocks(s0) \subseteq InnerBlocks(s1)
      /\ s1.current_block = s.current_block
      /\ s1.breakstack = s.breakstack /\ s1.continuestack = s.continuestack
      /\ Unfinished(s1) \subseteq Unfinished(s) \cup {newblock(s1)}
  <2>1. /\ StateFits(f, s1) /\ Continues(f, s0, s1)
        /\ newblock(s1) = newblock(s0) + 1 /\ newblock(s0) \in Nat
        /\ newblock(s1) \in InnerBlocks(s1) /\ InnerBlocks(s0) \subseteq InnerBlocks(s1)
        /\ s1.current_block = s0.current_block
        /\ s1.breakstack = s0.breakstack /\ s1.continuestack = s0.continuestack
        /\ Unfinished(s1) \subseteq Unfinished(s0) \cup {newblock(s1)}
    BY <1>3, NewBlock DEF s1
  <2>. QED  BY <1>3, <2>1
<1>5. /\ StateFits(f, s2) /\ Continues(f, s1, s2)
      /\ newblock(s2) = n + 2
      /\ {n + 1, n + 2} \subseteq InnerBlocks(s2)
      /\ s2.current_block = s.current_block
      /\ s2.breakstack = s.breakstack /\ s2.continuestack = s.continuestack
      /\ Unfinished(s2) \subseteq Unfinished(s) \cup {n + 1, n + 2}
  <2>1. /\ StateFits(f, s2) /\ Continues(f, s1, s2)
        /\ newblock(s2) = newblock(s1) + 1
        /\ newblock(s2) \in InnerBlocks(s2) /\ InnerBlocks(s1) \subseteq InnerBlocks(s2)
        /\ s2.current_block = s1.current_block
        /\ s2.breakstack = s1.breakstack /\ s2.continuestack = s1.continuestack
        /\ Unfinished(s2) \subseteq Unfinished(s1) \cup {newblock(s2)}
    BY <1>4, NewBlock DEF s2
  <2>2. newblock(s2) = n + 2
    BY <1>4, <2>1
  <2>. QED  BY <1>4, <2>1, <2>2
<1>6. /\ StateFits(f, w) /\ Continues(f, s2, w)
      /\ {n + 1, n + 2, n + 3} \subseteq InnerBlocks(w)
      /\ w.current_block = s.current_block
      /\ w.breakstack = s.breakstack /\ w.continuestack = s.continuestack
      /\ Unfinished(w) \subseteq Unfinished(s) \cup {n + 1, n + 2, n + 3}
  <2>1. /\ StateFits(f, w) /\ Continues(f, s2, w)
        /\ newblock(w) = newblock(s2) + 1
        /\ newblock(w) \in InnerBlocks(w) /\ InnerBlocks(s2) \subseteq InnerBlocks(w)
        /\ w.current_block = s2.current_block
        /\ w.breakstack = s2.breakstack /\ w.continuestack = s2.continuestack
        /\ Unfinished(w) \subseteq Unfinished(s2) \cup {newblock(w)}
    BY <1>2, <1>5, NewBlock
  <2>2. newblock(w) = n + 3
    BY <1>4, <1>5, <2>1
  <2>. QED  BY <1>5, <2>1, <2>2
<1>7. Continues(f, s0, w)
  BY <1>4, <1>5, <1>6, ContinuesTransitive
<1>8. Continues(f, s, w)
  BY <1>3, <1>7, ContinuesTransitive
<1>9. newest(w) = newest(s0)
  <2>1. s1.variables = s0.variables /\ s2.variables = s1.variables /\ w.variables = s2.variables
    BY <1>2, <1>3, <1>4, <1>5, AddBlock DEF s1, s2
  <2>. QED  BY <2>1 DEF newest
<1>10. GoodFor(w, "bool", lhs)
  BY <1>8, GoodForStays
<1>11. Moved(f, w, u, n + 1)
  <2>1. n + 1 \in DOMAIN w.block /\ n + 2 \in DOMAIN w.block /\ n + 1 \in InnerBlocks(w)
    BY <1>6 DEF InnerBlocks
  <2>2. PICK i, j : i = n + 1 /\ j = n + 2
    OBVIOUS
  <2>3. Decides(w, lhs, i, j)
    BY <1>10 DEF Decides
  <2>4. u = add_jump(w, lhs, i, j, i) /\ i \in DOMAIN w.block /\ j \in DOMAIN w.block /\ i \in InnerBlocks(w)
    BY <2>1, <2>2
  <2>5. Moved(f, w, u, i)
    BY <1>6, <2>3, <2>4, AddJump
  <2>. QED  BY <2>2, <2>5
<1>12. Continues(f, s, u) /\ Continues(f, s0, u)
  BY <1>7, <1>8, <1>11, ContinuesTransitive DEF Moved
<1>13. r \in VariablesIn(u) /\ TypeOf(u, r) = boolType
  BY <1>1, <1>12, ContinuesKeeps DEF r
<1>. QED  BY <1>1, <1>6, <1>9, <1>11, <1>12, <1>13 DEF BranchOf, Moved, r

\* The right side and what comes after it.
LEMMA RightSideLaw ==
    ASSUME NEW f \in Functions, NEW s, NEW c, AndOrFits(f, s, c), NEW call, call = Evaluate(c.e.operands[2]),
           NEW item, item.call = "rhs_evaluated", item.c = c,
           NEW last, ItemFits(f, s, last), TakenCount(last) = 0,
           NEW q, q = <<call, item>> \o <<last>>
    PROVE  ComesTo(f, s, q, last)
<1>1. c.e \in Trees[f].expressions /\ c.e.kind \in {"AND", "OR"}
  BY DEF AndOrFits
<1>2. Condition(Trees[f], c.e.operands[2]) /\ c.e.operands[2] \in Trees[f].expressions
  BY <1>1, SidesLaw
<1>3. ItemFits(f, s, call) /\ Pushes(call, "value") /\ Pending(call) = {}
  BY <1>2, EvaluateLaw DEF Condition
<1>4. /\ ItemFits(f, s, item) /\ Pending(item) = {} /\ LeftFor(item) = {}
      /\ TakenCount(item) = 1 /\ TakenFor(item) = "value"
  BY DEF ItemFits, Pending, LeftFor, TakenCount, TakenFor
<1>5. PICK first, lasts : first = <<call, item>> /\ lasts = <<last>>
  OBVIOUS
<1>6. List(first) /\ ToSet(first) = {call, item} /\ List(lasts) /\ ToSet(lasts) = {last} /\ q = first \o lasts
  BY <1>5, ShortLists
<1>7. List(q) /\ ToSet(q) = {call, item, last}
  <2>1. List(first \o lasts) /\ ToSet(first \o lasts) = ToSet(first) \cup ToSet(lasts)
    BY <1>6, ConcatList
  <2>. QED  BY <1>6, <2>1
<1>8. PendingIn(q) = Pending(last)
  BY <1>3, <1>4, <1>7 DEF PendingIn
<1>9. ASSUME NEW x \in Layouts, NEW m \in Layouts, x.open, Leaves(last, x, m) PROVE Leads(q, x, m)
  <2>1. Leaves(item, x, x)
    BY <1>4, <1>9, LeavesAlone
  <2>2. Leads(first, x, x)
    BY <1>3, <1>4, <1>5, <1>9, <2>1, CallThenResult DEF Uses
  <2>3. Effect(last, x, m)
    BY <1>9, WithoutNone DEF Effect, Layouts
  <2>4. Leads(lasts, x, m)
    BY <1>5, <1>9, <2>3, LeadsOne
  <2>. QED  BY <1>6, <2>2, <2>4, LeadsConcat
<1>10. \A x, m \in Layouts : x.open /\ Leaves(last, x, m) => Leads(q, x, m)
  BY <1>9
<1>11. \A i \in ToSet(q) : ItemFits(f, s, i)
  BY <1>3, <1>4, <1>7
<1>. QED  BY <1>7, <1>8, <1>10, <1>11 DEF ComesTo

LEMMA BuildAndOrBranchKeeps == BuildInv /\ BuildAndOrBranch => BuildInv'
<1>. SUFFICES ASSUME BuildInv, BuildAndOrBranch PROVE BuildInv'
  OBVIOUS
<1>. DEFINE e == agenda[1].e
            n == newblock(st)
            w == add_block(add_block(add_block(add_variable(st, boolType))))
            lhs == values[Len(values)]
            u == add_jump(w, lhs, n + 1, n + 2, n + 1)
            name == IF e.kind = "AND" THEN "lhsfalse" ELSE "and_or_done"
<1>1. PICK c : c = [e |-> e, result |-> newest(w), lhsfalse |-> n + 2, done |-> n + 3]
  OBVIOUS
<1>2. c.e = e /\ c.result = newest(w) /\ c.lhsfalse = n + 2 /\ c.done = n + 3
  BY <1>1
<1>3. PICK call, item, last : /\ call = Evaluate(e.operands[2])
                              /\ item = [call |-> "rhs_evaluated", c |-> c]
                              /\ last = [call |-> name, c |-> c]
  OBVIOUS
<1>4. item.call = "rhs_evaluated" /\ item.c = c /\ last.call = name /\ last.c = c
  BY <1>3
<1>5. PICK q : q = <<call, item>> \o <<last>>
  OBVIOUS
<1>6. /\ Construction(function, st, agenda, values) /\ agenda # << >>
      /\ agenda[1].call = "lhs_evaluated"
      /\ function' = function /\ values' = KeptOf(values, 1)
  BY DEF BuildInv, BuildAndOrBranch, IsNext, Top, AllBut, KeptOf
<1>7. /\ function \in Functions /\ StateFits(function, st) /\ values \in Seq(Nat)
      /\ e \in Trees[function].expressions /\ e.kind \in {"AND", "OR"}
  BY <1>6, TopLaw DEF ItemFits
<1>8. n \in Nat /\ (n + 1) + 1 = n + 2 /\ (n + 1) + 2 = n + 3
  <2>1. n \in Nat
    BY <1>7, Lengths DEF newblock
  <2>. QED  BY <2>1
<1>9. agenda' = q \o Tail(agenda)
  <2>1. CASE e.kind = "AND"
    BY <1>1, <1>3, <1>5, <1>8, <2>1 DEF BuildAndOrBranch, Top, Later
  <2>2. CASE e.kind # "AND"
    BY <1>1, <1>3, <1>5, <1>8, <2>2 DEF BuildAndOrBranch, Top, Later
  <2>. QED  BY <2>1, <2>2
<1>10. IF e.kind = "AND" THEN st' = u
       ELSE st' = Goto(ShortCircuit(u, e, "TRUE", c.result), c.done, c.lhsfalse)
  BY <1>1, <1>8 DEF BuildAndOrBranch, Top, Returned
<1>11. /\ TakenCount(agenda[1]) = 1 /\ TakenFor(agenda[1]) = "bool" /\ LeftFor(agenda[1]) = UsesOf(e)
       /\ Pending(agenda[1]) = {}
  BY <1>6 DEF TakenCount, TakenFor, LeftFor, Pending
<1>12. GoodFor(st, "bool", lhs)
  <2>1. PICK args : args = TakenOf(values, TakenCount(agenda[1]))
    OBVIOUS
  <2>. QED  BY <1>6, <1>11, <2>1, TakenGood
<1>13. /\ (e.kind = "AND" => last.call = "lhsfalse")
       /\ (e.kind # "AND" => last.call = "and_or_done")
  BY <1>4
<1>. HIDE DEF e, n, w, lhs, u, name
<1>14. newest(w) = newest(st) + 1 /\ BranchOf(function, st, u, lhs, newest(st) + 1, n + 1, n + 2, n + 3)
  BY <1>7, <1>12, BranchLaw DEF n, w, u
<1>15. /\ Continues(function, st, u) /\ u.current_block = n + 1
       /\ u.breakstack = st.breakstack /\ u.continuestack = st.continuestack
       /\ c.result \in VariablesIn(u) /\ TypeOf(u, c.result) = boolType
       /\ {n + 1, c.lhsfalse, c.done} \subseteq InnerBlocks(u)
       /\ Unfinished(u) \subseteq (Unfinished(st) \ {st.current_block}) \cup {n + 1, c.lhsfalse, c.done}
  BY <1>2, <1>14 DEF BranchOf
<1>16. /\ Continues(function, u, st') 
       /\ st'.breakstack = st.breakstack /\ st'.continuestack = st.continuestack
       /\ Unfinished(st') \subseteq (Unfinished(st) \ {st.current_block})
                                        \cup Pending(last) \cup {st'.current_block}
  <2>1. CASE e.kind = "AND"
    <3>1. st' = u /\ Pending(last) = {c.lhsfalse, c.done}
      BY <1>4, <1>10, <1>13, <2>1 DEF Pending
    <3>2. Continues(function, u, u)
      BY <1>15, StraightReflexive DEF Continues, Straight
    <3>. QED  BY <1>15, <3>1, <3>2
  <2>2. CASE e.kind # "AND"
    <3>1. PICK v : v = ShortCircuit(u, e, "TRUE", c.result)
      OBVIOUS
    <3>2. st' = Goto(v, c.done, c.lhsfalse) /\ Pending(last) = {c.done}
      BY <1>4, <1>10, <1>13, <2>2, <3>1 DEF Pending
    <3>3. StateFits(function, u)
      BY <1>15 DEF Continues
    <3>4. PICK value : v = ShortCircuit(u, e, value, c.result)
      BY <3>1
    <3>5. Straight(function, u, v)
      BY <1>7, <1>15, <3>3, <3>4, ShortCircuitLaw, SideLines
    <3>6. /\ Continues(function, u, v) /\ StateFits(function, v) /\ InnerBlocks(v) = InnerBlocks(u)
          /\ Unfinished(v) \subseteq Unfinished(u) /\ v.current_block = u.current_block
          /\ v.breakstack = u.breakstack /\ v.continuestack = u.continuestack
      BY <3>5, StraightFinishes DEF Straight, Continues
    <3>7. Moved(function, v, st', c.lhsfalse)
      BY <1>15, <3>2, <3>6, GotoLaw
    <3>8. Continues(function, u, st')
      BY <3>6, <3>7, ContinuesTransitive DEF Moved
    <3>. QED  BY <1>15, <3>2, <3>6, <3>7, <3>8 DEF Moved
  <2>. QED  BY <2>1, <2>2
<1>17. Continues(function, st, st')
  BY <1>15, <1>16, ContinuesTransitive
<1>18. AndOrFits(function, st', c)
  BY <1>2, <1>7, <1>15, <1>16, ContinuesKeeps DEF AndOrFits
<1>19. /\ ItemFits(function, st', last) /\ TakenCount(last) = 0 /\ LeftFor(last) = UsesOf(e)
       /\ last.call \notin {"loop_body_done", "implicit_return"}
  BY <1>2, <1>4, <1>7, <1>13, <1>18 DEF ItemFits, TakenCount, LeftFor
<1>20. ComesTo(function, st', q, last)
  BY <1>2, <1>3, <1>4, <1>5, <1>7, <1>18, <1>19, RightSideLaw
<1>21. \A x, m \in Layouts : x.open /\ Leaves(agenda[1], x, m) => Leads(q, x, m)
  <2>1. \A x, m \in Layouts : Leaves(agenda[1], x, m) => Leaves(last, x, m)
    BY <1>6, <1>11, <1>19 DEF Leaves
  <2>. QED  BY <1>20, <2>1 DEF ComesTo
<1>22. Unfinished(st') \subseteq PendingIn(q) \cup {st'.current_block}
            \cup (Unfinished(st) \ ({st.current_block} \cup Pending(agenda[1])))
  BY <1>11, <1>16, <1>20 DEF ComesTo
<1>23. Construction(function, st', q \o Tail(agenda), KeptOf(values, TakenCount(agenda[1])))
  BY <1>6, <1>16, <1>17, <1>20, <1>21, <1>22, StepReplaces DEF ComesTo
<1>. QED  BY <1>6, <1>9, <1>11, <1>23 DEF BuildInv

LEMMA BuildAndFalseKeeps == BuildInv /\ BuildAndFalse => BuildInv'
<1>. SUFFICES ASSUME BuildInv, BuildAndFalse PROVE BuildInv'
  OBVIOUS
<1>. DEFINE c == agenda[1].c
            u == Goto(st, c.done, c.lhsfalse)
<1>1. PICK item : item = [call |-> "and_or_done", c |-> c]
  OBVIOUS
<1>2. item.call = "and_or_done" /\ item.c = c
  BY <1>1
<1>3. PICK q : q = <<item>>
  OBVIOUS
<1>4. /\ Construction(function, st, agenda, values) /\ agenda # << >>
      /\ agenda[1].call = "lhsfalse"
      /\ function' = function /\ values' = values
  BY DEF BuildInv, BuildAndFalse, IsNext, Top
<1>5. agenda' = q \o Tail(agenda)
  BY <1>1, <1>3 DEF BuildAndFalse, Top, Later
<1>6. PICK value : st' = ShortCircuit(u, c.e, value, c.result)
  BY DEF BuildAndFalse, Top
<1>7. /\ function \in Functions /\ StateFits(function, st) /\ values \in Seq(Nat)
      /\ AndOrFits(function, st, c)
  BY <1>4, TopLaw DEF ItemFits
<1>8. /\ TakenCount(agenda[1]) = 0 /\ LeftFor(agenda[1]) = UsesOf(c.e)
      /\ Pending(agenda[1]) = {c.lhsfalse, c.done}
  BY <1>4 DEF TakenCount, LeftFor, Pending
<1>. HIDE DEF c
<1>9. Moved(function, st, u, c.lhsfalse)
  BY <1>7, GotoLaw DEF AndOrFits
<1>. HIDE DEF u
<1>10. StateFits(function, u) /\ c.result \in VariablesIn(u)
  BY <1>7, <1>9, ContinuesKeeps DEF Moved, Continues, AndOrFits
<1>11. Straight(function, u, st')
  BY <1>6, <1>7, <1>10, ShortCircuitLaw, SideLines DEF AndOrFits
<1>12. /\ Continues(function, u, st') /\ Unfinished(st') \subseteq Unfinished(u)
       /\ st'.current_block = u.current_block
       /\ st'.breakstack = u.breakstack /\ st'.continuestack = u.continuestack
  BY <1>11, StraightFinishes DEF Straight
<1>13. /\ Continues(function, st, st')
       /\ st'.breakstack = st.breakstack /\ st'.continuestack = st.continuestack
       /\ st'.current_block = c.lhsfalse
       /\ Unfinished(st') \subseteq Unfinished(st) \ {st.current_block}
  BY <1>9, <1>12, ContinuesTransitive DEF Moved
<1>14. AndOrFits(function, st', c)
  BY <1>7, <1>13, ContinuesKeeps DEF AndOrFits
<1>15. /\ ItemFits(function, st', item) /\ Pending(item) = {c.done}
       /\ TakenCount(item) = 0 /\ LeftFor(item) = UsesOf(c.e)
  BY <1>2, <1>14 DEF ItemFits, Pending, TakenCount, LeftFor
<1>16. List(q) /\ ToSet(q) = {item} /\ PendingIn(q) = {c.done}
  BY <1>3, <1>15, ShortLists, PendingParts
<1>17. ASSUME NEW x \in Layouts, NEW m \in Layouts, x.open, Leaves(agenda[1], x, m)
       PROVE  Leads(q, x, m)
  <2>1. Leaves(item, x, m)
    BY <1>2, <1>4, <1>8, <1>15, <1>17 DEF Leaves
  <2>2. Effect(item, x, m)
    BY <1>15, <1>17, <2>1, WithoutNone DEF Effect, Layouts
  <2>. QED  BY <1>3, <2>2, LeadsOne
<1>18. \A i \in ToSet(q) : ItemFits(function, st', i)
  BY <1>15, <1>16
<1>19. Unfinished(st') \subseteq PendingIn(q) \cup {st'.current_block}
            \cup (Unfinished(st) \ ({st.current_block} \cup Pending(agenda[1])))
  BY <1>8, <1>13, <1>16
<1>20. Construction(function, st', q \o Tail(agenda), KeptOf(values, TakenCount(agenda[1])))
  BY <1>4, <1>13, <1>16, <1>17, <1>18, <1>19, StepReplaces
<1>. QED  BY <1>4, <1>5, <1>7, <1>8, <1>20, KeptNone DEF BuildInv

LEMMA BuildAndOrDoneKeeps == BuildInv /\ BuildAndOrDone => BuildInv'
<1>. SUFFICES ASSUME BuildInv, BuildAndOrDone PROVE BuildInv'
  OBVIOUS
<1>. DEFINE c == agenda[1].c
            u == Goto(st, c.done, c.done)
            r == [s |-> u, v |-> c.result]
            q == Converted(r, c.e)
<1>1. /\ Construction(function, st, agenda, values) /\ agenda # << >>
      /\ agenda[1].call = "and_or_done"
      /\ function' = function /\ st' = q.s /\ values' = Append(values, q.v)
      /\ agenda' = Tail(agenda)
  BY DEF BuildInv, BuildAndOrDone, IsNext, Top, Later
<1>2. /\ function \in Functions /\ StateFits(function, st) /\ values \in Seq(Nat)
      /\ AndOrFits(function, st, c)
  BY <1>1, TopLaw DEF ItemFits
<1>3. /\ TakenCount(agenda[1]) = 0 /\ LeftFor(agenda[1]) = UsesOf(c.e)
      /\ Pending(agenda[1]) = {c.done}
  BY <1>1 DEF TakenCount, LeftFor, Pending
<1>. HIDE DEF c
<1>4. Moved(function, st, u, c.done)
  BY <1>2, GotoLaw DEF AndOrFits
<1>5. r.s = u /\ r.v = c.result
  OBVIOUS
<1>. HIDE DEF u, r
<1>6. /\ c.e \in Trees[function].expressions /\ c.e.kind \in {"AND", "OR"}
      /\ StateFits(function, u) /\ c.result \in VariablesIn(u) /\ TypeOf(u, c.result) = boolType
  BY <1>2, <1>4, ContinuesKeeps DEF AndOrFits, Moved, Continues
<1>7. Returns(function, u, c.e, r)
  BY <1>5, <1>6, StraightReflexive DEF Returns, ReturnsNothing
<1>8. Straight(function, u, q.s) /\ \A use \in UsesOf(c.e) : GoodFor(q.s, use, q.v)
  BY <1>2, <1>6, <1>7, ConvertedLaw
<1>. HIDE DEF q
<1>9. /\ Continues(function, u, q.s) /\ Unfinished(q.s) \subseteq Unfinished(u)
      /\ q.s.current_block = c.done
      /\ q.s.breakstack = st.breakstack /\ q.s.continuestack = st.continuestack
  BY <1>4, <1>8, StraightFinishes DEF Straight, Moved
<1>10. Continues(function, st, q.s)
  BY <1>4, <1>9, ContinuesTransitive DEF Moved
<1>11. Unfinished(q.s) \subseteq {q.s.current_block}
            \cup (Unfinished(st) \ ({st.current_block} \cup Pending(agenda[1])))
  BY <1>3, <1>4, <1>9 DEF Moved
<1>12. UsesOf(c.e) # {}
  BY DEF UsesOf
<1>13. Construction(function, q.s, Tail(agenda), Append(KeptOf(values, TakenCount(agenda[1])), q.v))
  BY <1>1, <1>3, <1>8, <1>9, <1>10, <1>11, <1>12, StepReturns
<1>. QED  BY <1>1, <1>2, <1>3, <1>13, KeptNone DEF BuildInv
-----------------------------------------------------------------------------
\* Struct literals.
LEMMA StructStartLaw ==
    ASSUME NEW f, NEW s, StateFits(f, s), NEW ty, NEW line \in Nat, NEW pointer,
           NEW s0, s0 = add_variable(s, ty),
           NEW s1, s1 = EmitTo(s0, line, "ADDRESS_OF_VARIABLE", <<newest(s) + 1>>, pointer),
           NEW t, t = Emit(s1, line, "PTR_MEMSET_TO_ZERO", <<newest(s1)>>, NoVar)
    PROVE  /\ Straight(f, s, t) /\ newest(s1) \in VariablesIn(t)
           /\ newest(s) + 1 \in VariablesIn(t) /\ TypeOf(t, newest(s) + 1) = ty
<1>1. /\ Straight(f, s, s0) /\ s0.block = s.block
      /\ newest(s0) = newest(s) + 1 /\ newest(s) + 1 \in VariablesIn(s0)
      /\ TypeOf(s0, newest(s) + 1) = ty
  BY NewVariable
<1>2. StateFits(f, s0) /\ newest(s) \in Nat
  BY <1>1, StraightKeeps
<1>3. PICK v : v = newest(s) + 1
  OBVIOUS
<1>4. \A ins \in InstructionsIn(s0) : ins.kind = "ADDRESS_OF_VARIABLE" => ins.destvar # v
  <2>1. InstructionsIn(s0) = InstructionsIn(s)
    BY <1>1 DEF InstructionsIn
  <2>2. \A ins \in InstructionsIn(s) : ins.destvar \in VariablesIn(s) \cup {NoVar}
    BY DEF StateFits, BlocksFit, InstructionFits
  <2>3. v \notin VariablesIn(s) /\ v # NoVar
    BY <1>2, <1>3 DEF newest, VariablesIn, NoVar
  <2>. QED  BY <2>1, <2>2, <2>3
<1>5. v \in VariablesIn(s0) /\ s1 = EmitTo(s0, line, "ADDRESS_OF_VARIABLE", <<v>>, pointer)
  BY <1>1, <1>3
<1>13. Addressable(f, v)
  <2>1. v \notin DOMAIN f.variables
    BY <1>2, <1>3, Lengths DEF newest
  <2>. QED  BY <2>1 DEF Addressable
<1>6. Straight(f, s0, s1) /\ newest(s1) \in VariablesIn(s1)
  BY <1>2, <1>4, <1>5, <1>13, AddressToLaw
<1>7. StateFits(f, s1)
  BY <1>6, StraightKeeps
<1>8. PICK kind, operands, none : /\ kind = "PTR_MEMSET_TO_ZERO" /\ operands = <<newest(s1)>> /\ none = NoVar
                                  /\ t = Emit(s1, line, kind, operands, none)
  OBVIOUS
<1>9. operands \in Seq(VariablesIn(s1)) /\ kind \notin {"ADDRESS_OF_VARIABLE", "VARCPY"}
      /\ none \in VariablesIn(s1) \cup {NoVar}
  BY <1>6, <1>8
<1>10. Straight(f, s1, t)
  BY <1>7, <1>8, <1>9, EmitLaw
<1>11. Straight(f, s0, t)
  BY <1>6, <1>10, StraightTransitive
<1>12. Straight(f, s, t)
  BY <1>1, <1>11, StraightTransitive
<1>. QED  BY <1>1, <1>3, <1>5, <1>6, <1>10, <1>11, <1>12, StraightKeeps

LEMMA FieldsLaw ==
    ASSUME NEW f \in Functions, NEW s, NEW e \in Trees[f].expressions, NEW ptr \in VariablesIn(s),
           NEW q, q = [i \in DOMAIN e.operands |-> [call |-> "struct_field", e |-> e, i |-> i, ptr |-> ptr]]
    PROVE  /\ List(q)
           /\ \A item \in ToSet(q) : ItemFits(f, s, item) /\ Silent(item) /\ Pending(item) = {}
<1>1. e.operands \in Seq(Trees[f].expressions)
  BY ExpressionLaw DEF ExpressionOK
<1>2. DOMAIN e.operands = 1 .. Len(e.operands) /\ Len(e.operands) \in Nat
  BY <1>1
<1>3. DOMAIN q = 1 .. Len(e.operands) /\ q \in [1 .. Len(e.operands) -> ToSet(q)]
  BY <1>2 DEF ToSet
<1>4. List(q)
  BY <1>2, <1>3, FunctionSeq DEF List
<1>5. ASSUME NEW item \in ToSet(q)
      PROVE  ItemFits(f, s, item) /\ Silent(item) /\ Pending(item) = {}
  <2>1. PICK i \in DOMAIN e.operands : item = [call |-> "struct_field", e |-> e, i |-> i, ptr |-> ptr]
    BY <1>5 DEF ToSet
  <2>2. item.call = "struct_field" /\ item.e = e /\ item.i = i /\ item.ptr = ptr
    BY <2>1
  <2>. QED  BY <2>2 DEF ItemFits, Silent, Plain, TakenCount, LeftFor, Pending
<1>. QED  BY <1>4, <1>5

LEMMA BuildStructInitKeeps == BuildInv /\ BuildStructInit => BuildInv'
<1>. SUFFICES ASSUME BuildInv, BuildStructInit PROVE BuildInv'
  OBVIOUS
<1>. DEFINE e == agenda[1].e
            s0 == add_variable(st, e.type)
            s1 == EmitTo(s0, e.line, "ADDRESS_OF_VARIABLE", <<newest(st) + 1>>, get_pointer_type(e.type))
            ptr == newest(s1)
            fields == [i \in DOMAIN e.operands |->
                            [call |-> "struct_field", e |-> e, i |-> i, ptr |-> ptr]]
<1>1. PICK last : last = [call |-> "struct_done", e |-> e, instance |-> newest(st) + 1]
  OBVIOUS
<1>2. last.call = "struct_done" /\ last.e = e /\ last.instance = newest(st) + 1
  BY <1>1
<1>3. PICK q : q = fields \o <<last>>
  OBVIOUS
<1>4. /\ Construction(function, st, agenda, values) /\ agenda # << >>
      /\ agenda[1].call = "build_expression" /\ e.kind = "BRACE_INIT"
      /\ function' = function /\ values' = values
      /\ st' = Emit(s1, e.line, "PTR_MEMSET_TO_ZERO", <<newest(s1)>>, NoVar)
  BY DEF BuildInv, BuildStructInit, IsNext, Top
<1>5. agenda' = q \o Tail(agenda)
  BY <1>1, <1>3 DEF BuildStructInit, Top, Later
<1>6. /\ function \in Functions /\ StateFits(function, st) /\ values \in Seq(Nat)
      /\ e \in Trees[function].expressions
  BY <1>4, TopLaw DEF ItemFits
<1>7. TakenCount(agenda[1]) = 0 /\ LeftFor(agenda[1]) = UsesOf(e) /\ Pending(agenda[1]) = {}
  BY <1>4 DEF TakenCount, LeftFor, Pending
<1>30. e.line \in Nat
  BY <1>6, ExpressionLaw DEF ExpressionOK
<1>. HIDE DEF e, s0, s1
<1>8. /\ Straight(function, st, st') /\ ptr \in VariablesIn(st')
      /\ newest(st) + 1 \in VariablesIn(st') /\ TypeOf(st', newest(st) + 1) = e.type
  BY <1>4, <1>6, <1>30, StructStartLaw DEF s0, s1
<1>. HIDE DEF ptr
<1>9. /\ List(fields)
      /\ \A item \in ToSet(fields) : ItemFits(function, st', item) /\ Silent(item) /\ Pending(item) = {}
  BY <1>6, <1>8, FieldsLaw
<1>. HIDE DEF fields
<1>10. /\ ItemFits(function, st', last) /\ Pending(last) = {}
       /\ TakenCount(last) = 0 /\ LeftFor(last) = UsesOf(e)
  BY <1>2, <1>4, <1>6, <1>8 DEF ItemFits, Pending, TakenCount, LeftFor
<1>11. PICK lasts : lasts = <<last>>
  OBVIOUS
<1>12. List(lasts) /\ ToSet(lasts) = {last} /\ q = fields \o lasts
  BY <1>3, <1>11, ShortLists
<1>13. List(q) /\ ToSet(q) = ToSet(fields) \cup {last}
  <2>1. List(fields \o lasts) /\ ToSet(fields \o lasts) = ToSet(fields) \cup ToSet(lasts)
    BY <1>9, <1>12, ConcatList
  <2>. QED  BY <1>12, <2>1
<1>14. \A item \in ToSet(q) : ItemFits(function, st', item)
  BY <1>9, <1>10, <1>13
<1>15. ASSUME NEW x \in Layouts, NEW m \in Layouts, x.open, Leaves(agenda[1], x, m)
       PROVE  Leads(q, x, m)
  <2>1. Leaves(last, x, m)
    BY <1>2, <1>4, <1>7, <1>10, <1>15 DEF Leaves
  <2>. QED  BY <1>3, <1>9, <1>10, <1>15, <2>1, SilentThenLast
<1>16. /\ Continues(function, st, st') /\ st'.current_block = st.current_block
       /\ st'.breakstack = st.breakstack /\ st'.continuestack = st.continuestack
       /\ Unfinished(st') \subseteq Unfinished(st)
  BY <1>8, StraightFinishes DEF Straight
<1>17. Unfinished(st') \subseteq PendingIn(q) \cup {st'.current_block}
            \cup (Unfinished(st) \ ({st.current_block} \cup Pending(agenda[1])))
  BY <1>7, <1>16
<1>18. Construction(function, st', q \o Tail(agenda), KeptOf(values, TakenCount(agenda[1])))
  BY <1>4, <1>13, <1>14, <1>15, <1>16, <1>17, StepReplaces
<1>. QED  BY <1>4, <1>5, <1>6, <1>7, <1>18, KeptNone DEF BuildInv

LEMMA BuildStructFieldKeeps == BuildInv /\ BuildStructField => BuildInv'
<1>. SUFFICES ASSUME BuildInv, BuildStructField PROVE BuildInv'
  OBVIOUS
<1>. DEFINE e == agenda[1].e
            arg == e.operands[agenda[1].i]
<1>1. PICK call, item : /\ call = Evaluate(arg)
                        /\ item = [call |-> "store_field", e |-> e, fieldptr |-> newest(st) + 1]
  OBVIOUS
<1>2. item.call = "store_field" /\ item.fieldptr = newest(st) + 1 /\ item.e = e
  BY <1>1
<1>3. PICK q : q = <<call, item>>
  OBVIOUS
<1>4. /\ Construction(function, st, agenda, values) /\ agenda # << >>
      /\ agenda[1].call = "struct_field"
      /\ function' = function /\ values' = values
  BY DEF BuildInv, BuildStructField, IsNext, Top
<1>5. agenda' = q \o Tail(agenda)
  BY <1>1, <1>3 DEF BuildStructField, Top, Later
<1>6. PICK name, line : /\ st' = build_struct_field_pointer(st, agenda[1].ptr, name, line)
                        /\ line = arg.line
  BY DEF BuildStructField, Top
<1>7. /\ function \in Functions /\ StateFits(function, st) /\ values \in Seq(Nat)
      /\ e \in Trees[function].expressions /\ agenda[1].i \in DOMAIN e.operands
      /\ agenda[1].ptr \in VariablesIn(st)
  BY <1>4, TopLaw DEF ItemFits
<1>8. TakenCount(agenda[1]) = 0 /\ LeftFor(agenda[1]) = {} /\ Pending(agenda[1]) = {}
  BY <1>4 DEF TakenCount, LeftFor, Pending
<1>9. Value(Trees[function], arg) /\ arg \in Trees[function].expressions
  BY <1>7, ExpressionLaw DEF ExpressionOK, Value
<1>19. line \in Nat
  BY <1>6, <1>7, OperandLines
<1>. HIDE DEF e, arg
<1>10. Straight(function, st, st') /\ newest(st) + 1 \in VariablesIn(st')
  BY <1>6, <1>7, <1>19, StructFieldLaw
<1>11. ItemFits(function, st', call) /\ Pushes(call, "value") /\ Pending(call) = {}
  BY <1>1, <1>9, EvaluateLaw
<1>12. /\ ItemFits(function, st', item) /\ Pending(item) = {} /\ LeftFor(item) = {}
       /\ TakenCount(item) = 1 /\ TakenFor(item) = "value"
  BY <1>2, <1>7, <1>10 DEF ItemFits, Pending, LeftFor, TakenCount, TakenFor
<1>13. List(q) /\ ToSet(q) = {call, item}
  BY <1>3, ShortLists
<1>14. \A i \in ToSet(q) : ItemFits(function, st', i)
  BY <1>11, <1>12, <1>13
<1>15. ASSUME NEW x \in Layouts, x.open PROVE Leads(q, x, x)
  <2>1. Leaves(item, x, x)
    BY <1>2, <1>12, <1>15, LeavesAlone
  <2>2. Leads(<<call, item>>, x, x)
    BY <1>11, <1>12, <1>15, <2>1, CallThenResult DEF Uses
  <2>. QED  BY <1>3, <2>2
<1>16. /\ Continues(function, st, st') /\ st'.current_block = st.current_block
       /\ st'.breakstack = st.breakstack /\ st'.continuestack = st.continuestack
       /\ Unfinished(st') \subseteq Unfinished(st)
  BY <1>10, StraightFinishes DEF Straight
<1>17. Unfinished(st') \subseteq PendingIn(q) \cup {st'.current_block}
            \cup (Unfinished(st) \ ({st.current_block} \cup Pending(agenda[1])))
  BY <1>8, <1>16
<1>18. Construction(function, st', q \o Tail(agenda), KeptOf(values, TakenCount(agenda[1])))
  BY <1>4, <1>8, <1>13, <1>14, <1>15, <1>16, <1>17, StepGoesOn
<1>. QED  BY <1>4, <1>5, <1>7, <1>8, <1>18, KeptNone DEF BuildInv
-----------------------------------------------------------------------------
\* The invariant holds from the first call of build_function on.
LEMMA FreshStateFits ==
    ASSUME NEW f \in Functions, NEW s, s = FreshState(f)
    PROVE  /\ StateFits(f, s) /\ s.current_block = StartBlock
           /\ Len(s.breakstack) = 0 /\ Len(s.continuestack) = 0
           /\ InnerBlocks(s) = {StartBlock}
<1>1. VariablesOK(f)
  BY FunctionsAssumption DEF FunctionOK
<1>2. /\ s.block = <<EmptyBlock, EmptyBlock>> /\ s.variables = f.variables
      /\ s.current_block = StartBlock /\ s.breakstack = << >> /\ s.continuestack = << >>
      /\ DOMAIN s = {"block", "variables", "structs", "current_block", "breakstack", "continuestack"}
  BY DEF FreshState
<1>3. /\ DOMAIN s.block = {1, 2} /\ s.block[1] = EmptyBlock /\ s.block[2] = EmptyBlock
      /\ List(s.block) /\ Len(s.block) = 2
  BY <1>2, ShortLists
<1>4. InnerBlocks(s) = {StartBlock}
  BY <1>3 DEF InnerBlocks, StartBlock, EndBlock
<1>5. /\ DOMAIN EmptyBlock = {"instructions", "branchvar", "iftrue", "iffalse"}
      /\ EmptyBlock.instructions = << >>
  BY DEF EmptyBlock
<1>6. \A b \in DOMAIN s.block :
        /\ DOMAIN s.block[b] = {"instructions", "branchvar", "iftrue", "iffalse"}
        /\ List(s.block[b].instructions) /\ ToSet(s.block[b].instructions) = {}
  BY <1>3, <1>5, ShortLists
<1>7. InstructionsIn(s) = {}
  BY <1>6 DEF InstructionsIn
<1>8. BlocksFit(f, s)
  BY <1>3, <1>6, <1>7 DEF BlocksFit, PointersFit, EndBlock
<1>9. VariablesFit(f, s)
  <2>1. f.variables \in Seq({f.variables[i] : i \in DOMAIN f.variables})
    BY <1>1 DEF VariablesOK
  <2>2. List(f.variables) /\ Len(f.variables) \in Nat /\ DOMAIN f.variables = 1 .. Len(f.variables)
    BY <2>1 DEF List, ToSet
  <2>3. \A v \in DOMAIN f.variables : f.variables[v].id = v
    BY <1>1 DEF VariablesOK
  <2>4. s.variables = f.variables
    BY <1>2
  <2>5. VariablesIn(s) = DOMAIN f.variables
    BY ONLY <2>2, <2>4 DEF VariablesIn
  <2>6. \A v \in VariablesIn(s) : ~ (v > Len(f.variables))
    BY ONLY <2>2, <2>5
  <2>7. List(s.variables) /\ Len(f.variables) <= Len(s.variables)
    BY ONLY <2>2, <2>4
  <2>8. \A v \in VariablesIn(s) : s.variables[v].id = v
    BY ONLY <2>3, <2>4, <2>5
  <2>9. \A v \in DOMAIN f.variables : s.variables[v] = f.variables[v]
    BY ONLY <2>4
  <2>. QED  BY ONLY <2>2, <2>6, <2>7, <2>8, <2>9 DEF VariablesFit
<1>10. s.breakstack \in Seq(InnerBlocks(s)) /\ s.continuestack \in Seq(InnerBlocks(s))
  BY <1>2
<1>. QED  BY <1>2, <1>4, <1>8, <1>9, <1>10 DEF StateFits

LEMMA InitBuildInv == BuildInit(Functions) => BuildInv
<1>. SUFFICES ASSUME BuildInit(Functions) PROVE BuildInv
  OBVIOUS
<1>1. /\ function \in Functions /\ st = FreshState(function) /\ values = << >>
      /\ agenda = Body(function.body) \o <<[call |-> "implicit_return"]>>
  BY DEF BuildInit, FreshAgenda
<1>2. /\ StateFits(function, st) /\ st.current_block = StartBlock
      /\ Len(st.breakstack) = 0 /\ Len(st.continuestack) = 0 /\ InnerBlocks(st) = {StartBlock}
  BY <1>1, FreshStateFits
<1>3. PICK item : item = [call |-> "implicit_return"]
  OBVIOUS
<1>4. item.call = "implicit_return"
  BY <1>3
<1>5. /\ ItemFits(function, st, item) /\ TakenCount(item) = 0 /\ LeftFor(item) = {}
      /\ Pending(item) = {}
  BY <1>4 DEF ItemFits, TakenCount, LeftFor, Pending
<1>6. BodyOK(Trees[function], function.body)
  BY <1>1, FunctionsAssumption DEF FunctionOK
<1>7. agenda = Body(function.body) \o <<item>>
  BY <1>1, <1>3
<1>8. ComesTo(function, st, agenda, item)
  BY <1>5, <1>6, <1>7, BodyThen
<1>9. PICK x : x = [uses |-> << >>, loops |-> 0, open |-> TRUE]
  OBVIOUS
<1>10. x.uses = << >> /\ x.loops = 0 /\ x.open /\ x \in Layouts
  BY <1>9 DEF Layouts
<1>11. EndLayout \in Layouts /\ EndLayout.uses = << >> /\ EndLayout.loops = 0
  BY DEF EndLayout, Layouts
<1>12. Leaves(item, x, EndLayout)
  BY <1>4, <1>5, <1>10, <1>11 DEF Leaves
<1>13. Leads(agenda, x, EndLayout)
  BY <1>8, <1>10, <1>11, <1>12 DEF ComesTo
<1>14. Fits(st, values, x) /\ values \in Seq(Nat)
  BY <1>1, <1>2, <1>10 DEF Fits
<1>15. Unfinished(st) \subseteq PendingIn(agenda) \cup (IF x.open THEN {st.current_block} ELSE {})
  BY <1>2, <1>10 DEF Unfinished
<1>. QED  BY <1>1, <1>2, <1>8, <1>10, <1>13, <1>14, <1>15 DEF BuildInv, Construction, ComesTo

\* And every step of the builder keeps it.
LEMMA BuildStepKeeps == BuildInv /\ BuildStep => BuildInv'
BY BuildOperandsKeeps, BuildExpressionKeeps, BuildAddressOperandsKeeps, BuildAddressAbortsKeeps,
   BuildAddressOfExpressionKeeps, BuildAndOrKeeps, BuildAndOrBranchKeeps, BuildAndOrCopyKeeps,
   BuildAndFalseKeeps, BuildAndOrDoneKeeps, BuildStructInitKeeps, BuildStructFieldKeeps,
   BuildStoreFieldKeeps, BuildStructDoneKeeps, BuildStatementOperandsKeeps, BuildStatementKeeps,
   BuildBreakKeeps, BuildContinueKeeps, BuildIfKeeps, BuildIfConditionKeeps,
   BuildIfBodyDoneKeeps, BuildIfDoneKeeps, BuildLoopKeeps, BuildLoopEnteredKeeps,
   BuildLoopConditionKeeps, BuildLoopBodyDoneKeeps, BuildLoopRepeatKeeps, BuildImplicitReturnKeeps
   DEF BuildStep

\* An error leaves the call that raised it on the agenda.
LEMMA ErrorsStop ==
    ASSUME BuildStep
    PROVE  /\ function' = function
           /\ build_error' # "" => agenda' = agenda /\ agenda # <<>>
<1>. USE DEF IsNext, StatementIsNext
<1>1. CASE \/ BuildOperands \/ BuildExpression
           \/ BuildAddressOperands \/ BuildAddressOfExpression
           \/ BuildAndOr \/ BuildAndOrBranch \/ BuildAndOrCopy \/ BuildAndFalse \/ BuildAndOrDone
  BY <1>1 DEF BuildOperands, BuildExpression, BuildAddressOperands, BuildAddressOfExpression,
              BuildAndOr, BuildAndOrBranch, BuildAndOrCopy, BuildAndFalse, BuildAndOrDone
<1>2. CASE BuildAddressAborts
  BY <1>2 DEF BuildAddressAborts
<1>3. CASE BuildBreak \/ BuildContinue
  BY <1>3 DEF BuildBreak, BuildContinue, BuildJump
<1>4. CASE \/ BuildStructInit \/ BuildStructField \/ BuildStoreField \/ BuildStructDone
           \/ BuildStatementOperands \/ BuildStatement
  BY <1>4 DEF BuildStructInit, BuildStructField, BuildStoreField, BuildStructDone,
              BuildStatementOperands, BuildStatement
<1>5. CASE \/ BuildIf \/ BuildIfCondition \/ BuildIfBodyDone \/ BuildIfDone
           \/ BuildLoop \/ BuildLoopEntered \/ BuildLoopCondition
           \/ BuildLoopBodyDone \/ BuildLoopRepeat \/ BuildImplicitReturn
  BY <1>5 DEF BuildIf, BuildIfCondition, BuildIfBodyDone, BuildIfDone,
              BuildLoop, BuildLoopEntered, BuildLoopCondition,
              BuildLoopBodyDone, BuildLoopRepeat, BuildImplicitReturn
<1>. QED  BY <1>1, <1>2, <1>3, <1>4, <1>5 DEF BuildStep

LEMMA BuildStutterKeeps == BuildInv /\ UNCHANGED buildVars => BuildInv'
BY DEF BuildInv, buildVars
-----------------------------------------------------------------------------
\* When no call is left, nothing waits for one.
LEMMA NothingIsLeft ==
    ASSUME BuildInv, BuildDone
    PROVE  /\ StateFits(function, st) /\ function \in Functions
           /\ values = << >> /\ st.breakstack = << >> /\ st.continuestack = << >>
           /\ Unfinished(st) = {}
<1>1. /\ function \in Functions /\ StateFits(function, st) /\ values \in Seq(Nat) /\ agenda = << >>
  BY DEF BuildInv, Construction, BuildDone
<1>2. PICK x \in Layouts :
        /\ Fits(st, values, x) /\ Leads(agenda, x, EndLayout)
        /\ Unfinished(st) \subseteq PendingIn(agenda) \cup (IF x.open THEN {st.current_block} ELSE {})
  BY DEF BuildInv, Construction
<1>3. Len(agenda) = 0 /\ PendingIn(agenda) = {}
  BY <1>1, ShortLists DEF PendingIn
<1>4. x = EndLayout
  BY <1>2, <1>3 DEF Leads
<1>5. x.uses = << >> /\ x.loops = 0 /\ x.open = FALSE
  BY <1>4 DEF EndLayout
<1>6. Len(values) = 0 /\ Len(st.breakstack) = 0 /\ Len(st.continuestack) = 0
  BY <1>2, <1>5 DEF Fits
<1>7. \A S : \A q \in Seq(S) : Len(q) = 0 => q = << >>
  OBVIOUS
<1>8. st.breakstack \in Seq(InnerBlocks(st)) /\ st.continuestack \in Seq(InnerBlocks(st))
  BY <1>1 DEF StateFits
<1>9. values = << >> /\ st.breakstack = << >> /\ st.continuestack = << >>
  BY <1>1, <1>6, <1>7, <1>8
<1>. QED  BY <1>1, <1>2, <1>3, <1>5, <1>9

\* The parts of the graph that is returned.
LEMMA BuiltParts ==
    ASSUME NEW f, StateFits(f, st)
    PROVE  /\ BlockSet(BuiltCfg) = DOMAIN st.block /\ VarSet(BuiltCfg) = VariablesIn(st)
           /\ BuiltCfg.block = st.block /\ BuiltCfg.variables = st.variables
           /\ BuiltCfg.all_blocks = [i \in DOMAIN st.block |-> i]
           /\ \A b \in DOMAIN st.block : InstructionsOf(BuiltCfg, b) = ToSet(st.block[b].instructions)
           /\ \A v \in VariablesIn(st) : VariableOf(BuiltCfg, v) = st.variables[v]
<1>. DEFINE g == BuiltCfg
<1>1. /\ g.block = st.block /\ g.variables = st.variables
      /\ g.all_blocks = [i \in DOMAIN st.block |-> i]
  BY DEF BuiltCfg
<1>. HIDE DEF g
<1>2. BlockSet(g) = DOMAIN st.block
  BY <1>1 DEF BlockSet
<1>3. DOMAIN st.variables = VariablesIn(st) /\ \A v \in VariablesIn(st) : st.variables[v].id = v
  BY Lengths DEF VariablesIn, StateFits, VariablesFit
<1>4. VarSet(g) = VariablesIn(st)
  BY <1>1, <1>3 DEF VarSet
<1>5. \A b \in DOMAIN st.block : InstructionsOf(g, b) = ToSet(st.block[b].instructions)
  BY <1>1 DEF InstructionsOf, ToSet
<1>6. ASSUME NEW v \in VariablesIn(st) PROVE VariableOf(g, v) = st.variables[v]
  BY <1>1, <1>3, <1>6 DEF VariableOf
<1>. QED  BY <1>1, <1>2, <1>4, <1>5, <1>6 DEF g

\* The graph is what the passes take for granted.
LEMMA BuiltWellFormed ==
    ASSUME BuildInv, BuildDone
    PROVE  WellFormed(BuiltCfg)
<1>. DEFINE g == BuiltCfg
<1>1. StateFits(function, st) /\ Unfinished(st) = {}
  BY NothingIsLeft
<1>2. /\ BlockSet(g) = DOMAIN st.block /\ VarSet(g) = VariablesIn(st)
      /\ g.block = st.block /\ g.all_blocks = [i \in DOMAIN st.block |-> i]
      /\ \A b \in DOMAIN st.block : InstructionsOf(g, b) = ToSet(st.block[b].instructions)
  BY <1>1, BuiltParts
<1>. HIDE DEF g
<1>3. Len(st.block) \in Nat /\ DOMAIN st.block = 1 .. Len(st.block) /\ Len(st.block) >= 2
  BY <1>1, Lengths DEF StateFits, BlocksFit
<1>4. /\ \A b \in DOMAIN st.block : List(st.block[b].instructions)
      /\ st.block[EndBlock] = EmptyBlock
      /\ \A ins \in InstructionsIn(st) : InstructionFits(st, ins)
  BY <1>1 DEF StateFits, BlocksFit
<1>5. g.all_blocks \in Seq(BlockSet(g)) /\ g.all_blocks[1] = StartBlock
  <2>1. g.all_blocks \in [1 .. Len(st.block) -> BlockSet(g)]
    BY <1>2, <1>3
  <2>. QED  BY <1>2, <1>3, <2>1, FunctionSeq DEF StartBlock
<1>6. /\ {StartBlock, EndBlock} \subseteq BlockSet(g) /\ NoBlock \notin BlockSet(g)
      /\ NoVar \notin VarSet(g)
  BY <1>2, <1>3 DEF StartBlock, EndBlock, NoBlock, NoVar, VariablesIn
<1>7. g.block[EndBlock].instructions = << >> /\ Targets(g, EndBlock) = {}
  BY <1>2, <1>4 DEF EmptyBlock, Targets
<1>8. ASSUME NEW b \in BlockSet(g) PROVE BlockOK(g, b)
  <2>1. g.block[b].instructions \in Seq(InstructionsOf(g, b))
    BY <1>2, <1>4, <1>8 DEF List
  <2>2. \A ins \in InstructionsOf(g, b) : InstructionOK(g, ins)
    BY <1>2, <1>4, <1>8 DEF InstructionsIn, InstructionFits, InstructionOK
  <2>3. b # EndBlock => JumpIsSet(st, b)
    BY <1>1, <1>2, <1>8 DEF Unfinished, InnerBlocks
  <2>. QED  BY <1>2, <1>8, <2>1, <2>2, <2>3 DEF BlockOK, JumpIsSet, Conditional
<1>. QED  BY <1>5, <1>6, <1>7, <1>8 DEF WellFormed, g

LEMMA BranchesAreDecided ==
    ASSUME BuildInv, BuildDone, NEW b \in BlockSet(BuiltCfg) \ {EndBlock}, Conditional(BuiltCfg, b)
    PROVE  VariableOf(BuiltCfg, st.block[b].branchvar).type = boolType
<1>1. StateFits(function, st) /\ Unfinished(st) = {}
  BY NothingIsLeft
<1>2. /\ BlockSet(BuiltCfg) = DOMAIN st.block /\ BuiltCfg.block = st.block
      /\ \A v \in VariablesIn(st) : VariableOf(BuiltCfg, v) = st.variables[v]
  BY <1>1, BuiltParts
<1>3. JumpIsSet(st, b)
  BY <1>1, <1>2 DEF Unfinished, InnerBlocks
<1>. QED  BY <1>2, <1>3 DEF JumpIsSet, Conditional, TypeOf

\* Its pointers go to variables that nothing points to.
LEMMA BuiltPointers ==
    ASSUME BuildInv, BuildDone
    PROVE  \A b, c \in BlockSet(BuiltCfg) :
                \A i \in InstructionsOf(BuiltCfg, b), j \in InstructionsOf(BuiltCfg, c) :
                    i.kind = "ADDRESS_OF_VARIABLE" /\ j.kind = "ADDRESS_OF_VARIABLE" =>
                        /\ i.destvar # NoVar /\ i.destvar \notin OperandSet(j)
                        /\ \A v \in OperandSet(j) : Addressable(function, v)
<1>1. StateFits(function, st)
  BY NothingIsLeft
<1>2. /\ BlockSet(BuiltCfg) = DOMAIN st.block
      /\ \A b \in DOMAIN st.block : InstructionsOf(BuiltCfg, b) = ToSet(st.block[b].instructions)
  BY <1>1, BuiltParts
<1>3. /\ PointersFit(function, InstructionsIn(st)) /\ Len(function.variables) \in Nat
      /\ \A i \in InstructionsIn(st) : InstructionFits(st, i)
  BY <1>1, Lengths DEF StateFits, BlocksFit
<1>4. \A b \in BlockSet(BuiltCfg) : InstructionsOf(BuiltCfg, b) \subseteq InstructionsIn(st)
  BY <1>2 DEF InstructionsIn
<1>5. \A i, j \in InstructionsIn(st) :
            i.kind = "ADDRESS_OF_VARIABLE" /\ j.kind = "ADDRESS_OF_VARIABLE" =>
                /\ i.destvar # NoVar /\ i.destvar \notin OperandSet(j)
                /\ \A v \in OperandSet(j) : Addressable(function, v)
  BY <1>3 DEF PointersFit, InstructionFits, VariablesIn, NoVar
<1>. QED  BY <1>4, <1>5

\* Its instructions have lines of the source.
LEMMA BuiltLines ==
    ASSUME BuildInv, BuildDone, NEW b \in BlockSet(BuiltCfg), NEW ins \in InstructionsOf(BuiltCfg, b)
    PROVE  ins.line \in Nat
<1>1. StateFits(function, st)
  BY NothingIsLeft
<1>2. b \in DOMAIN st.block /\ ins \in ToSet(st.block[b].instructions)
  BY <1>1, BuiltParts
<1>3. ins \in InstructionsIn(st)
  BY <1>2 DEF InstructionsIn
<1>. QED  BY <1>1, <1>3 DEF StateFits, BlocksFit, InstructionFits
=============================================================================
