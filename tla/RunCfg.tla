------------------------------- MODULE RunCfg -------------------------------
(***************************************************************************)
(* What happens when a control flow graph is executed: the meaning codegen *)
(* gives to instructions and jumps, with data reduced to what the analyses *)
(* of the compiler tell apart.  A variable holds True or False, some other *)
(* defined value, or the garbage an uninitialized stack slot holds.        *)
(*                                                                         *)
(* A variable whose address has been taken may be read and written through *)
(* pointers at any time.  update_statuses_with_instruction assumes that    *)
(* such a variable always yields non-garbage values; garbage read from a   *)
(* variable that has its address taken anywhere in the function is called  *)
(* "assumed", to tell it from garbage the compiler is responsible for.     *)
(***************************************************************************)
EXTENDS Cfg

VARIABLES
    running,    \* the graph being executed
    pc,         \* its current block, NoBlock before the first call
    ip,         \* index of the next instruction of the block
    memory,     \* memory[v]: what variable v holds
    addressed,  \* variables whose address was taken
    written     \* variables assigned so far

runVars == <<running, pc, ip, memory, addressed, written>>

DefinedValues(g, v) ==
    IF VariableOf(g, v).type = <<"bool">> THEN {"TRUE", "FALSE"} ELSE {"value"}

AddressTaken(g) ==
    UNION {OperandSet(ins) : ins \in {i \in UNION {InstructionsOf(g, b) : b \in BlockSet(g)} :
                                        i.kind = "ADDRESS_OF_VARIABLE"}}
Garbage == {"garbage", "assumed"}

\* What a variable may hold, going by its status.
MayHold(status) ==
    CASE status = "TRUE" -> {"TRUE"}
      [] status = "FALSE" -> {"FALSE"}
      [] status = "DEFINED" -> {"TRUE", "FALSE", "value", "assumed"}
      [] status = "UNDEFINED" -> Garbage
      [] status = "UNVISITED" -> {}
      [] status \in {"POSSIBLY_UNDEFINED", "UNPREDICTABLE"} ->
            {"TRUE", "FALSE", "value"} \cup Garbage

\* What reading variable v may give.
Reads(v) ==
    IF v \in addressed THEN DefinedValues(running, v)
    ELSE IF memory[v] = "garbage" /\ v \in AddressTaken(running) THEN {"assumed"}
    ELSE {memory[v]}

\* Arithmetic on garbage gives some bits, which count as a defined value.
Negations(x) == CASE x = "TRUE" -> {"FALSE"}
                  [] x = "FALSE" -> {"TRUE"}
                  [] OTHER -> {"TRUE", "FALSE"}

\* The values an instruction may leave in its destination.
Outcomes(ins) ==
    CASE ins.kind = "VARCPY" -> Reads(ins.operands[1])
      [] ins.kind = "CONSTANT" /\ ins.value \in {"TRUE", "FALSE"} -> {ins.value}
      [] ins.kind = "BOOL_NEGATE" -> UNION {Negations(x) : x \in Reads(ins.operands[1])}
      [] OTHER -> DefinedValues(running, ins.destvar)

BlockEnded == ip > Len(running.block[pc].instructions)
Executing == pc \notin {NoBlock, EndBlock} /\ ~BlockEnded
Current == running.block[pc].instructions[ip]
ReadBy(ins) == IF ins.kind = "ADDRESS_OF_VARIABLE" THEN {} ELSE OperandSet(ins)
-----------------------------------------------------------------------------
\* A call of the function: arguments hold values, everything else is an
\* uninitialized alloca.
StartRun(g) ==
    /\ running' = g
    /\ pc' = StartBlock
    /\ ip' = 1
    /\ \E flags \in [{v \in Arguments(g) : VariableOf(g, v).type = <<"bool">>} ->
                        {"TRUE", "FALSE"}] :
            memory' = [v \in VarSet(g) |-> IF v \in DOMAIN flags THEN flags[v]
                                           ELSE IF v \in Arguments(g) THEN "value"
                                           ELSE "garbage"]
    /\ addressed' = {}
    /\ written' = Arguments(g)

Execute ==
    /\ Executing
    /\ LET d == Current.destvar
       IN  IF d = NoVar THEN UNCHANGED <<memory, written>>
           ELSE /\ \E x \in Outcomes(Current) : memory' = [memory EXCEPT ![d] = x]
                /\ written' = written \cup {d}
    /\ addressed' = IF Current.kind = "ADDRESS_OF_VARIABLE"
                    THEN addressed \cup OperandSet(Current) ELSE addressed
    /\ ip' = ip + 1
    /\ UNCHANGED <<running, pc>>

\* The jump at the end of a block.  Garbage in the branch variable may send
\* execution either way.
Jump ==
    /\ pc \notin {NoBlock, EndBlock}
    /\ BlockEnded
    /\ LET block == running.block[pc]
       IN  pc' \in IF Conditional(running, pc)
                   THEN CASE Reads(block.branchvar) = {"TRUE"} -> {block.iftrue}
                          [] Reads(block.branchvar) = {"FALSE"} -> {block.iffalse}
                          [] OTHER -> {block.iftrue, block.iffalse}
                   ELSE {block.iftrue}
    /\ ip' = 1
    /\ UNCHANGED <<running, memory, addressed, written>>

NoRun ==
    /\ running = [all_blocks |-> <<>>, block |-> <<>>, variables |-> <<>>]
    /\ pc = NoBlock
    /\ ip = 1
    /\ memory = <<>>
    /\ addressed = {}
    /\ written = {}

RunStep == Execute \/ Jump
RunEnded == pc = EndBlock
=============================================================================
