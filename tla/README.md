# A formal model of the Jou compiler

Jou is a small language compiled by one C program: `src/tokenize.c` turns a
file into tokens, `src/parse.c` tokens into a syntax tree, `src/typecheck.c`
attaches types to the tree, `src/build_cfg.c` turns every function into a
control flow graph, `src/simplify_cfg.c` analyses and shrinks the graphs and
warns, `src/codegen.c` gives them to LLVM. This directory holds TLA+ modules that
translate every stage of that pipeline, TLC runs that check them on families of
small files and functions, a statement of what Jou source means and a check that the
compiled program implements it, and TLAPS proofs, for inputs of any size, about the
tokenizer, the types, and one function's way from its checked tree through the graph builder, the
analysis and the simplifier to its execution. Paths below are relative to the repository; `simplify_cfg.c:461` is a line of
`src/simplify_cfg.c`.

1. [The system](#the-system)
2. [The modules](#the-modules)
3. [How the model corresponds to the code](#how-the-model-corresponds-to-the-code)
4. [What is promised and how it is refined](#what-is-promised-and-how-it-is-refined)
5. [The runs](#the-runs)
6. [Fairness](#fairness)
7. [The proofs](#the-proofs)
8. [Findings](#findings)
9. [Not modelled](#not-modelled)
10. [Plan](#plan)

## The system

The compiler is one process without threads. A file goes through the stages one
after the other (`main.c`): all tokens are read before any is parsed, all nodes are parsed
before any is checked, every function is checked and then built before the next one is
looked at, and all graphs are built before any is simplified. The first error prints a
message and ends the process (`fail_with_error`, `fail.c`). Between functions only the type context
(signatures, structs) and the table of types live on.

| Component | State | Operations | Interaction | Hard parts | Correct when |
|---|---|---|---|---|---|
| tokenizer, `tokenize.c` | read position, line number, pushed-back bytes, open indentation levels | next token; a pass that turns newlines into indent and dedent tokens | reads the file, gives the parser an array | bytes read too far and given back must give back line numbers; blank and comment lines between two indentations | line numbers are those of the source; indents and dedents are balanced |
| parser, `parse.c` | position in the token array | one function per grammar rule | calls itself; errors end the process | chains of operators, prefixes and suffixes around one operand, bodies that end with dedents | the tree is what the file says; nothing grammatical is refused |
| type checker, `typecheck.c` | the type context: local variables, signatures, structs | checks of each statement and expression; implicit casts | writes types into the tree; leaves the variables to the builder | casts inserted in both operands, pointers into growing lists, first assignments that declare variables | no crash; what it lets through builds into typed graphs; nothing well typed is refused |
| types, `types.c` | lazily made pointer types, kept in the type they point to | `get_pointer_type`, `create_struct`, `free_type` | shared by all stages; freed with the graphs and at exit | types are compared by address; chains of pointers to pointers freed from two places | one entry per type, none freed early, twice or never |
| graph builder, `build_cfg.c` | the graph, the current block, stacks of loop targets | one function per statement and expression form | recursion over the tree | code after a jump out; short circuits that make blocks inside an expression; nested loops; order of evaluation | the graph is well formed and computes what the tree says |
| variable analysis, `simplify_cfg.c:20-255` | one status per variable and block, a worklist | `merge`, `update_statuses_with_instruction`, `determine_var_statuses` | called by three passes | loops, pointers, effects that are not monotone, an assertion that relies on the order of visits | ends, and says of every execution what is true of it |
| simplifier, `simplify_cfg.c:257-541` | the graph's lists of blocks and variables, groups of unreachable blocks | five passes | each destroys what the next one works on | removal by moving the last element into the hole while walking; dangling jumps from freed blocks | removes only what no execution needs, leaves a graph `codegen.c` accepts; warnings tell the truth |
| code generator, `codegen.c` | map from variables to stack slots, from blocks to LLVM blocks | one instruction at a time | LLVM | signedness and width of integers | the machine code does what the source says |
| driver, `main.c`, `run.c`, `fail.c` | options | runs the stages, LLVM's passes and its JIT | all | what is freed between the stages | stages in order; nothing runs after an error |
| memory release, `free.c` | none | one function per structure | called by the driver and by the removals of the simplifier | blocks embedded in the graph, types in use elsewhere | everything freed once |
| debug printing, `print.c` | none | prints tokens, trees, graphs | driver | none | output only |

Nothing here waits, retries or runs at the same time; what is hard is order. A
status that is wrong in one round of one loop removes code that would have run; a byte
that is given back wrongly moves every later line number; a type made twice makes two equal types
unequal. The hazards in `PROJECT.json` list, line by line, what can go wrong and which
property would notice.

## The modules

| Module | Models | State and actions |
|---|---|---|
| `Tokenize` | `tokenize.c` | `file`, `st` (the C `struct State`), `reading` (the function whose loop is running), `token`, `tokens`, and `level` and `output` of `handle_indentations`; 12 actions |
| `TokenizeText` | the lines and bytes of a file, and what tokens must have to do with them | operators only |
| `Parse` | `parse.c` | `tokens`, `pos`, `ast`, `parse_error`; one action per toplevel node, every grammar rule an operator from cursor to cursor |
| `Written` | how a tree is written in Jou: the grammar from the tree's side | operators only |
| `ParsedFiles` | what the parser owes to its caller | operators only |
| `Ast` | the tree of `jou_compiler.h`, types as values | constructors only |
| `TypeCheck` | `typecheck.c` | operators from type context and tree to type context and typed tree, or to what compilation stopped with |
| `Cfg` | `struct CfGraph`, `CfBlock`, `CfInstruction`; what a graph must be like (`WellFormed`) | operators only |
| `BuildCfg` | `build_cfg.c` below `build_function` | `function`, `st` (the C `struct State`), `agenda` and `values` (the C stack), `build_error`; 28 actions |
| `Frontend` | `build_control_flow_graphs`: `TypeCheck` and `BuildCfg` composed, over the nodes of a file | `file`, `node`, `stage`, `typectx`, `graphs`, `stopped_by`; 7 actions |
| `VarStatus` | `enum VarStatus`, `merge` | operators only |
| `DetermineVarStatuses` | `determine_var_statuses`, `update_statuses_with_instruction` | `cfg`, `result`, `blocks_to_visit`, `tempstatus` as in C, plus where the loops are; 4 actions |
| `SimplifyCfg` | the five passes of `simplify_cfg` | `phase` (which pass and loop is running), the locals of the loops, `warnings`; 16 actions |
| `CheckedFunctions` | what `typecheck_function` hands to `build_function`: which trees and variables the builder may be given | constants and their assumption |
| `RunCfg` | execution of a graph with data reduced to what the analysis tells apart | `pc`, `ip`, `memory`, `addressed`, `written`; 3 actions |
| `Compile` | build, simplify, run one function: `BuildCfg`, `SimplifyCfg` and `RunCfg` composed | `built`, the graph before it was simplified |
| `AnalysisRun` | build, analyse, run: the analysis by itself against an execution | `stage` |
| `ExecuteCfg` | execution of the LLVM code `codegen.c` emits, with integers, pointers, structs and calls | `code`, `pc`, `ip`, `memory`, `input`, `trace`, `outcome`; 7 actions |
| `Program` | a file on its whole way: `Frontend`, `SimplifyCfg` and `ExecuteCfg` composed | `simplified` |
| `Meaning` | what a call of a function does, going by its source: the abstract specification `Program` implements | `source`, `input`, `trace`, `outcome`; 4 actions |
| `Types` | `types.c` and the places that free types | the table (`live`, `kind`, `valuetype`, `fieldtypes`, `pointer`), `structs`, `in_use`, `t`, `at`, `stage`, `failed`; 13 actions |
| `Sources`, `Programs` | short names for trees; typed functions | none |
| `MC*` | instances for TLC: the files and functions the runs compile | none |
| `DetermineVarStatuses_proofs` | the analysis by itself, and that a fixpoint of it describes every execution | none |
| `BuildCfg_proofs` | the builder: the invariant of a graph under construction | none |
| `Temporaries_proofs` | the builder: which variables are set wherever a block is entered | none |
| `AnalysisRun_proofs`, `Compile_proofs` | the compositions of builder, analysis, simplifier and execution | none |
| `Tokenize_proofs`, `Types_proofs` | theorems about these | none |
| `SharedLemmas` | facts about numbers and sequences | none |

`Program` extends `Frontend` (which extends `TypeCheck` and `BuildCfg`), `SimplifyCfg`
(which extends `DetermineVarStatuses`) and `ExecuteCfg`. `Compile` and `AnalysisRun` put `CheckedFunctions` in the place of `Frontend`. The stages hand the graph on as the code
does: `DefineFunction` is `typecheck_function` and the call of `build_function`,
`FinishFunction` its end and `reset_type_context`, `SimplifyGraph` the call of `simplify_cfg`;
`CallAnalysis` is a call of `determine_var_statuses` inside the step that makes it.

Definitions whose comment begins with "(mutant)" are not part of any specification. Each is what the
definition after it would be with a plausible mistake in the code;
`PROJECT.json` says which property must fail when it is put in its place.

## How the model corresponds to the code

*Recursion.* `build_cfg.c` recurses over the tree while it changes shared state. `agenda` lists the calls and
returns still to come, innermost first; `values` the results of calls that have
returned. One action is the C code between two recursive calls. The order of
emission, which decides in which block an operand lands, is thereby the code's.
The parser and the checker recurse too, but nothing looks at their state in between: a grammar
rule is an operator that takes a cursor into the tokens and returns it further on, a check takes
a type context and returns it with the variables it has added. An error is a cursor that is
stopped or a node of kind `ERROR`, and everything after it leaves it as it is, as
`fail_with_error` does not return. A failed assertion or a dereferenced `NULL` of the
checker is `CRASH`.

*Tokens* for the parser have a type, a text and a line. Texts are members of a small set. The
layout tokens are placed as the tokenizer places them.

*Types* are sequences of words, `<<"ptr", "int">>` for `int*`, compared by value. The code
compares addresses; `Types` shows that this is the same. There types are addresses, a
struct or pointer type is what was last written at the address, and `calloc` may return any
that is free. `typecheck_expression` writes a node's types
into `expr_types` once and `find_expr_types` finds them; here they are fields of the node.

*Pointers.* Blocks and variables are numbers in the order they are allocated. A freed block keeps its
contents in `cfg.block` but leaves `cfg.all_blocks`; the same for variables. Use after
free is a reference to something that is not listed.

*Removal.* `list.ptr[i] = Pop(&list)` is `SwapRemove`. The loops walk
backwards one element per action, so the order the lists end up in, on which
`codegen.c` and the order of warnings depend, is the code's.

*Bit vectors and arrays* of the analysis are sets and functions. `FirstListed`
is the lowest index, which both loops of `determine_var_statuses` go by.

*Data, twice.* `RunCfg` has the data the analysis tells apart: booleans keep their value;
any other defined value is `"value"`. An uninitialised variable holds `"garbage"`. A variable
whose address has been taken may be changed through the pointer at any time:
reading it gives any defined value. `simplify_cfg.c:103-104` states what the analysis assumes of it,
"assume that it's always defined": garbage read from a variable that has its address taken somewhere in the
function is kept apart as `"assumed"`, and no property blames the compiler for
it. `simplify_cfg.c:56-58` documents one more approximation, that merging
"unpredictable" with "undefined" forgets the latter; `Meaning("UNPREDICTABLE")`
contains garbage for that reason.

`ExecuteCfg` has the data of the machine. A value is a cell of bits, 2 for a byte and 4 for an int in the runs instead of 8 and 32;
whether an LLVM instruction takes them as signed is up to the instruction. A variable is a
sequence of cells, one per scalar, a pointer the variable and the cell it goes to. A
cell never stored to can be copied; computing with it, dividing by zero, overflowing a division and
accesses past a variable are undefined behaviour in LLVM and end the execution as `"undefined"`. Called
functions return any answer.

*Bytes of the file.* Five letters (those escapes and number prefixes are made of, and `a`), three digits, every
operator character and every special byte stand for themselves; `"other"` is any byte no token may start with.
The zero byte and a CR without LF are errors in `read_byte`, so they share one
value. The fake newline at the start is pushed back before the first read, as
in `tokenize_without_indent_dedent_tokens`. `read_byte` and `unread_byte` are functions from reader state to
reader state; one action is one round of the loop around them, and reading at
the end of the file changes nothing. A name may have `NameSize - 1` bytes.
Keywords are not told from other names: that choice only looks at a finished
name. The value of an integer is left out, whether it is one is not.

*Errors.* Every error of the tokenizer, the parser, the checker and the builder is there; `break` and `continue` outside a
loop stop the builder, a missing return stops the simplifier; all end the process. The error
`build_increment_or_decrement` has for other types is left out since
`check_increment_or_decrement` in `typecheck.c` has already refused them.

`Compile` runs the graph as it was *built*, not the simplified one. The
properties then say that everything the execution does is still there in the
simplified graph and agrees with the warnings. It also runs functions that were
rejected, to see what was refused. `Program` runs the simplified graph, which is what `codegen.c` gets.

## What is promised and how it is refined

`Meaning` says what a call of a Jou function does, from its source alone: it
interprets the untyped tree with values that know their own type, integers that
wrap around at the width of their type, and evaluation from left to right. There
are no casts, temporaries, blocks or statuses in it. What can be observed of a call are the calls it makes
(`trace`, with arguments and answers) and its end (`outcome`: the value returned and the
caller's buffer). Where the source does something undefined, or the answer depends on a variable
never set, `Anything` may happen.

`Program!MeaningIsKept` is `Source!Spec` with `Source == INSTANCE Meaning WITH source <- file`;
the other variables have the same names. Every step of checker, builder and
simplifier is a stutter, every instruction too, except that a call is
`MakeNextCall` and the return is `End`. So an operand evaluated too late, a variable not
copied before it is changed (`build_cfg.c:416`), a short circuit evaluated twice, a sign
extended wrongly, a jump wrongly cut or a block wrongly removed all show up as a call with other
arguments, in another order, or another result.

`Written` plays the same part for the parser: it writes a tree, with parentheses where they
are needed to keep its structure, and marks around every expression, where they may be. `ReadAsWritten` asks that the file is one of the ways to write what was
parsed: the same tokens in the same order, a group wherever the tree needs one, and no group but around one whole expression of
the tree (`Groups`; what is between a pair of parentheses of the file is compared with what is between a pair of marks). So `a - (b - a)` is not read as
a tree that leans to the left. `GrammaticalIsAccepted` asks that nothing that was
written is refused. `MCParse` has TLC verify (`WritingIsUnambiguous`) that different trees of the run are written differently, and that
none of their expressions, written with what parentheses it needs, is also a way to write another one, with some it does not need. So `ReadAsWritten` and `GrammaticalIsAccepted` leave the parser
one choice among the trees of the run: a file written from one of them is read as that one.

## The runs

Every function or file of a family is an initial state, so a run covers all of them, and
for each all values of its arguments and all outcomes of calls.

| Run | Family | Checks | Why |
|---|---|---|---|
| `tokens` | `AllFiles` (about 12,600): every file of up to four bytes over an alphabet for operators, bytes of operators in front of a zero byte or a lone CR, one for names and numbers, one for strings and one for line ends; files of three and four lines, indented by 0, 2, 4 and 8, with code, comments or nothing on them | `TypeOK`, `NothingIsLost`, `LineNumberIsTrue`, `LongestMatch`, `ErrorLineIsTrue`, `IndentationIsNesting`, `LinesEndInNewline`, `TokenizingEnds` | bytes are given back in six places, over line ends too; what comes out is compared with the lines of the file |
| `parsing` | `ParserFiles` (about 13,900): every line of up to four tokens over six alphabets, signatures with every list of up to three parameters (names repeated, `...` anywhere, declared or defined), operands and operators of all precedences in turn, all prefixes and suffixes around an operand, files written from trees with every operator inside every other, and a file with every construct in it with one token left out, doubled or replaced | `ReadAsWritten`, `GrammaticalIsAccepted`, `NamesAreDistinct` | precedence is spread over eight functions, and what later stages take for granted is decided here |
| `checking` | `SourceFiles` (about 7,800): a function with variables of every type around every expression of depth two and many of depth three, well or ill typed; a value of every type in every place of a statement; files of several functions that call each other, with names used twice; expressions made to be well typed | `TypeOK`, `CheckerDoesNotCrash`, `BuilderAssertionsHold`, `InstructionsAreTyped`, `GraphsMatchSignatures`, `WellTypedIsAccepted` | `main.c:83-84` promises an error or valid LLVM IR; the asserts of the builder and LLVM's typing rules are what the checker's acceptance has to imply |
| `meaning` | `ExecutedFiles` (367): pairs of expressions that change what the other uses, arithmetic on both widths, calls in conditions that may not be evaluated, loops left in the middle, variables reached through pointers and as fields, functions without a result | `MeaningIsKept` | see above |
| `functions` | `JumpFunctions` (about 1100): an `if` or a loop on a flag that is set, cleared or copied before, inside and after, with `return`, `break`, `continue` at the end of bodies, also inside an outer loop; `LogicFunctions` (144): `and`, `or`, `not` nested two deep over constants, an argument and a call; `ReturnFunctions` (350): branches and loops of a function that returns `bool` return, set a local or do nothing; `PointerFunctions` (about 300): a flag changed through its address, every addressable form, casts, struct literals; `BareFunctions` (3): no variables at all | `TypeOK`, `NeverUnvisited`, `BuiltGraphIsSound`, `ReadyForCodegen`, `OnlyReachableCodeIsKept`, `NothingUnvisitedIsScanned`, `JumpsSurvive`, `UnreachableCodeIsReported`, `TemporariesAreSetBeforeUse`, `MissingReturnIsNoticed`, `RejectedReturnsGarbage`, `ArgumentsStayFirst`, `UseOfUnsetIsWarned` | the graph fits the simplifier, what is left fits the code generator, what was cut off is exactly what cannot run, and what the user is told is true |
| `ends` | `LoopFunctions` (about 120): loops in loops, endless ones, flags whose status goes back and forth | `Terminates`, `ResultsOnlyClimb` | the transfer function is not monotone (a copy takes `UNDEFINED` to itself, the greater `UNPREDICTABLE` to `DEFINED`), so that the worklist empties is not obvious: it rests on stored statuses never being taken back |
| `statuses` | `JumpFunctions`, `ReturnFunctions`, `PointerFunctions` | `StatusDescribesExecution` | what the analysis promises, at the end of every block any execution passes |
| `types` | every order of asking for pointer types and making structs, with four addresses, two built-in types and two structs; compilation ends or fails at any time | `TypeOK`, `PointerTypesAreUnique`, `NothingIsFreedTwice`, `TypesOutliveTheirUse`, `NothingIsLeftBehind`, `ExitEnds` | chains of pointer types are freed from two places, in an order the table's links decide |
| `undefined_missed` | `UseFunctions` (125): three statements in one block that use, set and copy a flag | `GarbageUseIsWarned` | see Findings |
| `signed_bytes` | `ComparingFiles`: bytes compared with bytes | `OutcomeIsTheSources` | see Findings |
| `unaddressable` | `UnaddressableFiles`: a field read of different expressions | `AddressesExist` | see Findings |
| `void_assigned` | `VoidAssigned`: the result of a call assigned to an old or a new variable | `CheckerDoesNotCrash` | see Findings |

*Bounds.* A function has up to four statements, nesting of two loops and an
`if`, and seven lines. The analysis only distinguishes seven statuses per variable and
merges two at a time, so its interesting cases need one variable set on two
paths, a loop that brings a status back to its start, and a copy to carry it on:
all are in the families. The block lists have up to twenty elements, with up to
three groups of unreachable blocks, which exercises every case of the swaps (first, last,
neither). `INT_MAX = 1000` stands for the C constant. In the runs it is above every line; the proofs only take it for a natural
number (`LimitAssumption`).

The tokenizer never looks at more than four bytes at once (the three of an
operator and the one after), and pushes back at most three. `NameSize = 4` stands
for the 100 of the C arrays: names of up to four bytes reach it. Nesting is
compared between neighbouring lines only, and three lines with a blank or
commented one in between have every pair of depths; the fourth line closes and reopens.

The parser looks at one or two tokens ahead; every rule calls only the next, so two operators next to
each other, with one more around them, have every pair of levels meet. The checker looks
at a node and the types of its operands; depth two has every type in every
operand, depth three a cast inside what is cast.

`ByteBits = 2` and `IntBits = 4`: an int has more bits than a byte, and both have values
on either side of their sign bit, which is all that casts and comparisons can tell. `MaxCalls = 4` ends the
observation of loops; the buffer of four bytes has the range of a byte as its indexes.
In `types` two structs with one field and four entries on the heap have chains of length
three, two chains at once, and an address used again after it was freed.

*Deadlock* is checked in every run. `Stopped` and `Done` let a run that has reached its
end, or an error, stay there. Endless loops of the compiled function cycle.

*Not vacuous.* Each property has a mutant in `PROJECT.json` it fails for. The
passing runs together fire every action.

## Fairness

`FairSpec` of `Compile` asks weak fairness of `CompileStep` as a whole. The compiler is one
thread which waits for nothing, so it takes its next step as long as there is
one; which step it is, is determined. Nothing is asked of the compiled
program, which may loop for ever. `FairSpec` of `Tokenize` asks the same of
its `Step`: reading a file that is open does not block. `Spec` of `Types` asks it of `Next`, for the same reason, and of
`CompileDone \/ CompileFails`: a file has an end, so the compiler does not ask for types for ever.
Its `ProgramRuns` is the compiled program coming to its end; for one that does not, the rest of the sequence is never reached and nothing is freed.

## The proofs

Every theorem holds for all values of the constants that satisfy the named assumptions: all files, all
functions, graphs of any size. The proofs of `Compile_proofs` rest on those of `Temporaries_proofs`, `BuildCfg_proofs` and
`DetermineVarStatuses_proofs`, these on `SharedLemmas`.

### The analysis

`DetermineVarStatuses_proofs` is about `AnalysisSpec`, a call of
`determine_var_statuses` with *any* graph that is `WellFormed`.

| Theorem | Says |
|---|---|
| `MergeLaws` | `merge` is commutative, associative, idempotent and has `UNVISITED` as its unit, as the comment above it demands |
| `AnalysisTypeCorrect` | statuses, worklist and positions stay within the graph |
| `AssertionNeverFails` | `NeverUnvisited`: the assertion at the top of `update_statuses_with_instruction` holds |
| `StatusesOnlyClimb` | `ResultsOnlyClimb`: a visit never takes back what was stored |

The assertion is not inductive: whether the block that is visited has been
reached depends on why it was put on the worklist. The invariant `AnalysisInv`
adds that. `WorklistInv`: every block on the worklist is the start block or has
a predecessor whose statuses are all known. `VisitInv`: during a visit either
`tempstatus` is known already or one of the predecessors still to be merged is.
Taking a block off the list (`StartVisitInv`) turns the first into the second, since the start
block's entry statuses are known; merging (`MergePredecessorInv`) keeps the second because
`merge` gives `UNVISITED` for nothing else than two `UNVISITED`;
instructions (`RunInstructionInv`) never make a status unvisited; and
storing (`EndVisitInv`) makes the block's own statuses known, which is the reason
its targets may go on the list. `ResultsOnlyClimb` follows from the laws of `merge`.

The rest of the module shows what the result means, in two halves that do not depend on where the graph comes
from. The first: when the worklist is empty, what was stored is a `Fixpoint` (`DoneIsFixpoint`). A block is `Settled` if there is a
list of statuses, one before each instruction (`Trace`), that starts no lower than
the entry statuses and what its predecessors stored, follows
`update_statuses_with_instruction`, and ends no higher than what is stored for the block. Its invariant, `SoundInv`, has every
visited block's targets settled or on the worklist, and during a visit collects the trace
of the block at hand. The transfer function is not monotone, so that this says "visiting again would teach nothing" by way of the
trace of the *last* visit, not by applying the function again.
The second half: execution stays within any fixpoint (`ExecuteDescribed`, `RunStepWithin`). `Within` says that what
variables hold before the next instruction is among what that place of the trace allows (`MayHold`), and variables
with pointers to them are `UNPREDICTABLE`. One thing must be asked of the graph (`PointersGoToTemporaries`): the
destination of an `ADDRESS_OF_VARIABLE` has no pointers to it, as otherwise the instruction would be skipped
and the variable it points to not marked. The builder guarantees it.

### The builder

`BuildCfg_proofs` needs to know what trees the builder may be given. `CheckedFunctions` has the set
`Functions` and, for each, the set of expressions and statements it consists of; a tree is a value within a
value, and so "every part of it" is stated without recursion. `FunctionsAssumption` asks
of each part what `typecheck.c` and the grammar guarantee: conditions are `bool`, operands have values, a name is one of the
function's variables, "return" is not among the names (it is a keyword), increments and addresses are not `bool`, lines are natural numbers. TLC
evaluates the assumption in every run of `Compile` and `AnalysisRun`, on their 2,000 functions.

What is to be shown, `BuiltGraphIsSound`, is false of every graph under construction: blocks have no jump yet, a variable
that will decide a branch is still on the C stack. `BuildInv` is the statement that the calls on the `agenda` are going to
see to that. It says that there is a sequence of *layouts* between these calls. A layout tells what is on the stack of returned variables and
what for (`"bool"`, `"value"`, `"any"`), how many loops the code is in, and whether the current block
is open. `Effect(item, x, y)` is what a call needs and leaves: `build_if_statement`, back from its condition,
takes a `bool`. `Leads` asks that the calls follow each other from the present layout to the
empty one; and every block without a jump must be the current one or be `Pending` in a call. One lemma per
action shows that the action replaces the first call of the agenda by calls that lead from the same layout to
the same layout (`StepReplaces`), or returns what the call promised (`StepReturns`). `Straight` collects what code without jumps
may do to the graph; `Continues` what any code may.
When the agenda is empty nothing is pending, so every block is finished (`BuiltWellFormed`, `BranchesAreDecided`, `BuiltPointers`).

### One function all the way

| Theorem | Says |
|---|---|
| `AnalysisRun_proofs!AnalysisIsRight` | `StatusDescribesExecution`: at the end of every block of every execution, what the analysis stored is true |
| `BuildFunctionIsSound` | `BuiltGraphIsSound` |
| `JumpsAreKept` | `JumpsSurvive`: no execution takes a jump that was cut or meets a block that was removed |
| `NothingElseIsKept` | `OnlyReachableCodeIsKept`: what is left is the least set closed under jumps, and the end block |
| `ArgumentsKeepTheirPlaces` | `ArgumentsStayFirst` |
| `OnlyGarbageIsRejected` | `RejectedReturnsGarbage` |
| `GarbageIsNotReturnedSilently` | `MissingReturnIsNoticed` |
| `TemporariesAreSet` | `TemporariesAreSetBeforeUse`: no execution reads a variable the builder made up before it is set |
| `CodegenCanWork` | `ReadyForCodegen`: no jump, instruction or branch that is left is about something that was removed |
| `ScanMeetsNoUnvisited` | `NothingUnvisitedIsScanned`: the assertion of `update_statuses_with_instruction`, called from `warn_about_undefined_variables` |
| `UnsetUseIsReported` | `UseOfUnsetIsWarned`: the use of a variable nothing sets or points to is reported on its line |
| `UnreachableCodeShown` | `UnreachableCodeIsReported`: the lines reported as unreachable are the first lines of the pieces of removed code, all of them and no others |
| `CompilerTypeCorrect` | `TypeOK` |
| `AssertionHoldsInPasses`, `StatusesClimbInPasses` | `NeverUnvisited` and `ResultsOnlyClimb` again, for the three analyses inside `simplify_cfg` |

All but the first are in `Compile_proofs`. Those up to `GarbageIsNotReturnedSilently` follow from one invariant, `CompileInv`, that carries two facts from pass to pass.

*Cut by a fixpoint.* When the first pass has cut branches, the statuses it went by are gone: `result` is used again by the
next analysis. `JumpsInv` keeps them as a bound variable: there is a fixpoint `r` of the graph as it was built
such that the graph at hand is that graph with branches cut only where `r` decides them
(`Cut`). When the function is called, the execution starts within `r`; it stays there; so at a branch that was cut the condition
has the value `r` says and the jump taken is the one that was kept (`JumpsAreKept`).

*Closed under jumps.* `SearchInv` is the search for reachable blocks: `Searched` says that the start block and all targets of marked
blocks are marked or on the stack, and that whatever is marked or on it is in every closed set.
`BlocksInv` says that the removal, which walks the list backwards and fills holes from its end,
only has blocks it keeps behind it. So when it is done exactly the marked blocks are left (`NothingElseIsKept`), an execution never leaves them (`RunInv`),
and a second analysis of what is left describes the same executions again. `ReturnInv` carries its verdict on the return value in the same way as
`JumpsInv` does the first: `Pruned`, the graph it was made for, has the variables
that are removed meanwhile. That a rejected function returns garbage, and one that was let through without a warning a value, is then
the meaning of the statuses `UNDEFINED`, `POSSIBLY_UNDEFINED` and the rest at the end block.

*The arguments* stay in front (`VariablesInv`) because the walk comes down from the end and fills a hole from behind it: an
element moves only into a place that an unused variable had, never an argument's.

*Temporaries.* That a variable is set on every path to its use is a statement about a graph, but `build_cfg.c` never looks at paths: it is so
because of the order in which the calls emit code. `Temporaries_proofs` gives each block `b` a set `K[b]` of made-up variables that are set whenever
execution enters it. `InOrder` says that the code respects `K`: read from `K[b]` on, no instruction of the block takes a temporary not known to be set, what is known
at the block's end covers `K` of the blocks it jumps to, and a branch looks at something known. Only
the blocks of `and` and `or` have anything in `K`: the two ways what was known before the branch (`a + (b and c)` has `a` waiting meanwhile), and where they meet the result too (`AtBranch`). The blocks of
statements and the targets of `break` and `continue` have nothing.
While the graph is being built this is again not inductive: the calls still on the `agenda` will use what others have left in `values`, possibly
after code in other blocks. So `Flows` follows the agenda as `Leads` does for `BuildInv`: every call finds known what it is going to take. `OrderInv` says that some such `K` exists; each action keeps it, by the
same `K` or one extended to the blocks it makes. An execution then only has to remember (`SetSoFar`) that
it has set, or has a pointer to, whatever `K` says of its block and the instructions passed have added. Pointers are no way around: no temporary that a
branch looks at has its address taken (`NoBoolPointers`). That there is a `K` is not something TLC can evaluate; what
it can is the consequence, `TemporariesAreSetBeforeUse`, which was checked first.

*Variables that are left.* A branch does not count as a use (`simplify_cfg.c:425-438`), so that a variable that decides a branch stays
only because a block that stays sets it. That it does is `BranchesAreOnUsed`. The blocks that are left are the least set that is closed under jumps; the
set of those where everything in `K` is set in some block that is left is closed under jumps too, because `K` of a block is covered by what is known at the end
of the blocks before it. So everything a block that is left knows, and the variable of its branch with it, is set in one that is left (`KnownIsSetSomewhere`).
`KeptInv` says that `used` is what is mentioned and that the removal, which moves the last variable into each gap, loses none of it. With that
the graph is well formed again (`LeftIsWellFormed`), which is what `codegen_function_def` and the last analysis need.

*The last analysis* runs on a graph of which it is known that every block but the end can be reached. When it is over, each of these is visited: a visited block's trace starts and
ends with known statuses (`TraceIsKnown`), so it passes them to its targets, and the visited blocks are closed under jumps (`AllIsKnown`).
Blocks listed but never visited would make the scan fail its assertion; the end block is the only one, and has no instructions. A variable nothing sets
stays `UNDEFINED` in every status of the analysis and of the scan, which writes into the statuses it reads (`StillUnset`, kept by
`UpdateIsSilent` and `MergeIsSilent`). `ScanInv` says that whatever operand the scan has passed has been reported if it is such a
variable with a name; and a variable without one is never in this situation, by `TemporariesAreSet`. An execution only meets blocks that are left, with the instructions they had
when the graph was built. So what it uses was scanned (`UnsetUseIsReported`).

*Unreachable code.* A piece of it is what jumps connect, in either direction: the least set of removed blocks with the block
in it that nothing connects to another removed block. The code instead joins groups, one removed block after the other. `GroupInv` says that at any moment the groups are a
partition of the removed blocks into parts that hang together (`Grouped`), and that the jumps of blocks already looked at stay within
a group (`JumpsInside`). Joining two groups that a jump connects keeps both (`JoiningGroups`), although the joined group goes to the place of one and the last group to that of the other; so when
all blocks were looked at, the groups are the pieces (`GroupsArePieces`). `ReportInv` says that the lines
warned about so far are the first lines of the groups passed. That a group is passed over when its first line is `prev_lineno` loses nothing, because `prev_lineno` is a line warned about just before or the `-1` it starts with, and
no line is negative; this is where the proof needs lines to be naturals. And only what is connected in the graph when the groups are made counts as connected in the end,
as nothing after that changes a jump (`ReportStays`, `ReportKept`).

*Bounds.* `TypeOK` needs that there are no more blocks to remove than blocks and no more groups than blocks to remove (`GroupsFit`), which `JoinGroups` keeps by
losing a group whenever it joins two (`JoinGroupsSeq`), and that before the passes begin nothing is left of an earlier one (`BeforeInv`). The proof turned up that the bound
on loop indexes `TypeOK` had stated was wrong for a function without variables, where the search for blocks goes one further; TLC had not been given one.
`BareFunctions` are such functions, and the bound is now by list.

### The tokenizer

`Tokenize_proofs` is about any file of the bytes listed (`FilesAssumption`) and any
array size from 2 on (`NameSizeAssumption`; the C arrays have 100).

| Theorem | Says |
|---|---|
| `TokenizerTypeCorrect` | `TypeOK`: names and operators fit into their arrays with the zero behind them, the read position stays in the file, the nesting is a multiple of 4, and `assert(tokens.ptr[0].type == TOKEN_NEWLINE)` in `handle_indentations` holds |
| `NothingIsEverLost` | `NothingIsLost`: what was read too far comes back in order, so that what is still to be read is always the rest of the text |
| `LineNumbersAreTrue` | `LineNumberIsTrue`: the line number counts the newlines read and not given back |
| `ErrorLinesAreTrue` | `ErrorLineIsTrue`: errors of the first pass are on the line of the last byte read |
| `TokensAreLongest` | `LongestMatch`: names, numbers and operators are as long as they can be and spelled as in the text |
| `EveryLineEnds` | `LinesEndInNewline`: each line with tokens ends in one newline token, and changes of depth come behind it |
| `DepthIsIndentation` | `IndentationIsNesting`: the depth of a token is the indentation of its line, exactly the lines with code on them have tokens, and what is opened is closed |

The assertion depends on the very first step, several loops earlier.
`FirstInv` carries it along: as long as there is no token, either the fake newline is
the one byte pushed back, or the newline token it starts is being made; after that the first
token is a newline or the end of the file, and the latter gets a newline put in front
of it. `BufferInv` bounds the text of a token in each loop, and `TypeInv` keeps what is
pushed back to bytes, so that a bad byte can only come from the file. There is one lemma per action;
`ContinueInv`, `FinishInv` and `FailInv` are the three ways a round ends. That `First` finds an entry of the
operator list rests on `LeastNatural`, as in the analysis: a nonempty set of naturals has a least element because
`<` is well-founded.

What tokens have to do with the text follows from one more invariant, `TextInv`. `Source`, the bytes of the file with a newline in front and
without the CRs before newlines, is at every moment `ReadBy(st)`, what was read, joined with `Rest(st)`, the bytes given back from the last to the
first and then the rest of the file (`InText`); and the line number is the number of newlines in the former (`OnLine`). Reading
moves the first byte of the one to the end of the other (`ReadsOn`), `unread_byte` moves it back (`GivesBack`), and
the loop after `read_operator` a whole piece (`GivesAllBack`). That it is given back to the place it came from needs to be known too: the name, number or
operator under way is the end of what was read (`NameSpelled`, `OperatorSpelled`), so that its unused end is. `WithoutCRFromFront` is the law of
`\r\n`: one byte or two are taken off the front of the file for one byte of the text; `FlattenSeqFromFront` derives it
from the community modules' definition of `FlattenSeq`.

An operator is the longest that the text goes on with because the list has longer operators before shorter ones (`OperatorLengths`,
`TakenOperator`), and because the loop stops only at three bytes or before a byte that is in no operator: a longer
operator would need that byte (`OperatorIsLongest`).

That lines end in newlines is said of the finished list, but decided while bytes are read. `LineInv`, for files without backslashes (behind
one, a string may go on over several lines), therefore starts with the tokens of the first pass: `Follows` says what may come behind
what. It is kept because a newline or the end of the file is only looked for behind a token of the line, because the line number stays the
same on the way to the line's next token (`Between`, `ReadingLaw`), and because the byte behind the spaces that
end a newline token starts a token (`StartsToken`). `Linked` is the same law for the list that `handle_indentations` makes of it; each of its
rounds adds a piece that is linked in itself and at its front (`LinkedConcat`).

That depth is indentation compares the finished list with line starts and spaces of the text, so `NestInv` follows the spaces from byte to byte.
`Spaced(ReadBy(st), k)` says that what was read ends in a newline and `k` spaces; at the first other byte this settles how far the line is
indented and whether it shows anything (`LineAtByte`, with `StartIs`: no two newlines start the same line). Behind a newline, the lines of the tokens so far
are exactly those before it that show something, and the count of spaces is right, unless the line is already known to show nothing: that is what a
comment leaves behind (`AtIndentation`). On a line with code that line is the tokens' last or will be; and the
count in a newline token is the indentation of the line it leads to (`Under`), however many blank lines it swallowed. In `handle_indentations` four times the
depth is `level` (`HandlingNest`); `DepthConcat` adds up the depths of the pieces its rounds append, and as `level` and the new indentation are both multiples
of 4 the number of indents or dedents is exact.

### The types

`Types_proofs` is about any set of addresses, any sequence of different built-in types, and any bounds on
structs and fields (`BuiltinsAssumption`, `AddressesAssumption`: addresses of entries on the heap and in `global_state` differ, and none is `NULL`).

| Theorem | Says |
|---|---|
| `TypeCorrect` | `TypeOK` |
| `TypesAreAddresses` | `PointerTypesAreUnique`: a pointer type is made once, so that comparing addresses is comparing types |
| `FreeingIsSafe` | `NothingIsFreedTwice`: the loop of `free_type` is only ever at an entry that is allocated |
| `TypesLiveLongEnough` | `TypesOutliveTheirUse`: what graphs, signatures and structs mention is there until code generation is done, with what it refers to |
| `EverythingIsFreed` | `NothingIsLeftBehind`: when the process is over, nothing is allocated any more, except what hangs on structs after an error |

That there is one entry per pointer type is not inductive: an entry that nothing refers to would be made again. The
invariant `IInv` says how the table is linked. `Chained`: an entry on the heap for a pointer type
is the one its value type refers to, and the value type is still there, except for
the entry that `free_type` has come to. `Linked`: whatever is there and refers to a pointer type refers to an
allocated one of the right kind. `CursorIsLoose`: nothing that is there refers to the
entry `free_type` has come to any more, which is why it may go. `StructsWait`:
the structs that `destroy_type_context` has not got to are all different and all allocated.
`NothingFreedYet`: before that, nothing has been freed. A built-in type counts as there
(`Unfreed`) until `free_global_state` has passed it. Each action has a lemma;
`FreeStep` is the heart, where the cursor moves from an entry to its pointer type and
the latter becomes loose because its holder has just gone.

For `EverythingIsFreed` this is not enough, since pointer types in a circle would be linked and never freed.
`NoCircles` rules that out: every nonempty set of entries on the heap has a struct in it or one whose value type is not in the set. (A
new entry is not yet anybody's value type, so it can be added to any set.) With `StructsAreListed`, the entries that are left at the end form a set
in which every value type would be in the set too.

### Only model-checked

- Liveness, which is out of the prover's reach: that compiling, tokenizing and exiting end.
- `Parse`, `Written`, `TypeCheck`, `Meaning` and what extends or instantiates them (`ParsedFiles`, `Frontend`, `Program`) use `RECURSIVE` operators, as the code
  they translate is recursive over trees of any shape; they stay with TLC, and with
  them the refinement of `Meaning`. For the same reason it is not proved that what the checker accepts satisfies `FunctionsAssumption`; the run `checking`
  sees that the builder's assertions hold of it and that typed graphs come out.

## Findings

1. **Scanning from the wrong end** (`simplify_cfg.c:461`, run `undefined_missed`).
   `warn_about_undefined_variables` runs over each block starting from the
   statuses of the block's *end* (`simplify_cfg.c:170`). A use before a later
   assignment in the same block is therefore judged by that assignment: a use of garbage goes unreported.
   What remains true is checked too: a variable that nothing sets is
   always reported at its use (`UseOfUnsetIsWarned`).
2. **Bytes compared as signed** (`codegen.c:233`, run `signed_bytes`). `<`, `>`, `<=` and `>=` between two
   bytes compile to a signed comparison, although `jou_compiler.h:312` says a byte is unsigned; with values above
   127 they give the wrong answer. The run `meaning` leaves these comparisons out, so that it shows the rest is right.
3. **Fields of what has no address** (`build_cfg.c:337`, run `unaddressable`). The checker accepts `make().x` and `Foo{}.x`, the
   builder aborts with a failed assertion. `main.c:83-84` promises an error message
   or valid LLVM IR. The files of the run `checking` leave out just these expressions (`ReadableFields`).
4. **A variable made from nothing** (`typecheck.c:642`, run `void_assigned`). `x = f()` with a new `x` and an `f` that
   returns nothing dereferences `NULL`; everywhere else the error is the one `tests/other_errors/using_void_function.jou` expects.

Two smaller observations, not stated as properties: indentation errors are placed
on the line after the newline token, which also swallows blank lines and
comments (`tokenize.c:396`), so that they may name one of those; and the same line may be reported
as unreachable twice, because only the previous warning's line is remembered (`simplify_cfg.c:373`).

## Not modelled

- The tokenizer and the parser are not composed with each other: `Parse` takes any token array of its
  families, laid out as `Tokenize` lays them out. Nor is the parser with the checker, whose files are trees.
- Values of integer literals (`strtoll`, `tokenize.c:157`) and the table of keywords.
- Strings as data, structs within structs and pointers as arguments of calls in `ExecuteCfg` and `Meaning`;
  the graphs that make and pass them are built and typed in `checking`. `Meaning` does not fix
  what a byte combined with a negative int gives in a division, where the type of the
  result follows the left operand only (`typecheck.c:217`), nor the order of two bytes (finding 2): the
  families avoid both. A function that loops for ever without a call shows nothing.
- That ill-typed programs are refused is seen through what is built from those accepted, not against a
  second statement of the typing rules.
- Ownership of tokens, trees, blocks and constants (`free.c`): each structure is freed at one place by a walk over
  itself; blocks and variables the simplifier frees are those removed from the lists.
- `print.c`, LLVM's optimisation passes, the JIT, command line options: output
  and libraries.
- Wording of messages beyond their kind, line and variable.

## Plan

Done, in this order: `VarStatus`, `DetermineVarStatuses` with its proofs,
`BuildCfg`, `SimplifyCfg`, `RunCfg`, `Compile`, `AnalysisRun`, `Tokenize` with
`TokenizeText` and its first proof; then `TypeCheck` and `Frontend`, `ExecuteCfg`, `Meaning` and `Program`,
`Parse` with `Written` and `ParsedFiles`, and `Types` with its proofs; then the proofs about executions of a
fixpoint, `BuildCfg`, `AnalysisRun` and `Compile`, that all types are freed, and what tokens have to do with the text; last, that
temporaries are set before they are used, and with it what had been left of `Compile`.

Every invariant and action property of `AnalysisRun`, `Tokenize`, `Types` and `Compile` is a theorem. If the code
goes on, the next things worth doing are:

1. The parts listed under [Not modelled](#not-modelled), first the composition of the tokenizer with the parser.
2. A statement of what the checker refuses that is independent of `TypeCheck`.
3. The finding `undefined_missed` fixed, `GarbageUseIsWarned` proved from `ScanInv`: with statuses of the block's start, what the scan
   passes is what executions within the fixpoint read.
