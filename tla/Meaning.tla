------------------------------ MODULE Meaning ------------------------------
(***************************************************************************)
(* What the last function of a file does when it is called, going by its   *)
(* source: an abstract specification the compiler is to implement.  All    *)
(* anyone sees of a call is the calls it makes of other functions, with    *)
(* the arguments, and what it leaves behind when it ends.                  *)
(*                                                                         *)
(* Source trees are interpreted directly, with mathematical integers that  *)
(* wrap around where a byte or an int does, and with values that know      *)
(* their type: no checker, no graph, no casts.  Structs have scalar        *)
(* fields; a pointer goes to one scalar of a variable or of the caller's   *)
(* buffer.                                                                 *)
(***************************************************************************)
EXTENDS Integers, Ast, SequencesExt

CONSTANTS ByteBits, IntBits,    \* width of the two integer types
          IntAnswers            \* what functions returning integers may return

VARIABLES
    source,    \* the file, its last function being the one called
    input,     \* its arguments, a sequence of numbers, and the caller's buffer
    trace,     \* the calls made so far, with what they returned
    outcome    \* how the call of the function has ended

vars == <<source, input, trace, outcome>>
-----------------------------------------------------------------------------
\* Values are sequences of scalars, one for each field of a struct.  A pointer
\* is the n-th scalar of the variable at.
Scalar(tag, n, at) == [tag |-> tag, n |-> n, at |-> at, set |-> TRUE]
Unset(tag) == [Scalar(tag, 0, "") EXCEPT !.set = FALSE]
Half == 2 ^ (IntBits - 1)
Number(tag, n) ==
    Scalar(tag, CASE tag = "byte" -> n % (2 ^ ByteBits)
                  [] tag = "int" -> ((n + Half) % (2 * Half)) - Half
                  [] OTHER -> n, "")
Truth(condition) == Scalar("bool", IF condition THEN 1 ELSE 0, "")
Convert(x, tag) ==
    IF tag \in {"byte", "int"} THEN [Number(tag, x.n) EXCEPT !.set = x.set] ELSE x
ConvertAll(xs, tags) == [i \in DOMAIN tags |-> Convert(xs[i], tags[i])]
TagsOf(xs) == [i \in DOMAIN xs |-> xs[i].tag]

\* The types a file names: the tags of their scalars.
Tag(asttype) == IF asttype.npointers > 0 THEN "ptr" ELSE asttype.name
Structs == {source[i] : i \in {j \in DOMAIN source : source[j].kind = "DEFINE_STRUCT"}}
Tags(asttype) ==
    LET named == {s \in Structs : asttype.npointers = 0 /\ s.name = asttype.name}
    IN  IF named = {} THEN <<Tag(asttype)>>
        ELSE LET types == (CHOOSE s \in named : TRUE).fieldtypes
             IN  [i \in DOMAIN types |-> Tag(types[i])]
Offset(field) ==
    LET s == CHOOSE s \in Structs : field \in ToSet(s.fieldnames)
    IN  (CHOOSE i \in DOMAIN s.fieldnames : s.fieldnames[i] = field) - 1
SignatureOf(name) ==
    (CHOOSE n \in ToSet(source) :
        n.kind \in {"DECLARE_FUNCTION", "DEFINE_FUNCTION"} /\ n.signature.funcname = name).signature
Called == source[Len(source) - 1]    \* the END_OF_FILE node is last
-----------------------------------------------------------------------------
\* A run in progress: mem gives every variable its scalars, calls are those
\* made so far and answers what is left of their results, status says where
\* control goes, value is what the expression evaluated last gave.
Running(r) == r.status = "running"
Gives(r, xs) == IF Running(r) THEN [r EXCEPT !.value = xs] ELSE r
GoesTo(r, status) == IF Running(r) THEN [r EXCEPT !.status = status] ELSE r
Undefined(r) == GoesTo(r, "undefined")
Only(r) == r.value[1]

Pointed(r, p) ==
    /\ p.set /\ p.at \in DOMAIN r.mem
    /\ p.n + 1 \in DOMAIN r.mem[p.at]
Load(r) ==
    IF ~Running(r) THEN r
    ELSE IF Pointed(r, Only(r)) THEN Gives(r, <<r.mem[Only(r).at][Only(r).n + 1]>>)
    ELSE Undefined(r)
Store(r, p, x) ==
    IF ~Running(r) THEN r
    ELSE IF Pointed(r, p)
    THEN [r EXCEPT !.mem[p.at][p.n + 1] = Convert(x, r.mem[p.at][p.n + 1].tag)]
    ELSE Undefined(r)
Quotient(m, n) ==
    LET abs(k) == IF k < 0 THEN -k ELSE k
        q == abs(m) \div abs(n)
    IN  IF (m < 0) = (n < 0) THEN q ELSE -q

\* Bytes stay bytes among themselves, with an int everything is an int.
Arithmetic(r, op, x, y) ==
    LET tag == IF "int" \in {x.tag, y.tag} THEN "int" ELSE "byte"
        give(n) == Gives(r, <<Number(tag, n)>>)
    IN  CASE op = "ADD" -> give(x.n + y.n)
          [] op = "SUB" -> give(x.n - y.n)
          [] op = "MUL" -> give(x.n * y.n)
          [] op = "DIV" /\ (y.n = 0 \/ (x.n = -Half /\ y.n = -1)) -> Undefined(r)
          [] op = "DIV" -> give(Quotient(x.n, y.n))
          [] op \in {"EQ", "NE"} ->
                Gives(r, <<Truth((x.n = y.n /\ x.at = y.at) = (op = "EQ"))>>)
          [] op = "LT" -> Gives(r, <<Truth(x.n < y.n)>>)
          [] op = "LE" -> Gives(r, <<Truth(x.n <= y.n)>>)
          [] op = "GT" -> Gives(r, <<Truth(x.n > y.n)>>)
          [] op = "GE" -> Gives(r, <<Truth(x.n >= y.n)>>)

Answered(r, name, args) ==
    LET returntype == SignatureOf(name).returntype
        called == [r EXCEPT !.calls = Append(@, [name |-> name, args |-> args])]
    IN  IF r.answers = <<>> THEN GoesTo(called, "waiting")
        ELSE Gives([called EXCEPT !.answers = Tail(@)],
                   IF returntype = AstType("void", 0) THEN <<>>
                   ELSE <<Number(Tag(returntype), Head(r.answers))>>)
MakeCall(r, e, xs) ==
    LET types == SignatureOf(e.name).argtypes
        args == [i \in DOMAIN xs |-> Convert(xs[i][1], Tag(types[i]))]
    IN  IF \E i \in DOMAIN args : ~args[i].set THEN Undefined(r)
        ELSE Answered(r, e.name, [i \in DOMAIN args |-> args[i].n])

MakeStruct(r, e, xs) ==
    LET tags == Tags(AstType(e.name, 0))
        given(i) == {j \in DOMAIN e.argnames : Offset(e.argnames[j]) = i - 1}
        field(i) == IF given(i) = {} THEN Scalar(tags[i], 0, "")
                    ELSE Convert(xs[CHOOSE j \in given(i) : TRUE][1], tags[i])
    IN  Gives(r, [i \in DOMAIN tags |-> field(i)])

\* What an expression does with the values xs of its operands.
Combine(r, e, xs) ==
    CASE ~Running(r) -> r
      [] e.kind = "FUNCTION_CALL" -> MakeCall(r, e, xs)
      [] e.kind = "BRACE_INIT" -> MakeStruct(r, e, xs)
      [] OTHER ->
            IF \E i \in DOMAIN xs : ~xs[i][1].set THEN Undefined(r)
            ELSE IF e.kind = "NOT" THEN Gives(r, <<Truth(xs[1][1].n = 0)>>)
            ELSE IF e.kind = "AS" THEN Gives(r, <<Convert(xs[1][1], Tag(AstType(e.name, e.number)))>>)
            ELSE Arithmetic(r, e.kind, xs[1][1], xs[2][1])

Difference(kind) == IF kind \in {"PRE_INCREMENT", "POST_INCREMENT"} THEN 1 ELSE -1
\* old is the value at the place p of the variable that is changed by one.
Changed(r, p, old, kind) ==
    LET new == IF old.tag = "ptr" THEN [old EXCEPT !.n = @ + Difference(kind)]
               ELSE Number(old.tag, old.n + Difference(kind))
    IN  IF ~Running(r) THEN r
        ELSE IF ~old.set THEN Undefined(r)
        ELSE Gives(Store(r, p, new), <<IF kind \in {"PRE_INCREMENT", "PRE_DECREMENT"} THEN new ELSE old>>)
ChangeByOne(place, kind) ==
    LET change(r) == Changed(r, Only(place), Only(r), kind)
    IN  IF Running(place) THEN change(Load(place)) ELSE place

ConstantOf(e) ==
    CASE e.name \in {"TRUE", "FALSE"} -> Truth(e.name = "TRUE")
      [] e.name = "NULL" -> Scalar("ptr", 0, "NULL")
      [] e.name = "integer" -> Number("int", e.number)
-----------------------------------------------------------------------------
\* The place r gives, n scalars further on.
Moved(r, n) ==
    IF ~Running(r) THEN r
    ELSE IF ~Only(r).set THEN Undefined(r)
    ELSE Gives(r, <<[Only(r) EXCEPT !.n = @ + n]>>)
Indexed(array, index) ==
    IF Running(index) /\ ~Only(index).set THEN Undefined(index)
    ELSE Moved(Gives(index, array.value), Only(index).n)

\* and, or: the right side is not looked at when the left side decides.
Decides(left, kind) == Only(left).n = (IF kind = "AND" THEN 0 ELSE 1)

RECURSIVE Eval(_, _), PlaceOf(_, _)
\* The values of several expressions, left to right.
EvalNext(acc, e) ==
    LET next(r) == [r |-> r, xs |-> Append(acc.xs, r.value)]
    IN  next(Eval(acc.r, e))
EvalOperands(r, e) ==
    LET combine(evaluated) == Combine(evaluated.r, e, evaluated.xs)
    IN  combine(FoldLeft(EvalNext, [r |-> r, xs |-> <<>>], e.operands))

PlaceOf(r, e) ==
    LET index(array) == Indexed(array, Eval(array, e.operands[2]))
    IN  CASE e.kind = "GET_VARIABLE" -> Gives(r, <<Scalar("ptr", 0, e.name)>>)
          [] e.kind = "DEREFERENCE" -> Eval(r, e.operands[1])
          [] e.kind = "GET_FIELD" -> Moved(PlaceOf(r, e.operands[1]), Offset(e.name))
          [] e.kind = "DEREF_AND_GET_FIELD" -> Moved(Eval(r, e.operands[1]), Offset(e.name))
          [] e.kind = "INDEXING" -> index(Eval(r, e.operands[1]))

AndOr(r, e) ==
    LET rest(left) ==
            IF ~Running(left) THEN left
            ELSE IF ~Only(left).set THEN Undefined(left)
            ELSE IF Decides(left, e.kind) THEN left ELSE Eval(left, e.operands[2])
    IN  rest(Eval(r, e.operands[1]))

Eval(r, e) ==
    CASE ~Running(r) -> r
      [] e.kind = "CONSTANT" -> Gives(r, <<ConstantOf(e)>>)
      [] e.kind = "GET_VARIABLE" -> Gives(r, r.mem[e.name])
      [] e.kind \in AddressableByPointer \cup {"DEREFERENCE"} -> Load(PlaceOf(r, e))
      [] e.kind = "ADDRESS_OF" -> PlaceOf(r, e.operands[1])
      [] e.kind \in IncrementKinds -> ChangeByOne(PlaceOf(r, e.operands[1]), e.kind)
      [] e.kind \in {"AND", "OR"} -> AndOr(r, e)
      [] OTHER -> EvalOperands(r, e)
-----------------------------------------------------------------------------
RECURSIVE Exec(_, _), Iterate(_, _)
ExecAll(r, body) == FoldLeft(LAMBDA s, stmt : Exec(s, stmt), r, body)

\* The value of a condition: does it hold, and is there one at all?
Holds(c) == Running(c) /\ Only(c).set /\ Only(c).n = 1
Undecided(c) == IF Running(c) /\ ~Only(c).set THEN Undefined(c) ELSE c

ExecBranch(acc, b) ==
    LET decide(c) == [r |-> IF Holds(c) THEN ExecAll(c, b.body) ELSE Undecided(c),
                      decided |-> Holds(c) \/ ~Running(Undecided(c))]
    IN  IF acc.decided THEN acc ELSE decide(Eval(acc.r, b.condition))
ExecIf(r, s) ==
    LET rest(acc) == IF acc.decided THEN acc.r ELSE ExecAll(acc.r, s.elsebody)
    IN  rest(FoldLeft(ExecBranch, [r |-> r, decided |-> FALSE], s.if_and_elifs))

\* break ends the loop, continue goes on with its last part.
Resumed(r, status) == IF r.status = status THEN [r EXCEPT !.status = "running"] ELSE r
Iterate(r, s) ==
    LET again(round) == IF Running(round) THEN Iterate(ExecAll(round, s.incr), s)
                        ELSE Resumed(round, "break")
        decide(c) == IF Holds(c) THEN again(Resumed(ExecAll(c, s.body), "continue"))
                     ELSE Undecided(c)
    IN  decide(Eval(r, s.cond))

Assigned(r, name) ==
    [r EXCEPT !.mem = (name :> IF name \in DOMAIN @ THEN ConvertAll(r.value, TagsOf(@[name]))
                               ELSE r.value) @@ @]
ExecAssign(r, s) ==
    LET assign(value) == IF Running(value) THEN Assigned(value, s.target.name) ELSE value
        store(place, value) == IF Running(value) THEN Store(value, Only(place), Only(value)) ELSE value
        stored(place) == store(place, Eval(place, s.value))
    IN  IF s.target.kind = "GET_VARIABLE" THEN assign(Eval(r, s.value))
        ELSE stored(PlaceOf(r, s.target))

ExecDeclaration(r, s) ==
    LET tags == Tags(s.asttype)
        declared(value) ==
            IF Running(value)
            THEN [value EXCEPT !.mem = (s.name :> ConvertAll(value.value, tags)) @@ @] ELSE value
    IN  declared(IF s.initial_value = <<>> THEN Gives(r, [i \in DOMAIN tags |-> Unset(tags[i])])
                 ELSE Eval(r, s.initial_value[1]))

ExecReturn(r, s) ==
    LET returned(value) ==
            GoesTo(Gives(value, ConvertAll(value.value, Tags(Called.signature.returntype))), "returned")
    IN  returned(Eval(r, s.expression))

Exec(r, s) ==
    CASE ~Running(r) -> r
      [] s.kind = "IF" -> ExecIf(r, s)
      [] s.kind \in {"WHILE", "FOR"} -> Iterate(ExecAll(r, s.init), s)
      [] s.kind = "BREAK" -> GoesTo(r, "break")
      [] s.kind = "CONTINUE" -> GoesTo(r, "continue")
      [] s.kind = "ASSIGN" -> ExecAssign(r, s)
      [] s.kind = "DECLARE_LOCAL_VAR" -> ExecDeclaration(r, s)
      [] s.kind = "RETURN_VALUE" -> ExecReturn(r, s)
      [] s.kind = "RETURN_WITHOUT_VALUE" -> GoesTo(Gives(r, <<>>), "returned")
      [] s.kind = "EXPRESSION_STATEMENT" -> Eval(r, s.expression)

\* Arguments are numbers; a pointer argument goes to the buffer.
Argument(asttype, n) ==
    IF asttype.npointers > 0 THEN Scalar("ptr", n, "buffer") ELSE Scalar(Tag(asttype), n, "")
Interpret(answers) ==
    LET sig == Called.signature
        arguments == [x \in ToSet(sig.argnames) |->
                        LET i == CHOOSE i \in DOMAIN sig.argnames : sig.argnames[i] = x
                        IN  <<Argument(sig.argtypes[i], input.arguments[i])>>]
        buffer == [i \in DOMAIN input.buffer |-> Number("byte", input.buffer[i])]
    IN  ExecAll([mem |-> ("buffer" :> buffer) @@ arguments, calls |-> <<>>, answers |-> answers,
                 status |-> "running", value |-> <<>>], Called.body)
-----------------------------------------------------------------------------
Answers(name) ==
    LET returntype == SignatureOf(name).returntype
    IN  CASE returntype.name = "bool" -> {0, 1}
          [] returntype.name = "int" -> IntAnswers
          [] OTHER -> {0}
SoFar == Interpret([i \in DOMAIN trace |-> trace[i].answer])
NotCalled == [status |-> "not called", value |-> <<>>, buffer |-> <<>>]
Pending == [NotCalled EXCEPT !.status = "running"]
Numbers(xs) == [i \in DOMAIN xs |-> xs[i].n]

\* After undefined behaviour nothing is promised, nor of a value that was
\* never set or returned.
PromisesNothing(r) ==
    \/ r.status = "undefined"
    \/ r.status = "returned" /\ \E i \in DOMAIN r.value : ~r.value[i].set
    \/ r.status = "running" /\ Called.signature.returntype # AstType("void", 0)
Ended(r) == [status |-> "returned",
             value |-> IF r.status = "returned" THEN Numbers(r.value) ELSE <<>>,
             buffer |-> Numbers(r.mem["buffer"])]

Init == trace = <<>> /\ outcome = NotCalled

CallTheFunction ==
    /\ outcome = NotCalled
    /\ outcome' = Pending
    /\ UNCHANGED <<source, trace>>

MakeNextCall ==
    /\ outcome = Pending
    /\ \E r \in {SoFar} :
        /\ r.status = "waiting"
        /\ \E a \in Answers(Last(r.calls).name) :
                trace' = Append(trace, [name |-> Last(r.calls).name, args |-> Last(r.calls).args,
                                        answer |-> a])
    /\ UNCHANGED <<source, input, outcome>>

End ==
    /\ outcome = Pending
    /\ \E r \in {SoFar} :
        /\ r.status \in {"running", "returned"}
        /\ ~PromisesNothing(r)
        /\ outcome' = Ended(r)
    /\ UNCHANGED <<source, input, trace>>

Anything ==
    /\ outcome = Pending
    /\ PromisesNothing(SoFar)
    /\ UNCHANGED <<source, input>>

Next == CallTheFunction \/ MakeNextCall \/ End \/ Anything
Spec == Init /\ [][Next]_vars
=============================================================================
