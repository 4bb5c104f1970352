---------------------------- MODULE TokenizeText ----------------------------
(***************************************************************************)
(* What the tokens have to do with the text of the file: properties of     *)
(* tokenize.c stated on its lines and bytes.                               *)
(***************************************************************************)
EXTENDS Tokenize, FiniteSets

\* The bytes read_byte gives: a newline first, and no CRs before newlines.
WithoutCR(bytes) ==
    FlattenSeq([i \in DOMAIN bytes |->
        IF bytes[i] = "\r" /\ i < Len(bytes) /\ bytes[i + 1] = "\n" THEN <<>>
        ELSE <<bytes[i]>>])
Source == <<"\n">> \o WithoutCR(file)

Remaining == Reverse(st.pushback) \o WithoutCR(SubSeq(file, st.pos, Len(file)))
Consumed == SubSeq(Source, 1, Len(Source) - Len(Remaining))
CountNewLines(bytes) == Cardinality({i \in DOMAIN bytes : bytes[i] = "\n"})
StillReading == reading \notin {"handle_indentations", "done", "failed"}

\* Line n follows the n-th newline of Source.
Lines == 1 .. CountNewLines(Source)
LineStart(n) ==
    CHOOSE i \in DOMAIN Source :
        Source[i] = "\n" /\ CountNewLines(SubSeq(Source, 1, i)) = n
Indentation(n) ==
    CHOOSE k \in 0 .. Len(Source) - LineStart(n) :
        /\ \A i \in 1 .. k : Source[LineStart(n) + i] = " "
        /\ LineStart(n) + k < Len(Source) => Source[LineStart(n) + k + 1] # " "
Significant(n) ==
    LET first == LineStart(n) + Indentation(n) + 1
    IN  first <= Len(Source) /\ Source[first] \notin {"\n", "#"}

Proper(t) == t.type \notin {"NEWLINE", "INDENT", "DEDENT", "END_OF_FILE"}
Depth(i) ==
    LET count(type) == Cardinality({j \in 1 .. i : output[j].type = type})
    IN  count("INDENT") - count("DEDENT")
-----------------------------------------------------------------------------
\* Names and operators fit into their arrays, with a zero behind them; the
\* list handle_indentations takes its first element off starts with a newline
\* (its assertion).
TypeOK ==
    /\ st.pos \in 1 .. Len(file) + 1
    /\ reading = "read_identifier_or_number" => Len(token.text) < NameSize
    /\ reading = "read_operator" => Len(token.text) < 4
    /\ level % 4 = 0 /\ level >= 0
    /\ output # <<>> /\ reading = "handle_indentations" => output[1].type = "NEWLINE"
    /\ Len(error) = (IF reading = "failed" THEN 1 ELSE 0)

\* Bytes that were read too far come back in their order: what is still to
\* be read is always the rest of the text.
NothingIsLost == IsSuffix(Remaining, Source)

\* The line number is that of the next byte, however often bytes were given
\* back.
LineNumberIsTrue == StillReading => st.lineno = CountNewLines(Consumed)

\* A name, number or operator is as long as it can be, and is spelled as in
\* the text.
LongestMatch ==
    [][Len(tokens') > Len(tokens) =>
        LET t == Last(tokens')
        IN  /\ t.type \in {"NAME", "INT", "OPERATOR"} => IsSuffix(t.text, Consumed')
            /\ t.type \in {"NAME", "INT"} =>
                    Remaining' = <<>> \/ ~is_identifier_or_number_byte(Head(Remaining'))
            /\ t.type = "OPERATOR" =>
                    \A op \in ToSet(operators) :
                        IsPrefix(op, t.text \o Remaining') => Len(op) <= Len(t.text)]_vars

\* An error of the first pass is on the line the last byte was read from; a
\* newline still belongs to the line it ends.  (At the end of the file it may
\* also be the line after that.)
ErrorLineIsTrue ==
    reading = "failed" /\ error[1].message # "indentation must be a multiple of 4 spaces" =>
        LET n == CountNewLines(Consumed)
        IN  error[1].lineno \in
                IF Last(Consumed) # "\n" THEN {n}
                ELSE IF Remaining = <<>> THEN {n - 1, n} ELSE {n - 1}

\* Every line with something on it gives tokens, at the depth its spaces say,
\* whatever blank lines and comments are in between; all that was opened is
\* closed in the end.  (Not for strings that go on over several lines.)
IndentationIsNesting ==
    reading = "done" /\ "\\" \notin ToSet(file) =>
        /\ \A i \in DOMAIN output : Proper(output[i]) =>
                4 * Depth(i) = Indentation(output[i].lineno)
        /\ {output[i].lineno : i \in {j \in DOMAIN output : Proper(output[j])}}
                = {n \in Lines : Significant(n)}
        /\ \A i \in DOMAIN output : Depth(i) >= 0
        /\ Depth(Len(output)) = 0

\* The parser relies on each line ending in a newline token, the last one too,
\* and on changes of depth following it.
LinesEndInNewline ==
    reading = "done" /\ "\\" \notin ToSet(file) =>
        \A i \in DOMAIN output :
            LET before == IF i = 1 THEN "NEWLINE" ELSE output[i - 1].type
            IN  CASE output[i].type = "NEWLINE" ->
                        i > 1 /\ Proper(output[i - 1]) /\ output[i].lineno = output[i - 1].lineno
                  [] Proper(output[i]) ->
                        /\ before # "END_OF_FILE"
                        /\ i > 1 /\ Proper(output[i - 1]) => output[i].lineno = output[i - 1].lineno
                  [] OTHER -> before \in {"NEWLINE", "INDENT", "DEDENT"}

\* Every file is read to its end or to an error.
TokenizingEnds == <>(reading \in {"done", "failed"})
=============================================================================
