------------------------------ MODULE Tokenize ------------------------------
(***************************************************************************)
(* tokenize.c: from the bytes of a file to tokens, then from the spaces    *)
(* after each newline to indent and dedent tokens.                         *)
(*                                                                         *)
(* One action is one round of a loop that reads a byte, under the name of  *)
(* the C function the loop is in.  A byte is a string of length 1; a few   *)
(* letters and digits stand for all of them, and keywords are not told     *)
(* from other names.                                                       *)
(***************************************************************************)
EXTENDS Integers, SequencesExt

CONSTANTS
    Files,       \* the files that may be tokenized, as sequences of bytes
    NameSize     \* size of the array a name is read into

EOF == "end of file"    \* what read_byte calls '\0'
Bad == "bad byte"       \* a zero byte or a CR without LF
ZeroByte == "zero byte"
Letters == {"a", "b", "n", "r", "x"}
Digits == {"0", "1", "7"}
is_identifier_or_number_byte(c) == c \in Letters \cup Digits
Quotes == {"'", "\""}
OneByteOperators == <<".", ",", ":", ";", "=", "(", ")", "{", "}", "[", "]",
                      "&", "*", "/", "+", "-", "<", ">">>
operatorChars == ToSet(OneByteOperators) \cup {"!"}
Bytes == Letters \cup Digits \cup Quotes \cup operatorChars
            \cup {" ", "\n", "\r", "#", "\\", ZeroByte, "other"}

ASSUME FilesAssumption == \A f \in Files : f \in Seq(Bytes)
ASSUME NameSizeAssumption == NameSize \in Nat /\ NameSize >= 2

VARIABLES
    file,
    st,        \* struct State: read position, pushed back bytes, line number
    reading,   \* the function whose loop is running
    token,     \* the token read_token is working on
    tokens,    \* those it has returned
    level,     \* of handle_indentations, with
    output,    \* the list it returns
    error      \* what compilation stopped with

vars == <<file, st, reading, token, tokens, level, output, error>>
-----------------------------------------------------------------------------
\* How many bytes fgetc takes from the file for one of read_byte's.
Width(s) == IF s.pos <= Len(file) /\ file[s.pos] = "\r" THEN 2 ELSE 1
NewLines(c) == IF c = "\n" THEN 1 ELSE 0

FromFile(s) ==
    IF s.pos > Len(file) THEN EOF
    ELSE IF file[s.pos] = ZeroByte THEN Bad
    ELSE IF file[s.pos] # "\r" THEN file[s.pos]
    ELSE IF s.pos < Len(file) /\ file[s.pos + 1] = "\n" THEN "\n" ELSE Bad

\* read_byte: the byte, and the state it leaves.
NextByte(s) == IF s.pushback # <<>> THEN Last(s.pushback) ELSE FromFile(s)
read_byte(s) ==
    LET counted == [s EXCEPT !.lineno = @ + NewLines(NextByte(s))]
    IN  IF s.pushback # <<>> THEN [counted EXCEPT !.pushback = Front(@)]
        ELSE IF NextByte(s) = EOF THEN s
        ELSE [counted EXCEPT !.pos = @ + Width(s)]

\* (mutant) The line number is not taken back.
unread_byte_same_line(s, c) ==
    IF c = EOF THEN s ELSE [s EXCEPT !.pushback = Append(@, c)]

unread_byte(s, c) ==
    IF c = EOF THEN s
    ELSE [s EXCEPT !.pushback = Append(@, c), !.lineno = @ - NewLines(c)]
-----------------------------------------------------------------------------
NewToken(lineno) == [type |-> "", lineno |-> lineno, text |-> <<>>, indentation_level |-> 0]

Init ==
    /\ file \in Files
    /\ st = [pos |-> 1, pushback |-> <<"\n">>, lineno |-> 0]    \* a fake newline
    /\ reading = "read_token"
    /\ token = NewToken(0)
    /\ tokens = <<>>
    /\ level = 0
    /\ output = <<>>
    /\ error = <<>>

\* Where a round of a loop may end: another round or another function; a
\* finished token; an error, which ends the process.
Continue(function, s, t) ==
    /\ reading' = function
    /\ st' = s
    /\ token' = t
    /\ UNCHANGED <<file, tokens, level, output, error>>
Finish(s, t) ==
    /\ tokens' = Append(tokens, t)
    /\ reading' = IF t.type = "END_OF_FILE" THEN "handle_indentations" ELSE "read_token"
    /\ st' = s
    /\ token' = NewToken(s.lineno)
    /\ UNCHANGED <<file, level, output, error>>
Fail(s, message, lineno) ==
    /\ error' = <<[message |-> message, lineno |-> lineno]>>
    /\ reading' = "failed"
    /\ st' = s
    /\ UNCHANGED <<file, token, tokens, level, output>>

Byte == NextByte(st)
In(function) == reading = function /\ Byte # Bad

\* The loop of read_operator ends without another byte.
OperatorIsFull == reading = "read_operator" /\ Len(token.text) = 3

ReadBadByte ==
    /\ reading \notin {"handle_indentations", "done", "failed"} /\ ~OperatorIsFull
    /\ Byte = Bad
    /\ Fail([st EXCEPT !.pos = @ + 1], "source file contains a bad byte", st.lineno)

\* The loop of read_token ends when a byte starts a token.
ReadToken ==
    /\ In("read_token")
    /\ LET s == read_byte(st)
       IN  \/ Byte = "#" /\ Continue("consume_rest_of_line", s, token)
           \/ Byte = " " /\ Continue("read_token", s, token)
           \/ /\ Byte = "\n"
              /\ Continue("read_indentation_as_newline_token", s, [token EXCEPT !.type = "NEWLINE"])
           \/ Byte = EOF /\ Finish(s, [token EXCEPT !.type = "END_OF_FILE"])
           \/ /\ Byte \in Quotes
              /\ Continue("read_string", s,
                          [token EXCEPT !.type = IF Byte = "'" THEN "CHAR" ELSE "STRING"])
           \/ /\ is_identifier_or_number_byte(Byte)
              /\ Continue("read_identifier_or_number", s, [token EXCEPT !.text = <<Byte>>])
           \/ /\ Byte \in operatorChars
              /\ Continue("read_operator", unread_byte(s, Byte), [token EXCEPT !.type = "OPERATOR"])
           \/ /\ Byte \notin {"#", " ", "\n", EOF} \cup Quotes \cup operatorChars
              /\ ~is_identifier_or_number_byte(Byte)
              /\ Fail(s, "unexpected byte", s.lineno)

\* (mutants) The newline goes with the comment; the end of the file is not
\* noticed.
ConsumeRestOfLine_with_newline ==
    /\ In("consume_rest_of_line")
    /\ LET s == read_byte(st)
           caller == IF token.type = "NEWLINE" THEN "read_indentation_as_newline_token"
                     ELSE "read_token"
       IN  IF Byte \in {"\n", EOF} THEN Continue(caller, s, token)
           ELSE Continue("consume_rest_of_line", s, token)
ConsumeRestOfLine_past_end ==
    /\ In("consume_rest_of_line")
    /\ LET s == read_byte(st)
           caller == IF token.type = "NEWLINE" THEN "read_indentation_as_newline_token"
                     ELSE "read_token"
       IN  IF Byte = "\n" THEN Continue(caller, unread_byte(s, Byte), token)
           ELSE Continue("consume_rest_of_line", s, token)

\* A comment, on the way to a token or between two lines.
ConsumeRestOfLine ==
    /\ In("consume_rest_of_line")
    /\ LET s == read_byte(st)
           caller == IF token.type = "NEWLINE" THEN "read_indentation_as_newline_token"
                     ELSE "read_token"
       IN  IF Byte \in {"\n", EOF} THEN Continue(caller, unread_byte(s, Byte), token)
           ELSE Continue("consume_rest_of_line", s, token)

\* (mutant) Blank lines do not start the count again.
ReadIndentation_adding_up ==
    /\ In("read_indentation_as_newline_token")
    /\ LET s == read_byte(st)
       IN  CASE Byte = " " ->
                    Continue(reading, s, [token EXCEPT !.indentation_level = @ + 1])
             [] Byte = "\n" -> Continue(reading, s, token)
             [] Byte = "#" -> Continue("consume_rest_of_line", s, token)
             [] Byte = EOF -> Finish(s, [token EXCEPT !.type = "END_OF_FILE"])
             [] OTHER -> Finish(unread_byte(s, Byte), token)

ReadIndentation ==
    /\ In("read_indentation_as_newline_token")
    /\ LET s == read_byte(st)
       IN  CASE Byte = " " ->
                    Continue(reading, s, [token EXCEPT !.indentation_level = @ + 1])
             [] Byte = "\n" -> Continue(reading, s, [token EXCEPT !.indentation_level = 0])
             [] Byte = "#" -> Continue("consume_rest_of_line", s, token)
             [] Byte = EOF -> Finish(s, [token EXCEPT !.type = "END_OF_FILE"])
             [] OTHER -> Finish(unread_byte(s, Byte), token)
-----------------------------------------------------------------------------
\* parse_integer: 0x and 0b, no other number that starts with a zero.
ValidInteger(text) ==
    LET digits == SubSeq(text, 3, Len(text))
    IN  CASE IsPrefix(<<"0", "x">>, text) ->
                digits # <<>> /\ ToSet(digits) \subseteq Digits \cup {"a", "b"}
          [] IsPrefix(<<"0", "b">>, text) -> digits # <<>> /\ ToSet(digits) \subseteq {"0", "1"}
          [] OTHER -> (text[1] = "0" => Len(text) = 1) /\ ToSet(text) \subseteq Digits

\* (mutant) No room is left for the terminating zero.
TooLong_by_one(text) == Len(text) = NameSize

TooLong(text) == Len(text) = NameSize - 1

ReadIdentifierOrNumber ==
    /\ In("read_identifier_or_number")
    /\ LET s == read_byte(st)
           rest == unread_byte(s, Byte)
       IN  IF is_identifier_or_number_byte(Byte)
           THEN IF TooLong(token.text)
                THEN Fail(s, "name is too long", s.lineno)
                ELSE Continue(reading, s, [token EXCEPT !.text = Append(@, Byte)])
           ELSE IF token.text[1] \notin Digits THEN Finish(rest, [token EXCEPT !.type = "NAME"])
           ELSE IF ValidInteger(token.text) THEN Finish(rest, [token EXCEPT !.type = "INT"])
           ELSE Fail(rest, "invalid number", token.lineno)

\* The delimiter tells a string from a character.
Quote == IF token.type = "CHAR" THEN "'" ELSE "\""
MissingEndQuote(s, lineno) == Fail(s, "missing end quote", lineno)

\* (mutant) The error is on the line after the one without end quote.
ReadString_next_line ==
    /\ In("read_string")
    /\ LET s == read_byte(st)
       IN  CASE Byte = Quote ->
                    IF token.type = "CHAR" /\ Len(token.text) # 1
                    THEN Fail(s, "not a single character", s.lineno)
                    ELSE Finish(s, token)
             [] Byte \in {"\n", EOF} -> MissingEndQuote(s, s.lineno)
             [] Byte = "\\" -> Continue("after_backslash", s, token)
             [] OTHER -> Continue(reading, s, [token EXCEPT !.text = Append(@, Byte)])

\* read_string up to the next quote or backslash; read_char_literal checks
\* the length.
ReadString ==
    /\ In("read_string")
    /\ LET s == read_byte(st)
       IN  CASE Byte = Quote ->
                    IF token.type = "CHAR" /\ Len(token.text) # 1
                    THEN Fail(s, "not a single character", s.lineno)
                    ELSE Finish(s, token)
             [] Byte = "\n" -> MissingEndQuote(s, s.lineno - 1)
             [] Byte = EOF -> MissingEndQuote(s, s.lineno)
             [] Byte = "\\" -> Continue("after_backslash", s, token)
             [] OTHER -> Continue(reading, s, [token EXCEPT !.text = Append(@, Byte)])

Escaped(c) == CASE c = "n" -> "\n"
                [] c = "r" -> "\r"
                [] OTHER -> c    \* for a digit, the byte with that value

\* The byte after a backslash; a newline joins the lines of a string.
ReadAfterBackslash ==
    /\ In("after_backslash")
    /\ LET s == read_byte(st)
           string == token.type = "STRING"
       IN  CASE Byte = "\n" ->
                    IF string THEN Continue("read_string", s, token)
                    ELSE MissingEndQuote(s, s.lineno - 1)
             [] Byte = EOF -> MissingEndQuote(s, s.lineno)
             [] Byte \in {"n", "r", "\\"} \cup Quotes \cup Digits /\ ~(string /\ Byte = "0") ->
                    Continue("read_string", s, [token EXCEPT !.text = Append(@, Escaped(Byte))])
             [] OTHER -> Fail(s, "unknown escape or zero byte in string", s.lineno)
-----------------------------------------------------------------------------
\* Longer operators first.
operators ==
    << <<".", ".", ".">>, <<"=", "=", "=">>, <<"!", "=", "=">>,
       <<"=", "=">>, <<"!", "=">>, <<"-", ">">>, <<"<", "=">>, <<">", "=">>,
       <<"+", "+">>, <<"-", "-">> >>
    \o [i \in DOMAIN OneByteOperators |-> <<OneByteOperators[i]>>]
NotOperators == {<<"=", "=", "=">>, <<"!", "=", "=">>}    \* for people used to JavaScript

\* The operators in the list the text starts with.
Matching(text) == {i \in DOMAIN operators : IsPrefix(operators[i], text)}

\* (mutant) The last one in the list is taken.
First_last(S) == CHOOSE i \in S : \A j \in S : j <= i

First(S) == CHOOSE i \in S : \A j \in S : i <= j

ReadOperatorByte ==
    /\ In("read_operator")
    /\ Len(token.text) < 3
    /\ Byte \in operatorChars
    /\ Continue(reading, read_byte(st), [token EXCEPT !.text = Append(@, Byte)])

\* (mutant) Bytes that were not used are given back from left to right.
UnreadAll_forwards(s, text) == [s EXCEPT !.pushback = @ \o text]

\* unread_byte for each byte, from the last one; none of them is a newline.
UnreadAll(s, text) == [s EXCEPT !.pushback = @ \o Reverse(text)]

\* Three bytes, or a byte that cannot be in an operator: that one goes back
\* first, then what the operator did not use.
ReadOperator ==
    /\ \/ OperatorIsFull
       \/ In("read_operator") /\ Byte \notin operatorChars
    /\ LET s == IF Len(token.text) = 3 THEN st ELSE unread_byte(read_byte(st), Byte)
           matching == Matching(token.text)
           op == operators[First(matching)]
           unused == SubSeq(token.text, Len(op) + 1, Len(token.text))
       IN  IF matching = {} THEN Fail(s, "no such operator", s.lineno)
           ELSE IF op \in NotOperators THEN Fail(UnreadAll(s, unused), "no such operator", s.lineno)
           ELSE Finish(UnreadAll(s, unused), [token EXCEPT !.text = op])
-----------------------------------------------------------------------------
\* handle_indentations: one token per round.
LayoutTokens(type, n, lineno) == [i \in 1 .. n |-> [NewToken(lineno) EXCEPT !.type = type]]
NextToken == tokens[1]
InIndentations(types) ==
    reading = "handle_indentations" /\ tokens # <<>> /\ NextToken.type \in types

CopyToken ==
    /\ InIndentations({"INT", "CHAR", "STRING", "NAME", "OPERATOR"})
    /\ output' = Append(output, NextToken)
    /\ tokens' = Tail(tokens)
    /\ UNCHANGED <<file, st, reading, token, level, error>>

\* (Ranges 1 .. n with negative n are empty: one of the loops does nothing.)
HandleNewline ==
    /\ InIndentations({"NEWLINE"})
    /\ LET lineno == NextToken.lineno + 1
           new == NextToken.indentation_level
       IN  IF new % 4 # 0
           THEN Fail(st, "indentation must be a multiple of 4 spaces", lineno)
           ELSE /\ output' = output \o <<NextToken>>
                             \o LayoutTokens("INDENT", (new - level) \div 4, lineno)
                             \o LayoutTokens("DEDENT", (level - new) \div 4, lineno)
                /\ level' = new
                /\ tokens' = Tail(tokens)
                /\ UNCHANGED <<file, st, reading, token, error>>

\* The end of the file closes what is open; the fake newline is dropped.
HandleEndOfFile ==
    /\ InIndentations({"END_OF_FILE"})
    /\ output' = Tail(output \o LayoutTokens("NEWLINE", 1, NextToken.lineno)
                             \o LayoutTokens("DEDENT", level \div 4, NextToken.lineno)
                             \o <<NextToken>>)
    /\ level' = 0
    /\ reading' = "done"
    /\ tokens' = <<>>
    /\ UNCHANGED <<file, st, token, error>>

Stopped == reading \in {"done", "failed"} /\ UNCHANGED vars

Step ==
    \/ ReadBadByte \/ ReadToken \/ ConsumeRestOfLine \/ ReadIndentation
    \/ ReadIdentifierOrNumber \/ ReadString \/ ReadAfterBackslash
    \/ ReadOperatorByte \/ ReadOperator
    \/ CopyToken \/ HandleNewline \/ HandleEndOfFile
Next == Step \/ Stopped

Spec == Init /\ [][Next]_vars

\* The tokenizer waits for nothing but its file.
FairSpec == Spec /\ WF_vars(Step)
=============================================================================
