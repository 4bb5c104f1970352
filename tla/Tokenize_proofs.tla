-------------------------- MODULE Tokenize_proofs --------------------------
(***************************************************************************)
(* For every set of files and every size of the array names are read into: *)
(* the tokenizer's buffers are large enough, the nesting is always a       *)
(* multiple of 4, and the list handle_indentations returns starts with the *)
(* newline it asserts there; what is read too far and given back is never  *)
(* lost, line numbers are those of the text, names and operators are as    *)
(* long as they can be, every line ends in a newline, and depth is         *)
(* indentation.                                                            *)
(***************************************************************************)
EXTENDS TokenizeText, SharedLemmas, FiniteSetTheorems, SequenceTheorems

TokenTypes == {"", "NEWLINE", "END_OF_FILE", "CHAR", "STRING", "OPERATOR", "NAME", "INT",
               "INDENT", "DEDENT"}
Token == [type : TokenTypes, lineno : Int, text : Seq(Bytes), indentation_level : Nat]
ReaderState == [pos : 1 .. Len(file) + 1, pushback : Seq(Bytes), lineno : Int]
TypeInv ==
    /\ file \in Seq(Bytes)
    /\ st \in ReaderState
    /\ token \in Token
    /\ tokens \in Seq(Token)
    /\ output \in Seq(Token)
    /\ level \in Nat /\ level % 4 = 0

\* Why the first token is a newline or the end of the file: as long as there
\* is none, the fake newline is still to be read or has just been.
FirstInv ==
    /\ StillReading => output = <<>>
    /\ StillReading /\ tokens = <<>> =>
            \/ reading = "read_token" /\ st.pushback = <<"\n">>
            \/ /\ token.type = "NEWLINE"
               /\ reading \in {"read_indentation_as_newline_token", "consume_rest_of_line"}
    /\ StillReading /\ tokens # <<>> => tokens[1].type \in {"NEWLINE", "END_OF_FILE"}
    /\ reading = "handle_indentations" =>
            IF output # <<>> THEN output[1].type = "NEWLINE"
            ELSE tokens # <<>> /\ tokens[1].type \in {"NEWLINE", "END_OF_FILE"}

BufferInv ==
    /\ reading \in {"read_token", "consume_rest_of_line", "read_indentation_as_newline_token"} =>
            token.text = <<>>
    /\ reading = "read_identifier_or_number" => Len(token.text) < NameSize
    /\ reading = "read_operator" => Len(token.text) < 4
    /\ Len(error) = (IF reading = "failed" THEN 1 ELSE 0)

TokenizeInv == TypeInv /\ FirstInv /\ BufferInv
-----------------------------------------------------------------------------
\* An operator is not taken for the end of a line or of the file or a bad byte.
LEMMA OperatorsAreBytes == ToSet(OneByteOperators) \cap {Bad, EOF, "\n", "\\"} = {}
<1>1. DOMAIN OneByteOperators = 1 .. 18
  BY DEF OneByteOperators
<1>2. \A i \in 1 .. 18 : OneByteOperators[i] \notin {Bad, EOF, "\n", "\\"}
  <2>1. 1 .. 18 = {1, 2, 3, 4, 5, 6, 7, 8, 9, 10, 11, 12, 13, 14, 15, 16, 17, 18}
    OBVIOUS
  <2>2. /\ OneByteOperators[1] = "." /\ OneByteOperators[2] = "," /\ OneByteOperators[3] = ":"
        /\ OneByteOperators[4] = ";" /\ OneByteOperators[5] = "=" /\ OneByteOperators[6] = "("
        /\ OneByteOperators[7] = ")" /\ OneByteOperators[8] = "{" /\ OneByteOperators[9] = "}"
        /\ OneByteOperators[10] = "[" /\ OneByteOperators[11] = "]" /\ OneByteOperators[12] = "&"
        /\ OneByteOperators[13] = "*" /\ OneByteOperators[14] = "/" /\ OneByteOperators[15] = "+"
        /\ OneByteOperators[16] = "-" /\ OneByteOperators[17] = "<" /\ OneByteOperators[18] = ">"
    BY DEF OneByteOperators
  <2>. QED  BY <2>1, <2>2 DEF Bad, EOF
<1>. QED  BY <1>1, <1>2 DEF ToSet

LEMMA SpecialBytes ==
    /\ {" ", "\n", "\r", "#", "\\", "0"} \subseteq Bytes
    /\ operatorChars \subseteq Bytes
    /\ Bad \notin Bytes
    /\ EOF \notin Bytes
<1>1. Bad \notin Bytes /\ EOF \notin Bytes
  BY OperatorsAreBytes
     DEF Bytes, Digits, Letters, Quotes, operatorChars, Bad, EOF, ZeroByte
<1>2. operatorChars \subseteq Bytes
  BY DEF Bytes
<1>3. {" ", "\n", "\r", "#", "\\", "0"} \subseteq Bytes
  BY DEF Bytes, Digits
<1>. QED  BY <1>1, <1>2, <1>3

\* Tokens under construction.
LEMMA TokenUpdates ==
    ASSUME NEW t \in Token
    PROVE  /\ \A type \in TokenTypes : [t EXCEPT !.type = type] \in Token
           /\ \A text \in Seq(Bytes) : [t EXCEPT !.text = text] \in Token
           /\ \A n \in Nat : [t EXCEPT !.indentation_level = n] \in Token
BY DEF Token

LEMMA NewTokenType == \A lineno \in Int : NewToken(lineno) \in Token
<1>1. <<>> \in Seq(Bytes)
  OBVIOUS
<1>. QED  BY <1>1 DEF NewToken, Token, TokenTypes
-----------------------------------------------------------------------------
LEMMA InitTokenizeInv == Init => TokenizeInv
<1>. SUFFICES ASSUME Init PROVE TokenizeInv
  OBVIOUS
<1>1. TypeInv
  <2>1. file \in Seq(Bytes)
    BY FilesAssumption DEF Init
  <2>2. "\n" \in Bytes
    BY SpecialBytes
  <2>3. <<"\n">> \in Seq(Bytes)
    BY <2>2, SingletonSeq
  <2>4. 1 \in 1 .. Len(file) + 1
    BY <2>1
  <2>5. st \in ReaderState
    BY <2>3, <2>4 DEF Init, ReaderState
  <2>6. token \in Token /\ tokens \in Seq(Token) /\ output \in Seq(Token)
    BY NewTokenType DEF Init
  <2>. QED  BY <2>1, <2>5, <2>6 DEF Init, TypeInv
<1>2. FirstInv
  BY DEF Init, FirstInv, StillReading
<1>3. BufferInv
  BY DEF Init, BufferInv, NewToken
<1>. QED  BY <1>1, <1>2, <1>3 DEF TokenizeInv
-----------------------------------------------------------------------------
LEMMA FromFileType ==
    ASSUME TypeInv, st.pushback = <<>>
    PROVE  /\ NextByte(st) \in Bytes \cup {EOF, Bad}
           /\ NextByte(st) = EOF \/ st.pos \in 1 .. Len(file)
           /\ NextByte(st) \notin {EOF, Bad} => st.pos + Width(st) \in 1 .. Len(file) + 1
<1>1. st.pos \in 1 .. Len(file) + 1 /\ file \in Seq(Bytes)
  BY DEF TypeInv, ReaderState
<1>2. "\n" \in Bytes
  BY SpecialBytes
<1>3. CASE st.pos > Len(file)
  BY <1>3 DEF NextByte, FromFile
<1>4. CASE st.pos \in 1 .. Len(file)
  <2>1. file[st.pos] \in Bytes
    BY <1>1, <1>4
  <2>2. EOF \notin Bytes
    BY SpecialBytes
  <2>3. NextByte(st) = FromFile(st)
    BY DEF NextByte
  <2>. QED  BY <1>1, <1>2, <1>4, <2>1, <2>2, <2>3 DEF FromFile, Width
<1>. QED  BY <1>1, <1>3, <1>4

LEMMA ReadByteType ==
    ASSUME TypeInv, NextByte(st) # Bad
    PROVE  /\ read_byte(st) \in ReaderState
           /\ NextByte(st) \in Bytes \cup {EOF}
<1>1. st \in ReaderState
  BY DEF TypeInv
<1>2. st.pushback \in Seq(Bytes) /\ st.lineno \in Int
  BY <1>1 DEF ReaderState
<1>3. st.lineno + NewLines(NextByte(st)) \in Int
  BY <1>2 DEF NewLines
<1>4. CASE st.pushback # <<>>
  <2>1. Front(st.pushback) \in Seq(Bytes) /\ NextByte(st) \in Bytes
    BY <1>2, <1>4, FrontLastSeq DEF NextByte
  <2>. QED  BY <1>1, <1>3, <1>4, <2>1 DEF read_byte, ReaderState
<1>5. CASE st.pushback = <<>>
  BY <1>1, <1>3, <1>5, FromFileType DEF read_byte, ReaderState
<1>. QED  BY <1>4, <1>5

LEMMA UnreadByteType ==
    ASSUME TypeInv, NEW s \in ReaderState, NEW c \in Bytes \cup {EOF}
    PROVE  unread_byte(s, c) \in ReaderState
<1>1. CASE c = EOF
  BY <1>1 DEF unread_byte
<1>2. CASE c # EOF
  <2>1. s.pushback \in Seq(Bytes) /\ s.lineno \in Int /\ c \in Bytes
    BY <1>2 DEF ReaderState
  <2>2. Append(s.pushback, c) \in Seq(Bytes) /\ s.lineno - NewLines(c) \in Int
    BY <2>1, AppendSeq DEF NewLines
  <2>. QED  BY <1>2, <2>2 DEF unread_byte, ReaderState
<1>. QED  BY <1>1, <1>2
-----------------------------------------------------------------------------
\* The ways a round ends keep the types.
LEMMA ContinueType ==
    ASSUME TypeInv, NEW function, NEW s \in ReaderState, NEW t \in Token, Continue(function, s, t)
    PROVE  TypeInv'
BY DEF TypeInv, Continue, ReaderState

LEMMA FinishType ==
    ASSUME TypeInv, NEW s \in ReaderState, NEW t \in Token, Finish(s, t)
    PROVE  TypeInv'
<1>1. tokens' \in Seq(Token)
  BY AppendSeq DEF TypeInv, Finish
<1>2. token' \in Token
  BY NewTokenType DEF Finish, ReaderState
<1>. QED  BY <1>1, <1>2 DEF TypeInv, Finish, ReaderState

LEMMA FailType ==
    ASSUME TypeInv, NEW s \in ReaderState, NEW message, NEW lineno, Fail(s, message, lineno)
    PROVE  TypeInv'
BY DEF TypeInv, Fail, ReaderState

\* An error, and a token after the first, disturb nothing else.
LEMMA FailInv ==
    ASSUME TokenizeInv, NEW s \in ReaderState, NEW message, NEW lineno, Fail(s, message, lineno)
    PROVE  TokenizeInv'
<1>1. TypeInv'
  BY FailType DEF TokenizeInv
<1>2. FirstInv' /\ BufferInv'
  BY DEF Fail, FirstInv, BufferInv, StillReading
<1>. QED  BY <1>1, <1>2 DEF TokenizeInv

LEMMA FinishInv ==
    ASSUME TokenizeInv, StillReading, NEW s \in ReaderState, NEW t \in Token, Finish(s, t),
           tokens = <<>> => t.type \in {"NEWLINE", "END_OF_FILE"}
    PROVE  TokenizeInv'
<1>1. TypeInv'
  BY FinishType DEF TokenizeInv
<1>2. tokens \in Seq(Token) /\ tokens' = Append(tokens, t)
  BY DEF TokenizeInv, TypeInv, Finish
<1>3. tokens' # <<>> /\ tokens'[1].type \in {"NEWLINE", "END_OF_FILE"}
  <2>1. CASE tokens = <<>>
    BY <1>2, <2>1
  <2>2. CASE tokens # <<>>
    BY <1>2, <2>2 DEF TokenizeInv, FirstInv
  <2>. QED  BY <2>1, <2>2
<1>4. FirstInv'
  BY <1>3 DEF TokenizeInv, FirstInv, Finish, StillReading
<1>5. BufferInv'
  BY DEF TokenizeInv, BufferInv, Finish, StillReading, NewToken
<1>. QED  BY <1>1, <1>4, <1>5 DEF TokenizeInv
-----------------------------------------------------------------------------
\* What every round that reads a byte starts from.
LEMMA Reading ==
    ASSUME TokenizeInv, NEW function, In(function),
           function \notin {"handle_indentations", "done", "failed"}
    PROVE  /\ StillReading /\ reading = function
           /\ st \in ReaderState /\ token \in Token
           /\ read_byte(st) \in ReaderState
           /\ Byte \in Bytes \cup {EOF}
           /\ unread_byte(read_byte(st), Byte) \in ReaderState
           /\ \A c \in Bytes : Append(token.text, c) \in Seq(Bytes)
                                /\ Len(Append(token.text, c)) = Len(token.text) + 1
<1>1. TypeInv /\ Byte # Bad /\ st \in ReaderState /\ token \in Token
  BY DEF TokenizeInv, TypeInv, In
<1>2. read_byte(st) \in ReaderState /\ Byte \in Bytes \cup {EOF}
  BY <1>1, ReadByteType DEF Byte
<1>3. unread_byte(read_byte(st), Byte) \in ReaderState
  BY <1>1, <1>2, UnreadByteType
<1>4. token.text \in Seq(Bytes)
  BY <1>1 DEF Token
<1>. QED  BY <1>1, <1>2, <1>3, <1>4, AppendSeq DEF In, StillReading

LEMMA ReadBadByteInv == ASSUME TokenizeInv, ReadBadByte PROVE TokenizeInv'
<1>1. TypeInv /\ st \in ReaderState /\ NextByte(st) = Bad
  BY DEF TokenizeInv, TypeInv, ReadBadByte, Byte
<1>2. st.pushback = <<>>
  <2>. SUFFICES ASSUME st.pushback # <<>> PROVE FALSE
    OBVIOUS
  <2>1. NextByte(st) \in Bytes
    BY <1>1, FrontLastSeq DEF ReaderState, NextByte
  <2>. QED  BY <1>1, <2>1, SpecialBytes
<1>3. Bad # EOF
  BY DEF Bad, EOF
<1>4. st.pos \in 1 .. Len(file)
  BY <1>1, <1>2, <1>3, FromFileType
<1>5. [st EXCEPT !.pos = @ + 1] \in ReaderState
  BY <1>1, <1>4 DEF ReaderState
<1>. QED  BY <1>5, FailInv DEF ReadBadByte

\* Another round, in the same function or in another one.
LEMMA ContinueInv ==
    ASSUME TokenizeInv, StillReading,
           NEW function, NEW s \in ReaderState, NEW t \in Token, Continue(function, s, t),
           function \notin {"handle_indentations", "done", "failed"},
           tokens = <<>> =>
               /\ t.type = "NEWLINE"
               /\ function \in {"read_indentation_as_newline_token", "consume_rest_of_line"},
           function \in {"read_token", "consume_rest_of_line",
                         "read_indentation_as_newline_token"} => t.text = <<>>,
           function = "read_identifier_or_number" => Len(t.text) < NameSize,
           function = "read_operator" => Len(t.text) < 4
    PROVE  TokenizeInv'
<1>1. TypeInv'
  BY ContinueType DEF TokenizeInv
<1>2. FirstInv'
  BY DEF TokenizeInv, FirstInv, Continue, StillReading
<1>3. BufferInv'
  BY DEF TokenizeInv, BufferInv, Continue, StillReading
<1>. QED  BY <1>1, <1>2, <1>3 DEF TokenizeInv

\* When there is no token yet, the fake newline is read.
LEMMA FirstByte ==
    ASSUME TokenizeInv, In("read_token")
    PROVE  token.text = <<>> /\ (tokens = <<>> => Byte = "\n")
<1>1. token.text = <<>>
  BY DEF TokenizeInv, BufferInv, In
<1>2. ASSUME tokens = <<>> PROVE Byte = "\n"
  <2>1. st.pushback = <<"\n">>
    BY <1>2 DEF TokenizeInv, FirstInv, In, StillReading
  <2>. QED  BY <2>1 DEF Byte, NextByte, Last
<1>. QED  BY <1>1, <1>2

LEMMA ReadTokenInv == ASSUME TokenizeInv, ReadToken PROVE TokenizeInv'
<1>. DEFINE s == read_byte(st)
<1>1. In("read_token")
  BY DEF ReadToken
<1>2. /\ StillReading /\ s \in ReaderState /\ token \in Token
      /\ unread_byte(s, Byte) \in ReaderState
      /\ Byte \in Bytes \cup {EOF}
  BY <1>1, Reading
<1>3. token.text = <<>> /\ (tokens = <<>> => Byte = "\n")
  BY <1>1, FirstByte
<1>4. \A type \in TokenTypes : [token EXCEPT !.type = type] \in Token
  BY <1>2, TokenUpdates
<1>. HIDE DEF s
<1>. USE <1>2, <1>3
<1>5. CASE Byte = "#" /\ Continue("consume_rest_of_line", s, token)
  BY <1>5, ContinueInv
<1>6. CASE Byte = " " /\ Continue("read_token", s, token)
  BY <1>6, ContinueInv
<1>7. CASE /\ Byte = "\n"
           /\ Continue("read_indentation_as_newline_token", s, [token EXCEPT !.type = "NEWLINE"])
  <2>. DEFINE t == [token EXCEPT !.type = "NEWLINE"]
  <2>1. t \in Token
    BY <1>4 DEF TokenTypes
  <2>2. t.type = "NEWLINE" /\ t.text = <<>>
    BY DEF Token
  <2>3. Continue("read_indentation_as_newline_token", s, t)
    BY <1>7
  <2>. HIDE DEF t
  <2>. QED  BY <2>1, <2>2, <2>3, ContinueInv
<1>8. CASE Byte = EOF /\ Finish(s, [token EXCEPT !.type = "END_OF_FILE"])
  <2>1. [token EXCEPT !.type = "END_OF_FILE"] \in Token
    BY <1>4 DEF TokenTypes
  <2>2. [token EXCEPT !.type = "END_OF_FILE"].type = "END_OF_FILE"
    BY DEF Token
  <2>. QED  BY <1>8, <2>1, <2>2, FinishInv
<1>9. CASE /\ Byte \in Quotes
           /\ Continue("read_string", s,
                       [token EXCEPT !.type = IF Byte = "'" THEN "CHAR" ELSE "STRING"])
  <2>1. [token EXCEPT !.type = IF Byte = "'" THEN "CHAR" ELSE "STRING"] \in Token
    BY <1>4 DEF TokenTypes
  <2>2. Byte # "\n"
    BY <1>9 DEF Quotes
  <2>. QED  BY <1>9, <2>1, <2>2, ContinueInv
<1>10. CASE /\ is_identifier_or_number_byte(Byte)
            /\ Continue("read_identifier_or_number", s, [token EXCEPT !.text = <<Byte>>])
  <2>1. Byte \in Bytes /\ Byte # "\n"
    BY <1>10 DEF is_identifier_or_number_byte, Bytes, Letters, Digits
  <2>2. <<Byte>> \in Seq(Bytes)
    BY <2>1, SingletonSeq
  <2>. DEFINE t == [token EXCEPT !.text = <<Byte>>]
  <2>3. t \in Token
    BY <2>2, TokenUpdates
  <2>4. Len(t.text) < NameSize
    BY NameSizeAssumption DEF Token
  <2>5. Continue("read_identifier_or_number", s, t)
    BY <1>10
  <2>. HIDE DEF t
  <2>. QED  BY <2>1, <2>3, <2>4, <2>5, ContinueInv
<1>11. CASE /\ Byte \in operatorChars
            /\ Continue("read_operator", unread_byte(s, Byte), [token EXCEPT !.type = "OPERATOR"])
  <2>1. Byte # "\n"
    BY <1>11, OperatorsAreBytes DEF operatorChars
  <2>. DEFINE t == [token EXCEPT !.type = "OPERATOR"]
  <2>2. t \in Token
    BY <1>4 DEF TokenTypes
  <2>3. Len(t.text) < 4
    BY DEF Token
  <2>4. Continue("read_operator", unread_byte(s, Byte), t)
    BY <1>11
  <2>. HIDE DEF t
  <2>. QED  BY <2>1, <2>2, <2>3, <2>4, ContinueInv
<1>12. CASE Fail(s, "unexpected byte", s.lineno)
  BY <1>12, FailInv
<1>. QED  BY <1>5, <1>6, <1>7, <1>8, <1>9, <1>10, <1>11, <1>12 DEF ReadToken, s

\* The next two run while a newline token is made, maybe the first token.
LEMMA NewlineUnderway ==
    ASSUME TokenizeInv,
           reading \in {"consume_rest_of_line", "read_indentation_as_newline_token"}
    PROVE  token.text = <<>> /\ (tokens = <<>> => token.type = "NEWLINE")
BY DEF TokenizeInv, FirstInv, BufferInv, StillReading

LEMMA ConsumeRestOfLineInv == ASSUME TokenizeInv, ConsumeRestOfLine PROVE TokenizeInv'
<1>. DEFINE caller == IF token.type = "NEWLINE" THEN "read_indentation_as_newline_token"
                      ELSE "read_token"
<1>1. In("consume_rest_of_line")
  BY DEF ConsumeRestOfLine
<1>2. /\ StillReading /\ reading = "consume_rest_of_line" /\ token \in Token
      /\ read_byte(st) \in ReaderState
      /\ unread_byte(read_byte(st), Byte) \in ReaderState
  BY <1>1, Reading
<1>3. token.text = <<>> /\ (tokens = <<>> => token.type = "NEWLINE")
  BY <1>2, NewlineUnderway
<1>4. CASE Continue(caller, unread_byte(read_byte(st), Byte), token)
  BY <1>2, <1>3, <1>4, ContinueInv
<1>5. CASE Continue("consume_rest_of_line", read_byte(st), token)
  BY <1>2, <1>3, <1>5, ContinueInv
<1>. QED  BY <1>4, <1>5 DEF ConsumeRestOfLine

LEMMA ReadIndentationInv == ASSUME TokenizeInv, ReadIndentation PROVE TokenizeInv'
<1>. DEFINE s == read_byte(st)
<1>1. In("read_indentation_as_newline_token")
  BY DEF ReadIndentation
<1>2. /\ StillReading /\ reading = "read_indentation_as_newline_token" /\ token \in Token
      /\ s \in ReaderState
      /\ unread_byte(s, Byte) \in ReaderState
  BY <1>1, Reading
<1>3. token.text = <<>> /\ (tokens = <<>> => token.type = "NEWLINE")
  BY <1>2, NewlineUnderway
<1>4. \A n \in Nat : /\ [token EXCEPT !.indentation_level = n] \in Token
                     /\ [token EXCEPT !.indentation_level = n].type = token.type
                     /\ [token EXCEPT !.indentation_level = n].text = token.text
  BY <1>2, TokenUpdates DEF Token
<1>. HIDE DEF s
<1>5. ASSUME NEW n \in Nat, Continue(reading, s, [token EXCEPT !.indentation_level = n])
      PROVE  TokenizeInv'
  <2>. DEFINE t == [token EXCEPT !.indentation_level = n]
  <2>1. t \in Token /\ t.text = <<>> /\ (tokens = <<>> => t.type = "NEWLINE")
    BY <1>3, <1>4
  <2>2. Continue("read_indentation_as_newline_token", s, t)
    BY <1>2, <1>5
  <2>. HIDE DEF t
  <2>. QED  BY <1>2, <2>1, <2>2, ContinueInv
<1>6. CASE Continue(reading, s, [token EXCEPT !.indentation_level = @ + 1])
  <2>. DEFINE n == token.indentation_level + 1
  <2>1. n \in Nat
    BY <1>2 DEF Token
  <2>2. Continue(reading, s, [token EXCEPT !.indentation_level = n])
    BY <1>6
  <2>. HIDE DEF n
  <2>. QED  BY <1>5, <2>1, <2>2
<1>7. CASE Continue(reading, s, [token EXCEPT !.indentation_level = 0])
  BY <1>5, <1>7
<1>8. CASE Continue("consume_rest_of_line", s, token)
  BY <1>2, <1>3, <1>8, ContinueInv
<1>9. CASE Finish(s, [token EXCEPT !.type = "END_OF_FILE"])
  <2>. DEFINE t == [token EXCEPT !.type = "END_OF_FILE"]
  <2>1. t \in Token
    BY <1>2, TokenUpdates DEF TokenTypes
  <2>2. t.type = "END_OF_FILE"
    BY <1>2 DEF Token
  <2>3. Finish(s, t)
    BY <1>9
  <2>. HIDE DEF t
  <2>. QED  BY <1>2, <2>1, <2>2, <2>3, FinishInv
<1>10. CASE Finish(unread_byte(s, Byte), token)
  BY <1>2, <1>3, <1>10, FinishInv
<1>. QED  BY <1>6, <1>7, <1>8, <1>9, <1>10 DEF ReadIndentation, s
-----------------------------------------------------------------------------
\* All other functions run after the first token.
LEMMA FirstTokenIsThere ==
    ASSUME TokenizeInv, StillReading,
           reading \notin {"read_token", "consume_rest_of_line",
                           "read_indentation_as_newline_token"}
    PROVE  tokens # <<>>
BY DEF TokenizeInv, FirstInv

LEMMA ReadIdentifierOrNumberInv ==
    ASSUME TokenizeInv, ReadIdentifierOrNumber
    PROVE  TokenizeInv'
<1>. DEFINE s == read_byte(st)
            rest == unread_byte(s, Byte)
<1>1. In("read_identifier_or_number")
  BY DEF ReadIdentifierOrNumber
<1>2. /\ StillReading /\ reading = "read_identifier_or_number" /\ token \in Token
      /\ s \in ReaderState /\ rest \in ReaderState
      /\ \A c \in Bytes : Append(token.text, c) \in Seq(Bytes)
                           /\ Len(Append(token.text, c)) = Len(token.text) + 1
  BY <1>1, Reading
<1>3. tokens # <<>>
  BY <1>2, FirstTokenIsThere
<1>4. Len(token.text) < NameSize /\ Len(token.text) \in Nat
  BY <1>2 DEF TokenizeInv, BufferInv, Token
<1>. HIDE DEF s, rest
<1>5. CASE is_identifier_or_number_byte(Byte) /\ TooLong(token.text)
  BY <1>2, <1>5, FailInv DEF ReadIdentifierOrNumber, s
<1>6. CASE is_identifier_or_number_byte(Byte) /\ ~ TooLong(token.text)
  <2>. DEFINE t == [token EXCEPT !.text = Append(@, Byte)]
  <2>1. Byte \in Bytes
    BY <1>6 DEF is_identifier_or_number_byte, Bytes
  <2>2. t \in Token /\ t.text = Append(token.text, Byte)
    BY <1>2, <2>1, TokenUpdates DEF Token
  <2>3. Len(t.text) < NameSize
    BY <1>2, <1>4, <1>6, <2>1, <2>2, NameSizeAssumption DEF TooLong
  <2>4. Continue("read_identifier_or_number", s, t)
    BY <1>2, <1>6 DEF ReadIdentifierOrNumber, s
  <2>. HIDE DEF t
  <2>. QED  BY <1>2, <1>3, <2>2, <2>3, <2>4, ContinueInv
<1>7. CASE ~ is_identifier_or_number_byte(Byte)
  <2>1. \A type \in TokenTypes : [token EXCEPT !.type = type] \in Token
    BY <1>2, TokenUpdates
  <2>2. CASE Finish(rest, [token EXCEPT !.type = "NAME"])
    <3>1. [token EXCEPT !.type = "NAME"] \in Token
      BY <2>1 DEF TokenTypes
    <3>. QED  BY <1>2, <1>3, <2>2, <3>1, FinishInv
  <2>3. CASE Finish(rest, [token EXCEPT !.type = "INT"])
    <3>1. [token EXCEPT !.type = "INT"] \in Token
      BY <2>1 DEF TokenTypes
    <3>. QED  BY <1>2, <1>3, <2>3, <3>1, FinishInv
  <2>4. CASE Fail(rest, "invalid number", token.lineno)
    BY <1>2, <2>4, FailInv
  <2>. QED  BY <1>7, <2>2, <2>3, <2>4 DEF ReadIdentifierOrNumber, s, rest
<1>. QED  BY <1>5, <1>6, <1>7

\* A byte is added to a string.
LEMMA StringGrows ==
    ASSUME TokenizeInv, In("read_string") \/ In("after_backslash"),
           NEW c \in Bytes, Continue("read_string", read_byte(st), [token EXCEPT !.text = Append(@, c)])
    PROVE  TokenizeInv'
<1>. DEFINE s == read_byte(st)
            t == [token EXCEPT !.text = Append(@, c)]
<1>1. /\ StillReading /\ reading \in {"read_string", "after_backslash"}
      /\ token \in Token /\ s \in ReaderState
      /\ Append(token.text, c) \in Seq(Bytes)
  BY Reading
<1>2. t \in Token
  BY <1>1, TokenUpdates DEF Token
<1>3. tokens # <<>>
  BY <1>1, FirstTokenIsThere
<1>4. Continue("read_string", s, t)
  OBVIOUS
<1>. HIDE DEF s, t
<1>. QED  BY <1>1, <1>2, <1>3, <1>4, ContinueInv

LEMMA ReadStringInv == ASSUME TokenizeInv, ReadString PROVE TokenizeInv'
<1>. DEFINE s == read_byte(st)
<1>1. In("read_string")
  BY DEF ReadString
<1>2. /\ StillReading /\ reading = "read_string" /\ token \in Token
      /\ s \in ReaderState /\ Byte \in Bytes \cup {EOF}
  BY <1>1, Reading
<1>3. tokens # <<>>
  BY <1>2, FirstTokenIsThere
<1>. HIDE DEF s
<1>4. ASSUME NEW message, NEW lineno, Fail(s, message, lineno) PROVE TokenizeInv'
  BY <1>2, <1>4, FailInv
<1>5. CASE Byte = Quote
  <2>1. CASE Finish(s, token)
    BY <1>2, <1>3, <2>1, FinishInv
  <2>2. Byte \notin {"\n", EOF, "\\"}
    BY <1>5 DEF Quote, EOF
  <2>. QED  BY <1>4, <1>5, <2>1, <2>2 DEF ReadString, s
<1>6. CASE Byte # Quote /\ Byte \in {"\n", EOF}
  BY <1>4, <1>6 DEF ReadString, MissingEndQuote, EOF, s
<1>7. CASE Byte # Quote /\ Byte \notin {"\n", EOF} /\ Byte = "\\"
  <2>1. Continue("after_backslash", s, token)
    BY <1>7 DEF ReadString, EOF, s
  <2>. QED  BY <1>2, <1>3, <2>1, ContinueInv
<1>8. CASE Byte # Quote /\ Byte \notin {"\n", EOF, "\\"}
  <2>1. Continue("read_string", s, [token EXCEPT !.text = Append(@, Byte)])
    BY <1>2, <1>8 DEF ReadString, s
  <2>2. Byte \in Bytes
    BY <1>2, <1>8
  <2>. QED  BY <1>1, <2>1, <2>2, StringGrows DEF s
<1>. QED  BY <1>5, <1>6, <1>7, <1>8

LEMMA ReadAfterBackslashInv == ASSUME TokenizeInv, ReadAfterBackslash PROVE TokenizeInv'
<1>. DEFINE s == read_byte(st)
            escape == /\ Byte \in {"n", "r", "\\"} \cup Quotes \cup Digits
                      /\ ~(token.type = "STRING" /\ Byte = "0")
<1>1. In("after_backslash")
  BY DEF ReadAfterBackslash
<1>2. /\ StillReading /\ reading = "after_backslash" /\ token \in Token /\ s \in ReaderState
  BY <1>1, Reading
<1>3. tokens # <<>>
  BY <1>2, FirstTokenIsThere
<1>. HIDE DEF s
<1>4. ASSUME NEW message, NEW lineno, Fail(s, message, lineno) PROVE TokenizeInv'
  BY <1>2, <1>4, FailInv
<1>5. CASE Continue("read_string", s, token)
  BY <1>2, <1>3, <1>5, ContinueInv
<1>6. CASE Byte \in {"n", "r", "\\"} \cup Quotes \cup Digits
           /\ Continue("read_string", s, [token EXCEPT !.text = Append(@, Escaped(Byte))])
  <2>1. {"n", "r", "\\", "\n", "\r"} \cup Quotes \cup Digits \subseteq Bytes
    BY DEF Bytes, Letters
  <2>2. Escaped(Byte) \in Bytes
    BY <1>6, <2>1 DEF Escaped
  <2>. QED  BY <1>1, <1>6, <2>2, StringGrows DEF s
<1>. QED  BY <1>4, <1>5, <1>6 DEF ReadAfterBackslash, MissingEndQuote, s
-----------------------------------------------------------------------------
LEMMA OperatorsType == operators \in Seq(Seq(operatorChars)) /\ operators \in Seq(Seq(Bytes))
<1>. DEFINE longer ==
              << <<".", ".", ".">>, <<"=", "=", "=">>, <<"!", "=", "=">>,
                 <<"=", "=">>, <<"!", "=">>, <<"-", ">">>, <<"<", "=">>, <<">", "=">>,
                 <<"+", "+">>, <<"-", "-">> >>
            single == [i \in DOMAIN OneByteOperators |-> <<OneByteOperators[i]>>]
<1>1. longer \in Seq(Seq(operatorChars))
  <2>1. {".", "=", "!", "-", "<", ">", "+"} \subseteq operatorChars
    <3>1. {".", "=", "-", "<", ">", "+"} \subseteq ToSet(OneByteOperators)
      <4>1. /\ OneByteOperators[1] = "." /\ OneByteOperators[5] = "="
            /\ OneByteOperators[15] = "+" /\ OneByteOperators[16] = "-"
            /\ OneByteOperators[17] = "<" /\ OneByteOperators[18] = ">"
        BY DEF OneByteOperators
      <4>2. {1, 5, 15, 16, 17, 18} \subseteq DOMAIN OneByteOperators
        BY DEF OneByteOperators
      <4>. QED  BY <4>1, <4>2 DEF ToSet
    <3>. QED  BY <3>1 DEF operatorChars
  <2>. QED  BY <2>1
<1>2. single \in Seq(Seq(operatorChars))
  <2>1. DOMAIN OneByteOperators = 1 .. 18
    BY DEF OneByteOperators
  <2>2. \A i \in 1 .. 18 : OneByteOperators[i] \in operatorChars
    BY <2>1 DEF operatorChars, ToSet
  <2>3. \A i \in 1 .. 18 : <<OneByteOperators[i]>> \in Seq(operatorChars)
    BY <2>2, SingletonSeq
  <2>. QED  BY <2>1, <2>3
<1>3. operators = longer \o single
  BY DEF operators
<1>4. Seq(Seq(operatorChars)) \subseteq Seq(Seq(Bytes))
  <2>1. Seq(operatorChars) \subseteq Seq(Bytes)
    BY SpecialBytes, SeqSubset
  <2>. QED  BY <2>1, SeqSubset
<1>. HIDE DEF longer, single
<1>. QED  BY <1>1, <1>2, <1>3, <1>4, ConcatSeq

\* The search through the list finds an entry.
LEMMA FirstMatching ==
    ASSUME NEW text, Matching(text) # {}
    PROVE  operators[First(Matching(text))] \in Seq(Bytes)
<1>1. DOMAIN operators \subseteq Nat
  BY OperatorsType
<1>2. Matching(text) \in SUBSET Nat
  BY <1>1 DEF Matching
<1>3. \E i \in Matching(text) : \A j \in Matching(text) : i <= j
  BY <1>2, LeastNatural
<1>4. First(Matching(text)) \in Matching(text)
  BY <1>3 DEF First
<1>. QED  BY <1>4, OperatorsType DEF Matching

LEMMA ReadOperatorByteInv == ASSUME TokenizeInv, ReadOperatorByte PROVE TokenizeInv'
<1>. DEFINE t == [token EXCEPT !.text = Append(@, Byte)]
<1>1. In("read_operator") /\ Byte \in operatorChars /\ Len(token.text) < 3
  BY DEF ReadOperatorByte
<1>2. /\ StillReading /\ reading = "read_operator" /\ token \in Token
      /\ read_byte(st) \in ReaderState
      /\ \A c \in Bytes : Append(token.text, c) \in Seq(Bytes)
                           /\ Len(Append(token.text, c)) = Len(token.text) + 1
  BY <1>1, Reading
<1>3. Byte \in Bytes
  BY <1>1, SpecialBytes
<1>4. t \in Token /\ t.text = Append(token.text, Byte)
  BY <1>2, <1>3, TokenUpdates DEF Token
<1>5. Len(t.text) < 4
  BY <1>1, <1>2, <1>3, <1>4 DEF Token
<1>6. tokens # <<>>
  BY <1>2, FirstTokenIsThere
<1>7. Continue("read_operator", read_byte(st), t)
  BY <1>2 DEF ReadOperatorByte
<1>. HIDE DEF t
<1>. QED  BY <1>2, <1>4, <1>5, <1>6, <1>7, ContinueInv

LEMMA ReadOperatorInv == ASSUME TokenizeInv, ReadOperator PROVE TokenizeInv'
<1>. DEFINE s == IF Len(token.text) = 3 THEN st ELSE unread_byte(read_byte(st), Byte)
            op == operators[First(Matching(token.text))]
            unused == SubSeq(token.text, Len(op) + 1, Len(token.text))
<1>1. reading = "read_operator" /\ (Len(token.text) # 3 => In("read_operator"))
  BY DEF ReadOperator, OperatorIsFull, In
<1>2. /\ StillReading /\ reading = "read_operator" /\ token \in Token
      /\ st \in ReaderState /\ s \in ReaderState
  <2>1. StillReading /\ token \in Token /\ st \in ReaderState
    BY <1>1 DEF TokenizeInv, TypeInv, StillReading
  <2>2. CASE Len(token.text) = 3
    BY <1>1, <2>1, <2>2
  <2>3. CASE Len(token.text) # 3
    BY <1>1, <2>1, <2>3, Reading
  <2>. QED  BY <2>2, <2>3
<1>3. tokens # <<>>
  BY <1>2, FirstTokenIsThere
<1>. HIDE DEF s
<1>4. CASE Matching(token.text) = {}
  BY <1>2, <1>4, FailInv DEF ReadOperator, s
<1>5. CASE Matching(token.text) # {}
  <2>1. op \in Seq(Bytes)
    BY <1>5, FirstMatching
  <2>2. token.text \in Seq(Bytes) /\ s.pushback \in Seq(Bytes)
    BY <1>2 DEF Token, ReaderState
  <2>. HIDE DEF op
  <2>3. unused \in Seq(Bytes)
    BY <2>1, <2>2, SuffixSeq
  <2>. HIDE DEF unused
  <2>4. s.pushback \o Reverse(unused) \in Seq(Bytes)
    BY <2>2, <2>3, ReverseSeq, ConcatSeq
  <2>5. UnreadAll(s, unused) \in ReaderState
    BY <1>2, <2>4 DEF UnreadAll, ReaderState
  <2>6. [token EXCEPT !.text = op] \in Token
    BY <1>2, <2>1, TokenUpdates
  <2>7. \/ Fail(UnreadAll(s, unused), "no such operator", s.lineno)
        \/ Finish(UnreadAll(s, unused), [token EXCEPT !.text = op])
    BY <1>5 DEF ReadOperator, s, op, unused
  <2>. QED  BY <1>2, <1>3, <2>5, <2>6, <2>7, FailInv, FinishInv
<1>. QED  BY <1>4, <1>5
-----------------------------------------------------------------------------
\* handle_indentations: what it prepends is made of tokens.
LEMMA LayoutTokensType ==
    ASSUME NEW type \in TokenTypes, NEW n \in Int, NEW lineno \in Int
    PROVE  LayoutTokens(type, n, lineno) \in Seq(Token)
<1>. DEFINE t == [NewToken(lineno) EXCEPT !.type = type]
<1>1. t \in Token
  BY NewTokenType, TokenUpdates
<1>2. LayoutTokens(type, n, lineno) = [i \in 1 .. n |-> t]
  BY DEF LayoutTokens
<1>. HIDE DEF t
<1>3. CASE n \in Nat
  BY <1>1, <1>2, <1>3
<1>4. CASE n \notin Nat
  BY <1>2, <1>4
<1>. QED  BY <1>3, <1>4

LEMMA Indenting ==
    ASSUME TokenizeInv, NEW types, InIndentations(types)
    PROVE  /\ reading = "handle_indentations" /\ tokens \in Seq(Token) /\ tokens # <<>>
           /\ NextToken \in Token /\ NextToken.type \in types
           /\ Tail(tokens) \in Seq(Token)
           /\ output \in Seq(Token)
           /\ IF output # <<>> THEN output[1].type = "NEWLINE"
              ELSE NextToken.type \in {"NEWLINE", "END_OF_FILE"}
BY TailSeq DEF TokenizeInv, TypeInv, FirstInv, InIndentations, NextToken

LEMMA CopyTokenInv == ASSUME TokenizeInv, CopyToken PROVE TokenizeInv'
<1>1. InIndentations({"INT", "CHAR", "STRING", "NAME", "OPERATOR"})
  BY DEF CopyToken
<1>2. /\ NextToken \in Token /\ Tail(tokens) \in Seq(Token) /\ output \in Seq(Token)
      /\ reading = "handle_indentations"
      /\ output # <<>> /\ output[1].type = "NEWLINE"
  BY <1>1, Indenting
<1>3. /\ output' \in Seq(Token) /\ output' # <<>> /\ output'[1] = output[1]
      /\ tokens' \in Seq(Token)
  BY <1>2, AppendSeq DEF CopyToken
<1>4. TypeInv'
  BY <1>3 DEF TokenizeInv, TypeInv, CopyToken, ReaderState
<1>5. FirstInv'
  BY <1>2, <1>3 DEF FirstInv, CopyToken, StillReading
<1>6. BufferInv'
  BY <1>2 DEF TokenizeInv, BufferInv, CopyToken
<1>. QED  BY <1>4, <1>5, <1>6 DEF TokenizeInv

LEMMA HandleNewlineInv == ASSUME TokenizeInv, HandleNewline PROVE TokenizeInv'
<1>. DEFINE lineno == NextToken.lineno + 1
            new == NextToken.indentation_level
            indents == LayoutTokens("INDENT", (new - level) \div 4, lineno)
            dedents == LayoutTokens("DEDENT", (level - new) \div 4, lineno)
<1>1. InIndentations({"NEWLINE"})
  BY DEF HandleNewline
<1>2. /\ NextToken \in Token /\ NextToken.type = "NEWLINE"
      /\ Tail(tokens) \in Seq(Token) /\ output \in Seq(Token)
      /\ reading = "handle_indentations"
      /\ output # <<>> => output[1].type = "NEWLINE"
  BY <1>1, Indenting
<1>3. CASE new % 4 # 0
  <2>1. st \in ReaderState
    BY DEF TokenizeInv, TypeInv
  <2>. QED  BY <1>3, <2>1, FailInv DEF HandleNewline
<1>4. CASE new % 4 = 0
  <2>1. new \in Nat /\ lineno \in Int /\ level \in Nat
    BY <1>2 DEF Token, TokenizeInv, TypeInv
  <2>2. (new - level) \div 4 \in Int /\ (level - new) \div 4 \in Int
    BY <2>1
  <2>3. indents \in Seq(Token) /\ dedents \in Seq(Token)
    <3>1. "INDENT" \in TokenTypes /\ "DEDENT" \in TokenTypes
      BY DEF TokenTypes
    <3>. QED  BY <2>1, <2>2, <3>1, LayoutTokensType
  <2>4. <<NextToken>> \in Seq(Token)
    BY <1>2, SingletonSeq
  <2>5. output' = output \o <<NextToken>> \o indents \o dedents
    BY <1>4 DEF HandleNewline
  <2>. HIDE DEF indents, dedents
  <2>6. output' \in Seq(Token) /\ output' # <<>> /\ output'[1].type = "NEWLINE"
    <3>1. /\ output \o <<NextToken>> \in Seq(Token) /\ output \o <<NextToken>> # <<>>
          /\ (output \o <<NextToken>>)[1].type = "NEWLINE"
      BY <1>2, <2>4, ConcatSeq
    <3>2. /\ output \o <<NextToken>> \o indents \in Seq(Token)
          /\ output \o <<NextToken>> \o indents # <<>>
          /\ (output \o <<NextToken>> \o indents)[1].type = "NEWLINE"
      BY <2>3, <3>1, ConcatSeq
    <3>. QED  BY <2>3, <2>5, <3>2, ConcatSeq
  <2>7. /\ tokens' = Tail(tokens) /\ level' = new
        /\ UNCHANGED <<file, st, reading, token, error>>
    BY <1>4 DEF HandleNewline
  <2>8. TypeInv'
    BY <1>2, <1>4, <2>1, <2>6, <2>7 DEF TokenizeInv, TypeInv, ReaderState
  <2>9. FirstInv'
    BY <1>2, <2>6, <2>7 DEF FirstInv, StillReading
  <2>10. BufferInv'
    BY <1>2, <2>7 DEF TokenizeInv, BufferInv
  <2>. QED  BY <2>8, <2>9, <2>10 DEF TokenizeInv
<1>. QED  BY <1>3, <1>4

LEMMA HandleEndOfFileInv == ASSUME TokenizeInv, HandleEndOfFile PROVE TokenizeInv'
<1>. DEFINE newline == LayoutTokens("NEWLINE", 1, NextToken.lineno)
            dedents == LayoutTokens("DEDENT", level \div 4, NextToken.lineno)
            closed == output \o newline \o dedents \o <<NextToken>>
<1>1. InIndentations({"END_OF_FILE"})
  BY DEF HandleEndOfFile
<1>2. /\ NextToken \in Token /\ output \in Seq(Token) /\ reading = "handle_indentations"
  BY <1>1, Indenting
<1>3. newline \in Seq(Token) /\ dedents \in Seq(Token)
  <2>1. "NEWLINE" \in TokenTypes /\ "DEDENT" \in TokenTypes
    BY DEF TokenTypes
  <2>2. NextToken.lineno \in Int /\ level \div 4 \in Int
    BY <1>2 DEF Token, TokenizeInv, TypeInv
  <2>. QED  BY <2>1, <2>2, LayoutTokensType
<1>4. <<NextToken>> \in Seq(Token)
  BY <1>2, SingletonSeq
<1>. HIDE DEF newline, dedents
<1>5. closed \in Seq(Token) /\ closed # <<>>
  BY <1>2, <1>3, <1>4
<1>6. output' = Tail(closed)
  BY DEF HandleEndOfFile, newline, dedents
<1>. HIDE DEF closed
<1>7. output' \in Seq(Token)
  BY <1>5, <1>6, TailSeq
<1>8. TypeInv'
  BY <1>7 DEF TokenizeInv, TypeInv, HandleEndOfFile, ReaderState
<1>9. FirstInv'
  BY DEF FirstInv, HandleEndOfFile, StillReading
<1>10. BufferInv'
  BY <1>2 DEF TokenizeInv, BufferInv, HandleEndOfFile
<1>. QED  BY <1>8, <1>9, <1>10 DEF TokenizeInv
-----------------------------------------------------------------------------
LEMMA StepTokenizeInv == TokenizeInv /\ [Next]_vars => TokenizeInv'
<1>. SUFFICES ASSUME TokenizeInv, [Next]_vars PROVE TokenizeInv'
  OBVIOUS
<1>1. CASE Step
  BY <1>1, ReadBadByteInv, ReadTokenInv, ConsumeRestOfLineInv, ReadIndentationInv,
     ReadIdentifierOrNumberInv, ReadStringInv, ReadAfterBackslashInv,
     ReadOperatorByteInv, ReadOperatorInv, CopyTokenInv, HandleNewlineInv,
     HandleEndOfFileInv
     DEF Step
<1>2. CASE UNCHANGED vars
  BY <1>2 DEF vars, TokenizeInv, TypeInv, FirstInv, BufferInv, ReaderState, StillReading
<1>. QED  BY <1>1, <1>2 DEF Next, Stopped

THEOREM TokenizerInvariant == Spec => []TokenizeInv
BY InitTokenizeInv, StepTokenizeInv, PTL DEF Spec

\* For every file and every array size from 2 on: names and operators fit into
\* their arrays with a zero behind them, the read position stays in the file,
\* the nesting is a multiple of 4, and the list that handle_indentations
\* removes the fake newline from does start with a newline.
THEOREM TokenizerTypeCorrect == Spec => []TypeOK
<1>1. TokenizeInv => TypeOK
  BY DEF TokenizeInv, TypeInv, FirstInv, BufferInv, ReaderState, TypeOK, StillReading
<1>. QED  BY <1>1, TokenizerInvariant, PTL
-----------------------------------------------------------------------------
\* What joining sequences unfolds to, one after another.
Joins(g, s, T) ==
    /\ g \in [1 .. Len(s) -> Seq(T)]
    /\ \A i \in 1 .. Len(s) : g[i] = IF i = 1 THEN s[i] ELSE g[i - 1] \o s[i]

LEMMA JoinsExist ==
    ASSUME NEW T, NEW s \in Seq(Seq(T))
    PROVE  \E g : Joins(g, s, T)
<1>. DEFINE Upto(n) == \E g \in [1 .. n -> Seq(T)] :
                          \A i \in 1 .. n : g[i] = IF i = 1 THEN s[i] ELSE g[i - 1] \o s[i]
            Missing == {n \in 0 .. Len(s) : ~ Upto(n)}
<1>1. CASE Missing = {}
  <2>1. Upto(Len(s))
    <3>. HIDE DEF Upto
    <3>. QED  BY <1>1
  <2>. QED  BY <2>1 DEF Joins
<1>2. CASE Missing # {}
  <2>1. PICK m \in Missing : \A k \in Missing : m <= k
    <3>1. Missing \in SUBSET Nat
      OBVIOUS
    <3>. HIDE DEF Missing
    <3>. QED  BY <1>2, <3>1, LeastNatural
  <2>2. m # 0
    <3>1. Upto(0)
      <4>. DEFINE g == [i \in 1 .. 0 |-> <<>>]
      <4>1. g \in [1 .. 0 -> Seq(T)]
        OBVIOUS
      <4>2. \A i \in 1 .. 0 : g[i] = IF i = 1 THEN s[i] ELSE g[i - 1] \o s[i]
        OBVIOUS
      <4>. HIDE DEF g
      <4>. QED  BY <4>1, <4>2
    <3>. HIDE DEF Upto
    <3>. QED  BY <3>1
  <2>3. m \in 1 .. Len(s) /\ ~ Upto(m)
    BY <2>2
  <2>4. Upto(m - 1)
    <3>1. m - 1 \in 0 .. Len(s) /\ ~ (m <= m - 1)
      BY <2>3
    <3>. HIDE DEF Upto
    <3>. QED  BY <2>1, <3>1
  <2>5. PICK g \in [1 .. m - 1 -> Seq(T)] :
            \A i \in 1 .. m - 1 : g[i] = IF i = 1 THEN s[i] ELSE g[i - 1] \o s[i]
    BY <2>4
  <2>. DEFINE v == IF m = 1 THEN s[m] ELSE g[m - 1] \o s[m]
              h == [i \in 1 .. m |-> IF i = m THEN v ELSE g[i]]
  <2>6. v \in Seq(T)
    <3>1. s[m] \in Seq(T)
      BY <2>3
    <3>2. CASE m = 1
      BY <3>1, <3>2
    <3>3. CASE m # 1
      <4>1. g[m - 1] \in Seq(T)
        BY <2>3, <2>5, <3>3
      <4>. QED  BY <3>1, <3>3, <4>1, ConcatSeq
    <3>. QED  BY <3>2, <3>3
  <2>7. h \in [1 .. m -> Seq(T)]
    <3>. HIDE DEF v
    <3>. QED  BY <2>3, <2>5, <2>6
  <2>8. \A i \in 1 .. m : h[i] = IF i = 1 THEN s[i] ELSE h[i - 1] \o s[i]
    <3>. SUFFICES ASSUME NEW i \in 1 .. m
         PROVE  h[i] = IF i = 1 THEN s[i] ELSE h[i - 1] \o s[i]
      OBVIOUS
    <3>1. CASE i = m
      BY <2>3, <3>1
    <3>2. CASE i # m
      <4>1. i \in 1 .. m - 1 /\ h[i] = g[i] /\ (i # 1 => h[i - 1] = g[i - 1])
        BY <2>3, <3>2
      <4>. HIDE DEF h
      <4>. QED  BY <2>5, <4>1
    <3>. QED  BY <3>1, <3>2
  <2>9. Upto(m)
    <3>. HIDE DEF h
    <3>. QED  BY <2>7, <2>8
  <2>. QED  BY <2>3, <2>9
<1>. QED  BY <1>1, <1>2

LEMMA FlattenSeqJoins ==
    ASSUME NEW T, NEW s \in Seq(Seq(T)), s # <<>>
    PROVE  \E g : Joins(g, s, T) /\ FlattenSeq(s) = g[Len(s)]
<1>. DEFINE Unfolds(g) == g = [i \in 1 .. Len(s) |-> IF i = 1 THEN s[i] ELSE g[i - 1] \o s[i]]
            flatten == CHOOSE g : Unfolds(g)
<1>1. PICK h : Joins(h, s, T)
  BY JoinsExist
<1>2. Unfolds(h)
  BY <1>1 DEF Joins
<1>3. Unfolds(flatten)
  <2>. HIDE DEF Unfolds
  <2>. QED  BY <1>2
<1>4. FlattenSeq(s) = flatten[Len(s)]
  BY DEF FlattenSeq
<1>. DEFINE Typed(i) == flatten[i] \in Seq(T)
            Others == {i \in 1 .. Len(s) : ~ Typed(i)}
<1>. HIDE DEF flatten
<1>5. Others = {}
  <2>. SUFFICES ASSUME Others # {} PROVE FALSE
    OBVIOUS
  <2>1. PICK m \in Others : \A k \in Others : m <= k
    <3>1. Others \in SUBSET Nat
      OBVIOUS
    <3>. HIDE DEF Others
    <3>. QED  BY <3>1, LeastNatural
  <2>2. m \in 1 .. Len(s) /\ s[m] \in Seq(T)
    OBVIOUS
  <2>3. CASE m = 1
    BY <1>3, <2>2, <2>3
  <2>4. CASE m # 1
    <3>1. m - 1 \in 1 .. Len(s) /\ ~ (m <= m - 1)
      BY <2>2, <2>4
    <3>2. Typed(m - 1)
      <4>. HIDE DEF Typed
      <4>. QED  BY <2>1, <3>1
    <3>3. flatten[m] = flatten[m - 1] \o s[m]
      BY <1>3, <2>2, <2>4
    <3>4. Typed(m)
      BY <2>2, <3>2, <3>3, ConcatSeq
    <3>. QED  BY <3>4
  <2>. QED  BY <2>3, <2>4
<1>6. Joins(flatten, s, T)
  BY <1>3, <1>5 DEF Joins
<1>. QED  BY <1>4, <1>6

LEMMA JoinsAt ==
    ASSUME NEW T, NEW s \in Seq(Seq(T)), NEW g, Joins(g, s, T)
    PROVE  /\ \A i \in 1 .. Len(s) : g[i] \in Seq(T)
           /\ s # <<>> => g[1] = s[1]
           /\ \A i \in 1 .. Len(s) : i # 1 => g[i] = g[i - 1] \o s[i]
<1>1. s # <<>> => 1 \in 1 .. Len(s)
  OBVIOUS
<1>. QED  BY <1>1 DEF Joins

\* Joined from the front.
LEMMA FlattenSeqFromFront ==
    ASSUME NEW T, NEW a \in Seq(T), NEW r \in Seq(Seq(T))
    PROVE  FlattenSeq(<<a>> \o r) = a \o FlattenSeq(r) /\ FlattenSeq(r) \in Seq(T)
<1>0. PICK s \in Seq(Seq(T)) : s = <<a>> \o r
  <2>1. <<a>> \o r \in Seq(Seq(T))
    OBVIOUS
  <2>. QED  BY <2>1
<1>1. /\ s \in Seq(Seq(T)) /\ s # <<>> /\ Len(s) = Len(r) + 1 /\ s[1] = a
      /\ \A i \in 1 .. Len(r) : s[i + 1] = r[i]
  BY <1>0
<1>2. PICK g : Joins(g, s, T) /\ FlattenSeq(s) = g[Len(s)]
  BY <1>1, FlattenSeqJoins
<1>5. /\ \A i \in 1 .. Len(s) : g[i] \in Seq(T)
      /\ g[1] = s[1]
      /\ \A i \in 1 .. Len(s) : i # 1 => g[i] = g[i - 1] \o s[i]
  <2>1. 1 \in 1 .. Len(s) /\ Joins(g, s, T)
    BY <1>1, <1>2
  <2>. QED  BY <2>1 DEF Joins
<1>3. CASE r = <<>>
  <2>1. FlattenSeq(r) = <<>>
    BY <1>3 DEF FlattenSeq
  <2>2. FlattenSeq(s) = a
    BY <1>1, <1>2, <1>3 DEF Joins
  <2>3. <<>> \in Seq(T) /\ a \o <<>> = a
    OBVIOUS
  <2>. QED  BY <1>0, <2>1, <2>2, <2>3
<1>4. CASE r # <<>>
  <2>1. PICK h : Joins(h, r, T) /\ FlattenSeq(r) = h[Len(r)]
    BY <1>4, FlattenSeqJoins
  <2>7. /\ \A i \in 1 .. Len(r) : h[i] \in Seq(T)
        /\ h[1] = r[1]
        /\ \A i \in 1 .. Len(r) : i # 1 => h[i] = h[i - 1] \o r[i]
    BY <1>4, <2>1, JoinsAt
  <2>. DEFINE Same(i) == g[i + 1] = a \o h[i]
              Others == {i \in 1 .. Len(r) : ~ Same(i)}
  <2>2. Others = {}
    <3>. SUFFICES ASSUME Others # {} PROVE FALSE
      OBVIOUS
    <3>1. PICK m \in Others : \A k \in Others : m <= k
      <4>1. Others \in SUBSET Nat
        OBVIOUS
      <4>. HIDE DEF Others
      <4>. QED  BY <4>1, LeastNatural
    <3>2. m \in 1 .. Len(r) /\ ~ Same(m)
      OBVIOUS
    <3>. HIDE DEF Others
    <3>3. g[m + 1] = a \o h[m]
      <4>. HIDE DEF Same
      <4>1. /\ m + 1 \in 1 .. Len(s) /\ m + 1 # 1 /\ m + 1 - 1 = m /\ 1 \in 1 .. Len(s)
            /\ r[m] \in Seq(T) /\ s[m + 1] = r[m] /\ 1 \in 1 .. Len(r)
        BY <1>1, <3>2
      <4>2. g[m + 1] = g[m] \o r[m]
        <5>1. PICK n \in 1 .. Len(s) : n = m + 1
          BY <4>1
        <5>2. g[n] = g[n - 1] \o s[n]
          BY <1>5, <4>1, <5>1
        <5>3. n - 1 = m /\ s[n] = r[m]
          BY <3>2, <4>1, <5>1
        <5>. QED  BY <5>1, <5>2, <5>3
      <4>3. CASE m = 1
        <5>1. g[1] = a /\ h[1] = r[1]
          BY <1>1, <1>4, <1>5, <2>7
        <5>. QED  BY <4>2, <4>3, <5>1
      <4>4. CASE m # 1
        <5>1. m - 1 \in 1 .. Len(r) /\ ~ (m <= m - 1) /\ m - 1 + 1 = m
          BY <3>2, <4>4
        <5>2. Same(m - 1)
          BY <3>1, <5>1 DEF Others
        <5>3. h[m] = h[m - 1] \o r[m] /\ h[m - 1] \in Seq(T)
          BY <2>7, <3>2, <4>4, <5>1
        <5>4. g[m] = a \o h[m - 1]
          BY <5>1, <5>2 DEF Same
        <5>. HIDE <2>1, <1>2
        <5>5. (a \o h[m - 1]) \o r[m] = a \o (h[m - 1] \o r[m])
          <6>1. PICK x \in Seq(T), y \in Seq(T) : x = h[m - 1] /\ y = r[m]
            BY <4>1, <5>3
          <6>2. (a \o x) \o y = a \o (x \o y)
            BY ConcatAssociative
          <6>. QED  BY <6>1, <6>2
        <5>. QED  BY <4>2, <5>3, <5>4, <5>5
      <4>. QED  BY <4>3, <4>4
    <3>. QED  BY <3>2, <3>3 DEF Same
  <2>3. Len(r) \in 1 .. Len(r)
    BY <1>4
  <2>4. Same(Len(r))
    <3>. HIDE DEF Same
    <3>. QED  BY <2>2, <2>3
  <2>5. FlattenSeq(s) = a \o FlattenSeq(r)
    BY <1>1, <1>2, <2>1, <2>4
  <2>6. FlattenSeq(r) \in Seq(T)
    BY <2>1, <2>3 DEF Joins
  <2>. QED  BY <1>0, <2>5, <2>6
<1>. QED  BY <1>3, <1>4

-----------------------------------------------------------------------------
\* A text without CRs before newlines, from the front.
LEMMA WithoutCRFromFront ==
    ASSUME NEW b \in Seq(Bytes)
    PROVE  /\ WithoutCR(b) \in Seq(Bytes)
           /\ b = <<>> => WithoutCR(b) = <<>>
           /\ b # <<>> =>
                 WithoutCR(b) = (IF b[1] = "\r" /\ Len(b) > 1 /\ b[2] = "\n" THEN <<>> ELSE <<b[1]>>)
                                    \o WithoutCR(Tail(b))
<1>. DEFINE Kept(i) == IF b[i] = "\r" /\ i < Len(b) /\ b[i + 1] = "\n" THEN <<>> ELSE <<b[i]>>
            kept == [i \in 1 .. Len(b) |-> Kept(i)]
<1>1. WithoutCR(b) = FlattenSeq(kept)
  BY DEF WithoutCR
<1>2. CASE b = <<>>
  <2>1. kept = <<>>
    BY <1>2
  <2>2. FlattenSeq(kept) = <<>>
    <3>. HIDE DEF kept
    <3>. QED  BY <2>1 DEF FlattenSeq
  <2>. QED  BY <1>1, <1>2, <2>2
<1>3. CASE b # <<>>
  <2>. DEFINE c == Tail(b)
              KeptOfTail(i) == IF c[i] = "\r" /\ i < Len(c) /\ c[i + 1] = "\n" THEN <<>> ELSE <<c[i]>>
              r == [i \in 1 .. Len(c) |-> KeptOfTail(i)]
  <2>1. /\ c \in Seq(Bytes) /\ Len(b) \in Nat /\ Len(c) = Len(b) - 1
        /\ \A i \in 1 .. Len(c) : c[i] = b[i + 1]
    BY <1>3
  <2>2. \A i \in 1 .. Len(b) : b[i] \in Bytes /\ Kept(i) \in Seq(Bytes)
    BY SingletonSeq
  <2>3. WithoutCR(c) = FlattenSeq(r)
    BY <2>1 DEF WithoutCR
  <2>. HIDE DEF c
  <2>4. \A i \in 1 .. Len(c) : KeptOfTail(i) = Kept(i + 1)
    BY <2>1
  <2>5. Kept(1) \in Seq(Bytes)
    <3>1. 1 \in 1 .. Len(b)
      BY <1>3
    <3>. HIDE DEF Kept
    <3>. QED  BY <2>2, <3>1
  <2>6. r \in Seq(Seq(Bytes))
    <3>. HIDE DEF Kept, KeptOfTail
    <3>1. \A i \in 1 .. Len(c) : i + 1 \in 1 .. Len(b)
      BY <2>1
    <3>2. \A i \in 1 .. Len(c) : KeptOfTail(i) \in Seq(Bytes)
      BY <2>2, <2>4, <3>1
    <3>. QED  BY <2>1, <3>2
  <2>7. kept = <<Kept(1)>> \o r
    <3>. HIDE DEF Kept, KeptOfTail
    <3>1. \A i \in 1 .. Len(c) : r[i] = Kept(i + 1)
      BY <2>4
    <3>2. Len(r) = Len(c) /\ r \in Seq(Seq(Bytes))
      BY <2>1, <2>6
    <3>. HIDE DEF r
    <3>3. Len(<<Kept(1)>> \o r) = Len(b) /\ DOMAIN (<<Kept(1)>> \o r) = 1 .. Len(b)
      BY <2>1, <2>5, <3>2
    <3>4. \A i \in 1 .. Len(b) : (<<Kept(1)>> \o r)[i] = Kept(i)
      <4>. SUFFICES ASSUME NEW i \in 1 .. Len(b) PROVE (<<Kept(1)>> \o r)[i] = Kept(i)
        OBVIOUS
      <4>1. CASE i = 1
        BY <4>1, <2>5, <3>2
      <4>2. CASE i # 1
        <5>1. i - 1 \in 1 .. Len(c) /\ i - 1 + 1 = i
          BY <2>1, <4>2
        <5>2. (<<Kept(1)>> \o r)[i] = r[i - 1]
          BY <2>1, <2>5, <3>2, <4>2, <5>1
        <5>. QED  BY <3>1, <5>1, <5>2
      <4>. QED  BY <4>1, <4>2
    <3>5. kept \in Seq(Seq(Bytes)) /\ <<Kept(1)>> \o r \in Seq(Seq(Bytes))
      BY <2>1, <2>2, <2>5, <3>2
    <3>. QED  BY <3>3, <3>4, <3>5
  <2>8. FlattenSeq(kept) = Kept(1) \o FlattenSeq(r) /\ FlattenSeq(r) \in Seq(Bytes)
    <3>. HIDE DEF kept, r, Kept
    <3>. QED  BY <2>5, <2>6, <2>7, FlattenSeqFromFront
  <2>9. Kept(1) = IF b[1] = "\r" /\ Len(b) > 1 /\ b[2] = "\n" THEN <<>> ELSE <<b[1]>>
    BY <2>1
  <2>10. Kept(1) \o FlattenSeq(r) \in Seq(Bytes)
    <3>. HIDE DEF kept, r, Kept
    <3>. QED  BY <2>5, <2>8, ConcatSeq
  <2>. HIDE DEF kept, r, Kept
  <2>. QED  BY <1>1, <1>3, <2>3, <2>8, <2>9, <2>10 DEF c
<1>. QED  BY <1>2, <1>3

-----------------------------------------------------------------------------
\* What a reader has still to read: what was given back, and the rest of the
\* file.
FileRest(n) == WithoutCR(SubSeq(file, n, Len(file)))
Rest(s) == Reverse(s.pushback) \o FileRest(s.pos)

LEMMA FileRestType ==
    ASSUME TypeInv, NEW n \in 1 .. Len(file) + 1
    PROVE  FileRest(n) \in Seq(Bytes)
<1>1. SubSeq(file, n, Len(file)) \in Seq(Bytes)
  BY DEF TypeInv
<1>. HIDE DEF TypeInv
<1>. QED  BY <1>1, WithoutCRFromFront DEF FileRest

LEMMA RestType ==
    ASSUME TypeInv, NEW s \in ReaderState
    PROVE  Rest(s) \in Seq(Bytes)
<1>1. s.pushback \in Seq(Bytes) /\ s.pos \in 1 .. Len(file) + 1
  BY DEF ReaderState
<1>2. FileRest(s.pos) \in Seq(Bytes) /\ Reverse(s.pushback) \in Seq(Bytes)
  BY <1>1, FileRestType, ReverseSeq
<1>. QED  BY <1>2, ConcatSeq DEF Rest

\* A byte of the file, or a CR and the newline after it, makes one byte.
LEMMA FileRestFromFront ==
    ASSUME TypeInv, NEW n \in 1 .. Len(file)
    PROVE  FileRest(n) = (IF file[n] = "\r" /\ n < Len(file) /\ file[n + 1] = "\n" THEN <<>>
                          ELSE <<file[n]>>) \o FileRest(n + 1)
<1>1. file \in Seq(Bytes)
  BY DEF TypeInv
<1>. DEFINE b == SubSeq(file, n, Len(file))
<1>2. /\ b \in Seq(Bytes) /\ b # <<>> /\ Len(b) = Len(file) - n + 1
      /\ b[1] = file[n] /\ (Len(b) > 1 => b[2] = file[n + 1])
  BY <1>1
<1>3. Tail(b) = SubSeq(file, n + 1, Len(file))
  BY <1>1
<1>4. Len(b) > 1 <=> n < Len(file)
  BY <1>1, <1>2
<1>. HIDE DEF b
<1>5. WithoutCR(b) = (IF b[1] = "\r" /\ Len(b) > 1 /\ b[2] = "\n" THEN <<>> ELSE <<b[1]>>)
                        \o WithoutCR(Tail(b))
  BY <1>2, WithoutCRFromFront
<1>6. (IF b[1] = "\r" /\ Len(b) > 1 /\ b[2] = "\n" THEN <<>> ELSE <<b[1]>>)
        = (IF file[n] = "\r" /\ n < Len(file) /\ file[n + 1] = "\n" THEN <<>> ELSE <<file[n]>>)
  BY <1>2, <1>4
<1>. QED  BY <1>3, <1>5, <1>6 DEF FileRest, b

LEMMA FileRestAtEnd == ASSUME TypeInv PROVE FileRest(Len(file) + 1) = <<>>
<1>1. SubSeq(file, Len(file) + 1, Len(file)) = <<>> /\ <<>> \in Seq(Bytes)
  BY DEF TypeInv
<1>. QED  BY <1>1, WithoutCRFromFront DEF FileRest

\* read_byte takes the first byte of what there is to read.
LEMMA ReadByteTakesFirst ==
    ASSUME TypeInv, Byte # Bad
    PROVE  IF Byte = EOF THEN read_byte(st) = st /\ Rest(st) = <<>>
           ELSE Rest(st) = <<Byte>> \o Rest(read_byte(st))
<1>1. /\ st \in ReaderState /\ st.pushback \in Seq(Bytes) /\ st.pos \in 1 .. Len(file) + 1
      /\ file \in Seq(Bytes)
  BY DEF TypeInv, ReaderState
<1>2. CASE st.pushback # <<>>
  <2>1. Byte = Last(st.pushback) /\ Byte \in Bytes /\ Front(st.pushback) \in Seq(Bytes)
    BY <1>1, <1>2, FrontLastSeq DEF Byte, NextByte
  <2>2. Byte # EOF
    BY <2>1, SpecialBytes
  <2>3. read_byte(st).pushback = Front(st.pushback) /\ read_byte(st).pos = st.pos
    BY <1>1, <1>2 DEF read_byte, ReaderState
  <2>4. Reverse(st.pushback) = <<Byte>> \o Reverse(Front(st.pushback))
    BY <1>1, <1>2, <2>1 DEF Reverse, Front, Last
  <2>5. FileRest(st.pos) \in Seq(Bytes) /\ Reverse(Front(st.pushback)) \in Seq(Bytes)
    BY <1>1, <2>1, FileRestType, ReverseSeq
  <2>6. (<<Byte>> \o Reverse(Front(st.pushback))) \o FileRest(st.pos)
            = <<Byte>> \o (Reverse(Front(st.pushback)) \o FileRest(st.pos))
    BY <2>1, <2>5, SingletonSeq, ConcatAssociative
  <2>. QED  BY <2>2, <2>3, <2>4, <2>6 DEF Rest
<1>3. CASE st.pushback = <<>>
  <2>1. Reverse(st.pushback) = <<>>
    BY <1>3 DEF Reverse
  <2>2. Byte = FromFile(st)
    BY <1>3 DEF Byte, NextByte
  <2>3. Rest(st) = FileRest(st.pos)
    BY <1>1, <2>1, FileRestType DEF Rest
  <2>4. CASE st.pos > Len(file)
    <3>1. Byte = EOF /\ st.pos = Len(file) + 1
      BY <1>1, <2>2, <2>4 DEF FromFile
    <3>2. read_byte(st) = st
      BY <1>3, <3>1 DEF read_byte, Byte
    <3>. QED  BY <2>3, <3>1, <3>2, FileRestAtEnd
  <2>5. CASE st.pos \in 1 .. Len(file)
    <3>1. Byte \in Bytes /\ Byte # EOF
      <4>1. Byte \in Bytes \cup {EOF}
        BY ReadByteType DEF Byte
      <4>2. Byte # EOF
        <5>1. file[st.pos] \in Bytes
          BY <1>1, <2>5
        <5>2. file[st.pos] # EOF /\ "\n" # EOF
          BY <5>1, SpecialBytes
        <5>3. ~ (st.pos > Len(file))
          BY <1>1, <2>5
        <5>4. FromFile(st) \in {Bad, file[st.pos], "\n"}
          BY <5>3 DEF FromFile
        <5>. QED  BY <2>2, <5>2, <5>4
      <4>. QED  BY <4>1, <4>2
    <3>2. read_byte(st).pushback = <<>> /\ read_byte(st).pos = st.pos + Width(st)
      BY <1>1, <1>3, <3>1 DEF read_byte, ReaderState, Byte
    <3>3. st.pos + Width(st) \in 1 .. Len(file) + 1
      BY <1>3, <3>1, FromFileType DEF Byte
    <3>4. Rest(read_byte(st)) = FileRest(st.pos + Width(st)) /\ FileRest(st.pos + Width(st)) \in Seq(Bytes)
      BY <2>1, <1>3, <3>2, <3>3, FileRestType DEF Rest
    <3>5. FileRest(st.pos) = <<Byte>> \o FileRest(st.pos + Width(st))
      <4>1. CASE file[st.pos] # "\r"
        <5>1. Byte = file[st.pos] /\ Width(st) = 1
          BY <1>1, <2>2, <2>5, <4>1 DEF FromFile, Width
        <5>. QED  BY <2>5, <4>1, <5>1, FileRestFromFront
      <4>2. CASE file[st.pos] = "\r"
        <5>1. Byte = "\n" /\ Width(st) = 2 /\ st.pos < Len(file) /\ file[st.pos + 1] = "\n"
          BY <1>1, <2>2, <2>5, <4>2 DEF FromFile, Width, ZeroByte
        <5>2. st.pos + 1 \in 1 .. Len(file) /\ st.pos + 1 + 1 = st.pos + 2
          BY <1>1, <5>1
        <5>3. FileRest(st.pos) = <<>> \o FileRest(st.pos + 1)
          BY <2>5, <4>2, <5>1, FileRestFromFront
        <5>4. FileRest(st.pos + 1) = <<"\n">> \o FileRest(st.pos + 2)
          BY <5>1, <5>2, FileRestFromFront
        <5>5. FileRest(st.pos + 1) \in Seq(Bytes)
          BY <1>1, <5>2, FileRestType
        <5>. QED  BY <5>1, <5>3, <5>4, <5>5
      <4>. QED  BY <4>1, <4>2
    <3>. QED  BY <2>3, <3>1, <3>4, <3>5
  <2>. QED  BY <1>1, <2>4, <2>5
<1>. QED  BY <1>2, <1>3

\* What is given back is read next.
LEMMA UnreadByteGivesBack ==
    ASSUME TypeInv, NEW s \in ReaderState, NEW c \in Bytes
    PROVE  Rest(unread_byte(s, c)) = <<c>> \o Rest(s)
<1>1. c # EOF
  BY SpecialBytes
<1>2. s.pushback \in Seq(Bytes) /\ s.pos \in 1 .. Len(file) + 1
  BY DEF ReaderState
<1>3. unread_byte(s, c).pushback = Append(s.pushback, c) /\ unread_byte(s, c).pos = s.pos
  BY <1>1 DEF unread_byte, ReaderState
<1>4. Reverse(Append(s.pushback, c)) = <<c>> \o Reverse(s.pushback)
  BY <1>2 DEF Reverse
<1>5. FileRest(s.pos) \in Seq(Bytes) /\ Reverse(s.pushback) \in Seq(Bytes)
  BY <1>2, FileRestType, ReverseSeq
<1>6. (<<c>> \o Reverse(s.pushback)) \o FileRest(s.pos) = <<c>> \o (Reverse(s.pushback) \o FileRest(s.pos))
  BY <1>5, SingletonSeq, ConcatAssociative
<1>. QED  BY <1>3, <1>4, <1>6 DEF Rest

LEMMA ReverseOfReverse ==
    ASSUME NEW T, NEW p \in Seq(T), NEW q \in Seq(T)
    PROVE  Reverse(p \o Reverse(q)) = q \o Reverse(p)
<1>1. PICK r \in Seq(T) : r = Reverse(q)
  BY ReverseSeq
<1>2. PICK b \in Seq(T) : b = Reverse(p)
  BY ReverseSeq
<1>3. PICK m \in Nat : m = Len(p) /\ Len(b) = m /\ \A i \in 1 .. m : b[i] = p[m - i + 1]
  BY <1>2 DEF Reverse
<1>4. PICK n \in Nat : n = Len(q) /\ Len(r) = n /\ \A i \in 1 .. n : r[i] = q[n - i + 1]
  BY <1>1 DEF Reverse
<1>. HIDE <1>1, <1>2
<1>5. /\ p \o r \in Seq(T) /\ Len(p \o r) = m + n
      /\ q \o b \in Seq(T) /\ Len(q \o b) = m + n
  <2>1. p \o r \in Seq(T) /\ q \o b \in Seq(T)
    OBVIOUS
  <2>2. Len(p \o r) = Len(p) + Len(r) /\ Len(q \o b) = Len(q) + Len(b)
    OBVIOUS
  <2>3. Len(p) = m /\ Len(r) = n /\ Len(q) = n /\ Len(b) = m /\ n + m = m + n
    BY <1>3, <1>4
  <2>. QED  BY <2>1, <2>2, <2>3
<1>6. \A i \in 1 .. m + n : (p \o r)[m + n - i + 1] = (q \o b)[i]
  <2>. SUFFICES ASSUME NEW i \in 1 .. m + n
       PROVE  (p \o r)[m + n - i + 1] = (q \o b)[i]
    OBVIOUS
  <2>1. CASE i \in 1 .. n
    <3>1. n - i + 1 \in 1 .. n
      BY <2>1
    <3>2. PICK k \in 1 .. n : k = n - i + 1
      BY <3>1
    <3>3. n - k + 1 = i /\ m + n - i + 1 = m + k
      BY <3>2
    <3>4. (p \o r)[m + k] = r[k]
      BY <1>3, <1>4
    <3>5. (q \o b)[i] = q[i]
      BY <1>3, <1>4, <2>1
    <3>6. r[k] = q[i]
      BY <1>4, <3>3
    <3>. QED  BY <3>3, <3>4, <3>5, <3>6
  <2>2. CASE i \notin 1 .. n
    <3>1. i - n \in 1 .. m
      BY <2>2
    <3>2. PICK k \in 1 .. m : k = i - n
      BY <3>1
    <3>3. /\ i = n + k /\ m + n - i + 1 = m - k + 1
          /\ m - k + 1 \in 1 .. m
      BY <3>2
    <3>4. (q \o b)[n + k] = b[k]
      BY <1>3, <1>4
    <3>5. b[k] = p[m - k + 1]
      BY <1>3
    <3>6. (p \o r)[m - k + 1] = p[m - k + 1]
      BY <1>3, <1>4, <3>3
    <3>. QED  BY <3>3, <3>4, <3>5, <3>6
  <2>. QED  BY <2>1, <2>2
<1>7. PICK x \in Seq(T) : x = p \o r
  BY <1>5
<1>8. PICK y \in Seq(T) : y = q \o b
  BY <1>5
<1>9. Reverse(x) = y
  <2>1. /\ Len(x) = m + n /\ Len(y) = m + n
        /\ \A i \in 1 .. m + n : x[m + n - i + 1] = y[i]
    BY <1>5, <1>6, <1>7, <1>8
  <2>. QED  BY <2>1 DEF Reverse
<1>. QED  BY <1>1, <1>2, <1>7, <1>8, <1>9

LEMMA UnreadAllGivesBack ==
    ASSUME TypeInv, NEW s \in ReaderState, NEW text \in Seq(Bytes)
    PROVE  /\ UnreadAll(s, text) \in ReaderState
           /\ Rest(UnreadAll(s, text)) = text \o Rest(s)
<1>1. s.pushback \in Seq(Bytes) /\ s.pos \in 1 .. Len(file) + 1
  BY DEF ReaderState
<1>2. /\ UnreadAll(s, text).pushback = s.pushback \o Reverse(text)
      /\ UnreadAll(s, text).pos = s.pos
  BY DEF UnreadAll, ReaderState
<1>3. Reverse(s.pushback \o Reverse(text)) = text \o Reverse(s.pushback)
  BY <1>1, ReverseOfReverse
<1>4. /\ FileRest(s.pos) \in Seq(Bytes) /\ Reverse(s.pushback) \in Seq(Bytes)
      /\ s.pushback \o Reverse(text) \in Seq(Bytes)
  BY <1>1, FileRestType, ReverseSeq, ConcatSeq
<1>5. (text \o Reverse(s.pushback)) \o FileRest(s.pos) = text \o (Reverse(s.pushback) \o FileRest(s.pos))
  BY <1>4, ConcatAssociative
<1>6. UnreadAll(s, text) \in ReaderState
  BY <1>4 DEF UnreadAll, ReaderState
<1>. QED  BY <1>2, <1>3, <1>5, <1>6 DEF Rest

-----------------------------------------------------------------------------
\* Newlines in a text.
NoNewLine(text) == \A i \in 1 .. Len(text) : text[i] # "\n"

LEMMA CountNewLinesType ==
    ASSUME NEW p \in Seq(Bytes)
    PROVE  CountNewLines(p) \in Nat /\ IsFiniteSet({i \in DOMAIN p : p[i] = "\n"})
<1>1. DOMAIN p = 1 .. Len(p) /\ Len(p) \in Nat
  OBVIOUS
<1>2. IsFiniteSet(1 .. Len(p))
  BY <1>1, FS_Interval
<1>3. IsFiniteSet({i \in DOMAIN p : p[i] = "\n"})
  BY <1>1, <1>2, FS_Subset
<1>. QED  BY <1>3, FS_CardinalityType DEF CountNewLines

LEMMA CountNewLinesAppend ==
    ASSUME NEW p \in Seq(Bytes), NEW c \in Bytes
    PROVE  CountNewLines(Append(p, c)) = CountNewLines(p) + NewLines(c)
<1>. DEFINE S == {i \in DOMAIN p : p[i] = "\n"}
            n == Len(p) + 1
            q == Append(p, c)
<1>1. DOMAIN p = 1 .. Len(p) /\ Len(p) \in Nat /\ IsFiniteSet(S) /\ n \notin S
  BY CountNewLinesType
<1>2. DOMAIN q = 1 .. n /\ q[n] = c /\ \A i \in 1 .. Len(p) : q[i] = p[i]
  OBVIOUS
<1>3. {i \in DOMAIN q : q[i] = "\n"} = IF c = "\n" THEN S \cup {n} ELSE S
  BY <1>1, <1>2
<1>4. CountNewLines(q) = Cardinality(IF c = "\n" THEN S \cup {n} ELSE S)
  BY <1>3 DEF CountNewLines
<1>5. CountNewLines(p) = Cardinality(S) /\ CountNewLines(p) \in Nat
  BY CountNewLinesType DEF CountNewLines
<1>. HIDE DEF S, n, q
<1>6. CASE c = "\n"
  BY <1>1, <1>4, <1>5, <1>6, FS_AddElement DEF NewLines, q
<1>7. CASE c # "\n"
  BY <1>4, <1>5, <1>7 DEF NewLines, q
<1>. QED  BY <1>6, <1>7

LEMMA CountNewLinesSame ==
    ASSUME NEW p \in Seq(Bytes), NEW text \in Seq(Bytes), NoNewLine(text)
    PROVE  CountNewLines(p \o text) = CountNewLines(p)
<1>1. DOMAIN p = 1 .. Len(p) /\ DOMAIN (p \o text) = 1 .. Len(p) + Len(text)
  OBVIOUS
<1>2. \A i \in 1 .. Len(p) : (p \o text)[i] = p[i]
  OBVIOUS
<1>3. \A i \in 1 .. Len(p) + Len(text) : i \notin 1 .. Len(p) => (p \o text)[i] # "\n"
  <2>. SUFFICES ASSUME NEW i \in 1 .. Len(p) + Len(text), i \notin 1 .. Len(p)
       PROVE  (p \o text)[i] # "\n"
    OBVIOUS
  <2>1. i - Len(p) \in 1 .. Len(text) /\ (p \o text)[i] = text[i - Len(p)]
    OBVIOUS
  <2>. QED  BY <2>1 DEF NoNewLine
<1>4. {i \in DOMAIN (p \o text) : (p \o text)[i] = "\n"} = {i \in DOMAIN p : p[i] = "\n"}
  BY <1>1, <1>2, <1>3
<1>. QED  BY <1>4 DEF CountNewLines

\* The text in front of a suffix of it.
LEMMA InFront ==
    ASSUME NEW S, NEW p \in Seq(S), NEW r \in Seq(S)
    PROVE  SubSeq(p \o r, 1, Len(p \o r) - Len(r)) = p
<1>1. Len(p \o r) = Len(p) + Len(r) /\ Len(p) \in Nat /\ Len(r) \in Nat
  OBVIOUS
<1>2. Len(p \o r) - Len(r) = Len(p)
  BY <1>1
<1>3. SubSeq(p \o r, 1, Len(p)) = p
  OBVIOUS
<1>. QED  BY <1>2, <1>3

LEMMA SuffixOfConcat ==
    ASSUME NEW S, NEW p \in Seq(S), NEW r \in Seq(S)
    PROVE  IsSuffix(r, p \o r)
<1>1. PICK t \in Seq(S) : t = p \o r
  <2>1. p \o r \in Seq(S)
    OBVIOUS
  <2>. QED  BY <2>1
<1>2. PICK m \in Nat, n \in Nat : m = Len(p) /\ n = Len(r)
  OBVIOUS
<1>3. Len(t) = m + n
  BY <1>1, <1>2
<1>4. \A i \in 1 .. n : t[m + i] = r[i]
  BY <1>1, <1>2
<1>5. /\ Reverse(r) = [i \in 1 .. n |-> r[n - i + 1]] /\ Reverse(r) \in Seq(S) /\ Len(Reverse(r)) = n
      /\ Reverse(t) = [i \in 1 .. m + n |-> t[m + n - i + 1]] /\ Reverse(t) \in Seq(S)
      /\ Len(Reverse(t)) = m + n
  BY <1>2, <1>3 DEF Reverse
<1>6. \A i \in 1 .. n : t[m + n - i + 1] = r[n - i + 1]
  <2>. SUFFICES ASSUME NEW i \in 1 .. n PROVE t[m + n - i + 1] = r[n - i + 1]
    OBVIOUS
  <2>1. n - i + 1 \in 1 .. n /\ m + n - i + 1 = m + (n - i + 1)
    OBVIOUS
  <2>. QED  BY <1>4, <2>1
<1>7. SubSeq(Reverse(r), 1, n) = [i \in 1 .. n |-> r[n - i + 1]]
  BY <1>5
<1>8. SubSeq(Reverse(t), 1, n) = [i \in 1 .. n |-> t[m + n - i + 1]]
  BY <1>5
<1>9. IsPrefix(Reverse(r), Reverse(t))
  BY <1>5, <1>6, <1>7, <1>8 DEF IsPrefix
<1>. QED  BY <1>1, <1>9 DEF IsSuffix

-----------------------------------------------------------------------------
\* The text a reader has read, with the line it is on.
ReadBy(s) == SubSeq(Source, 1, Len(Source) - Len(Rest(s)))
InText(s) == s \in ReaderState /\ ReadBy(s) \in Seq(Bytes) /\ Source = ReadBy(s) \o Rest(s)
OnLine(s) == InText(s) /\ s.lineno = CountNewLines(ReadBy(s))

LEMMA SourceType == ASSUME TypeInv PROVE Source \in Seq(Bytes)
<1>1. WithoutCR(file) \in Seq(Bytes) /\ "\n" \in Bytes
  BY WithoutCRFromFront, SpecialBytes DEF TypeInv
<1>. QED  BY <1>1, SingletonSeq, ConcatSeq DEF Source

LEMMA ReadByIs ==
    ASSUME TypeInv, NEW s \in ReaderState, NEW p \in Seq(Bytes), Source = p \o Rest(s)
    PROVE  InText(s) /\ ReadBy(s) = p
<1>1. Rest(s) \in Seq(Bytes)
  BY RestType
<1>2. ReadBy(s) = p
  BY <1>1, InFront DEF ReadBy
<1>. QED  BY <1>2 DEF InText

\* A byte that is read joins the text that was read, and back.
LEMMA ReadsOn ==
    ASSUME TypeInv, InText(st), Byte \notin {Bad, EOF}
    PROVE  /\ InText(read_byte(st)) /\ ReadBy(read_byte(st)) = Append(ReadBy(st), Byte)
           /\ read_byte(st).lineno = st.lineno + NewLines(Byte)
           /\ Rest(st) = <<Byte>> \o Rest(read_byte(st)) /\ Byte \in Bytes
<1>1. read_byte(st) \in ReaderState /\ Byte \in Bytes
  BY ReadByteType DEF Byte
<1>2. Rest(st) = <<Byte>> \o Rest(read_byte(st))
  BY ReadByteTakesFirst
<1>3. PICK p \in Seq(Bytes) : p = ReadBy(st)
  BY DEF InText
<1>4. PICK r \in Seq(Bytes) : r = Rest(read_byte(st))
  BY <1>1, RestType
<1>5. p \o (<<Byte>> \o r) = Append(p, Byte) \o r
  <2>1. <<Byte>> \in Seq(Bytes) /\ Append(p, Byte) = p \o <<Byte>>
    BY <1>1
  <2>2. (p \o <<Byte>>) \o r = p \o (<<Byte>> \o r)
    BY <2>1, ConcatAssociative
  <2>. QED  BY <2>1, <2>2
<1>6. Source = Append(p, Byte) \o Rest(read_byte(st))
  BY <1>2, <1>3, <1>4, <1>5 DEF InText
<1>7. Append(p, Byte) \in Seq(Bytes)
  BY <1>1, AppendSeq
<1>8. InText(read_byte(st)) /\ ReadBy(read_byte(st)) = Append(p, Byte)
  BY <1>1, <1>6, <1>7, ReadByIs
<1>9. read_byte(st).lineno = st.lineno + NewLines(Byte)
  <2>1. st \in ReaderState
    BY DEF TypeInv
  <2>. QED  BY <2>1 DEF read_byte, ReaderState, Byte
<1>. QED  BY <1>1, <1>2, <1>3, <1>8, <1>9

LEMMA ReadsOnLine ==
    ASSUME TypeInv, OnLine(st), Byte # Bad
    PROVE  /\ OnLine(read_byte(st))
           /\ Byte # EOF => ReadBy(read_byte(st)) = Append(ReadBy(st), Byte)
           /\ Byte = EOF => read_byte(st) = st /\ Rest(st) = <<>>
<1>1. CASE Byte = EOF
  BY <1>1, ReadByteTakesFirst
<1>2. CASE Byte # EOF
  <2>1. /\ InText(read_byte(st)) /\ ReadBy(read_byte(st)) = Append(ReadBy(st), Byte)
        /\ read_byte(st).lineno = st.lineno + NewLines(Byte) /\ Byte \in Bytes
    BY <1>2, ReadsOn DEF OnLine
  <2>2. ReadBy(st) \in Seq(Bytes) /\ st.lineno = CountNewLines(ReadBy(st))
    BY DEF OnLine, InText
  <2>3. CountNewLines(Append(ReadBy(st), Byte)) = CountNewLines(ReadBy(st)) + NewLines(Byte)
    BY <2>1, <2>2, CountNewLinesAppend
  <2>. QED  BY <1>2, <2>1, <2>2, <2>3 DEF OnLine
<1>. QED  BY <1>1, <1>2

LEMMA GivesBack ==
    ASSUME TypeInv, OnLine(st), Byte # Bad, NEW s, s = unread_byte(read_byte(st), Byte)
    PROVE  /\ OnLine(s) /\ ReadBy(s) = ReadBy(st) /\ Rest(s) = Rest(st) /\ s.lineno = st.lineno
           /\ Byte # EOF => s.pushback # <<>> /\ Last(s.pushback) = Byte
<1>1. CASE Byte = EOF
  BY <1>1, ReadByteTakesFirst DEF unread_byte
<1>2. CASE Byte # EOF
  <2>1. /\ InText(read_byte(st)) /\ ReadBy(read_byte(st)) = Append(ReadBy(st), Byte)
        /\ read_byte(st).lineno = st.lineno + NewLines(Byte) /\ Byte \in Bytes
        /\ Rest(st) = <<Byte>> \o Rest(read_byte(st))
    BY <1>2, ReadsOn DEF OnLine
  <2>2. PICK u \in ReaderState : u = read_byte(st)
    BY <2>1 DEF InText
  <2>3. s \in ReaderState
    BY <2>1, <2>2, UnreadByteType
  <2>4. Rest(s) = Rest(st)
    BY <2>1, <2>2, UnreadByteGivesBack
  <2>5. ReadBy(st) \in Seq(Bytes) /\ Source = ReadBy(st) \o Rest(s) /\ st.lineno = CountNewLines(ReadBy(st))
    BY <2>4 DEF OnLine, InText
  <2>6. InText(s) /\ ReadBy(s) = ReadBy(st)
    BY <2>3, <2>5, ReadByIs
  <2>7. s.lineno = u.lineno - NewLines(Byte) /\ s.pushback = Append(u.pushback, Byte)
    BY <1>2, <2>2 DEF unread_byte, ReaderState
  <2>8. u.lineno = st.lineno + NewLines(Byte) /\ NewLines(Byte) \in Int /\ st.lineno \in Int
    BY <2>1, <2>2 DEF NewLines, TypeInv, ReaderState
  <2>9. s.lineno = st.lineno
    BY <2>7, <2>8
  <2>10. s.pushback # <<>> /\ Last(s.pushback) = Byte
    <3>1. PICK q \in Seq(Bytes) : q = u.pushback
      BY DEF ReaderState
    <3>2. Append(q, Byte) # <<>> /\ Append(q, Byte)[Len(Append(q, Byte))] = Byte
      OBVIOUS
    <3>. QED  BY <2>7, <3>1, <3>2 DEF Last
  <2>. QED  BY <2>4, <2>5, <2>6, <2>9, <2>10 DEF OnLine
<1>. QED  BY <1>1, <1>2

\* Bytes of the line that were not used go back.
LEMMA GivesAllBack ==
    ASSUME TypeInv, NEW s, OnLine(s), NEW p \in Seq(Bytes), NEW text \in Seq(Bytes),
           ReadBy(s) = p \o text, NoNewLine(text)
    PROVE  /\ OnLine(UnreadAll(s, text)) /\ ReadBy(UnreadAll(s, text)) = p
           /\ Rest(UnreadAll(s, text)) = text \o Rest(s)
           /\ UnreadAll(s, text).lineno = s.lineno
<1>1. s \in ReaderState /\ Source = ReadBy(s) \o Rest(s) /\ s.lineno = CountNewLines(ReadBy(s))
  BY DEF OnLine, InText
<1>2. UnreadAll(s, text) \in ReaderState /\ Rest(UnreadAll(s, text)) = text \o Rest(s)
  BY <1>1, UnreadAllGivesBack
<1>3. Rest(s) \in Seq(Bytes)
  BY <1>1, RestType
<1>4. (p \o text) \o Rest(s) = p \o (text \o Rest(s))
  BY <1>3, ConcatAssociative
<1>5. Source = p \o Rest(UnreadAll(s, text))
  BY <1>1, <1>2, <1>4
<1>6. InText(UnreadAll(s, text)) /\ ReadBy(UnreadAll(s, text)) = p
  BY <1>2, <1>5, ReadByIs
<1>7. UnreadAll(s, text).lineno = s.lineno
  BY <1>1 DEF UnreadAll, ReaderState
<1>8. CountNewLines(p \o text) = CountNewLines(p)
  BY CountNewLinesSame
<1>. QED  BY <1>1, <1>2, <1>6, <1>7, <1>8 DEF OnLine

-----------------------------------------------------------------------------
\* Why nothing is lost and the line number is true: at every moment the text
\* is what was read and what is still to be read, the line number counts the
\* newlines of the former, and the name, number or operator that is being read
\* is the end of it.
EndsWith(p, text) == \E u \in Seq(Bytes) : p = u \o text
NameSpelled(s, text) ==
    text \in Seq(Letters \cup Digits) /\ text # <<>> /\ EndsWith(ReadBy(s), text)
OperatorSpelled(s, text) ==
    /\ text \in Seq(operatorChars) /\ EndsWith(ReadBy(s), text)
    /\ text = <<>> => s.pushback # <<>> /\ Last(s.pushback) \in operatorChars
ErrorOn(s, lineno) ==
    LET n == CountNewLines(ReadBy(s))
    IN  lineno \in IF Last(ReadBy(s)) # "\n" THEN {n}
                   ELSE IF Rest(s) = <<>> THEN {n - 1, n} ELSE {n - 1}

TextInv ==
    /\ InText(st)
    /\ StillReading => OnLine(st)
    /\ reading = "read_identifier_or_number" => NameSpelled(st, token.text)
    /\ reading = "read_operator" => OperatorSpelled(st, token.text)
    /\ \/ reading \in {"read_token", "read_identifier_or_number"}
       \/ reading = "consume_rest_of_line" /\ token.type # "NEWLINE"
       => token.lineno = st.lineno
    /\ reading = "read_indentation_as_newline_token" => token.type = "NEWLINE"
    /\ reading \in {"read_string", "after_backslash"} => token.type \in {"CHAR", "STRING"}
    /\ reading = "read_operator" => token.type = "OPERATOR"
    /\ reading = "failed" /\ error[1].message # "indentation must be a multiple of 4 spaces" =>
            ErrorOn(st, error[1].lineno)

\* What a reader has read depends on the file only.
LEMMA SameFile ==
    ASSUME NEW s, UNCHANGED file, st' = s
    PROVE  /\ (InText(st))' = InText(s) /\ (OnLine(st))' = OnLine(s)
           /\ (ReadBy(st))' = ReadBy(s) /\ (Rest(st))' = Rest(s)
           /\ Source' = Source
           /\ \A text : (NameSpelled(st, text))' = NameSpelled(s, text)
           /\ \A text : (OperatorSpelled(st, text))' = OperatorSpelled(s, text)
           /\ \A lineno : (ErrorOn(st, lineno))' = ErrorOn(s, lineno)
<1>1. Source' = Source /\ (Rest(st))' = Rest(s)
  BY DEF Source, Rest, FileRest
<1>2. (ReadBy(st))' = ReadBy(s)
  BY <1>1 DEF ReadBy
<1>3. ReaderState' = ReaderState
  BY DEF ReaderState
<1>4. (InText(st))' = InText(s)
  BY <1>1, <1>2, <1>3 DEF InText
<1>5. (OnLine(st))' = OnLine(s)
  BY <1>2, <1>4 DEF OnLine
<1>. QED  BY <1>1, <1>2, <1>4, <1>5 DEF NameSpelled, OperatorSpelled, ErrorOn

LEMMA ContinueText ==
    ASSUME NEW function, NEW s, NEW t, Continue(function, s, t),
           function \notin {"handle_indentations", "done", "failed"},
           OnLine(s),
           function = "read_identifier_or_number" => NameSpelled(s, t.text),
           function = "read_operator" => OperatorSpelled(s, t.text),
           \/ function \in {"read_token", "read_identifier_or_number"}
           \/ function = "consume_rest_of_line" /\ t.type # "NEWLINE"
           => t.lineno = s.lineno,
           function = "read_indentation_as_newline_token" => t.type = "NEWLINE",
           function \in {"read_string", "after_backslash"} => t.type \in {"CHAR", "STRING"},
           function = "read_operator" => t.type = "OPERATOR"
    PROVE  TextInv'
<1>1. UNCHANGED file /\ st' = s /\ reading' = function /\ token' = t
  BY DEF Continue
<1>2. /\ (InText(st))' = InText(s) /\ (OnLine(st))' = OnLine(s)
      /\ (NameSpelled(st, token.text))' = NameSpelled(s, t.text)
      /\ (OperatorSpelled(st, token.text))' = OperatorSpelled(s, t.text)
  BY <1>1, SameFile
<1>. QED  BY <1>1, <1>2 DEF TextInv, OnLine

LEMMA FinishText ==
    ASSUME NEW s, NEW t, Finish(s, t), OnLine(s)
    PROVE  TextInv'
<1>1. UNCHANGED file /\ st' = s /\ reading' \in {"handle_indentations", "read_token"}
      /\ token' = NewToken(s.lineno)
  BY DEF Finish
<1>2. (InText(st))' = InText(s) /\ (OnLine(st))' = OnLine(s)
  BY <1>1, SameFile
<1>3. token'.lineno = s.lineno
  BY <1>1 DEF NewToken
<1>. QED  BY <1>1, <1>2, <1>3 DEF TextInv, OnLine

LEMMA FailText ==
    ASSUME NEW s, NEW message, NEW lineno, Fail(s, message, lineno), InText(s), ErrorOn(s, lineno)
    PROVE  TextInv'
<1>1. /\ UNCHANGED file /\ st' = s /\ reading' = "failed"
      /\ error' = <<[message |-> message, lineno |-> lineno]>>
  BY DEF Fail
<1>2. /\ (InText(st))' = InText(s)
      /\ (ErrorOn(st, error[1].lineno))' = ErrorOn(s, lineno)
  BY <1>1, SameFile
<1>3. ~ StillReading'
  BY <1>1 DEF StillReading
<1>. QED  BY <1>1, <1>2, <1>3 DEF TextInv

\* An error that is noticed at a byte is on its line.
LEMMA ErrorAtByte ==
    ASSUME TypeInv, NEW s, OnLine(s), NEW p \in Seq(Bytes), NEW c \in Bytes, ReadBy(s) = Append(p, c)
    PROVE  ErrorOn(s, IF c = "\n" THEN s.lineno - 1 ELSE s.lineno)
<1>1. Last(ReadBy(s)) = c
  BY DEF Last
<1>2. s.lineno = CountNewLines(ReadBy(s)) /\ s.lineno \in Int
  BY DEF OnLine, InText, ReaderState
<1>. QED  BY <1>1, <1>2 DEF ErrorOn

LEMMA ErrorAtEndOfFile ==
    ASSUME NEW s, OnLine(s), Rest(s) = <<>>
    PROVE  ErrorOn(s, s.lineno)
BY DEF OnLine, ErrorOn

-----------------------------------------------------------------------------
LEMMA InitTextInv == Init => TextInv
<1>. SUFFICES ASSUME Init PROVE TextInv
  OBVIOUS
<1>1. TypeInv
  BY InitTokenizeInv DEF TokenizeInv
<1>2. file \in Seq(Bytes) /\ st = [pos |-> 1, pushback |-> <<"\n">>, lineno |-> 0] /\ st \in ReaderState
  BY <1>1 DEF Init, TypeInv
<1>3. Rest(st) = Source
  <2>1. SubSeq(file, 1, Len(file)) = file
    BY <1>2
  <2>2. Reverse(st.pushback) = <<"\n">>
    BY <1>2 DEF Reverse
  <2>3. st.pos = 1
    BY <1>2
  <2>. QED  BY <2>1, <2>2, <2>3 DEF Rest, FileRest, Source
<1>4. <<>> \in Seq(Bytes) /\ Source = <<>> \o Rest(st)
  BY <1>1, <1>3, SourceType
<1>5. InText(st) /\ ReadBy(st) = <<>>
  BY <1>1, <1>2, <1>4, ReadByIs
<1>6. CountNewLines(<<>>) = 0
  <2>1. {i \in DOMAIN <<>> : <<>>[i] = "\n"} = {}
    OBVIOUS
  <2>. QED  BY <2>1, FS_EmptySet DEF CountNewLines
<1>7. OnLine(st)
  BY <1>2, <1>5, <1>6 DEF OnLine
<1>8. reading = "read_token" /\ token.lineno = 0 /\ st.lineno = 0
  <2>1. st.lineno = 0
    BY <1>2
  <2>2. NewToken(0).lineno = 0
    BY DEF NewToken
  <2>. QED  BY <2>1, <2>2 DEF Init
<1>. QED  BY <1>5, <1>7, <1>8 DEF TextInv

\* What every round that reads a byte knows about the text.
LEMMA ReadingText ==
    ASSUME TokenizeInv, TextInv, NEW function, In(function),
           function \notin {"handle_indentations", "done", "failed"}
    PROVE  /\ TypeInv /\ OnLine(st) /\ reading = function /\ Byte # Bad /\ Byte \in Bytes \cup {EOF}
           /\ OnLine(read_byte(st))
           /\ Byte # EOF =>
                  /\ ReadBy(st) \in Seq(Bytes) /\ Byte \in Bytes
                  /\ ReadBy(read_byte(st)) = Append(ReadBy(st), Byte)
                  /\ ErrorOn(read_byte(st), IF Byte = "\n" THEN read_byte(st).lineno - 1
                                            ELSE read_byte(st).lineno)
           /\ Byte = EOF => ErrorOn(read_byte(st), read_byte(st).lineno)
           /\ OnLine(unread_byte(read_byte(st), Byte))
           /\ ReadBy(unread_byte(read_byte(st), Byte)) = ReadBy(st)
           /\ unread_byte(read_byte(st), Byte).lineno = st.lineno
           /\ Byte # "\n" => read_byte(st).lineno = st.lineno
<1>1. TypeInv /\ OnLine(st) /\ reading = function /\ Byte # Bad /\ InText(st)
  BY DEF TokenizeInv, TextInv, In, StillReading
<1>2. Byte \in Bytes \cup {EOF}
  BY <1>1, ReadByteType DEF Byte
<1>3. OnLine(read_byte(st))
  BY <1>1, ReadsOnLine
<1>4. Byte # EOF => /\ ReadBy(st) \in Seq(Bytes) /\ Byte \in Bytes
                    /\ ReadBy(read_byte(st)) = Append(ReadBy(st), Byte)
  BY <1>1, <1>2, ReadsOnLine DEF InText
<1>5. Byte # EOF => ErrorOn(read_byte(st), IF Byte = "\n" THEN read_byte(st).lineno - 1
                                           ELSE read_byte(st).lineno)
  BY <1>1, <1>3, <1>4, ErrorAtByte
<1>6. Byte = EOF => read_byte(st) = st /\ Rest(st) = <<>>
  BY <1>1, ReadsOnLine
<1>7. Byte = EOF => ErrorOn(read_byte(st), read_byte(st).lineno)
  BY <1>3, <1>6, ErrorAtEndOfFile
<1>8. /\ OnLine(unread_byte(read_byte(st), Byte))
      /\ ReadBy(unread_byte(read_byte(st), Byte)) = ReadBy(st)
      /\ unread_byte(read_byte(st), Byte).lineno = st.lineno
  BY <1>1, GivesBack
<1>9. Byte # "\n" => read_byte(st).lineno = st.lineno
  <2>1. CASE Byte = EOF
    BY <1>6, <2>1
  <2>2. CASE Byte # EOF
    <3>1. read_byte(st).lineno = st.lineno + NewLines(Byte) /\ st.lineno \in Int
      BY <1>1, <2>2, ReadsOn DEF InText, ReaderState
    <3>. QED  BY <3>1 DEF NewLines
  <2>. QED  BY <2>1, <2>2
<1>. QED  BY <1>1, <1>2, <1>3, <1>4, <1>5, <1>7, <1>8, <1>9

LEMMA ReadBadByteText == ASSUME TokenizeInv, TextInv, ReadBadByte PROVE TextInv'
<1>1. TypeInv /\ st \in ReaderState /\ Byte = Bad /\ OnLine(st) /\ file \in Seq(Bytes)
  BY DEF TokenizeInv, TypeInv, TextInv, ReadBadByte, StillReading
<1>2. st.pushback = <<>>
  <2>. SUFFICES ASSUME st.pushback # <<>> PROVE FALSE
    OBVIOUS
  <2>1. Byte \in Bytes
    BY <1>1, FrontLastSeq DEF ReaderState, NextByte, Byte
  <2>. QED  BY <1>1, <2>1, SpecialBytes
<1>3. Byte = FromFile(st) /\ st.pos \in Nat
  BY <1>1, <1>2 DEF Byte, NextByte, ReaderState
<1>4. st.pos \in 1 .. Len(file)
  <2>1. Bad # EOF
    BY DEF Bad, EOF
  <2>. QED  BY <1>1, <1>2, <2>1, FromFileType DEF Byte
<1>5. /\ file[st.pos] \in Bytes /\ file[st.pos] # "\n"
      /\ ~ (file[st.pos] = "\r" /\ st.pos < Len(file) /\ file[st.pos + 1] = "\n")
  <2>1. file[st.pos] \in Bytes
    BY <1>1, <1>4
  <2>2. "\n" # Bad
    BY SpecialBytes
  <2>3. ~ (st.pos > Len(file))
    BY <1>1, <1>4
  <2>4. \/ file[st.pos] = ZeroByte
        \/ file[st.pos] = "\r" /\ ~ (st.pos < Len(file) /\ file[st.pos + 1] = "\n")
    <3>1. file[st.pos] # Bad
      BY <2>1, SpecialBytes
    <3>. QED  BY <1>1, <1>3, <2>2, <2>3, <3>1 DEF FromFile
  <2>. QED  BY <2>1, <2>4 DEF ZeroByte
<1>. DEFINE c == file[st.pos]
            s == [st EXCEPT !.pos = @ + 1]
<1>6. s \in ReaderState /\ s.pos = st.pos + 1 /\ s.pushback = <<>> /\ s.lineno = st.lineno
  BY <1>1, <1>2, <1>4 DEF ReaderState
<1>7. Reverse(<<>>) = <<>>
  BY DEF Reverse
<1>8. Rest(st) = <<c>> \o Rest(s)
  <2>1. FileRest(st.pos) = <<c>> \o FileRest(st.pos + 1)
    BY <1>1, <1>4, <1>5, FileRestFromFront
  <2>2. st.pos + 1 \in 1 .. Len(file) + 1
    BY <1>1, <1>4
  <2>3. FileRest(st.pos) \in Seq(Bytes) /\ FileRest(st.pos + 1) \in Seq(Bytes)
    BY <1>1, <1>4, <2>2, FileRestType DEF ReaderState
  <2>4. Rest(st) = FileRest(st.pos) /\ Rest(s) = FileRest(st.pos + 1)
    BY <1>2, <1>6, <1>7, <2>3 DEF Rest
  <2>. QED  BY <2>1, <2>4
<1>. HIDE DEF s, c
<1>9. PICK p \in Seq(Bytes) : p = ReadBy(st)
  BY <1>1 DEF OnLine, InText
<1>10. PICK d \in Bytes : d = c
  BY <1>5 DEF c
<1>11. PICK r \in Seq(Bytes) : r = Rest(s)
  BY <1>1, <1>6, RestType
<1>12. p \o (<<d>> \o r) = Append(p, d) \o r
  <2>1. <<d>> \in Seq(Bytes) /\ Append(p, d) = p \o <<d>>
    OBVIOUS
  <2>2. (p \o <<d>>) \o r = p \o (<<d>> \o r)
    BY <2>1, ConcatAssociative
  <2>. QED  BY <2>1, <2>2
<1>13. InText(s) /\ ReadBy(s) = Append(p, d)
  <2>1. Source = Append(p, d) \o Rest(s)
    BY <1>1, <1>8, <1>9, <1>10, <1>11, <1>12 DEF OnLine, InText
  <2>2. Append(p, d) \in Seq(Bytes)
    OBVIOUS
  <2>. QED  BY <1>1, <1>6, <2>1, <2>2, ReadByIs
<1>14. d # "\n"
  BY <1>5, <1>10 DEF c
<1>15. OnLine(s)
  <2>1. CountNewLines(Append(p, d)) = CountNewLines(p) + 0 /\ CountNewLines(p) \in Nat
    BY <1>14, CountNewLinesAppend, CountNewLinesType DEF NewLines
  <2>2. st.lineno = CountNewLines(p)
    BY <1>1, <1>9 DEF OnLine
  <2>. QED  BY <1>6, <1>13, <2>1, <2>2 DEF OnLine
<1>16. ErrorOn(s, st.lineno)
  BY <1>1, <1>6, <1>13, <1>14, <1>15, ErrorAtByte
<1>17. Fail(s, "source file contains a bad byte", st.lineno)
  BY DEF ReadBadByte, s
<1>. QED  BY <1>13, <1>16, <1>17, FailText


LEMMA ReadTokenText == ASSUME TokenizeInv, TextInv, ReadToken PROVE TextInv'
<1>. DEFINE s == read_byte(st)
<1>1. In("read_token")
  BY DEF ReadToken
<1>2. /\ TypeInv /\ reading = "read_token" /\ token \in Token /\ token.lineno = st.lineno
  BY DEF ReadToken, In, TokenizeInv, TypeInv, TextInv
<1>3. /\ OnLine(s)
      /\ OnLine(unread_byte(s, Byte)) /\ ReadBy(unread_byte(s, Byte)) = ReadBy(st)
      /\ Byte # "\n" => s.lineno = st.lineno
      /\ Byte # EOF => /\ ReadBy(st) \in Seq(Bytes) /\ Byte \in Bytes
                       /\ ReadBy(s) = Append(ReadBy(st), Byte)
                       /\ ErrorOn(s, IF Byte = "\n" THEN s.lineno - 1 ELSE s.lineno)
  BY <1>1, ReadingText
<1>4. unread_byte(s, Byte).lineno = st.lineno
  BY <1>1, ReadingText
<1>. HIDE DEF s
<1>5. CASE Byte = "#" /\ Continue("consume_rest_of_line", s, token)
  BY <1>2, <1>3, <1>5, ContinueText
<1>6. CASE Byte = " " /\ Continue("read_token", s, token)
  BY <1>2, <1>3, <1>6, ContinueText
<1>7. CASE /\ Byte = "\n"
           /\ Continue("read_indentation_as_newline_token", s, [token EXCEPT !.type = "NEWLINE"])
  <2>1. PICK t : t = [token EXCEPT !.type = "NEWLINE"]
    OBVIOUS
  <2>2. Continue("read_indentation_as_newline_token", s, t)
    BY <1>7, <2>1
  <2>3. t.type = "NEWLINE"
    BY <1>2, <2>1 DEF Token
  <2>. QED  BY <1>3, <2>2, <2>3, ContinueText
<1>8. CASE Byte = EOF /\ Finish(s, [token EXCEPT !.type = "END_OF_FILE"])
  BY <1>3, <1>8, FinishText
<1>9. CASE /\ Byte \in Quotes
           /\ Continue("read_string", s,
                       [token EXCEPT !.type = IF Byte = "'" THEN "CHAR" ELSE "STRING"])
  <2>1. PICK t : t = [token EXCEPT !.type = IF Byte = "'" THEN "CHAR" ELSE "STRING"]
    OBVIOUS
  <2>2. Continue("read_string", s, t)
    BY <1>9, <2>1
  <2>3. t.type \in {"CHAR", "STRING"}
    BY <1>2, <2>1 DEF Token
  <2>. QED  BY <1>3, <2>2, <2>3, ContinueText
<1>10. CASE /\ is_identifier_or_number_byte(Byte)
            /\ Continue("read_identifier_or_number", s, [token EXCEPT !.text = <<Byte>>])
  <2>1. Byte \in Letters \cup Digits /\ Byte \in Bytes
    BY <1>10 DEF is_identifier_or_number_byte, Bytes
  <2>2. Byte # "\n" /\ Byte # EOF
    BY <2>1, SpecialBytes DEF Letters, Digits
  <2>3. <<Byte>> \in Seq(Letters \cup Digits) /\ <<Byte>> # <<>>
    BY <2>1, SingletonSeq
  <2>4. ReadBy(s) = ReadBy(st) \o <<Byte>>
    <3>1. PICK p \in Seq(Bytes), c \in Bytes : p = ReadBy(st) /\ c = Byte
      BY <1>3, <2>1, <2>2
    <3>2. Append(p, c) = p \o <<c>>
      OBVIOUS
    <3>. QED  BY <1>3, <2>2, <3>1, <3>2
  <2>5. NameSpelled(s, <<Byte>>)
    BY <1>3, <2>2, <2>3, <2>4 DEF NameSpelled, EndsWith
  <2>6. PICK t : t = [token EXCEPT !.text = <<Byte>>]
    OBVIOUS
  <2>7. t.text = <<Byte>> /\ t.lineno = token.lineno
    BY <1>2, <2>6 DEF Token
  <2>8. Continue("read_identifier_or_number", s, t)
    BY <1>10, <2>6
  <2>9. NameSpelled(s, t.text) /\ t.lineno = s.lineno
    BY <1>2, <1>3, <2>2, <2>5, <2>7
  <2>. QED  BY <1>3, <2>8, <2>9, ContinueText
<1>11. CASE /\ Byte \in operatorChars
            /\ Continue("read_operator", unread_byte(s, Byte), [token EXCEPT !.type = "OPERATOR"])
  <2>1. PICK t : t = [token EXCEPT !.type = "OPERATOR"]
    OBVIOUS
  <2>2. PICK u : u = unread_byte(s, Byte)
    OBVIOUS
  <2>3. Continue("read_operator", u, t)
    BY <1>11, <2>1, <2>2
  <2>4. t.text = <<>> /\ t.type = "OPERATOR"
    BY <1>2, <2>1 DEF Token, TokenizeInv, BufferInv
  <2>5. Byte \in Bytes /\ Byte # EOF /\ Byte # Bad
    BY <1>11, SpecialBytes
  <2>6. u.pushback # <<>> /\ Last(u.pushback) = Byte
    BY <1>2, <2>2, <2>5, GivesBack DEF TextInv, StillReading, s
  <2>7. <<>> \in Seq(operatorChars) /\ EndsWith(ReadBy(u), <<>>)
    <3>1. PICK p \in Seq(Bytes) : p = ReadBy(st)
      BY <1>3, <2>5
    <3>2. p = p \o <<>> /\ <<>> \in Seq(operatorChars)
      OBVIOUS
    <3>. QED  BY <1>3, <2>2, <3>1, <3>2 DEF EndsWith
  <2>8. OperatorSpelled(u, t.text)
    BY <1>11, <2>4, <2>6, <2>7 DEF OperatorSpelled
  <2>9. OnLine(u)
    BY <1>3, <2>2
  <2>. QED  BY <2>3, <2>4, <2>8, <2>9, ContinueText
<1>12. CASE /\ Byte \notin {"#", " ", "\n", EOF} \cup Quotes \cup operatorChars
            /\ Fail(s, "unexpected byte", s.lineno)
  <2>1. ErrorOn(s, s.lineno)
    BY <1>3, <1>12
  <2>. QED  BY <1>3, <1>12, <2>1, FailText DEF OnLine
<1>. QED  BY <1>5, <1>6, <1>7, <1>8, <1>9, <1>10, <1>11, <1>12 DEF ReadToken, s

LEMMA ConsumeRestOfLineText ==
    ASSUME TokenizeInv, TextInv, ConsumeRestOfLine PROVE TextInv'
<1>. DEFINE s == read_byte(st)
            caller == IF token.type = "NEWLINE" THEN "read_indentation_as_newline_token"
                      ELSE "read_token"
<1>1. In("consume_rest_of_line")
  BY DEF ConsumeRestOfLine
<1>2. token.type # "NEWLINE" => token.lineno = st.lineno
  BY <1>1 DEF TextInv, In
<1>3. /\ OnLine(s) /\ (Byte # "\n" => s.lineno = st.lineno)
      /\ OnLine(unread_byte(s, Byte)) /\ unread_byte(s, Byte).lineno = st.lineno
  BY <1>1, ReadingText
<1>. HIDE DEF s
<1>4. CASE Byte \in {"\n", EOF}
  <2>1. PICK u : u = unread_byte(s, Byte)
    OBVIOUS
  <2>2. Continue(caller, u, token)
    BY <1>4, <2>1 DEF ConsumeRestOfLine, s
  <2>3. OnLine(u) /\ u.lineno = st.lineno
    BY <1>3, <2>1
  <2>. QED  BY <1>2, <2>2, <2>3, ContinueText
<1>5. CASE Byte \notin {"\n", EOF}
  <2>1. Continue("consume_rest_of_line", s, token)
    BY <1>5 DEF ConsumeRestOfLine, s
  <2>2. s.lineno = st.lineno
    BY <1>3, <1>5
  <2>. QED  BY <1>2, <1>3, <2>1, <2>2, ContinueText
<1>. QED  BY <1>4, <1>5

LEMMA ReadIndentationText == ASSUME TokenizeInv, TextInv, ReadIndentation PROVE TextInv'
<1>. DEFINE s == read_byte(st)
<1>1. In("read_indentation_as_newline_token")
  BY DEF ReadIndentation
<1>2. /\ reading = "read_indentation_as_newline_token"
      /\ OnLine(s) /\ OnLine(unread_byte(s, Byte))
  BY <1>1, ReadingText
<1>3. token.type = "NEWLINE"
  BY <1>1 DEF TextInv, In
<1>. HIDE DEF s
<1>4. ASSUME NEW n, Continue(reading, s, [token EXCEPT !.indentation_level = n]) PROVE TextInv'
  <2>1. PICK t : t = [token EXCEPT !.indentation_level = n]
    OBVIOUS
  <2>2. t.type = "NEWLINE"
    BY <1>3, <2>1 DEF Token, TokenizeInv, TypeInv
  <2>3. Continue("read_indentation_as_newline_token", s, t)
    BY <1>2, <1>4, <2>1
  <2>. QED  BY <1>2, <2>2, <2>3, ContinueText
<1>5. CASE Continue("consume_rest_of_line", s, token)
  BY <1>2, <1>3, <1>5, ContinueText
<1>6. CASE Finish(s, [token EXCEPT !.type = "END_OF_FILE"])
  BY <1>2, <1>6, FinishText
<1>7. CASE Finish(unread_byte(s, Byte), token)
  BY <1>2, <1>7, FinishText
<1>. QED  BY <1>4, <1>5, <1>6, <1>7 DEF ReadIndentation, s


\* The end of what was read.
LEMMA EndsWithAppend ==
    ASSUME NEW p \in Seq(Bytes), NEW text \in Seq(Bytes), NEW c \in Bytes, EndsWith(p, text)
    PROVE  EndsWith(Append(p, c), Append(text, c))
<1>1. PICK u \in Seq(Bytes) : p = u \o text
  BY DEF EndsWith
<1>2. Append(u \o text, c) = u \o Append(text, c)
  OBVIOUS
<1>. QED  BY <1>1, <1>2 DEF EndsWith

LEMMA LastOfWord ==
    ASSUME NEW S \in SUBSET Bytes, "\n" \notin S, NEW u \in Seq(Bytes), NEW text \in Seq(S), text # <<>>
    PROVE  Last(u \o text) # "\n" /\ NoNewLine(text) /\ text \in Seq(Bytes)
<1>1. text \in Seq(Bytes)
  BY SeqSubset
<1>2. Len(text) \in 1 .. Len(text) /\ \A i \in 1 .. Len(text) : text[i] \in S
  OBVIOUS
<1>3. Last(u \o text) = text[Len(text)]
  BY <1>1, <1>2 DEF Last
<1>. QED  BY <1>1, <1>2, <1>3 DEF NoNewLine

LEMMA ReadIdentifierOrNumberText ==
    ASSUME TokenizeInv, TextInv, ReadIdentifierOrNumber
    PROVE  TextInv'
<1>. DEFINE s == read_byte(st)
            rest == unread_byte(s, Byte)
<1>1. In("read_identifier_or_number")
  BY DEF ReadIdentifierOrNumber
<1>2. /\ token \in Token /\ token.lineno = st.lineno /\ NameSpelled(st, token.text)
      /\ reading = "read_identifier_or_number"
  BY <1>1 DEF TokenizeInv, TypeInv, TextInv, In
<1>3. /\ OnLine(s) /\ OnLine(rest) /\ ReadBy(rest) = ReadBy(st) /\ rest.lineno = st.lineno
      /\ (Byte # "\n" => s.lineno = st.lineno)
      /\ Byte # EOF => /\ ReadBy(st) \in Seq(Bytes) /\ Byte \in Bytes
                       /\ ReadBy(s) = Append(ReadBy(st), Byte)
                       /\ ErrorOn(s, IF Byte = "\n" THEN s.lineno - 1 ELSE s.lineno)
  BY <1>1, ReadingText
<1>4. is_identifier_or_number_byte(Byte) =>
          Byte \in Letters \cup Digits /\ Byte \in Bytes /\ Byte # "\n" /\ Byte # EOF
  BY SpecialBytes DEF is_identifier_or_number_byte, Bytes, Letters, Digits
<1>5. Letters \cup Digits \subseteq Bytes /\ "\n" \notin Letters \cup Digits
  BY DEF Bytes, Letters, Digits
<1>. HIDE DEF s, rest
<1>6. CASE is_identifier_or_number_byte(Byte) /\ TooLong(token.text)
  <2>1. Fail(s, "name is too long", s.lineno)
    BY <1>6 DEF ReadIdentifierOrNumber, s
  <2>2. ErrorOn(s, s.lineno)
    BY <1>3, <1>4, <1>6
  <2>. QED  BY <1>3, <2>1, <2>2, FailText DEF OnLine
<1>7. CASE is_identifier_or_number_byte(Byte) /\ ~ TooLong(token.text)
  <2>1. PICK t : t = [token EXCEPT !.text = Append(@, Byte)]
    OBVIOUS
  <2>2. t.text = Append(token.text, Byte) /\ t.lineno = token.lineno
    BY <1>2, <2>1 DEF Token
  <2>3. Continue("read_identifier_or_number", s, t)
    BY <1>2, <1>7, <2>1 DEF ReadIdentifierOrNumber, s
  <2>4. token.text \in Seq(Bytes)
    BY <1>2, <1>5, SeqSubset DEF NameSpelled
  <2>5. EndsWith(ReadBy(s), Append(token.text, Byte))
    BY <1>2, <1>3, <1>4, <1>7, <2>4, EndsWithAppend DEF NameSpelled
  <2>6. Append(token.text, Byte) \in Seq(Letters \cup Digits) /\ Append(token.text, Byte) # <<>>
    BY <1>2, <1>4, <1>7 DEF NameSpelled
  <2>7. NameSpelled(s, t.text)
    BY <2>2, <2>5, <2>6 DEF NameSpelled
  <2>8. t.lineno = s.lineno
    BY <1>2, <1>3, <1>4, <1>7, <2>2
  <2>. QED  BY <1>3, <2>3, <2>7, <2>8, ContinueText
<1>8. CASE ~ is_identifier_or_number_byte(Byte)
  <2>1. CASE Finish(rest, [token EXCEPT !.type = "NAME"])
    BY <1>3, <2>1, FinishText
  <2>2. CASE Finish(rest, [token EXCEPT !.type = "INT"])
    BY <1>3, <2>2, FinishText
  <2>3. CASE Fail(rest, "invalid number", token.lineno)
    <3>1. PICK u \in Seq(Bytes) : ReadBy(rest) = u \o token.text
      BY <1>2, <1>3 DEF NameSpelled, EndsWith
    <3>2. Last(ReadBy(rest)) # "\n"
      BY <1>2, <1>5, <3>1, LastOfWord DEF NameSpelled
    <3>3. ErrorOn(rest, token.lineno)
      BY <1>2, <1>3, <3>2 DEF ErrorOn, OnLine
    <3>. QED  BY <1>3, <2>3, <3>3, FailText DEF OnLine
  <2>. QED  BY <1>8, <2>1, <2>2, <2>3 DEF ReadIdentifierOrNumber, s, rest
<1>. QED  BY <1>6, <1>7, <1>8

\* The reader in a string: what ends it is on its line.
LEMMA ReadStringText == ASSUME TokenizeInv, TextInv, ReadString PROVE TextInv'
<1>. DEFINE s == read_byte(st)
<1>1. In("read_string")
  BY DEF ReadString
<1>2. /\ reading = "read_string" /\ OnLine(s)
      /\ Byte # EOF => ErrorOn(s, IF Byte = "\n" THEN s.lineno - 1 ELSE s.lineno)
      /\ Byte = EOF => ErrorOn(s, s.lineno)
  BY <1>1, ReadingText
<1>. HIDE DEF s
<1>3. ASSUME NEW message, NEW lineno, Fail(s, message, lineno), ErrorOn(s, lineno) PROVE TextInv'
  BY <1>2, <1>3, FailText DEF OnLine
<1>4. ASSUME NEW function, function \in {"read_string", "after_backslash"},
             NEW t, Continue(function, s, t), t.type = token.type PROVE TextInv'
  <2>1. t.type \in {"CHAR", "STRING"}
    BY <1>2, <1>4 DEF TextInv
  <2>. QED  BY <1>2, <1>4, <2>1, ContinueText
<1>9. token \in Token
  BY DEF TokenizeInv, TypeInv
<1>5. CASE Byte = Quote
  <2>1. Byte # "\n" /\ Byte # EOF /\ Byte # "\\"
    BY <1>5 DEF Quote, EOF
  <2>2. \/ Fail(s, "not a single character", s.lineno)
        \/ Finish(s, token)
    BY <1>5, <2>1 DEF ReadString, s
  <2>. QED  BY <1>2, <1>3, <2>1, <2>2, FinishText
<1>6. CASE Byte # Quote /\ Byte = "\n"
  <2>1. Fail(s, "missing end quote", s.lineno - 1)
    BY <1>6 DEF ReadString, MissingEndQuote, EOF, s
  <2>2. Byte # EOF
    BY <1>6 DEF EOF
  <2>. QED  BY <1>2, <1>3, <1>6, <2>1, <2>2
<1>7. CASE Byte # Quote /\ Byte = EOF
  <2>1. Fail(s, "missing end quote", s.lineno)
    BY <1>7 DEF ReadString, MissingEndQuote, EOF, s
  <2>. QED  BY <1>2, <1>3, <1>7, <2>1
<1>8. CASE Byte # Quote /\ Byte \notin {"\n", EOF}
  <2>1. \/ Continue("after_backslash", s, token)
        \/ Continue("read_string", s, [token EXCEPT !.text = Append(@, Byte)])
    BY <1>2, <1>8 DEF ReadString, s
  <2>2. [token EXCEPT !.text = Append(@, Byte)].type = token.type
    BY <1>9 DEF Token
  <2>. QED  BY <1>4, <2>1, <2>2
<1>. QED  BY <1>5, <1>6, <1>7, <1>8

LEMMA ReadAfterBackslashText ==
    ASSUME TokenizeInv, TextInv, ReadAfterBackslash PROVE TextInv'
<1>. DEFINE s == read_byte(st)
<1>1. In("after_backslash")
  BY DEF ReadAfterBackslash
<1>2. /\ reading = "after_backslash" /\ OnLine(s)
      /\ Byte # EOF => ErrorOn(s, IF Byte = "\n" THEN s.lineno - 1 ELSE s.lineno)
      /\ Byte = EOF => ErrorOn(s, s.lineno)
  BY <1>1, ReadingText
<1>. HIDE DEF s
<1>3. ASSUME NEW message, NEW lineno, Fail(s, message, lineno), ErrorOn(s, lineno) PROVE TextInv'
  BY <1>2, <1>3, FailText DEF OnLine
<1>4. ASSUME NEW t, Continue("read_string", s, t), t.type = token.type PROVE TextInv'
  <2>1. t.type \in {"CHAR", "STRING"}
    BY <1>2, <1>4 DEF TextInv
  <2>. QED  BY <1>2, <1>4, <2>1, ContinueText
<1>9. token \in Token
  BY DEF TokenizeInv, TypeInv
<1>5. CASE Byte = "\n"
  <2>1. Byte # EOF
    BY <1>5 DEF EOF
  <2>2. \/ Continue("read_string", s, token)
        \/ Fail(s, "missing end quote", s.lineno - 1)
    BY <1>5 DEF ReadAfterBackslash, MissingEndQuote, EOF, Digits, Quotes, s
  <2>. QED  BY <1>2, <1>3, <1>4, <1>5, <2>1, <2>2
<1>6. CASE Byte = EOF
  <2>1. Fail(s, "missing end quote", s.lineno)
    BY <1>6 DEF ReadAfterBackslash, MissingEndQuote, EOF, Digits, Quotes, s
  <2>. QED  BY <1>2, <1>3, <1>6, <2>1
<1>7. CASE Byte \notin {"\n", EOF}
  <2>1. \/ Continue("read_string", s, [token EXCEPT !.text = Append(@, Escaped(Byte))])
        \/ Fail(s, "unknown escape or zero byte in string", s.lineno)
    BY <1>7 DEF ReadAfterBackslash, s
  <2>2. [token EXCEPT !.text = Append(@, Escaped(Byte))].type = token.type
    BY <1>9 DEF Token
  <2>. QED  BY <1>2, <1>3, <1>4, <1>7, <2>1, <2>2
<1>. QED  BY <1>5, <1>6, <1>7

-----------------------------------------------------------------------------
\* Longer operators come first.
OperatorLength(i) == IF i <= 3 THEN 3 ELSE IF i <= 10 THEN 2 ELSE 1

LEMMA ConcatElements ==
    ASSUME NEW S, NEW p \in Seq(S), NEW q \in Seq(S)
    PROVE  /\ \A i \in 1 .. Len(p) : (p \o q)[i] = p[i]
           /\ \A i \in 1 .. Len(q) : (p \o q)[Len(p) + i] = q[i]
OBVIOUS

LEMMA OperatorLengths ==
    /\ DOMAIN operators = 1 .. 28
    /\ \A i \in 1 .. 28 : operators[i] \in Seq(operatorChars) /\ Len(operators[i]) = OperatorLength(i)
<1>. DEFINE longer ==
              << <<".", ".", ".">>, <<"=", "=", "=">>, <<"!", "=", "=">>,
                 <<"=", "=">>, <<"!", "=">>, <<"-", ">">>, <<"<", "=">>, <<">", "=">>,
                 <<"+", "+">>, <<"-", "-">> >>
            single == [i \in DOMAIN OneByteOperators |-> <<OneByteOperators[i]>>]
<1>1. DOMAIN OneByteOperators = 1 .. 18
  BY DEF OneByteOperators
<1>2. PICK y : y = single
  OBVIOUS
<1>3. PICK x : x = longer
  OBVIOUS
<1>4. operators = x \o y
  BY <1>2, <1>3 DEF operators
<1>5. PICK B : y \in Seq(B) /\ Len(y) = 18 /\ \A i \in 1 .. 18 : Len(y[i]) = 1
  <2>1. /\ single \in Seq({single[i] : i \in 1 .. 18}) /\ Len(single) = 18
        /\ \A i \in 1 .. 18 : Len(single[i]) = 1
    BY <1>1
  <2>. HIDE DEF single
  <2>. QED  BY <1>2, <2>1
<1>6. /\ Len(x[1]) = 3 /\ Len(x[2]) = 3 /\ Len(x[3]) = 3 /\ Len(x[4]) = 2
      /\ Len(x[5]) = 2 /\ Len(x[6]) = 2 /\ Len(x[7]) = 2 /\ Len(x[8]) = 2
      /\ Len(x[9]) = 2 /\ Len(x[10]) = 2
  BY <1>3
<1>7. PICK A : x \in Seq(A) /\ Len(x) = 10
  <2>1. longer \in Seq({longer[i] : i \in 1 .. 10}) /\ Len(longer) = 10
    OBVIOUS
  <2>. HIDE DEF longer
  <2>. QED  BY <1>3, <2>1
<1>. HIDE DEF longer, single
<1>8. /\ DOMAIN operators = 1 .. 28
      /\ \A i \in 1 .. 10 : operators[i] = x[i]
      /\ \A i \in 1 .. 18 : operators[10 + i] = y[i]
  <2>1. PICK C : x \in Seq(C) /\ y \in Seq(C)
    <3>1. x \in Seq(A \cup B) /\ y \in Seq(A \cup B)
      BY <1>5, <1>7
    <3>. QED  BY <1>5, <1>7, <3>1
  <2>2. /\ DOMAIN (x \o y) = 1 .. Len(x) + Len(y)
        /\ \A i \in 1 .. Len(x) : (x \o y)[i] = x[i]
        /\ \A i \in 1 .. Len(y) : (x \o y)[Len(x) + i] = y[i]
    <3>1. x \o y \in Seq(C) /\ Len(x \o y) = Len(x) + Len(y)
      BY <2>1, ConcatProperties
    <3>2. DOMAIN (x \o y) = 1 .. Len(x \o y)
      BY <3>1
    <3>3. /\ \A i \in 1 .. Len(x) : (x \o y)[i] = x[i]
          /\ \A i \in 1 .. Len(y) : (x \o y)[Len(x) + i] = y[i]
      BY <2>1, ConcatElements
    <3>. QED  BY <3>1, <3>2, <3>3
  <2>3. Len(x) = 10 /\ Len(y) = 18 /\ Len(x) + Len(y) = 28
    BY <1>5, <1>7
  <2>. QED  BY <1>4, <2>2, <2>3
<1>9. \A i \in 1 .. 28 : Len(operators[i]) = OperatorLength(i)
  <2>. SUFFICES ASSUME NEW i \in 1 .. 28 PROVE Len(operators[i]) = OperatorLength(i)
    OBVIOUS
  <2>1. CASE i \in 1 .. 10
    <3>1. i \in {1, 2, 3, 4, 5, 6, 7, 8, 9, 10}
      BY <2>1
    <3>2. Len(x[i]) = OperatorLength(i)
      <4>1. CASE i \in {1, 2, 3}
        <5>1. Len(x[i]) = 3
          BY <1>6, <4>1, Zenon
        <5>2. OperatorLength(i) = 3
          BY <4>1 DEF OperatorLength
        <5>. QED  BY <5>1, <5>2
      <4>2. CASE i \in {4, 5, 6, 7, 8, 9, 10}
        <5>1. Len(x[i]) = 2
          BY <1>6, <4>2, Zenon
        <5>2. OperatorLength(i) = 2
          BY <4>2 DEF OperatorLength
        <5>. QED  BY <5>1, <5>2
      <4>. QED  BY <3>1, <4>1, <4>2
    <3>. QED  BY <1>8, <2>1, <3>2
  <2>2. CASE i \notin 1 .. 10
    <3>1. PICK k \in 1 .. 18 : i = 10 + k
      <4>1. i - 10 \in 1 .. 18 /\ i = 10 + (i - 10)
        BY <2>2
      <4>. QED  BY <4>1
    <3>2. Len(operators[i]) = 1
      BY <1>5, <1>8, <3>1
    <3>. QED  BY <3>1, <3>2 DEF OperatorLength
  <2>. QED  BY <2>1, <2>2
<1>10. \A i \in 1 .. 28 : operators[i] \in Seq(operatorChars)
  <2>1. \A i \in DOMAIN operators : operators[i] \in Seq(operatorChars)
    BY OperatorsType
  <2>. QED  BY <1>8, <2>1
<1>. QED  BY <1>8, <1>9, <1>10

LEMMA SplitSeq ==
    ASSUME NEW S, NEW text \in Seq(S), NEW n \in 0 .. Len(text)
    PROVE  /\ text = SubSeq(text, 1, n) \o SubSeq(text, n + 1, Len(text))
           /\ SubSeq(text, n + 1, Len(text)) \in Seq(S)
<1>1. 1 \in 1 .. Len(text) + 1 /\ n \in 1 - 1 .. Len(text) /\ Len(text) \in n .. Len(text)
  OBVIOUS
<1>2. SubSeq(text, 1, n) \o SubSeq(text, n + 1, Len(text)) = SubSeq(text, 1, Len(text))
  BY <1>1, ConcatAdjacentSubSeq
<1>3. SubSeq(text, n + 1, Len(text)) \in Seq(S)
  OBVIOUS
<1>. QED  BY <1>2, <1>3, SubSeqFull

\* The operator that is taken starts the text, and no longer one does.
LEMMA TakenOperator ==
    ASSUME NEW text \in Seq(operatorChars), Matching(text) # {},
           NEW op, op = operators[First(Matching(text))]
    PROVE  /\ op \in Seq(operatorChars) /\ op # <<>> /\ Len(op) <= Len(text)
           /\ text = op \o SubSeq(text, Len(op) + 1, Len(text))
           /\ SubSeq(text, Len(op) + 1, Len(text)) \in Seq(operatorChars)
           /\ \A other \in ToSet(operators) : IsPrefix(other, text) => Len(other) <= Len(op)
<1>1. Matching(text) \in SUBSET (1 .. 28) /\ Matching(text) \in SUBSET Nat
  <2>1. DOMAIN operators = 1 .. 28
    BY OperatorLengths
  <2>2. Matching(text) \in SUBSET DOMAIN operators
    BY DEF Matching
  <2>3. Matching(text) \in SUBSET (1 .. 28)
    BY <2>1, <2>2, Zenon
  <2>4. 1 .. 28 \subseteq Nat
    OBVIOUS
  <2>. QED  BY <2>3, <2>4, Zenon
<1>2. \E i \in Matching(text) : \A j \in Matching(text) : i <= j
  BY <1>1, LeastNatural
<1>3. PICK k \in 1 .. 28 : k = First(Matching(text))
  BY <1>1, <1>2 DEF First
<1>4. k \in Matching(text) /\ \A j \in Matching(text) : k <= j
  BY <1>2, <1>3 DEF First
<1>5. op \in Seq(operatorChars) /\ Len(op) = OperatorLength(k) /\ IsPrefix(op, text)
  BY <1>3, <1>4, OperatorLengths DEF Matching
<1>6. op # <<>> /\ Len(op) <= Len(text) /\ SubSeq(op, 1, Len(op)) = SubSeq(text, 1, Len(op))
  <2>1. Len(op) >= 1
    BY <1>5 DEF OperatorLength
  <2>. QED  BY <1>5, <2>1 DEF IsPrefix
<1>7. op = SubSeq(text, 1, Len(op))
  BY <1>5, <1>6
<1>8. /\ text = SubSeq(text, 1, Len(op)) \o SubSeq(text, Len(op) + 1, Len(text))
      /\ SubSeq(text, Len(op) + 1, Len(text)) \in Seq(operatorChars)
  <2>1. PICK n \in 0 .. Len(text) : n = Len(op)
    BY <1>5, <1>6
  <2>2. /\ text = SubSeq(text, 1, n) \o SubSeq(text, n + 1, Len(text))
        /\ SubSeq(text, n + 1, Len(text)) \in Seq(operatorChars)
    BY SplitSeq
  <2>. QED  BY <2>1, <2>2
<1>9. \A other \in ToSet(operators) : IsPrefix(other, text) => Len(other) <= Len(op)
  <2>. SUFFICES ASSUME NEW other \in ToSet(operators), IsPrefix(other, text)
       PROVE  Len(other) <= Len(op)
    OBVIOUS
  <2>1. PICK j \in 1 .. 28 : other = operators[j]
    BY OperatorLengths DEF ToSet
  <2>2. k <= j
    BY <1>4, <2>1, OperatorLengths DEF Matching
  <2>3. OperatorLength(j) <= OperatorLength(k)
    BY <2>2 DEF OperatorLength
  <2>. QED  BY <1>5, <2>1, <2>3, OperatorLengths
<1>. QED  BY <1>5, <1>6, <1>7, <1>8, <1>9

LEMMA OperatorCharsAreBytes == operatorChars \in SUBSET Bytes /\ "\n" \notin operatorChars
BY SpecialBytes, OperatorsAreBytes DEF operatorChars

LEMMA ReadOperatorByteText == ASSUME TokenizeInv, TextInv, ReadOperatorByte PROVE TextInv'
<1>. DEFINE s == read_byte(st)
<1>1. In("read_operator") /\ Byte \in operatorChars
  BY DEF ReadOperatorByte
<1>2. /\ token \in Token /\ OperatorSpelled(st, token.text)
      /\ reading = "read_operator"
  BY <1>1 DEF TokenizeInv, TypeInv, TextInv, In
<1>3. Byte \in Bytes /\ Byte # EOF
  BY <1>1, SpecialBytes
<1>4. /\ OnLine(s) /\ ReadBy(st) \in Seq(Bytes) /\ ReadBy(s) = Append(ReadBy(st), Byte)
  BY <1>1, <1>3, ReadingText
<1>. HIDE DEF s
<1>5. PICK t : t = [token EXCEPT !.text = Append(@, Byte)]
  OBVIOUS
<1>6. t.text = Append(token.text, Byte) /\ t.type = "OPERATOR"
  BY <1>2, <1>5 DEF Token, TextInv
<1>7. Continue("read_operator", s, t)
  BY <1>2, <1>5 DEF ReadOperatorByte, s
<1>8. token.text \in Seq(operatorChars) /\ token.text \in Seq(Bytes)
  BY <1>2, OperatorCharsAreBytes, SeqSubset DEF OperatorSpelled
<1>9. EndsWith(ReadBy(s), Append(token.text, Byte))
  BY <1>2, <1>3, <1>4, <1>8, EndsWithAppend DEF OperatorSpelled
<1>10. Append(token.text, Byte) \in Seq(operatorChars) /\ Append(token.text, Byte) # <<>>
  BY <1>1, <1>8
<1>11. OperatorSpelled(s, t.text)
  BY <1>6, <1>9, <1>10 DEF OperatorSpelled
<1>. QED  BY <1>4, <1>6, <1>7, <1>11, ContinueText


\* What read_operator's last round starts from: the text of the operator is
\* not empty, and ends what was read.
LEMMA OperatorRound ==
    ASSUME TokenizeInv, TextInv, ReadOperator,
           NEW s, s = IF Len(token.text) = 3 THEN st ELSE unread_byte(read_byte(st), Byte)
    PROVE  /\ TypeInv /\ token \in Token /\ OnLine(s) /\ ReadBy(s) = ReadBy(st) /\ Rest(s) = Rest(st)
           /\ token.text \in Seq(operatorChars) /\ token.text # <<>>
           /\ \E u \in Seq(Bytes) : ReadBy(s) = u \o token.text
<1>1. /\ reading = "read_operator"
      /\ Len(token.text) # 3 => Byte # Bad /\ Byte \notin operatorChars
  BY DEF ReadOperator, OperatorIsFull, In
<1>2. /\ TypeInv /\ token \in Token /\ OperatorSpelled(st, token.text) /\ OnLine(st)
  BY <1>1 DEF TokenizeInv, TypeInv, TextInv, StillReading
<1>3. /\ OnLine(s) /\ ReadBy(s) = ReadBy(st) /\ Rest(s) = Rest(st)
  <2>1. CASE Len(token.text) = 3
    BY <1>2, <2>1
  <2>2. CASE Len(token.text) # 3
    BY <1>1, <1>2, <2>2, GivesBack
  <2>. QED  BY <2>1, <2>2
<1>4. token.text # <<>>
  <2>. SUFFICES ASSUME token.text = <<>> PROVE FALSE
    OBVIOUS
  <2>1. Byte \in operatorChars
    BY <1>2 DEF OperatorSpelled, Byte, NextByte
  <2>2. Len(token.text) # 3
    OBVIOUS
  <2>. QED  BY <1>1, <2>1, <2>2
<1>. QED  BY <1>2, <1>3, <1>4 DEF OperatorSpelled, EndsWith

LEMMA ReadOperatorText == ASSUME TokenizeInv, TextInv, ReadOperator PROVE TextInv'
<1>1. PICK s : s = IF Len(token.text) = 3 THEN st ELSE unread_byte(read_byte(st), Byte)
  OBVIOUS
<1>2. /\ TypeInv /\ OnLine(s)
      /\ token.text \in Seq(operatorChars) /\ token.text # <<>>
  BY <1>1, OperatorRound
<1>3. PICK u \in Seq(Bytes) : ReadBy(s) = u \o token.text
  BY <1>1, OperatorRound
<1>4. CASE Matching(token.text) = {}
  <2>1. Last(ReadBy(s)) # "\n"
    BY <1>2, <1>3, LastOfWord, OperatorCharsAreBytes
  <2>2. ErrorOn(s, s.lineno)
    BY <1>2, <2>1 DEF ErrorOn, OnLine
  <2>3. Fail(s, "no such operator", s.lineno)
    BY <1>1, <1>4 DEF ReadOperator
  <2>. QED  BY <1>2, <2>2, <2>3, FailText DEF OnLine
<1>5. CASE Matching(token.text) # {}
  <2>1. PICK op : op = operators[First(Matching(token.text))]
    OBVIOUS
  <2>2. PICK unused : unused = SubSeq(token.text, Len(op) + 1, Len(token.text))
    OBVIOUS
  <2>3. /\ op \in Seq(operatorChars) /\ op # <<>> /\ unused \in Seq(operatorChars)
        /\ token.text = op \o unused
    BY <1>2, <1>5, <2>1, <2>2, TakenOperator
  <2>4. /\ op \in Seq(Bytes) /\ unused \in Seq(Bytes)
        /\ NoNewLine(unused) /\ Last(u \o op) # "\n"
    <3>1. op \in Seq(Bytes) /\ unused \in Seq(Bytes) /\ Last(u \o op) # "\n"
      BY <2>3, LastOfWord, OperatorCharsAreBytes, SeqSubset
    <3>2. NoNewLine(unused)
      BY <2>3, OperatorCharsAreBytes DEF NoNewLine
    <3>. QED  BY <3>1, <3>2
  <2>5. u \o op \in Seq(Bytes) /\ ReadBy(s) = (u \o op) \o unused
    BY <1>3, <2>3, <2>4, ConcatSeq, ConcatAssociative
  <2>6. PICK r : r = UnreadAll(s, unused)
    OBVIOUS
  <2>7. OnLine(r) /\ ReadBy(r) = u \o op /\ r.lineno = s.lineno
    BY <1>2, <2>4, <2>5, <2>6, GivesAllBack
  <2>8. ErrorOn(r, s.lineno)
    BY <2>4, <2>7 DEF ErrorOn, OnLine
  <2>9. \/ Fail(r, "no such operator", s.lineno)
        \/ Finish(r, [token EXCEPT !.text = op])
    BY <1>1, <1>5, <2>1, <2>2, <2>6 DEF ReadOperator
  <2>. QED  BY <2>7, <2>8, <2>9, FailText, FinishText DEF OnLine
<1>. QED  BY <1>4, <1>5

\* handle_indentations reads nothing.
LEMMA IndentationsText ==
    ASSUME TextInv, CopyToken \/ HandleNewline \/ HandleEndOfFile
    PROVE  TextInv'
<1>1. UNCHANGED <<file, st>> /\ reading = "handle_indentations"
  BY DEF CopyToken, HandleNewline, HandleEndOfFile, InIndentations, Fail
<1>2. (InText(st))' = InText(st)
  BY <1>1, SameFile
<1>3. \/ reading' \in {"handle_indentations", "done"}
      \/ reading' = "failed" /\ error'[1].message = "indentation must be a multiple of 4 spaces"
  <2>1. CASE CopyToken \/ HandleEndOfFile
    BY <1>1, <2>1 DEF CopyToken, HandleEndOfFile
  <2>2. CASE HandleNewline
    <3>1. CASE NextToken.indentation_level % 4 # 0
      <4>1. Fail(st, "indentation must be a multiple of 4 spaces", NextToken.lineno + 1)
        BY <2>2, <3>1 DEF HandleNewline
      <4>. QED  BY <4>1 DEF Fail
    <3>2. CASE NextToken.indentation_level % 4 = 0
      BY <1>1, <2>2, <3>2 DEF HandleNewline
    <3>. QED  BY <3>1, <3>2
  <2>. QED  BY <2>1, <2>2
<1>. QED  BY <1>2, <1>3 DEF TextInv, StillReading

LEMMA StepTextInv == TokenizeInv /\ TextInv /\ [Next]_vars => TextInv'
<1>. SUFFICES ASSUME TokenizeInv, TextInv, [Next]_vars PROVE TextInv'
  OBVIOUS
<1>1. CASE Step
  BY <1>1, ReadBadByteText, ReadTokenText, ConsumeRestOfLineText, ReadIndentationText,
     ReadIdentifierOrNumberText, ReadStringText, ReadAfterBackslashText,
     ReadOperatorByteText, ReadOperatorText, IndentationsText
     DEF Step
<1>2. CASE UNCHANGED vars
  <2>1. UNCHANGED <<file, st, token, reading, error>>
    BY <1>2 DEF vars
  <2>2. /\ (InText(st))' = InText(st) /\ (OnLine(st))' = OnLine(st)
        /\ (NameSpelled(st, token.text))' = NameSpelled(st, token.text)
        /\ (OperatorSpelled(st, token.text))' = OperatorSpelled(st, token.text)
        /\ (ErrorOn(st, error[1].lineno))' = ErrorOn(st, error[1].lineno)
    BY <2>1, SameFile
  <2>. QED  BY <2>1, <2>2 DEF TextInv, StillReading
<1>. QED  BY <1>1, <1>2 DEF Next, Stopped

THEOREM TextInvariant == Spec => [](TokenizeInv /\ TextInv)
BY InitTokenizeInv, InitTextInv, StepTokenizeInv, StepTextInv, PTL DEF Spec

LEMMA ConsumedAndRemaining ==
    /\ Remaining = Rest(st)
    /\ Consumed = ReadBy(st)
BY DEF Remaining, Consumed, Rest, FileRest, ReadBy

\* In every file, whatever was read too far and given back: what is still to
\* be read, the bytes given back first, is the rest of the text.
THEOREM NothingIsEverLost == Spec => []NothingIsLost
<1>1. TokenizeInv /\ TextInv => NothingIsLost
  <2>. SUFFICES ASSUME TokenizeInv, TextInv PROVE NothingIsLost
    OBVIOUS
  <2>1. PICK p \in Seq(Bytes), r \in Seq(Bytes) : Source = p \o r /\ r = Remaining
    BY ConsumedAndRemaining, RestType DEF TextInv, InText, TokenizeInv
  <2>. QED  BY <2>1, SuffixOfConcat DEF NothingIsLost
<1>. QED  BY <1>1, TextInvariant, PTL

\* In every file the line number is that of the next byte, however often
\* newlines were given back.
THEOREM LineNumbersAreTrue == Spec => []LineNumberIsTrue
<1>1. TokenizeInv /\ TextInv => LineNumberIsTrue
  BY ConsumedAndRemaining DEF TextInv, OnLine, LineNumberIsTrue
<1>. QED  BY <1>1, TextInvariant, PTL

\* In every file an error of the first pass is reported on the line of the
\* byte it was noticed at.
THEOREM ErrorLinesAreTrue == Spec => []ErrorLineIsTrue
<1>1. TokenizeInv /\ TextInv => ErrorLineIsTrue
  BY ConsumedAndRemaining DEF TextInv, ErrorOn, ErrorLineIsTrue
<1>. QED  BY <1>1, TextInvariant, PTL

-----------------------------------------------------------------------------
\* The beginning of a text that goes on.
LEMMA PrefixOfConcat ==
    ASSUME NEW S, NEW a \in Seq(S), NEW b \in Seq(S), NEW c \in Seq(S), IsPrefix(a, b \o c)
    PROVE  IF Len(a) <= Len(b) THEN IsPrefix(a, b) ELSE c # <<>> /\ a[Len(b) + 1] = c[1]
<1>1. PICK t \in Seq(S) : t = b \o c
  <2>1. b \o c \in Seq(S)
    OBVIOUS
  <2>. QED  BY <2>1
<1>2. Len(t) = Len(b) + Len(c) /\ \A i \in 1 .. Len(b) : t[i] = b[i]
  BY <1>1
<1>3. Len(a) <= Len(t) /\ \A i \in 1 .. Len(a) : a[i] = t[i]
  <2>1. Len(a) <= Len(t) /\ SubSeq(a, 1, Len(a)) = SubSeq(t, 1, Len(a))
    BY <1>1 DEF IsPrefix
  <2>2. \A i \in 1 .. Len(a) : SubSeq(t, 1, Len(a))[i] = t[i] /\ SubSeq(a, 1, Len(a))[i] = a[i]
    BY <2>1
  <2>. QED  BY <2>1, <2>2
<1>4. CASE Len(a) <= Len(b)
  <2>1. \A i \in 1 .. Len(a) : a[i] = b[i]
    BY <1>2, <1>3, <1>4
  <2>2. SubSeq(a, 1, Len(a)) = SubSeq(b, 1, Len(a))
    BY <1>4, <2>1
  <2>. QED  BY <1>4, <2>2 DEF IsPrefix
<1>5. CASE ~ (Len(a) <= Len(b))
  <2>1. PICK n \in Nat : n = Len(b)
    OBVIOUS
  <2>2. n + 1 \in 1 .. Len(a) /\ 1 \in 1 .. Len(c) /\ c # <<>>
    BY <1>2, <1>3, <1>5, <2>1
  <2>3. t[n + 1] = c[1]
    BY <1>1, <2>1, <2>2
  <2>. QED  BY <1>3, <1>5, <2>1, <2>2, <2>3
<1>. QED  BY <1>4, <1>5

LongestLaw(t, s) ==
    /\ t.type \in {"NAME", "INT", "OPERATOR"} => IsSuffix(t.text, ReadBy(s))
    /\ t.type \in {"NAME", "INT"} =>
            Rest(s) = <<>> \/ ~is_identifier_or_number_byte(Head(Rest(s)))
    /\ t.type = "OPERATOR" =>
            \A op \in ToSet(operators) :
                IsPrefix(op, t.text \o Rest(s)) => Len(op) <= Len(t.text)

LongestStep ==
    Len(tokens') > Len(tokens) =>
        LET t == Last(tokens')
        IN  /\ t.type \in {"NAME", "INT", "OPERATOR"} => IsSuffix(t.text, Consumed')
            /\ t.type \in {"NAME", "INT"} =>
                    Remaining' = <<>> \/ ~is_identifier_or_number_byte(Head(Remaining'))
            /\ t.type = "OPERATOR" =>
                    \A op \in ToSet(operators) :
                        IsPrefix(op, t.text \o Remaining') => Len(op) <= Len(t.text)

LEMMA FinishIsLongest ==
    ASSUME TypeInv, NEW s, NEW t, Finish(s, t), LongestLaw(t, s)
    PROVE  LongestStep
<1>1. UNCHANGED file /\ st' = s /\ tokens' = Append(tokens, t) /\ tokens \in Seq(Token)
  BY DEF Finish, TypeInv
<1>2. Last(tokens') = t
  <2>1. tokens \in Seq(Token \cup {t})
    BY <1>1, SeqSubset
  <2>. QED  BY <1>1, <2>1 DEF Last
<1>3. Consumed' = ReadBy(s) /\ Remaining' = Rest(s)
  <2>1. (ReadBy(st))' = ReadBy(s) /\ (Rest(st))' = Rest(s)
    BY <1>1, SameFile
  <2>2. Consumed' = (ReadBy(st))' /\ Remaining' = (Rest(st))'
    BY DEF Consumed, Remaining, Rest, FileRest, ReadBy
  <2>. QED  BY <2>1, <2>2
<1>. QED  BY <1>2, <1>3 DEF LongestStep, LongestLaw

LEMMA OtherTokens ==
    ASSUME NEW t, t.type \notin {"NAME", "INT", "OPERATOR"}, NEW s
    PROVE  LongestLaw(t, s)
BY DEF LongestLaw

LEMMA NoNewToken ==
    ASSUME TypeInv, UNCHANGED tokens
    PROVE  LongestStep
<1>1. tokens \in Seq(Token)
  BY DEF TypeInv
<1>2. ~ (Len(tokens') > Len(tokens))
  BY <1>1
<1>. QED  BY <1>2 DEF LongestStep

LEMMA TokenTakenAway ==
    ASSUME TypeInv, tokens # <<>>, tokens' \in {Tail(tokens), <<>>}
    PROVE  LongestStep
<1>1. tokens \in Seq(Token)
  BY DEF TypeInv
<1>2. ~ (Len(tokens') > Len(tokens))
  <2>1. CASE tokens' = Tail(tokens)
    BY <1>1, <2>1
  <2>2. CASE tokens' = <<>>
    BY <1>1, <2>2
  <2>. QED  BY <2>1, <2>2
<1>. QED  BY <1>2 DEF LongestStep

LEMMA FailIsLongest ==
    ASSUME TypeInv, NEW s, NEW message, NEW lineno, Fail(s, message, lineno)
    PROVE  LongestStep
<1>1. UNCHANGED tokens
  BY DEF Fail
<1>. QED  BY <1>1, NoNewToken

\* A name or number ends where another byte follows.
LEMMA NameIsLongest ==
    ASSUME TokenizeInv, TextInv, ReadIdentifierOrNumber
    PROVE  LongestStep
<1>1. In("read_identifier_or_number")
  BY DEF ReadIdentifierOrNumber
<1>2. /\ TypeInv /\ token \in Token /\ NameSpelled(st, token.text) /\ OnLine(st) /\ Byte # Bad
  BY <1>1 DEF TokenizeInv, TypeInv, TextInv, In, StillReading
<1>3. PICK rest : rest = unread_byte(read_byte(st), Byte)
  OBVIOUS
<1>4. ReadBy(rest) = ReadBy(st) /\ Rest(rest) = Rest(st)
  BY <1>2, <1>3, GivesBack
<1>5. IsSuffix(token.text, ReadBy(rest))
  <2>1. PICK u \in Seq(Bytes) : ReadBy(rest) = u \o token.text
    BY <1>2, <1>4 DEF NameSpelled, EndsWith
  <2>2. token.text \in Seq(Bytes)
    BY <1>2 DEF Token
  <2>. QED  BY <2>1, <2>2, SuffixOfConcat
<1>6. ASSUME NEW type \in {"NAME", "INT"}, ~ is_identifier_or_number_byte(Byte),
             Finish(rest, [token EXCEPT !.type = type])
      PROVE  LongestStep
  <2>1. PICK t : t = [token EXCEPT !.type = type]
    OBVIOUS
  <2>2. t.type = type /\ t.text = token.text
    BY <1>2, <2>1 DEF Token
  <2>3. Rest(rest) = <<>> \/ ~is_identifier_or_number_byte(Head(Rest(rest)))
    <3>1. CASE Byte = EOF
      BY <1>2, <1>4, <3>1, ReadByteTakesFirst
    <3>2. CASE Byte # EOF
      <4>1. /\ Rest(st) = <<Byte>> \o Rest(read_byte(st)) /\ Byte \in Bytes
            /\ InText(read_byte(st))
        BY <1>2, <3>2, ReadsOn DEF OnLine
      <4>2. PICK r \in Seq(Bytes) : r = Rest(read_byte(st))
        BY <1>2, <4>1, RestType DEF InText
      <4>3. PICK c \in Bytes : c = Byte
        BY <4>1
      <4>4. Head(<<c>> \o r) = c
        OBVIOUS
      <4>. QED  BY <1>4, <1>6, <4>1, <4>2, <4>3, <4>4
    <3>. QED  BY <3>1, <3>2
  <2>4. LongestLaw(t, rest)
    BY <1>5, <2>2, <2>3 DEF LongestLaw
  <2>. QED  BY <1>2, <1>6, <2>1, <2>4, FinishIsLongest
<1>7. CASE is_identifier_or_number_byte(Byte)
  <2>1. UNCHANGED tokens
    BY <1>7 DEF ReadIdentifierOrNumber, Continue, Fail
  <2>. QED  BY <1>2, <2>1, NoNewToken
<1>8. CASE ~ is_identifier_or_number_byte(Byte)
  <2>1. \/ Finish(rest, [token EXCEPT !.type = "NAME"])
        \/ Finish(rest, [token EXCEPT !.type = "INT"])
        \/ Fail(rest, "invalid number", token.lineno)
    BY <1>3, <1>8 DEF ReadIdentifierOrNumber
  <2>2. CASE Fail(rest, "invalid number", token.lineno)
    BY <1>2, <2>2, FailIsLongest
  <2>. QED  BY <1>6, <1>8, <2>1, <2>2
<1>. QED  BY <1>7, <1>8

\* No operator that starts the rest of the text is longer than the one that
\* is taken: one that were longer than what was read would have its next byte
\* in the text.
LEMMA OperatorIsLongest ==
    ASSUME TokenizeInv, TextInv, ReadOperator
    PROVE  LongestStep
<1>1. PICK s : s = IF Len(token.text) = 3 THEN st ELSE unread_byte(read_byte(st), Byte)
  OBVIOUS
<1>2. /\ TypeInv /\ token \in Token /\ OnLine(s) /\ Rest(s) = Rest(st)
      /\ token.text \in Seq(operatorChars) /\ token.text # <<>>
  BY <1>1, OperatorRound
<1>3. PICK u \in Seq(Bytes) : ReadBy(s) = u \o token.text
  BY <1>1, OperatorRound
<1>4. PICK rest \in Seq(Bytes) : rest = Rest(s)
  BY <1>2, RestType DEF OnLine, InText
<1>5. PICK text \in Seq(operatorChars) : text = token.text
  BY <1>2
<1>6. text \in Seq(Bytes)
  BY OperatorCharsAreBytes, SeqSubset
<1>7. ASSUME NEW other \in ToSet(operators), IsPrefix(other, text \o rest)
      PROVE  IsPrefix(other, text)
  <2>1. PICK i \in 1 .. 28 : other = operators[i]
    BY OperatorLengths DEF ToSet
  <2>2. other \in Seq(operatorChars) /\ Len(other) <= 3
    <3>1. operators[i] \in Seq(operatorChars) /\ Len(operators[i]) = OperatorLength(i)
      BY OperatorLengths
    <3>2. OperatorLength(i) <= 3
      BY DEF OperatorLength
    <3>3. other \in Seq(operatorChars) /\ Len(other) = OperatorLength(i)
      BY <2>1, <3>1
    <3>. QED  BY <3>2, <3>3
  <2>3. other \in Seq(Bytes)
    BY <2>2, OperatorCharsAreBytes, SeqSubset
  <2>4. IF Len(other) <= Len(text) THEN IsPrefix(other, text)
        ELSE rest # <<>> /\ other[Len(text) + 1] = rest[1]
    BY <1>6, <1>7, <2>3, PrefixOfConcat
  <2>5. CASE Len(text) = 3
    BY <2>2, <2>4, <2>5
  <2>6. CASE Len(text) # 3
    <3>. SUFFICES ASSUME ~ (Len(other) <= Len(text)) PROVE FALSE
      BY <2>4
    <3>1. other[Len(text) + 1] \in operatorChars /\ rest # <<>>
      BY <2>2, <2>4
    <3>2. /\ Byte \notin operatorChars /\ Byte # Bad /\ OnLine(st)
      BY <1>5, <2>6 DEF ReadOperator, OperatorIsFull, In, TextInv, StillReading
    <3>3. Byte # EOF
      BY <1>2, <1>4, <3>1, <3>2, ReadByteTakesFirst
    <3>4. /\ Rest(st) = <<Byte>> \o Rest(read_byte(st)) /\ Byte \in Bytes
          /\ InText(read_byte(st))
      BY <1>2, <3>2, <3>3, ReadsOn DEF OnLine
    <3>5. PICK r \in Seq(Bytes) : r = Rest(read_byte(st))
      BY <1>2, <3>4, RestType DEF InText
    <3>6. PICK c \in Bytes : c = Byte
      BY <3>4
    <3>7. (<<c>> \o r)[1] = c
      OBVIOUS
    <3>8. rest[1] = Byte
      BY <1>2, <1>4, <3>4, <3>5, <3>6, <3>7
    <3>. QED  BY <2>4, <3>1, <3>2, <3>8
  <2>. QED  BY <2>5, <2>6
<1>8. CASE Matching(token.text) = {}
  <2>1. Fail(s, "no such operator", s.lineno)
    BY <1>1, <1>8 DEF ReadOperator
  <2>. QED  BY <1>2, <2>1, FailIsLongest
<1>9. CASE Matching(token.text) # {}
  <2>1. PICK op : op = operators[First(Matching(token.text))]
    OBVIOUS
  <2>2. PICK unused : unused = SubSeq(token.text, Len(op) + 1, Len(token.text))
    OBVIOUS
  <2>3. /\ op \in Seq(operatorChars) /\ unused \in Seq(operatorChars) /\ text = op \o unused
        /\ \A other \in ToSet(operators) : IsPrefix(other, text) => Len(other) <= Len(op)
    BY <1>2, <1>5, <1>9, <2>1, <2>2, TakenOperator
  <2>4. op \in Seq(Bytes) /\ unused \in Seq(Bytes) /\ NoNewLine(unused)
    <3>1. op \in Seq(Bytes) /\ unused \in Seq(Bytes)
      BY <2>3, OperatorCharsAreBytes, SeqSubset
    <3>2. NoNewLine(unused)
      BY <2>3, OperatorCharsAreBytes DEF NoNewLine
    <3>. QED  BY <3>1, <3>2
  <2>5. PICK front \in Seq(Bytes) : front = u \o op
    <3>1. u \o op \in Seq(Bytes)
      BY <2>4, ConcatSeq
    <3>. QED  BY <3>1
  <2>15. ReadBy(s) = front \o unused
    <3>1. ReadBy(s) = u \o (op \o unused)
      BY <1>3, <1>5, <2>3
    <3>2. (u \o op) \o unused = u \o (op \o unused)
      BY <2>4, ConcatAssociative
    <3>. QED  BY <2>5, <3>1, <3>2
  <2>6. PICK r : r = UnreadAll(s, unused)
    OBVIOUS
  <2>7. ReadBy(r) = u \o op /\ Rest(r) = unused \o rest
    <3>1. ReadBy(r) = front /\ Rest(r) = unused \o Rest(s)
      BY <1>2, <2>4, <2>15, <2>6, GivesAllBack
    <3>. QED  BY <1>4, <2>5, <3>1
  <2>8. op \o (unused \o rest) = text \o rest
    BY <2>3, <2>4, ConcatAssociative
  <2>9. IsSuffix(op, u \o op)
    BY <2>4, SuffixOfConcat
  <2>10. PICK t : t = [token EXCEPT !.text = op]
    OBVIOUS
  <2>11. t.text = op /\ t.type = "OPERATOR"
    BY <1>2, <2>10 DEF Token, TextInv, ReadOperator, OperatorIsFull, In
  <2>12. LongestLaw(t, r)
    BY <1>7, <2>3, <2>7, <2>8, <2>9, <2>11 DEF LongestLaw
  <2>13. \/ Fail(r, "no such operator", s.lineno)
         \/ Finish(r, t)
    BY <1>1, <1>9, <2>1, <2>2, <2>6, <2>10 DEF ReadOperator
  <2>14. CASE Fail(r, "no such operator", s.lineno)
    BY <1>2, <2>14, FailIsLongest
  <2>. QED  BY <1>2, <2>12, <2>13, <2>14, FinishIsLongest
<1>. QED  BY <1>8, <1>9

LEMMA StepIsLongest == TokenizeInv /\ TextInv /\ [Next]_vars => [LongestStep]_vars
<1>. SUFFICES ASSUME TokenizeInv, TextInv, Next PROVE LongestStep
  OBVIOUS
<1>1. TypeInv /\ token \in Token
  BY DEF TokenizeInv, TypeInv
<1>2. CASE ReadBadByte \/ ReadOperatorByte \/ ReadAfterBackslash \/ ConsumeRestOfLine \/ Stopped
  <2>1. UNCHANGED tokens
    BY <1>2 DEF ReadBadByte, ReadOperatorByte, ReadAfterBackslash, ConsumeRestOfLine, Stopped,
                vars, Continue, Fail, MissingEndQuote
  <2>. QED  BY <1>1, <2>1, NoNewToken
<1>3. CASE CopyToken \/ HandleNewline \/ HandleEndOfFile
  <2>1. CASE CopyToken \/ HandleEndOfFile
    <3>1. tokens # <<>> /\ tokens' \in {Tail(tokens), <<>>}
      BY <2>1 DEF CopyToken, HandleEndOfFile, InIndentations
    <3>. QED  BY <1>1, <3>1, TokenTakenAway
  <2>2. CASE HandleNewline /\ NextToken.indentation_level % 4 # 0
    <3>1. Fail(st, "indentation must be a multiple of 4 spaces", NextToken.lineno + 1)
      BY <2>2 DEF HandleNewline
    <3>. QED  BY <1>1, <3>1, FailIsLongest
  <2>3. CASE HandleNewline /\ ~ (NextToken.indentation_level % 4 # 0)
    <3>1. tokens # <<>> /\ tokens' = Tail(tokens)
      BY <2>3 DEF HandleNewline, InIndentations
    <3>. QED  BY <1>1, <3>1, TokenTakenAway
  <2>. QED  BY <1>3, <2>1, <2>2, <2>3
<1>4. ASSUME NEW s, NEW t, Finish(s, t), t.type \notin {"NAME", "INT", "OPERATOR"}
      PROVE  LongestStep
  BY <1>1, <1>4, OtherTokens, FinishIsLongest
<1>5. ASSUME NEW function, NEW s, NEW t, Continue(function, s, t) PROVE LongestStep
  <2>1. UNCHANGED tokens
    BY <1>5 DEF Continue
  <2>. QED  BY <1>1, <2>1, NoNewToken
<1>6. ASSUME NEW s, NEW message, NEW lineno, Fail(s, message, lineno) PROVE LongestStep
  BY <1>1, <1>6, FailIsLongest
<1>7. [token EXCEPT !.type = "END_OF_FILE"].type = "END_OF_FILE"
  BY <1>1 DEF Token
<1>8. CASE ReadToken
  BY <1>4, <1>5, <1>6, <1>7, <1>8 DEF ReadToken
<1>9. CASE ReadIndentation
  <2>1. token.type = "NEWLINE"
    BY <1>9 DEF ReadIndentation, In, TextInv
  <2>. QED  BY <1>4, <1>5, <1>7, <1>9, <2>1 DEF ReadIndentation
<1>10. CASE ReadString
  <2>1. token.type \in {"CHAR", "STRING"}
    BY <1>10 DEF ReadString, In, TextInv
  <2>. QED  BY <1>4, <1>5, <1>6, <1>10, <2>1 DEF ReadString, MissingEndQuote
<1>. QED  BY <1>2, <1>3, <1>8, <1>9, <1>10, NameIsLongest, OperatorIsLongest DEF Next, Step

\* In every file a name or number ends only where the text or the name does, an
\* operator is the longest of the list that the text goes on with, and each is
\* spelled as in the text.
THEOREM TokensAreLongest == Spec => LongestMatch
<1>1. Spec => [][LongestStep]_vars
  BY TextInvariant, StepIsLongest, PTL DEF Spec
<1>. QED  BY <1>1 DEF LongestMatch, LongestStep
-----------------------------------------------------------------------------
\* Why lines end in newlines, in files without backslashes (one could continue
\* a string on the next line): a newline or the end of the file is only looked
\* for behind a token that is on the line, and the line number does not change
\* on the way from one token of a line to the next.
Follows(p, t) ==
    /\ t.type \in {"NEWLINE", "END_OF_FILE"} => Proper(p) /\ t.lineno = p.lineno
    /\ Proper(t) => p.type # "END_OF_FILE" /\ (Proper(p) => t.lineno = p.lineno)
    /\ t.type \notin {"INDENT", "DEDENT"}
StartsToken(c) == c \notin {" ", "\n", "#", EOF}

PlainBytes == Bytes \ {"\\"}
Between(p, function, s, t) ==
    /\ p.type \notin {"END_OF_FILE", "INDENT", "DEDENT"}
    /\ Proper(p) => t.lineno = p.lineno
    /\ t.type = "NEWLINE" \/ function = "consume_rest_of_line" => Proper(p)
    /\ function = "read_token" /\ ~Proper(p) => StartsToken(NextByte(s))
ReadingLaw(function, s, t) ==
    /\ s.pushback \in Seq(PlainBytes)
    /\ function # "after_backslash"
    /\ function \in {"read_string", "read_operator"} => t.lineno = s.lineno

\* The law of LinesEndInNewline, for a token and the one before it.
OutputLaw(p, t) ==
    /\ t.type = "NEWLINE" => Proper(p) /\ t.lineno = p.lineno
    /\ Proper(t) => p.type # "END_OF_FILE" /\ (Proper(p) => t.lineno = p.lineno)
    /\ t.type \in {"INDENT", "DEDENT", "END_OF_FILE"} => p.type \in {"NEWLINE", "INDENT", "DEDENT"}
Linked(list) == \A i \in 2 .. Len(list) : OutputLaw(list[i - 1], list[i])

LineLaw ==
    /\ \A i \in 2 .. Len(tokens) : Follows(tokens[i - 1], tokens[i])
    /\ StillReading => ReadingLaw(reading, st, token)
    /\ StillReading /\ tokens # <<>> => Between(Last(tokens), reading, st, token)
    /\ reading = "handle_indentations" =>
        /\ Linked(output)
        /\ output # <<>> /\ tokens # <<>> => Follows(Last(output), tokens[1])
    /\ LinesEndInNewline
LineInv == "\\" \notin ToSet(file) => LineLaw

LEMMA InitLineInv == Init => LineInv
<1>. SUFFICES ASSUME Init PROVE LineLaw
  BY DEF LineInv
<1>1. st.pushback = <<"\n">> /\ tokens = <<>> /\ reading = "read_token"
  BY DEF Init
<1>2. "\n" \in PlainBytes
  BY DEF Bytes, PlainBytes
<1>3. st.pushback \in Seq(PlainBytes)
  BY <1>1, <1>2
<1>. QED  BY <1>1, <1>3 DEF LineLaw, ReadingLaw, LinesEndInNewline

\* Where the bytes of a plain file come from and where they go.
LEMMA PlainByte ==
    ASSUME TypeInv, "\\" \notin ToSet(file), st.pushback \in Seq(PlainBytes), Byte # Bad
    PROVE  /\ Byte \in PlainBytes \cup {EOF}
           /\ read_byte(st).pushback \in Seq(PlainBytes)
           /\ unread_byte(read_byte(st), Byte).pushback \in Seq(PlainBytes)
           /\ unread_byte(read_byte(st), Byte).lineno = st.lineno
           /\ Byte # "\n" => read_byte(st).lineno = st.lineno
           /\ Byte # EOF => NextByte(unread_byte(read_byte(st), Byte)) = Byte
<1>1. st \in ReaderState /\ read_byte(st) \in ReaderState /\ Byte \in Bytes \cup {EOF} /\ EOF \notin Bytes
  BY ReadByteType, SpecialBytes DEF TypeInv, Byte
<1>2. Byte # "\\"
  <2>1. CASE st.pushback # <<>>
    <3>1. Last(st.pushback) \in PlainBytes
      BY <2>1, FrontLastSeq
    <3>. QED  BY <2>1, <3>1 DEF Byte, NextByte, PlainBytes
  <2>2. CASE st.pushback = <<>>
    <3>1. Byte = FromFile(st)
      BY <2>2 DEF Byte, NextByte
    <3>2. \A i \in DOMAIN file : file[i] # "\\"
      BY DEF ToSet
    <3>3. st.pos \in 1 .. Len(file) + 1 /\ file \in Seq(Bytes)
      BY <1>1 DEF TypeInv, ReaderState
    <3>4. CASE st.pos > Len(file)
      BY <3>1, <3>4 DEF FromFile, EOF
    <3>5. CASE ~ (st.pos > Len(file))
      <4>1. file[st.pos] # "\\"
        BY <3>2, <3>3, <3>5
      <4>. QED  BY <3>1, <3>5, <4>1 DEF FromFile, Bad
    <3>. QED  BY <3>4, <3>5
  <2>. QED  BY <2>1, <2>2
<1>3. Byte \in PlainBytes \cup {EOF}
  BY <1>1, <1>2 DEF PlainBytes
<1>4. /\ read_byte(st).pushback \in Seq(PlainBytes)
      /\ read_byte(st).lineno = st.lineno + (IF Byte = EOF THEN 0 ELSE NewLines(Byte))
  <2>1. CASE st.pushback # <<>>
    <3>1. Front(st.pushback) \in Seq(PlainBytes)
      BY <2>1, FrontLastSeq
    <3>2. read_byte(st).pushback = Front(st.pushback) /\ read_byte(st).lineno = st.lineno + NewLines(Byte)
      BY <1>1, <2>1 DEF read_byte, ReaderState, Byte
    <3>3. Byte # EOF
      <4>1. Last(st.pushback) \in PlainBytes
        BY <2>1, FrontLastSeq
      <4>. QED  BY <1>1, <2>1, <4>1 DEF Byte, NextByte, PlainBytes
    <3>. QED  BY <3>1, <3>2, <3>3
  <2>2. CASE st.pushback = <<>>
    BY <1>1, <2>2 DEF read_byte, ReaderState, Byte
  <2>. QED  BY <2>1, <2>2
<1>5. CASE Byte = EOF
  <2>1. unread_byte(read_byte(st), Byte) = read_byte(st)
    BY <1>5 DEF unread_byte
  <2>. QED  BY <1>1, <1>3, <1>4, <1>5, <2>1 DEF ReaderState
<1>6. CASE Byte # EOF
  <2>1. PICK s \in ReaderState : s = read_byte(st)
    BY <1>1
  <2>2. PICK c \in PlainBytes : c = Byte
    BY <1>3, <1>6
  <2>3. PICK p \in Seq(PlainBytes) : p = s.pushback
    BY <1>4, <2>1
  <2>4. /\ unread_byte(s, c).pushback = Append(p, c)
        /\ unread_byte(s, c).lineno = s.lineno - NewLines(c)
    BY <1>6, <2>2, <2>3 DEF unread_byte, ReaderState
  <2>5. Append(p, c) \in Seq(PlainBytes) /\ Append(p, c) # <<>> /\ Last(Append(p, c)) = c
    BY DEF Last
  <2>6. s.lineno = st.lineno + NewLines(c) /\ st.lineno \in Int /\ NewLines(c) \in Int
    BY <1>1, <1>4, <1>6, <2>1, <2>2 DEF ReaderState, NewLines
  <2>7. NextByte(unread_byte(s, c)) = c
    BY <2>4, <2>5 DEF NextByte
  <2>8. c # "\n" => NewLines(c) = 0
    BY DEF NewLines
  <2>. QED  BY <1>3, <1>4, <2>1, <2>2, <2>4, <2>5, <2>6, <2>7, <2>8
<1>. QED  BY <1>5, <1>6

\* The ways a round ends.
LEMMA ContinueLine ==
    ASSUME LineLaw, NEW function, NEW s, NEW t, Continue(function, s, t),
           function \notin {"handle_indentations", "done", "failed"},
           ReadingLaw(function, s, t),
           tokens # <<>> => Between(Last(tokens), function, s, t)
    PROVE  LineLaw'
<1>1. /\ UNCHANGED <<file, tokens, output>> /\ reading' = function /\ st' = s /\ token' = t
  BY DEF Continue
<1>2. NextByte(st)' = NextByte(s)
  BY <1>1 DEF NextByte, FromFile
<1>3. ReadingLaw(reading, st, token)'
  BY <1>1 DEF ReadingLaw, PlainBytes
<1>4. tokens # <<>> => Between(Last(tokens), reading, st, token)'
  BY <1>1, <1>2 DEF Between, Proper
<1>. QED  BY <1>1, <1>3, <1>4 DEF LineLaw, LinesEndInNewline

LEMMA FailLine ==
    ASSUME LineLaw, NEW s, NEW message, NEW lineno, Fail(s, message, lineno)
    PROVE  LineLaw'
<1>1. UNCHANGED tokens /\ reading' = "failed"
  BY DEF Fail
<1>. QED  BY <1>1 DEF LineLaw, LinesEndInNewline, StillReading

LEMMA FinishLine ==
    ASSUME TokenizeInv, LineLaw, StillReading, NEW s, NEW t \in Token, Finish(s, t),
           s.pushback \in Seq(PlainBytes),
           t.type \notin {"INDENT", "DEDENT"},
           tokens # <<>> => Follows(Last(tokens), t),
           t.type # "END_OF_FILE" /\ Proper(t) => s.lineno = t.lineno,
           t.type # "END_OF_FILE" /\ ~Proper(t) => StartsToken(NextByte(s))
    PROVE  LineLaw'
<1>1. /\ UNCHANGED <<file, output>> /\ st' = s /\ token' = NewToken(s.lineno)
      /\ tokens' = Append(tokens, t)
      /\ reading' = IF t.type = "END_OF_FILE" THEN "handle_indentations" ELSE "read_token"
  BY DEF Finish
<1>2. tokens \in Seq(Token) /\ output = <<>>
  BY DEF TokenizeInv, TypeInv, FirstInv
<1>3. tokens' # <<>> /\ Last(tokens') = t
  BY <1>1, <1>2 DEF Last
<1>4. ASSUME NEW i \in 2 .. Len(tokens') PROVE Follows(tokens'[i - 1], tokens'[i])
  <2>1. CASE i \in 2 .. Len(tokens)
    <3>1. tokens'[i - 1] = tokens[i - 1] /\ tokens'[i] = tokens[i]
      BY <1>1, <1>2, <2>1
    <3>. QED  BY <2>1, <3>1 DEF LineLaw
  <2>2. CASE i = Len(tokens) + 1
    <3>1. tokens'[i - 1] = Last(tokens) /\ tokens'[i] = t /\ tokens # <<>>
      BY <1>1, <1>2, <1>4, <2>2 DEF Last
    <3>. QED  BY <3>1
  <2>3. i \in 2 .. Len(tokens) \/ i = Len(tokens) + 1
    BY <1>1, <1>2, <1>4
  <2>. QED  BY <2>1, <2>2, <2>3
<1>5. NextByte(st)' = NextByte(s)
  BY <1>1 DEF NextByte, FromFile
<1>6. token'.type = "" /\ token'.lineno = s.lineno
  BY <1>1 DEF NewToken
<1>7. CASE t.type = "END_OF_FILE"
  <2>1. Linked(output)'
    BY <1>1, <1>2 DEF Linked
  <2>2. reading' = "handle_indentations" /\ output' = <<>>
    BY <1>1, <1>2, <1>7
  <2>. QED  BY <1>4, <2>1, <2>2 DEF LineLaw, LinesEndInNewline, StillReading
<1>8. CASE t.type # "END_OF_FILE"
  <2>1. reading' = "read_token"
    BY <1>1, <1>8
  <2>2. ReadingLaw(reading, st, token)'
    BY <1>1, <2>1 DEF ReadingLaw, PlainBytes
  <2>3. Between(t, "read_token", st, token)'
    BY <1>5, <1>6, <1>8 DEF Between
  <2>. QED  BY <1>3, <1>4, <2>1, <2>2, <2>3 DEF LineLaw, LinesEndInNewline, StillReading
<1>. QED  BY <1>7, <1>8


\* What every round that reads a byte of a plain file starts from.
Round(function) ==
    /\ StillReading /\ reading = function /\ token \in Token /\ st \in ReaderState
    /\ read_byte(st) \in ReaderState /\ Byte \in PlainBytes \cup {EOF}
    /\ read_byte(st).pushback \in Seq(PlainBytes)
    /\ unread_byte(read_byte(st), Byte) \in ReaderState
    /\ unread_byte(read_byte(st), Byte).pushback \in Seq(PlainBytes)
    /\ unread_byte(read_byte(st), Byte).lineno = st.lineno
    /\ Byte # "\n" => read_byte(st).lineno = st.lineno
    /\ Byte # EOF => NextByte(unread_byte(read_byte(st), Byte)) = Byte
    /\ ReadingLaw(reading, st, token)
    /\ tokens # <<>> => Between(Last(tokens), reading, st, token)
    /\ function = "read_token" => token.lineno = st.lineno

LEMMA PlainRound ==
    ASSUME TokenizeInv, TextInv, LineLaw, "\\" \notin ToSet(file), NEW function, In(function),
           function \notin {"handle_indentations", "done", "failed"}
    PROVE  Round(function)
<1>1. /\ StillReading /\ reading = function /\ token \in Token /\ st \in ReaderState
      /\ read_byte(st) \in ReaderState
      /\ unread_byte(read_byte(st), Byte) \in ReaderState
  BY Reading
<1>2. /\ ReadingLaw(reading, st, token)
      /\ tokens # <<>> => Between(Last(tokens), reading, st, token)
  BY <1>1 DEF LineLaw
<1>3. TypeInv /\ Byte # Bad /\ st.pushback \in Seq(PlainBytes)
  BY <1>2 DEF TokenizeInv, In, ReadingLaw
<1>4. function = "read_token" => token.lineno = st.lineno
  BY <1>1 DEF TextInv
<1>. QED  BY <1>1, <1>2, <1>3, <1>4, PlainByte DEF Round

LEMMA ReadTokenLine ==
    ASSUME TokenizeInv, TextInv, LineLaw, "\\" \notin ToSet(file), ReadToken
    PROVE  LineLaw'
<1>1. In("read_token")
  BY DEF ReadToken
<1>2. Round("read_token")
  BY <1>1, PlainRound
<1>3. PICK s : s = read_byte(st)
  OBVIOUS
<1>4. ASSUME tokens # <<>>
      PROVE  /\ Last(tokens).type \notin {"END_OF_FILE", "INDENT", "DEDENT"}
             /\ Proper(Last(tokens)) => token.lineno = Last(tokens).lineno
             /\ token.type = "NEWLINE" => Proper(Last(tokens))
             /\ ~ StartsToken(Byte) => Proper(Last(tokens))
  BY <1>2, <1>4 DEF Round, Between, Byte
<1>5. ASSUME NEW t, NEW r, NEW function,
             t.lineno = token.lineno,
             t.type = token.type \/ t.type # "NEWLINE",
             Continue(function, r, t), r.pushback \in Seq(PlainBytes),
             function \in {"read_string", "read_identifier_or_number", "read_operator"},
             function # "read_identifier_or_number" => r.lineno = st.lineno
      PROVE  LineLaw'
  <2>1. ReadingLaw(function, r, t)
    BY <1>2, <1>5 DEF ReadingLaw, Round
  <2>2. tokens # <<>> => Between(Last(tokens), function, r, t)
    BY <1>4, <1>5 DEF Between
  <2>. QED  BY <1>5, <2>1, <2>2, ContinueLine
<1>6. ASSUME NEW t, NEW function,
             t.lineno = token.lineno, ~ StartsToken(Byte),
             Continue(function, s, t),
             function \in {"read_token", "consume_rest_of_line", "read_indentation_as_newline_token"}
      PROVE  LineLaw'
  <2>1. ReadingLaw(function, s, t)
    BY <1>2, <1>3, <1>6 DEF ReadingLaw, Round
  <2>2. tokens # <<>> => Between(Last(tokens), function, s, t)
    BY <1>4, <1>6 DEF Between
  <2>. QED  BY <1>6, <2>1, <2>2, ContinueLine
<1>7. CASE Byte = "#" /\ Continue("consume_rest_of_line", s, token)
  BY <1>6, <1>7 DEF StartsToken
<1>8. CASE Byte = " " /\ Continue("read_token", s, token)
  BY <1>6, <1>8 DEF StartsToken
<1>9. CASE Byte = "\n" /\ Continue("read_indentation_as_newline_token", s, [token EXCEPT !.type = "NEWLINE"])
  <2>1. PICK t : t = [token EXCEPT !.type = "NEWLINE"]
    OBVIOUS
  <2>2. t.lineno = token.lineno
    BY <1>2, <2>1 DEF Token, Round
  <2>. QED  BY <1>6, <1>9, <2>1, <2>2 DEF StartsToken
<1>10. CASE Byte = EOF /\ Finish(s, [token EXCEPT !.type = "END_OF_FILE"])
  <2>1. PICK t : t = [token EXCEPT !.type = "END_OF_FILE"]
    OBVIOUS
  <2>2. t.lineno = token.lineno /\ t.type = "END_OF_FILE" /\ t \in Token
    BY <1>2, <2>1 DEF Token, Round, TokenTypes
  <2>3. tokens # <<>> => Follows(Last(tokens), t)
    BY <1>4, <1>10, <2>2 DEF Follows, StartsToken, Proper
  <2>. QED  BY <1>2, <1>3, <1>10, <2>1, <2>2, <2>3, FinishLine DEF Round
<1>11. CASE /\ Byte \in Quotes
            /\ Continue("read_string", s, [token EXCEPT !.type = IF Byte = "'" THEN "CHAR" ELSE "STRING"])
  <2>1. PICK t : t = [token EXCEPT !.type = IF Byte = "'" THEN "CHAR" ELSE "STRING"]
    OBVIOUS
  <2>2. t.lineno = token.lineno /\ t.type # "NEWLINE"
    BY <1>2, <2>1 DEF Token, Round
  <2>3. s.lineno = st.lineno /\ s.pushback \in Seq(PlainBytes)
    BY <1>2, <1>3, <1>11 DEF Round, Quotes
  <2>. QED  BY <1>5, <1>11, <2>1, <2>2, <2>3
<1>12. CASE /\ is_identifier_or_number_byte(Byte)
            /\ Continue("read_identifier_or_number", s, [token EXCEPT !.text = <<Byte>>])
  <2>1. PICK t : t = [token EXCEPT !.text = <<Byte>>]
    OBVIOUS
  <2>2. t.lineno = token.lineno /\ t.type = token.type
    BY <1>2, <2>1 DEF Token, Round
  <2>. QED  BY <1>2, <1>3, <1>5, <1>12, <2>1, <2>2 DEF Round
<1>13. CASE /\ Byte \in operatorChars
            /\ Continue("read_operator", unread_byte(s, Byte), [token EXCEPT !.type = "OPERATOR"])
  <2>1. PICK t : t = [token EXCEPT !.type = "OPERATOR"]
    OBVIOUS
  <2>2. t.lineno = token.lineno /\ t.type # "NEWLINE"
    BY <1>2, <2>1 DEF Token, Round
  <2>3. unread_byte(s, Byte).lineno = st.lineno /\ unread_byte(s, Byte).pushback \in Seq(PlainBytes)
    BY <1>2, <1>3 DEF Round
  <2>. QED  BY <1>5, <1>13, <2>1, <2>2, <2>3
<1>14. CASE Fail(s, "unexpected byte", s.lineno)
  BY <1>14, FailLine
<1>. QED  BY <1>3, <1>7, <1>8, <1>9, <1>10, <1>11, <1>12, <1>13, <1>14 DEF ReadToken

LEMMA ConsumeRestOfLineLine ==
    ASSUME TokenizeInv, TextInv, LineLaw, "\\" \notin ToSet(file), ConsumeRestOfLine
    PROVE  LineLaw'
<1>1. Round("consume_rest_of_line")
  BY PlainRound DEF ConsumeRestOfLine
<1>2. ASSUME NEW function, NEW s, s.pushback \in Seq(PlainBytes), Continue(function, s, token),
             function \in {"read_token", "consume_rest_of_line", "read_indentation_as_newline_token"}
      PROVE  LineLaw'
  <2>1. ReadingLaw(function, s, token)
    BY <1>2 DEF ReadingLaw
  <2>2. tokens # <<>> => Between(Last(tokens), function, s, token)
    BY <1>1, <1>2 DEF Between, Round
  <2>. QED  BY <1>2, <2>1, <2>2, ContinueLine
<1>3. /\ read_byte(st).pushback \in Seq(PlainBytes)
      /\ unread_byte(read_byte(st), Byte).pushback \in Seq(PlainBytes)
  BY <1>1 DEF Round
<1>. QED  BY <1>2, <1>3 DEF ConsumeRestOfLine

LEMMA ReadIndentationLine ==
    ASSUME TokenizeInv, TextInv, LineLaw, "\\" \notin ToSet(file), ReadIndentation
    PROVE  LineLaw'
<1>1. Round("read_indentation_as_newline_token") /\ token.type = "NEWLINE"
  BY PlainRound DEF ReadIndentation, TextInv, In
<1>2. PICK s : s = read_byte(st)
  OBVIOUS
<1>3. tokens # <<>> => Proper(Last(tokens)) /\ token.lineno = Last(tokens).lineno
                       /\ Last(tokens).type \notin {"END_OF_FILE", "INDENT", "DEDENT"}
  BY <1>1 DEF Round, Between
<1>4. ASSUME NEW function, NEW t, t.lineno = token.lineno, Continue(function, s, t),
             function \in {"consume_rest_of_line", "read_indentation_as_newline_token"}
      PROVE  LineLaw'
  <2>1. ReadingLaw(function, s, t)
    BY <1>1, <1>2, <1>4 DEF ReadingLaw, Round
  <2>2. tokens # <<>> => Between(Last(tokens), function, s, t)
    BY <1>3, <1>4 DEF Between
  <2>. QED  BY <1>4, <2>1, <2>2, ContinueLine
<1>5. ASSUME NEW n PROVE [token EXCEPT !.indentation_level = n].lineno = token.lineno
  BY <1>1 DEF Token, Round
<1>6. ASSUME Byte \in {" ", "\n", "#"} PROVE LineLaw'
  <2>1. reading = "read_indentation_as_newline_token"
    BY DEF ReadIndentation, In
  <2>2. CASE Byte = " "
    <3>1. Continue(reading, s, [token EXCEPT !.indentation_level = @ + 1])
      BY <1>2, <2>2 DEF ReadIndentation, EOF
    <3>. QED  BY <1>4, <1>5, <2>1, <3>1
  <2>3. CASE Byte = "\n"
    <3>1. Continue(reading, s, [token EXCEPT !.indentation_level = 0])
      BY <1>2, <2>3 DEF ReadIndentation, EOF
    <3>. QED  BY <1>4, <1>5, <2>1, <3>1
  <2>4. CASE Byte = "#"
    <3>1. Continue("consume_rest_of_line", s, token)
      BY <1>2, <2>4 DEF ReadIndentation, EOF
    <3>. QED  BY <1>4, <3>1
  <2>. QED  BY <1>6, <2>2, <2>3, <2>4
<1>7. CASE Byte = EOF
  <2>1. Finish(s, [token EXCEPT !.type = "END_OF_FILE"])
    BY <1>2, <1>7 DEF ReadIndentation, EOF
  <2>2. PICK t : t = [token EXCEPT !.type = "END_OF_FILE"]
    OBVIOUS
  <2>3. t.lineno = token.lineno /\ t.type = "END_OF_FILE" /\ t \in Token
    BY <1>1, <2>2 DEF Token, Round, TokenTypes
  <2>4. tokens # <<>> => Follows(Last(tokens), t)
    BY <1>3, <2>3 DEF Follows, Proper
  <2>. QED  BY <1>1, <1>2, <2>1, <2>2, <2>3, <2>4, FinishLine DEF Round
<1>8. CASE Byte \notin {" ", "\n", "#", EOF}
  <2>1. PICK r : r = unread_byte(s, Byte)
    OBVIOUS
  <2>2. Finish(r, token)
    BY <1>2, <1>8, <2>1 DEF ReadIndentation
  <2>3. StartsToken(NextByte(r)) /\ r.pushback \in Seq(PlainBytes)
    BY <1>1, <1>2, <1>8, <2>1 DEF StartsToken, Round
  <2>4. tokens # <<>> => Follows(Last(tokens), token)
    BY <1>1, <1>3 DEF Follows, Proper
  <2>5. ~ Proper(token)
    BY <1>1 DEF Proper
  <2>. QED  BY <1>1, <2>2, <2>3, <2>4, <2>5, FinishLine DEF Round
<1>. QED  BY <1>6, <1>7, <1>8


LEMMA BackslashIsNoOperator == "\\" \notin operatorChars
BY OperatorsAreBytes DEF operatorChars

LEMMA ReadIdentifierOrNumberLine ==
    ASSUME TokenizeInv, TextInv, LineLaw, "\\" \notin ToSet(file), ReadIdentifierOrNumber
    PROVE  LineLaw'
<1>1. In("read_identifier_or_number")
  BY DEF ReadIdentifierOrNumber
<1>2. Round("read_identifier_or_number") /\ token.lineno = st.lineno
  BY <1>1, PlainRound DEF TextInv, In
<1>3. PICK s : s = read_byte(st)
  OBVIOUS
<1>4. PICK rest : rest = unread_byte(s, Byte)
  OBVIOUS
<1>5. ASSUME NEW type \in {"NAME", "INT"}, Finish(rest, [token EXCEPT !.type = type])
      PROVE  LineLaw'
  <2>1. PICK t : t = [token EXCEPT !.type = type]
    OBVIOUS
  <2>2. t.lineno = token.lineno /\ t.type = type /\ t \in Token
    BY <1>2, <2>1 DEF Token, Round, TokenTypes
  <2>3. tokens # <<>> => Follows(Last(tokens), t)
    BY <1>2, <2>2 DEF Follows, Round, Between
  <2>4. rest.lineno = t.lineno /\ rest.pushback \in Seq(PlainBytes) /\ Proper(t)
    BY <1>2, <1>3, <1>4, <2>2 DEF Round, Proper
  <2>. QED  BY <1>2, <1>5, <2>1, <2>2, <2>3, <2>4, FinishLine DEF Round
<1>6. CASE is_identifier_or_number_byte(Byte)
  <2>1. PICK t : t = [token EXCEPT !.text = Append(@, Byte)]
    OBVIOUS
  <2>2. t.lineno = token.lineno /\ t.type = token.type
    BY <1>2, <2>1 DEF Token, Round
  <2>3. CASE Continue(reading, s, t)
    <3>1. ReadingLaw(reading, s, t)
      BY <1>2, <1>3, <2>2 DEF ReadingLaw, Round
    <3>2. tokens # <<>> => Between(Last(tokens), reading, s, t)
      BY <1>2, <2>2 DEF Between, Round
    <3>3. reading = "read_identifier_or_number"
      BY <1>1 DEF In
    <3>. QED  BY <2>3, <3>1, <3>2, <3>3, ContinueLine
  <2>4. CASE Fail(s, "name is too long", s.lineno)
    BY <2>4, FailLine
  <2>. QED  BY <1>3, <1>6, <2>1, <2>3, <2>4 DEF ReadIdentifierOrNumber
<1>7. CASE ~ is_identifier_or_number_byte(Byte)
  <2>1. \/ Finish(rest, [token EXCEPT !.type = "NAME"])
        \/ Finish(rest, [token EXCEPT !.type = "INT"])
        \/ Fail(rest, "invalid number", token.lineno)
    BY <1>3, <1>4, <1>7 DEF ReadIdentifierOrNumber
  <2>2. CASE Fail(rest, "invalid number", token.lineno)
    BY <2>2, FailLine
  <2>. QED  BY <1>5, <2>1, <2>2
<1>. QED  BY <1>6, <1>7

LEMMA ReadStringLine ==
    ASSUME TokenizeInv, TextInv, LineLaw, "\\" \notin ToSet(file), ReadString
    PROVE  LineLaw'
<1>1. In("read_string")
  BY DEF ReadString
<1>2. Round("read_string") /\ token.type \in {"CHAR", "STRING"}
  BY <1>1, PlainRound DEF TextInv, In
<1>3. token.lineno = st.lineno /\ reading = "read_string"
  BY <1>2 DEF Round, ReadingLaw
<1>4. PICK s : s = read_byte(st)
  OBVIOUS
<1>5. Quote \notin {"\n", EOF, "\\"}
  BY DEF Quote, EOF
<1>6. Byte # "\\"
  BY <1>2 DEF Round, PlainBytes, EOF
<1>7. CASE Byte = Quote
  <2>1. Finish(s, token) \/ Fail(s, "not a single character", s.lineno)
    BY <1>4, <1>5, <1>7 DEF ReadString
  <2>2. CASE Finish(s, token)
    <3>1. s.lineno = token.lineno /\ s.pushback \in Seq(PlainBytes) /\ Proper(token) /\ token \in Token
      BY <1>2, <1>3, <1>4, <1>5, <1>7 DEF Round, Proper
    <3>2. tokens # <<>> => Follows(Last(tokens), token)
      BY <1>2 DEF Follows, Round, Between
    <3>. QED  BY <1>2, <2>2, <3>1, <3>2, FinishLine DEF Round
  <2>3. CASE Fail(s, "not a single character", s.lineno)
    BY <2>3, FailLine
  <2>. QED  BY <2>1, <2>2, <2>3
<1>8. CASE Byte # Quote /\ Byte \notin {"\n", EOF}
  <2>1. PICK t : t = [token EXCEPT !.text = Append(@, Byte)]
    OBVIOUS
  <2>2. Continue(reading, s, t)
    BY <1>4, <1>6, <1>8, <2>1 DEF ReadString
  <2>3. t.lineno = token.lineno /\ t.type = token.type
    BY <1>2, <2>1 DEF Token, Round
  <2>4. ReadingLaw(reading, s, t)
    BY <1>2, <1>3, <1>4, <1>8, <2>3 DEF ReadingLaw, Round
  <2>5. tokens # <<>> => Between(Last(tokens), reading, s, t)
    BY <1>2, <1>3, <2>3 DEF Between, Round
  <2>. QED  BY <1>3, <2>2, <2>4, <2>5, ContinueLine
<1>9. CASE Byte # Quote /\ Byte = "\n"
  <2>1. Fail(s, "missing end quote", s.lineno - 1)
    BY <1>4, <1>9 DEF ReadString, MissingEndQuote, EOF
  <2>. QED  BY <2>1, FailLine
<1>10. CASE Byte # Quote /\ Byte = EOF
  <2>1. Fail(s, "missing end quote", s.lineno)
    BY <1>4, <1>10 DEF ReadString, MissingEndQuote, EOF
  <2>. QED  BY <2>1, FailLine
<1>. QED  BY <1>7, <1>8, <1>9, <1>10

LEMMA ReadOperatorByteLine ==
    ASSUME TokenizeInv, TextInv, LineLaw, "\\" \notin ToSet(file), ReadOperatorByte
    PROVE  LineLaw'
<1>1. In("read_operator") /\ Byte \in operatorChars
  BY DEF ReadOperatorByte
<1>2. Round("read_operator") /\ reading = "read_operator"
  BY <1>1, PlainRound DEF In
<1>3. PICK s : s = read_byte(st)
  OBVIOUS
<1>4. PICK t : t = [token EXCEPT !.text = Append(@, Byte)]
  OBVIOUS
<1>5. t.lineno = token.lineno /\ t.type = token.type
  BY <1>2, <1>4 DEF Token, Round
<1>6. s.lineno = st.lineno /\ s.pushback \in Seq(PlainBytes)
  BY <1>1, <1>2, <1>3, OperatorCharsAreBytes DEF Round
<1>7. ReadingLaw(reading, s, t)
  BY <1>2, <1>5, <1>6 DEF ReadingLaw, Round
<1>8. tokens # <<>> => Between(Last(tokens), reading, s, t)
  BY <1>2, <1>5 DEF Between, Round
<1>9. Continue(reading, s, t)
  BY <1>3, <1>4 DEF ReadOperatorByte
<1>. QED  BY <1>2, <1>7, <1>8, <1>9, ContinueLine

LEMMA ReadOperatorLine ==
    ASSUME TokenizeInv, TextInv, LineLaw, "\\" \notin ToSet(file), ReadOperator
    PROVE  LineLaw'
<1>1. reading = "read_operator" /\ (Len(token.text) # 3 => In("read_operator"))
  BY DEF ReadOperator, OperatorIsFull, In
<1>2. /\ StillReading /\ reading = "read_operator" /\ token.type = "OPERATOR"
      /\ token \in Token /\ st \in ReaderState
      /\ ReadingLaw(reading, st, token)
      /\ tokens # <<>> => Between(Last(tokens), reading, st, token)
  BY <1>1 DEF TokenizeInv, TypeInv, TextInv, LineLaw, StillReading
<1>3. PICK s : s = IF Len(token.text) = 3 THEN st ELSE unread_byte(read_byte(st), Byte)
  OBVIOUS
<1>4. token.lineno = s.lineno /\ s.pushback \in Seq(PlainBytes) /\ s \in ReaderState
  <2>1. CASE Len(token.text) = 3
    BY <1>2, <1>3, <2>1 DEF ReadingLaw
  <2>2. CASE Len(token.text) # 3
    <3>1. Round("read_operator")
      BY <1>1, <2>2, PlainRound
    <3>. QED  BY <1>2, <1>3, <2>2, <3>1 DEF Round, ReadingLaw
  <2>. QED  BY <2>1, <2>2
<1>5. token.text \in Seq(operatorChars) /\ operatorChars \subseteq PlainBytes
  <2>1. token.text \in Seq(operatorChars)
    BY <1>3, OperatorRound
  <2>2. "\\" \notin operatorChars
    BY BackslashIsNoOperator
  <2>. QED  BY <2>1, <2>2, OperatorCharsAreBytes DEF PlainBytes
<1>6. CASE Matching(token.text) = {}
  <2>1. Fail(s, "no such operator", s.lineno)
    BY <1>3, <1>6 DEF ReadOperator
  <2>. QED  BY <2>1, FailLine
<1>7. CASE Matching(token.text) # {}
  <2>1. PICK op : op = operators[First(Matching(token.text))]
    OBVIOUS
  <2>2. PICK unused : unused = SubSeq(token.text, Len(op) + 1, Len(token.text))
    OBVIOUS
  <2>3. op \in Seq(operatorChars) /\ unused \in Seq(operatorChars)
    BY <1>5, <1>7, <2>1, <2>2, TakenOperator
  <2>4. PICK r : r = UnreadAll(s, unused)
    OBVIOUS
  <2>5. r.lineno = s.lineno /\ r.pushback \in Seq(PlainBytes)
    <3>1. unused \in Seq(PlainBytes)
      BY <1>5, <2>3, SeqSubset
    <3>2. Reverse(unused) \in Seq(PlainBytes)
      BY <3>1, ReverseSeq
    <3>3. s.pushback \o Reverse(unused) \in Seq(PlainBytes)
      BY <1>4, <3>2, ConcatSeq
    <3>. QED  BY <1>4, <2>4, <3>3 DEF UnreadAll, ReaderState
  <2>6. PICK t : t = [token EXCEPT !.text = op]
    OBVIOUS
  <2>7. t.lineno = token.lineno /\ t.type = "OPERATOR" /\ t \in Token
    <3>1. op \in Seq(Bytes)
      BY <2>3, OperatorCharsAreBytes, SeqSubset
    <3>. QED  BY <1>2, <2>6, <3>1 DEF Token
  <2>8. tokens # <<>> => Follows(Last(tokens), t)
    BY <1>2, <2>7 DEF Follows, Between
  <2>9. Proper(t)
    BY <2>7 DEF Proper
  <2>10. Finish(r, t) \/ Fail(r, "no such operator", s.lineno)
    BY <1>3, <1>7, <2>1, <2>2, <2>4, <2>6 DEF ReadOperator
  <2>11. CASE Fail(r, "no such operator", s.lineno)
    BY <2>11, FailLine
  <2>. QED  BY <1>2, <1>4, <2>5, <2>7, <2>8, <2>9, <2>10, <2>11, FinishLine
<1>. QED  BY <1>6, <1>7


-----------------------------------------------------------------------------
\* What handle_indentations appends to.
LEMMA LinkedConcat ==
    ASSUME NEW a \in Seq(Token), NEW b \in Seq(Token), Linked(a), Linked(b), a # <<>>,
           b # <<>> => OutputLaw(Last(a), b[1])
    PROVE  /\ a \o b \in Seq(Token) /\ a \o b # <<>> /\ (a \o b)[1] = a[1] /\ Linked(a \o b)
           /\ Last(a \o b) = (IF b = <<>> THEN Last(a) ELSE Last(b))
<1>1. PICK c \in Seq(Token) : c = a \o b
  <2>1. a \o b \in Seq(Token)
    BY ConcatSeq
  <2>. QED  BY <2>1
<1>2. PICK m \in Nat : m = Len(a)
  OBVIOUS
<1>3. PICK n \in Nat : n = Len(b)
  OBVIOUS
<1>4. /\ Len(c) = m + n /\ m >= 1
      /\ \A i \in 1 .. m : c[i] = a[i]
      /\ \A i \in 1 .. n : c[m + i] = b[i]
  BY <1>1, <1>2, <1>3
<1>5. ASSUME NEW i \in 2 .. m + n PROVE OutputLaw(c[i - 1], c[i])
  <2>1. CASE i \in 2 .. m
    <3>1. c[i - 1] = a[i - 1] /\ c[i] = a[i]
      BY <1>4, <2>1
    <3>. QED  BY <1>2, <2>1, <3>1 DEF Linked
  <2>2. CASE i = m + 1
    <3>1. 1 \in 1 .. n /\ m \in 1 .. m
      BY <1>4, <1>5, <2>2
    <3>2. c[m] = a[m] /\ c[m + 1] = b[1] /\ i - 1 = m /\ b # <<>>
      BY <1>3, <1>4, <2>2, <3>1
    <3>3. Last(a) = a[m]
      BY <1>2 DEF Last
    <3>. QED  BY <2>2, <3>2, <3>3
  <2>3. CASE i > m + 1
    <3>1. PICK k \in 2 .. n : i = m + k
      <4>1. i - m \in 2 .. n /\ i = m + (i - m)
        BY <1>5, <2>3
      <4>. QED  BY <4>1
    <3>2. i - 1 = m + (k - 1) /\ k - 1 \in 1 .. n /\ k \in 1 .. n
      BY <3>1
    <3>3. PICK l \in 1 .. n : l = k - 1
      BY <3>2
    <3>4. c[i] = b[k] /\ c[i - 1] = b[k - 1]
      BY <1>4, <3>1, <3>2, <3>3
    <3>. QED  BY <1>3, <3>1, <3>4 DEF Linked
  <2>. QED  BY <1>5, <2>1, <2>2, <2>3
<1>6. Linked(c)
  BY <1>4, <1>5 DEF Linked
<1>7. c # <<>> /\ c[1] = a[1]
  BY <1>4
<1>8. Last(c) = (IF b = <<>> THEN Last(a) ELSE Last(b))
  <2>1. CASE b = <<>>
    BY <1>1, <2>1
  <2>2. CASE b # <<>>
    <3>1. n \in 1 .. n
      BY <1>3, <2>2
    <3>. QED  BY <1>3, <1>4, <2>2, <3>1 DEF Last
  <2>. QED  BY <2>1, <2>2
<1>. QED  BY <1>1, <1>6, <1>7, <1>8

LEMMA SingleLinked ==
    ASSUME NEW t \in Token
    PROVE  <<t>> \in Seq(Token) /\ Linked(<<t>>) /\ Last(<<t>>) = t
BY DEF Linked, Last

LayoutEnd(list) ==
    /\ list \in Seq(Token) /\ list # <<>> /\ Linked(list)
    /\ Last(list).type \in {"NEWLINE", "INDENT", "DEDENT"}

LEMMA LayoutLinked ==
    ASSUME NEW type \in {"INDENT", "DEDENT"}, NEW n \in Int, NEW lineno \in Int,
           NEW a, LayoutEnd(a)
    PROVE  /\ LayoutEnd(a \o LayoutTokens(type, n, lineno))
           /\ (a \o LayoutTokens(type, n, lineno))[1] = a[1]
<1>1. PICK b \in Seq(Token) : b = LayoutTokens(type, n, lineno)
  <2>1. type \in TokenTypes
    BY DEF TokenTypes
  <2>. QED  BY <2>1, LayoutTokensType
<1>2. \A i \in 1 .. Len(b) : b[i].type = type
  <2>1. DOMAIN b = 1 .. n
    BY <1>1 DEF LayoutTokens
  <2>2. \A i \in 1 .. n : b[i].type = type
    BY <1>1 DEF LayoutTokens, NewToken
  <2>. QED  BY <2>1, <2>2
<1>3. \A p, t : p.type \in {"NEWLINE", "INDENT", "DEDENT"} /\ t.type = type => OutputLaw(p, t)
  BY DEF OutputLaw, Proper
<1>4. Linked(b)
  <2>1. ASSUME NEW i \in 2 .. Len(b) PROVE OutputLaw(b[i - 1], b[i])
    <3>1. b[i - 1].type = type /\ b[i].type = type
      BY <1>2, <2>1
    <3>. QED  BY <1>3, <3>1
  <2>. QED  BY <2>1 DEF Linked
<1>5. b # <<>> => b[1].type = type /\ Last(b).type = type
  BY <1>2 DEF Last
<1>6. b # <<>> => OutputLaw(Last(a), b[1])
  BY <1>3, <1>5 DEF LayoutEnd
<1>7. a \in Seq(Token) /\ a # <<>> /\ Linked(a)
  BY DEF LayoutEnd
<1>8. /\ a \o b \in Seq(Token) /\ a \o b # <<>> /\ (a \o b)[1] = a[1] /\ Linked(a \o b)
      /\ Last(a \o b) = (IF b = <<>> THEN Last(a) ELSE Last(b))
  BY <1>4, <1>6, <1>7, LinkedConcat
<1>. QED  BY <1>1, <1>5, <1>8 DEF LayoutEnd

\* What the two tokens at the front of the list have to do with each other.
LEMMA NextTokens ==
    ASSUME TokenizeInv, LineLaw, tokens # <<>>
    PROVE  /\ \A i \in 2 .. Len(Tail(tokens)) : Follows(Tail(tokens)[i - 1], Tail(tokens)[i])
           /\ Tail(tokens) # <<>> => Follows(NextToken, Tail(tokens)[1])
<1>1. tokens \in Seq(Token)
  BY DEF TokenizeInv, TypeInv
<1>2. PICK n \in Nat : Len(tokens) = n + 1
  <2>1. Len(tokens) - 1 \in Nat /\ Len(tokens) = (Len(tokens) - 1) + 1
    BY <1>1
  <2>. QED  BY <2>1
<1>3. Len(Tail(tokens)) = n /\ \A i \in 1 .. n : Tail(tokens)[i] = tokens[i + 1]
  BY <1>1, <1>2
<1>4. ASSUME NEW i \in 2 .. n PROVE Follows(Tail(tokens)[i - 1], Tail(tokens)[i])
  <2>1. i - 1 \in 1 .. n /\ i \in 1 .. n /\ i + 1 \in 2 .. n + 1 /\ i - 1 + 1 = i /\ i + 1 - 1 = i
    BY <1>4
  <2>2. Tail(tokens)[i - 1] = tokens[i] /\ Tail(tokens)[i] = tokens[i + 1]
    BY <1>3, <2>1
  <2>3. Follows(tokens[i + 1 - 1], tokens[i + 1])
    BY <1>2, <2>1 DEF LineLaw
  <2>. QED  BY <2>1, <2>2, <2>3
<1>5. ASSUME Tail(tokens) # <<>> PROVE Follows(NextToken, Tail(tokens)[1])
  <2>1. 1 \in 1 .. n /\ 2 \in 2 .. n + 1
    BY <1>1, <1>2, <1>3, <1>5
  <2>2. Tail(tokens)[1] = tokens[2]
    BY <1>3, <2>1
  <2>3. Follows(tokens[1], tokens[2])
    BY <1>2, <2>1 DEF LineLaw
  <2>. QED  BY <2>2, <2>3 DEF NextToken
<1>. QED  BY <1>3, <1>4, <1>5

LEMMA CopyTokenLine ==
    ASSUME TokenizeInv, LineLaw, CopyToken
    PROVE  LineLaw'
<1>1. InIndentations({"INT", "CHAR", "STRING", "NAME", "OPERATOR"})
  BY DEF CopyToken
<1>2. /\ reading = "handle_indentations" /\ tokens # <<>> /\ NextToken \in Token
      /\ Proper(NextToken) /\ output \in Seq(Token) /\ output # <<>>
  BY <1>1, Indenting DEF Proper
<1>3. Linked(output) /\ OutputLaw(Last(output), NextToken)
  BY <1>2 DEF LineLaw, Follows, OutputLaw, NextToken, Proper
<1>4. PICK b \in Seq(Token) : b = <<NextToken>> /\ Linked(b) /\ b[1] = NextToken /\ Last(b) = NextToken
  BY <1>2, SingleLinked
<1>5. Linked(output \o b) /\ Last(output \o b) = NextToken
  BY <1>2, <1>3, <1>4, LinkedConcat
<1>6. output' = output \o b
  BY <1>2, <1>4 DEF CopyToken
<1>7. tokens' = Tail(tokens) /\ reading' = "handle_indentations"
  BY <1>2 DEF CopyToken
<1>8. /\ \A i \in 2 .. Len(tokens') : Follows(tokens'[i - 1], tokens'[i])
      /\ tokens' # <<>> => Follows(NextToken, tokens'[1])
  BY <1>2, <1>7, NextTokens
<1>. QED  BY <1>5, <1>6, <1>7, <1>8 DEF LineLaw, LinesEndInNewline, StillReading, Linked

LEMMA HandleNewlineLine ==
    ASSUME TokenizeInv, LineLaw, HandleNewline
    PROVE  LineLaw'
<1>1. PICK new : new = NextToken.indentation_level
  OBVIOUS
<1>2. PICK lineno : lineno = NextToken.lineno + 1
  OBVIOUS
<1>3. InIndentations({"NEWLINE"})
  BY DEF HandleNewline
<1>4. /\ reading = "handle_indentations" /\ tokens # <<>> /\ NextToken \in Token
      /\ NextToken.type = "NEWLINE" /\ output \in Seq(Token)
  BY <1>3, Indenting
<1>5. CASE new % 4 # 0
  <2>1. Fail(st, "indentation must be a multiple of 4 spaces", lineno)
    BY <1>1, <1>2, <1>5 DEF HandleNewline
  <2>. QED  BY <2>1, FailLine
<1>6. CASE ~ (new % 4 # 0)
  <2>1. /\ output' = output \o <<NextToken>> \o LayoutTokens("INDENT", (new - level) \div 4, lineno)
                            \o LayoutTokens("DEDENT", (level - new) \div 4, lineno)
        /\ tokens' = Tail(tokens) /\ reading' = "handle_indentations"
    BY <1>1, <1>2, <1>4, <1>6 DEF HandleNewline
  <2>2. new \in Nat /\ lineno \in Int /\ level \in Nat
    BY <1>1, <1>2, <1>4 DEF Token, TokenizeInv, TypeInv
  <2>3. (new - level) \div 4 \in Int /\ (level - new) \div 4 \in Int
    BY <2>2
  <2>4. PICK b \in Seq(Token) : b = <<NextToken>> /\ Linked(b) /\ b[1] = NextToken /\ Last(b) = NextToken
    BY <1>4, SingleLinked
  <2>5. LayoutEnd(output \o b)
    <3>1. CASE output = <<>>
      <4>1. output \o b = b /\ b # <<>>
        BY <2>4, <3>1
      <4>2. LayoutEnd(b)
        BY <1>4, <2>4, <4>1 DEF LayoutEnd
      <4>. QED  BY <4>1, <4>2
    <3>2. CASE output # <<>>
      <4>1. Linked(output) /\ OutputLaw(Last(output), NextToken)
        BY <1>4, <3>2 DEF LineLaw, Follows, OutputLaw, NextToken, Proper
      <4>2. /\ Linked(output \o b) /\ Last(output \o b) = (IF b = <<>> THEN Last(output) ELSE Last(b))
            /\ output \o b \in Seq(Token) /\ output \o b # <<>>
        BY <1>4, <2>4, <3>2, <4>1, LinkedConcat
      <4>. QED  BY <1>4, <2>4, <4>2 DEF LayoutEnd
    <3>. QED  BY <3>1, <3>2
  <2>6. PICK a : a = output \o b \o LayoutTokens("INDENT", (new - level) \div 4, lineno)
    OBVIOUS
  <2>7. LayoutEnd(a)
    BY <2>2, <2>3, <2>5, <2>6, LayoutLinked
  <2>8. LayoutEnd(a \o LayoutTokens("DEDENT", (level - new) \div 4, lineno))
    BY <2>2, <2>3, <2>7, LayoutLinked
  <2>9. LayoutEnd(output')
    BY <2>1, <2>4, <2>6, <2>8
  <2>10. /\ \A i \in 2 .. Len(tokens') : Follows(tokens'[i - 1], tokens'[i])
         /\ tokens' # <<>> => Follows(NextToken, tokens'[1])
    BY <1>4, <2>1, NextTokens
  <2>11. tokens' # <<>> => Follows(Last(output'), tokens'[1])
    BY <1>4, <2>9, <2>10 DEF LayoutEnd, Follows, Proper
  <2>12. Linked(output')
    BY <2>9 DEF LayoutEnd
  <2>. QED  BY <2>1, <2>10, <2>11, <2>12 DEF LineLaw, LinesEndInNewline, StillReading, Linked
<1>. QED  BY <1>5, <1>6


\* The first element, the fake newline, is taken off.
LEMMA LinesOfTail ==
    ASSUME NEW list \in Seq(Token), list # <<>>, Linked(list), list[1].type = "NEWLINE",
           output' = Tail(list)
    PROVE  LinesEndInNewline'
<1>1. PICK n \in Nat : Len(list) = n + 1
  <2>1. Len(list) - 1 \in Nat /\ Len(list) = (Len(list) - 1) + 1
    OBVIOUS
  <2>. QED  BY <2>1
<1>2. DOMAIN output' = 1 .. n /\ \A i \in 1 .. n : output'[i] = list[i + 1]
  BY <1>1
<1>. SUFFICES ASSUME NEW i \in 1 .. n
     PROVE  LET before == IF i = 1 THEN "NEWLINE" ELSE output'[i - 1].type
            IN  CASE output'[i].type = "NEWLINE" ->
                        i > 1 /\ Proper(output'[i - 1]) /\ output'[i].lineno = output'[i - 1].lineno
                  [] Proper(output'[i]) ->
                        /\ before # "END_OF_FILE"
                        /\ i > 1 /\ Proper(output'[i - 1]) => output'[i].lineno = output'[i - 1].lineno
                  [] OTHER -> before \in {"NEWLINE", "INDENT", "DEDENT"}
  BY <1>2 DEF LinesEndInNewline, Proper
<1>3. PICK p : p = list[i]
  OBVIOUS
<1>4. PICK t : t = list[i + 1]
  OBVIOUS
<1>5. OutputLaw(p, t) /\ output'[i] = t
  <2>1. i + 1 \in 2 .. Len(list) /\ i + 1 - 1 = i
    BY <1>1
  <2>2. OutputLaw(list[i + 1 - 1], list[i + 1])
    BY <2>1 DEF Linked
  <2>. QED  BY <1>2, <1>3, <1>4, <2>1, <2>2
<1>6. CASE i = 1
  <2>1. p.type = "NEWLINE"
    BY <1>3, <1>6
  <2>2. output'[i].type # "NEWLINE" /\ ~ (i > 1)
    <3>1. ~ (i > 1)
      BY <1>6
    <3>2. t.type # "NEWLINE"
      BY <1>5, <2>1 DEF OutputLaw, Proper
    <3>. QED  BY <1>5, <3>1, <3>2
  <2>. QED  BY <1>6, <2>2
<1>7. CASE i # 1
  <2>1. output'[i - 1] = p /\ i > 1
    <3>1. i - 1 \in 1 .. n /\ i - 1 + 1 = i /\ i > 1
      BY <1>7
    <3>2. output'[i - 1] = list[i - 1 + 1]
      BY <1>2, <3>1
    <3>. QED  BY <1>3, <3>1, <3>2
  <2>. QED  BY <1>5, <1>7, <2>1 DEF OutputLaw, Proper
<1>. QED  BY <1>6, <1>7

LEMMA HandleEndOfFileLine ==
    ASSUME TokenizeInv, LineLaw, HandleEndOfFile
    PROVE  LineLaw'
<1>1. InIndentations({"END_OF_FILE"})
  BY DEF HandleEndOfFile
<1>2. /\ reading = "handle_indentations" /\ tokens # <<>> /\ NextToken \in Token
      /\ NextToken.type = "END_OF_FILE" /\ output \in Seq(Token)
      /\ output # <<>> => output[1].type = "NEWLINE"
  BY <1>1, Indenting
<1>3. PICK lineno \in Int : lineno = NextToken.lineno
  BY <1>2 DEF Token
<1>4. PICK t : t = [NewToken(lineno) EXCEPT !.type = "NEWLINE"]
  OBVIOUS
<1>5. t \in Token /\ t.type = "NEWLINE" /\ t.lineno = lineno
  <2>1. t.type = "NEWLINE" /\ t.lineno = lineno
    BY <1>4 DEF NewToken
  <2>2. t \in Token
    BY <1>4, NewTokenType, TokenUpdates DEF TokenTypes
  <2>. QED  BY <2>1, <2>2
<1>6. PICK b \in Seq(Token) : b = <<t>> /\ Linked(b) /\ b[1] = t /\ Last(b) = t
  BY <1>5, SingleLinked
<1>7. LayoutTokens("NEWLINE", 1, lineno) = b
  <2>1. LayoutTokens("NEWLINE", 1, lineno) = [i \in 1 .. 1 |-> t]
    BY <1>4 DEF LayoutTokens
  <2>2. [i \in 1 .. 1 |-> t] = <<t>>
    OBVIOUS
  <2>. QED  BY <1>6, <2>1, <2>2
<1>8. PICK a : a = output \o b
  OBVIOUS
<1>9. LayoutEnd(a) /\ a[1].type = "NEWLINE"
  <2>1. CASE output = <<>>
    <3>1. a = b /\ b # <<>>
      BY <1>6, <1>8, <2>1
    <3>. QED  BY <1>5, <1>6, <3>1 DEF LayoutEnd
  <2>2. CASE output # <<>>
    <3>1. Linked(output) /\ OutputLaw(Last(output), t)
      BY <1>2, <1>3, <1>5, <2>2 DEF LineLaw, Follows, OutputLaw, NextToken, Proper
    <3>2. /\ a \in Seq(Token) /\ a # <<>> /\ a[1] = output[1] /\ Linked(a)
          /\ Last(a) = (IF b = <<>> THEN Last(output) ELSE Last(b))
      BY <1>2, <1>6, <1>8, <2>2, <3>1, LinkedConcat
    <3>3. Last(a) = t
      BY <1>6, <3>2
    <3>. QED  BY <1>2, <1>5, <2>2, <3>2, <3>3 DEF LayoutEnd
  <2>. QED  BY <2>1, <2>2
<1>10. PICK d : d = a \o LayoutTokens("DEDENT", level \div 4, lineno)
  OBVIOUS
<1>11. LayoutEnd(d) /\ d[1].type = "NEWLINE"
  <2>1. level \div 4 \in Int
    BY DEF TokenizeInv, TypeInv
  <2>2. LayoutEnd(d) /\ d[1] = a[1]
    BY <1>9, <1>10, <2>1, LayoutLinked
  <2>. QED  BY <1>9, <2>2
<1>12. PICK e \in Seq(Token) : e = <<NextToken>> /\ Linked(e) /\ e[1] = NextToken
  BY <1>2, SingleLinked
<1>13. PICK closed : closed = d \o e
  OBVIOUS
<1>14. closed \in Seq(Token) /\ closed # <<>> /\ closed[1].type = "NEWLINE" /\ Linked(closed)
  <2>1. OutputLaw(Last(d), e[1])
    BY <1>2, <1>11, <1>12 DEF LayoutEnd, OutputLaw, Proper
  <2>2. d \in Seq(Token) /\ d # <<>> /\ Linked(d)
    BY <1>11 DEF LayoutEnd
  <2>3. closed \in Seq(Token) /\ closed # <<>> /\ closed[1] = d[1] /\ Linked(closed)
    BY <1>12, <1>13, <2>1, <2>2, LinkedConcat
  <2>. QED  BY <1>11, <2>3
<1>15. output' = Tail(closed)
  BY <1>3, <1>7, <1>8, <1>10, <1>12, <1>13 DEF HandleEndOfFile
<1>16. LinesEndInNewline'
  BY <1>14, <1>15, LinesOfTail
<1>17. tokens' = <<>> /\ reading' = "done"
  BY DEF HandleEndOfFile
<1>. QED  BY <1>16, <1>17 DEF LineLaw, StillReading

LEMMA StepLineInv == TokenizeInv /\ TextInv /\ LineInv /\ [Next]_vars => LineInv'
<1>. SUFFICES ASSUME TokenizeInv, TextInv, LineInv, [Next]_vars, "\\" \notin ToSet(file)'
     PROVE  LineLaw'
  BY DEF LineInv
<1>1. UNCHANGED file
  BY DEF Next, Step, Stopped, vars, ReadBadByte, ReadToken, ConsumeRestOfLine, ReadIndentation,
         ReadIdentifierOrNumber, ReadString, ReadAfterBackslash, ReadOperatorByte, ReadOperator,
         CopyToken, HandleNewline, HandleEndOfFile, Continue, Finish, Fail, MissingEndQuote
<1>2. "\\" \notin ToSet(file) /\ LineLaw
  BY <1>1 DEF LineInv
<1>3. CASE UNCHANGED vars
  BY <1>2, <1>3 DEF vars, LineLaw, LinesEndInNewline, StillReading, Between, ReadingLaw,
                    NextByte, FromFile, PlainBytes
<1>4. CASE ReadBadByte
  BY <1>2, <1>4, FailLine DEF ReadBadByte
<1>5. CASE ReadAfterBackslash
  BY <1>2, <1>5 DEF ReadAfterBackslash, In, LineLaw, ReadingLaw, StillReading
<1>. QED  BY <1>2, <1>3, <1>4, <1>5, ReadTokenLine, ConsumeRestOfLineLine, ReadIndentationLine,
             ReadIdentifierOrNumberLine, ReadStringLine, ReadOperatorByteLine, ReadOperatorLine,
             CopyTokenLine, HandleNewlineLine, HandleEndOfFileLine
          DEF Next, Step, Stopped

\* In every file without backslashes each line that has a token ends in a
\* newline token, the last one too; changes of depth come behind it, and all
\* tokens in between have the same line number.
THEOREM EveryLineEnds == Spec => []LinesEndInNewline
<1>1. Spec => []LineInv
  BY TextInvariant, InitLineInv, StepLineInv, PTL DEF Spec
<1>2. LineInv => LinesEndInNewline
  BY DEF LineInv, LineLaw, LinesEndInNewline
<1>. QED  BY <1>1, <1>2, PTL
-----------------------------------------------------------------------------
\* Where a line of a text begins and how far it is indented: the operators of
\* TokenizeText for any text.
NewLinesUpto(text, i) == {j \in 1 .. i : text[j] = "\n"}
StartOf(text, n) ==
    CHOOSE i \in DOMAIN text :
        text[i] = "\n" /\ CountNewLines(SubSeq(text, 1, i)) = n
Indents(text, start, k) ==
    /\ \A i \in 1 .. k : text[start + i] = " "
    /\ start + k < Len(text) => text[start + k + 1] # " "
SpacesOf(text, n) ==
    CHOOSE k \in 0 .. Len(text) - StartOf(text, n) : Indents(text, StartOf(text, n), k)
Shows(text, n) ==
    LET first == StartOf(text, n) + SpacesOf(text, n) + 1
    IN  first <= Len(text) /\ text[first] \notin {"\n", "#"}

LEMMA LinesOfSource ==
    ASSUME NEW n
    PROVE  Indentation(n) = SpacesOf(Source, n) /\ Significant(n) = Shows(Source, n)
<1>1. LineStart(n) = StartOf(Source, n)
  BY DEF LineStart, StartOf
<1>2. Indentation(n) = SpacesOf(Source, n)
  BY <1>1 DEF Indentation, SpacesOf, Indents
<1>. QED  BY <1>1, <1>2 DEF Significant, Shows

LEMMA CountUpto ==
    ASSUME NEW text \in Seq(Bytes), NEW i \in 0 .. Len(text)
    PROVE  /\ CountNewLines(SubSeq(text, 1, i)) = Cardinality(NewLinesUpto(text, i))
           /\ IsFiniteSet(NewLinesUpto(text, i))
<1>1. DOMAIN SubSeq(text, 1, i) = 1 .. i /\ \A j \in 1 .. i : SubSeq(text, 1, i)[j] = text[j]
  OBVIOUS
<1>2. {j \in DOMAIN SubSeq(text, 1, i) : SubSeq(text, 1, i)[j] = "\n"} = NewLinesUpto(text, i)
  BY <1>1 DEF NewLinesUpto
<1>3. IsFiniteSet(1 .. i)
  BY FS_Interval
<1>4. NewLinesUpto(text, i) \in SUBSET (1 .. i)
  BY DEF NewLinesUpto
<1>5. IsFiniteSet(NewLinesUpto(text, i))
  BY <1>3, <1>4, FS_Subset
<1>. QED  BY <1>2, <1>5 DEF CountNewLines

\* No two newlines start the same line.
LEMMA StartIs ==
    ASSUME NEW text \in Seq(Bytes), NEW i \in 1 .. Len(text), text[i] = "\n"
    PROVE  StartOf(text, CountNewLines(SubSeq(text, 1, i))) = i
<1>1. ASSUME NEW a \in 1 .. Len(text), NEW b \in 1 .. Len(text), a < b, text[b] = "\n",
             CountNewLines(SubSeq(text, 1, a)) = CountNewLines(SubSeq(text, 1, b))
      PROVE  FALSE
  <2>1. Cardinality(NewLinesUpto(text, a)) = Cardinality(NewLinesUpto(text, b))
        /\ IsFiniteSet(NewLinesUpto(text, b))
    BY <1>1, CountUpto
  <2>2. NewLinesUpto(text, a) \in SUBSET NewLinesUpto(text, b)
    BY <1>1 DEF NewLinesUpto
  <2>3. NewLinesUpto(text, a) = NewLinesUpto(text, b)
    BY <2>1, <2>2, FS_Subset
  <2>4. b \in NewLinesUpto(text, b) /\ b \notin NewLinesUpto(text, a)
    BY <1>1 DEF NewLinesUpto
  <2>. QED  BY <2>3, <2>4
<1>2. PICK n : n = CountNewLines(SubSeq(text, 1, i))
  OBVIOUS
<1>3. ASSUME NEW j \in DOMAIN text, text[j] = "\n", CountNewLines(SubSeq(text, 1, j)) = n
      PROVE  j = i
  <2>1. j \in 1 .. Len(text)
    BY <1>3
  <2>2. j < i \/ i < j \/ i = j
    BY <2>1
  <2>3. CASE j < i
    BY <1>1, <1>2, <1>3, <2>1, <2>3
  <2>4. CASE i < j
    BY <1>1, <1>2, <1>3, <2>1, <2>4
  <2>. QED  BY <2>2, <2>3, <2>4
<1>4. i \in DOMAIN text
  OBVIOUS
<1>. QED  BY <1>2, <1>3, <1>4 DEF StartOf

\* A text that has been read up to the k-th space of a line.
Spaced(p, k) ==
    /\ k \in Nat /\ Len(p) > k /\ p[Len(p) - k] = "\n"
    /\ \A i \in Len(p) - k + 1 .. Len(p) : p[i] = " "

\* Only one number of spaces is right.
LEMMA IndentsOnce ==
    ASSUME NEW text \in Seq(Bytes), NEW l \in Nat, NEW x \in Nat, NEW y \in Nat,
           x < y, l + y <= Len(text), Indents(text, l, x), Indents(text, l, y)
    PROVE  FALSE
<1>1. PICK i \in 1 .. y : i = x + 1
  <2>1. x + 1 \in 1 .. y
    OBVIOUS
  <2>. QED  BY <2>1
<1>2. text[l + i] = " "
  BY DEF Indents
<1>3. l + i = l + x + 1 /\ l + x < Len(text)
  BY <1>1
<1>. QED  BY <1>2, <1>3 DEF Indents

LEMMA SpacesAre ==
    ASSUME NEW text \in Seq(Bytes), NEW n, NEW l \in Nat, StartOf(text, n) = l,
           NEW k \in Nat, l + k <= Len(text), Indents(text, l, k)
    PROVE  SpacesOf(text, n) = k
<1>1. k \in 0 .. Len(text) - l
  OBVIOUS
<1>2. PICK x \in 0 .. Len(text) - l : x = SpacesOf(text, n) /\ Indents(text, l, x)
  BY <1>1 DEF SpacesOf
<1>3. x \in Nat /\ l + x <= Len(text)
  OBVIOUS
<1>4. CASE x < k
  BY <1>2, <1>3, <1>4, IndentsOnce
<1>5. CASE k < x
  BY <1>2, <1>3, <1>5, IndentsOnce
<1>6. x < k \/ k < x \/ x = k
  BY <1>3
<1>. QED  BY <1>2, <1>4, <1>5, <1>6

\* No space follows.
GoesOn(r) == r # <<>> => r[1] # " "

\* The line that a text read up to its first other byte ends in.
LEMMA LineOfSpaced ==
    ASSUME NEW p \in Seq(Bytes), NEW r \in Seq(Bytes), NEW k \in Nat, Spaced(p, k),
           GoesOn(r)
    PROVE  /\ SpacesOf(p \o r, CountNewLines(p)) = k
           /\ Shows(p \o r, CountNewLines(p)) <=> r # <<>> /\ r[1] \notin {"\n", "#"}
           /\ CountNewLines(p) >= 1
<1>1. PICK text \in Seq(Bytes) : text = p \o r
  <2>1. p \o r \in Seq(Bytes)
    BY ConcatSeq
  <2>. QED  BY <2>1
<1>2. PICK m \in Nat : m = Len(p)
  OBVIOUS
<1>3. PICK size \in Nat : size = Len(text)
  OBVIOUS
<1>4. size >= m /\ (size > m <=> r # <<>>)
  BY <1>1, <1>2, <1>3
<1>5. \A i \in 1 .. m : text[i] = p[i]
  BY <1>1, <1>2
<1>6. r # <<>> => text[m + 1] = r[1]
  BY <1>1, <1>2
<1>7. PICK l \in 1 .. m : m = l + k
  <2>1. m > k
    BY <1>2 DEF Spaced
  <2>2. m - k \in 1 .. m /\ m = (m - k) + k
    BY <2>1
  <2>. QED  BY <2>2
<1>8. p[l] = "\n" /\ \A i \in l + 1 .. m : p[i] = " "
  <2>1. m - k = l
    BY <1>7
  <2>. QED  BY <1>2, <2>1 DEF Spaced
<1>9. l \in 1 .. size /\ l \in 0 .. size /\ l \in Nat
  BY <1>4
<1>10. l + k = m /\ l + k <= size
  BY <1>4, <1>7
<1>11. text[l] = "\n"
  BY <1>5, <1>8
<1>12. NewLinesUpto(text, l) = {j \in DOMAIN p : p[j] = "\n"}
  <2>1. DOMAIN p = 1 .. m
    BY <1>2
  <2>2. \A j \in 1 .. m : j \notin 1 .. l => j \in l + 1 .. m
    OBVIOUS
  <2>3. \A j \in 1 .. m : j \notin 1 .. l => p[j] # "\n"
    BY <1>8, <2>2
  <2>4. \A j \in 1 .. l : j \in 1 .. m
    OBVIOUS
  <2>5. \A j \in 1 .. l : text[j] = p[j]
    BY <1>5, <2>4
  <2>. QED  BY <2>1, <2>3, <2>4, <2>5 DEF NewLinesUpto
<1>13. CountNewLines(p) = CountNewLines(SubSeq(text, 1, l))
  BY <1>3, <1>9, <1>12, CountUpto DEF CountNewLines
<1>14. StartOf(text, CountNewLines(p)) = l
  BY <1>3, <1>9, <1>11, <1>13, StartIs
<1>15. Indents(text, l, k)
  <2>1. \A i \in 1 .. k : l + i \in l + 1 .. m /\ l + i \in 1 .. m
    BY <1>10
  <2>2. \A i \in 1 .. k : text[l + i] = " "
    BY <1>5, <1>8, <2>1
  <2>3. l + k < size => text[m + 1] # " "
    BY <1>4, <1>6, <1>10 DEF GoesOn
  <2>. QED  BY <1>3, <1>10, <2>2, <2>3 DEF Indents
<1>16. SpacesOf(text, CountNewLines(p)) = k
  BY <1>3, <1>9, <1>10, <1>14, <1>15, SpacesAre
<1>17. Shows(text, CountNewLines(p)) <=> m + 1 <= size /\ text[m + 1] \notin {"\n", "#"}
  BY <1>3, <1>10, <1>14, <1>16 DEF Shows
<1>18. Shows(text, CountNewLines(p)) <=> r # <<>> /\ r[1] \notin {"\n", "#"}
  <2>1. m + 1 <= size <=> size > m
    OBVIOUS
  <2>. QED  BY <1>4, <1>6, <1>17, <2>1
<1>19. CountNewLines(p) >= 1
  <2>1. l \in DOMAIN p
    BY <1>2
  <2>2. {j \in DOMAIN p : p[j] = "\n"} # {}
    BY <1>8, <2>1
  <2>3. CountNewLines(p) # 0 /\ CountNewLines(p) \in Nat
    BY <2>2, CountNewLinesType, FS_EmptySet DEF CountNewLines
  <2>4. PICK n \in Nat : n = CountNewLines(p)
    BY <2>3
  <2>. QED  BY <2>3, <2>4
<1>. QED  BY <1>1, <1>16, <1>18, <1>19

LEMMA EndOfSeq ==
    ASSUME NEW S, NEW s \in Seq(S), NEW c \in S
    PROVE  /\ Len(Append(s, c)) = Len(s) + 1 /\ Append(s, c)[Len(s) + 1] = c
           /\ \A i \in 1 .. Len(s) : Append(s, c)[i] = s[i]
OBVIOUS

LEMMA FirstOfSeq ==
    ASSUME NEW S, NEW s \in Seq(S), NEW c \in S
    PROVE  <<c>> \o s # <<>> /\ (<<c>> \o s)[1] = c
OBVIOUS

LEMMA SpacedGrows ==
    ASSUME NEW p \in Seq(Bytes), NEW k \in Nat, Spaced(p, k)
    PROVE  Spaced(Append(p, " "), k + 1)
<1>1. PICK m \in Nat : m = Len(p)
  OBVIOUS
<1>2. PICK q \in Seq(Bytes) : q = Append(p, " ")
  <2>1. " " \in Bytes
    BY SpecialBytes
  <2>. QED  BY <2>1, AppendSeq
<1>3. Len(q) = m + 1 /\ q[m + 1] = " " /\ \A i \in 1 .. m : q[i] = p[i]
  <2>1. PICK c \in Bytes : c = " "
    BY SpecialBytes
  <2>2. /\ Len(Append(p, c)) = Len(p) + 1 /\ Append(p, c)[Len(p) + 1] = c
        /\ \A i \in 1 .. Len(p) : Append(p, c)[i] = p[i]
    BY EndOfSeq
  <2>. QED  BY <1>1, <1>2, <2>1, <2>2
<1>4. \A i \in 1 .. m : q[i] = p[i]
  BY <1>3
<1>5. m > k
  BY <1>1 DEF Spaced
<1>6. p[m - k] = "\n" /\ \A i \in m - k + 1 .. m : p[i] = " "
  BY <1>1 DEF Spaced
<1>7. m - k \in 1 .. m /\ (m + 1) - (k + 1) = m - k
  BY <1>5
<1>8. q[(m + 1) - (k + 1)] = "\n"
  BY <1>4, <1>6, <1>7
<1>9. ASSUME NEW i \in (m + 1) - (k + 1) + 1 .. m + 1 PROVE q[i] = " "
  <2>1. i = m + 1 \/ i \in m - k + 1 .. m
    BY <1>7
  <2>2. \A j \in m - k + 1 .. m : j \in 1 .. m
    BY <1>5
  <2>. QED  BY <1>3, <1>4, <1>6, <2>1, <2>2
<1>10. k + 1 \in Nat /\ m + 1 > k + 1
  BY <1>5
<1>. QED  BY <1>2, <1>3, <1>8, <1>9, <1>10 DEF Spaced

LEMMA SpacedStarts ==
    ASSUME NEW p \in Seq(Bytes)
    PROVE  Spaced(Append(p, "\n"), 0)
<1>1. PICK n \in Nat : n = Len(p) + 1
  OBVIOUS
<1>2. Len(Append(p, "\n")) = n /\ Append(p, "\n")[n] = "\n" /\ n > 0 /\ n - 0 = n
  BY <1>1
<1>3. n - 0 + 1 .. n = {}
  BY <1>1
<1>. QED  BY <1>2, <1>3 DEF Spaced

\* What the next byte says of the line whose spaces have been read.
LEMMA LineAtByte ==
    ASSUME TypeInv, OnLine(st), Byte # Bad, Byte # " ", NEW k \in Nat, Spaced(ReadBy(st), k)
    PROVE  /\ SpacesOf(Source, st.lineno) = k
           /\ Shows(Source, st.lineno) <=> Byte \notin {"\n", "#", EOF}
           /\ st.lineno >= 1
<1>1. PICK p \in Seq(Bytes) : p = ReadBy(st)
  BY DEF OnLine, InText
<1>2. PICK r \in Seq(Bytes) : r = Rest(st)
  BY RestType DEF OnLine, InText
<1>3. Source = p \o r /\ st.lineno = CountNewLines(p)
  BY <1>1, <1>2 DEF OnLine, InText
<1>4. IF Byte = EOF THEN r = <<>> ELSE r # <<>> /\ r[1] = Byte
  <2>1. CASE Byte = EOF
    BY <1>2, <2>1, ReadByteTakesFirst
  <2>2. CASE Byte # EOF
    <3>1. /\ Rest(st) = <<Byte>> \o Rest(read_byte(st)) /\ Byte \in Bytes
          /\ InText(read_byte(st))
      BY <2>2, ReadsOn DEF OnLine
    <3>2. PICK t \in Seq(Bytes) : t = Rest(read_byte(st))
      BY <3>1, RestType DEF InText
    <3>3. PICK c \in Bytes : c = Byte
      BY <3>1
    <3>4. <<c>> \o t # <<>> /\ (<<c>> \o t)[1] = c
      BY FirstOfSeq
    <3>. QED  BY <1>2, <2>2, <3>1, <3>2, <3>3, <3>4
  <2>. QED  BY <2>1, <2>2
<1>5. GoesOn(r)
  BY <1>4 DEF GoesOn
<1>6. /\ SpacesOf(p \o r, CountNewLines(p)) = k
      /\ Shows(p \o r, CountNewLines(p)) <=> r # <<>> /\ r[1] \notin {"\n", "#"}
      /\ CountNewLines(p) >= 1
  BY <1>1, <1>5, LineOfSpaced
<1>. QED  BY <1>3, <1>4, <1>6

-----------------------------------------------------------------------------
\* The lines that tokens are on, and those of a text that should have some.
LinesOf(list) == {n \in Int : \E i \in 1 .. Len(list) : Proper(list[i]) /\ n = list[i].lineno}
LineOf(t) == IF Proper(t) THEN {t.lineno} ELSE {}
Shown(text, n) == {m \in 1 .. n : Shows(text, m)}

LEMMA ShownGrows ==
    ASSUME NEW text, NEW n \in Nat
    PROVE  /\ Shows(text, n) /\ n >= 1 => Shown(text, n) = Shown(text, n - 1) \cup {n}
           /\ ~Shows(text, n) => Shown(text, n) = Shown(text, n - 1)
<1>1. CASE n = 0
  BY <1>1 DEF Shown
<1>2. CASE n >= 1
  <2>1. 1 .. n = (1 .. n - 1) \cup {n}
    BY <1>2
  <2>. QED  BY <2>1 DEF Shown
<1>3. n = 0 \/ n >= 1
  OBVIOUS
<1>. QED  BY <1>1, <1>2, <1>3

LEMMA LinesOfAppend ==
    ASSUME NEW list \in Seq(Token), NEW t \in Token
    PROVE  LinesOf(Append(list, t)) = LinesOf(list) \cup LineOf(t)
<1>1. PICK n \in Nat : n = Len(list)
  OBVIOUS
<1>2. /\ Len(Append(list, t)) = n + 1 /\ Append(list, t)[n + 1] = t
      /\ \A i \in 1 .. n : Append(list, t)[i] = list[i]
  BY <1>1
<1>3. 1 .. n + 1 = (1 .. n) \cup {n + 1}
  OBVIOUS
<1>4. t.lineno \in Int
  BY DEF Token
<1>. QED  BY <1>1, <1>2, <1>3, <1>4 DEF LinesOf, LineOf

LEMMA LinesOfEmpty == LinesOf(<<>>) = {}
<1>1. Len(<<>>) = 0 /\ 1 .. 0 = {}
  OBVIOUS
<1>. QED  BY <1>1 DEF LinesOf

LEMMA LinesOfFirst ==
    ASSUME NEW list \in Seq(Token), list # <<>>
    PROVE  LinesOf(list) = LineOf(list[1]) \cup LinesOf(Tail(list))
<1>1. PICK n \in Nat : Len(list) = n + 1
  <2>1. Len(list) - 1 \in Nat /\ Len(list) = (Len(list) - 1) + 1
    OBVIOUS
  <2>. QED  BY <2>1
<1>2. Len(Tail(list)) = n /\ \A i \in 1 .. n : Tail(list)[i] = list[i + 1]
  BY <1>1
<1>3. list[1] \in Token
  BY <1>1
<1>4. list[1].lineno \in Int
  BY <1>3 DEF Token
<1>5. ASSUME NEW x \in LinesOf(list) PROVE x \in LineOf(list[1]) \cup LinesOf(Tail(list))
  <2>1. PICK i \in 1 .. n + 1 : Proper(list[i]) /\ x = list[i].lineno
    BY <1>1 DEF LinesOf
  <2>2. CASE i = 1
    BY <2>1, <2>2 DEF LineOf
  <2>3. CASE i # 1
    <3>1. PICK j \in 1 .. n : i = j + 1
      <4>1. i - 1 \in 1 .. n /\ i = (i - 1) + 1
        BY <2>3
      <4>. QED  BY <4>1
    <3>2. Proper(Tail(list)[j]) /\ x = Tail(list)[j].lineno /\ x \in Int
      BY <1>2, <2>1, <3>1 DEF LinesOf
    <3>. QED  BY <1>2, <3>2 DEF LinesOf
  <2>. QED  BY <2>2, <2>3
<1>6. ASSUME NEW x \in LinesOf(Tail(list)) PROVE x \in LinesOf(list)
  <2>1. PICK j \in 1 .. n : Proper(Tail(list)[j]) /\ x = Tail(list)[j].lineno /\ x \in Int
    BY <1>2 DEF LinesOf
  <2>2. j + 1 \in 1 .. n + 1 /\ Proper(list[j + 1]) /\ x = list[j + 1].lineno
    BY <1>2, <2>1
  <2>. QED  BY <1>1, <2>1, <2>2 DEF LinesOf
<1>7. ASSUME NEW x \in LineOf(list[1]) PROVE x \in LinesOf(list)
  <2>1. 1 \in 1 .. Len(list) /\ Proper(list[1]) /\ x = list[1].lineno
    BY <1>1, <1>7 DEF LineOf
  <2>. QED  BY <1>4, <2>1 DEF LinesOf
<1>. QED  BY <1>5, <1>6, <1>7

LEMMA LinesOfConcat ==
    ASSUME NEW a \in Seq(Token), NEW b \in Seq(Token)
    PROVE  LinesOf(a \o b) = LinesOf(a) \cup LinesOf(b)
<1>1. PICK m \in Nat : m = Len(a)
  OBVIOUS
<1>2. PICK n \in Nat : n = Len(b)
  OBVIOUS
<1>3. PICK c \in Seq(Token) : c = a \o b
  <2>1. a \o b \in Seq(Token)
    BY ConcatSeq
  <2>. QED  BY <2>1
<1>4. Len(c) = m + n
  BY <1>1, <1>2, <1>3
<1>5. \A i \in 1 .. m : c[i] = a[i]
  BY <1>1, <1>3
<1>6. \A i \in 1 .. n : c[m + i] = b[i]
  BY <1>1, <1>2, <1>3
<1>7. ASSUME NEW x \in LinesOf(c) PROVE x \in LinesOf(a) \cup LinesOf(b)
  <2>1. PICK i \in 1 .. m + n : Proper(c[i]) /\ x = c[i].lineno /\ x \in Int
    BY <1>4 DEF LinesOf
  <2>2. CASE i \in 1 .. m
    BY <1>1, <1>5, <2>1, <2>2 DEF LinesOf
  <2>3. CASE i \notin 1 .. m
    <3>1. PICK j \in 1 .. n : i = m + j
      <4>1. i - m \in 1 .. n /\ i = m + (i - m)
        BY <2>3
      <4>. QED  BY <4>1
    <3>. QED  BY <1>2, <1>6, <2>1, <3>1 DEF LinesOf
  <2>. QED  BY <2>2, <2>3
<1>8. ASSUME NEW x \in LinesOf(a) PROVE x \in LinesOf(c)
  <2>1. PICK i \in 1 .. m : Proper(a[i]) /\ x = a[i].lineno /\ x \in Int
    BY <1>1 DEF LinesOf
  <2>2. i \in 1 .. m + n /\ c[i] = a[i]
    BY <1>5
  <2>. QED  BY <1>4, <2>1, <2>2 DEF LinesOf
<1>9. ASSUME NEW x \in LinesOf(b) PROVE x \in LinesOf(c)
  <2>1. PICK i \in 1 .. n : Proper(b[i]) /\ x = b[i].lineno /\ x \in Int
    BY <1>2 DEF LinesOf
  <2>2. m + i \in 1 .. m + n /\ c[m + i] = b[i]
    BY <1>6
  <2>. QED  BY <1>4, <2>1, <2>2 DEF LinesOf
<1>. QED  BY <1>3, <1>7, <1>8, <1>9

-----------------------------------------------------------------------------
\* How deep a list is at each of its tokens.
PlacesOf(list, i, type) == {j \in 1 .. i : list[j].type = type}
CountIn(list, i, type) == Cardinality(PlacesOf(list, i, type))
DepthIn(list, i) == CountIn(list, i, "INDENT") - CountIn(list, i, "DEDENT")

\* A piece of the list that starts at some depth.
Nested(text, depth, list) ==
    \A i \in 1 .. Len(list) :
        /\ depth + DepthIn(list, i) >= 0
        /\ Proper(list[i]) => 4 * (depth + DepthIn(list, i)) = SpacesOf(text, list[i].lineno)

\* Why depth is indentation, in files without backslashes: behind a newline
\* the lines so far with something on them are those of the tokens, and what
\* was read ends in the spaces that are counted, unless they are those of a
\* line with nothing on it.  On a line with something on it that line is one of
\* the tokens' or will be.
Under(text, p, t) == p.type = "NEWLINE" /\ Proper(t) => SpacesOf(text, t.lineno) = p.indentation_level
OnNewLine(function, t) ==
    \/ function = "read_indentation_as_newline_token"
    \/ function = "consume_rest_of_line" /\ t.type = "NEWLINE"
AtIndentation(function, s, t) ==
    \/ function # "consume_rest_of_line" /\ Spaced(ReadBy(s), t.indentation_level)
    \/ /\ ~ Shows(Source, s.lineno)
       /\ function = "consume_rest_of_line" \/ NextByte(s) \in {"\n", EOF}
ReadingNest(function, s, t) ==
    /\ OnNewLine(function, t) =>
        LinesOf(tokens) = Shown(Source, s.lineno - 1) /\ AtIndentation(function, s, t)
    /\ ~ OnNewLine(function, t) =>
        IF tokens = <<>> THEN s.lineno = 0
        ELSE LinesOf(tokens) \cup {s.lineno} = Shown(Source, s.lineno)
    /\ tokens # <<>> /\ Last(tokens).type = "NEWLINE" =>
            SpacesOf(Source, s.lineno) = Last(tokens).indentation_level
    /\ function = "read_token" => t.type # "NEWLINE"
    /\ function \in {"read_token", "consume_rest_of_line"} /\ t.type # "NEWLINE" =>
            t.indentation_level = 0

HandlingNest ==
    /\ LinesOf(output) \cup LinesOf(tokens) = Shown(Source, CountNewLines(Source))
    /\ Nested(Source, 0, output)
    /\ 4 * DepthIn(output, Len(output)) = level
    /\ tokens # <<>> /\ Proper(tokens[1]) => SpacesOf(Source, tokens[1].lineno) = level
DoneNest ==
    /\ LinesOf(output) = Shown(Source, CountNewLines(Source))
    /\ Nested(Source, 0, output)
    /\ DepthIn(output, Len(output)) = 0
NestLaw ==
    /\ \A i \in 2 .. Len(tokens) : Under(Source, tokens[i - 1], tokens[i])
    /\ StillReading => level = 0 /\ ReadingNest(reading, st, token)
    /\ reading = "handle_indentations" => HandlingNest
    /\ reading = "done" => DoneNest
NestInv == "\\" \notin ToSet(file) => NestLaw

LEMMA InitNestInv == Init => NestInv
<1>. SUFFICES ASSUME Init PROVE NestLaw
  BY DEF NestInv
<1>1. /\ st.lineno = 0 /\ tokens = <<>> /\ reading = "read_token" /\ level = 0
      /\ token.type = "" /\ token.indentation_level = 0
  BY DEF Init, NewToken
<1>2. ReadingNest(reading, st, token)
  BY <1>1 DEF ReadingNest, OnNewLine
<1>3. \A i \in 2 .. Len(tokens) : Under(Source, tokens[i - 1], tokens[i])
  <2>1. tokens = <<>>
    BY <1>1
  <2>2. Len(tokens) = 0
    BY <2>1
  <2>3. 2 .. 0 = {}
    OBVIOUS
  <2>. QED  BY <2>2, <2>3
<1>4. reading # "handle_indentations" /\ reading # "done"
  BY <1>1
<1>. QED  BY <1>1, <1>2, <1>3, <1>4 DEF NestLaw

\* The ways a round ends.
LEMMA ContinueNest ==
    ASSUME NestLaw, NEW function, NEW s, NEW t, Continue(function, s, t), StillReading,
           function \notin {"handle_indentations", "done", "failed"},
           ReadingNest(function, s, t)
    PROVE  NestLaw'
<1>1. /\ UNCHANGED <<file, tokens, output, level>> /\ reading' = function /\ st' = s /\ token' = t
  BY DEF Continue
<1>2. Source' = Source /\ (ReadBy(st))' = ReadBy(s)
  BY <1>1, SameFile
<1>3. NextByte(st)' = NextByte(s)
  BY <1>1 DEF NextByte, FromFile
<1>4. AtIndentation(reading, st, token)' = AtIndentation(function, s, t)
  BY <1>1, <1>2, <1>3 DEF AtIndentation
<1>5. ReadingNest(reading, st, token)'
  BY <1>1, <1>2, <1>4 DEF ReadingNest, OnNewLine
<1>. QED  BY <1>1, <1>2, <1>5 DEF NestLaw

LEMMA FailNest ==
    ASSUME NestLaw, NEW s, NEW message, NEW lineno, Fail(s, message, lineno)
    PROVE  NestLaw'
<1>1. UNCHANGED <<file, tokens>> /\ reading' = "failed"
  BY DEF Fail
<1>2. Source' = Source
  BY <1>1 DEF Source
<1>. QED  BY <1>1, <1>2 DEF NestLaw, StillReading

\* The tokens that are there, with one more.
LEMMA UnderNext ==
    ASSUME TypeInv, NestLaw, NEW s, NEW t \in Token, Finish(s, t),
           tokens # <<>> => Under(Source, Last(tokens), t)
    PROVE  /\ \A i \in 2 .. Len(tokens') : Under(Source, tokens'[i - 1], tokens'[i])
           /\ tokens' # <<>> /\ Last(tokens') = t /\ Source' = Source
           /\ LinesOf(tokens)' = LinesOf(tokens) \cup LineOf(t)
<1>1. UNCHANGED file /\ tokens' = Append(tokens, t) /\ tokens \in Seq(Token)
  BY DEF Finish, TypeInv
<1>2. PICK n \in Nat : n = Len(tokens)
  BY <1>1
<1>3. Len(tokens') = n + 1 /\ tokens'[n + 1] = t /\ \A i \in 1 .. n : tokens'[i] = tokens[i]
  BY <1>1, <1>2, EndOfSeq
<1>4. ASSUME NEW i \in 2 .. n + 1 PROVE Under(Source, tokens'[i - 1], tokens'[i])
  <2>1. CASE i = n + 1
    <3>1. i - 1 = n /\ n \in 1 .. n
      BY <1>4, <2>1
    <3>2. tokens # <<>> /\ Last(tokens) = tokens'[i - 1]
      BY <1>1, <1>2, <1>3, <3>1 DEF Last
    <3>. QED  BY <1>3, <2>1, <3>2
  <2>2. CASE i # n + 1
    <3>1. i \in 2 .. n /\ i \in 1 .. n /\ i - 1 \in 1 .. n
      BY <1>4, <2>2
    <3>2. tokens'[i - 1] = tokens[i - 1] /\ tokens'[i] = tokens[i]
      BY <1>3, <3>1
    <3>3. Under(Source, tokens[i - 1], tokens[i])
      BY <1>2, <3>1 DEF NestLaw
    <3>. QED  BY <3>2, <3>3
  <2>. QED  BY <2>1, <2>2
<1>5. tokens' # <<>> /\ Last(tokens') = t
  BY <1>1, <1>2, <1>3 DEF Last
<1>6. Source' = Source
  BY <1>1 DEF Source
<1>7. LinesOf(tokens)' = LinesOf(tokens) \cup LineOf(t)
  BY <1>1, LinesOfAppend DEF LinesOf, Proper
<1>. QED  BY <1>3, <1>4, <1>5, <1>6, <1>7

LEMMA FinishNest ==
    ASSUME TypeInv, NestLaw, StillReading, NEW s, NEW t \in Token, Finish(s, t),
           t.type # "END_OF_FILE",
           tokens # <<>> => Under(Source, Last(tokens), t),
           LinesOf(tokens) \cup LineOf(t) \cup {s.lineno} = Shown(Source, s.lineno),
           t.type = "NEWLINE" => SpacesOf(Source, s.lineno) = t.indentation_level
    PROVE  NestLaw'
<1>1. UNCHANGED <<file, level>> /\ st' = s /\ token' = NewToken(s.lineno) /\ reading' = "read_token"
  BY DEF Finish
<1>2. token'.type = "" /\ token'.indentation_level = 0
  BY <1>1 DEF NewToken
<1>3. /\ \A i \in 2 .. Len(tokens') : Under(Source, tokens'[i - 1], tokens'[i])
      /\ tokens' # <<>> /\ Last(tokens') = t /\ Source' = Source
      /\ LinesOf(tokens)' = LinesOf(tokens) \cup LineOf(t)
  BY UnderNext
<1>4. ReadingNest(reading, st, token)'
  BY <1>1, <1>2, <1>3 DEF ReadingNest, OnNewLine
<1>. QED  BY <1>1, <1>3, <1>4 DEF NestLaw, StillReading

LEMMA EndOfFileNest ==
    ASSUME TokenizeInv, TokenizeInv', NestLaw, StillReading, NEW s, NEW t \in Token, Finish(s, t),
           t.type = "END_OF_FILE",
           LinesOf(tokens) = Shown(Source, CountNewLines(Source))
    PROVE  NestLaw'
<1>1. /\ UNCHANGED <<file, level, output>> /\ reading' = "handle_indentations"
      /\ output = <<>> /\ level = 0
  BY DEF Finish, TokenizeInv, FirstInv, NestLaw
<1>2. ~ Proper(t)
  BY DEF Proper
<1>3. /\ \A i \in 2 .. Len(tokens') : Under(Source, tokens'[i - 1], tokens'[i])
      /\ Source' = Source
      /\ LinesOf(tokens)' = LinesOf(tokens)
  BY <1>2, UnderNext DEF TokenizeInv, Under, LineOf
<1>4. Len(output') = 0 /\ 1 .. 0 = {}
  BY <1>1
<1>5. DepthIn(output', 0) = 0
  <2>1. \A type : {j \in 1 .. 0 : output'[j].type = type} = {}
    BY <1>4
  <2>. QED  BY <2>1, FS_EmptySet DEF DepthIn, CountIn, PlacesOf
<1>6. Nested(Source, 0, output') /\ LinesOf(output') = {}
  BY <1>4 DEF Nested, LinesOf
<1>7. tokens' # <<>> => ~ Proper(tokens'[1])
  BY <1>1 DEF TokenizeInv, FirstInv, Proper
<1>8. HandlingNest'
  <2>1. (LinesOf(output) \cup LinesOf(tokens) = Shown(Source, CountNewLines(Source)))'
    <3>1. LinesOf(output)' = {}
      BY <1>6 DEF LinesOf, Proper
    <3>2. CountNewLines(Source)' = CountNewLines(Source)
      BY <1>3 DEF CountNewLines
    <3>. QED  BY <1>3, <3>1, <3>2
  <2>2. (Nested(Source, 0, output))'
    BY <1>3, <1>6
  <2>3. (4 * DepthIn(output, Len(output)) = level)'
    BY <1>1, <1>4, <1>5
  <2>. QED  BY <1>7, <2>1, <2>2, <2>3 DEF HandlingNest
<1>. QED  BY <1>1, <1>3, <1>8 DEF NestLaw, StillReading

\* What a round that reads a byte starts from.
NestRound(function) ==
    /\ TypeInv /\ StillReading /\ reading = function /\ token \in Token
    /\ Byte # Bad /\ OnLine(st)
    /\ ReadingNest(function, st, token)
    /\ Byte # EOF => ReadBy(read_byte(st)) = Append(ReadBy(st), Byte)
    /\ Byte \notin {"\n", EOF} => read_byte(st).lineno = st.lineno
    /\ Byte = "\n" => read_byte(st).lineno = st.lineno + 1
    /\ Byte = EOF => read_byte(st) = st /\ Source = ReadBy(st) /\ CountNewLines(Source) = st.lineno
    /\ st.lineno \in Int /\ ReadBy(st) \in Seq(Bytes)
Unread == unread_byte(read_byte(st), Byte)

LEMMA RoundNest ==
    ASSUME TokenizeInv, TextInv, NestLaw, NEW function, In(function),
           function \notin {"handle_indentations", "done", "failed"}
    PROVE  /\ NestRound(function)
           /\ ReadBy(Unread) = ReadBy(st) /\ Unread.lineno = st.lineno /\ NextByte(Unread) = Byte
<1>1. /\ TypeInv /\ StillReading /\ reading = function /\ token \in Token
  BY Reading DEF TokenizeInv
<1>2. Byte # Bad /\ OnLine(st)
  BY <1>1 DEF TextInv, In
<1>3. ReadingNest(function, st, token)
  BY <1>1 DEF NestLaw
<1>4. /\ Byte # EOF => ReadBy(read_byte(st)) = Append(ReadBy(st), Byte)
      /\ Byte = EOF => read_byte(st) = st /\ Rest(st) = <<>>
  BY <1>1, <1>2, ReadsOnLine
<1>5. st.lineno \in Int /\ ReadBy(st) \in Seq(Bytes) /\ st.lineno = CountNewLines(ReadBy(st))
      /\ Source = ReadBy(st) \o Rest(st)
  BY <1>1, <1>2 DEF OnLine, InText, TypeInv, ReaderState
<1>6. Byte # EOF => read_byte(st).lineno = st.lineno + NewLines(Byte)
  BY <1>1, <1>2, ReadsOn DEF OnLine
<1>7. Byte = EOF => Source = ReadBy(st)
  <2>1. PICK p \in Seq(Bytes) : p = ReadBy(st)
    BY <1>5
  <2>2. p \o <<>> = p
    OBVIOUS
  <2>. QED  BY <1>4, <1>5, <2>1, <2>2
<1>8. /\ ReadBy(Unread) = ReadBy(st) /\ Unread.lineno = st.lineno
      /\ Byte # EOF => Unread.pushback # <<>> /\ Last(Unread.pushback) = Byte
  BY <1>1, <1>2, GivesBack DEF Unread
<1>9. NextByte(Unread) = Byte
  <2>1. CASE Byte = EOF
    BY <1>4, <2>1 DEF Unread, unread_byte, Byte
  <2>2. CASE Byte # EOF
    BY <1>8, <2>2 DEF NextByte
  <2>. QED  BY <2>1, <2>2
<1>10. /\ Byte \notin {"\n", EOF} => read_byte(st).lineno = st.lineno
       /\ Byte = "\n" => read_byte(st).lineno = st.lineno + 1
  <2>1. CASE Byte = EOF
    BY <2>1 DEF EOF
  <2>2. CASE Byte = "\n"
    <3>1. Byte # EOF /\ NewLines(Byte) = 1
      BY <2>2 DEF EOF, NewLines
    <3>. QED  BY <1>6, <2>2, <3>1
  <2>3. CASE Byte \notin {"\n", EOF}
    <3>1. NewLines(Byte) = 0
      BY <2>3 DEF NewLines
    <3>2. st.lineno + 0 = st.lineno
      BY <1>5
    <3>. QED  BY <1>6, <2>3, <3>1, <3>2
  <2>. QED  BY <2>1, <2>2, <2>3
<1>. QED  BY <1>1, <1>2, <1>3, <1>4, <1>5, <1>7, <1>8, <1>9, <1>10 DEF NestRound

\* On the line of a token.
LEMMA SameLineContinue ==
    ASSUME NestLaw, StillReading, ~ OnNewLine(reading, token),
           NEW function, NEW s, NEW t, Continue(function, s, t),
           function \notin {"handle_indentations", "done", "failed"},
           ~ OnNewLine(function, t), s.lineno = st.lineno,
           function \in {"read_token", "consume_rest_of_line"} =>
                t.indentation_level = 0 /\ t.type # "NEWLINE"
    PROVE  NestLaw'
<1>1. ReadingNest(reading, st, token)
  BY DEF NestLaw
<1>2. ReadingNest(function, s, t)
  BY <1>1 DEF ReadingNest
<1>. QED  BY <1>2, ContinueNest

LEMMA SameLineFinish ==
    ASSUME TypeInv, NestLaw, StillReading, ~ OnNewLine(reading, token), tokens # <<>>,
           NEW s, NEW t \in Token, Finish(s, t), Proper(t),
           t.lineno = st.lineno, s.lineno = st.lineno
    PROVE  NestLaw'
<1>1. ReadingNest(reading, st, token)
  BY DEF NestLaw
<1>2. Under(Source, Last(tokens), t)
  BY <1>1 DEF ReadingNest, Under
<1>3. LineOf(t) = {st.lineno}
  BY DEF LineOf
<1>4. LinesOf(tokens) \cup LineOf(t) \cup {s.lineno} = Shown(Source, s.lineno)
  BY <1>1, <1>3 DEF ReadingNest
<1>5. t.type # "END_OF_FILE" /\ t.type # "NEWLINE"
  BY DEF Proper
<1>. QED  BY <1>2, <1>4, <1>5, FinishNest

LEMMA LastLine ==
    ASSUME TypeInv, tokens # <<>>, Proper(Last(tokens))
    PROVE  Last(tokens).lineno \in LinesOf(tokens)
<1>1. PICK n \in Nat : n = Len(tokens) /\ n \in 1 .. n
  BY DEF TypeInv
<1>2. Last(tokens) = tokens[n] /\ tokens[n] \in Token
  BY <1>1 DEF TypeInv, Last
<1>3. tokens[n].lineno \in Int
  BY <1>2 DEF Token
<1>. QED  BY <1>1, <1>2, <1>3 DEF LinesOf

\* Where a line of tokens may end, it has one.
LEMMA LineIsThere ==
    ASSUME TokenizeInv, TextInv, LineLaw, NestLaw, "\\" \notin ToSet(file), In("read_token"),
           ~ StartsToken(Byte)
    PROVE  LinesOf(tokens) = Shown(Source, st.lineno)
           /\ (tokens # <<>> => Last(tokens).type # "NEWLINE")
<1>1. Round("read_token")
  BY PlainRound
<1>2. ReadingNest("read_token", st, token)
  BY RoundNest DEF NestRound
<1>3. ~ OnNewLine("read_token", token)
  BY DEF OnNewLine
<1>4. CASE tokens = <<>>
  <2>1. st.lineno = 0
    BY <1>2, <1>3, <1>4 DEF ReadingNest
  <2>2. Shown(Source, 0) = {}
    BY DEF Shown
  <2>. QED  BY <1>4, <2>1, <2>2, LinesOfEmpty
<1>5. CASE tokens # <<>>
  <2>1. Between(Last(tokens), "read_token", st, token) /\ token.lineno = st.lineno
    BY <1>1, <1>5 DEF Round
  <2>2. Proper(Last(tokens)) /\ Last(tokens).lineno = st.lineno
    BY <2>1 DEF Between, Byte
  <2>3. st.lineno \in LinesOf(tokens)
    BY <1>5, <2>2, LastLine DEF TokenizeInv
  <2>4. LinesOf(tokens) \cup {st.lineno} = Shown(Source, st.lineno)
    BY <1>2, <1>3, <1>5 DEF ReadingNest
  <2>. QED  BY <2>2, <2>3, <2>4 DEF Proper
<1>. QED  BY <1>4, <1>5

LEMMA ReadTokenNest ==
    ASSUME TokenizeInv, TokenizeInv', TextInv, LineLaw, NestLaw, "\\" \notin ToSet(file), ReadToken
    PROVE  NestLaw'
<1>1. In("read_token")
  BY DEF ReadToken
<1>2. NestRound("read_token")
  BY <1>1, RoundNest
<1>3. Unread.lineno = st.lineno
  BY <1>1, RoundNest
<1>4. /\ ~ OnNewLine(reading, token) /\ token.type # "NEWLINE" /\ token.indentation_level = 0
      /\ ReadingNest("read_token", st, token) /\ StillReading /\ reading = "read_token"
      /\ token \in Token
  BY <1>2 DEF NestRound, OnNewLine, ReadingNest
<1>5. PICK s : s = read_byte(st)
  OBVIOUS
<1>6. Byte \notin {"\n", EOF} => s.lineno = st.lineno
  BY <1>2, <1>5 DEF NestRound
<1>7. ASSUME Byte = "#", Continue("consume_rest_of_line", s, token) PROVE NestLaw'
  <2>1. Byte \notin {"\n", EOF}
    BY <1>7 DEF EOF
  <2>. QED  BY <1>4, <1>6, <1>7, <2>1, SameLineContinue DEF OnNewLine
<1>8. ASSUME Byte = " ", Continue("read_token", s, token) PROVE NestLaw'
  <2>1. Byte \notin {"\n", EOF}
    BY <1>8 DEF EOF
  <2>. QED  BY <1>4, <1>6, <1>8, <2>1, SameLineContinue DEF OnNewLine
<1>9. ASSUME Byte = "\n",
             Continue("read_indentation_as_newline_token", s, [token EXCEPT !.type = "NEWLINE"])
      PROVE  NestLaw'
  <2>1. PICK t \in Token : t = [token EXCEPT !.type = "NEWLINE"]
    BY <1>4, TokenUpdates DEF TokenTypes
  <2>2. t.type = "NEWLINE" /\ t.indentation_level = 0
    BY <1>4, <2>1 DEF Token
  <2>3. ReadBy(s) = Append(ReadBy(st), Byte) /\ s.lineno = st.lineno + 1 /\ st.lineno \in Int
    <3>1. Byte # EOF
      BY <1>9 DEF EOF
    <3>. QED  BY <1>2, <1>5, <1>9, <3>1 DEF NestRound
  <2>4. Spaced(ReadBy(s), 0)
    BY <1>2, <1>9, <2>3, SpacedStarts DEF NestRound
  <2>. DEFINE function == "read_indentation_as_newline_token"
  <2>5. AtIndentation(function, s, t)
    BY <2>2, <2>4 DEF AtIndentation
  <2>6. s.lineno - 1 = st.lineno
    BY <2>3
  <2>7. LinesOf(tokens) = Shown(Source, st.lineno) /\ (tokens # <<>> => Last(tokens).type # "NEWLINE")
    BY <1>1, <1>9, LineIsThere DEF StartsToken
  <2>8. ReadingNest(function, s, t)
    BY <2>2, <2>5, <2>6, <2>7 DEF ReadingNest, OnNewLine
  <2>. QED  BY <1>4, <1>5, <1>9, <2>1, <2>8, ContinueNest
<1>10. ASSUME Byte = EOF, Finish(s, [token EXCEPT !.type = "END_OF_FILE"]) PROVE NestLaw'
  <2>1. PICK t \in Token : t = [token EXCEPT !.type = "END_OF_FILE"]
    BY <1>4, TokenUpdates DEF TokenTypes
  <2>2. t.type = "END_OF_FILE"
    BY <1>4, <2>1 DEF Token
  <2>3. CountNewLines(Source) = st.lineno
    BY <1>2, <1>10 DEF NestRound
  <2>4. LinesOf(tokens) = Shown(Source, CountNewLines(Source))
    BY <1>1, <1>10, <2>3, LineIsThere DEF StartsToken
  <2>. QED  BY <1>4, <1>10, <2>1, <2>2, <2>4, EndOfFileNest
<1>11. ASSUME NEW t, NEW r, NEW function, Continue(function, r, t), r.lineno = st.lineno,
             function \in {"read_string", "read_identifier_or_number", "read_operator"}
       PROVE  NestLaw'
  BY <1>4, <1>11, SameLineContinue DEF OnNewLine
<1>12. ASSUME Byte \in Quotes,
              Continue("read_string", s, [token EXCEPT !.type = IF Byte = "'" THEN "CHAR" ELSE "STRING"])
       PROVE  NestLaw'
  <2>1. Byte \notin {"\n", EOF}
    BY <1>12 DEF EOF, Quotes
  <2>. QED  BY <1>6, <1>11, <1>12, <2>1
<1>13. ASSUME is_identifier_or_number_byte(Byte),
              Continue("read_identifier_or_number", s, [token EXCEPT !.text = <<Byte>>])
       PROVE  NestLaw'
  <2>1. Byte \notin {"\n", EOF}
    BY <1>13 DEF EOF, is_identifier_or_number_byte, Letters, Digits
  <2>. QED  BY <1>6, <1>11, <1>13, <2>1
<1>14. ASSUME Continue("read_operator", unread_byte(s, Byte), [token EXCEPT !.type = "OPERATOR"])
       PROVE  NestLaw'
  BY <1>3, <1>5, <1>11, <1>14 DEF Unread
<1>15. ASSUME Fail(s, "unexpected byte", s.lineno) PROVE NestLaw'
  BY <1>15, FailNest
<1>. QED  BY <1>5, <1>7, <1>8, <1>9, <1>10, <1>12, <1>13, <1>14, <1>15 DEF ReadToken

LEMMA ConsumeRestOfLineNest ==
    ASSUME TokenizeInv, TextInv, NestLaw, ConsumeRestOfLine
    PROVE  NestLaw'
<1>1. In("consume_rest_of_line")
  BY DEF ConsumeRestOfLine
<1>2. NestRound("consume_rest_of_line")
  BY <1>1, RoundNest
<1>3. Unread.lineno = st.lineno /\ NextByte(Unread) = Byte
  BY <1>1, RoundNest
<1>4. /\ ReadingNest("consume_rest_of_line", st, token) /\ StillReading
      /\ reading = "consume_rest_of_line" /\ token \in Token
  BY <1>2 DEF NestRound
<1>5. PICK s : s = read_byte(st)
  OBVIOUS
<1>6. Byte \notin {"\n", EOF} => s.lineno = st.lineno
  BY <1>2, <1>5 DEF NestRound
<1>7. CASE token.type = "NEWLINE"
  <2>1. OnNewLine("consume_rest_of_line", token)
    BY <1>7 DEF OnNewLine
  <2>2. LinesOf(tokens) = Shown(Source, st.lineno - 1) /\ ~ Shows(Source, st.lineno)
    BY <1>4, <2>1 DEF ReadingNest, AtIndentation
  <2>3. ASSUME NEW function, NEW r, Continue(function, r, token), r.lineno = st.lineno,
               \/ function = "consume_rest_of_line"
               \/ function = "read_indentation_as_newline_token" /\ NextByte(r) \in {"\n", EOF}
        PROVE  NestLaw'
    <3>1. OnNewLine(function, token)
      BY <1>7, <2>3 DEF OnNewLine
    <3>2. AtIndentation(function, r, token)
      BY <2>2, <2>3 DEF AtIndentation
    <3>3. ReadingNest(function, r, token)
      BY <1>4, <1>7, <2>2, <2>3, <3>1, <3>2 DEF ReadingNest
    <3>. QED  BY <1>4, <2>3, <3>3, ContinueNest
  <2>4. CASE Byte \in {"\n", EOF}
    <3>1. Continue("read_indentation_as_newline_token", Unread, token)
      BY <1>7, <2>4 DEF ConsumeRestOfLine, Unread
    <3>. QED  BY <1>3, <2>3, <2>4, <3>1
  <2>5. CASE Byte \notin {"\n", EOF}
    <3>1. Continue("consume_rest_of_line", s, token)
      BY <1>5, <2>5 DEF ConsumeRestOfLine
    <3>. QED  BY <1>6, <2>3, <2>5, <3>1
  <2>. QED  BY <2>4, <2>5
<1>8. CASE token.type # "NEWLINE"
  <2>1. ~ OnNewLine(reading, token) /\ token.indentation_level = 0
    BY <1>4, <1>8 DEF OnNewLine, ReadingNest
  <2>2. CASE Byte \in {"\n", EOF}
    <3>1. Continue("read_token", Unread, token)
      BY <1>8, <2>2 DEF ConsumeRestOfLine, Unread
    <3>2. ~ OnNewLine("read_token", token)
      BY DEF OnNewLine
    <3>. QED  BY <1>3, <1>4, <1>8, <2>1, <3>1, <3>2, SameLineContinue
  <2>3. CASE Byte \notin {"\n", EOF}
    <3>1. Continue("consume_rest_of_line", s, token)
      BY <1>5, <2>3 DEF ConsumeRestOfLine
    <3>2. ~ OnNewLine("consume_rest_of_line", token)
      BY <1>8 DEF OnNewLine
    <3>. QED  BY <1>4, <1>6, <1>8, <2>1, <2>3, <3>1, <3>2, SameLineContinue
  <2>. QED  BY <2>2, <2>3
<1>. QED  BY <1>7, <1>8

LEMMA ReadIndentationNest ==
    ASSUME TokenizeInv, TokenizeInv', TextInv, LineLaw, NestLaw, "\\" \notin ToSet(file),
           ReadIndentation
    PROVE  NestLaw'
<1>. DEFINE function == "read_indentation_as_newline_token"
<1>1. In(function)
  BY DEF ReadIndentation
<1>2. NestRound(function)
  BY <1>1, RoundNest
<1>3. Unread.lineno = st.lineno
  BY <1>1, RoundNest
<1>4. /\ ReadingNest(function, st, token) /\ StillReading /\ reading = function
      /\ token \in Token /\ token.type = "NEWLINE"
  BY <1>2 DEF NestRound, TextInv
<1>5. PICK s : s = read_byte(st)
  OBVIOUS
<1>6. Byte \notin {"\n", EOF} => s.lineno = st.lineno
  BY <1>2, <1>5 DEF NestRound
<1>7. PICK k \in Nat : k = token.indentation_level
  BY <1>4 DEF Token
<1>8. PICK n \in Nat : n = st.lineno
  <2>1. st.lineno = CountNewLines(ReadBy(st)) /\ ReadBy(st) \in Seq(Bytes)
    BY <1>2 DEF NestRound, OnLine
  <2>. QED  BY <2>1, CountNewLinesType
<1>9. /\ LinesOf(tokens) = Shown(Source, n - 1)
      /\ Spaced(ReadBy(st), k) \/ (~ Shows(Source, n) /\ Byte \in {"\n", EOF})
  BY <1>4, <1>7, <1>8 DEF ReadingNest, OnNewLine, AtIndentation, Byte
<1>10. ASSUME Spaced(ReadBy(st), k), Byte # " "
       PROVE  /\ SpacesOf(Source, n) = k /\ n >= 1
              /\ Shows(Source, n) <=> Byte \notin {"\n", "#", EOF}
  BY <1>2, <1>8, <1>10, LineAtByte DEF NestRound
<1>11. ASSUME ~ Shows(Source, n) PROVE LinesOf(tokens) = Shown(Source, n)
  BY <1>9, <1>11, ShownGrows
<1>12. Byte = " " => Byte \notin {"\n", "#", EOF}
  BY DEF EOF
<1>13. ASSUME Byte = " ", Continue(function, s, [token EXCEPT !.indentation_level = @ + 1])
       PROVE  NestLaw'
  <2>1. PICK t \in Token : t = [token EXCEPT !.indentation_level = @ + 1]
    <3>1. k + 1 \in Nat
      OBVIOUS
    <3>2. [token EXCEPT !.indentation_level = k + 1] \in Token
      BY <1>4, <3>1, TokenUpdates
    <3>3. [token EXCEPT !.indentation_level = @ + 1] = [token EXCEPT !.indentation_level = k + 1]
      BY <1>7
    <3>. QED  BY <3>2, <3>3
  <2>2. t.type = "NEWLINE" /\ t.indentation_level = k + 1
    BY <1>4, <1>7, <2>1 DEF Token
  <2>3. s.lineno = n /\ ReadBy(s) = Append(ReadBy(st), " ")
    BY <1>2, <1>5, <1>6, <1>8, <1>12, <1>13 DEF NestRound
  <2>4. Spaced(ReadBy(s), k + 1)
    <3>1. Spaced(ReadBy(st), k)
      BY <1>9, <1>12, <1>13
    <3>. QED  BY <1>2, <2>3, <3>1, SpacedGrows DEF NestRound
  <2>5. AtIndentation(function, s, t)
    BY <2>2, <2>4 DEF AtIndentation
  <2>6. ReadingNest(function, s, t)
    BY <1>4, <1>8, <1>9, <2>2, <2>3, <2>5 DEF ReadingNest, OnNewLine
  <2>. QED  BY <1>4, <1>13, <2>1, <2>6, ContinueNest
<1>14. Byte \in {"\n", "#", EOF} => ~ Shows(Source, n)
  <2>1. Byte \in {"\n", "#", EOF} => Byte # " "
    BY DEF EOF
  <2>. QED  BY <1>9, <1>10, <2>1
<1>15. ASSUME Byte = "\n", Continue(function, s, [token EXCEPT !.indentation_level = 0])
       PROVE  NestLaw'
  <2>1. PICK t \in Token : t = [token EXCEPT !.indentation_level = 0]
    BY <1>4, TokenUpdates
  <2>2. t.type = "NEWLINE" /\ t.indentation_level = 0
    BY <1>4, <2>1 DEF Token
  <2>3. s.lineno = n + 1 /\ ReadBy(s) = Append(ReadBy(st), "\n")
    <3>1. Byte # EOF
      BY <1>15 DEF EOF
    <3>. QED  BY <1>2, <1>5, <1>8, <1>15, <3>1 DEF NestRound
  <2>4. Spaced(ReadBy(s), 0)
    BY <1>2, <2>3, SpacedStarts DEF NestRound
  <2>5. AtIndentation(function, s, t)
    BY <2>2, <2>4 DEF AtIndentation
  <2>6. LinesOf(tokens) = Shown(Source, n) /\ s.lineno - 1 = n
    BY <1>11, <1>14, <1>15, <2>3
  <2>7. tokens # <<>> => Last(tokens).type # "NEWLINE"
    <3>1. tokens # <<>> => Between(Last(tokens), function, st, token)
      BY <1>1, PlainRound DEF Round
    <3>. QED  BY <1>4, <3>1 DEF Between, Proper
  <2>8. ReadingNest(function, s, t)
    BY <2>2, <2>5, <2>6, <2>7 DEF ReadingNest, OnNewLine
  <2>. QED  BY <1>4, <1>15, <2>1, <2>8, ContinueNest
<1>16. ASSUME Byte = "#", Continue("consume_rest_of_line", s, token) PROVE NestLaw'
  <2>1. ~ Shows(Source, n) /\ s.lineno = n
    <3>1. Byte \notin {"\n", EOF}
      BY <1>16 DEF EOF
    <3>. QED  BY <1>6, <1>8, <1>14, <1>16, <3>1
  <2>2. AtIndentation("consume_rest_of_line", s, token)
    BY <2>1 DEF AtIndentation
  <2>3. ReadingNest("consume_rest_of_line", s, token)
    BY <1>4, <1>8, <1>9, <2>1, <2>2 DEF ReadingNest, OnNewLine
  <2>. QED  BY <1>4, <1>16, <2>3, ContinueNest
<1>17. ASSUME Byte = EOF, Finish(s, [token EXCEPT !.type = "END_OF_FILE"]) PROVE NestLaw'
  <2>1. PICK t \in Token : t = [token EXCEPT !.type = "END_OF_FILE"]
    BY <1>4, TokenUpdates DEF TokenTypes
  <2>2. t.type = "END_OF_FILE"
    BY <1>4, <2>1 DEF Token
  <2>3. CountNewLines(Source) = n
    BY <1>2, <1>8, <1>17 DEF NestRound
  <2>4. LinesOf(tokens) = Shown(Source, CountNewLines(Source))
    BY <1>11, <1>14, <1>17, <2>3
  <2>. QED  BY <1>4, <1>17, <2>1, <2>2, <2>4, EndOfFileNest
<1>18. ASSUME Byte \notin {" ", "\n", "#", EOF}, Finish(Unread, token) PROVE NestLaw'
  <2>1. Spaced(ReadBy(st), k)
    BY <1>9, <1>18
  <2>2. SpacesOf(Source, n) = k /\ n >= 1 /\ Shows(Source, n)
    BY <1>10, <1>18, <2>1
  <2>3. LinesOf(tokens) \cup {n} = Shown(Source, n)
    BY <1>9, <2>2, ShownGrows
  <2>4. ~ Proper(token) /\ LineOf(token) = {}
    BY <1>4 DEF Proper, LineOf
  <2>5. tokens # <<>> => Under(Source, Last(tokens), token)
    BY <2>4 DEF Under
  <2>. QED  BY <1>2, <1>3, <1>4, <1>7, <1>8, <1>18, <2>2, <2>3, <2>4, <2>5, FinishNest DEF NestRound
<1>19. \/ Byte = " " /\ Continue(reading, s, [token EXCEPT !.indentation_level = @ + 1])
       \/ Byte = "\n" /\ Continue(reading, s, [token EXCEPT !.indentation_level = 0])
       \/ Byte = "#" /\ Continue("consume_rest_of_line", s, token)
       \/ Byte = EOF /\ Finish(s, [token EXCEPT !.type = "END_OF_FILE"])
       \/ Byte \notin {" ", "\n", "#", EOF} /\ Finish(Unread, token)
  BY <1>5 DEF ReadIndentation, Unread, EOF
<1>. QED  BY <1>4, <1>13, <1>15, <1>16, <1>17, <1>18, <1>19

LEMMA ReadIdentifierOrNumberNest ==
    ASSUME TokenizeInv, TextInv, NestLaw, ReadIdentifierOrNumber
    PROVE  NestLaw'
<1>1. In("read_identifier_or_number")
  BY DEF ReadIdentifierOrNumber
<1>2. /\ NestRound("read_identifier_or_number") /\ Unread.lineno = st.lineno
      /\ token.lineno = st.lineno
  BY <1>1, RoundNest DEF TextInv, In
<1>3. /\ TypeInv /\ StillReading /\ ~ OnNewLine(reading, token) /\ token \in Token
      /\ reading = "read_identifier_or_number" /\ tokens # <<>>
  BY <1>2, FirstTokenIsThere DEF NestRound, OnNewLine
<1>4. PICK s : s = read_byte(st)
  OBVIOUS
<1>5. ASSUME NEW type \in {"NAME", "INT"}, Finish(Unread, [token EXCEPT !.type = type])
      PROVE  NestLaw'
  <2>1. PICK t \in Token : t = [token EXCEPT !.type = type]
    BY <1>3, TokenUpdates DEF TokenTypes
  <2>2. t.lineno = st.lineno /\ Proper(t)
    BY <1>2, <1>3, <2>1 DEF Token, Proper
  <2>. QED  BY <1>2, <1>3, <1>5, <2>1, <2>2, SameLineFinish
<1>6. CASE is_identifier_or_number_byte(Byte)
  <2>1. s.lineno = st.lineno
    <3>1. Byte \notin {"\n", EOF}
      BY <1>6 DEF EOF, is_identifier_or_number_byte, Letters, Digits
    <3>. QED  BY <1>2, <1>4, <3>1 DEF NestRound
  <2>2. CASE Continue(reading, s, [token EXCEPT !.text = Append(@, Byte)])
    BY <1>3, <2>1, <2>2, SameLineContinue DEF OnNewLine
  <2>3. CASE Fail(s, "name is too long", s.lineno)
    BY <2>3, FailNest
  <2>. QED  BY <1>4, <1>6, <2>2, <2>3 DEF ReadIdentifierOrNumber
<1>7. CASE ~ is_identifier_or_number_byte(Byte)
  <2>1. \/ Finish(Unread, [token EXCEPT !.type = "NAME"])
        \/ Finish(Unread, [token EXCEPT !.type = "INT"])
        \/ Fail(Unread, "invalid number", token.lineno)
    BY <1>7 DEF ReadIdentifierOrNumber, Unread
  <2>2. CASE Fail(Unread, "invalid number", token.lineno)
    BY <2>2, FailNest
  <2>. QED  BY <1>5, <2>1, <2>2
<1>. QED  BY <1>6, <1>7

LEMMA ReadStringNest ==
    ASSUME TokenizeInv, TextInv, LineLaw, NestLaw, "\\" \notin ToSet(file), ReadString
    PROVE  NestLaw'
<1>1. In("read_string")
  BY DEF ReadString
<1>2. /\ NestRound("read_string") /\ token.type \in {"CHAR", "STRING"}
      /\ Round("read_string")
  BY <1>1, RoundNest, PlainRound DEF TextInv, In
<1>3. /\ TypeInv /\ StillReading /\ ~ OnNewLine(reading, token) /\ token \in Token
      /\ reading = "read_string" /\ tokens # <<>> /\ token.lineno = st.lineno
  BY <1>2, FirstTokenIsThere DEF NestRound, OnNewLine, Round, ReadingLaw
<1>4. PICK s : s = read_byte(st)
  OBVIOUS
<1>5. Quote \notin {"\n", EOF, "\\"} /\ Byte # "\\"
  BY <1>2 DEF Quote, EOF, Round, PlainBytes
<1>6. Byte \notin {"\n", EOF} => s.lineno = st.lineno
  BY <1>2, <1>4 DEF NestRound
<1>7. ASSUME NEW message, NEW lineno, Fail(s, message, lineno) PROVE NestLaw'
  BY <1>7, FailNest
<1>8. CASE Byte = Quote
  <2>1. Finish(s, token) \/ Fail(s, "not a single character", s.lineno)
    BY <1>4, <1>5, <1>8 DEF ReadString
  <2>2. CASE Finish(s, token)
    <3>1. Proper(token) /\ s.lineno = st.lineno
      BY <1>2, <1>5, <1>6, <1>8 DEF Proper
    <3>. QED  BY <1>3, <2>2, <3>1, SameLineFinish
  <2>. QED  BY <1>7, <2>1, <2>2
<1>9. CASE Byte # Quote /\ Byte \notin {"\n", EOF}
  <2>1. PICK t : t = [token EXCEPT !.text = Append(@, Byte)]
    OBVIOUS
  <2>2. Continue(reading, s, t)
    BY <1>4, <1>5, <1>9, <2>1 DEF ReadString
  <2>. QED  BY <1>3, <1>6, <1>9, <2>2, SameLineContinue DEF OnNewLine
<1>10. CASE Byte # Quote /\ Byte = "\n"
  <2>1. Fail(s, "missing end quote", s.lineno - 1)
    BY <1>4, <1>10 DEF ReadString, MissingEndQuote, EOF
  <2>. QED  BY <1>7, <2>1
<1>11. CASE Byte # Quote /\ Byte = EOF
  <2>1. Fail(s, "missing end quote", s.lineno)
    BY <1>4, <1>11 DEF ReadString, MissingEndQuote, EOF
  <2>. QED  BY <1>7, <2>1
<1>. QED  BY <1>8, <1>9, <1>10, <1>11

LEMMA ReadOperatorByteNest ==
    ASSUME TokenizeInv, TextInv, NestLaw, ReadOperatorByte
    PROVE  NestLaw'
<1>1. In("read_operator") /\ Byte \in operatorChars
  BY DEF ReadOperatorByte
<1>2. NestRound("read_operator")
  BY <1>1, RoundNest
<1>3. /\ StillReading /\ ~ OnNewLine(reading, token) /\ reading = "read_operator"
  BY <1>2 DEF NestRound, OnNewLine
<1>4. Byte \notin {"\n", EOF}
  BY <1>1, OperatorCharsAreBytes, SpecialBytes
<1>5. PICK s : s = read_byte(st) /\ s.lineno = st.lineno
  BY <1>2, <1>4 DEF NestRound
<1>6. PICK t : t = [token EXCEPT !.text = Append(@, Byte)]
  OBVIOUS
<1>7. Continue(reading, s, t)
  BY <1>5, <1>6 DEF ReadOperatorByte
<1>. QED  BY <1>3, <1>5, <1>7, SameLineContinue DEF OnNewLine

LEMMA ReadOperatorNest ==
    ASSUME TokenizeInv, TextInv, LineLaw, NestLaw, "\\" \notin ToSet(file), ReadOperator
    PROVE  NestLaw'
<1>1. reading = "read_operator" /\ (Len(token.text) # 3 => In("read_operator"))
  BY DEF ReadOperator, OperatorIsFull, In
<1>2. /\ TypeInv /\ StillReading /\ token \in Token /\ st \in ReaderState
      /\ token.type = "OPERATOR" /\ ReadingLaw(reading, st, token)
  BY <1>1 DEF TokenizeInv, TypeInv, TextInv, LineLaw, StillReading
<1>3. /\ TypeInv /\ StillReading /\ ~ OnNewLine(reading, token) /\ token \in Token
      /\ reading = "read_operator" /\ tokens # <<>> /\ token.lineno = st.lineno
  BY <1>1, <1>2, FirstTokenIsThere DEF OnNewLine, ReadingLaw
<1>4. PICK s : s = IF Len(token.text) = 3 THEN st ELSE unread_byte(read_byte(st), Byte)
  OBVIOUS
<1>5. s.lineno = st.lineno /\ s \in ReaderState
  <2>1. CASE Len(token.text) = 3
    BY <1>2, <1>4, <2>1
  <2>2. CASE Len(token.text) # 3
    <3>1. Round("read_operator")
      BY <1>1, <2>2, PlainRound
    <3>. QED  BY <1>4, <2>2, <3>1 DEF Round
  <2>. QED  BY <2>1, <2>2
<1>6. CASE Matching(token.text) = {}
  <2>1. Fail(s, "no such operator", s.lineno)
    BY <1>4, <1>6 DEF ReadOperator
  <2>. QED  BY <2>1, FailNest
<1>7. CASE Matching(token.text) # {}
  <2>1. PICK op : op = operators[First(Matching(token.text))]
    OBVIOUS
  <2>2. PICK unused : unused = SubSeq(token.text, Len(op) + 1, Len(token.text))
    OBVIOUS
  <2>3. op \in Seq(Bytes)
    <3>1. op \in Seq(operatorChars)
      BY <1>4, <1>7, <2>1, OperatorRound, TakenOperator
    <3>. QED  BY <3>1, OperatorCharsAreBytes, SeqSubset
  <2>4. PICK r : r = UnreadAll(s, unused)
    OBVIOUS
  <2>5. r.lineno = s.lineno
    BY <1>5, <2>4 DEF UnreadAll, ReaderState
  <2>6. PICK t \in Token : t = [token EXCEPT !.text = op]
    BY <1>3, <2>3, TokenUpdates
  <2>7. t.lineno = token.lineno /\ Proper(t)
    BY <1>2, <1>3, <2>6 DEF Token, Proper
  <2>8. Finish(r, t) \/ Fail(r, "no such operator", s.lineno)
    BY <1>4, <1>7, <2>1, <2>2, <2>4, <2>6 DEF ReadOperator
  <2>9. CASE Fail(r, "no such operator", s.lineno)
    BY <2>9, FailNest
  <2>10. CASE Finish(r, t)
    BY <1>3, <1>5, <2>5, <2>7, <2>10, SameLineFinish
  <2>. QED  BY <2>8, <2>9, <2>10
<1>. QED  BY <1>6, <1>7

-----------------------------------------------------------------------------
\* The depth of a list made of two.
LEMMA CountType ==
    ASSUME NEW list, NEW i \in Nat, NEW type
    PROVE  CountIn(list, i, type) \in Nat /\ IsFiniteSet(PlacesOf(list, i, type))
<1>1. IsFiniteSet(1 .. i)
  BY FS_Interval
<1>2. PlacesOf(list, i, type) \in SUBSET (1 .. i)
  BY DEF PlacesOf
<1>3. IsFiniteSet(PlacesOf(list, i, type))
  BY <1>1, <1>2, FS_Subset
<1>. QED  BY <1>3, FS_CardinalityType DEF CountIn

LEMMA DepthType ==
    ASSUME NEW list, NEW i \in Nat
    PROVE  DepthIn(list, i) \in Int
<1>1. CountIn(list, i, "INDENT") \in Nat /\ CountIn(list, i, "DEDENT") \in Nat
  BY CountType
<1>2. \A x, y \in Nat : x - y \in Int
  OBVIOUS
<1>. QED  BY <1>1, <1>2 DEF DepthIn

LEMMA ShiftedCount ==
    ASSUME NEW m \in Nat, NEW S \in SUBSET Nat, IsFiniteSet(S)
    PROVE  IsFiniteSet({m + j : j \in S}) /\ Cardinality({m + j : j \in S}) = Cardinality(S)
<1>. DEFINE T == {m + j : j \in S}
            f == [j \in S |-> m + j]
<1>1. f \in [S -> T]
  OBVIOUS
<1>2. \A a, b \in S : f[a] = f[b] => a = b
  OBVIOUS
<1>3. \A t \in T : \E s \in S : f[s] = t
  OBVIOUS
<1>. HIDE DEF f, T
<1>4. f \in Bijection(S, T)
  BY <1>1, <1>2, <1>3 DEF Bijection, Injection, Surjection, IsInjective
<1>5. ExistsBijection(S, T)
  BY <1>4 DEF ExistsBijection
<1>6. IsFiniteSet(T) /\ Cardinality(T) = Cardinality(S)
  BY <1>5, FS_Bijection
<1>. QED  BY <1>6 DEF T

LEMMA DepthConcat ==
    ASSUME NEW a \in Seq(Token), NEW b \in Seq(Token)
    PROVE  /\ \A i \in 0 .. Len(a) : DepthIn(a \o b, i) = DepthIn(a, i)
           /\ \A k \in 0 .. Len(b) :
                DepthIn(a \o b, Len(a) + k) = DepthIn(a, Len(a)) + DepthIn(b, k)
<1>m. PICK m \in Nat : m = Len(a)
  OBVIOUS
<1>n. PICK n \in Nat : n = Len(b)
  OBVIOUS
<1>1. PICK c : c = a \o b
  OBVIOUS
<1>2. \A i \in 1 .. m : c[i] = a[i]
  BY <1>1, <1>m
<1>3. \A i \in 1 .. n : c[m + i] = b[i]
  BY <1>1, <1>m, <1>n
<1>4. ASSUME NEW type, NEW i \in 0 .. m PROVE CountIn(c, i, type) = CountIn(a, i, type)
  <2>1. \A j \in 1 .. i : j \in 1 .. m
    OBVIOUS
  <2>2. PlacesOf(c, i, type) = PlacesOf(a, i, type)
    BY <1>2, <2>1 DEF PlacesOf
  <2>. QED  BY <2>2 DEF CountIn
<1>5. ASSUME NEW type, NEW k \in 0 .. n
      PROVE  CountIn(c, m + k, type) = CountIn(a, m, type) + CountIn(b, k, type)
  <2>1. PICK A : A = PlacesOf(a, m, type) /\ A = {j \in 1 .. m : a[j].type = type}
    BY DEF PlacesOf
  <2>2. PICK B \in SUBSET (1 .. k) :
            B = PlacesOf(b, k, type) /\ B = {j \in 1 .. k : b[j].type = type}
    BY DEF PlacesOf
  <2>3. PICK C : C = {m + j : j \in B}
    OBVIOUS
  <2>4. PlacesOf(c, m + k, type) = A \cup C
    <3>1. ASSUME NEW j \in 1 .. m + k, c[j].type = type PROVE j \in A \cup C
      <4>1. CASE j \in 1 .. m
        BY <1>2, <2>1, <3>1, <4>1
      <4>2. CASE j \notin 1 .. m
        <5>1. PICK x \in 1 .. k : j = m + x
          <6>1. j - m \in 1 .. k /\ j = m + (j - m)
            BY <4>2
          <6>. QED  BY <6>1
        <5>2. x \in 1 .. n
          OBVIOUS
        <5>3. x \in B
          BY <1>3, <2>2, <3>1, <5>1, <5>2
        <5>. QED  BY <2>3, <5>1, <5>3
      <4>. QED  BY <4>1, <4>2
    <3>2. ASSUME NEW j \in A PROVE j \in 1 .. m + k /\ c[j].type = type
      <4>1. j \in 1 .. m /\ a[j].type = type
        BY <2>1, <3>2
      <4>. QED  BY <1>2, <4>1
    <3>3. ASSUME NEW x \in B PROVE m + x \in 1 .. m + k /\ c[m + x].type = type
      <4>1. x \in 1 .. k /\ b[x].type = type /\ x \in 1 .. n
        BY <2>2, <3>3
      <4>2. m + x \in 1 .. m + k
        BY <4>1
      <4>. QED  BY <1>3, <4>1, <4>2
    <3>. QED  BY <2>3, <3>1, <3>2, <3>3 DEF PlacesOf
  <2>5. ASSUME NEW x \in A, x \in C PROVE FALSE
    <3>1. x \in 1 .. m
      BY <2>1
    <3>2. PICK y \in 1 .. k : x = m + y
      BY <2>2, <2>3, <2>5
    <3>. QED  BY <3>1, <3>2
  <2>6. k \in Nat
    OBVIOUS
  <2>7. IsFiniteSet(A) /\ Cardinality(A) = CountIn(a, m, type)
    BY <2>1, CountType DEF CountIn
  <2>8. IsFiniteSet(B) /\ Cardinality(B) = CountIn(b, k, type)
    BY <2>2, <2>6, CountType DEF CountIn
  <2>9. IsFiniteSet(C) /\ Cardinality(C) = Cardinality(B)
    <3>1. B \in SUBSET Nat
      BY <2>2
    <3>. QED  BY <2>3, <2>8, <3>1, ShiftedCount
  <2>10. Cardinality(A \cup C) = Cardinality(A) + Cardinality(C) - Cardinality(A \cap C)
    BY <2>7, <2>9, FS_Union
  <2>11. Cardinality(A \cap C) = 0
    <3>1. A \cap C = {}
      BY <2>5
    <3>. QED  BY <3>1, FS_EmptySet
  <2>12. CountIn(a, m, type) \in Nat /\ CountIn(b, k, type) \in Nat
    BY <2>6, CountType
  <2>13. \A x, y \in Nat : x + y - 0 = x + y
    OBVIOUS
  <2>14. Cardinality(A \cup C) = CountIn(a, m, type) + CountIn(b, k, type)
    BY <2>7, <2>8, <2>9, <2>10, <2>11, <2>12, <2>13
  <2>. QED  BY <2>4, <2>14 DEF CountIn
<1>6. ASSUME NEW i \in 0 .. m PROVE DepthIn(c, i) = DepthIn(a, i)
  <2>1. \A type : CountIn(c, i, type) = CountIn(a, i, type)
    BY <1>4
  <2>. QED  BY <2>1 DEF DepthIn
<1>7. ASSUME NEW k \in 0 .. n
      PROVE  DepthIn(c, m + k) = DepthIn(a, m) + DepthIn(b, k)
  <2>1. \A type : CountIn(c, m + k, type) = CountIn(a, m, type) + CountIn(b, k, type)
    BY <1>5
  <2>2. k \in Nat
    OBVIOUS
  <2>3. \A type : CountIn(a, m, type) \in Nat /\ CountIn(b, k, type) \in Nat
    BY <2>2, CountType
  <2>4. \A w, x, y, z \in Nat : (w + x) - (y + z) = (w - y) + (x - z)
    OBVIOUS
  <2>5. (CountIn(a, m, "INDENT") + CountIn(b, k, "INDENT"))
            - (CountIn(a, m, "DEDENT") + CountIn(b, k, "DEDENT"))
        = DepthIn(a, m) + DepthIn(b, k)
    BY <2>3, <2>4 DEF DepthIn
  <2>. QED  BY <2>1, <2>5 DEF DepthIn
<1>. QED  BY <1>m, <1>n, <1>1, <1>6, <1>7

LEMMA DepthOfEmpty == DepthIn(<<>>, 0) = 0 /\ Len(<<>>) = 0
<1>1. 1 .. 0 = {} /\ Len(<<>>) = 0
  OBVIOUS
<1>2. \A type : CountIn(<<>>, 0, type) = 0
  BY <1>1, FS_EmptySet DEF CountIn, PlacesOf
<1>. QED  BY <1>1, <1>2 DEF DepthIn

LEMMA NestedConcat ==
    ASSUME NEW text, NEW d \in Int, NEW a \in Seq(Token), NEW b \in Seq(Token), NEW e \in Int,
           e = d + DepthIn(a, Len(a)), Nested(text, d, a), Nested(text, e, b)
    PROVE  /\ Nested(text, d, a \o b) /\ a \o b \in Seq(Token)
           /\ d + DepthIn(a \o b, Len(a \o b)) = e + DepthIn(b, Len(b))
<1>1. PICK m \in Nat : m = Len(a)
  OBVIOUS
<1>2. PICK n \in Nat : n = Len(b)
  OBVIOUS
<1>3. PICK c \in Seq(Token) : c = a \o b
  <2>1. a \o b \in Seq(Token)
    BY ConcatSeq
  <2>. QED  BY <2>1
<1>4. Len(c) = m + n /\ (\A i \in 1 .. m : c[i] = a[i]) /\ (\A i \in 1 .. n : c[m + i] = b[i])
  BY <1>1, <1>2, <1>3
<1>5. /\ \A i \in 0 .. m : DepthIn(c, i) = DepthIn(a, i)
      /\ \A k \in 0 .. n : DepthIn(c, m + k) = DepthIn(a, m) + DepthIn(b, k)
  <2>1. /\ \A i \in 0 .. Len(a) : DepthIn(a \o b, i) = DepthIn(a, i)
        /\ \A k \in 0 .. Len(b) :
                DepthIn(a \o b, Len(a) + k) = DepthIn(a, Len(a)) + DepthIn(b, k)
    BY DepthConcat
  <2>. QED  BY <1>1, <1>2, <1>3, <2>1
<1>6. DepthIn(a, m) \in Int
  BY DepthType
<1>7. ASSUME NEW k \in 0 .. n PROVE d + DepthIn(c, m + k) = e + DepthIn(b, k)
  <2>1. k \in Nat
    OBVIOUS
  <2>2. DepthIn(b, k) \in Int
    BY <2>1, DepthType
  <2>3. DepthIn(c, m + k) = DepthIn(a, m) + DepthIn(b, k)
    BY <1>5
  <2>4. \A x, y, z \in Int : x + (y + z) = (x + y) + z
    OBVIOUS
  <2>5. d + (DepthIn(a, m) + DepthIn(b, k)) = (d + DepthIn(a, m)) + DepthIn(b, k)
    BY <1>6, <2>2, <2>4
  <2>. QED  BY <1>1, <2>3, <2>5
<1>8. ASSUME NEW i \in 1 .. m + n
      PROVE  /\ d + DepthIn(c, i) >= 0
             /\ Proper(c[i]) => 4 * (d + DepthIn(c, i)) = SpacesOf(text, c[i].lineno)
  <2>1. CASE i \in 1 .. m
    <3>1. i \in 0 .. m
      BY <2>1
    <3>2. DepthIn(c, i) = DepthIn(a, i) /\ c[i] = a[i]
      BY <1>4, <1>5, <2>1, <3>1
    <3>. QED  BY <1>1, <2>1, <3>2 DEF Nested
  <2>2. CASE i \notin 1 .. m
    <3>1. PICK k \in 1 .. n : i = m + k
      <4>1. i - m \in 1 .. n /\ i = m + (i - m)
        BY <2>2
      <4>. QED  BY <4>1
    <3>2. k \in 0 .. n
      OBVIOUS
    <3>3. d + DepthIn(c, i) = e + DepthIn(b, k) /\ c[i] = b[k]
      BY <1>4, <1>7, <3>1, <3>2
    <3>. QED  BY <1>2, <3>3 DEF Nested
  <2>. QED  BY <2>1, <2>2
<1>9. Nested(text, d, c)
  BY <1>4, <1>8 DEF Nested
<1>10. n \in 0 .. n
  BY <1>2
<1>. QED  BY <1>2, <1>3, <1>4, <1>7, <1>9, <1>10

LEMMA NestedEmpty ==
    ASSUME NEW text, NEW d
    PROVE  Nested(text, d, <<>>) /\ DepthIn(<<>>, Len(<<>>)) = 0
<1>1. 1 .. 0 = {}
  OBVIOUS
<1>. QED  BY <1>1, DepthOfEmpty DEF Nested

\* Pieces of one kind of tokens.
LEMMA NestedTokens ==
    ASSUME NEW text, NEW d \in Nat, NEW b \in Seq(Token), NEW n \in Nat, n = Len(b),
           NEW type, \A i \in 1 .. n : b[i].type = type
    PROVE  /\ type = "INDENT" => Nested(text, d, b) /\ DepthIn(b, n) = n
           /\ type = "DEDENT" /\ d >= n => Nested(text, d, b) /\ DepthIn(b, n) = 0 - n
           /\ type \in {"NEWLINE", "END_OF_FILE"} => Nested(text, d, b) /\ DepthIn(b, n) = 0
<1>1. ASSUME NEW i \in 0 .. n PROVE CountIn(b, i, type) = i
  <2>1. i \in Nat /\ i \in Int /\ \A j \in 1 .. i : j \in 1 .. n
    OBVIOUS
  <2>2. PlacesOf(b, i, type) = 1 .. i
    BY <2>1 DEF PlacesOf
  <2>3. Cardinality(1 .. i) = IF 1 > i THEN 0 ELSE i - 1 + 1
    BY <2>1, FS_Interval
  <2>. QED  BY <2>1, <2>2, <2>3 DEF CountIn
<1>2. ASSUME NEW i \in 0 .. n, NEW other, other # type PROVE CountIn(b, i, other) = 0
  <2>1. \A j \in 1 .. i : j \in 1 .. n
    OBVIOUS
  <2>2. PlacesOf(b, i, other) = {}
    BY <1>2, <2>1 DEF PlacesOf
  <2>. QED  BY <2>2, FS_EmptySet DEF CountIn
<1>3. \A i \in 0 .. n : i - 0 = i /\ (d >= n => d + (0 - i) >= 0) /\ d + i >= 0 /\ d + (0 - 0) >= 0 /\ 0 - 0 = 0
  OBVIOUS
<1>4. n \in 0 .. n /\ \A i \in 1 .. n : i \in 0 .. n
  OBVIOUS
<1>5. ASSUME type = "INDENT" PROVE Nested(text, d, b) /\ DepthIn(b, n) = n
  <2>1. ASSUME NEW i \in 0 .. n PROVE DepthIn(b, i) = i
    <3>1. CountIn(b, i, "INDENT") = i
      BY <1>1, <1>5
    <3>2. CountIn(b, i, "DEDENT") = 0
      BY <1>2, <1>5
    <3>. QED  BY <1>3, <3>1, <3>2 DEF DepthIn
  <2>2. \A i \in 1 .. n : ~ Proper(b[i])
    BY <1>5 DEF Proper
  <2>. QED  BY <1>3, <1>4, <2>1, <2>2 DEF Nested
<1>6. ASSUME type = "DEDENT", d >= n PROVE Nested(text, d, b) /\ DepthIn(b, n) = 0 - n
  <2>1. ASSUME NEW i \in 0 .. n PROVE DepthIn(b, i) = 0 - i
    <3>1. CountIn(b, i, "DEDENT") = i
      BY <1>1, <1>6
    <3>2. CountIn(b, i, "INDENT") = 0
      BY <1>2, <1>6
    <3>. QED  BY <3>1, <3>2 DEF DepthIn
  <2>2. \A i \in 1 .. n : ~ Proper(b[i])
    BY <1>6 DEF Proper
  <2>. QED  BY <1>3, <1>4, <1>6, <2>1, <2>2 DEF Nested
<1>7. ASSUME type \in {"NEWLINE", "END_OF_FILE"} PROVE Nested(text, d, b) /\ DepthIn(b, n) = 0
  <2>1. ASSUME NEW i \in 0 .. n PROVE DepthIn(b, i) = 0 - 0
    <3>1. CountIn(b, i, "DEDENT") = 0 /\ CountIn(b, i, "INDENT") = 0
      BY <1>2, <1>7
    <3>. QED  BY <3>1 DEF DepthIn
  <2>2. \A i \in 1 .. n : ~ Proper(b[i])
    BY <1>7 DEF Proper
  <2>. QED  BY <1>3, <1>4, <2>1, <2>2 DEF Nested
<1>. QED  BY <1>5, <1>6, <1>7

LEMMA NestedProper ==
    ASSUME NEW text, NEW d \in Nat, NEW t \in Token, Proper(t),
           4 * d = SpacesOf(text, t.lineno)
    PROVE  Nested(text, d, <<t>>) /\ DepthIn(<<t>>, Len(<<t>>)) = 0
<1>1. PICK b \in Seq(Token) : b = <<t>> /\ Len(b) = 1 /\ b[1] = t
  <2>1. <<t>> \in Seq(Token) /\ Len(<<t>>) = 1 /\ <<t>>[1] = t
    OBVIOUS
  <2>. QED  BY <2>1
<1>2. ASSUME NEW type \in {"INDENT", "DEDENT"} PROVE CountIn(b, 1, type) = 0
  <2>1. PlacesOf(b, 1, type) = {}
    <3>1. t.type # type
      BY DEF Proper
    <3>2. \A j \in 1 .. 1 : j = 1
      OBVIOUS
    <3>. QED  BY <1>1, <3>1, <3>2 DEF PlacesOf
  <2>. QED  BY <2>1, FS_EmptySet DEF CountIn
<1>3. DepthIn(b, 1) = 0
  BY <1>2 DEF DepthIn
<1>4. d + 0 = d /\ d >= 0
  OBVIOUS
<1>5. \A i \in 1 .. 1 : i = 1
  OBVIOUS
<1>6. Nested(text, d, b)
  BY <1>1, <1>3, <1>4, <1>5 DEF Nested
<1>. QED  BY <1>1, <1>3, <1>6

LEMMA NextUnder ==
    ASSUME TokenizeInv, NestLaw, tokens # <<>>
    PROVE  /\ \A i \in 2 .. Len(Tail(tokens)) : Under(Source, Tail(tokens)[i - 1], Tail(tokens)[i])
           /\ Tail(tokens) # <<>> => Under(Source, NextToken, Tail(tokens)[1])
<1>1. tokens \in Seq(Token)
  BY DEF TokenizeInv, TypeInv
<1>2. PICK n \in Nat : Len(tokens) = n + 1
  <2>1. Len(tokens) - 1 \in Nat /\ Len(tokens) = (Len(tokens) - 1) + 1
    BY <1>1
  <2>. QED  BY <2>1
<1>3. Len(Tail(tokens)) = n /\ \A i \in 1 .. n : Tail(tokens)[i] = tokens[i + 1]
  BY <1>1, <1>2
<1>4. ASSUME NEW i \in 2 .. n PROVE Under(Source, Tail(tokens)[i - 1], Tail(tokens)[i])
  <2>1. i - 1 \in 1 .. n /\ i \in 1 .. n /\ i + 1 \in 2 .. n + 1 /\ i - 1 + 1 = i /\ i + 1 - 1 = i
    BY <1>4
  <2>2. Tail(tokens)[i - 1] = tokens[i] /\ Tail(tokens)[i] = tokens[i + 1]
    BY <1>3, <2>1
  <2>3. Under(Source, tokens[i + 1 - 1], tokens[i + 1])
    BY <1>2, <2>1 DEF NestLaw
  <2>. QED  BY <2>1, <2>2, <2>3
<1>5. ASSUME Tail(tokens) # <<>> PROVE Under(Source, NextToken, Tail(tokens)[1])
  <2>1. 1 \in 1 .. n /\ 2 \in 2 .. n + 1
    BY <1>1, <1>2, <1>3, <1>5
  <2>2. Tail(tokens)[1] = tokens[2]
    BY <1>3, <2>1
  <2>3. Under(Source, tokens[1], tokens[2])
    BY <1>2, <2>1 DEF NestLaw
  <2>. QED  BY <2>2, <2>3 DEF NextToken
<1>. QED  BY <1>3, <1>4, <1>5

\* What every round of handle_indentations starts from.
LEMMA HandlingRound ==
    ASSUME TokenizeInv, NestLaw, NEW types, InIndentations(types)
    PROVE  /\ reading = "handle_indentations" /\ tokens # <<>> /\ NextToken \in Token
           /\ NextToken.type \in types /\ output \in Seq(Token) /\ HandlingNest
           /\ LinesOf(tokens) = LineOf(NextToken) \cup LinesOf(Tail(tokens))
           /\ \E d \in Nat : d = DepthIn(output, Len(output)) /\ 4 * d = level
<1>1. /\ reading = "handle_indentations" /\ tokens # <<>> /\ NextToken \in Token
      /\ NextToken.type \in types /\ output \in Seq(Token) /\ tokens \in Seq(Token)
  BY Indenting
<1>2. HandlingNest
  BY <1>1 DEF NestLaw
<1>3. LinesOf(tokens) = LineOf(NextToken) \cup LinesOf(Tail(tokens))
  BY <1>1, LinesOfFirst DEF NextToken
<1>4. PICK d \in Int : d = DepthIn(output, Len(output))
  <2>1. Len(output) \in Nat
    BY <1>1
  <2>. QED  BY <2>1, DepthType
<1>5. 4 * d = level /\ level \in Nat
  BY <1>2, <1>4 DEF HandlingNest, TokenizeInv, TypeInv
<1>6. d \in Nat
  BY <1>5
<1>. QED  BY <1>1, <1>2, <1>3, <1>4, <1>5, <1>6

LEMMA HandledNest ==
    ASSUME TokenizeInv, NestLaw, reading = "handle_indentations", tokens # <<>>,
           UNCHANGED <<file, reading>>, tokens' = Tail(tokens), HandlingNest,
           LinesOf(tokens) = LineOf(NextToken) \cup LinesOf(Tail(tokens)),
           NEW list, output' = list, Nested(Source, 0, list),
           4 * DepthIn(list, Len(list)) = level',
           LinesOf(list) = LinesOf(output) \cup LineOf(NextToken),
           Tail(tokens) # <<>> /\ Proper(Tail(tokens)[1]) =>
                SpacesOf(Source, Tail(tokens)[1].lineno) = level'
    PROVE  NestLaw'
<1>1. Source' = Source /\ CountNewLines(Source)' = CountNewLines(Source)
  BY DEF Source, CountNewLines
<1>2. \A i \in 2 .. Len(tokens') : Under(Source, tokens'[i - 1], tokens'[i])
  BY NextUnder
<1>3. LinesOf(list) \cup LinesOf(Tail(tokens)) = Shown(Source, CountNewLines(Source))
  BY DEF HandlingNest
<1>4. LinesOf(output)' = LinesOf(list) /\ LinesOf(tokens)' = LinesOf(Tail(tokens))
  BY DEF LinesOf, Proper
<1>5. HandlingNest'
  BY <1>1, <1>3, <1>4 DEF HandlingNest
<1>. QED  BY <1>1, <1>2, <1>5 DEF NestLaw, StillReading

LEMMA CopyTokenNest ==
    ASSUME TokenizeInv, LineLaw, NestLaw, CopyToken
    PROVE  NestLaw'
<1>. DEFINE types == {"INT", "CHAR", "STRING", "NAME", "OPERATOR"}
<1>1. InIndentations(types)
  BY DEF CopyToken
<1>. HIDE DEF types
<1>2. /\ reading = "handle_indentations" /\ tokens # <<>> /\ NextToken \in Token
      /\ NextToken.type \in types /\ output \in Seq(Token) /\ HandlingNest
      /\ LinesOf(tokens) = LineOf(NextToken) \cup LinesOf(Tail(tokens))
  BY <1>1, HandlingRound
<1>3. PICK d \in Nat : d = DepthIn(output, Len(output)) /\ 4 * d = level
  BY <1>1, HandlingRound
<1>4. Proper(NextToken)
  BY <1>2 DEF Proper, types
<1>5. SpacesOf(Source, NextToken.lineno) = level
  BY <1>2, <1>4 DEF HandlingNest, NextToken
<1>6. PICK b : b = <<NextToken>>
  OBVIOUS
<1>7. b \in Seq(Token) /\ Nested(Source, d, b) /\ DepthIn(b, Len(b)) = 0
  BY <1>2, <1>3, <1>4, <1>5, <1>6, NestedProper, SingletonSeq
<1>8. PICK list : list = output \o b
  OBVIOUS
<1>9. output' = list /\ tokens' = Tail(tokens) /\ UNCHANGED <<file, reading, level>>
  BY <1>2, <1>6, <1>8 DEF CopyToken
<1>10. Nested(Source, 0, list) /\ 0 + DepthIn(list, Len(list)) = d + 0 /\ list \in Seq(Token)
  <2>1. Nested(Source, 0, output) /\ d = 0 + DepthIn(output, Len(output))
    BY <1>2, <1>3 DEF HandlingNest
  <2>. QED  BY <1>2, <1>7, <1>8, <2>1, NestedConcat
<1>11. 4 * DepthIn(list, Len(list)) = level'
  <2>1. PICK x \in Int : x = DepthIn(list, Len(list))
    <3>1. Len(list) \in Nat
      BY <1>10
    <3>. QED  BY <3>1, DepthType
  <2>2. x = d
    BY <1>10, <2>1
  <2>. QED  BY <1>3, <1>9, <2>1, <2>2
<1>12. LinesOf(list) = LinesOf(output) \cup LineOf(NextToken)
  <2>1. list = Append(output, NextToken)
    BY <1>9 DEF CopyToken
  <2>. QED  BY <1>2, <2>1, LinesOfAppend
<1>13. ASSUME Tail(tokens) # <<>>, Proper(Tail(tokens)[1])
       PROVE  SpacesOf(Source, Tail(tokens)[1].lineno) = level'
  <2>1. Follows(NextToken, Tail(tokens)[1])
    BY <1>2, <1>13, NextTokens
  <2>2. Tail(tokens)[1].lineno = NextToken.lineno
    BY <1>4, <1>13, <2>1 DEF Follows
  <2>. QED  BY <1>5, <1>9, <2>2
<1>. QED  BY <1>2, <1>9, <1>10, <1>11, <1>12, <1>13, HandledNest

LayoutOf(b, type, n, m) ==
    /\ b \in Seq(Token) /\ LinesOf(b) = {} /\ m \in Nat
    /\ m = Len(b) /\ m = IF n > 0 THEN n ELSE 0
    /\ \A i \in 1 .. m : b[i].type = type
LEMMA LayoutPiece ==
    ASSUME NEW type \in {"NEWLINE", "INDENT", "DEDENT"}, NEW n \in Int, NEW lineno \in Int
    PROVE  \E m : LayoutOf(LayoutTokens(type, n, lineno), type, n, m)
<1>1. PICK b \in Seq(Token) : b = LayoutTokens(type, n, lineno)
  <2>1. type \in TokenTypes
    BY DEF TokenTypes
  <2>. QED  BY <2>1, LayoutTokensType
<1>2. PICK m \in Nat : m = Len(b) /\ DOMAIN b = 1 .. m
  OBVIOUS
<1>3. 1 .. m = 1 .. n
  <2>1. DOMAIN b = 1 .. n
    BY <1>1 DEF LayoutTokens
  <2>. QED  BY <1>2, <2>1
<1>4. m = IF n > 0 THEN n ELSE 0
  <2>1. CASE n > 0
    <3>1. n \in 1 .. n /\ n + 1 \notin 1 .. n
      BY <2>1
    <3>2. n \in 1 .. m /\ n + 1 \notin 1 .. m
      BY <1>3, <3>1
    <3>. QED  BY <2>1, <3>2
  <2>2. CASE ~ (n > 0)
    <3>1. 1 .. n = {}
      BY <2>2
    <3>2. 1 .. m = {}
      BY <1>3, <3>1
    <3>3. m = 0
      BY <3>2
    <3>. QED  BY <2>2, <3>3
  <2>. QED  BY <2>1, <2>2
<1>5. \A i \in 1 .. m : b[i].type = type
  <2>1. \A i \in 1 .. n : b[i].type = type
    BY <1>1 DEF LayoutTokens, NewToken
  <2>. QED  BY <1>3, <2>1
<1>6. LinesOf(b) = {}
  <2>1. \A i \in 1 .. m : ~ Proper(b[i])
    BY <1>5 DEF Proper
  <2>. QED  BY <1>2, <2>1 DEF LinesOf
<1>7. LayoutOf(b, type, n, m)
  BY <1>1, <1>2, <1>4, <1>5, <1>6 DEF LayoutOf
<1>. QED  BY <1>1, <1>7

\* A list that is nested so far and ends at some depth.
NestedTo(text, list, d) ==
    list \in Seq(Token) /\ Nested(text, 0, list) /\ DepthIn(list, Len(list)) = d

LEMMA NestedToMore ==
    ASSUME NEW text, NEW a, NEW d \in Nat, NestedTo(text, a, d),
           NEW b \in Seq(Token), Nested(text, d, b), NEW e \in Int, d + DepthIn(b, Len(b)) = e
    PROVE  NestedTo(text, a \o b, e) /\ LinesOf(a \o b) = LinesOf(a) \cup LinesOf(b)
<1>1. a \in Seq(Token) /\ Nested(text, 0, a) /\ d = 0 + DepthIn(a, Len(a))
  BY DEF NestedTo
<1>2. /\ Nested(text, 0, a \o b) /\ a \o b \in Seq(Token)
      /\ 0 + DepthIn(a \o b, Len(a \o b)) = d + DepthIn(b, Len(b))
  BY <1>1, NestedConcat
<1>3. PICK x \in Int : x = DepthIn(a \o b, Len(a \o b))
  <2>1. Len(a \o b) \in Nat
    BY <1>2
  <2>. QED  BY <2>1, DepthType
<1>4. x = e
  BY <1>2, <1>3
<1>5. LinesOf(a \o b) = LinesOf(a) \cup LinesOf(b)
  BY <1>1, LinesOfConcat
<1>. QED  BY <1>2, <1>3, <1>4, <1>5 DEF NestedTo

LEMMA NestedToIndents ==
    ASSUME NEW text, NEW a, NEW d \in Nat, NestedTo(text, a, d), NEW n \in Int, NEW lineno \in Int
    PROVE  /\ NestedTo(text, a \o LayoutTokens("INDENT", n, lineno), IF n > 0 THEN d + n ELSE d)
           /\ LinesOf(a \o LayoutTokens("INDENT", n, lineno)) = LinesOf(a)
<1>0. PICK k : LayoutOf(LayoutTokens("INDENT", n, lineno), "INDENT", n, k)
  BY LayoutPiece
<1>1. PICK b \in Seq(Token), m \in Nat :
            b = LayoutTokens("INDENT", n, lineno) /\ LinesOf(b) = {} /\ LayoutOf(b, "INDENT", n, m)
  BY <1>0 DEF LayoutOf
<1>2. m = Len(b) /\ m = IF n > 0 THEN n ELSE 0
  BY <1>1 DEF LayoutOf
<1>3. \A i \in 1 .. m : b[i].type = "INDENT"
  BY <1>1 DEF LayoutOf
<1>4. Nested(text, d, b) /\ DepthIn(b, m) = m
  BY <1>2, <1>3, NestedTokens
<1>5. PICK e \in Int : e = d + m /\ e = IF n > 0 THEN d + n ELSE d
  <2>1. d + m \in Int /\ d + m = IF n > 0 THEN d + n ELSE d
    BY <1>2
  <2>. QED  BY <2>1
<1>6. d + DepthIn(b, Len(b)) = e
  BY <1>2, <1>4, <1>5
<1>7. NestedTo(text, a \o b, e) /\ LinesOf(a \o b) = LinesOf(a) \cup LinesOf(b)
  BY <1>4, <1>6, NestedToMore
<1>. QED  BY <1>1, <1>2, <1>5, <1>7

LEMMA NestedToDedents ==
    ASSUME NEW text, NEW a, NEW d \in Nat, NestedTo(text, a, d), NEW n \in Int, n <= d,
           NEW lineno \in Int
    PROVE  /\ NestedTo(text, a \o LayoutTokens("DEDENT", n, lineno), IF n > 0 THEN d - n ELSE d)
           /\ LinesOf(a \o LayoutTokens("DEDENT", n, lineno)) = LinesOf(a)
<1>0. PICK k : LayoutOf(LayoutTokens("DEDENT", n, lineno), "DEDENT", n, k)
  BY LayoutPiece
<1>1. PICK b \in Seq(Token), m \in Nat :
            b = LayoutTokens("DEDENT", n, lineno) /\ LinesOf(b) = {} /\ LayoutOf(b, "DEDENT", n, m)
  BY <1>0 DEF LayoutOf
<1>2. m = Len(b) /\ m = IF n > 0 THEN n ELSE 0
  BY <1>1 DEF LayoutOf
<1>3. \A i \in 1 .. m : b[i].type = "DEDENT"
  BY <1>1 DEF LayoutOf
<1>4. d >= m
  BY <1>2
<1>5. Nested(text, d, b) /\ DepthIn(b, m) = 0 - m
  BY <1>2, <1>3, <1>4, NestedTokens
<1>6. PICK e \in Int : e = d + (0 - m) /\ e = IF n > 0 THEN d - n ELSE d
  <2>1. d + (0 - m) \in Int /\ d + (0 - m) = IF n > 0 THEN d - n ELSE d
    BY <1>2
  <2>. QED  BY <2>1
<1>7. d + DepthIn(b, Len(b)) = e
  BY <1>2, <1>5, <1>6
<1>8. NestedTo(text, a \o b, e) /\ LinesOf(a \o b) = LinesOf(a) \cup LinesOf(b)
  BY <1>5, <1>7, NestedToMore
<1>. QED  BY <1>1, <1>2, <1>6, <1>8

\* A newline or the end of the file does not change the depth.
LEMMA NestedToMark ==
    ASSUME NEW text, NEW a, NEW d \in Nat, NestedTo(text, a, d),
           NEW t \in Token, t.type \in {"NEWLINE", "END_OF_FILE"}
    PROVE  NestedTo(text, a \o <<t>>, d) /\ LinesOf(a \o <<t>>) = LinesOf(a)
<1>1. PICK b \in Seq(Token) : b = <<t>> /\ Len(b) = 1 /\ b[1] = t
  <2>1. <<t>> \in Seq(Token) /\ Len(<<t>>) = 1 /\ <<t>>[1] = t
    OBVIOUS
  <2>. QED  BY <2>1
<1>2. \A i \in 1 .. 1 : i = 1
  OBVIOUS
<1>3. PICK m \in Nat : m = 1
  OBVIOUS
<1>4. Nested(text, d, b) /\ DepthIn(b, m) = 0
  <2>1. m = Len(b) /\ \A i \in 1 .. m : b[i].type = t.type
    BY <1>1, <1>2, <1>3
  <2>. QED  BY <2>1, NestedTokens
<1>5. d + DepthIn(b, Len(b)) = d
  <2>1. d + 0 = d
    OBVIOUS
  <2>. QED  BY <1>1, <1>3, <1>4, <2>1
<1>6. NestedTo(text, a \o b, d) /\ LinesOf(a \o b) = LinesOf(a) \cup LinesOf(b)
  BY <1>4, <1>5, NestedToMore
<1>7. LinesOf(b) = {}
  BY <1>1, <1>2 DEF LinesOf, Proper
<1>. QED  BY <1>1, <1>6, <1>7

LEMMA HandleNewlineNest ==
    ASSUME TokenizeInv, NestLaw, HandleNewline
    PROVE  NestLaw'
<1>1. PICK new : new = NextToken.indentation_level
  OBVIOUS
<1>2. PICK lineno : lineno = NextToken.lineno + 1
  OBVIOUS
<1>3. InIndentations({"NEWLINE"})
  BY DEF HandleNewline
<1>4. /\ reading = "handle_indentations" /\ tokens # <<>> /\ NextToken \in Token
      /\ NextToken.type = "NEWLINE" /\ output \in Seq(Token) /\ HandlingNest
      /\ LinesOf(tokens) = LineOf(NextToken) \cup LinesOf(Tail(tokens))
  BY <1>3, HandlingRound
<1>5. PICK d \in Nat : d = DepthIn(output, Len(output)) /\ 4 * d = level
  BY <1>3, HandlingRound
<1>6. CASE new % 4 # 0
  <2>1. Fail(st, "indentation must be a multiple of 4 spaces", lineno)
    BY <1>1, <1>2, <1>6 DEF HandleNewline
  <2>. QED  BY <2>1, FailNest
<1>7. CASE ~ (new % 4 # 0)
  <2>1. /\ output' = output \o <<NextToken>> \o LayoutTokens("INDENT", (new - level) \div 4, lineno)
                            \o LayoutTokens("DEDENT", (level - new) \div 4, lineno)
        /\ tokens' = Tail(tokens) /\ UNCHANGED <<file, reading>> /\ level' = new
    BY <1>1, <1>2, <1>4, <1>7 DEF HandleNewline
  <2>2. new \in Nat /\ lineno \in Int
    BY <1>1, <1>2, <1>4 DEF Token
  <2>3. PICK e \in Nat : new = 4 * e
    <3>1. new = 4 * (new \div 4) /\ new \div 4 \in Nat
      BY <1>7, <2>2
    <3>. QED  BY <3>1
  <2>4. PICK x \in Int : x = (new - level) \div 4 /\ x = e - d
    <3>1. new - level = 4 * (e - d)
      BY <1>5, <2>3
    <3>2. (4 * (e - d)) \div 4 = e - d
      OBVIOUS
    <3>. QED  BY <3>1, <3>2
  <2>5. PICK y \in Int : y = (level - new) \div 4 /\ y = d - e
    <3>1. level - new = 4 * (d - e)
      BY <1>5, <2>3
    <3>2. (4 * (d - e)) \div 4 = d - e
      OBVIOUS
    <3>. QED  BY <3>1, <3>2
  <2>6. NestedTo(Source, output, d)
    BY <1>4, <1>5 DEF NestedTo, HandlingNest
  <2>7. PICK a : a = output \o <<NextToken>>
    OBVIOUS
  <2>8. NestedTo(Source, a, d) /\ LinesOf(a) = LinesOf(output)
    BY <1>4, <2>6, <2>7, NestedToMark
  <2>9. PICK b : b = a \o LayoutTokens("INDENT", x, lineno)
    OBVIOUS
  <2>10. PICK f \in Nat : f = (IF x > 0 THEN d + x ELSE d)
    <3>1. (IF x > 0 THEN d + x ELSE d) \in Nat
      BY <2>4
    <3>. QED  BY <3>1
  <2>11. NestedTo(Source, b, f) /\ LinesOf(b) = LinesOf(output)
    BY <2>2, <2>8, <2>9, <2>10, NestedToIndents
  <2>12. PICK list : list = b \o LayoutTokens("DEDENT", y, lineno)
    OBVIOUS
  <2>13. y <= f /\ (IF y > 0 THEN f - y ELSE f) = e
    BY <2>4, <2>5, <2>10
  <2>14. NestedTo(Source, list, e) /\ LinesOf(list) = LinesOf(output)
    <3>1. y <= f /\ lineno \in Int /\ NestedTo(Source, b, f)
      BY <2>2, <2>11, <2>13
    <3>2. /\ NestedTo(Source, b \o LayoutTokens("DEDENT", y, lineno), IF y > 0 THEN f - y ELSE f)
          /\ LinesOf(b \o LayoutTokens("DEDENT", y, lineno)) = LinesOf(b)
      BY <3>1, NestedToDedents
    <3>. QED  BY <2>11, <2>12, <2>13, <3>2
  <2>15. output' = list
    BY <2>1, <2>4, <2>5, <2>7, <2>9, <2>12
  <2>16. LinesOf(list) = LinesOf(output) \cup LineOf(NextToken)
    BY <1>4, <2>14 DEF LineOf, Proper
  <2>17. Nested(Source, 0, list) /\ 4 * DepthIn(list, Len(list)) = level'
    BY <2>1, <2>3, <2>14 DEF NestedTo
  <2>18. Tail(tokens) # <<>> /\ Proper(Tail(tokens)[1]) =>
            SpacesOf(Source, Tail(tokens)[1].lineno) = level'
    BY <1>1, <1>4, <2>1, NextUnder DEF Under
  <2>. QED  BY <1>4, <2>1, <2>15, <2>16, <2>17, <2>18, HandledNest
<1>. QED  BY <1>6, <1>7

\* The first element, the fake newline, is taken off.
LEMMA NestedTail ==
    ASSUME NEW text, NEW list \in Seq(Token), list # <<>>, list[1].type = "NEWLINE",
           NEW d, NestedTo(text, list, d)
    PROVE  NestedTo(text, Tail(list), d) /\ LinesOf(Tail(list)) = LinesOf(list)
<1>1. PICK n \in Nat : Len(list) = n + 1
  <2>1. Len(list) - 1 \in Nat /\ Len(list) = (Len(list) - 1) + 1
    OBVIOUS
  <2>. QED  BY <2>1
<1>2. PICK b \in Seq(Token) : b = Tail(list) /\ Len(b) = n
  <2>1. Tail(list) \in Seq(Token)
    BY TailSeq
  <2>2. Len(Tail(list)) = n
    BY <1>1
  <2>. QED  BY <2>1, <2>2
<1>3. PICK x \in Token : x = list[1] /\ x.type = "NEWLINE"
  <2>1. list[1] \in Token
    BY <1>1
  <2>. QED  BY <2>1
<1>4. PICK a \in Seq(Token) : a = <<x>> /\ Len(a) = 1 /\ a[1] = x
  <2>1. <<x>> \in Seq(Token) /\ Len(<<x>>) = 1 /\ <<x>>[1] = x
    OBVIOUS
  <2>. QED  BY <2>1
<1>5. list = a \o b
  <2>1. <<list[1]>> \o Tail(list) = list
    OBVIOUS
  <2>. QED  BY <1>2, <1>3, <1>4, <2>1
<1>6. DepthIn(a, 1) = 0
  <2>1. \A i \in 1 .. 1 : i = 1
    OBVIOUS
  <2>2. PICK m \in Nat : m = 1
    OBVIOUS
  <2>3. m = Len(a) /\ \A i \in 1 .. m : a[i].type = "NEWLINE"
    BY <1>3, <1>4, <2>1, <2>2
  <2>4. PICK zero \in Nat : zero = 0
    OBVIOUS
  <2>5. DepthIn(a, m) = 0
    BY <2>3, <2>4, NestedTokens
  <2>. QED  BY <2>2, <2>5
<1>7. ASSUME NEW k \in 0 .. n PROVE DepthIn(list, k + 1) = DepthIn(b, k)
  <2>1. \A i \in 0 .. Len(b) : DepthIn(a \o b, Len(a) + i) = DepthIn(a, Len(a)) + DepthIn(b, i)
    BY DepthConcat
  <2>2. DepthIn(list, 1 + k) = 0 + DepthIn(b, k)
    BY <1>2, <1>4, <1>5, <1>6, <2>1
  <2>3. DepthIn(b, k) \in Int /\ 1 + k = k + 1
    <3>1. k \in Nat /\ 1 + k = k + 1
      OBVIOUS
    <3>. QED  BY <3>1, DepthType
  <2>4. \A y \in Int : 0 + y = y
    OBVIOUS
  <2>. QED  BY <2>2, <2>3, <2>4
<1>8. n \in 0 .. n /\ \A i \in 1 .. n : i \in 0 .. n /\ i + 1 \in 1 .. n + 1
  OBVIOUS
<1>9. \A i \in 1 .. n : b[i] = list[i + 1]
  BY <1>1, <1>2
<1>10. Nested(text, 0, b)
  <2>1. ASSUME NEW i \in 1 .. n
        PROVE  /\ 0 + DepthIn(b, i) >= 0
               /\ Proper(b[i]) => 4 * (0 + DepthIn(b, i)) = SpacesOf(text, b[i].lineno)
    <3>1. i + 1 \in 1 .. Len(list)
      BY <1>1, <1>8
    <3>2. /\ 0 + DepthIn(list, i + 1) >= 0
          /\ Proper(list[i + 1]) => 4 * (0 + DepthIn(list, i + 1)) = SpacesOf(text, list[i + 1].lineno)
      BY <3>1 DEF NestedTo, Nested
    <3>. QED  BY <1>7, <1>8, <1>9, <3>2
  <2>. QED  BY <1>2, <2>1 DEF Nested
<1>11. DepthIn(b, n) = d
  BY <1>1, <1>7, <1>8 DEF NestedTo
<1>12. LinesOf(list) = LinesOf(Tail(list))
  <2>1. LinesOf(list) = LineOf(list[1]) \cup LinesOf(Tail(list))
    BY LinesOfFirst
  <2>. QED  BY <2>1 DEF LineOf, Proper
<1>. QED  BY <1>2, <1>10, <1>11, <1>12 DEF NestedTo

LEMMA FirstStays ==
    ASSUME NEW a \in Seq(Token), NEW b \in Seq(Token), a # <<>>
    PROVE  a \o b # <<>> /\ (a \o b)[1] = a[1]
OBVIOUS

LEMMA HandleEndOfFileNest ==
    ASSUME TokenizeInv, LineLaw, NestLaw, HandleEndOfFile
    PROVE  NestLaw'
<1>1. InIndentations({"END_OF_FILE"})
  BY DEF HandleEndOfFile
<1>2. /\ reading = "handle_indentations" /\ tokens # <<>> /\ NextToken \in Token
      /\ NextToken.type = "END_OF_FILE" /\ output \in Seq(Token) /\ HandlingNest
      /\ LinesOf(tokens) = LineOf(NextToken) \cup LinesOf(Tail(tokens))
  BY <1>1, HandlingRound
<1>3. PICK d \in Nat : d = DepthIn(output, Len(output)) /\ 4 * d = level
  BY <1>1, HandlingRound
<1>4. LinesOf(tokens) = {}
  <2>1. Tail(tokens) = <<>>
    <3>. SUFFICES ASSUME Tail(tokens) # <<>> PROVE FALSE
      OBVIOUS
    <3>1. Follows(NextToken, Tail(tokens)[1])
      BY <1>2, NextTokens
    <3>. QED  BY <1>2, <3>1 DEF Follows, Proper
  <2>. QED  BY <1>2, <2>1, LinesOfEmpty DEF LineOf, Proper
<1>5. PICK lineno \in Int : lineno = NextToken.lineno
  BY <1>2 DEF Token
<1>6. PICK t : t = [NewToken(lineno) EXCEPT !.type = "NEWLINE"]
  OBVIOUS
<1>7. t \in Token /\ t.type = "NEWLINE"
  <2>1. t.type = "NEWLINE"
    BY <1>6 DEF NewToken
  <2>2. t \in Token
    BY <1>6, NewTokenType, TokenUpdates DEF TokenTypes
  <2>. QED  BY <2>1, <2>2
<1>8. LayoutTokens("NEWLINE", 1, lineno) = <<t>>
  <2>1. LayoutTokens("NEWLINE", 1, lineno) = [i \in 1 .. 1 |-> t]
    BY <1>6 DEF LayoutTokens
  <2>2. [i \in 1 .. 1 |-> t] = <<t>>
    OBVIOUS
  <2>. QED  BY <2>1, <2>2
<1>9. NestedTo(Source, output, d)
  BY <1>2, <1>3 DEF NestedTo, HandlingNest
<1>10. PICK a : a = output \o <<t>>
  OBVIOUS
<1>11. NestedTo(Source, a, d) /\ LinesOf(a) = LinesOf(output)
  BY <1>7, <1>9, <1>10, NestedToMark
<1>12. level \div 4 = d
  BY <1>3
<1>13. PICK b : b = a \o LayoutTokens("DEDENT", d, lineno)
  OBVIOUS
<1>14. NestedTo(Source, b, 0) /\ LinesOf(b) = LinesOf(output)
  <2>1. (IF d > 0 THEN d - d ELSE d) = 0 /\ d \in Int /\ d <= d
    OBVIOUS
  <2>. QED  BY <1>11, <1>13, <2>1, NestedToDedents
<1>15. PICK closed : closed = b \o <<NextToken>>
  OBVIOUS
<1>16. NestedTo(Source, closed, 0) /\ LinesOf(closed) = LinesOf(output)
  <2>1. PICK zero \in Nat : zero = 0
    OBVIOUS
  <2>2. NestedTo(Source, closed, zero) /\ LinesOf(closed) = LinesOf(b)
    BY <1>2, <1>14, <1>15, <2>1, NestedToMark
  <2>. QED  BY <1>14, <2>1, <2>2
<1>17. output' = Tail(closed)
  BY <1>5, <1>8, <1>10, <1>12, <1>13, <1>15 DEF HandleEndOfFile
<1>18. closed # <<>> /\ closed[1].type = "NEWLINE"
  <2>1. a # <<>> /\ a[1].type = "NEWLINE" /\ a \in Seq(Token)
    <3>1. PICK m \in Seq(Token) : m = <<t>> /\ m # <<>> /\ m[1] = t
      <4>1. <<t>> \in Seq(Token) /\ <<t>> # <<>> /\ <<t>>[1] = t
        BY <1>7
      <4>. QED  BY <4>1
    <3>2. CASE output = <<>>
      <4>1. output \o m = m
        BY <3>2
      <4>. QED  BY <1>7, <1>10, <3>1, <4>1
    <3>3. CASE output # <<>>
      <4>1. output[1].type = "NEWLINE"
        BY <1>1, <3>3, Indenting
      <4>2. output \o m # <<>> /\ (output \o m)[1] = output[1]
        BY <1>2, <3>3, FirstStays
      <4>. QED  BY <1>10, <1>11, <3>1, <4>1, <4>2 DEF NestedTo
    <3>. QED  BY <3>2, <3>3
  <2>2. LayoutTokens("DEDENT", d, lineno) \in Seq(Token)
    <3>1. "DEDENT" \in TokenTypes /\ d \in Int
      BY DEF TokenTypes
    <3>. QED  BY <3>1, LayoutTokensType
  <2>3. b # <<>> /\ b[1] = a[1] /\ b \in Seq(Token)
    BY <1>13, <1>14, <2>1, <2>2, FirstStays DEF NestedTo
  <2>4. <<NextToken>> \in Seq(Token)
    BY <1>2, SingletonSeq
  <2>5. closed # <<>> /\ closed[1] = b[1]
    BY <1>15, <2>3, <2>4, FirstStays
  <2>. QED  BY <2>1, <2>3, <2>5
<1>19. NestedTo(Source, output', 0) /\ LinesOf(output') = LinesOf(output)
  BY <1>16, <1>17, <1>18, NestedTail DEF NestedTo
<1>20. UNCHANGED file /\ reading' = "done" /\ tokens' = <<>>
  BY DEF HandleEndOfFile
<1>21. Source' = Source /\ CountNewLines(Source)' = CountNewLines(Source)
  BY <1>20 DEF Source, CountNewLines
<1>22. LinesOf(output)' = LinesOf(output')
  BY DEF LinesOf, Proper
<1>23. LinesOf(output') = Shown(Source, CountNewLines(Source))
  BY <1>2, <1>4, <1>19 DEF HandlingNest
<1>24. DoneNest'
  BY <1>19, <1>21, <1>22, <1>23 DEF DoneNest, NestedTo
<1>25. 2 .. Len(tokens') = {}
  <2>1. tokens' = <<>>
    BY <1>20
  <2>2. Len(tokens') = 0
    BY <2>1
  <2>3. 2 .. 0 = {}
    OBVIOUS
  <2>. QED  BY <2>2, <2>3
<1>. QED  BY <1>20, <1>21, <1>24, <1>25 DEF NestLaw, StillReading

LEMMA StepNestInv ==
    TokenizeInv /\ TokenizeInv' /\ TextInv /\ LineInv /\ NestInv /\ [Next]_vars => NestInv'
<1>. SUFFICES ASSUME TokenizeInv, TokenizeInv', TextInv, LineInv, NestInv, [Next]_vars,
                     "\\" \notin ToSet(file)'
     PROVE  NestLaw'
  BY DEF NestInv
<1>1. UNCHANGED file
  BY DEF Next, Step, Stopped, vars, ReadBadByte, ReadToken, ConsumeRestOfLine, ReadIndentation,
         ReadIdentifierOrNumber, ReadString, ReadAfterBackslash, ReadOperatorByte, ReadOperator,
         CopyToken, HandleNewline, HandleEndOfFile, Continue, Finish, Fail, MissingEndQuote
<1>2. "\\" \notin ToSet(file) /\ LineLaw /\ NestLaw
  BY <1>1 DEF LineInv, NestInv
<1>3. CASE UNCHANGED vars
  <2>1. UNCHANGED <<file, st, reading, token, tokens, level, output>>
    BY <1>3 DEF vars
  <2>2. Source' = Source /\ (ReadBy(st))' = ReadBy(st)
    BY <2>1, SameFile
  <2>3. NextByte(st)' = NextByte(st)
    BY <2>1 DEF NextByte, FromFile
  <2>4. AtIndentation(reading, st, token)' = AtIndentation(reading, st, token)
    BY <2>1, <2>2, <2>3 DEF AtIndentation
  <2>5. ReadingNest(reading, st, token)' = ReadingNest(reading, st, token)
    BY <2>1, <2>2, <2>4 DEF ReadingNest, OnNewLine
  <2>6. LinesOf(output)' = LinesOf(output) /\ LinesOf(tokens)' = LinesOf(tokens)
        /\ CountNewLines(Source)' = CountNewLines(Source)
    BY <2>1, <2>2 DEF LinesOf, Proper, CountNewLines
  <2>7. HandlingNest' = HandlingNest /\ DoneNest' = DoneNest
    BY <2>1, <2>2, <2>6 DEF HandlingNest, DoneNest
  <2>. QED  BY <1>2, <2>1, <2>2, <2>5, <2>7 DEF NestLaw, StillReading
<1>4. CASE ReadBadByte
  BY <1>2, <1>4, FailNest DEF ReadBadByte
<1>5. CASE ReadAfterBackslash
  BY <1>2, <1>5 DEF ReadAfterBackslash, In, LineLaw, ReadingLaw, StillReading
<1>. QED  BY <1>2, <1>3, <1>4, <1>5, ReadTokenNest, ConsumeRestOfLineNest, ReadIndentationNest,
             ReadIdentifierOrNumberNest, ReadStringNest, ReadOperatorByteNest, ReadOperatorNest,
             CopyTokenNest, HandleNewlineNest, HandleEndOfFileNest
          DEF Next, Step, Stopped

LEMMA NestingIsIndentation == TokenizeInv /\ NestInv => IndentationIsNesting
<1>. SUFFICES ASSUME TokenizeInv, NestInv, reading = "done", "\\" \notin ToSet(file)
     PROVE  /\ \A i \in DOMAIN output : Proper(output[i]) =>
                    4 * Depth(i) = Indentation(output[i].lineno)
            /\ {output[i].lineno : i \in {j \in DOMAIN output : Proper(output[j])}}
                    = {n \in Lines : Significant(n)}
            /\ \A i \in DOMAIN output : Depth(i) >= 0
            /\ Depth(Len(output)) = 0
  BY DEF IndentationIsNesting
<1>1. DoneNest
  BY DEF NestInv, NestLaw
<1>2. PICK size \in Nat : size = Len(output) /\ DOMAIN output = 1 .. size
  BY DEF TokenizeInv, TypeInv
<1>3. \A i : Depth(i) = DepthIn(output, i)
  BY DEF Depth, DepthIn, CountIn, PlacesOf
<1>4. ASSUME NEW i \in 1 .. size
      PROVE  /\ DepthIn(output, i) >= 0
             /\ Proper(output[i]) => 4 * DepthIn(output, i) = Indentation(output[i].lineno)
  <2>1. /\ 0 + DepthIn(output, i) >= 0
        /\ Proper(output[i]) => 4 * (0 + DepthIn(output, i)) = SpacesOf(Source, output[i].lineno)
    BY <1>1, <1>2 DEF DoneNest, Nested
  <2>2. i \in Nat
    OBVIOUS
  <2>3. DepthIn(output, i) \in Int
    BY <2>2, DepthType
  <2>4. 0 + DepthIn(output, i) = DepthIn(output, i)
    BY <2>3
  <2>. QED  BY <2>1, <2>4, LinesOfSource
<1>5. LinesOf(output) = {output[i].lineno : i \in {j \in 1 .. size : Proper(output[j])}}
  <2>1. \A i \in 1 .. size : output[i] \in Token
    BY <1>2 DEF TokenizeInv, TypeInv
  <2>2. \A t \in Token : t.lineno \in Int
    BY DEF Token
  <2>3. \A i \in 1 .. size : output[i].lineno \in Int
    BY <2>1, <2>2
  <2>. QED  BY <1>2, <2>3 DEF LinesOf
<1>6. LinesOf(output) = {n \in Lines : Significant(n)}
  BY <1>1, LinesOfSource DEF DoneNest, Shown, Lines
<1>7. DepthIn(output, size) = 0
  BY <1>1, <1>2 DEF DoneNest
<1>. QED  BY <1>2, <1>3, <1>4, <1>5, <1>6, <1>7

\* In every file without backslashes the number of levels that are open at a
\* token is what its line is indented by; exactly the lines with something but
\* a comment on them have tokens; and everything that is opened is closed.
THEOREM DepthIsIndentation == Spec => []IndentationIsNesting
<1>1. Spec => []LineInv
  BY TextInvariant, InitLineInv, StepLineInv, PTL DEF Spec
<1>2. Spec => []NestInv
  BY <1>1, TextInvariant, InitNestInv, StepNestInv, PTL DEF Spec
<1>. QED  BY <1>2, TextInvariant, NestingIsIndentation, PTL
=============================================================================
