----------------------------- MODULE MCTokenize -----------------------------
EXTENDS TokenizeText

\* Short files over the bytes that matter to one function of tokenize.c.
OperatorFiles == BoundedSeq({"=", "!", ".", "-", ">", "a", "\n"}, 4)
\* What must not be read behind three bytes, is an error behind fewer.
BadByteFiles == {op \o <<bad>> : op \in BoundedSeq({"=", "!", ".", "a"}, 4), bad \in {ZeroByte, "\r"}}
NumberFiles == BoundedSeq({"0", "x", "b", "7", "a", " "}, 4)
StringFiles == {<<q>> \o s : q \in {"'", "\""},
                             s \in BoundedSeq({"'", "\"", "\\", "\n", "n", "0"}, 4)}
LineEndFiles == BoundedSeq({"\r", "\n", "a", "#", "other", ZeroByte}, 4)
TextFiles == OperatorFiles \cup BadByteFiles \cup NumberFiles \cup StringFiles \cup LineEndFiles

\* Files of three or four lines: what is on them and how far they are indented.
Indented(n, content) == [i \in 1 .. n |-> " "] \o content
Contents == {<<"a">>, <<"#", "a">>, <<>>}
LinesWith(widths) == {Indented(n, c) : n \in widths, c \in Contents}
CodeLines == {Indented(n, <<"a">>) : n \in {0, 4, 8}} \cup {Indented(4, <<"(", "#">>)}
LayoutFiles ==
    {k \o <<"\n">> \o l \o <<"\n">> \o m \o e :
        k \in CodeLines, l, m \in LinesWith({0, 2, 4, 8}), e \in {<<>>, <<"\n">>, <<"\r", "\n">>}}
    \cup {k \o <<"\n">> \o l \o <<"\n">> \o m \o <<"\n">> \o o :
        k, l, m, o \in CodeLines \cup {<<>>, <<" ", "#">>}}

AllFiles == TextFiles \cup LayoutFiles
=============================================================================
