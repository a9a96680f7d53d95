---------------------------- MODULE MCPosixDemos ----------------------------
EXTENDS PosixDemos

\* A first line with blanks, which may fill the buffer, and a second one that may
\* be a comment or the unterminated last one.
MCTexts ==
    {a \o <<"\n">> \o b \o c : a \in SeqOf({"k", "=", " "}, 4),
                               b \in SeqOf({"k", "=", "#"}, 2),
                               c \in {<<>>, <<"\n">>}}
MCInputs == {<<"k", "\n">>, <<" ", "v", "\n">>, <<"\n">>}
=============================================================================
