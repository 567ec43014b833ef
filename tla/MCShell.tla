------------------------------ MODULE MCShell ------------------------------
EXTENDS Shell

\* gen writes as much as a pipe holds, big more; cat reads to the end of file.
TinyPrograms == [gen |-> [reads |-> FALSE, writes |-> 2],
                 big |-> [reads |-> FALSE, writes |-> 3],
                 cat |-> [reads |-> TRUE, writes |-> 0]]

Batch(lines) == [batch |-> TRUE, rewinds |-> FALSE, lines |-> lines]
BatchRewinding(lines) == [batch |-> TRUE, rewinds |-> TRUE, lines |-> lines]
Typed(lines) == [batch |-> FALSE, rewinds |-> FALSE, lines |-> lines]

Gens == <<"gen", ";", "gen", ";", "gen", ";", "gen", ";", "gen", ";", "gen">>

\* The rest of the line behind what one fgets of a file takes is a line again.
Long == [k \in 1..16 |-> IF k = 16 THEN "gen" ELSE IF k % 2 = 0 THEN "|" ELSE "cat"]

\* Any three commands with any separators between them, and longer lines.
ShortLines == {<<a, s, b, t, c>> : a, b, c \in {"gen", "cat", "pwd"}, s, t \in {";", "+", "|", ">"}}

AllInputs == {Batch(<<l>>) : l \in ShortLines} \cup {
  Batch(<< <<"gen", ";", "gen", "|", "cat", ";", "pwd">>, <<" ">>, Gens, <<"cat">> >>),
  Batch(<< <<"gen", "+", "gen", "|", "cat", "+", "cd", " ", "x">>, <<"nofile">> >>),
  Batch(<< <<"gen", "|", "cat", "|", "cat">>, <<"cat", ";", "gen", "+", "cat">>, <<"quit", "+", "gen">> >>),
  Batch(<< <<"gen", "+", "gen", "+", "quit">>, <<"gen">> >>),
  Batch(<< <<"pwd", "|", "cat", ">", "f">>, <<"gen", ">", "f", "|", "cat">>, <<"gen", ">", " ">> >>),
  Batch(<< <<"big", "|", "cat">> >>),
  Batch(<< <<"gen", ";", " ">> >>),
  Batch(<< <<"gen", ";", "|", ";", "cat", ";", ">">> >>),
  Batch(<< <<"gen", "+", "|">>, <<"|", "+", "gen">>, <<>>, <<">", "gen", "|", "cat">> >>),
  Batch(<<Long, <<"|", "gen", "|", "|", "cat">> >>),
  BatchRewinding(<< <<"gen">>, <<"gen", "|", "pwd">>, <<"cat">> >>),
  Typed(<< <<"gen", " ", "x", ";", "quit", " ", "x">>, <<"cd">> >>),
  Typed(<< <<" ", "gen", ";", "gen">> >>),
  Typed(<<Gens, <<" ">> >>),
  Typed(<<Tail(Tail(Gens)), <<"cat">> >>),
  Typed(<< <<"gen", "+", "gen">>, <<>> >>),
  Typed(<<>>)}

MCGarbage == {<<>>, <<"gen", ";", "cat">>, Gens}

\* The second line forks a child that calls exit, as every line of a batch does.
RewindingBatch == {BatchRewinding(<< <<"gen">>, <<"gen">>, <<"pwd">> >>)}
=============================================================================
