------------------------------- MODULE MCJ2Text -------------------------------
(***************************************************************************)
(* Texts: a string literal of up to four characters of every kind, closed, *)
(* broken off or followed by something; codes of every mix of digits;      *)
(* literals and numbers long enough to outgrow a dynamic string of two     *)
(* cells four times.                                                       *)
(* Trees: every kind of leaf, containers in containers, two members, names *)
(* and strings longer than the rest of the text, printed into buffers of   *)
(* every size up to the longest, and to files.                             *)
(***************************************************************************)
EXTENDS J2Reading

StringsHere == {"s1", "s2", "s3", "s4", "s5", "s6", "other"}
ContentsHere == [s1 |-> <<"x", "x", "x", "x">>, s2 |-> <<>>, s3 |-> <<"bslash", "n">>,
                 s4 |-> <<"x">>, s5 |-> <<"quote">>, s6 |-> <<"x", "x", "x", "x", "x">>]

StringChars == {"quote", "bslash", "n", "u", "x", "lead2", "lead3", "tail", "bad"}

Times(c, n) == [i \in 1 .. n |-> c]

MCTexts ==
    { <<"quote">> \o t : t \in UNION { [1 .. n -> StringChars] : n \in 0 .. 4 } }
    \union { <<"quote">> \o t : t \in [1 .. 5 -> {"quote", "bslash", "n", "lead2", "tail"}] }
    \union { <<"quote", "bslash", "u">> \o d \o <<"x", "quote">> : d \in [1 .. 4 -> {"num", "zero", "x"}] }
    \union { <<"quote">> \o Times("x", n) \o <<"quote">> : n \in 5 .. 8 }
    \union { Times("num", n) \o e : n \in 1 .. 8, e \in {<<>>, <<"x">>} }

Mem(n, v) == <<n, <<v>>, Size(v)>>
num == Leaf("num")

FileDocsHere ==
    { Array(<<num, Object(<<Mem("s4", Leaf("s1")), Mem("s2", Array(<<Leaf("true"), num>>))>>)>>),
      Object(<<Mem("s4", Object(<<Mem("s1", num)>>)), Mem("s1", Leaf("s4"))>>) }

DocsHere ==
    FileDocsHere
    \union { Leaf(s) : s \in {"num", "true", "s1", "s2", "s3", "s5"} }
    \union { Array(<<>>), Object(<<>>), Array(<<Array(<<>>)>>), Array(<<num, Object(<<>>)>>),
             Array(<<num, num>>), Array(<<Leaf("s1"), Leaf("true"), Leaf("s6")>>),
             Array(<<Leaf("s5"), Leaf("s5")>>),
             Object(<<Mem("s4", Array(<<num, num>>))>>),
             Object(<<Mem("s1", num), Mem("s6", Leaf("true"))>>),
             Object(<<Mem("s1", Leaf("s1")), Mem("s3", num)>>),
             Object(<<Mem("s4", Object(<<Mem("s1", Leaf("s6")), Mem("s4", num)>>))>>) }

PrintedHere == [d \in DocsHere |-> j2PrintFunc(d, 0)]
PrintoutsHere == { PrintedHere[d] : d \in DocsHere }
BufSizesHere == 0 .. 84

\* Paths of up to four characters, and longer ones through both trees.
PathsHere ==
    UNION { [1 .. n -> {".", "/", "#", "sp", "0", "1", "x"}] : n \in 0 .. 3 }
    \union { <<"#", "1", a, "x">> \o r : a \in {".", "/"},
                r \in {<<>>, <<"#">>, <<".", "x">>, <<"sp">>} }
    \union { <<"sp", "#", "1", ".", "#">> \o r : r \in {<<>>, <<"1">>, <<"1", "0">>, <<"sp", "1">>, <<"1", "x">>} }
    \union { <<".", "x", "/">> \o Times("x", n) \o r : n \in 3 .. 5, r \in {<<>>, <<"#", "0">>} }

Both == {"NUL", "EOF"}
OneDigit == <<"num">>
===============================================================================
