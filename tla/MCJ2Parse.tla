------------------------------ MODULE MCJ2Parse ------------------------------
(***************************************************************************)
(* Every sequence of up to four symbols of all kinds, and of up to five of *)
(* the kinds that steer the containers: enough for a nested container with *)
(* a child, an object with a member, and a child before a comma, each      *)
(* broken off or followed by anything.  The documents are longer: two      *)
(* levels and two children, with spaces anywhere, and arrays of four that  *)
(* outgrow their two places twice.                                         *)
(***************************************************************************)
EXTENDS J2Grammar, TLC

\* The quote of a string would close an open one.
TextsOver(symbols, n) ==
    { t \in UNION { [1 .. k -> symbols] : k \in 0 .. n } :
        \A i, j \in DOMAIN t : i < j /\ t[i] = "open" => t[j] \notin Strings \union {"open"} }

Structure == {"[", "]", "{", "}", ",", ":", "s1"}

\* Structure with one of every other kind of symbol.
AllSymbols == Structure \union {"open", "num", "true", "broken", "sp", "nl", "cr", "x"}
AnyTexts == TextsOver(AllSymbols, 4)

\* Longer, over fewer symbols.
LongTexts == TextsOver(Structure \union {"sp"}, 5)

\* JSON objects with two members, the second of the same name or not, around
\* nested containers.
Values == { <<"num">>, <<"[", "]">>, <<"[", "s1", ",", "num", "]">>,
            <<"{", "s1", ":", "true", "}">>, <<"{", "}">> }
Gaps == { <<>>, <<"sp">> }
Documents ==
    { <<"{">> \o g \o <<"s1">> \o g \o <<":">> \o v \o g \o <<",", n, ":">> \o w \o <<"}">> :
        g \in Gaps, v \in Values, n \in {"s1", "s2"}, w \in Values }
    \union
    { <<"[">> \o v \o g \o <<",">> \o g \o w \o <<"]">> : g \in Gaps, v \in Values, w \in Values }
    \union
    { <<"[", "s1", ",">> \o v \o <<",", "s2", ",">> \o w \o <<"]">> : v \in Values, w \in Values }

ManyTexts == AnyTexts \union LongTexts \union Documents

\* Of the empty array with a blank, and of the empty object with one.
ArrayTexts == TextsOver({"[", "]", "sp"}, 3)
ObjectTexts == TextsOver({"{", "}", "sp"}, 3)

TwoStrings == {"s1", "s2"}

Two == {"NUL", "EOF"}
NulOnly == {"NUL"}
=============================================================================
