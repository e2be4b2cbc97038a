------------------------------- MODULE J2Meaning -------------------------------
(***************************************************************************)
(* What a text and a path mean, stated without the loops that read them:   *)
(* which contents a string literal has, and which value a path names.      *)
(***************************************************************************)
EXTENDS J2Text

(***************************************************************************)
(* String literals.  What stands between the quotes is a concatenation of  *)
(* units; the characters a unit means are none or one.                     *)
(***************************************************************************)
Alike(u, sets) == Len(u) = Len(sets) /\ \A i \in DOMAIN sets : u[i] \in sets[i]

PlainUnit(u) == IF Len(u) = 1 /\ u[1] \notin Special THEN {<<u[1]>>} ELSE {}

EscapeUnit(u) ==
    IF Alike(u, <<{"bslash"}, {"quote", "bslash"}>>) THEN {<<u[2]>>}
    ELSE IF Alike(u, <<{"bslash"}, {"n"}>>) THEN {<<"nl">>}
    ELSE IF Alike(u, <<{"bslash"}, {"u"}, {"zero"}, {"zero"}, {"zero"}, {"zero"}>>)
         THEN {<<"NUL">>}
    ELSE IF Alike(u, <<{"bslash"}, {"u"}, Digits, Digits, Digits, Digits>>)
         THEN {<<"wide">>}
    ELSE {}

SequenceUnit(u) ==
    IF \/ Alike(u, <<{"lead2"}, {"tail"}>>)
       \/ Alike(u, <<{"lead3"}, {"tail"}, {"tail"}>>)
    THEN {<<"wide">>} ELSE {}

JsonUnit(u) == PlainUnit(u) \union EscapeUnit(u) \union SequenceUnit(u)

\* What the scanner takes besides: a backslash before any other character, and
\* in a file a first byte with whatever follows it.
LooseUnit(u, end) ==
    JsonUnit(u)
    \union (IF u = <<"bslash">> THEN {<<>>} ELSE {})
    \union (IF u[1] \in DOMAIN Octets /\ Len(u) = Octets[u[1]] /\ end = "EOF"
            THEN {<<"odd">>} ELSE {})

\* By the rules of "json", or by the scanner's for a text with that end.
LastUnit(body, rules, m, n) ==
    LET u == SubSeq(body, m + 1, n)
    IN  IF rules = "json" THEN JsonUnit(u) ELSE LooseUnit(u, rules)

Joined(mosts, lasts) == { most \o last : most \in mosts, last \in lasts }

\* What the first n characters of a body can mean, for every n.
Decodings(body, rules) ==
    LET decoded[n \in 0 .. Len(body)] ==
            IF n = 0 THEN {<<>>}
            ELSE UNION { Joined(decoded[m], LastUnit(body, rules, m, n)) :
                         m \in { k \in 0 .. n - 1 : LastUnit(body, rules, k, n) # {} } }
    IN  decoded

\* A zero ends a C string.
UpToZero(s) ==
    LET zeros == { i \in DOMAIN s : s[i] = "NUL" }
    IN  IF zeros = {} THEN s
        ELSE SubSeq(s, 1, (CHOOSE i \in zeros : \A j \in zeros : i <= j) - 1)

\* The literals a text can begin with: <<length, content>>.
Literals(source, rules) ==
    UNION { { <<e, UpToZero(c)>> : c \in Decodings(Tail(source), rules)[e - 2] } :
            e \in { i \in 2 .. Len(source) : source[i] = "quote" } }

\* Every JSON string is read to its end and becomes what it says, unless memory
\* or the encoding fails, or it has a UTF-8 sequence and comes from memory and
\* not from a file; no assertion fails on it.  What else is taken is a literal in the looser
\* sense.  A number's digits all reach strtod with a terminator behind them,
\* unless memory failed; only then can strtod be without a text.
LeavesReadWhole ==
    LET source == scan.source
        length == scan.at - pos
        json == Literals(source, "json")
        multibyte == \E i \in DOMAIN source : source[i] \in DOMAIN Octets
        excused == failed # {} \/ (multibyte /\ ending = "NUL")
    IN  /\ ready /\ source[1] = "quote" =>
             /\ text[pos] # "broken" => <<length, CString(scan.ds)>> \in Literals(source, ending)
             /\ ~excused /\ json # {} => /\ text[pos] # "broken"
                                         /\ <<length, CString(scan.ds)>> \in json
        /\ ready /\ source[1] = "num" /\ "number memory" \notin failed =>
             CString(scan.ds) = SubSeq(source, 1, length)
        /\ dead => IF source[1] = "quote" THEN json = {} ELSE "number memory" \in failed

-----------------------------------------------------------------------------
(***************************************************************************)
(* Paths.                                                                  *)
(***************************************************************************)
\* A path without the spaces it begins with.
AreBlanks(p, n) == (\A i \in 1 .. n : p[i] = "sp") /\ (n < Len(p) => p[n + 1] # "sp")
Blanks(p) == CHOOSE n \in 0 .. Len(p) : AreBlanks(p, n)
Trimmed(p) == SubSeq(p, Blanks(p) + 1, Len(p))

\* A step is a separator and characters, here those at s and up to n.
PathStep(q, s, n) == [kind |-> q[s], chars |-> SubSeq(q, s + 1, n)]

OneStep(node, step) ==
    IF step.kind = "#" /\ node # NoNode /\ node[1] = "array" THEN Index(node, step.chars)
    ELSE IF step.kind # "#" /\ node # NoNode /\ node[1] = "object" THEN Item(node, step.chars)
    ELSE NoNode

\* The place of the last separator among the first n characters.
LastSeparator(q, n) ==
    CHOOSE s \in 1 .. n : q[s] \in Separators /\ \A i \in s + 1 .. n : q[i] \notin Separators

\* The values the first n characters lead to, for every n.
Steps(root, q) ==
    LET reached[n \in 0 .. Len(q)] ==
            IF n = 0 THEN root
            ELSE LET s == LastSeparator(q, n)
                 IN  OneStep(reached[s - 1], PathStep(q, s, n))
    IN  reached

Follow(root, p) ==
    LET q == Trimmed(p)
    IN  IF q # <<>> /\ q[1] \notin Separators THEN NoNode
        ELSE Steps(root, q)[Len(q)]

\* j2value.h: "Traverse tree by path", a step for every separator.  joFind finds
\* the value its steps lead to, one after the other, or none; only spaces before
\* the first separator are skipped.
PathsFind == path # NoPath /\ cur = Found => croot = Follow(val, path)
===============================================================================
