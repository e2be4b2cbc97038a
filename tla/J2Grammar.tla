------------------------------ MODULE J2Grammar ------------------------------
(***************************************************************************)
(* JSON, as a grammar over the symbols of J2Parse: which texts are JSON,   *)
(* and which tree each stands for.  The reference the parser is compared   *)
(* with; it is written from the grammar of JSON and not from the parser.   *)
(***************************************************************************)
EXTENDS J2Parse

\* About the symbols from i to j of a text s.
Blank(s, i, j) == \A k \in i .. j : s[k] \in Spaces

\* One of them in spaces, and two that enclose all but spaces.
Alone(s, i, j, symbols) ==
    { a \in i .. j : s[a] \in symbols /\ Blank(s, i, a - 1) /\ Blank(s, a + 1, j) }
Enclosing(s, i, j, left, right) ==
    { p \in (i .. j) \X (i .. j) :
        /\ p[1] < p[2] /\ s[p[1]] = left /\ s[p[2]] = right
        /\ Blank(s, i, p[1] - 1) /\ Blank(s, p[2] + 1, j) }

\* The object of a list of members <<name, value>>: of equal names the last
\* counts, at the place of the first.
Firsts(mems) == { i \in DOMAIN mems : \A j \in 1 .. i - 1 : mems[j][1] # mems[i][1] }
Rank(mems, i) == Cardinality({ j \in Firsts(mems) : j <= i })
AtPlace(mems, x) == CHOOSE i \in Firsts(mems) : Rank(mems, i) = x
LastOf(mems, name) ==
    CHOOSE i \in DOMAIN mems : /\ mems[i][1] = name
                               /\ \A j \in i + 1 .. Len(mems) : mems[j][1] # name
Final(mems, name) ==
    LET value == mems[LastOf(mems, name)][2] IN <<name, <<value>>, Size(value)>>
ObjectOf(mems) ==
    Object([x \in 1 .. Cardinality(Firsts(mems)) |-> Final(mems, mems[AtPlace(mems, x)][1])])

(***************************************************************************)
(* What the symbols from i to j stand for, as a set: none or one.  `inner` *)
(* gives it for fewer symbols, by their number, the kind and the first.    *)
(***************************************************************************)
Kinds == {"value", "values", "member", "members"}
Inner(inner, kind, i, j) == inner[j - i + 1][<<kind, i>>]

ValuesAt(s, i, j, inner) ==
    UNION { { Leaf(s[a]) : a \in Alone(s, i, j, Leaves) },
            UNION { { Array(kids) : kids \in Inner(inner, "values", p[1] + 1, p[2] - 1) } :
                    p \in Enclosing(s, i, j, "[", "]") },
            UNION { { ObjectOf(mems) : mems \in Inner(inner, "members", p[1] + 1, p[2] - 1) } :
                    p \in Enclosing(s, i, j, "{", "}") } }

MembersAt(s, i, j, inner) ==
    UNION { { <<s[a], value>> : a \in Alone(s, i, c - 1, Strings),
                                value \in Inner(inner, "value", c + 1, j) } :
            c \in { k \in i .. j : s[k] = ":" } }

\* None; one of `ones`; or a list, a comma and one more.
ListsAt(ones, s, i, j, inner, one, list) ==
    UNION { { <<>> : k \in { l \in {i} : Blank(s, i, j) } },
            { <<t>> : t \in ones },
            UNION { { Append(front, t) : front \in Inner(inner, list, i, c - 1) \ {<<>>},
                                         t \in Inner(inner, one, c + 1, j) } :
                    c \in { k \in i .. j : s[k] = "," } } }

OfKind(kind, s, i, j, inner) ==
    CASE kind = "value" -> ValuesAt(s, i, j, inner)
      [] kind = "member" -> MembersAt(s, i, j, inner)
      [] kind = "values" -> ListsAt(ValuesAt(s, i, j, inner), s, i, j, inner, "value", "values")
      [] kind = "members" -> ListsAt(MembersAt(s, i, j, inner), s, i, j, inner, "member", "members")

Grammar(s) ==
    LET inner[n \in 0 .. Len(s)] ==
            [w \in Kinds \X (1 .. Len(s) + 1) |-> OfKind(w[1], s, w[2], w[2] + n - 1, inner)]
    IN  inner

Trees(s, i, j) == Inner(Grammar(s), "value", i, j)

-----------------------------------------------------------------------------
\* The texts extractNumber's run of characters would join.
NumbersApart == \A i \in 2 .. Len(text) : {text[i - 1], text[i]} # {"num"}

\* A text accepted without a call of the error function is JSON, up to where
\* the parser stopped, and the tree is what it stands for.
SilentlyAcceptedIsJson ==
    pc = "done" /\ val # NoNode /\ ~reported /\ failed = {} /\ NumbersApart
      => Trees(text, 1, pos - 1) = {val}

\* j2parse.h: "Parse null terminated string to json tree".  Every JSON text is
\* parsed to its tree.
ParsesJson ==
    pc = "done" /\ failed = {} /\ Trees(text, 1, Len(text)) # {}
      => Trees(text, 1, Len(text)) = {val}

\* Brackets with nothing but spaces, at least one, between them.
BlankBetween(l, r) ==
    \E i, j \in DOMAIN text :
        /\ i + 1 < j /\ text[i] = l /\ text[j] = r
        /\ \A k \in i + 1 .. j - 1 : text[k] \in Spaces

UnsplitKeyword == \E i \in DOMAIN text : text[i] = "true" /\ ~issplit(At(i + 1))

\* What the parser does not take, although it is JSON: spaces in an empty
\* object, and a keyword before \r or before the end of a file.  Every other
\* JSON text is parsed to its tree, without a call of the error function
\* unless there are spaces in an empty array.
ParsesOtherJson ==
    (/\ pc = "done" /\ failed = {}
     /\ Trees(text, 1, Len(text)) # {} /\ ~BlankBetween("{", "}") /\ ~UnsplitKeyword)
      => /\ Trees(text, 1, Len(text)) = {val}
         /\ reported => BlankBetween("[", "]")
=============================================================================
