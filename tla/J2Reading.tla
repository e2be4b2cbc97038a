------------------------------- MODULE J2Reading -------------------------------
(***************************************************************************)
(* Which trees survive being printed and read again, and what is left of a *)
(* tree in a buffer that is too small.                                     *)
(***************************************************************************)
EXTENDS J2Meaning, J2Layout

ASSUME PrintedAssumption == \A d \in Docs : Printed[d] = j2PrintFunc(d, 0)

RECURSIVE Subtrees(_), Emptied(_)

Values(node) ==
    IF node[1] = "array" THEN ToSet(node[2])
    ELSE IF node[1] = "object" THEN { node[2][i][2][1] : i \in DOMAIN node[2] } ELSE {}

Subtrees(node) == {node} \union UNION { Subtrees(v) : v \in Values(node) }

Clean(s) == s \in Strings => ToSet(Contents[s]) \intersect {"quote", "bslash"} = {}

\* Strings are printed as they are, and an empty object with a newline inside.
Readable(tree) ==
    \A n \in Subtrees(tree) :
        /\ Clean(n[1])
        /\ n[1] = "object" => n[2] # <<>> /\ \A i \in DOMAIN n[2] : Clean(n[2][i][1])

ReadBack == pc = "done" /\ doc # NoNode /\ failed = {}

\* A tree printed without a chunk missing is read back as the same tree exactly
\* if it has no empty object and no quote or backslash in a string or name; the
\* error function is called for it exactly if it has an empty array.
RoundTrip ==
    ReadBack /\ ~dropped /\ (sink = "buffer" => bufsize > 0) =>
      /\ val = doc <=> Readable(doc)
      /\ Readable(doc) => (reported <=> \E n \in Subtrees(doc) : n = Array(<<>>))

EmptyString == SymbolOf(<<>>)
OrEmpty(s) == IF s \in Strings THEN {s, EmptyString} ELSE {s}

\* The functions that give each index one of its alternatives.
Each(alternatives) ==
    { f \in [DOMAIN alternatives -> UNION ToSet(alternatives)] :
        \A i \in DOMAIN alternatives : f[i] \in alternatives[i] }

\* The trees that come of a tree by making strings and names empty; of members
\* whose names become equal the last one stays, in the place of the first.
Emptied(node) ==
    LET kids == node[2]
    IN  CASE node[1] = "array" ->
               { Array(items) : items \in Each([i \in DOMAIN kids |-> Emptied(kids[i])]) }
          [] node[1] = "object" ->
               { FoldLeft(LAMBDA obj, i : WithMember(obj, names[i], values[i]), Object(<<>>),
                          [i \in DOMAIN kids |-> i]) :
                   names \in Each([i \in DOMAIN kids |-> OrEmpty(kids[i][1])]),
                   values \in Each([i \in DOMAIN kids |-> Emptied(kids[i][2][1])]) }
          [] OTHER -> { Leaf(s) : s \in OrEmpty(node[1]) }

\* j2PrintBuffer leaves out the chunks that do not fit and goes on.  If what is
\* in the buffer is still read without an error, it is the tree with some of its
\* strings and names empty: numbers do not run together, no item or level is
\* lost, and nothing is shortened halfway.  Only in a buffer too small for the
\* opening bracket and a newline it may be a leaf.
OpeningSize == 2
TruncationOnlyEmpties ==
    ReadBack /\ sink = "buffer" /\ Readable(doc) /\ val # NoNode /\ ~reported
      => \E n \in IF bufsize > OpeningSize THEN {doc} ELSE Subtrees(doc) : val \in Emptied(n)
===============================================================================
