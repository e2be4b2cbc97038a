-------------------------------- MODULE J2Find --------------------------------
(***************************************************************************)
(* joFind of src/json2/j2value.c: a path through a tree.  Each action is   *)
(* one round of its loop.  The character a round cuts off the copied path  *)
(* is put back in the same round, so that the copy is always the path.     *)
(***************************************************************************)
EXTENDS J2Scan

CONSTANT Paths   \* sequences of characters: separators, "sp", the digits "0",
                 \* "1" and those in Contents

\* PathChar gives "end" after a path; it is not in one.
ASSUME PathsAssumption == \A p \in Paths : p \in Seq(STRING \ {"end"})

VARIABLES path, cur, croot   \* the path, cursor, and the value reached so far

findVars == <<path, cur, croot>>

NoPath == <<"none">>
Found == 0       \* cursor after the return

Separators == {".", "/", "#"}
PathChar == IF cur <= Len(path) THEN path[cur] ELSE "end"

\* Faulty variants, named <definition>_<fault>, stand before the definitions
\* they vary: each is a slip the properties must notice.

\* strpbrk, from the character after the separator; the end if there is none.
Cut_Early(p) == p
Cut(p) ==
    LET ends == { i \in p + 1 .. Len(path) : path[i] \in Separators }
    IN  IF ends = {} THEN Len(path) + 1 ELSE CHOOSE i \in ends : \A j \in ends : i <= j

\* j2ValueObjectItem
Item(node, chars) ==
    LET same == { i \in DOMAIN node[2] : node[2][i][1] \in DOMAIN Contents
                                         /\ Contents[node[2][i][1]] = chars }
    IN  IF same = {} THEN NoNode ELSE node[2][CHOOSE i \in same : TRUE][2][1]

\* atoi: spaces, digits, and whatever follows; no digits are zero.
atoi(chars) ==
    LET skipped == SelectInSeq(chars, LAMBDA c : c # "sp")
        number == IF skipped = 0 THEN <<>> ELSE SubSeq(chars, skipped, Len(chars))
        after == SelectInSeq(number, LAMBDA c : c \notin {"0", "1"})
        digits == IF after = 0 THEN number ELSE SubSeq(number, 1, after - 1)
    IN  FoldLeft(LAMBDA n, c : 10 * n + (IF c = "1" THEN 1 ELSE 0), 0, digits)

\* j2ValueArrayIndex
Index(node, chars) ==
    LET i == atoi(chars) IN IF i < Len(node[2]) THEN node[2][i + 1] ELSE NoNode

joFind(p) ==
    /\ path' = p /\ cur' = 1 /\ croot' = val

\* case 0, and default: an unknown character.
FindEnds ==
    /\ cur # Found
    /\ \/ PathChar = "end" /\ croot' = croot
       \/ PathChar \notin Separators \union {"sp", "end"} /\ croot' = NoNode
    /\ cur' = Found
    /\ UNCHANGED path

FindSkips ==
    /\ cur # Found
    /\ PathChar = "sp"
    /\ cur' = cur + 1
    /\ UNCHANGED <<path, croot>>

\* A member or an item, if the value is an object or an array.
FindSteps ==
    /\ cur # Found
    /\ PathChar \in Separators
    /\ LET cut == Cut(cur)
           chars == SubSeq(path, cur + 1, cut - 1)
           next == IF PathChar = "#"
                   THEN IF croot[1] = "array" THEN Index(croot, chars) ELSE NoNode
                   ELSE IF croot[1] = "object" THEN Item(croot, chars) ELSE NoNode
       IN  /\ croot' = next
           /\ cur' = IF next = NoNode \/ cut > Len(path) THEN Found ELSE cut
    /\ UNCHANGED path

FindNext == FindEnds \/ FindSkips \/ FindSteps
===============================================================================
