------------------------------- MODULE J2Parse -------------------------------
(***************************************************************************)
(* The JSON parser of src/json2/j2parse.c: j2ParseFuncSTD with its         *)
(* recursion as an explicit stack of half-built containers.                *)
(*                                                                         *)
(* The text is a sequence of symbols.  A symbol is one character, or the   *)
(* run of characters one of the extract functions takes together:          *)
(*   "num"     characters of a number, as extractNumber takes them         *)
(*   "s1", ... a closed string; "open" a quote without a closing one       *)
(*   "true"    a keyword                                                   *)
(*   "broken"  the beginning of a keyword that goes on otherwise, or of a  *)
(*             string with a character extractString refuses, which comes  *)
(*             next                                                        *)
(*   "sp","nl" blank and newline; "cr" the spaces issplit does not know    *)
(*             (\r, \v, \f)                                                *)
(*   "x"       any other character                                         *)
(***************************************************************************)
EXTENDS Integers, Sequences, FiniteSets, SequencesExt

CONSTANTS Texts,    \* the inputs: sequences of symbols, no quote after "open"
          Ends,     \* what peek gives after the text: "NUL" for a string,
                    \* "EOF" for a file
          MayFail,  \* which allocations can fail: a subset of Allocations
          Strings,  \* the closed strings, each a symbol
          ArrayCap  \* DARR_ICAP, the capacity an array begins with

Leaves == Strings \union {"num", "true"}
Spaces == {"sp", "nl", "cr"}
Allocations == {"leaf", "container", "append", "set"}
EndMarks == {"NUL", "EOF"}

ASSUME EndsAssumption == Ends \subseteq EndMarks
\* What peek gives after a text is not in it.
ASSUME TextsAssumption == \A t \in Texts : t \in Seq(STRING \ EndMarks)
\* A string is none of the other symbols, nor a container's type or no name.
ASSUME StringsAssumption ==
    /\ Strings \subseteq STRING
    /\ Strings \intersect (EndMarks \union Spaces) = {}
    /\ Strings \intersect {"num", "true", "open", "broken", "[", "]", "{", "}", ",", ":", "x"} = {}
    /\ Strings \intersect {"array", "object", "none"} = {}
\* A capacity of one would never grow by half.
ASSUME ArrayCapAssumption == ArrayCap \in Nat \ {0, 1}
ASSUME MayFailAssumption == MayFail \subseteq Allocations

VARIABLES text, ending,  \* the input
          pos,           \* the next symbol
          line,          \* loc_t
          stack,         \* the containers being parsed, innermost last
          pc,            \* "value": in j2ParseFuncSTD's loop, "loop": in the
                         \* loop of the innermost container, "return": a call
                         \* returns val, "done"
          val,           \* what the call returns
          reported,      \* the error callback has been called
          live,          \* allocated J2VALs
          failed         \* which allocations have failed

vars == <<text, ending, pos, line, stack, pc, val, reported, live, failed>>
input == <<text, ending>>

\* Faulty variants, named <definition>_<fault>, stand before the definitions
\* they vary: each is a slip the properties must notice.

(***************************************************************************)
(* Trees.  A node is <<type, children, J2VALs in the tree>>; the children  *)
(* of an object are members, <<name, <<value>>, J2VALs in the value>>.     *)
(***************************************************************************)
NoNode == <<>>
Size(node) == IF node = NoNode THEN 0 ELSE node[3]

Leaf(s) == <<s, <<>>, 1>>
Total(sizes) == FoldLeft(LAMBDA sum, size : sum + size, 0, sizes)
Sum(kids) == Total([i \in DOMAIN kids |-> Size(kids[i])])
Array(kids) == <<"array", kids, 1 + Sum(kids)>>
Object(kids) == <<"object", kids, 1 + Sum(kids)>>

\* The capacity of an array of n items: it grows by half when the next item
\* finds it full.
Capacity[n \in Nat] ==
    IF n = 0 THEN ArrayCap
    ELSE IF Capacity[n - 1] = n - 1 THEN ((n - 1) * 3) \div 2
    ELSE Capacity[n - 1]

IsFull(array) == Capacity[Len(array[2])] = Len(array[2])

\* j2ValueArrayAppend
WithItem(array, item) == Array(Append(array[2], item))

\* j2ValueObjectItemSet: a member with the same name is replaced and freed.
WithMember_Appends(object, name, value) ==
    Object(Append(object[2], <<name, <<value>>, Size(value)>>))
WithMember(object, name, value) ==
    LET kids == object[2]
        mem == <<name, <<value>>, Size(value)>>
        same == { i \in DOMAIN kids : kids[i][1] = name }
    IN  Object(IF same = {} THEN Append(kids, mem)
               ELSE [i \in DOMAIN kids |-> IF i \in same THEN mem ELSE kids[i]])

(***************************************************************************)
(* Reading                                                                 *)
(***************************************************************************)
At(p) == IF p <= Len(text) THEN text[p] ELSE ending
Peek == At(pos)

\* issplit; peek gives -1 at the end of a file, which is no split.
issplit(s) == s \in {"NUL", "}", "]", ",", "sp", "nl"}

\* skipSpaces, from p: where it stops, and the newlines it counts.
skipSpaces(p) ==
    CHOOSE q \in p .. Len(text) + 1 :
        /\ \A r \in p .. q - 1 : text[r] \in Spaces
        /\ At(q) \notin Spaces

Newlines(p, q) == Cardinality({ r \in p .. q - 1 : text[r] = "nl" })

\* extractNumber takes every number character there is.
NumberEnd_TooFar(p) == Len(text) + 2
NumberEnd(p) ==
    CHOOSE q \in p .. Len(text) + 1 :
        (\A r \in p .. q - 1 : text[r] = "num") /\ At(q) # "num"

Top == stack[Len(stack)]
WithTop(frame) == [stack EXCEPT ![Len(stack)] = frame]

-----------------------------------------------------------------------------
Init ==
    /\ text \in Texts /\ ending \in Ends
    /\ pos = 1 /\ line = 0
    /\ stack = <<>>
    /\ pc = "value" /\ val = NoNode
    /\ reported = FALSE /\ live = 0 /\ failed = {}

Return(node) == pc' = "return" /\ val' = node

\* J2_RETURN_ERROR
ReturnError_Silent == Return(NoNode) /\ UNCHANGED reported
ReturnError == Return(NoNode) /\ reported' = TRUE

(***************************************************************************)
(* The loop of j2ParseFuncSTD at the beginning of a value.                 *)
(***************************************************************************)
SkipSpace ==
    /\ pc = "value"
    /\ Peek \in Spaces
    /\ pos' = pos + 1
    /\ line' = line + Newlines(pos, pos + 1)
    /\ UNCHANGED <<input, stack, pc, val, reported, live, failed>>

\* expectString needs a split after the keyword.
LeafComplete == Peek = "true" => issplit(At(pos + 1))

LeafEnd == IF Peek = "num" THEN NumberEnd(pos) ELSE pos + 1

ParseLeaf ==
    /\ pc = "value"
    /\ Peek \in Leaves
    /\ LeafComplete
    /\ pos' = LeafEnd
    /\ Return(Leaf(Peek))
    /\ live' = live + 1
    /\ UNCHANGED <<input, line, stack, reported, failed>>

\* j2InitString and its like: the call returns zero and no error is reported.
ParseLeafNoMemory ==
    /\ pc = "value"
    /\ "leaf" \in MayFail
    /\ Peek \in Leaves
    /\ LeafComplete
    /\ pos' = LeafEnd
    /\ Return(NoNode)
    /\ failed' = failed \union {"leaf"}
    /\ UNCHANGED <<input, line, stack, reported, live>>

\* A keyword or string that is not one, a string that is not closed (it is read
\* to the end of the text), or a symbol no value begins with, left unread.
ParseLeafFails ==
    /\ pc = "value"
    /\ \/ Peek = "true" /\ ~LeafComplete /\ pos' = pos + 1
       \/ Peek = "broken" /\ pos' = pos + 1
       \/ Peek = "open" /\ pos' = Len(text) + 1
       \/ /\ Peek \notin Leaves \union Spaces \union {"broken", "open", "[", "{"}
          /\ pos' = pos
    /\ ReturnError
    /\ UNCHANGED <<input, line, stack, live, failed>>

Frame(node) == [node |-> node, comma |-> FALSE, name |-> "none", nul |-> FALSE]

OpenContainer ==
    /\ pc = "value"
    /\ Peek \in {"[", "{"}
    /\ pos' = pos + 1
    /\ stack' = Append(stack, Frame(IF Peek = "[" THEN Array(<<>>) ELSE Object(<<>>)))
    /\ pc' = "loop"
    /\ live' = live + 1
    /\ UNCHANGED <<input, line, val, reported, failed>>

OpenNoMemory ==
    /\ pc = "value"
    /\ "container" \in MayFail
    /\ Peek \in {"[", "{"}
    /\ ReturnError
    /\ failed' = failed \union {"container"}
    /\ UNCHANGED <<input, pos, line, stack, live>>

(***************************************************************************)
(* The loop of the innermost container.                                    *)
(***************************************************************************)
InArray == stack # <<>> /\ Top.node[1] = "array"
InObject == stack # <<>> /\ Top.node[1] = "object"

\* j2Cleanup of the container, and of `extra` more J2VALs the branch cleans.
FailContainer_Only(extra) ==
    /\ stack' = Front(stack)
    /\ live' = live - Size(Top.node)
    /\ ReturnError
FailContainer(extra) ==
    /\ stack' = Front(stack)
    /\ live' = live - Size(Top.node) - extra
    /\ ReturnError

CloseContainer ==
    /\ pc = "loop"
    /\ Peek = IF InArray THEN "]" ELSE "}"
    /\ pos' = pos + 1
    /\ stack' = Front(stack)
    /\ Return(Top.node)
    /\ UNCHANGED <<input, line, reported, live, failed>>

\* A comma after a child: the next child is parsed at once.
Comma ==
    /\ pc = "loop"
    /\ Peek = "," /\ Top.comma
    /\ pos' = pos + 1
    /\ stack' = WithTop([Top EXCEPT !.comma = FALSE, !.nul = FALSE])
    /\ pc' = "value"
    /\ UNCHANGED <<input, line, val, reported, live, failed>>

\* A child where none preceded.
NextChild ==
    /\ pc = "loop"
    /\ Peek \notin {IF InArray THEN "]" ELSE "}", ","}
    /\ ~Top.comma
    /\ stack' = WithTop([Top EXCEPT !.nul = (Peek = "NUL")])
    /\ pc' = "value"
    /\ UNCHANGED <<input, pos, line, val, reported, live, failed>>

\* A comma too early, or a child without one.
LoopFails ==
    /\ pc = "loop"
    /\ Peek # IF InArray THEN "]" ELSE "}"
    /\ Top.comma # (Peek = ",")
    /\ FailContainer(0)
    /\ UNCHANGED <<input, pos, line, failed>>

(***************************************************************************)
(* A call returned to the array that made it.  A zero item is not an error *)
(* here: the loop goes on after it.                                        *)
(***************************************************************************)
AfterChild_Uncounted(frame) ==
    /\ pos' = skipSpaces(pos)
    /\ stack' = WithTop([frame EXCEPT !.comma = TRUE])
    /\ pc' = "loop"
    /\ val' = NoNode
    /\ UNCHANGED <<line, reported>>
AfterChild_NoComma(frame) ==
    /\ pos' = skipSpaces(pos)
    /\ line' = line + Newlines(pos, pos')
    /\ stack' = WithTop(frame)
    /\ pc' = "loop"
    /\ val' = NoNode
    /\ UNCHANGED reported
AfterChild(frame) ==
    /\ pos' = skipSpaces(pos)
    /\ line' = line + Newlines(pos, pos')
    /\ stack' = WithTop([frame EXCEPT !.comma = TRUE])
    /\ pc' = "loop"
    /\ val' = NoNode
    /\ UNCHANGED reported

ReturnItem ==
    /\ pc = "return" /\ InArray
    /\ ~Top.nul
    /\ AfterChild(IF val = NoNode THEN Top
                  ELSE [Top EXCEPT !.node = WithItem(Top.node, val)])
    /\ UNCHANGED <<input, live, failed>>

\* The array is full and there is no memory for a larger one: the array is
\* freed, the item is not.
AppendNoMemory ==
    /\ pc = "return" /\ InArray
    /\ "append" \in MayFail
    /\ val # NoNode /\ IsFull(Top.node)
    /\ FailContainer(0)
    /\ failed' = failed \union {"append"}
    /\ UNCHANGED <<input, pos, line>>

\* The child began at the end of a string: the while loop ends, and after it
\* the loop of j2ParseFuncSTD.
ArrayEnds ==
    /\ pc = "return" /\ InArray
    /\ Top.nul
    /\ FailContainer(Size(val))
    /\ pos' = skipSpaces(pos)
    /\ line' = line + Newlines(pos, pos')
    /\ UNCHANGED <<input, failed>>

(***************************************************************************)
(* A call returned to an object, first with the name, then with the value. *)
(***************************************************************************)
ReturnName ==
    /\ pc = "return" /\ InObject
    /\ Top.name = "none"
    /\ LET colon == skipSpaces(pos)
       IN  IF val # NoNode /\ val[1] \in Strings
           THEN /\ line' = line + Newlines(pos, colon)
                /\ IF At(colon) = ":"
                   THEN /\ pos' = colon + 1
                        /\ stack' = WithTop([Top EXCEPT !.name = val[1]])
                        /\ pc' = "value"
                        /\ val' = NoNode
                        /\ UNCHANGED <<reported, live>>
                   ELSE pos' = colon /\ FailContainer(Size(val))
           ELSE FailContainer(Size(val)) /\ UNCHANGED <<pos, line>>
    /\ UNCHANGED <<input, failed>>

\* The key is freed, and so is the value the new one replaces.
ReturnMember ==
    /\ pc = "return" /\ InObject
    /\ Top.name # "none"
    /\ val # NoNode
    /\ LET node == WithMember(Top.node, Top.name, val)
       IN  /\ AfterChild([Top EXCEPT !.node = node, !.name = "none"])
           /\ live' = live - 1 - (Size(Top.node) + Size(val) - Size(node))
    /\ UNCHANGED <<input, failed>>

\* No value, or no memory to set it.
MemberFails ==
    /\ pc = "return" /\ InObject
    /\ Top.name # "none"
    /\ val = NoNode \/ "set" \in MayFail
    /\ FailContainer(1 + Size(val))
    /\ failed' = IF val # NoNode THEN failed \union {"set"} ELSE failed
    /\ UNCHANGED <<input, pos, line>>

\* j2ParseFunc returns.
Finish ==
    /\ pc = "return" /\ stack = <<>>
    /\ pc' = "done"
    /\ UNCHANGED <<input, pos, line, stack, val, reported, live, failed>>

Next ==
    \/ SkipSpace \/ ParseLeaf \/ ParseLeafNoMemory \/ ParseLeafFails
    \/ OpenContainer \/ OpenNoMemory
    \/ CloseContainer \/ Comma \/ NextChild \/ LoopFails
    \/ ReturnItem \/ AppendNoMemory \/ ArrayEnds
    \/ ReturnName \/ ReturnMember \/ MemberFails
    \/ Finish

\* The parser is a loop of the calling thread: it takes steps while it can.
Spec == Init /\ [][Next]_vars /\ WF_vars(Next)

-----------------------------------------------------------------------------
(***************************************************************************)
(* Properties                                                              *)
(***************************************************************************)
TypeOK ==
    /\ pos \in 1 .. Len(text) + 1
    /\ line \in 0 .. Len(text)
    /\ pc \in {"value", "loop", "return", "done"}
    /\ reported \in BOOLEAN /\ live \in Nat /\ failed \subseteq MayFail
    /\ \A i \in DOMAIN stack : /\ stack[i].node[1] \in {"array", "object"}
                               /\ stack[i].comma \in BOOLEAN
                               /\ stack[i].nul \in BOOLEAN
                               /\ stack[i].name \in Strings \union {"none"}
    /\ pc = "loop" => stack # <<>>

\* The J2VALs the parser still knows: in the containers on the stack, names
\* that wait for their value, and what is being returned.
Weight(frame) == Size(frame.node) + IF frame.name = "none" THEN 0 ELSE 1
Known == Size(val) + Total([i \in DOMAIN stack |-> Weight(stack[i])])

\* Every allocated J2VAL is known: no path, failures included, loses a tree or
\* frees one twice.  The exception is the item of an append that failed.
NothingLeaks ==
    /\ live >= Known
    /\ "append" \notin failed => live = Known

\* The line handed to the error callback counts the newlines read outside of
\* strings, wherever they were skipped.
LineIsExact ==
    line = Cardinality({ r \in 1 .. pos - 1 : /\ text[r] = "nl"
                                              /\ \A o \in 1 .. r : text[o] # "open" })

\* The parser returns on every text: no loop goes round without reading on or
\* ending (the array loop after an item that could not be parsed included).
Terminates == <>(pc = "done")

\* j2parse.h: the error function is "called on parsing errors" and the parser
\* returns "parsed tree, or zero on error".
ErrorMeansZero == pc = "done" /\ reported => val = NoNode

\* The reverse, when memory lasts: zero is never returned without the callback.
ZeroMeansError == pc = "done" /\ val = NoNode /\ failed = {} => reported
=============================================================================
