------------------------------- MODULE J2Layout -------------------------------
(***************************************************************************)
(* The chunks j2PrintFunc of src/json2/j2print.c writes for a tree, in     *)
(* order.  Members come in the order of the object's table; here, as in    *)
(* J2Parse, that is the order of the node's children.                      *)
(***************************************************************************)
EXTENDS J2Scan

CONSTANT NumberText   \* what "%g" makes of a number

\* A keyword has four bytes, every other symbol one.
Bytes(text_) == Len(text_) + 3 * Cardinality({ i \in DOMAIN text_ : text_[i] = "true" })
Chunk(text_) == [text |-> text_, size |-> Bytes(text_)]

PrintSpaces(indent) ==
    IF indent > 0 THEN <<Chunk([i \in 1 .. indent |-> "sp"])>> ELSE <<>>

QuoteChunk == Chunk(<<"quote">>)

LeafChunks(s) ==
    IF s = "num" THEN <<Chunk(NumberText)>>
    ELSE IF s = "true" THEN <<Chunk(<<"true">>)>>
    ELSE <<QuoteChunk, Chunk(Contents[s]), QuoteChunk>>

\* Faulty variants, named <definition>_<fault>, stand before the definitions
\* they vary: each is a slip the properties must notice.

\* Between two children.
CommaChunks_Indented(indent) == <<Chunk(<<",", "nl">> \o [i \in 1 .. indent |-> "sp"])>>
CommaChunks(indent) == <<Chunk(<<",", "nl">>)>>

Listed_Trailing(chunks, indent) ==
    FoldLeft(LAMBDA sofar, more : sofar \o more \o CommaChunks(indent), <<>>, chunks)
Listed(chunks, indent) ==
    FoldLeft(LAMBDA sofar, more : IF sofar = <<>> THEN more
                                  ELSE sofar \o CommaChunks(indent) \o more,
             <<>>, chunks)

IsContainer(node) == node[1] \in {"array", "object"}

RECURSIVE j2PrintFunc(_, _)

MemberChunks(mem, offset) ==
    LET value == mem[2][1]
    IN  PrintSpaces(offset + 2) \o <<QuoteChunk, Chunk(Contents[mem[1]])>>
        \o IF IsContainer(value)
           THEN <<Chunk(<<"quote", ":", "nl">>)>> \o j2PrintFunc(value, offset + 4)
           ELSE <<Chunk(<<"quote", ":", "sp">>)>> \o j2PrintFunc(value, offset)

Enclosed(l, r, chunks, offset) ==
    <<Chunk(<<l, "nl">>)>>
    \o (IF chunks = <<>> THEN <<>>
        ELSE Listed(chunks, offset + 2) \o <<Chunk(<<"nl">>)>>)
    \o PrintSpaces(offset) \o <<Chunk(<<r>>)>>

j2PrintFunc(node, offset) ==
    LET kids == node[2]
    IN  PrintSpaces(offset) \o
        CASE node[1] = "array" ->
               Enclosed("[", "]", [i \in DOMAIN kids |-> j2PrintFunc(kids[i], offset + 2)], offset)
          [] node[1] = "object" ->
               Enclosed("{", "}", [i \in DOMAIN kids |-> MemberChunks(kids[i], offset)], offset)
          [] OTHER -> LeafChunks(node[1])
===============================================================================
