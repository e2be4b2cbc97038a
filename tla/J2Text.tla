-------------------------------- MODULE J2Text --------------------------------
(***************************************************************************)
(* A client of JSON2 that has a text parsed, or prints a tree into a       *)
(* buffer or a file, has it parsed again and looks values up by path:      *)
(* J2Write, J2Scan, J2Parse and J2Find one after the other, as in          *)
(* test/js-valid.c.                                                        *)
(***************************************************************************)
EXTENDS J2Find, J2Write

CONSTANTS Printed,    \* for each tree that is printed, the chunks of j2PrintFunc
          FileDocs    \* those printed to files, too

Docs == DOMAIN Printed

\* What peek gives after a text is in no chunk.
ASSUME DocsAssumption ==
    /\ FileDocs \subseteq Docs
    /\ Printouts = { Printed[d] : d \in Docs }
    /\ \A d \in Docs : \A i \in DOMAIN Printed[d] :
          Printed[d][i].text \in Seq(STRING \ EndMarks)

VARIABLE doc   \* the tree printed, or NoNode if the text is the client's

textVars == <<vars, scan, findVars, doc, writeVars>>
parseVars == <<vars, scan>>

NotPrinting ==
    /\ todo = <<>> /\ sink = "buffer" /\ bufsize = 0 /\ cursor = 0
    /\ written = <<>> /\ result = 0 /\ dropped = FALSE /\ errors = 0

TextInit ==
    /\ \/ Init /\ doc = NoNode /\ NotPrinting
       \/ /\ doc \in Docs
          /\ text = <<>> /\ ending = "NUL" /\ pos = 1 /\ line = 0 /\ stack = <<>>
          /\ pc = "print"
          /\ val = NoNode /\ reported = FALSE /\ live = 0 /\ failed = {}
          /\ WriteInit /\ todo = Printed[doc]
          /\ sink = "file" => doc \in FileDocs
    /\ scan = Idle
    /\ path = NoPath /\ cur = Found /\ croot = NoNode

PrintChunk ==
    /\ pc = "print"
    /\ WriteNext
    /\ UNCHANGED <<parseVars, findVars, doc>>

\* The string in the buffer, or the file, goes to the parser.  (Without a byte
\* for the terminator there is no string.)
ParseWritten ==
    /\ pc = "print" /\ todo = <<>>
    /\ text' = written
    /\ ending' = IF sink = "buffer" THEN "NUL" ELSE "EOF"
    /\ pc' = IF sink = "buffer" /\ bufsize = 0 THEN "done" ELSE "value"
    /\ UNCHANGED <<pos, line, stack, val, reported, live, failed, scan, findVars, doc,
                   writeVars>>

Parse ==
    /\ IF NeedsScan THEN ScanNext ELSE ParseNext
    /\ UNCHANGED <<findVars, doc, writeVars>>

\* Paths are looked up in trees that came back from a file.
Look ==
    /\ pc = "done" /\ val # NoNode
    /\ sink = "file" /\ path = NoPath
    /\ \E p \in Paths : joFind(p)
    /\ UNCHANGED <<parseVars, doc, writeVars>>

Find ==
    /\ FindNext
    /\ UNCHANGED <<parseVars, doc, writeVars>>

TextNext == PrintChunk \/ ParseWritten \/ Parse \/ Look \/ Find

TextSpec == TextInit /\ [][TextNext]_textVars
===============================================================================
