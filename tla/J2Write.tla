-------------------------------- MODULE J2Write --------------------------------
(***************************************************************************)
(* The two write callbacks of src/json2/j2print.c under j2PrintFunc, which *)
(* hands them one chunk of text after the other and adds up what they      *)
(* return: simple_write_string for j2PrintBuffer, simple_write_file for    *)
(* j2PrintFile.  A chunk is [text, size]: its characters as the parser's   *)
(* symbols, and how many bytes they are.                                   *)
(***************************************************************************)
EXTENDS Integers, Sequences

CONSTANTS Printouts,   \* what can be printed: sequences of chunks
          BufSizes,    \* the sizes of buffers
          MaxErrors    \* a bound on the failures of fwrite

Chunks == [text : Seq(STRING), size : Nat]

ASSUME PrintoutsAssumption == Printouts \subseteq Seq(Chunks)
ASSUME BufSizesAssumption == BufSizes \subseteq Nat
ASSUME MaxErrorsAssumption == MaxErrors \in Nat

VARIABLES todo,      \* the chunks j2PrintFunc has still to write
          sink,      \* "buffer" or "file"
          bufsize,   \* the size of the buffer
          cursor,    \* where the next chunk goes
          written,   \* the text in the buffer or file
          result,    \* the sum of what the callback returned
          dropped,   \* a chunk was not written
          errors     \* failures of fwrite

writeVars == <<todo, sink, bufsize, cursor, written, result, dropped, errors>>

\* Faulty variants, named <definition>_<fault>, stand before the definitions
\* they vary: each is a slip the properties must notice.

WriteInit ==
    /\ todo \in Printouts
    /\ \/ sink = "buffer" /\ bufsize \in BufSizes
       \/ sink = "file" /\ bufsize = 0
    /\ cursor = 0 /\ written = <<>> /\ result = 0
    /\ dropped = FALSE /\ errors = 0

chunk == Head(todo)

\* The last byte is kept for the terminator.  (An unsigned difference; the
\* cursor is never past the end.)
Fits_Exactly(size) == bufsize - cursor >= size
Fits(size) == bufsize - cursor > size

Written ==
    /\ written' = written \o chunk.text
    /\ cursor' = cursor + chunk.size
    /\ result' = result + chunk.size
    /\ UNCHANGED <<dropped, errors>>

NotWritten ==
    /\ dropped' = TRUE
    /\ UNCHANGED <<written, cursor, result>>

simple_write_string ==
    /\ todo # <<>> /\ sink = "buffer"
    /\ \/ Fits(chunk.size) /\ Written
       \/ ~Fits(chunk.size) /\ NotWritten /\ UNCHANGED errors
    /\ todo' = Tail(todo)
    /\ UNCHANGED <<sink, bufsize>>

\* fwrite of a chunk of no bytes writes no item; that is not counted, and
\* nothing is missing.
simple_write_file ==
    /\ todo # <<>> /\ sink = "file"
    /\ \/ Written
       \/ /\ errors < MaxErrors /\ chunk.size > 0
          /\ NotWritten /\ errors' = errors + 1
    /\ todo' = Tail(todo)
    /\ UNCHANGED <<sink, bufsize>>

WriteNext == simple_write_string \/ simple_write_file

WriteSpec == WriteInit /\ [][WriteNext]_writeVars

-----------------------------------------------------------------------------
\* j2PrintBuffer puts the terminator at buffer[result]: behind the last chunk
\* written, and inside of a buffer that has a byte at all, however many chunks
\* of whichever sizes were left out.
TerminatorFits ==
    /\ result = cursor
    /\ sink = "buffer" /\ bufsize > 0 => result < bufsize
===============================================================================
