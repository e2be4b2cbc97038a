-------------------------------- MODULE J2Scan --------------------------------
(***************************************************************************)
(* extractString and extractNumber of src/json2/j2parse.c, character by    *)
(* character, inside the parser of J2Parse: when a value begins with a     *)
(* quote or a digit, the scanner reads it into a dynamic string and folds  *)
(* what it has read into the one symbol J2Parse knows for it.              *)
(*                                                                         *)
(* Characters, besides the symbols of J2Parse: "quote", "bslash", "n" for  *)
(* the letters of one-letter escapes, "u", "zero" for the digit 0 of a     *)
(* code ("num" is any other digit), "lead2" and "lead3" for the first byte *)
(* of a UTF-8 sequence, "tail" for its other bytes, "bad" for bytes UTF-8  *)
(* has not.  "x" stands for all others.  Decoded, a sequence or a code is  *)
(* "wide", and "odd" if the sequence goes on with something else.          *)
(***************************************************************************)
EXTENDS J2Parse, DynStr

CONSTANTS Contents,    \* what the symbols of Strings hold; not "other"
          DsMayFail    \* an append that needs memory can fail

ASSUME ContentsAssumption == DOMAIN Contents \subseteq Strings /\ "other" \in Strings
ASSUME DsMayFailAssumption == DsMayFail \in BOOLEAN

VARIABLE scan   \* the call: what it is, the next character, the string it
                \* builds, and the text from its first character on

\* `dead`: an assertion failed, or strtod was given no text.
Idle == [call |-> "none", at |-> 0, ds |-> NoBuffer, source |-> <<>>]
ready == scan.call = "ready"
dead == scan.call = "dead"

InString == scan.call = "string"
InNumber == scan.call = "number"

Char == At(scan.at)
NextChar == At(scan.at + 1)

Digits == {"num", "zero"}
Octets == [c \in {"lead2", "lead3"} |-> IF c = "lead2" THEN 2 ELSE 3]
Stray == {"tail", "bad"}
Escaped == {"quote", "bslash", "n"}
Special == EndMarks \union Stray \union DOMAIN Octets \union {"quote", "bslash"}

SymbolOf(content) ==
    IF \E s \in DOMAIN Contents : Contents[s] = content
    THEN CHOOSE s \in DOMAIN Contents : Contents[s] = content
    ELSE "other"

NeedsScan == pc = "value" /\ Peek \in {"quote", "num"} /\ scan.call # "ready"

ScanBegin ==
    /\ scan.call = "none"
    /\ scan' = [call |-> IF Peek = "quote" THEN "string" ELSE "number",
                at |-> IF Peek = "quote" THEN pos + 1 ELSE pos,
                ds |-> NoBuffer,
                source |-> SubSeq(text, pos, Len(text))]
    /\ UNCHANGED vars

\* The call ends before the character at `next`; J2Parse finds the symbol.
ScanEnds(symbol, ds, next) ==
    /\ text' = SubSeq(text, 1, pos - 1) \o <<symbol>> \o SubSeq(text, next, Len(text))
    /\ scan' = [scan EXCEPT !.call = "ready", !.at = next, !.ds = ds]
    /\ UNCHANGED <<ending, pos, line, stack, pc, val, reported, live>>

\* ON_EXTRACT_ERROR; `why` is what the text is not to blame for.
ScanFails(next, why) ==
    /\ ScanEnds("broken", NoBuffer, next)
    /\ failed' = failed \union why

Goes(ds, next) ==
    /\ scan' = [scan EXCEPT !.ds = ds, !.at = next]
    /\ UNCHANGED vars

\* One character more; without memory the call fails at `stuck`.
Appends(smb, next, stuck) ==
    \/ Goes(dsAppend(scan.ds, smb), next)
    \/ DsMayFail /\ NeedsMemory(scan.ds) /\ ScanFails(stuck, {"string memory"})

-----------------------------------------------------------------------------
(***************************************************************************)
(* extractString                                                           *)
(***************************************************************************)
ReadPlain ==
    /\ InString
    /\ Char \notin Special
    /\ Appends(Char, scan.at + 1, scan.at)

CloseString ==
    /\ InString
    /\ Char = "quote"
    /\ \/ LET closed == dsAppend(scan.ds, "NUL")
          IN  /\ ScanEnds(SymbolOf(CString(closed)), closed, scan.at + 1)
              /\ UNCHANGED failed
       \/ DsMayFail /\ NeedsMemory(scan.ds) /\ ScanFails(scan.at, {"string memory"})

StringEnds ==
    /\ InString
    /\ Char \in EndMarks
    /\ ScanFails(scan.at, {})

Meaning(c) == IF c = "n" THEN "nl" ELSE c

ReadEscape ==
    /\ InString
    /\ Char = "bslash"
    /\ NextChar \in Escaped
    /\ Appends(Meaning(NextChar), scan.at + 2, scan.at + 1)

\* No case of extractEscape: only the backslash has been read.
SkipBackslash ==
    /\ InString
    /\ Char = "bslash"
    /\ NextChar \notin Escaped \union EndMarks \union {"u"}
    /\ Goes(scan.ds, scan.at + 1)

EscapeEnds ==
    /\ InString
    /\ Char = "bslash"
    /\ NextChar \in EndMarks
    /\ ScanFails(scan.at + 1, {})

\* dsXAppend: the character may not exist in the program's encoding, and iconv
\* may not be had.
AppendsWide(smb, next) ==
    \/ Appends(smb, next, next)
    \/ ScanFails(next, {"encoding"})

\* \u and four digits of a code; code 0 is appended like any other.
ReadCode ==
    /\ InString
    /\ Char = "bslash" /\ NextChar = "u"
    /\ LET first == scan.at + 2
           Good(n) == \A i \in first .. first + n - 1 : At(i) \in Digits
       IN  IF Good(4)
           THEN AppendsWide(IF \A i \in first .. first + 3 : At(i) = "zero"
                            THEN "NUL" ELSE "wide",
                            first + 4)
           ELSE \E n \in 0 .. 3 : /\ Good(n) /\ ~Good(n + 1)
                                  /\ ScanFails(first + n, {})

\* A sequence in a file.  Its other bytes are not looked at; what they add up
\* to may be zero, which counts as an error.
ReadSequence ==
    /\ InString
    /\ Char \in DOMAIN Octets
    /\ ending = "EOF"
    /\ LET last == scan.at + Octets[Char] - 1
           next == IF last > Len(text) THEN Len(text) + 1 ELSE last + 1
           tails == \A i \in scan.at + 1 .. last : At(i) = "tail"
       IN  AppendsWide(IF tails THEN "wide" ELSE "odd", next)

\* In a string its first byte is a negative char, which utf8ExtractOctets takes
\* for the end.
SequenceFails ==
    /\ InString
    /\ Char \in DOMAIN Octets
    /\ ending = "NUL"
    /\ ScanFails(scan.at + 1, {})

\* assert(0); with NDEBUG an error.
ReadStray ==
    /\ InString
    /\ Char \in Stray
    /\ \/ scan' = [scan EXCEPT !.call = "dead"] /\ UNCHANGED vars
       \/ ScanFails(scan.at, {})

-----------------------------------------------------------------------------
(***************************************************************************)
(* extractNumber                                                           *)
(***************************************************************************)
\* A failed append is not noticed: the digit is missing.
ReadDigit ==
    /\ InNumber
    /\ Char = "num"
    /\ \/ Goes(dsAppend(scan.ds, Char), scan.at + 1)
       \/ /\ DsMayFail /\ NeedsMemory(scan.ds)
          /\ scan' = [scan EXCEPT !.at = scan.at + 1]
          /\ failed' = failed \union {"number memory"}
          /\ UNCHANGED <<input, pos, line, stack, pc, val, reported, live>>

\* strtod reads the buffer; without one the program ends here.
NumberEnds ==
    /\ InNumber
    /\ Char # "num"
    /\ IF scan.ds = NoBuffer
       THEN scan' = [scan EXCEPT !.call = "dead"] /\ UNCHANGED vars
       ELSE ScanEnds("num", scan.ds, scan.at) /\ UNCHANGED failed

ScanNext ==
    \/ ScanBegin
    \/ ReadPlain \/ CloseString \/ StringEnds
    \/ ReadEscape \/ SkipBackslash \/ EscapeEnds \/ ReadCode
    \/ ReadSequence \/ SequenceFails \/ ReadStray
    \/ ReadDigit \/ NumberEnds

\* The parser goes on when it needs no scan, and with what the scan gave it.
ParseNext == Next /\ scan' = Idle
===============================================================================
