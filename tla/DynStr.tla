-------------------------------- MODULE DynStr --------------------------------
(***************************************************************************)
(* The dynamic string of src/json2/j2dynstr.c, as its one client uses it:  *)
(* dsAppend and dsReleaseBuffer on a string that begins without a buffer.  *)
(* A string is the cells of its buffer and its length; cap is the number   *)
(* of cells.  Nobody writes a terminator: calloc has.                      *)
(***************************************************************************)
EXTENDS Integers, Sequences

CONSTANT DsInitialLen   \* DS_INITIAL_LEN, 8 in the code

\* A capacity of one would be full with its terminator, and not grow by half.
ASSUME DsInitialLenAssumption == DsInitialLen \in Nat \ {0, 1}

NoBuffer == [buffer |-> <<>>, len |-> 0]

\* calloc
Zeros(n) == [i \in 1 .. n |-> "NUL"]

\* Faulty variants, named <definition>_<fault>, stand before the definitions
\* they vary: each is a slip the properties must notice.

\* No buffer yet, or only the terminator's cell is left.
NeedsMemory_Full(ds) == ds.len = Len(ds.buffer)
NeedsMemory(ds) == ds.buffer = <<>> \/ ds.len + 1 = Len(ds.buffer)

Room(ds) ==
    IF ds.buffer = <<>> THEN Zeros(DsInitialLen)
    ELSE IF NeedsMemory(ds)
         THEN SubSeq(ds.buffer, 1, ds.len) \o Zeros((Len(ds.buffer) * 3) \div 2 - ds.len)
         ELSE ds.buffer

\* dsAppend, when memory lasts.
dsAppend(ds, smb) ==
    [buffer |-> [Room(ds) EXCEPT ![ds.len + 1] = smb], len |-> ds.len + 1]

\* What a reader of the released buffer sees: the characters before the first
\* zero; without one he reads on past the end.
CString(ds) ==
    LET zeros == { i \in DOMAIN ds.buffer : ds.buffer[i] = "NUL" }
    IN  IF zeros = {} THEN ds.buffer \o <<"past the end">>
        ELSE SubSeq(ds.buffer, 1, (CHOOSE i \in zeros : \A j \in zeros : i <= j) - 1)
===============================================================================
