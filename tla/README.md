# Verification of Alpha0

Alpha0 is a C library of small data structures: a ring buffer (RBUF), a hash
table (UDICT), a JSON tree with parser and printer (JSON2), and a prefix tree
(PrefixKV). This directory holds TLA+ models of it, the TLC configurations that
check them, and proofs for TLAPS. Paths are relative to the repository's root.

## 1. The system

The library has no threads and no I/O of its own beyond `FILE*` callbacks. What
is hard about it is *sequences of calls* (a handle or an index that was right
two calls ago), *boundaries* (full, empty, wrapped, capacity one), *collisions
and duplicates*, and *errors in the middle of something half built*.

| Part | Source | State | Operations | Used by |
|---|---|---|---|---|
| RBUF | `src/rbuf.c`, `include/rbuf.h` | array of slots, `start`, `end`, `size`, cleanup function | init, reset, cleanup, push, pop, front, back, next, prev, set value | clients |
| UDICT | `src/udict.c`, `include/udict.h` | table of pairs, active flags, duplicate counts, `size` | init, rehash, cleanup (deep), insert, reset, find, get, set value, next, left, iterators | JSON2 objects |
| JSON2 objects | `src/json2/j2value/j2object.c` | a UDICT of key-value blocks under the hash of the name | set, item, iterators, size | parser, clients |
| JSON2 arrays | `src/json2/j2value/j2array.c` | growing array of values | append, index, size | parser, clients |
| JSON2 values | `src/json2/j2value.c`, `j2string.c`, `j2number.c`, `j2special.c` | tagged value | init, type, cleanup, `jo`/`ja` getters, `joFind` | all of JSON2 |
| JSON2 parser | `src/json2/j2parse.c` | position, line, recursion | parse buffer, stream or callbacks | clients |
| Dynamic strings | `src/json2/j2dynstr.c` | growing buffer | append, release | parser |
| JSON2 printer | `src/json2/j2print.c` | write callback, cursor | print to callback, buffer, file | clients |
| PrefixKV | `src/prefixkv/*` | tree of bit counts over sorted leaves | build, masked search, cleanup | clients |
| MurMur3 | `contrib/mur32.c` | - | hash of a name | objects |

The parts interact by plain calls and by ownership: an object calls `udFind`,
`udNext`, `udLeft`, `udInsert`, `udRehash` and, through `j2Cleanup`,
`udCleanupDeep` with a callback that frees; the parser builds arrays and objects
and must free them on every error path; RBUF hands values to a callback of the
client.

What makes each part correct:

* RBUF: a bounded first-in first-out queue; handles are slots, and walking from
  one leads to stored items only; who frees a value, and that it is once.
* UDICT: every pair is found, duplicates come in the order of insertion, counts
  are exact, a rehash loses nothing.
* Objects: a map from names to values whatever the hash does; each value freed
  exactly once; iteration complete although members are set meanwhile.
* Parser: accepts JSON and nothing else, gives the right tree, returns, frees
  everything on errors, and reports errors as `j2parse.h` says.
* Arrays, dynamic strings: contents survive growth. Printer: what is written
  fits and can be read back. PrefixKV: the search finds a matching pair exactly
  when there is one.

## 2. Modules

| Module | Stands for |
|---|---|
| `RBuf` | `rbuf.c`, one action per function; the client holds one item handle for as long as it likes |
| `BoundedFifo` | abstract: what `rbuf.h` promises, a queue that forgets its oldest value |
| `RBufOwner` | `RBuf` with heap values and a cleanup function that frees: who owns each value |
| `RBufProofs` | theorems about `RBuf`, its refinement included, and `RBufOwner` |
| `UDictTable` | `udict.c` as pure operators, what a call does to a table |
| `UDict` | a dictionary's life over `UDictTable`; `udRehash` moves one pair a step |
| `UMulti` | abstract: a multimap of limited size with a cursor |
| `UDictTableProofs`, `UDictProofs` | lemmas about a table's operators, theorems about `UDict`, its refinement included |
| `J2Object` | `j2object.c` over `UDictTable`, with ownership, growth and an iteration |
| `J2Map` | abstract: a map from names to values |
| `J2ObjectProofs` | theorems about `J2Object`, its refinement included |
| `J2Parse` | `j2ParseFuncSTD`, the recursion as a stack of half-built containers |
| `J2Grammar` | reference: the JSON grammar over the same symbols, not derived from the parser |
| `DynStr` | `j2dynstr.c`: a growing string, as its client uses it |
| `J2Scan` | `extractString`, `extractEscape`, `extractNumber`: extends `J2Parse`, reads a literal character by character |
| `J2Layout` | `j2PrintFunc`: the chunks written for a tree |
| `J2Write` | the two write callbacks, chunk by chunk, over any sequence of chunks |
| `J2StreamProofs` | theorems about `J2Parse`, also against `J2Grammar`, and about `J2Write`, `J2Find` and `J2Scan` as `J2Text` composes them |
| `J2Find` | `joFind`, one action per round of its loop |
| `J2Text` | composition: print, parse what was written, look up a path |
| `J2Meaning` | reference: what a literal says by the JSON grammar, which value a path names |
| `J2Reading` | reference: trees that survive being printed and read, and what a small buffer leaves of them |
| `PkvLeaf` | keys, masks, orders and the search of a leaf of the prefix tree |
| `PrefixKV` | building, searching and cleaning up a prefix tree, over `PkvLeaf` |
| `PrefixKVProofs` | theorems about `PrefixKV` |
| `NatLemmas`, `StepRecursion` | facts about numbers and recursive functions the proofs share |
| `MC*` | instances for TLC |

`J2Text` extends `J2Find` and `J2Write`; `J2Find` extends `J2Scan`, that
`J2Parse` and `DynStr`. What is printed for a tree is a constant of `J2Text`, a
function `Printed` from trees to chunks, so that the composition can be proved
about for every printer; `J2Reading` assumes that it is `j2PrintFunc` of
`J2Layout`, and the instance defines it so. Recursive operators are in the modules
about printing trees only, `J2Layout` and `J2Reading`; `PrefixKV` has recursive
functions of the level instead, `J2Meaning` of the place in a text or path, and
`J2Grammar` of the number of symbols.

### RBuf
`cap`, `data`, `start`, `end`, `size`, `clean` are the fields of `struct _rbuf_`
(`clean` only as whether it is set); `cap = 0` is the null handle. `it` is the
client's `RBITEM`, a slot number or `NoItem`; it survives pushes, pops and
resets, and is forgotten only by `rbufCleanup`, after which it would dangle.
`ret` and `cleaned` record what the last call returned and handed to the cleanup
function. A call on a null handle, or one that returns early without effect, is
a stuttering step. `rbufCleanup` and a failing `malloc` lead back to "no buffer".

### RBufOwner
Adds who owns each heap value. `OPush` and `OPop` are the calls with the
cleanup function `free`; `OTake` is a client that reads the front value, stores
zero in its item and pops it. `TakingSpec` has clients that only take,
`PoppingSpec` adds `OPop`.

### UDictTable and UDict
A table is a record `[cap, size, active, key, value, dups]`. The two-pass probe
loops are modelled by where they stop: `Steps(t, h, p)` is how many slots a probe
from `h` meets before `p`, and `FirstFrom(t, h, S)` the first slot of a set it
meets. This is the loop's result, including the second pass from slot zero that
passes the home again. `Home(k, c)` is `key & (cap-1)`, a constant, so that the
modules proved about need no bit operations; the instances define it by `&`.
`udRehash` is `RehashBegin`, a `RehashMove` for every slot, `RehashEnd`, with the
half-filled new table visible in between; no other call runs meanwhile.

### J2Object
`dict` is the table in the value; a member is the key-value block with its name
and value. `Walk` is the loop over `udFind`, `udLeft`, `udNext` that both set and
item run. `Hash` is a constant and may collide. `WordWidth` is the width of the
capacity, 32 in the code: `udCap << 1` is taken modulo `2^WordWidth`. `owner`
and `blocks` account for `j2Cleanup`, `malloc` and `free`. A set is one of
`SetFails` (no memory for the block), `SetReplaces`, `SetInserts`, `SetGrows`,
`SetRefused` (cannot grow). The client stores a value in one place only, and drops
its iterator when the object grows; the header says neither, and without either
the C program reads freed memory.

### J2Parse and J2Grammar
The text is a sequence of symbols: single characters, and one symbol for each
run an extract function takes in one go (number, string, keyword). A call of
`j2ParseFuncSTD` is between `pc = "value"` and `pc = "return"`; a container that
is being read is a frame on `stack`, in `pc = "loop"` while its while loop looks
at the next character. `nul` in a frame is the loop variable `chr` being zero when
the item was begun, which ends the array's while loop but not the object's.
`live` counts allocated values; `failed` which kinds of allocation have failed.
An array's capacity follows from its length (`Capacity`, from `ArrayCap`, 7 in
the code), and only an append to a full one needs memory.
`Ends` is what follows the text: 0 for a string, -1 for a file; the two take
different paths out of an array.

### J2Scan and DynStr
`scan` is the call of an extract function: the next character, the string it
builds, and the text it began with. When the call ends, what it has read is
folded into the one symbol `J2Parse` knows, so the parser's actions are used as
they are. Characters are classes (a quote, a backslash, an escape letter, a
digit, first and other bytes of UTF-8 sequences). A string and a file differ:
in a string a byte from 0x80 is a negative `char`, and every sequence an error.
`dsXAppend` may fail for a character the program's encoding lacks. Where the
build decides what happens (`assert(0)`, or an error with `NDEBUG`) both are
taken; after the assertion, or after `strtod` of a null pointer, nothing follows
(`dead`). `DynStr` keeps the buffer with its zeros, since nobody else writes a
terminator.

### J2Layout, J2Write, J2Find and J2Text
A chunk is one call of the write callback, its text in the parser's symbols and
its size in bytes. `J2Write` takes chunks one by one: a buffer drops what does not
fit, a file may fail at each. `J2Text` hands what was written to the parser (a
string after `j2PrintBuffer`, a file after `j2PrintFile`), and looks up paths in
trees that came back from files. `J2Find` restores the cut character in the
action that cut it: the copy of the path is private to the call.

### PkvLeaf and PrefixKV
A word is the set of its bits. `Trees[k]` are the branches up to level `k`, and
`pkvBuildBranch16`, `pkvSearchBranch16` and the walks over a tree are recursive
functions of the level, as the C functions recur from a level to the one below. A build of a tree is one action, with the number
of allocations it gets as input: it gives the tree, and the blocks still
allocated. `qsort` may order equal elements in any way; the trees of a build are
a set. A search returns a place in the tree's array, or one that is before it:
the leaf's scan begins at `last - 1` (`prefixkv16.c:172`), which for the first
leaf is memory outside, and may look like a match.

## 3. Runs

Runs marked *pass* have their properties checked without error, those marked
*violation* show a disagreement with a comment, header or test (section 4).

| Run | Instance | Shows |
|---|---|---|
| `rbuf` (pass) | capacities 1-3, two values | queue while aligned; when it drifts; nothing lost by a push; walking; stale handles |
| `rbuf_single` (violation) | the same | front and back of a single item differ |
| `rbuf_owner` (pass) | capacities 1-3, three values | one free per value for a client that takes |
| `rbuf_owner_pop` (violation) | the same | a popped value is freed under its owner |
| `udict` (pass) | capacities 2-4, keys 1 and 3, two values | reachability, exact counts, order of duplicates, rehash, cleanup, the multimap call by call |
| `udict_rehash` (violation) | the same | `udGet` changes across a rehash |
| `j2object` (pass) | capacities 1, 2, 4; five names, three hashes | map, walk, ownership, leaks, iteration |
| `j2parse` (pass) | every text up to 4 symbols, up to 5 structural ones, 150 documents | grammar, leaks, line, termination |
| `j2parse_error` (violation) | brackets and blanks | error reported, tree returned |
| `j2parse_blank` (violation) | braces and blanks | `{ }` rejected |
| `prefixkv` (pass) | keys of two words of two bits, lists of up to four pairs, all keys and masks, up to 9 allocations | what a tree holds, what a search misses, blocks |
| `j2text` (pass) | all literals up to 4 characters (5 of the most telling), 19 trees, buffers of 0 to 84 bytes, 419 paths | literals, numbers, printing and reading again, small buffers, paths |

**Why the bounds are enough.** Three slots let an index wrap while the other does
not, put a handle strictly between them, and let a drained buffer drift by less
than its capacity. In tables of two, three and four slots, key 3 starts at or
next to the last slot and wraps, keys 1 and 3 share a home in the table of two,
duplicates of one key lie between pairs of the other, tables fill up, and three
is a capacity that is no power of two. Objects start with one slot (`DICT_ICAP`
is 8), so five names make them grow twice and then meet the overflow, which the
three-bit word places after four. The short texts contain every way to break off a
container with a child; the documents add two levels and two children. Arrays start with a capacity of two, so four items outgrow them twice, and dynamic
strings with two cells (8 in the code), which eight characters outgrow four
times. The buffers are of every size up to past the longest text, and the trees
have names, strings, numbers and keywords both shorter and longer than the
punctuation, because what is lost depends on which chunk is longer than which.
The lists of pairs fill leaves with up to four keys and need splits at both
levels; `MaxLost` and `MaxErrors` (one each) bound lost headers and failures of
`fwrite`. Values are interchangeable, so the instances use symmetry where no liveness is checked.
No other quantity is bounded, and each state space is finite and explored in full.

**Fairness.** Only `J2Parse` has a liveness property, `Terminates`, under
`WF_vars(Next)`: the parser is a loop of the calling thread, its callbacks return,
and while it has a step to take it takes one. All else is safety.
The parser stops when it is done, and so does the client of
`J2Text`, so their runs do not check deadlock; in the other
models a client can always make another call.

Properties worth a note:

* `DriftOnlyByDrainedPush`, `PushKeepsYounger`: what still holds of the ring
  buffer in spite of the first finding. `Aligned` says `start` is the oldest
  item; `AlignedStepsAreFifo` says each step that begins and ends aligned is a
  step of `BoundedFifo`.
* `StaleHandleDetected` excludes `size = 1`: then `start = end`, and
  `rbufIndexInside` takes every index for inside.
* `DuplicatesEnumerated` ties the incremental counts in `dups` to the real number
  of later duplicates and to where `udFind` and `udNext` lead.
* `CallsKeepTheirPromise` adds to `ImplementsMultimap` which call takes which
  abstract step: `udReset` never adds where it should replace.
* `ImplementsMultimap` and `ImplementsMap` are refinements: the abstract state is
  computed from the table, and every step is a step of the abstract module.
* `SilentlyAcceptedIsJson` and `ParsesOtherJson` compare the parser with
  `J2Grammar` in both directions. The exceptions of the second are named in it:
  blanks in an empty object, and a keyword before `\r` or the end of a file.
* `NothingLeaks` exempts exactly one path: the item whose append to a full array
  fails.
* `LeavesReadWhole` compares the scanner with a grammar of literals: all that is
  JSON is taken and becomes what it says, unless memory or the encoding fails or
  a string from memory has a UTF-8 sequence, and what is taken besides is only
  a stray backslash or a sequence with wrong tails.
* `RoundTrip` says exactly which trees survive; its exceptions are section 4, 6.
* `TruncationOnlyEmpties`: a buffer that is too small may still hold JSON, and it
  is then the same tree with strings and names emptied. This hangs on the lengths
  of the chunks; a longer comma, for instance, would let numbers run together.
* `TerminatorFits` is about any sequence of chunks, not only printed trees; it
  exempts a buffer of no bytes, into which the code writes all the same.
* `SearchAnswers` names in `Overlooks` what a leaf's search misses (section 4, 7),
  and shows that it misses nothing else, that the choice of the child misses
  nothing, and that every scan ends.
* `NothingElseLeaks` exempts the header at `prefixkv16.c:113`.

## 4. Disagreements found

1. `rbuf.c:102` - `rbufPushBack` relies on "end and start are equal" in an empty
   buffer; `rbufPopFront` leaves them apart. After push, pop, push, `rbufFront`
   is not the item (run `rbuf_single`).
2. `rbuf.c:113` - the cleanup function is called for whatever a slot still holds,
   popped values included (run `rbuf_owner_pop`).
3. `udict.c:80` - a rehash may change which of several values `udGet` returns
   (run `udict_rehash`). JSON objects are not affected, their names are unique
   (`NamesUnique`).
4. `j2parse.c:492` - `[ ]` is returned as a tree although the error function was
   called (run `j2parse_error`).
5. `j2parse.c:542` - `{ }` is rejected (run `j2parse_blank`).

The next ones have no run of their own: the property that passes states them as
its exceptions, and without the exception it fails.

6. `j2print.c:52` - strings and names are written without escapes, so one with a
   quote or a backslash is not read back, and neither is an empty object, because
   of 5 (`Readable` in `RoundTrip`).
7. `prefixkv16.c:227-251` - the comment says the upper bound is the masked key "with
   all masked bits turned on"; the code turns on the bits that are off in the key,
   not those off in the mask. Leaves are sorted largest first
   (`prefixkv16.c:23`), but both binary searches assume smallest first. A pair
   that matches is missed (`Overlooks` in `SearchAnswers`), where `prefixkv.h:82`
   says "zero if not found, non zero otherwise", and the pair before the array can
   be read (`Outside`).
8. `prefixkv16.c:113` - the tree's header is lost when the array cannot be
   allocated (`lost` in `NothingElseLeaks`).
9. `j2parse.c:299` - "this can't happend, because long encoded strings are already
   processed": a lone tail byte, or one UTF-8 does not have, gets there
   (`ReadStray`). `j2parse.c:316` - "can't get 0 from utf8ExtractOctets": every
   sequence in a string gives 0 (`SequenceFails`).
10. `j2parse.c:371` - a number loses a digit when memory for it fails, silently, and
    with no memory at all `strtod` gets a null pointer (`LeavesReadWhole`).

## 5. Proofs

TLAPS checks the theorems below for every value of the constants. They rest on
the named assumptions of the modules, which TLC evaluates in the runs:
capacities are positive numbers (`CapsAssumption`), a home is a slot
(`HomeAssumption`; the code's `key & (cap-1)` is one), the capacity of an object
fits its word, texts, printouts and paths do not hold the mark that ends them (`TextsAssumption`,
`DocsAssumption`, `PathsAssumption`), and
strings are none of the other symbols (`StringsAssumption`).

| Theorem | States | For every |
|---|---|---|
| `RBufProofs`: `TypeCorrect`, `DriftTheorem`, `PushTheorem` | `TypeOK`, `DriftOnlyByDrainedPush`, `PushKeepsYounger` | capacity, values, client |
| `WalkTheorem`, `StaleTheorem` | `WalkInOrder`, `StaleHandleDetected` | the same |
| `FifoStepsTheorem` | `AlignedStepsAreFifo` | the same |
| `DisciplineTheorem`, `FifoTheorem` | the buffer stays `Aligned`, and `ImplementsFifo` | client that resets a drained buffer before it pushes |
| `SlotsTheorem`, `FreesTheorem` | `SlotsOwnWhatTheyHold`, `FreesOnlyItsOwn` | capacity, heap values, client that only takes |
| `UDictProofs`: `TypeTheorem`, `ReachableTheorem`, `SizeTheorem`, `DuplicatesTheorem`, `HandleTheorem`, `DeepTheorem`, `StayTheorem`, `FitTheorem` | `TypeOK`, `EveryPairReachable`, `SizeIsExact`, `DuplicatesEnumerated`, `HandleNamesPair`, `DeepCleansAll`, `ItemsStay`, `EverythingFits` | capacity, home function, keys, values |
| `MultimapTheorem`, `PromiseTheorem` | `ImplementsMultimap`, `CallsKeepTheirPromise` | the same |
| `J2ObjectProofs`: `TypeTheorem`, `WalkTheorem`, `NamesTheorem`, `OwnTheorem`, `BlockTheorem`, `IterationTheorem`, `MapTheorem` | `TypeOK`, `WalkIsSafe`, `NamesUnique`, `OwnsWhatItHolds`, `NoBlockLeaks`, `IterationComplete`, `ImplementsMap` | hash, word width, names, values |
| `J2StreamProofs`: `TerminatorTheorem` | `TerminatorFits` | sequence of chunks, buffer size |
| `TypeTheorem`, `LineTheorem`, `LeakTheorem`, `ErrorTheorem` | `TypeOK`, `LineIsExact`, `NothingLeaks`, `ZeroMeansError` | text of any length and depth, failing allocations |
| `LiteralTheorem` | `LeavesReadWhole` | text, printed or not, what symbols hold, initial buffer, failing memory and encodings |
| `SilentTheorem`, `OtherJsonTheorem` | `SilentlyAcceptedIsJson`, `ParsesOtherJson` | set of texts of any length, strings, ends, failures |
| `PathTheorem` | `PathsFind` | path, tree |
| `PrefixKVProofs`: `LeavesTheorem`, `LeakTheorem`, `SearchTheorem` | `LeavesHoldPairs`, `NothingElseLeaks`, `SearchAnswers` | width of a word, length of keys, list of pairs, memory |

**Ring buffer.** `TypeOK` is inductive as it stands, because the indices are only
advanced modulo `cap`; `ModOnce` is the arithmetic fact under it. The oldest slot
is written without a remainder (`OldestOf`), and the calls that move the indices
are split by full or not and by which index wraps. For the refinement, `Reads`
says that a sequence is what a window of slots holds; a lemma for each of append,
tail, overwrite and replace says what a change of the slots does to it, and each
call is one of them. `OwnerInv` adds that a value is in a slot exactly while the
buffer owns it, and in one slot only: without the second, a push that overwrites
could free a value another slot still holds.

**Hash table.** `WellFormed` is the invariant of a table: its types, that no free
slot lies between a home and a pair of that home, the exact size, the exact
`dups`. None of them is inductive alone: that `udInsert` counts up the right
duplicates needs reachability, and that it finds a slot needs the size. `DictInv`
is `WellFormed` of the table and of the one a rehash fills, a new table no smaller
than the old, and a handle that names a pair. The proof rests on what a probe meets: `StepsOrder` gives
every slot a time of its own, `FirstFromIs` the first one of a set, so
`FindSlotIs`, `InsertSlotIs`, `ResetSlotIs` and `NextSlotIs` replace the loops.
A new pair lands behind all pairs of its key (`LandsBehind`), which is why the
counts of the earlier ones go up by one and no other does. `FitTheorem` has a
step invariant of its own, `Fitted`: the new table's size is the number of slots
moved, and of every key and value it has as many pairs as were moved. `RoomLeft`
shows from the first part that the insert finds a slot; `MoveFits` that a move
counts both sides up by one.

For the multimap, a pair's `Rank` is one more than the number of pairs of its key
that the probe meets before it. The ranks of a key's pairs are the numbers up to
their count, each once (`RankIs`, `RankOnto`), so a sequence with the value of each
pair at its rank is the key's sequence (`ValuesFit`); no reasoning about the choice
in `ValuesOf` is needed after that. A pair that lands is behind all of its key:
append (`ListingLanded`). A write to a pair replaces the value of its rank and
moves no cursor (`ListingChanged`). `udFind` gives rank one, `udNext` the rank after
(`FirstPlace`, `NextPlace`). The multimap is full when the table is, because places
<<key, rank>> and pairs correspond (`PlacesAre`), and a finished rehash has each
value as often as before (`EverythingFits`, `ValueCounts`). There is one lemma for
each call (`MultiInsert` to `MultiGrows`); both theorems cite them.

**Objects.** `ObjInv` adds to `WellFormed` that members sit under the hash of
their name, that names are distinct, who owns what, the number of blocks, and
where an iteration is. Replacing a value keeps `WellFormed` although it writes
into the table, because it writes values only (`Overwrites`). The walk of a
lookup ends where `udLeft` says by `GivenStep`: each step takes one from the
later duplicates. Growing keeps the set of members (`SamePairs`, from
`Fitted` over the whole table), so that for the map nothing happens. `MapTheorem` takes
`Bindings`, names to values, as the refinement mapping.

**Parser.** Two invariants. `PosInv`: the line counts the newlines before the
place, and an open string before it means the end of the text, so that nothing is
counted inside of one. `TreeInv`: what is allocated is what the stack and the
returned value weigh (`Load` adds up frames, each the size of its container, and
one for a name that waits for its value); frames of arrays have no name, a name
weighs one, and there is none in the loop of a container. These are the facts
each error path relies on when it cleans up "itself and `extra`" (`FailKeeps`).
The totals are folds; `TotalIsUpto` shows that the community modules' fold gives
the sum of the beginnings, `TotalBut` and `TotalLast` how it changes.

**Grammar.** `J2Grammar` gives the set of trees for the symbols from `i` to `j`,
from those for fewer symbols (`GrammarByLength`); `ValuesAre`, `MembersAre` and
`ListsAre` are its rules. `SoundInv` describes a parser that has not called the
error function: each frame on the stack is a container that began at some place,
whose list of children, so far, is what the symbols up to the comma stand for, and
a name is the string before a colon (`Waits`, `Waiting`, `Looping`); a value that
is returned is one of the symbols from where the innermost frame waits to here.
Each action that makes no error takes one to the next (`ItemRead`, `NameRead`,
`MemberRead`, `ContainerRead`, `CommaRead`). `ObjectOfAppend` shows that
`j2ValueObjectItemSet`, member by member, makes the object the whole list stands for,
where the last of equal names counts at the place of the first. That no second tree
is possible is `OneTree`: two readings with the same end have the same last symbol
that is no space, so the same bracket, and by course of values over the number
of symbols the one cannot begin behind a delimiter inside of the other.

The reverse, `OtherJsonTheorem`, follows the parser along a reading of the whole text
that is known to exist. In `CompleteInv` each frame is a container of that reading
with the first elements of its list read (`Place`: `Parts` are the elements and the
commas between them, `NodeOf` the container the prefix makes), the innermost one
with the value that is wanted next, or its loop at the place where a reading has a
comma or the bracket (`Looped`). `Nested` says so of the whole stack. Each action goes on to
the next place of the reading (`OpenedLoops`, `ItemTaken`, `NameTaken`, `MemberTaken`,
`CommaPlaced`, `ClosedIs`), and those that give a container up cannot be taken
(`NothingFails`). An array with nothing but spaces is a case of its own (`Hollow`):
there the parser looks for a child, calls the error function and still closes the
array; in an object it would give up, which is why the property leaves those out.

**Literals.** `J2Meaning` defines what the first `n` characters behind a quote can
mean (`Decodings`), as concatenations of units, without a scanner. `IsString` is
the invariant of a dynamic string: at least one zero behind what was appended, so
that a reader sees the content, up to a zero in it (`CStringIs`), through every
growth (`dsAppendIs`). The inductive part of `ScanInv` is `Reading`: what has been
read decodes to the content of the string, by the scanner's rules always, and by
JSON's if the text begins with a JSON literal, which then ends no earlier than
here. The second half is why the scanner may decide by one character without looking
back: no unit of JSON is the beginning of another (`UnitUnique`), so a literal that
is not closed goes on with the one unit that begins here (`UnitThere`,
`StrictGrows`), and where there is none the text begins with no JSON literal
(`NoUnitHere`), which is what excuses an error or an assertion. There is one lemma
for each action (`ReadPlainKeeps` to `NumberEndsKeeps`). For a number the invariant
is that the digits are the content, unless memory failed. `WriteText` carries
from the printer what the parser needs, a text without a mark inside.

**Paths.** `FindInv` says that the value reached is the one the steps before the
cursor lead to (`Steps`, by course of values over the path, each step back to the
last separator), so that a separator is where a step ends and the next begins.

**Prefix tree.** Everything about a tree is by its level. `StepRecursion` shows that a
function that computes its value at `k` from those below `k` exists, for any
step, so each of the recursive functions is what its definition says
(`TreesByLevel` and the like), and `AllLevels` does the induction. `BuildGives` says
what a build gives at each level: nothing that stays allocated, or a tree that is
`WellBuilt` from its pairs. It rests on `SortPermutes` (a sort gives every pair as
often as it got it, which is all that is known of `qsort` but the order), `Halves`
and `TimesConcat`. `TreeInv` keeps this through the tree's life, and that the last
answer is one that `pkvSearchBranch16` can give for this tree.

For the search, keys are totally ordered (`KeyOrderTotal`, from the highest bit in
which two words differ; that there is one needs the finite set of bits). A leaf is
sorted the other way round than its searches assume, so where the bound is between
its first and last key all its keys are equal (`BetweenIsEqual`); then the
bisection ends at the left end (`BisectOfEqual`), and a search ends at 0, -1, the
number of pairs or nowhere (`SearchEnds`). From this follow what a scan can return
(`SearchLeafGives`) and that it ends (`ScanEnds`). A word that matches has at least
the bits `low` and at most `high` counts (`MatchingBits`), so the child left out has
no match (`SkippedChild`); `SearchGives` puts the levels together.

**Instead of induction.** The library's induction theorems take an operator, which
the installed provers cannot instantiate. `NatLemmas` proves from the
well-foundedness of `<` that a set of numbers has a least one, and from it
`AllNumbers`: a set with 0 that has the next of each of its numbers has them all.
`IterationExists` gives recursive functions on the numbers, and `StepRecursion`
those whose step depends on the number: a module with the step as an operator
constant can be instantiated, where a theorem with an operator parameter cannot.
Walks, rehashes, folds and levels of trees are recursive functions, so this covers
all that is proved.

**Only model-checked.**

* Liveness (`Terminates`) is out of the prover's reach.
* So is what reaches a recursive operator: `RoundTrip` and `TruncationOnlyEmpties`
  (`j2PrintFunc` and the trees of `J2Reading`).
* That a `Printed` of `J2Layout` fulfils `DocsAssumption` is evaluated for the trees
  of the run.

## 6. Not modelled

* MurMur3: the hash is a constant, collisions included. The build and the tests.
* Values: the `jo`/`ja` getters (a lookup, or the default), the short form of
  strings, `dsInit` and `dsCleanup`, which nothing calls, the value of a number
  (`strtod` and `%g`, which prints six digits only), locale switching.
* `joFind` and `pkvSearchBranch16` use what `malloc` gives them without a check;
  in the models they get memory. Negative array indices in paths are left out.
* The C stack's limit, and sizes out of any bound (`udIterLast`'s signed index,
  prefix keys of 32 words).
* A character class stands for its characters: which of them the encoding has,
  hexadecimal letters, and 4-byte sequences, which go the way of those with 3.

## 7. Plan

1. done: `RBuf`, `UDictTable`, `UDict`, `J2Object`, `J2Parse` with their abstract
   specifications and runs; first theorems about `RBuf`.
2. done: `PrefixKV`; the scanner with dynamic strings and array growth; the printer;
   `joFind`; their composition.
3. done: proofs about the ring buffer, its owners, the hash table, the object, the
   write callbacks and the parser (section 5).
4. done: the prefix tree as recursive functions of the level, and the theorems about
   building, freeing and searching it; the meaning of literals and paths as recursive
   functions of the place, and the theorems about the scanner and `joFind`; the
   grammar as a recursive function of the number of symbols, and the theorems that
   what is accepted silently is JSON, and that JSON is accepted.
