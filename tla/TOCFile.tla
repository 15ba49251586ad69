------------------------------ MODULE TOCFile -------------------------------
(***************************************************************************)
(* The layout of a TOC file, its batched reader, the count of its entries, *)
(* and the search of a value file for corrupt ranges.                      *)
(*                                                                         *)
(* A file f is a header, f.n entries of f.entry bytes (32 in value stores, *)
(* 48 in group stores) and one checksum interval of zeros that ends in     *)
(* "TERM v0 ".  That is cut into blocks of f.interval bytes, each followed *)
(* by its checksum, but for a last, shorter one.  f.corrupt is the set of  *)
(* blocks that do not match their checksum.  A position is a number of     *)
(* bytes from the start, checksums left out.                               *)
(***************************************************************************)
EXTENDS Integers, Sequences, FiniteSets

Header   == 32
Trailer  == 8
Checksum == 4

EntriesEnd(f) == Header + f.n * f.entry
FileEnd(f)    == EntriesEnd(f) + f.interval
Blocks(f)     == FileEnd(f) \div f.interval
Size(f)       == FileEnd(f) + Blocks(f) * Checksum

\* readValueHeader: the type (f.header) is right and the interval long enough.
GoodHeader(f) == f.header /\ f.interval >= Header

IsEntry(f, x) == /\ Header <= x
                 /\ x + f.entry <= EntriesEnd(f)
                 /\ (x - Header) % f.entry = 0

\* The offset is in the four bytes before the last four of an entry.  It is 0 in the filler,
\* unless they reach into the trailer.
OffsetIsSet(f, x) ==
  LET o == x + f.entry - 8
  IN o < EntriesEnd(f) \/ o + 4 > FileEnd(f) - Trailer

(***************************************************************************)
(* valueReadTOCEntriesBatched.  skip: the bytes to leave out of the next   *)
(* block; left: the bytes of a cut entry kept from the last one.           *)
(***************************************************************************)
\* The positions from..to - 1 cut into entries; those with an offset count.
Cut(f, from, to) ==
  LET x(i) == from + (i - 1) * f.entry
      read[i \in 0..((to - from) \div f.entry)] ==
        IF i = 0 THEN <<>>
        ELSE IF OffsetIsSet(f, x(i)) THEN Append(read[i - 1], x(i)) ELSE read[i - 1]
  IN read[(to - from) \div f.entry]

\* Faulty variant: what is left of the entry before is not counted.
SkipFromBlock(f, s) == f.entry - ((s.skip + f.interval) % f.entry)

\* After a corrupt block, the next one is read from its first whole entry.
SkipNext(f, s) == f.entry - ((s.skip + s.left + f.interval) % f.entry)

From(s, pos) == IF s.skip # 0 THEN pos + s.skip ELSE pos - s.left

\* Faulty variant: the part of an entry at the end of a block is dropped.
LeftNothing(f, from, to) == 0

\* The part of an entry at the end of a block is kept for the next one.
Left(f, from, to) == (to - from) % f.entry

ReadBlock(f, s, b) ==
  LET pos  == b * f.interval
      from == From(s, pos)
      to   == pos + f.interval
  IN CASE s.panic -> s
       [] ~s.panic /\ b \in f.corrupt -> [s EXCEPT !.skip = SkipNext(f, s), !.left = 0]
       [] ~s.panic /\ b \notin f.corrupt /\ s.skip > f.interval -> [s EXCEPT !.panic = TRUE]
       [] OTHER -> [s EXCEPT !.skip = 0, !.left = Left(f, from, to),
                             !.read = @ \o Cut(f, from, to)]

\* What is read at the end of the file must end in the trailer.
ReadRest(f, s) ==
  LET pos  == Blocks(f) * f.interval
      from == From(s, pos)
      to   == FileEnd(f)
      term == to - from >= Trailer
  IN IF s.panic \/ s.skip > to - pos
     THEN [s EXCEPT !.panic = TRUE]
     ELSE [s EXCEPT !.read = @ \o Cut(f, from, IF term THEN to - Trailer ELSE to),
                    !.noTerm = ~term]

ReadTOC(f) ==
  LET start == [skip |-> Header, left |-> 0, read |-> <<>>, noTerm |-> FALSE, panic |-> FALSE]
      after[b \in 0..Blocks(f)] ==
        IF b = 0 THEN start ELSE ReadBlock(f, after[b - 1], b - 1)
  IN IF GoodHeader(f) THEN ReadRest(f, after[Blocks(f)]) ELSE start

(***************************************************************************)
(* valueTOCStat: the number of entries, from the size of the file          *)
(***************************************************************************)
TOCStat(f) ==
  (Size(f) - (Size(f) \div (f.interval + Checksum)) * Checksum - Header - f.interval)
    \div f.entry

(***************************************************************************)
(* valueChecksumVerify and valueInCorruptRange, on a value file of f.blocks*)
(* whole blocks                                                            *)
(***************************************************************************)
MaxStop == 2^30   \* MaxUint32 of the code, the end of the last range

\* What follows the last whole block has no checksum and counts as corrupt.
ChecksumVerify(f) ==
  IF ~GoodHeader(f) \/ f.blocks = 0
  THEN {[start |-> 0, stop |-> MaxStop]}
  ELSE {[start |-> b * f.interval, stop |-> (b + 1) * f.interval - 1] : b \in f.corrupt}
         \cup {[start |-> f.blocks * f.interval, stop |-> MaxStop]}

\* Faulty variant: only the first byte of the value is looked at.
StartsInCorruptRange(offset, length, corruptions) ==
  /\ offset # 0
  /\ length # 0
  /\ \E c \in corruptions : offset >= c.start /\ offset <= c.stop

InCorruptRange(offset, length, corruptions) ==
  /\ offset # 0
  /\ length # 0
  /\ LET end == offset + length - 1
     IN \E c \in corruptions : \/ offset >= c.start /\ offset <= c.stop
                               \/ end >= c.start /\ end <= c.stop
=============================================================================
