----------------------------- MODULE KeyRanges ------------------------------
(***************************************************************************)
(* How the passes of push replication, pull replication and tombstone      *)
(* discard share the key space out to their workers.  A key is a number of *)
(* Bits bits (64 in the code) whose left pbc bits, the ring's              *)
(* PartitionBitCount, are its partition.  Every worker takes its own piece *)
(* of every partition, and starts at a partition of its own.  Arithmetic   *)
(* is that of unsigned words: it wraps, and a shift by Bits gives 0.       *)
(***************************************************************************)
EXTENDS Integers, Sequences, FiniteSets

CONSTANT Bits

ASSUME BitsAssumption == Bits \in Nat \ {0}

MaxWord     == 2^Bits - 1
Word(x)     == x % 2^Bits
Shl(x, s)   == Word(x * 2^s)

(***************************************************************************)
(* The range [begin, end] of worker w of ws in partition p                 *)
(***************************************************************************)
\* Faulty variant: the last worker takes a piece like the others'.
RangeEndOfAPiece(shift, partitionMax, ws, p, w) ==
  Word(Shl(p, shift) + (Shl(1, shift) \div ws) * (w + 1) - 1)

RangeBegin(shift, ws, p, w) == Word(Shl(p, shift) + (Shl(1, shift) \div ws) * w)

RangeEnd(shift, partitionMax, ws, p, w) ==
  IF w # ws - 1
  THEN Word(Shl(p, shift) + (Shl(1, shift) \div ws) * (w + 1) - 1)
  ELSE IF p # partitionMax THEN Word(Shl(p + 1, shift) - 1) ELSE MaxWord

KeysOf(begin, end) == {k \in 0..MaxWord : begin <= k /\ k <= end}

\* A ring has 2^pbc partitions.  Without one, tombstone discard takes the key
\* space for one partition, with a shift of 0; a piece is then 1 \div ws, and
\* 0 \div ws where the ring has one partition.
NoRing == -1
Shift(pbc)        == IF pbc = NoRing THEN 0 ELSE Bits - pbc
PartitionMax(pbc) == IF pbc = NoRing THEN 0 ELSE 2^pbc - 1

WorkerKeys(pbc, ws, p, w) ==
  KeysOf(RangeBegin(Shift(pbc), ws, p, w),
         RangeEnd(Shift(pbc), PartitionMax(pbc), ws, p, w))

\* The keys whose left pbc bits are p.
KeysOfPartition(pbc, p) ==
  IF pbc = NoRing THEN 0..MaxWord ELSE {k \in 0..MaxWord : k \div 2^(Bits - pbc) = p}

(***************************************************************************)
(* The partitions in the order in which worker w of ws visits them         *)
(***************************************************************************)
PartitionBegin(partitionMax, ws, w) == ((partitionMax + 1) \div ws) * w

NextPartition(partitionMax, p) == IF p + 1 > partitionMax THEN 0 ELSE p + 1

\* Push replication and the expiry of deletions: one loop, round to its start.
RoundTrip(partitionMax, ws, w) ==
  LET begin == PartitionBegin(partitionMax, ws, w)
      at[i \in 0..partitionMax + 1] ==
        IF i = 0 THEN begin ELSE NextPartition(partitionMax, at[i - 1])
      back == {i \in 1..partitionMax + 1 : at[i] = begin}
      stop == IF back = {} THEN partitionMax + 1
              ELSE CHOOSE i \in back : \A j \in back : i <= j
  IN [i \in 1..stop |-> at[i - 1]]

\* Pull replication and the discard of local removals: from the worker's first
\* partition to the last one, then from 0.
TwoLoops(partitionMax, ws, w) ==
  LET begin == PartitionBegin(partitionMax, ws, w)
  IN [i \in 1..partitionMax + 1 - begin |-> begin + i - 1] \o [i \in 1..begin |-> i - 1]

(***************************************************************************)
(* The two scans that answer a pull replication message for start..stop    *)
(***************************************************************************)
PullScans(start, stop, replicas, replica) ==
  LET first == start + ((stop - start) \div replicas) * (IF replica < 0 THEN 0 ELSE replica)
  IN <<<<first, stop>>>> \o (IF first # start THEN <<<<start, first - 1>>>> ELSE <<>>)
=============================================================================
