----------------------------- MODULE Algorithms -----------------------------
(***************************************************************************)
(* What the pure parts of the store compute, compared with what they are   *)
(* for, one input at a time: the variable in is an input of one of the     *)
(* algorithms, and every invariant is about the inputs of one kind.        *)
(***************************************************************************)
EXTENDS KeyRanges, TOCFile, BloomFilter, Config

CONSTANTS RangeInputs, PullInputs, TOCInputs, ValueFileInputs, BloomInputs, ConfigInputs

\* Any integers, but a checksum interval that fits in the 32 bits that files keep it in.
ASSUME ConfigAssumption ==
  \A c \in ConfigInputs : c \in ConfigType /\ c.checksumInterval <= MaxUint32

\* Files of whole blocks: the values end within the last of them.
ASSUME ValueFileAssumption ==
  \A f \in ValueFileInputs :
    /\ f \in [interval : Nat \ {0}, end : Nat, header : BOOLEAN, blocks : Nat, corrupt : SUBSET Nat]
    /\ f.blocks = (f.end + f.interval) \div f.interval
    /\ \A b \in f.corrupt : b < f.blocks

\* The keys and timestamps of a pass are finite sequences.
ASSUME BloomAssumption ==
  \A a \in BloomInputs : Len(a.old) \in Nat /\ Len(a.entries) \in Nat

\* TOC files of value stores and of group stores.
ASSUME TOCAssumption ==
  \A f \in TOCInputs : /\ f.entry \in {32, 48} /\ {f.interval, f.n} \subseteq Nat
                       /\ f.header \in BOOLEAN /\ f.corrupt \subseteq Nat /\ IsFiniteSet(f.corrupt)

\* A partition, where there are several, has a key at least for every worker.
ASSUME RangeAssumption ==
  \A a \in RangeInputs : /\ a.pbc \in {NoRing} \cup 0..Bits /\ a.workers \in Nat \ {0}
                         /\ a.pbc > 0 => a.workers <= 2^(Bits - a.pbc)

\* A node that answers may have lost its place in the ring (-1) since it was asked.
ASSUME PullAssumption ==
  \A a \in PullInputs : /\ {a.start, a.stop} \subseteq Nat /\ a.start <= a.stop
                        /\ a.replicas \in Nat \ {0} /\ a.replica \in Int /\ a.replica < a.replicas

VARIABLE in

Init == in \in ([kind : {"range"}, arg : RangeInputs] \cup [kind : {"pull"}, arg : PullInputs]
                \cup [kind : {"toc"}, arg : TOCInputs]
                \cup [kind : {"file"}, arg : ValueFileInputs]
                \cup [kind : {"bloom"}, arg : BloomInputs]
                \cup [kind : {"config"}, arg : ConfigInputs])

Next == UNCHANGED in

Spec == Init /\ [][Next]_in

IsInput(kind) == in.kind = kind

\* For every partition bit count and number of workers of push replication,
\* pull replication and tombstone discard, every key of a partition is in the
\* range of exactly one worker: the wrapping arithmetic loses no key at the
\* end of a piece, a partition or the key space.  With one partition, or no
\* ring, the pieces wrap to nothing, and every worker takes all keys.
EveryKeyHasItsWorker ==
  IsInput("range") =>
    LET pbc == in.arg.pbc
        ws  == in.arg.workers
    IN \A p \in 0..PartitionMax(pbc) : \A k \in KeysOfPartition(pbc, p) :
         LET takers == {w \in 0..ws - 1 : k \in WorkerKeys(pbc, ws, p, w)}
         IN IF pbc \in {NoRing, 0} THEN takers = 0..ws - 1 ELSE Cardinality(takers) = 1

\* A worker's ranges in different partitions have no key in common, so no pass
\* reaches into a partition that the node should leave alone.
RangesStayInTheirPartition ==
  IsInput("range") =>
    LET pbc == in.arg.pbc
        ws  == in.arg.workers
    IN \A p \in 0..PartitionMax(pbc), w \in 0..ws - 1 :
         WorkerKeys(pbc, ws, p, w) \subseteq KeysOfPartition(pbc, p)

\* Wherever a worker of a pass starts, it visits every partition once before it
\* stops, in the round trip and in the two loops.
EveryPartitionVisitedOnce ==
  IsInput("range") =>
    LET max == PartitionMax(in.arg.pbc)
    IN \A w \in 0..in.arg.workers - 1 :
         \A visits \in {RoundTrip(max, in.arg.workers, w), TwoLoops(max, in.arg.workers, w)} :
           /\ Len(visits) = max + 1
           /\ {visits[i] : i \in 1..max + 1} = 0..max

\* Whichever replica answers a pull replication message, its two scans go over
\* the range of the message once: a receiver that starts in the middle leaves
\* nothing out and sends nothing twice.
PullScansCoverTheRange ==
  IsInput("pull") =>
    LET scans == PullScans(in.arg.start, in.arg.stop, in.arg.replicas, in.arg.replica)
    IN \A k \in 0..MaxWord :
         Cardinality({i \in 1..Len(scans) : scans[i][1] <= k /\ k <= scans[i][2]})
           = IF in.arg.start <= k /\ k <= in.arg.stop THEN 1 ELSE 0

\* The workers of a pass, and the scans of an answer, divide the keys they are
\* responsible for without leaving out or repeating one.
KeyRangesCover == /\ EveryKeyHasItsWorker /\ RangesStayInTheirPartition
                  /\ EveryPartitionVisitedOnce /\ PullScansCoverTheRange

Entries(f) == [i \in 1..f.n |-> Header + (i - 1) * f.entry]

\* The place of the last entry's size before the end of the file that is a whole
\* number of entries from the first one; whether the terminator reaches into the
\* offset of an entry that were there.
LastPlace(f) == FileEnd(f) - (f.interval % f.entry) - f.entry
TermIsOffset(f) == f.interval % f.entry < 4

\* Recovery and compaction read back every entry that was written to a TOC file,
\* once, in order, wherever the blocks cut the entries, and TOCStat counts the
\* same entries.  Nothing else is read, and the terminator is found, unless the
\* blocks end so close to the end of the file that what is left over there is
\* shorter than the trailer: then an error is reported, and, if the trailer
\* reaches into an offset, that place is read for one more entry.
IntactTOCReadsBack ==
  (IsInput("toc") /\ in.arg.corrupt = {} /\ GoodHeader(in.arg)) =>
    LET f == in.arg
        r == ReadTOC(f)
        over == f.interval % f.entry
    IN /\ r.noTerm <=> over < Trailer /\ EntriesEnd(f) % f.interval <= over
       /\ r.read = IF r.noTerm /\ TermIsOffset(f) THEN Append(Entries(f), LastPlace(f))
                   ELSE Entries(f)
       /\ ~r.panic
       /\ TOCStat(f) = f.n

\* One corrupt block costs the entries that have a byte in it, and at most the
\* one that starts where it ends: the reader finds the next entry again and never
\* takes the middle of one for an entry.  Besides entries it may read the place
\* with the trailer, as in an intact file.  It panics only if less than an entry
\* follows the block, up to the next checksum or the end of the file.  Where a
\* header is no whole number of entries (group stores), a corrupt first block
\* costs everything: whatever is read after it is no entry.
OneCorruptBlockIsSkipped ==
  (IsInput("toc") /\ Cardinality(in.arg.corrupt) = 1 /\ GoodHeader(in.arg)) =>
    LET f == in.arg
        r == ReadTOC(f)
        b == CHOOSE x \in f.corrupt : TRUE
        from == b * f.interval
        to   == from + f.interval
        reads == {r.read[i] : i \in 1..Len(r.read)}
    IN /\ r.panic => FileEnd(f) - to < f.entry \/ f.interval < f.entry
       /\ ~r.panic =>
            IF b = 0 /\ Header % f.entry # 0
            THEN \A x \in reads : ~IsEntry(f, x)
            ELSE /\ \A x \in reads : IsEntry(f, x) \/ (TermIsOffset(f) /\ x = LastPlace(f))
                 /\ \A x \in {Entries(f)[i] : i \in 1..f.n} :
                      x + f.entry <= from \/ x > to => x \in reads

\* The audit sees a value as corrupt exactly if one of its bytes is in a block
\* with a bad checksum, for values that reach into two blocks at most.
CorruptValuesAreFound ==
  (IsInput("file") /\ GoodHeader(in.arg)) =>
    LET f == in.arg
        ranges == ChecksumVerify(f)
        Hit(o, l) == \E b \in f.corrupt : o < (b + 1) * f.interval /\ o + l > b * f.interval
    IN \A o \in Header..f.end - 1 : \A l \in 1..(f.interval + 1) :
         o + l <= f.end => (InCorruptRange(o, l, ranges) <=> Hit(o, l))

\* What a node has is never sent back to it: the filter that the receiver of a
\* pull replication message rebuilds may have every entry that the sender added
\* in this pass, whatever the filter held before and whatever the hash.
NoFalseNegatives ==
  IsInput("bloom") =>
    LET old  == Filled(newKTBloomFilter(in.arg.n, in.arg.p, 0), in.arg.salt - 1, in.arg.old)
        sent == newKTBloomFilterFromMsg(toMsg(Filled(old, in.arg.salt, in.arg.entries)))
    IN \A i \in 1..Len(in.arg.entries) : mayHave(sent, in.arg.entries[i])

\* A pass starts from an empty filter: entries of an earlier pass, with another
\* salt, do not make it fuller, so a false positive does not last.
ResetForgets ==
  IsInput("bloom") =>
    LET fresh == newKTBloomFilter(in.arg.n, in.arg.p, 0)
    IN Filled(Filled(fresh, in.arg.salt - 1, in.arg.old), in.arg.salt, in.arg.entries)
         = Filled(fresh, in.arg.salt, in.arg.entries)

\* A pull replication message stands for the entries of its pass: all of them,
\* and none of an earlier pass.
FiltersHoldTheirPass == NoFalseNegatives /\ ResetForgets

\* Whatever is configured, two pages that are full, of TOC entries or of values,
\* have a checksum interval of values at least, so that writing them flushes the
\* page before.  One page is enough if the interval is no longer than the number
\* of entries of a page, as in the defaults; the code means it to be enough
\* always, but it may lack what the rounding of the least allocation loses.
FullPagesFlush ==
  IsInput("config") =>
    LET c == Resolve(in.arg)
        entries == c.pageSize \div c.entrySize
        alloc   == IF c.minValueAlloc > c.valueCap THEN c.minValueAlloc ELSE c.valueCap
        fullOfEntries == entries * c.minValueAlloc
        fullOfValues  == c.pageSize - alloc + 1
    IN /\ 2 * fullOfEntries >= c.checksumInterval
       /\ 2 * fullOfValues >= c.checksumInterval
       /\ c.checksumInterval <= entries => /\ fullOfEntries >= c.checksumInterval
                                           /\ fullOfValues >= c.checksumInterval

\* What the comment in resolveValueStoreConfig says: one full page of entries is
\* always enough (not so, see FullPage.cfg).
OneFullPageFlushes ==
  IsInput("config") =>
    LET c == Resolve(in.arg)
    IN (c.pageSize \div c.entrySize) * c.minValueAlloc >= c.checksumInterval

\* Whatever is configured, any value that is accepted fits in a page and in a
\* file with its header and trailer, if its size can be represented at all.
ValuesFit ==
  IsInput("config") =>
    LET c == Resolve(in.arg)
    IN /\ c.valueCap <= c.pageSize /\ c.minValueAlloc <= c.pageSize
       /\ c.entrySize <= c.pageSize
       /\ HeaderSize + c.valueCap + TrailerSize <= c.fileCap

\* Whatever is configured, negative numbers and none included, no pool is empty
\* and no stage is without a worker: nothing waits for what cannot come.
NothingIsMissing ==
  IsInput("config") =>
    LET c == Resolve(in.arg)
    IN /\ c.writePagesPerWorker >= 2
       /\ \A x \in {c.workers, c.fileReaders, c.recoveryBatchSize, c.tombstoneDiscardBatchSize,
                    c.tombstoneDiscardWorkers, c.outPullReplicationWorkers,
                    c.outPullReplicationMsgs, c.outPullReplicationBloomN,
                    c.inPullReplicationWorkers, c.inPullReplicationMsgs,
                    c.pushReplicationWorkers, c.bulkSetMsgCap, c.outBulkSetMsgs,
                    c.inBulkSetWorkers, c.inBulkSetMsgs, c.bulkSetAckMsgCap,
                    c.inBulkSetAckWorkers, c.inBulkSetAckMsgs, c.outBulkSetAckMsgs,
                    c.compactionWorkers} : x >= 1

\* A resolved configuration keeps the promises that the write path and the
\* background tasks rest on.
ConfigurationIsUsable == FullPagesFlush /\ ValuesFit /\ NothingIsMissing
=============================================================================
