------------------------------- MODULE Config -------------------------------
(***************************************************************************)
(* resolveValueStoreConfig: what the store makes of the numbers that a     *)
(* user gives, in the struct or in the environment (c has what the         *)
(* environment overrides already; 0 asks for the default).  Every number   *)
(* is given its default and then forced into its limits, in the order of   *)
(* the code, since later ones are computed from earlier ones.              *)
(*                                                                         *)
(* A scale of num / den replaces the float.  Thresholds that are floats    *)
(* are in hundredths.  The big constants of the code are parameters, TLC's *)
(* integers being too short for them.  Paths, functions, the logger and    *)
(* the random source only get defaults, and are left out.                  *)
(***************************************************************************)
EXTENDS Integers

CONSTANTS HeaderSize,   \* _VALUE_FILE_HEADER_SIZE, 32
          TrailerSize,  \* _VALUE_FILE_TRAILER_SIZE, 8
          MaxValueCap,  \* 1048576
          MaxUint32,    \* 2^32 - 1
          Mega,         \* 1024 * 1024
          GOMAXPROCS    \* of the Go runtime

\* A header is 32 bytes, and values are far shorter than the sizes that 32 bits hold.
ASSUME SizesAssumption ==
  /\ {HeaderSize, TrailerSize, MaxValueCap, MaxUint32, Mega, GOMAXPROCS} \subseteq Nat
  /\ HeaderSize >= 32 /\ MaxUint32 >= 100 /\ Mega <= MaxUint32
  /\ HeaderSize + TrailerSize + 2 * MaxValueCap <= MaxUint32

\* The numbers of a configuration; entries are those of values or of groups.
Watch == [freeDisable : Int, freeReenable : Int, usageDisable : Int, usageReenable : Int]

ConfigType ==
  [scale : [num : Int, den : Nat \ {0}], entrySize : {32, 48}, valueCap : Int, workers : Int,
   checksumInterval : Int, pageSize : Int, minValueAlloc : Int, writePagesPerWorker : Int,
   msgCap : Int, msgTimeout : Int, fileCap : Int, fileReaders : Int, recoveryBatchSize : Int,
   tombstoneDiscardInterval : Int, tombstoneDiscardBatchSize : Int, tombstoneAge : Int,
   tombstoneDiscardWorkers : Int, replicationIgnoreRecent : Int,
   outPullReplicationInterval : Int, outPullReplicationWorkers : Int,
   outPullReplicationMsgs : Int, outPullReplicationBloomN : Int,
   outPullReplicationBloomP : Int, outPullReplicationMsgTimeout : Int,
   inPullReplicationWorkers : Int, inPullReplicationMsgs : Int,
   inPullReplicationResponseMsgTimeout : Int, pushReplicationInterval : Int,
   pushReplicationWorkers : Int, pushReplicationMsgTimeout : Int, bulkSetMsgCap : Int,
   outBulkSetMsgs : Int, inBulkSetWorkers : Int, inBulkSetMsgs : Int,
   inBulkSetResponseMsgTimeout : Int, bulkSetAckMsgCap : Int, inBulkSetAckWorkers : Int,
   inBulkSetAckMsgs : Int, outBulkSetAckMsgs : Int, compactionInterval : Int,
   compactionWorkers : Int, compactionThreshold : Int, compactionAgeThreshold : Int,
   flusherThreshold : Int, auditInterval : Int, auditAgeThreshold : Int,
   disk : Watch, mem : Watch]

Default(x, d) == IF x = 0 THEN d ELSE x
AtLeast(x, l) == IF x < l THEN l ELSE x
AtMost(x, h)  == IF x > h THEN h ELSE x
Scaled(c, x)  == (x * c.scale.num) \div c.scale.den

\* A number with a default and a least value; one that is scaled.
AtLeast1(x, d)      == AtLeast(Default(x, d), 1)
Timeout(x, d)       == IF Default(x, d) < 1 THEN 250 ELSE Default(x, d)
Int32(x)            == ((x + (MaxUint32 + 1) \div 2) % (MaxUint32 + 1)) - (MaxUint32 + 1) \div 2

ResolveScale(c) ==
  IF c.scale.num <= 0 \/ c.scale.num > c.scale.den
  THEN [c EXCEPT !.scale = [num |-> 1, den |-> 1]] ELSE c

ResolveValueCap(c) ==
  [c EXCEPT !.valueCap = AtMost(AtLeast(Default(@, MaxValueCap), 0), MaxValueCap)]

ResolveWorkers(c) == [c EXCEPT !.workers = AtLeast1(@, Scaled(c, GOMAXPROCS))]

ResolveChecksumInterval(c) ==
  [c EXCEPT !.checksumInterval = AtLeast(Default(@, Mega \div 16 - 4), HeaderSize)]

\* Faulty variant: the largest value is not allowed for.
PageSizeOfInterval(c) ==
  [c EXCEPT !.pageSize =
     AtMost(AtLeast(AtLeast(Default(@, Scaled(c, 4 * Mega)), c.checksumInterval),
                    8 + c.entrySize),
            MaxUint32 - 1)]

\* A page has room for the longest value and a checksum interval besides, for
\* one TOC entry at least, and is no longer than MaxUint32 - 1.
ResolvePageSize(c) ==
  [c EXCEPT !.pageSize =
     AtMost(AtLeast(AtLeast(Default(@, Scaled(c, 4 * Mega)), c.valueCap + c.checksumInterval),
                    8 + c.entrySize),
            MaxUint32 - 1)]

\* The least room a value takes of a page.
MinValueAlloc(c) == c.checksumInterval \div (c.pageSize \div c.entrySize + 1) + 1

ResolveMemory(c) ==
  [c EXCEPT !.minValueAlloc = MinValueAlloc(c),
            !.writePagesPerWorker = AtLeast(Default(@, Scaled(c, 3)), 2)]

\* A file has room for the longest value between its header and its trailer.
ResolveFileCap(c) ==
  [c EXCEPT !.fileCap = AtMost(AtLeast(Default(@, MaxUint32), HeaderSize + TrailerSize + c.valueCap),
                               MaxUint32)]

ResolveMsgs(c) ==
  [c EXCEPT !.msgCap = AtLeast(Default(@, Scaled(c, 16 * Mega)), 1024),
            !.msgTimeout = Timeout(@, 250)]

ResolveFilesAndTombstones(c) ==
  [c EXCEPT !.fileReaders = AtLeast1(@, c.workers),
            !.recoveryBatchSize = AtLeast1(@, Scaled(c, Mega)),
            !.tombstoneDiscardInterval = AtLeast1(@, 300),
            !.tombstoneDiscardBatchSize = AtLeast1(@, Scaled(c, Mega)),
            !.tombstoneAge = AtLeast(Default(@, 14400), 0),
            !.tombstoneDiscardWorkers = AtLeast1(@, c.workers),
            !.replicationIgnoreRecent = AtLeast(Default(@, 60), 0)]

ResolvePullWorkers(c) == [c EXCEPT !.outPullReplicationWorkers = AtLeast1(@, c.workers \div 10)]

\* BloomP in millionths.
ResolvePullReplication(c) ==
  [c EXCEPT !.outPullReplicationInterval = AtLeast1(@, 60),
            !.outPullReplicationMsgs = AtLeast1(@, Scaled(c, c.outPullReplicationWorkers * 4)),
            !.outPullReplicationBloomN = AtLeast1(@, Scaled(c, 1000000)),
            !.outPullReplicationBloomP = AtLeast1(@, 1000),
            !.outPullReplicationMsgTimeout = Timeout(@, c.msgTimeout),
            !.inPullReplicationWorkers = AtLeast1(@, c.workers),
            !.inPullReplicationMsgs = AtLeast1(@, Scaled(c, AtLeast1(c.inPullReplicationWorkers, c.workers) * 4)),
            !.inPullReplicationResponseMsgTimeout = Timeout(@, c.msgTimeout)]

ResolvePushReplication(c) ==
  [c EXCEPT !.pushReplicationInterval = AtLeast1(@, 60),
            !.pushReplicationWorkers = AtLeast1(@, c.workers \div 10),
            !.pushReplicationMsgTimeout = Timeout(@, c.msgTimeout)]

ResolveBulkSet(c) ==
  [c EXCEPT !.bulkSetMsgCap = AtLeast1(@, c.msgCap),
            !.outBulkSetMsgs = AtLeast1(@, Scaled(c, c.pushReplicationWorkers * 4)),
            !.inBulkSetWorkers = AtLeast1(@, c.workers),
            !.inBulkSetMsgs = AtLeast1(@, Scaled(c, AtLeast1(c.inBulkSetWorkers, c.workers) * 4)),
            !.inBulkSetResponseMsgTimeout = Timeout(@, c.msgTimeout)]

ResolveBulkSetAck(c) ==
  LET workers == AtLeast1(c.inBulkSetAckWorkers, c.workers)
  IN [c EXCEPT !.bulkSetAckMsgCap = AtLeast1(@, c.msgCap),
               !.inBulkSetAckWorkers = workers,
               !.inBulkSetAckMsgs = AtLeast1(@, Scaled(c, workers * 4)),
               !.outBulkSetAckMsgs = AtLeast1(@, Scaled(c, workers * 4))]

ResolveCompaction(c) ==
  [c EXCEPT !.compactionInterval = AtLeast1(@, 600),
            !.compactionWorkers = AtLeast1(@, c.workers),
            !.compactionThreshold = IF @ >= 100 \/ @ <= 1 THEN 10 ELSE @,
            !.compactionAgeThreshold = AtLeast1(@, 300)]

\* Disk and memory are watched in the same way; free space in gigabytes.
Watched(w, disable, reenable) ==
  [w EXCEPT !.freeDisable = Default(@, disable), !.freeReenable = Default(@, reenable),
            !.usageDisable = AtLeast(Default(@, 94), 0), !.usageReenable = AtLeast(Default(@, 90), 0)]

ResolveDisk(c) == [c EXCEPT !.disk = Watched(@, 8, 16)]

\* FlusherThreshold is an int32; so is what the page size is converted to.
ResolveFlusherAndAudit(c) ==
  [c EXCEPT !.flusherThreshold = AtLeast(Default(@, Int32(c.pageSize) \div c.entrySize), 0),
            !.auditInterval = AtLeast1(@, 604800),
            !.auditAgeThreshold = AtLeast1(@, 604800)]

ResolveMem(c) == [c EXCEPT !.mem = Watched(@, 1, 2)]

Resolve(c) ==
  ResolveMem(ResolveFlusherAndAudit(ResolveDisk(ResolveCompaction(
  ResolveBulkSetAck(ResolveBulkSet(ResolvePushReplication(ResolvePullReplication(
  ResolvePullWorkers(ResolveFilesAndTombstones(ResolveFileCap(ResolveMsgs(ResolveMemory(
  ResolvePageSize(ResolveChecksumInterval(ResolveWorkers(ResolveValueCap(ResolveScale(c))))))))))))))))))
=============================================================================
