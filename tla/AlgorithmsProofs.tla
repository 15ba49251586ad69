--------------------------- MODULE AlgorithmsProofs ---------------------------
(***************************************************************************)
(* Proofs about Algorithms.  Their parts, in order, each with the theorems *)
(* that it ends in:                                                        *)
(*   - what resolveValueStoreConfig makes of any numbers: the steps of     *)
(*     Resolve are taken one by one, each for the group of numbers that it *)
(*     sets, and it keeps those of the other groups;                       *)
(*   - the audit's search of a value file for corrupt values;              *)
(*   - how the key space is shared out to workers and scans;               *)
(*   - the bloom filter of a pass;                                         *)
(*   - the reader of TOC files.                                            *)
(* What is defined by recursion is found by induction over the set of the  *)
(* numbers for which it has been (SetInduction).                           *)
(***************************************************************************)
EXTENDS Algorithms, TLAPS, FiniteSetTheorems, SequenceTheorems

\* The numbers that the promises are about, in the groups in which they are resolved.
Fields ==
  {"scale", "entrySize", "valueCap", "workers", "checksumInterval", "pageSize",
   "minValueAlloc", "writePagesPerWorker", "msgCap", "msgTimeout", "fileCap",
   "fileReaders", "recoveryBatchSize", "tombstoneDiscardBatchSize",
   "tombstoneDiscardWorkers", "outPullReplicationWorkers", "outPullReplicationMsgs",
   "outPullReplicationBloomN", "inPullReplicationWorkers", "inPullReplicationMsgs",
   "pushReplicationWorkers", "bulkSetMsgCap", "outBulkSetMsgs", "inBulkSetWorkers",
   "inBulkSetMsgs", "bulkSetAckMsgCap", "inBulkSetAckWorkers", "inBulkSetAckMsgs",
   "outBulkSetAckMsgs", "compactionWorkers"}

\* A step leaves the numbers of a group as they are ...
SizesKept(r, c) ==
  /\ r.scale = c.scale /\ r.entrySize = c.entrySize
  /\ r.valueCap = c.valueCap /\ r.workers = c.workers
  /\ r.checksumInterval = c.checksumInterval /\ r.pageSize = c.pageSize
  /\ r.minValueAlloc = c.minValueAlloc /\ r.writePagesPerWorker = c.writePagesPerWorker
  /\ r.msgCap = c.msgCap /\ r.msgTimeout = c.msgTimeout
  /\ r.fileCap = c.fileCap
FilesKept(r, c) ==
  /\ r.fileReaders = c.fileReaders /\ r.recoveryBatchSize = c.recoveryBatchSize
  /\ r.tombstoneDiscardBatchSize = c.tombstoneDiscardBatchSize
  /\ r.tombstoneDiscardWorkers = c.tombstoneDiscardWorkers
PullWorkersKept(r, c) ==
  /\ r.outPullReplicationWorkers = c.outPullReplicationWorkers
PullKept(r, c) ==
  /\ r.outPullReplicationMsgs = c.outPullReplicationMsgs
  /\ r.outPullReplicationBloomN = c.outPullReplicationBloomN
  /\ r.inPullReplicationWorkers = c.inPullReplicationWorkers
  /\ r.inPullReplicationMsgs = c.inPullReplicationMsgs
PushKept(r, c) ==
  /\ r.pushReplicationWorkers = c.pushReplicationWorkers
BulkSetKept(r, c) ==
  /\ r.bulkSetMsgCap = c.bulkSetMsgCap /\ r.outBulkSetMsgs = c.outBulkSetMsgs
  /\ r.inBulkSetWorkers = c.inBulkSetWorkers /\ r.inBulkSetMsgs = c.inBulkSetMsgs
BulkSetAckKept(r, c) ==
  /\ r.bulkSetAckMsgCap = c.bulkSetAckMsgCap /\ r.inBulkSetAckWorkers = c.inBulkSetAckWorkers
  /\ r.inBulkSetAckMsgs = c.inBulkSetAckMsgs /\ r.outBulkSetAckMsgs = c.outBulkSetAckMsgs
CompactionKept(r, c) ==
  /\ r.compactionWorkers = c.compactionWorkers

\* ... which are integers, and at least 1 once they are resolved.
FilesTyped(c) == {c.fileReaders, c.recoveryBatchSize, c.tombstoneDiscardBatchSize,
                  c.tombstoneDiscardWorkers} \subseteq Int
FilesUsable(c) ==
  /\ c.fileReaders >= 1 /\ c.recoveryBatchSize >= 1
  /\ c.tombstoneDiscardBatchSize >= 1 /\ c.tombstoneDiscardWorkers >= 1
PullWorkersTyped(c) == c.outPullReplicationWorkers \in Int
PullWorkersUsable(c) == c.outPullReplicationWorkers >= 1
PullTyped(c) == {c.outPullReplicationMsgs, c.outPullReplicationBloomN,
                 c.inPullReplicationWorkers, c.inPullReplicationMsgs} \subseteq Int
PullUsable(c) ==
  /\ c.outPullReplicationMsgs >= 1 /\ c.outPullReplicationBloomN >= 1
  /\ c.inPullReplicationWorkers >= 1 /\ c.inPullReplicationMsgs >= 1
PushTyped(c) == c.pushReplicationWorkers \in Int
PushUsable(c) == c.pushReplicationWorkers >= 1
BulkSetTyped(c) == {c.bulkSetMsgCap, c.outBulkSetMsgs, c.inBulkSetWorkers, c.inBulkSetMsgs} \subseteq Int
BulkSetUsable(c) ==
  /\ c.bulkSetMsgCap >= 1 /\ c.outBulkSetMsgs >= 1
  /\ c.inBulkSetWorkers >= 1 /\ c.inBulkSetMsgs >= 1
BulkSetAckTyped(c) == {c.bulkSetAckMsgCap, c.inBulkSetAckWorkers, c.inBulkSetAckMsgs,
                       c.outBulkSetAckMsgs} \subseteq Int
BulkSetAckUsable(c) ==
  /\ c.bulkSetAckMsgCap >= 1 /\ c.inBulkSetAckWorkers >= 1
  /\ c.inBulkSetAckMsgs >= 1 /\ c.outBulkSetAckMsgs >= 1
CompactionTyped(c) == c.compactionWorkers \in Int
CompactionUsable(c) == c.compactionWorkers >= 1
SizesTyped(c) ==
  /\ c.scale.num \in Int /\ c.scale.den \in Nat \ {0} /\ c.entrySize \in {32, 48}
  /\ {c.valueCap, c.workers, c.checksumInterval, c.pageSize, c.minValueAlloc,
      c.writePagesPerWorker, c.msgCap, c.msgTimeout, c.fileCap} \subseteq Int

Typed(c) ==
  /\ Fields \subseteq DOMAIN c
  /\ SizesTyped(c) /\ FilesTyped(c) /\ PullWorkersTyped(c) /\ PullTyped(c)
  /\ PushTyped(c) /\ BulkSetTyped(c) /\ BulkSetAckTyped(c) /\ CompactionTyped(c)

\* What the defaults are made with.
LEMMA ScaledType ==
  ASSUME NEW c, SizesTyped(c), NEW x \in Int
  PROVE  Scaled(c, x) \in Int
BY DEF Scaled, SizesTyped

\* A number that is 1 or more by construction.
LEMMA AtLeast1Type ==
  ASSUME NEW x \in Int, NEW d \in Int
  PROVE  AtLeast1(x, d) \in Int /\ AtLeast1(x, d) >= 1
BY DEF AtLeast1, AtLeast, Default

-----------------------------------------------------------------------------
(* The steps that set the workers, messages and batches of each part: whatever *)
(* is given, they are 1 or more.                                               *)

LEMMA FilesStep ==
  ASSUME NEW c, Typed(c), NEW r, r = ResolveFilesAndTombstones(c)
  PROVE  /\ Typed(r) /\ FilesUsable(r)
         /\ SizesKept(r, c) /\ PullWorkersKept(r, c) /\ PullKept(r, c) /\ PushKept(r, c)
         /\ BulkSetKept(r, c) /\ BulkSetAckKept(r, c) /\ CompactionKept(r, c)
<1>1. Fields \subseteq DOMAIN r /\ Fields \subseteq DOMAIN c
  BY SMT DEF ResolveFilesAndTombstones, Typed
<1>2. /\ r.fileReaders = AtLeast1(c.fileReaders, c.workers)
      /\ r.recoveryBatchSize = AtLeast1(c.recoveryBatchSize, Scaled(c, Mega))
      /\ r.tombstoneDiscardBatchSize = AtLeast1(c.tombstoneDiscardBatchSize, Scaled(c, Mega))
      /\ r.tombstoneDiscardWorkers = AtLeast1(c.tombstoneDiscardWorkers, c.workers)
  BY <1>1, SMT DEF ResolveFilesAndTombstones, Fields
<1>3. /\ SizesKept(r, c) /\ PullWorkersKept(r, c) /\ PullKept(r, c) /\ PushKept(r, c)
      /\ BulkSetKept(r, c) /\ BulkSetAckKept(r, c) /\ CompactionKept(r, c)
  BY SMT DEF ResolveFilesAndTombstones, SizesKept, PullWorkersKept, PullKept, PushKept,
     BulkSetKept, BulkSetAckKept, CompactionKept
<1>4. SizesTyped(c) /\ {c.fileReaders, c.recoveryBatchSize, c.tombstoneDiscardBatchSize,
                        c.tombstoneDiscardWorkers, c.workers} \subseteq Int
  BY DEF Typed, SizesTyped, FilesTyped
<1>5. /\ c.workers \in Int
      /\ Scaled(c, Mega) \in Int
  BY <1>4, ScaledType, SizesAssumption
<1>6. r.fileReaders \in Int /\ r.fileReaders >= 1
  BY <1>2, <1>4, <1>5, AtLeast1Type
<1>7. r.recoveryBatchSize \in Int /\ r.recoveryBatchSize >= 1
  BY <1>2, <1>4, <1>5, AtLeast1Type
<1>8. r.tombstoneDiscardBatchSize \in Int /\ r.tombstoneDiscardBatchSize >= 1
  BY <1>2, <1>4, <1>5, AtLeast1Type
<1>9. r.tombstoneDiscardWorkers \in Int /\ r.tombstoneDiscardWorkers >= 1
  BY <1>2, <1>4, <1>5, AtLeast1Type
<1>10. FilesTyped(r) /\ FilesUsable(r)
  BY <1>6, <1>7, <1>8, <1>9 DEF FilesTyped, FilesUsable
<1>11. SizesTyped(r) /\ PullWorkersTyped(r) /\ PullTyped(r) /\ PushTyped(r)
      /\ BulkSetTyped(r) /\ BulkSetAckTyped(r) /\ CompactionTyped(r)
  BY <1>3 DEF Typed, SizesTyped, SizesKept, PullWorkersTyped, PullWorkersKept, PullTyped,
     PullKept, PushTyped, PushKept, BulkSetTyped, BulkSetKept, BulkSetAckTyped, BulkSetAckKept,
     CompactionTyped, CompactionKept
<1> QED
  BY <1>1, <1>3, <1>10, <1>11 DEF Typed

\* The workers that ask for what is missing.
LEMMA PullWorkersStep ==
  ASSUME NEW c, Typed(c), NEW r, r = ResolvePullWorkers(c)
  PROVE  /\ Typed(r) /\ PullWorkersUsable(r)
         /\ SizesKept(r, c) /\ FilesKept(r, c) /\ PullKept(r, c) /\ PushKept(r, c)
         /\ BulkSetKept(r, c) /\ BulkSetAckKept(r, c) /\ CompactionKept(r, c)
<1>1. Fields \subseteq DOMAIN r /\ Fields \subseteq DOMAIN c
  BY SMT DEF ResolvePullWorkers, Typed
<1>2. /\ r.outPullReplicationWorkers = AtLeast1(c.outPullReplicationWorkers, c.workers \div 10)
  BY <1>1, SMT DEF ResolvePullWorkers, Fields
<1>3. /\ SizesKept(r, c) /\ FilesKept(r, c) /\ PullKept(r, c) /\ PushKept(r, c)
      /\ BulkSetKept(r, c) /\ BulkSetAckKept(r, c) /\ CompactionKept(r, c)
  BY SMT DEF ResolvePullWorkers, SizesKept, FilesKept, PullKept, PushKept, BulkSetKept,
     BulkSetAckKept, CompactionKept
<1>4. SizesTyped(c) /\ {c.outPullReplicationWorkers, c.workers} \subseteq Int
  BY DEF Typed, SizesTyped, PullWorkersTyped
<1>5. /\ c.workers \div 10 \in Int
  BY <1>4
<1>6. r.outPullReplicationWorkers \in Int /\ r.outPullReplicationWorkers >= 1
  BY <1>2, <1>4, <1>5, AtLeast1Type
<1>7. PullWorkersTyped(r) /\ PullWorkersUsable(r)
  BY <1>6 DEF PullWorkersTyped, PullWorkersUsable
<1>8. SizesTyped(r) /\ FilesTyped(r) /\ PullTyped(r) /\ PushTyped(r)
      /\ BulkSetTyped(r) /\ BulkSetAckTyped(r) /\ CompactionTyped(r)
  BY <1>3 DEF Typed, SizesTyped, SizesKept, FilesTyped, FilesKept, PullTyped, PullKept, PushTyped,
     PushKept, BulkSetTyped, BulkSetKept, BulkSetAckTyped, BulkSetAckKept, CompactionTyped,
     CompactionKept
<1> QED
  BY <1>1, <1>3, <1>7, <1>8 DEF Typed

\* The other numbers of pull replication.
LEMMA PullStep ==
  ASSUME NEW c, Typed(c), NEW r, r = ResolvePullReplication(c)
  PROVE  /\ Typed(r) /\ PullUsable(r)
         /\ SizesKept(r, c) /\ FilesKept(r, c) /\ PullWorkersKept(r, c) /\ PushKept(r, c)
         /\ BulkSetKept(r, c) /\ BulkSetAckKept(r, c) /\ CompactionKept(r, c)
<1>1. Fields \subseteq DOMAIN r /\ Fields \subseteq DOMAIN c
  BY SMT DEF ResolvePullReplication, Typed
<1>0. PICK million \in Int : million = 1000000
  BY SMT
<1>2. /\ r.outPullReplicationMsgs = AtLeast1(c.outPullReplicationMsgs, Scaled(c, c.outPullReplicationWorkers * 4))
      /\ r.outPullReplicationBloomN = AtLeast1(c.outPullReplicationBloomN, Scaled(c, million))
      /\ r.inPullReplicationWorkers = AtLeast1(c.inPullReplicationWorkers, c.workers)
      /\ r.inPullReplicationMsgs =
           AtLeast1(c.inPullReplicationMsgs, Scaled(c, AtLeast1(c.inPullReplicationWorkers, c.workers) * 4))
  BY <1>0, <1>1, SMT DEF ResolvePullReplication, Fields
<1>3. /\ SizesKept(r, c) /\ FilesKept(r, c) /\ PullWorkersKept(r, c) /\ PushKept(r, c)
      /\ BulkSetKept(r, c) /\ BulkSetAckKept(r, c) /\ CompactionKept(r, c)
  BY SMT DEF ResolvePullReplication, SizesKept, FilesKept, PullWorkersKept, PushKept, BulkSetKept,
     BulkSetAckKept, CompactionKept
<1>4. SizesTyped(c) /\ {c.inPullReplicationMsgs, c.inPullReplicationWorkers,
                        c.outPullReplicationBloomN, c.outPullReplicationMsgs,
                        c.outPullReplicationWorkers, c.workers} \subseteq Int
  BY DEF Typed, SizesTyped, PullTyped, PullWorkersTyped
<1>5. AtLeast1(c.inPullReplicationWorkers, c.workers) \in Int
  BY <1>4, AtLeast1Type
<1>6. /\ Scaled(c, c.outPullReplicationWorkers * 4) \in Int
      /\ Scaled(c, million) \in Int
      /\ c.workers \in Int
      /\ Scaled(c, AtLeast1(c.inPullReplicationWorkers, c.workers) * 4) \in Int
  BY <1>4, <1>5, ScaledType, SizesAssumption
<1>7. r.outPullReplicationMsgs \in Int /\ r.outPullReplicationMsgs >= 1
  BY <1>2, <1>4, <1>6, AtLeast1Type
<1>8. r.outPullReplicationBloomN \in Int /\ r.outPullReplicationBloomN >= 1
  BY <1>2, <1>4, <1>6, AtLeast1Type
<1>9. r.inPullReplicationWorkers \in Int /\ r.inPullReplicationWorkers >= 1
  BY <1>2, <1>4, <1>6, AtLeast1Type
<1>10. r.inPullReplicationMsgs \in Int /\ r.inPullReplicationMsgs >= 1
  BY <1>2, <1>4, <1>6, AtLeast1Type
<1>11. PullTyped(r) /\ PullUsable(r)
  BY <1>7, <1>8, <1>9, <1>10 DEF PullTyped, PullUsable
<1>12. SizesTyped(r) /\ FilesTyped(r) /\ PullWorkersTyped(r) /\ PushTyped(r)
      /\ BulkSetTyped(r) /\ BulkSetAckTyped(r) /\ CompactionTyped(r)
  BY <1>3 DEF Typed, SizesTyped, SizesKept, FilesTyped, FilesKept, PullWorkersTyped,
     PullWorkersKept, PushTyped, PushKept, BulkSetTyped, BulkSetKept, BulkSetAckTyped,
     BulkSetAckKept, CompactionTyped, CompactionKept
<1> QED
  BY <1>1, <1>3, <1>11, <1>12 DEF Typed

\* The workers of push replication.
LEMMA PushStep ==
  ASSUME NEW c, Typed(c), NEW r, r = ResolvePushReplication(c)
  PROVE  /\ Typed(r) /\ PushUsable(r)
         /\ SizesKept(r, c) /\ FilesKept(r, c) /\ PullWorkersKept(r, c) /\ PullKept(r, c)
         /\ BulkSetKept(r, c) /\ BulkSetAckKept(r, c) /\ CompactionKept(r, c)
<1>1. Fields \subseteq DOMAIN r /\ Fields \subseteq DOMAIN c
  BY SMT DEF ResolvePushReplication, Typed
<1>2. /\ r.pushReplicationWorkers = AtLeast1(c.pushReplicationWorkers, c.workers \div 10)
  BY <1>1, SMT DEF ResolvePushReplication, Fields
<1>3. /\ SizesKept(r, c) /\ FilesKept(r, c) /\ PullWorkersKept(r, c) /\ PullKept(r, c)
      /\ BulkSetKept(r, c) /\ BulkSetAckKept(r, c) /\ CompactionKept(r, c)
  BY SMT DEF ResolvePushReplication, SizesKept, FilesKept, PullWorkersKept, PullKept, BulkSetKept,
     BulkSetAckKept, CompactionKept
<1>4. SizesTyped(c) /\ {c.pushReplicationWorkers, c.workers} \subseteq Int
  BY DEF Typed, SizesTyped, PushTyped
<1>5. /\ c.workers \div 10 \in Int
  BY <1>4
<1>6. r.pushReplicationWorkers \in Int /\ r.pushReplicationWorkers >= 1
  BY <1>2, <1>4, <1>5, AtLeast1Type
<1>7. PushTyped(r) /\ PushUsable(r)
  BY <1>6 DEF PushTyped, PushUsable
<1>8. SizesTyped(r) /\ FilesTyped(r) /\ PullWorkersTyped(r) /\ PullTyped(r)
      /\ BulkSetTyped(r) /\ BulkSetAckTyped(r) /\ CompactionTyped(r)
  BY <1>3 DEF Typed, SizesTyped, SizesKept, FilesTyped, FilesKept, PullWorkersTyped,
     PullWorkersKept, PullTyped, PullKept, BulkSetTyped, BulkSetKept, BulkSetAckTyped,
     BulkSetAckKept, CompactionTyped, CompactionKept
<1> QED
  BY <1>1, <1>3, <1>7, <1>8 DEF Typed

\* Bulk-set messages.
LEMMA BulkSetStep ==
  ASSUME NEW c, Typed(c), NEW r, r = ResolveBulkSet(c)
  PROVE  /\ Typed(r) /\ BulkSetUsable(r)
         /\ SizesKept(r, c) /\ FilesKept(r, c) /\ PullWorkersKept(r, c) /\ PullKept(r, c)
         /\ PushKept(r, c) /\ BulkSetAckKept(r, c) /\ CompactionKept(r, c)
<1>1. Fields \subseteq DOMAIN r /\ Fields \subseteq DOMAIN c
  BY SMT DEF ResolveBulkSet, Typed
<1>2. /\ r.bulkSetMsgCap = AtLeast1(c.bulkSetMsgCap, c.msgCap)
      /\ r.outBulkSetMsgs = AtLeast1(c.outBulkSetMsgs, Scaled(c, c.pushReplicationWorkers * 4))
      /\ r.inBulkSetWorkers = AtLeast1(c.inBulkSetWorkers, c.workers)
      /\ r.inBulkSetMsgs = AtLeast1(c.inBulkSetMsgs, Scaled(c, AtLeast1(c.inBulkSetWorkers, c.workers) * 4))
  BY <1>1, SMT DEF ResolveBulkSet, Fields
<1>3. /\ SizesKept(r, c) /\ FilesKept(r, c) /\ PullWorkersKept(r, c) /\ PullKept(r, c)
      /\ PushKept(r, c) /\ BulkSetAckKept(r, c) /\ CompactionKept(r, c)
  BY SMT DEF ResolveBulkSet, SizesKept, FilesKept, PullWorkersKept, PullKept, PushKept,
     BulkSetAckKept, CompactionKept
<1>4. SizesTyped(c) /\ {c.bulkSetMsgCap, c.inBulkSetMsgs, c.inBulkSetWorkers, c.msgCap,
                        c.outBulkSetMsgs, c.pushReplicationWorkers, c.workers} \subseteq Int
  BY DEF Typed, SizesTyped, BulkSetTyped, PushTyped
<1>5. AtLeast1(c.inBulkSetWorkers, c.workers) \in Int
  BY <1>4, AtLeast1Type
<1>6. /\ c.msgCap \in Int
      /\ Scaled(c, c.pushReplicationWorkers * 4) \in Int
      /\ c.workers \in Int
      /\ Scaled(c, AtLeast1(c.inBulkSetWorkers, c.workers) * 4) \in Int
  BY <1>4, <1>5, ScaledType, SizesAssumption
<1>7. r.bulkSetMsgCap \in Int /\ r.bulkSetMsgCap >= 1
  BY <1>2, <1>4, <1>6, AtLeast1Type
<1>8. r.outBulkSetMsgs \in Int /\ r.outBulkSetMsgs >= 1
  BY <1>2, <1>4, <1>6, AtLeast1Type
<1>9. r.inBulkSetWorkers \in Int /\ r.inBulkSetWorkers >= 1
  BY <1>2, <1>4, <1>6, AtLeast1Type
<1>10. r.inBulkSetMsgs \in Int /\ r.inBulkSetMsgs >= 1
  BY <1>2, <1>4, <1>6, AtLeast1Type
<1>11. BulkSetTyped(r) /\ BulkSetUsable(r)
  BY <1>7, <1>8, <1>9, <1>10 DEF BulkSetTyped, BulkSetUsable
<1>12. SizesTyped(r) /\ FilesTyped(r) /\ PullWorkersTyped(r) /\ PullTyped(r)
      /\ PushTyped(r) /\ BulkSetAckTyped(r) /\ CompactionTyped(r)
  BY <1>3 DEF Typed, SizesTyped, SizesKept, FilesTyped, FilesKept, PullWorkersTyped,
     PullWorkersKept, PullTyped, PullKept, PushTyped, PushKept, BulkSetAckTyped, BulkSetAckKept,
     CompactionTyped, CompactionKept
<1> QED
  BY <1>1, <1>3, <1>11, <1>12 DEF Typed

\* Bulk-set acknowledgements.
LEMMA BulkSetAckStep ==
  ASSUME NEW c, Typed(c), NEW r, r = ResolveBulkSetAck(c)
  PROVE  /\ Typed(r) /\ BulkSetAckUsable(r)
         /\ SizesKept(r, c) /\ FilesKept(r, c) /\ PullWorkersKept(r, c) /\ PullKept(r, c)
         /\ PushKept(r, c) /\ BulkSetKept(r, c) /\ CompactionKept(r, c)
<1>1. Fields \subseteq DOMAIN r /\ Fields \subseteq DOMAIN c
  BY SMT DEF ResolveBulkSetAck, Typed
<1>2. /\ r.bulkSetAckMsgCap = AtLeast1(c.bulkSetAckMsgCap, c.msgCap)
      /\ r.inBulkSetAckWorkers = AtLeast1(c.inBulkSetAckWorkers, c.workers)
      /\ r.inBulkSetAckMsgs =
           AtLeast1(c.inBulkSetAckMsgs, Scaled(c, AtLeast1(c.inBulkSetAckWorkers, c.workers) * 4))
      /\ r.outBulkSetAckMsgs =
           AtLeast1(c.outBulkSetAckMsgs, Scaled(c, AtLeast1(c.inBulkSetAckWorkers, c.workers) * 4))
  BY <1>1, SMT DEF ResolveBulkSetAck, Fields
<1>3. /\ SizesKept(r, c) /\ FilesKept(r, c) /\ PullWorkersKept(r, c) /\ PullKept(r, c)
      /\ PushKept(r, c) /\ BulkSetKept(r, c) /\ CompactionKept(r, c)
  BY SMT DEF ResolveBulkSetAck, SizesKept, FilesKept, PullWorkersKept, PullKept, PushKept,
     BulkSetKept, CompactionKept
<1>4. SizesTyped(c) /\ {c.bulkSetAckMsgCap, c.inBulkSetAckMsgs, c.inBulkSetAckWorkers,
                        c.msgCap, c.outBulkSetAckMsgs, c.workers} \subseteq Int
  BY DEF Typed, SizesTyped, BulkSetAckTyped
<1>5. AtLeast1(c.inBulkSetAckWorkers, c.workers) \in Int
  BY <1>4, AtLeast1Type
<1>6. /\ c.msgCap \in Int
      /\ c.workers \in Int
      /\ Scaled(c, AtLeast1(c.inBulkSetAckWorkers, c.workers) * 4) \in Int
  BY <1>4, <1>5, ScaledType, SizesAssumption
<1>7. r.bulkSetAckMsgCap \in Int /\ r.bulkSetAckMsgCap >= 1
  BY <1>2, <1>4, <1>6, AtLeast1Type
<1>8. r.inBulkSetAckWorkers \in Int /\ r.inBulkSetAckWorkers >= 1
  BY <1>2, <1>4, <1>6, AtLeast1Type
<1>9. r.inBulkSetAckMsgs \in Int /\ r.inBulkSetAckMsgs >= 1
  BY <1>2, <1>4, <1>6, AtLeast1Type
<1>10. r.outBulkSetAckMsgs \in Int /\ r.outBulkSetAckMsgs >= 1
  BY <1>2, <1>4, <1>6, AtLeast1Type
<1>11. BulkSetAckTyped(r) /\ BulkSetAckUsable(r)
  BY <1>7, <1>8, <1>9, <1>10 DEF BulkSetAckTyped, BulkSetAckUsable
<1>12. SizesTyped(r) /\ FilesTyped(r) /\ PullWorkersTyped(r) /\ PullTyped(r)
      /\ PushTyped(r) /\ BulkSetTyped(r) /\ CompactionTyped(r)
  BY <1>3 DEF Typed, SizesTyped, SizesKept, FilesTyped, FilesKept, PullWorkersTyped,
     PullWorkersKept, PullTyped, PullKept, PushTyped, PushKept, BulkSetTyped, BulkSetKept,
     CompactionTyped, CompactionKept
<1> QED
  BY <1>1, <1>3, <1>11, <1>12 DEF Typed

\* The workers of compaction.
LEMMA CompactionStep ==
  ASSUME NEW c, Typed(c), NEW r, r = ResolveCompaction(c)
  PROVE  /\ Typed(r) /\ CompactionUsable(r)
         /\ SizesKept(r, c) /\ FilesKept(r, c) /\ PullWorkersKept(r, c) /\ PullKept(r, c)
         /\ PushKept(r, c) /\ BulkSetKept(r, c) /\ BulkSetAckKept(r, c)
<1>1. Fields \subseteq DOMAIN r /\ Fields \subseteq DOMAIN c
  BY SMT DEF ResolveCompaction, Typed
<1>2. /\ r.compactionWorkers = AtLeast1(c.compactionWorkers, c.workers)
  BY <1>1, SMT DEF ResolveCompaction, Fields
<1>3. /\ SizesKept(r, c) /\ FilesKept(r, c) /\ PullWorkersKept(r, c) /\ PullKept(r, c)
      /\ PushKept(r, c) /\ BulkSetKept(r, c) /\ BulkSetAckKept(r, c)
  BY SMT DEF ResolveCompaction, SizesKept, FilesKept, PullWorkersKept, PullKept, PushKept,
     BulkSetKept, BulkSetAckKept
<1>4. SizesTyped(c) /\ {c.compactionWorkers, c.workers} \subseteq Int
  BY DEF Typed, SizesTyped, CompactionTyped
<1>5. /\ c.workers \in Int
  BY <1>4
<1>6. r.compactionWorkers \in Int /\ r.compactionWorkers >= 1
  BY <1>2, <1>4, <1>5, AtLeast1Type
<1>7. CompactionTyped(r) /\ CompactionUsable(r)
  BY <1>6 DEF CompactionTyped, CompactionUsable
<1>8. SizesTyped(r) /\ FilesTyped(r) /\ PullWorkersTyped(r) /\ PullTyped(r)
      /\ PushTyped(r) /\ BulkSetTyped(r) /\ BulkSetAckTyped(r)
  BY <1>3 DEF Typed, SizesTyped, SizesKept, FilesTyped, FilesKept, PullWorkersTyped,
     PullWorkersKept, PullTyped, PullKept, PushTyped, PushKept, BulkSetTyped, BulkSetKept,
     BulkSetAckTyped, BulkSetAckKept
<1> QED
  BY <1>1, <1>3, <1>7, <1>8 DEF Typed

\* The groups that are resolved after the sizes.
RestKept(r, c) ==
  /\ FilesKept(r, c) /\ PullWorkersKept(r, c) /\ PullKept(r, c) /\ PushKept(r, c)
  /\ BulkSetKept(r, c) /\ BulkSetAckKept(r, c) /\ CompactionKept(r, c)

-----------------------------------------------------------------------------
(* The steps that set the sizes *)

\* A step that sets one of the sizes keeps the rest.
LEMMA RestTyped ==
  ASSUME NEW c, Typed(c), NEW r, RestKept(r, c), Fields \subseteq DOMAIN r, SizesTyped(r)
  PROVE  Typed(r)
BY DEF Typed, RestKept, FilesKept, FilesTyped, PullWorkersKept, PullWorkersTyped, PullKept,
   PullTyped, PushKept, PushTyped, BulkSetKept, BulkSetTyped, BulkSetAckKept, BulkSetAckTyped,
   CompactionKept, CompactionTyped

\* The scale, the longest value, the workers and the interval of checksums.
LEMMA ScaleStep ==
  ASSUME NEW c, Typed(c), NEW r, r = ResolveScale(c)
  PROVE  Typed(r) /\ RestKept(r, c) /\ r.checksumInterval = c.checksumInterval
<1>1. Fields \subseteq DOMAIN r /\ Fields \subseteq DOMAIN c
  BY SMT DEF ResolveScale, Typed
<1>2. r = c \/ r.scale = [num |-> 1, den |-> 1]
  BY <1>1, SMT DEF ResolveScale, Fields
<1>3. /\ r.entrySize = c.entrySize
      /\ r.valueCap = c.valueCap
      /\ r.workers = c.workers
      /\ r.checksumInterval = c.checksumInterval
      /\ r.pageSize = c.pageSize
      /\ r.minValueAlloc = c.minValueAlloc
      /\ r.writePagesPerWorker = c.writePagesPerWorker
      /\ r.msgCap = c.msgCap
      /\ r.msgTimeout = c.msgTimeout
      /\ r.fileCap = c.fileCap
  BY SMT DEF ResolveScale
<1>4. RestKept(r, c)
  BY SMT DEF ResolveScale, RestKept, FilesKept, PullWorkersKept, PullKept,
     PushKept, BulkSetKept, BulkSetAckKept, CompactionKept
<1>5. SizesTyped(c)
  BY DEF Typed
<1>6. r.scale.num \in Int /\ r.scale.den \in Nat \ {0}
  BY <1>2, <1>5 DEF SizesTyped
<1>7. SizesTyped(r)
  BY <1>3, <1>5, <1>6 DEF SizesTyped
<1> QED
  BY <1>1, <1>3, <1>4, <1>7, RestTyped

\* The value cap fits in 32 bits with the header and trailer of a file.
LEMMA ValueCapStep ==
  ASSUME NEW c, Typed(c), NEW r, r = ResolveValueCap(c)
  PROVE  /\ Typed(r) /\ RestKept(r, c)
         /\ r.scale = c.scale /\ r.entrySize = c.entrySize
         /\ r.workers = c.workers /\ r.checksumInterval = c.checksumInterval
         /\ r.pageSize = c.pageSize /\ r.minValueAlloc = c.minValueAlloc
         /\ r.writePagesPerWorker = c.writePagesPerWorker /\ r.msgCap = c.msgCap
         /\ r.msgTimeout = c.msgTimeout /\ r.fileCap = c.fileCap
         /\ r.valueCap \in 0..MaxValueCap
<1>1. Fields \subseteq DOMAIN r /\ Fields \subseteq DOMAIN c
  BY SMT DEF ResolveValueCap, Typed
<1>2. /\ r.valueCap = AtMost(AtLeast(Default(c.valueCap, MaxValueCap), 0), MaxValueCap)
  BY <1>1, SMT DEF ResolveValueCap, Fields
<1>3. /\ r.scale = c.scale /\ r.entrySize = c.entrySize
      /\ r.workers = c.workers /\ r.checksumInterval = c.checksumInterval
      /\ r.pageSize = c.pageSize /\ r.minValueAlloc = c.minValueAlloc
      /\ r.writePagesPerWorker = c.writePagesPerWorker /\ r.msgCap = c.msgCap
      /\ r.msgTimeout = c.msgTimeout /\ r.fileCap = c.fileCap
  BY SMT DEF ResolveValueCap
<1>4. RestKept(r, c)
  BY SMT DEF ResolveValueCap, RestKept, FilesKept, PullWorkersKept, PullKept,
     PushKept, BulkSetKept, BulkSetAckKept, CompactionKept
<1>5. /\ SizesTyped(c) /\ c.entrySize \in Nat /\ c.entrySize > 0 /\ c.entrySize <= 48
      /\ {c.valueCap, c.workers, c.checksumInterval, c.pageSize, c.minValueAlloc,
          c.writePagesPerWorker, c.msgCap, c.msgTimeout, c.fileCap} \subseteq Int
  BY DEF Typed, SizesTyped
<1>6. /\ r.valueCap \in Int
      /\ r.valueCap \in 0..MaxValueCap
  BY <1>2, <1>5, SizesAssumption, SMT DEF AtMost, AtLeast, Default
<1>7. SizesTyped(r)
  BY <1>3, <1>5, <1>6 DEF SizesTyped
<1> QED
  BY <1>1, <1>3, <1>4, <1>6, <1>7, RestTyped

\* A store has a writer at least.
LEMMA WorkersStep ==
  ASSUME NEW c, Typed(c), NEW r, r = ResolveWorkers(c)
  PROVE  /\ Typed(r) /\ RestKept(r, c)
         /\ r.scale = c.scale /\ r.entrySize = c.entrySize
         /\ r.valueCap = c.valueCap /\ r.checksumInterval = c.checksumInterval
         /\ r.pageSize = c.pageSize /\ r.minValueAlloc = c.minValueAlloc
         /\ r.writePagesPerWorker = c.writePagesPerWorker /\ r.msgCap = c.msgCap
         /\ r.msgTimeout = c.msgTimeout /\ r.fileCap = c.fileCap
         /\ r.workers >= 1
<1>1. Fields \subseteq DOMAIN r /\ Fields \subseteq DOMAIN c
  BY SMT DEF ResolveWorkers, Typed
<1>2. /\ r.workers = AtLeast1(c.workers, Scaled(c, GOMAXPROCS))
  BY <1>1, SMT DEF ResolveWorkers, Fields
<1>3. /\ r.scale = c.scale /\ r.entrySize = c.entrySize
      /\ r.valueCap = c.valueCap /\ r.checksumInterval = c.checksumInterval
      /\ r.pageSize = c.pageSize /\ r.minValueAlloc = c.minValueAlloc
      /\ r.writePagesPerWorker = c.writePagesPerWorker /\ r.msgCap = c.msgCap
      /\ r.msgTimeout = c.msgTimeout /\ r.fileCap = c.fileCap
  BY SMT DEF ResolveWorkers
<1>4. RestKept(r, c)
  BY SMT DEF ResolveWorkers, RestKept, FilesKept, PullWorkersKept, PullKept,
     PushKept, BulkSetKept, BulkSetAckKept, CompactionKept
<1>5. /\ SizesTyped(c) /\ c.entrySize \in Nat /\ c.entrySize > 0 /\ c.entrySize <= 48
      /\ {c.valueCap, c.workers, c.checksumInterval, c.pageSize, c.minValueAlloc,
          c.writePagesPerWorker, c.msgCap, c.msgTimeout, c.fileCap} \subseteq Int
  BY DEF Typed, SizesTyped
<1>6. Scaled(c, GOMAXPROCS) \in Int
  BY <1>5, ScaledType, SizesAssumption
<1>7. /\ r.workers \in Int
      /\ r.workers >= 1
  BY <1>2, <1>5, <1>6, SizesAssumption, SMT DEF AtLeast1, AtLeast, Default
<1>8. SizesTyped(r)
  BY <1>3, <1>5, <1>7 DEF SizesTyped
<1> QED
  BY <1>1, <1>3, <1>4, <1>7, <1>8, RestTyped

\* A checksum interval holds a header.
LEMMA IntervalStep ==
  ASSUME NEW c, Typed(c), NEW r, r = ResolveChecksumInterval(c)
  PROVE  /\ Typed(r) /\ RestKept(r, c)
         /\ r.scale = c.scale /\ r.entrySize = c.entrySize
         /\ r.valueCap = c.valueCap /\ r.workers = c.workers
         /\ r.pageSize = c.pageSize /\ r.minValueAlloc = c.minValueAlloc
         /\ r.writePagesPerWorker = c.writePagesPerWorker /\ r.msgCap = c.msgCap
         /\ r.msgTimeout = c.msgTimeout /\ r.fileCap = c.fileCap
         /\ r.checksumInterval >= HeaderSize
         /\ (c.checksumInterval <= MaxUint32 => r.checksumInterval <= MaxUint32)
<1>1. Fields \subseteq DOMAIN r /\ Fields \subseteq DOMAIN c
  BY SMT DEF ResolveChecksumInterval, Typed
<1>2. /\ r.checksumInterval = AtLeast(Default(c.checksumInterval, Mega \div 16 - 4), HeaderSize)
  BY <1>1, SMT DEF ResolveChecksumInterval, Fields
<1>3. /\ r.scale = c.scale /\ r.entrySize = c.entrySize
      /\ r.valueCap = c.valueCap /\ r.workers = c.workers
      /\ r.pageSize = c.pageSize /\ r.minValueAlloc = c.minValueAlloc
      /\ r.writePagesPerWorker = c.writePagesPerWorker /\ r.msgCap = c.msgCap
      /\ r.msgTimeout = c.msgTimeout /\ r.fileCap = c.fileCap
  BY SMT DEF ResolveChecksumInterval
<1>4. RestKept(r, c)
  BY SMT DEF ResolveChecksumInterval, RestKept, FilesKept, PullWorkersKept, PullKept,
     PushKept, BulkSetKept, BulkSetAckKept, CompactionKept
<1>5. /\ SizesTyped(c) /\ c.entrySize \in Nat /\ c.entrySize > 0 /\ c.entrySize <= 48
      /\ {c.valueCap, c.workers, c.checksumInterval, c.pageSize, c.minValueAlloc,
          c.writePagesPerWorker, c.msgCap, c.msgTimeout, c.fileCap} \subseteq Int
  BY DEF Typed, SizesTyped
<1>6. /\ r.checksumInterval \in Int
      /\ r.checksumInterval >= HeaderSize
      /\ (c.checksumInterval <= MaxUint32 => r.checksumInterval <= MaxUint32)
  BY <1>2, <1>5, SizesAssumption, SMT DEF AtLeast, Default
<1>7. SizesTyped(r)
  BY <1>3, <1>5, <1>6 DEF SizesTyped
<1> QED
  BY <1>1, <1>3, <1>4, <1>6, <1>7, RestTyped

\* A page holds a value and a checksum interval, or is as long as 32 bits allow.
LEMMA PageSizeStep ==
  ASSUME NEW c, Typed(c), NEW r, r = ResolvePageSize(c)
  PROVE  /\ Typed(r) /\ RestKept(r, c)
         /\ r.scale = c.scale /\ r.entrySize = c.entrySize
         /\ r.valueCap = c.valueCap /\ r.workers = c.workers
         /\ r.checksumInterval = c.checksumInterval /\ r.minValueAlloc = c.minValueAlloc
         /\ r.writePagesPerWorker = c.writePagesPerWorker /\ r.msgCap = c.msgCap
         /\ r.msgTimeout = c.msgTimeout /\ r.fileCap = c.fileCap
         /\ (r.pageSize >= c.valueCap + c.checksumInterval \/ r.pageSize = MaxUint32 - 1)
         /\ r.pageSize > c.entrySize
<1>1. Fields \subseteq DOMAIN r /\ Fields \subseteq DOMAIN c
  BY SMT DEF ResolvePageSize, Typed
<1>2. /\ r.pageSize = AtMost(AtLeast(AtLeast(Default(c.pageSize, Scaled(c, 4 * Mega)), c.valueCap + c.checksumInterval),
                                   8 + c.entrySize), MaxUint32 - 1)
  BY <1>1, SMT DEF ResolvePageSize, Fields
<1>3. /\ r.scale = c.scale /\ r.entrySize = c.entrySize
      /\ r.valueCap = c.valueCap /\ r.workers = c.workers
      /\ r.checksumInterval = c.checksumInterval /\ r.minValueAlloc = c.minValueAlloc
      /\ r.writePagesPerWorker = c.writePagesPerWorker /\ r.msgCap = c.msgCap
      /\ r.msgTimeout = c.msgTimeout /\ r.fileCap = c.fileCap
  BY SMT DEF ResolvePageSize
<1>4. RestKept(r, c)
  BY SMT DEF ResolvePageSize, RestKept, FilesKept, PullWorkersKept, PullKept,
     PushKept, BulkSetKept, BulkSetAckKept, CompactionKept
<1>5. /\ SizesTyped(c) /\ c.entrySize \in Nat /\ c.entrySize > 0 /\ c.entrySize <= 48
      /\ {c.valueCap, c.workers, c.checksumInterval, c.pageSize, c.minValueAlloc,
          c.writePagesPerWorker, c.msgCap, c.msgTimeout, c.fileCap} \subseteq Int
  BY DEF Typed, SizesTyped
<1>6. Scaled(c, 4 * Mega) \in Int
  BY <1>5, ScaledType, SizesAssumption
<1>7. /\ r.pageSize \in Int
      /\ (r.pageSize >= c.valueCap + c.checksumInterval \/ r.pageSize = MaxUint32 - 1)
      /\ r.pageSize > c.entrySize
  BY <1>2, <1>5, <1>6, SizesAssumption, SMT DEF AtMost, AtLeast, Default
<1>8. SizesTyped(r)
  BY <1>3, <1>5, <1>7 DEF SizesTyped
<1> QED
  BY <1>1, <1>3, <1>4, <1>7, <1>8, RestTyped

\* The least allocation of a value, and the pages of a worker.
LEMMA MemoryStep ==
  ASSUME NEW c, Typed(c), c.pageSize \in Nat, NEW r, r = ResolveMemory(c)
  PROVE  /\ Typed(r) /\ RestKept(r, c)
         /\ r.scale = c.scale /\ r.entrySize = c.entrySize
         /\ r.valueCap = c.valueCap /\ r.workers = c.workers
         /\ r.checksumInterval = c.checksumInterval /\ r.pageSize = c.pageSize
         /\ r.msgCap = c.msgCap /\ r.msgTimeout = c.msgTimeout
         /\ r.fileCap = c.fileCap
         /\ r.minValueAlloc = MinValueAlloc(c)
         /\ r.writePagesPerWorker >= 2
<1>1. Fields \subseteq DOMAIN r /\ Fields \subseteq DOMAIN c
  BY SMT DEF ResolveMemory, Typed
<1>2. /\ r.minValueAlloc = MinValueAlloc(c)
      /\ r.writePagesPerWorker = AtLeast(Default(c.writePagesPerWorker, Scaled(c, 3)), 2)
  BY <1>1, SMT DEF ResolveMemory, Fields
<1>3. /\ r.scale = c.scale /\ r.entrySize = c.entrySize
      /\ r.valueCap = c.valueCap /\ r.workers = c.workers
      /\ r.checksumInterval = c.checksumInterval /\ r.pageSize = c.pageSize
      /\ r.msgCap = c.msgCap /\ r.msgTimeout = c.msgTimeout
      /\ r.fileCap = c.fileCap
  BY SMT DEF ResolveMemory
<1>4. RestKept(r, c)
  BY SMT DEF ResolveMemory, RestKept, FilesKept, PullWorkersKept, PullKept,
     PushKept, BulkSetKept, BulkSetAckKept, CompactionKept
<1>5. /\ SizesTyped(c) /\ c.entrySize \in Nat /\ c.entrySize > 0 /\ c.entrySize <= 48
      /\ {c.valueCap, c.workers, c.checksumInterval, c.pageSize, c.minValueAlloc,
          c.writePagesPerWorker, c.msgCap, c.msgTimeout, c.fileCap} \subseteq Int
  BY DEF Typed, SizesTyped
<1>6. Scaled(c, 3) \in Int
  BY <1>5, ScaledType, SizesAssumption
<1>7. MinValueAlloc(c) \in Int
  BY <1>5 DEF MinValueAlloc
<1>8. /\ r.minValueAlloc \in Int
      /\ r.writePagesPerWorker \in Int
      /\ r.minValueAlloc = MinValueAlloc(c)
      /\ r.writePagesPerWorker >= 2
  BY <1>2, <1>5, <1>6, <1>7, SizesAssumption, SMT DEF AtLeast, Default
<1>9. SizesTyped(r)
  BY <1>3, <1>5, <1>8 DEF SizesTyped
<1> QED
  BY <1>1, <1>3, <1>4, <1>8, <1>9, RestTyped

\* Messages, and the length of a file.
LEMMA MsgsStep ==
  ASSUME NEW c, Typed(c), NEW r, r = ResolveMsgs(c)
  PROVE  /\ Typed(r) /\ RestKept(r, c)
         /\ r.scale = c.scale /\ r.entrySize = c.entrySize
         /\ r.valueCap = c.valueCap /\ r.workers = c.workers
         /\ r.checksumInterval = c.checksumInterval /\ r.pageSize = c.pageSize
         /\ r.minValueAlloc = c.minValueAlloc /\ r.writePagesPerWorker = c.writePagesPerWorker
         /\ r.fileCap = c.fileCap
<1>1. Fields \subseteq DOMAIN r /\ Fields \subseteq DOMAIN c
  BY SMT DEF ResolveMsgs, Typed
<1>2. /\ r.msgCap = AtLeast(Default(c.msgCap, Scaled(c, 16 * Mega)), 1024)
      /\ r.msgTimeout = Timeout(c.msgTimeout, 250)
  BY <1>1, SMT DEF ResolveMsgs, Fields
<1>3. /\ r.scale = c.scale /\ r.entrySize = c.entrySize
      /\ r.valueCap = c.valueCap /\ r.workers = c.workers
      /\ r.checksumInterval = c.checksumInterval /\ r.pageSize = c.pageSize
      /\ r.minValueAlloc = c.minValueAlloc /\ r.writePagesPerWorker = c.writePagesPerWorker
      /\ r.fileCap = c.fileCap
  BY SMT DEF ResolveMsgs
<1>4. RestKept(r, c)
  BY SMT DEF ResolveMsgs, RestKept, FilesKept, PullWorkersKept, PullKept,
     PushKept, BulkSetKept, BulkSetAckKept, CompactionKept
<1>5. /\ SizesTyped(c) /\ c.entrySize \in Nat /\ c.entrySize > 0 /\ c.entrySize <= 48
      /\ {c.valueCap, c.workers, c.checksumInterval, c.pageSize, c.minValueAlloc,
          c.writePagesPerWorker, c.msgCap, c.msgTimeout, c.fileCap} \subseteq Int
  BY DEF Typed, SizesTyped
<1>6. Scaled(c, 16 * Mega) \in Int
  BY <1>5, ScaledType, SizesAssumption
<1>7. /\ r.msgCap \in Int
      /\ r.msgTimeout \in Int
  BY <1>2, <1>5, <1>6, SizesAssumption, SMT DEF AtLeast, Default, Timeout
<1>8. SizesTyped(r)
  BY <1>3, <1>5, <1>7 DEF SizesTyped
<1> QED
  BY <1>1, <1>3, <1>4, <1>7, <1>8, RestTyped

\* A file holds its header, its trailer and a value.
LEMMA FileCapStep ==
  ASSUME NEW c, Typed(c), NEW r, r = ResolveFileCap(c)
  PROVE  /\ Typed(r) /\ RestKept(r, c)
         /\ r.scale = c.scale /\ r.entrySize = c.entrySize
         /\ r.valueCap = c.valueCap /\ r.workers = c.workers
         /\ r.checksumInterval = c.checksumInterval /\ r.pageSize = c.pageSize
         /\ r.minValueAlloc = c.minValueAlloc /\ r.writePagesPerWorker = c.writePagesPerWorker
         /\ r.msgCap = c.msgCap /\ r.msgTimeout = c.msgTimeout
         /\ (c.valueCap \in 0..MaxValueCap => HeaderSize + c.valueCap + TrailerSize <= r.fileCap)
<1>1. Fields \subseteq DOMAIN r /\ Fields \subseteq DOMAIN c
  BY SMT DEF ResolveFileCap, Typed
<1>2. /\ r.fileCap = AtMost(AtLeast(Default(c.fileCap, MaxUint32), HeaderSize + TrailerSize + c.valueCap), MaxUint32)
  BY <1>1, SMT DEF ResolveFileCap, Fields
<1>3. /\ r.scale = c.scale /\ r.entrySize = c.entrySize
      /\ r.valueCap = c.valueCap /\ r.workers = c.workers
      /\ r.checksumInterval = c.checksumInterval /\ r.pageSize = c.pageSize
      /\ r.minValueAlloc = c.minValueAlloc /\ r.writePagesPerWorker = c.writePagesPerWorker
      /\ r.msgCap = c.msgCap /\ r.msgTimeout = c.msgTimeout
  BY SMT DEF ResolveFileCap
<1>4. RestKept(r, c)
  BY SMT DEF ResolveFileCap, RestKept, FilesKept, PullWorkersKept, PullKept,
     PushKept, BulkSetKept, BulkSetAckKept, CompactionKept
<1>5. /\ SizesTyped(c) /\ c.entrySize \in Nat /\ c.entrySize > 0 /\ c.entrySize <= 48
      /\ {c.valueCap, c.workers, c.checksumInterval, c.pageSize, c.minValueAlloc,
          c.writePagesPerWorker, c.msgCap, c.msgTimeout, c.fileCap} \subseteq Int
  BY DEF Typed, SizesTyped
<1>6. /\ r.fileCap \in Int
      /\ (c.valueCap \in 0..MaxValueCap => HeaderSize + c.valueCap + TrailerSize <= r.fileCap)
  BY <1>2, <1>5, SizesAssumption, SMT DEF AtMost, AtLeast, Default
<1>7. SizesTyped(r)
  BY <1>3, <1>5, <1>6 DEF SizesTyped
<1> QED
  BY <1>1, <1>3, <1>4, <1>6, <1>7, RestTyped

\* Quotients, as the page sizes need them.
LEMMA Quotients ==
  ASSUME NEW a \in Nat, NEW b \in Nat, b >= 2
  PROVE  /\ a \div b \in Nat /\ 2 * (a \div b) <= a
         /\ b >= 3 => 3 * (a \div b) <= a
         /\ a < b * (a \div b) + b
         /\ a < b => a \div b = 0
<1>1. PICK q \in Int : q = a \div b
  OBVIOUS
<1>2. PICK m \in Int : m = a % b
  OBVIOUS
<1>3. a = b * q + m /\ 0 <= m /\ m < b
  BY <1>1, <1>2
<1>4. q >= 0
  <2>1. ASSUME q <= -1 PROVE FALSE
    <3>1. b * q <= -b
      BY <2>1
    <3> QED
      BY <1>3, <3>1
  <2> QED
    BY <2>1
<1>5. 2 * q <= b * q
  BY <1>4
<1>6. a < b => q = 0
  <2>1. ASSUME q >= 1, a < b PROVE FALSE
    <3>1. b * q >= b
      BY <2>1
    <3> QED
      BY <1>3, <2>1, <3>1
  <2> QED
    BY <1>4, <2>1
<1>7. ASSUME b >= 3 PROVE 3 * q <= b * q
  BY <1>4, <1>7
<1> QED
  BY <1>1, <1>3, <1>4, <1>5, <1>6, <1>7

\* What follows for the pages from the sizes.
LEMMA PagesFacts ==
  ASSUME NEW c, SizesTyped(c), c.valueCap \in 0..MaxValueCap,
         c.checksumInterval \in HeaderSize..MaxUint32,
         c.pageSize >= c.valueCap + c.checksumInterval \/ c.pageSize = MaxUint32 - 1,
         c.pageSize > c.entrySize, c.minValueAlloc = MinValueAlloc(c)
  PROVE  LET entries == c.pageSize \div c.entrySize
             alloc   == IF c.minValueAlloc > c.valueCap THEN c.minValueAlloc ELSE c.valueCap
         IN  /\ 2 * (entries * c.minValueAlloc) >= c.checksumInterval
             /\ 2 * (c.pageSize - alloc + 1) >= c.checksumInterval
             /\ c.checksumInterval <= entries =>
                  /\ entries * c.minValueAlloc >= c.checksumInterval
                  /\ c.pageSize - alloc + 1 >= c.checksumInterval
             /\ c.valueCap <= c.pageSize /\ c.minValueAlloc <= c.pageSize
             /\ c.entrySize <= c.pageSize
<1> DEFINE entries == c.pageSize \div c.entrySize
<1>1. /\ c.entrySize \in Nat /\ c.entrySize >= 2 /\ c.pageSize \in Nat /\ c.valueCap \in Nat
      /\ c.checksumInterval \in Nat /\ c.checksumInterval >= 32 /\ c.checksumInterval <= MaxUint32
      /\ c.minValueAlloc \in Int /\ MaxUint32 \in Nat /\ MaxUint32 >= 100
      /\ c.valueCap <= MaxValueCap /\ 2 * MaxValueCap + 32 <= MaxUint32 /\ MaxValueCap \in Nat
  BY SizesAssumption DEF SizesTyped
<1>2. entries \in Nat /\ 2 * entries <= c.pageSize /\ entries >= 1
  <2>1. entries \in Nat /\ 2 * entries <= c.pageSize
    BY <1>1, Quotients
  <2>2. entries >= 1
    BY <1>1 DEF SizesTyped
  <2> QED
    BY <2>1, <2>2
<1>3. c.minValueAlloc = c.checksumInterval \div (entries + 1) + 1
  BY DEF MinValueAlloc
<1> HIDE DEF entries
<1>4. /\ c.checksumInterval \div (entries + 1) \in Nat
      /\ 2 * (c.checksumInterval \div (entries + 1)) <= c.checksumInterval
      /\ c.checksumInterval < entries + 1 => c.checksumInterval \div (entries + 1) = 0
  BY <1>1, <1>2, Quotients
<1>5. c.minValueAlloc >= 1 /\ 2 * c.minValueAlloc <= c.checksumInterval + 2
  BY <1>1, <1>3, <1>4
<1>6. c.valueCap <= c.pageSize /\ c.minValueAlloc <= c.pageSize /\ c.entrySize <= c.pageSize
  BY <1>1, <1>5
<1>7. ASSUME c.checksumInterval <= entries
      PROVE  /\ entries * c.minValueAlloc >= c.checksumInterval
             /\ c.minValueAlloc = 1
             /\ c.valueCap + c.checksumInterval <= c.pageSize + 1
  <2>1. c.minValueAlloc = 1
    BY <1>1, <1>2, <1>3, <1>4, <1>7
  <2>2. entries * c.minValueAlloc = entries
    BY <1>2, <2>1
  <2>3. c.valueCap + c.checksumInterval <= c.pageSize + 1
    BY <1>1, <1>2, <1>7
  <2> QED
    BY <1>7, <2>1, <2>2, <2>3
<1>8. ASSUME c.checksumInterval <= entries
      PROVE  c.pageSize - (IF c.minValueAlloc > c.valueCap THEN c.minValueAlloc ELSE c.valueCap) + 1
               >= c.checksumInterval
  BY <1>1, <1>2, <1>7, <1>8
<1>9. 2 * (entries * c.minValueAlloc) >= c.checksumInterval
  <2>0. PICK E \in Nat, I \in Nat : E = entries /\ I = c.checksumInterval /\ E >= 1
    BY <1>1, <1>2
  <2>1. PICK k \in Nat : k = I \div (E + 1) /\ I < (E + 1) * k + (E + 1)
    <3>1. E + 1 \in Nat /\ E + 1 >= 2
      BY <2>0
    <3>2. I \div (E + 1) \in Nat /\ I < (E + 1) * (I \div (E + 1)) + (E + 1)
      BY <3>1, Quotients
    <3> QED
      BY <3>2
  <2>8. PICK a \in Nat : a = c.minValueAlloc /\ a = k + 1
    BY <1>3, <2>0, <2>1
  <2>2. I < (E + 1) * k + (E + 1)
    BY <2>1
  <2>3. (E + 1) * k + (E + 1) = E * a + a
    BY <2>8
  <2>4. E * a >= a
    BY <2>0
  <2>5. PICK p \in Nat : p = E * a
    OBVIOUS
  <2>6. I < p + a /\ p >= a
    BY <2>2, <2>3, <2>4, <2>5
  <2>7. 2 * p >= I
    BY <2>6
  <2> QED
    BY <2>0, <2>5, <2>7, <2>8
<1>10. 2 * (c.pageSize - (IF c.minValueAlloc > c.valueCap THEN c.minValueAlloc ELSE c.valueCap) + 1)
         >= c.checksumInterval
  <2>1. CASE c.pageSize >= c.valueCap + c.checksumInterval
    BY <1>1, <1>5, <2>1
  <2>2. CASE c.pageSize = MaxUint32 - 1
    <3>1. entries >= 2
      <4>1. c.pageSize >= 99 /\ c.entrySize \in {32, 48}
        BY <1>1, <2>2 DEF SizesTyped
      <4> QED
        BY <1>1, <4>1 DEF entries
    <3>2. 3 * (c.checksumInterval \div (entries + 1)) <= c.checksumInterval
      <4>1. PICK b \in Nat : b = entries + 1 /\ b >= 3
        BY <1>2, <3>1
      <4>2. PICK i \in Nat : i = c.checksumInterval
        BY <1>1
      <4>3. 3 * (i \div b) <= i
        BY <4>1, Quotients
      <4> QED
        BY <4>1, <4>2, <4>3
    <3>3. 3 * c.minValueAlloc <= c.checksumInterval + 3
      BY <1>1, <1>3, <1>4, <3>2
    <3> QED
      BY <1>1, <2>2, <3>3
  <2> QED
    BY <2>1, <2>2
<1> QED
  BY <1>6, <1>7, <1>8, <1>9, <1>10 DEF entries

\* The sizes after the first steps.
SizesUsable(c) ==
  /\ SizesTyped(c) /\ c.workers >= 1 /\ c.writePagesPerWorker >= 2
  /\ c.valueCap \in 0..MaxValueCap /\ c.checksumInterval \in HeaderSize..MaxUint32
  /\ c.pageSize >= c.valueCap + c.checksumInterval \/ c.pageSize = MaxUint32 - 1
  /\ c.pageSize > c.entrySize /\ c.minValueAlloc = MinValueAlloc(c)
  /\ HeaderSize + c.valueCap + TrailerSize <= c.fileCap

\* All of them, one after the other.
LEMMA SizesResolved ==
  ASSUME NEW c, Typed(c), c.checksumInterval <= MaxUint32, NEW r,
         r = ResolveFileCap(ResolveMsgs(ResolveMemory(ResolvePageSize(ResolveChecksumInterval(
               ResolveWorkers(ResolveValueCap(ResolveScale(c))))))))
  PROVE  Typed(r) /\ SizesUsable(r)
<1>1. PICK c1 : c1 = ResolveScale(c)
  OBVIOUS
<1>2. PICK c2 : c2 = ResolveValueCap(c1)
  OBVIOUS
<1>3. PICK c3 : c3 = ResolveWorkers(c2)
  OBVIOUS
<1>4. PICK c4 : c4 = ResolveChecksumInterval(c3)
  OBVIOUS
<1>5. PICK c5 : c5 = ResolvePageSize(c4)
  OBVIOUS
<1>6. PICK c6 : c6 = ResolveMemory(c5)
  OBVIOUS
<1>7. PICK c7 : c7 = ResolveMsgs(c6)
  OBVIOUS
<1>8. r = ResolveFileCap(c7)
  BY <1>1, <1>2, <1>3, <1>4, <1>5, <1>6, <1>7
<1>11. Typed(c1) /\ c1.checksumInterval <= MaxUint32
  BY <1>1, ScaleStep
<1>12. Typed(c2) /\ c2.checksumInterval <= MaxUint32 /\ c2.valueCap \in 0..MaxValueCap
  BY <1>2, <1>11, ValueCapStep
<1>13. Typed(c3) /\ c3.checksumInterval <= MaxUint32 /\ c3.valueCap \in 0..MaxValueCap /\ c3.workers >= 1
  BY <1>3, <1>12, WorkersStep
<1>14. /\ Typed(c4) /\ c4.valueCap \in 0..MaxValueCap /\ c4.workers >= 1
       /\ c4.checksumInterval >= HeaderSize /\ c4.checksumInterval <= MaxUint32
  BY <1>4, <1>13, IntervalStep
<1>15. /\ Typed(c5) /\ c5.valueCap \in 0..MaxValueCap /\ c5.workers >= 1
       /\ c5.checksumInterval >= HeaderSize /\ c5.checksumInterval <= MaxUint32
       /\ c5.pageSize >= c5.valueCap + c5.checksumInterval \/ c5.pageSize = MaxUint32 - 1
       /\ c5.pageSize > c5.entrySize
  BY <1>5, <1>14, PageSizeStep
<1>16. c5.pageSize \in Nat
  BY <1>15 DEF Typed, SizesTyped
<1>17. /\ Typed(c6) /\ c6.valueCap \in 0..MaxValueCap /\ c6.workers >= 1
       /\ c6.checksumInterval >= HeaderSize /\ c6.checksumInterval <= MaxUint32
       /\ c6.pageSize >= c6.valueCap + c6.checksumInterval \/ c6.pageSize = MaxUint32 - 1
       /\ c6.pageSize > c6.entrySize /\ c6.writePagesPerWorker >= 2
       /\ c6.minValueAlloc = MinValueAlloc(c6)
  BY <1>6, <1>15, <1>16, MemoryStep DEF MinValueAlloc
<1>18. /\ Typed(c7) /\ c7.valueCap \in 0..MaxValueCap /\ c7.workers >= 1
       /\ c7.checksumInterval >= HeaderSize /\ c7.checksumInterval <= MaxUint32
       /\ c7.pageSize >= c7.valueCap + c7.checksumInterval \/ c7.pageSize = MaxUint32 - 1
       /\ c7.pageSize > c7.entrySize /\ c7.writePagesPerWorker >= 2
       /\ c7.minValueAlloc = MinValueAlloc(c7)
  BY <1>7, <1>17, MsgsStep DEF MinValueAlloc
<1>19. /\ Typed(r) /\ r.valueCap \in 0..MaxValueCap /\ r.workers >= 1
       /\ r.checksumInterval >= HeaderSize /\ r.checksumInterval <= MaxUint32
       /\ r.pageSize >= r.valueCap + r.checksumInterval \/ r.pageSize = MaxUint32 - 1
       /\ r.pageSize > r.entrySize /\ r.writePagesPerWorker >= 2
       /\ r.minValueAlloc = MinValueAlloc(r)
       /\ HeaderSize + r.valueCap + TrailerSize <= r.fileCap
  BY <1>8, <1>18, FileCapStep DEF MinValueAlloc
<1>20. r.checksumInterval \in HeaderSize..MaxUint32
  BY <1>19, SizesAssumption DEF Typed, SizesTyped
<1> QED
  BY <1>19, <1>20 DEF SizesUsable, Typed

\* The steps about disk, memory, flusher and audit change none of these numbers.
LEMMA WatchSteps ==
  ASSUME NEW c, NEW r,
         r \in {ResolveDisk(c), ResolveFlusherAndAudit(c), ResolveMem(c)}
  PROVE  SizesKept(r, c) /\ RestKept(r, c)
<1>1. CASE r = ResolveDisk(c)
  BY <1>1, SMT DEF ResolveDisk, SizesKept, RestKept, FilesKept, PullWorkersKept, PullKept,
     PushKept, BulkSetKept, BulkSetAckKept, CompactionKept
<1>2. CASE r = ResolveFlusherAndAudit(c)
  BY <1>2, SMT DEF ResolveFlusherAndAudit, SizesKept, RestKept, FilesKept, PullWorkersKept,
     PullKept,
     PushKept, BulkSetKept, BulkSetAckKept, CompactionKept
<1>3. CASE r = ResolveMem(c)
  BY <1>3, SMT DEF ResolveMem, SizesKept, RestKept, FilesKept, PullWorkersKept, PullKept,
     PushKept, BulkSetKept, BulkSetAckKept, CompactionKept
<1> QED
  BY <1>1, <1>2, <1>3

\* Whatever is kept stays usable.
LEMMA KeptUsable ==
  ASSUME NEW c, NEW r
  PROVE  /\ SizesKept(r, c) /\ SizesUsable(c) => SizesUsable(r)
         /\ FilesKept(r, c) /\ FilesUsable(c) => FilesUsable(r)
         /\ PullWorkersKept(r, c) /\ PullWorkersUsable(c) => PullWorkersUsable(r)
         /\ PullKept(r, c) /\ PullUsable(c) => PullUsable(r)
         /\ PushKept(r, c) /\ PushUsable(c) => PushUsable(r)
         /\ BulkSetKept(r, c) /\ BulkSetUsable(c) => BulkSetUsable(r)
         /\ BulkSetAckKept(r, c) /\ BulkSetAckUsable(c) => BulkSetAckUsable(r)
         /\ CompactionKept(r, c) /\ CompactionUsable(c) => CompactionUsable(r)
<1>1. SizesKept(r, c) /\ SizesUsable(c) => SizesUsable(r)
  BY DEF SizesKept, SizesUsable, SizesTyped, MinValueAlloc
<1>2. /\ FilesKept(r, c) /\ FilesUsable(c) => FilesUsable(r)
      /\ PullWorkersKept(r, c) /\ PullWorkersUsable(c) => PullWorkersUsable(r)
      /\ PullKept(r, c) /\ PullUsable(c) => PullUsable(r)
      /\ PushKept(r, c) /\ PushUsable(c) => PushUsable(r)
  BY DEF FilesKept, FilesUsable, PullWorkersKept, PullWorkersUsable, PullKept, PullUsable,
     PushKept, PushUsable
<1>3. /\ BulkSetKept(r, c) /\ BulkSetUsable(c) => BulkSetUsable(r)
      /\ BulkSetAckKept(r, c) /\ BulkSetAckUsable(c) => BulkSetAckUsable(r)
      /\ CompactionKept(r, c) /\ CompactionUsable(c) => CompactionUsable(r)
  BY DEF BulkSetKept, BulkSetUsable, BulkSetAckKept, BulkSetAckUsable, CompactionKept,
     CompactionUsable
<1> QED
  BY <1>1, <1>2, <1>3

AllUsable(c) ==
  /\ SizesUsable(c) /\ FilesUsable(c) /\ PullWorkersUsable(c) /\ PullUsable(c)
  /\ PushUsable(c) /\ BulkSetUsable(c) /\ BulkSetAckUsable(c) /\ CompactionUsable(c)

\* Every configuration is resolved to a usable one.
LEMMA ResolvedUsable ==
  ASSUME NEW c, Typed(c), c.checksumInterval <= MaxUint32
  PROVE  AllUsable(Resolve(c))
<1>1. PICK c1 : c1 = ResolveFileCap(ResolveMsgs(ResolveMemory(ResolvePageSize(
               ResolveChecksumInterval(ResolveWorkers(ResolveValueCap(ResolveScale(c))))))))
  OBVIOUS
<1>2. PICK c2 : c2 = ResolveFilesAndTombstones(c1)
  OBVIOUS
<1>3. PICK c3 : c3 = ResolvePullWorkers(c2)
  OBVIOUS
<1>4. PICK c4 : c4 = ResolvePullReplication(c3)
  OBVIOUS
<1>5. PICK c5 : c5 = ResolvePushReplication(c4)
  OBVIOUS
<1>6. PICK c6 : c6 = ResolveBulkSet(c5)
  OBVIOUS
<1>7. PICK c7 : c7 = ResolveBulkSetAck(c6)
  OBVIOUS
<1>8. PICK c8 : c8 = ResolveCompaction(c7)
  OBVIOUS
<1>9. PICK c9 : c9 = ResolveDisk(c8)
  OBVIOUS
<1>10. PICK c10 : c10 = ResolveFlusherAndAudit(c9)
  OBVIOUS
<1>11. PICK c11 : c11 = ResolveMem(c10)
  OBVIOUS
<1>12. Resolve(c) = c11
  BY <1>1, <1>2, <1>3, <1>4, <1>5, <1>6, <1>7, <1>8, <1>9, <1>10, <1>11 DEF Resolve
<1>21. Typed(c1) /\ SizesUsable(c1)
  BY <1>1, SizesResolved
<1>22. Typed(c2) /\ SizesUsable(c2) /\ FilesUsable(c2)
  BY <1>2, <1>21, FilesStep, KeptUsable
<1>23. Typed(c3) /\ SizesUsable(c3) /\ FilesUsable(c3) /\ PullWorkersUsable(c3)
  BY <1>3, <1>22, PullWorkersStep, KeptUsable
<1>24. Typed(c4) /\ SizesUsable(c4) /\ FilesUsable(c4) /\ PullWorkersUsable(c4) /\ PullUsable(c4)
  BY <1>4, <1>23, PullStep, KeptUsable
<1>25. /\ Typed(c5) /\ SizesUsable(c5) /\ FilesUsable(c5) /\ PullWorkersUsable(c5) /\ PullUsable(c5)
       /\ PushUsable(c5)
  BY <1>5, <1>24, PushStep, KeptUsable
<1>26. /\ Typed(c6) /\ SizesUsable(c6) /\ FilesUsable(c6) /\ PullWorkersUsable(c6) /\ PullUsable(c6)
       /\ PushUsable(c6) /\ BulkSetUsable(c6)
  BY <1>6, <1>25, BulkSetStep, KeptUsable
<1>27. /\ Typed(c7) /\ SizesUsable(c7) /\ FilesUsable(c7) /\ PullWorkersUsable(c7) /\ PullUsable(c7)
       /\ PushUsable(c7) /\ BulkSetUsable(c7) /\ BulkSetAckUsable(c7)
  BY <1>7, <1>26, BulkSetAckStep, KeptUsable
<1>28. AllUsable(c8)
  BY <1>8, <1>27, CompactionStep, KeptUsable DEF AllUsable
<1>29. AllUsable(c9)
  BY <1>9, <1>28, WatchSteps, KeptUsable DEF AllUsable, RestKept
<1>30. AllUsable(c10)
  BY <1>10, <1>29, WatchSteps, KeptUsable DEF AllUsable, RestKept
<1>31. AllUsable(c11)
  BY <1>11, <1>30, WatchSteps, KeptUsable DEF AllUsable, RestKept
<1> QED
  BY <1>12, <1>31

\* Numbers that are integers, as a user may give them, are what the steps need.
LEMMA ConfigTyped ==
  ASSUME NEW c \in ConfigType
  PROVE  Typed(c)
<1>1. Fields \subseteq DOMAIN c
  BY DEF ConfigType, Fields
<1>2. SizesTyped(c)
  BY DEF ConfigType, SizesTyped
<1>3. FilesTyped(c) /\ PullWorkersTyped(c) /\ PullTyped(c) /\ PushTyped(c)
  BY DEF ConfigType, FilesTyped, PullWorkersTyped, PullTyped, PushTyped
<1>4. BulkSetTyped(c) /\ BulkSetAckTyped(c) /\ CompactionTyped(c)
  BY DEF ConfigType, BulkSetTyped, BulkSetAckTyped, CompactionTyped
<1> QED
  BY <1>1, <1>2, <1>3, <1>4 DEF Typed

\* Whatever numbers a user gives (any integers, with a checksum interval that fits in 32
\* bits), resolveValueStoreConfig makes a configuration of them in which two full pages
\* have a checksum interval of values, any value that is accepted fits in a page and in a
\* file, and no pool is empty and no stage without a worker.  That one full page flushes
\* the one before, as the code wants it, is shown where the interval is no longer than the
\* number of entries of a page only: it is false for longer ones, for instance for 262145
\* bytes with pages of 4 MiB.
THEOREM ConfigurationsAreUsable == Spec => []ConfigurationIsUsable
<1> DEFINE Inv == in.kind = "config" => in.arg \in ConfigInputs
<1>1. Init => Inv
  BY DEF Init
<1>2. Inv /\ [Next]_in => Inv'
  BY DEF Next
<1>3. Inv => ConfigurationIsUsable
  <2> SUFFICES ASSUME in.kind = "config", in.arg \in ConfigInputs
               PROVE  ConfigurationIsUsable
    BY DEF ConfigurationIsUsable, FullPagesFlush, ValuesFit, NothingIsMissing, IsInput
  <2>1. in.arg \in ConfigType /\ in.arg.checksumInterval <= MaxUint32
    BY ConfigAssumption
  <2>2. PICK c : c = Resolve(in.arg)
    OBVIOUS
  <2>3. AllUsable(c)
    BY <2>1, <2>2, ConfigTyped, ResolvedUsable
  <2>4. FullPagesFlush
    BY <2>2, <2>3, PagesFacts DEF FullPagesFlush, AllUsable, SizesUsable
  <2>5. ValuesFit
    BY <2>2, <2>3, PagesFacts DEF ValuesFit, AllUsable, SizesUsable
  <2>6. NothingIsMissing
    BY <2>2, <2>3 DEF NothingIsMissing, AllUsable, SizesUsable, FilesUsable, PullWorkersUsable,
       PullUsable, PushUsable, BulkSetUsable, BulkSetAckUsable, CompactionUsable
  <2> QED
    BY <2>4, <2>5, <2>6 DEF ConfigurationIsUsable
<1> QED
  BY <1>1, <1>2, <1>3, PTL DEF Spec

(***************************************************************************)
(* The audit's search of a value file.                                     *)
(***************************************************************************)

\* The blocks of a file go on past the end of its values.
LEMMA BlocksPastEnd ==
  ASSUME NEW end \in Nat, NEW interval \in Nat \ {0}, NEW blocks \in Nat,
         blocks = (end + interval) \div interval
  PROVE  blocks > 0 /\ blocks * interval > end
<1>1. PICK a \in Nat : a = end + interval
  OBVIOUS
<1>2. PICK m \in Int : m = a % interval
  OBVIOUS
<1>3. a = interval * blocks + m /\ 0 <= m /\ m < interval
  BY <1>1, <1>2
<1>4. interval * blocks > end
  BY <1>1, <1>3
<1>5. blocks # 0
  <2> SUFFICES ASSUME blocks = 0 PROVE FALSE
    OBVIOUS
  <2>1. interval * 0 > end
    BY <1>4
  <2> QED
    BY <2>1
<1>6. interval * blocks = blocks * interval
  OBVIOUS
<1> QED
  BY <1>4, <1>5, <1>6

\* A block is an interval of interval positions.
LEMMA BlockBounds ==
  ASSUME NEW b \in Nat, NEW interval \in Nat \ {0}
  PROVE  b * interval \in Nat /\ (b + 1) * interval = b * interval + interval
  OBVIOUS

\* One end at least of what is no longer than a block and a position is in a block that it
\* reaches, and either end in a block reaches it.
LEMMA EndsHit ==
  ASSUME NEW f \in ValueFileInputs, GoodHeader(f),
         NEW o \in Nat, NEW l \in Nat, o # 0, l # 0, o + l <= f.end, l <= f.interval + 1
  PROVE  InCorruptRange(o, l, ChecksumVerify(f))
           <=> \E b \in f.corrupt : o < (b + 1) * f.interval /\ o + l > b * f.interval
<1>1. /\ f.interval \in Nat \ {0} /\ f.end \in Nat /\ f.blocks \in Nat /\ f.corrupt \in SUBSET Nat
      /\ f.blocks = (f.end + f.interval) \div f.interval
  BY ValueFileAssumption
<1>2. f.blocks > 0 /\ f.blocks * f.interval > f.end
  BY <1>1, BlocksPastEnd
<1> DEFINE BadRange(b) == [start |-> b * f.interval, stop |-> (b + 1) * f.interval - 1]
           Last == [start |-> f.blocks * f.interval, stop |-> MaxStop]
           Has(c) == \/ o >= c.start /\ o <= c.stop
                     \/ o + l - 1 >= c.start /\ o + l - 1 <= c.stop
           Hit(b) == o < (b + 1) * f.interval /\ o + l > b * f.interval
<1>3. ChecksumVerify(f) = {BadRange(b) : b \in f.corrupt} \cup {Last}
  BY <1>1, <1>2 DEF ChecksumVerify
<1>4. InCorruptRange(o, l, ChecksumVerify(f)) <=> \E c \in ChecksumVerify(f) : Has(c)
  BY DEF InCorruptRange
<1>5. ~Has(Last)
  <2>1. Last.start = f.blocks * f.interval
    OBVIOUS
  <2>2. PICK s : s = f.blocks * f.interval
    OBVIOUS
  <2>3. s \in Nat /\ s > f.end
    BY <2>2, <1>1, <1>2
  <2>4. ~(o >= s) /\ ~(o + l - 1 >= s)
    BY <2>3, <1>1
  <2> QED
    BY <2>1, <2>2, <2>4
<1>6. ASSUME NEW b \in f.corrupt
      PROVE  Has(BadRange(b)) <=> Hit(b)
  <2>1. b \in Nat
    BY <1>1
  <2>2. PICK n \in Nat \ {0} : n = f.interval
    BY <1>1
  <2>3. b * n \in Nat /\ (b + 1) * n = b * n + n
    BY <2>1, BlockBounds
  <2>4. PICK s \in Nat : s = b * n
    BY <2>3
  <2>5. BadRange(b).start = s /\ BadRange(b).stop = s + n - 1 /\ (b + 1) * f.interval = s + n
    BY <2>2, <2>3, <2>4
  <2>6. (\/ o >= s /\ o <= s + n - 1
         \/ o + l - 1 >= s /\ o + l - 1 <= s + n - 1)
        <=> o < s + n /\ o + l > s
    BY <2>2
  <2> QED
    BY <2>2, <2>4, <2>5, <2>6
<1>7. (\E c \in ChecksumVerify(f) : Has(c)) <=> \E b \in f.corrupt : Has(BadRange(b))
  <2> HIDE DEF Has, BadRange, Last
  <2> QED
    BY <1>3, <1>5
<1> HIDE DEF Has, BadRange
<1>8. (\E b \in f.corrupt : Has(BadRange(b))) <=> \E b \in f.corrupt : Hit(b)
  BY <1>6
<1> QED
  BY <1>4, <1>7, <1>8

\* In a file of whole blocks, whichever of them have a bad checksum, valueInCorruptRange
\* is true of a value of up to a checksum interval and a byte exactly if one of its bytes
\* is in a bad block; looking at both ends of the value is enough, and what follows the
\* last block, which valueChecksumVerify adds as a bad range, is beyond all values.
THEOREM AuditFindsCorruptValues == Spec => []CorruptValuesAreFound
<1> DEFINE Inv == in.kind = "file" => in.arg \in ValueFileInputs
<1>1. Init => Inv
  BY DEF Init
<1>2. Inv /\ [Next]_in => Inv'
  BY DEF Next
<1>3. Inv => CorruptValuesAreFound
  <2> SUFFICES ASSUME in.kind = "file", in.arg \in ValueFileInputs, GoodHeader(in.arg),
                      NEW o \in Header..in.arg.end - 1, NEW l \in 1..(in.arg.interval + 1),
                      o + l <= in.arg.end
               PROVE  InCorruptRange(o, l, ChecksumVerify(in.arg))
                        <=> \E b \in in.arg.corrupt :
                              o < (b + 1) * in.arg.interval /\ o + l > b * in.arg.interval
    BY DEF CorruptValuesAreFound, IsInput
  <2>1. PICK f \in ValueFileInputs : f = in.arg
    OBVIOUS
  <2>2. f.interval \in Nat /\ f.end \in Nat
    BY ValueFileAssumption
  <2>3. o \in Nat /\ l \in Nat /\ o # 0 /\ l # 0 /\ l <= f.interval + 1
    BY <2>1, <2>2 DEF Header
  <2> QED
    BY <2>1, <2>3, EndsHit
<1> QED
  BY <1>1, <1>2, <1>3, PTL DEF Spec

(***************************************************************************)
(* Numbers: induction over a set, which the definition of a recursive      *)
(* function needs, powers of two, and quotients.                           *)
(***************************************************************************)

\* A set of natural numbers that is not empty has a least element: of the intervals from 0
\* to its elements, one has no other within it.
LEMMA LeastElement ==
  ASSUME NEW T \in SUBSET Nat, T # {}
  PROVE  \E n \in T : \A m \in T : n <= m
<1> DEFINE Upto == {0..n : n \in T}
           R == StrictSubsetOrdering(Nat)
<1>1. Upto \subseteq FiniteSubsetsOf(Nat) /\ Upto # {}
  <2>1. ASSUME NEW n \in T PROVE IsFiniteSet(0..n) /\ 0..n \in SUBSET Nat
    BY FS_Interval
  <2> QED
    BY <2>1 DEF FiniteSubsetsOf
<1>2. IsWellFoundedOn(R, FiniteSubsetsOf(Nat))
  BY FS_StrictSubsetOrderingWellFounded
<1>3. \E x \in Upto : \A y \in Upto : ~(<<y, x>> \in R)
  <2> HIDE DEF R, Upto
  <2> QED
    BY <1>1, <1>2, WFMin
<1>4. PICK n \in T : \A m \in T : ~(<<0..m, 0..n>> \in R)
  BY <1>3
<1>5. ASSUME NEW m \in T, ~(n <= m) PROVE FALSE
  <2>1. 0..m \subseteq 0..n /\ n \in 0..n /\ n \notin 0..m
    BY <1>5
  <2>2. 0..m \in SUBSET Nat /\ 0..n \in SUBSET Nat
    OBVIOUS
  <2>3. <<0..m, 0..n>> \in R
    BY <2>1, <2>2 DEF StrictSubsetOrdering
  <2> QED
    BY <2>3, <1>4
<1> QED
  BY <1>5

\* Induction, on a set.
LEMMA SetInduction ==
  ASSUME NEW S, 0 \in S, \A n \in Nat : n \in S => n + 1 \in S
  PROVE  Nat \subseteq S
<1>1. SUFFICES ASSUME Nat \ S # {} PROVE FALSE
  OBVIOUS
<1>2. PICK n \in Nat \ S : \A m \in Nat \ S : n <= m
  BY <1>1, LeastElement
<1>3. n # 0 /\ n - 1 \in Nat /\ (n - 1) + 1 = n /\ ~(n <= n - 1)
  OBVIOUS
<1>4. n - 1 \in S
  BY <1>2, <1>3
<1> QED
  BY <1>3, <1>4

Pairs(A, B) == (SUBSET A) \X (SUBSET B)
\* A subset of a union of disjoint sets is a pair of subsets.
LEMMA SubsetsOfUnion ==
  ASSUME NEW A, NEW B, A \cap B = {}
  PROVE  ExistsBijection(SUBSET (A \cup B), Pairs(A, B))
<1> DEFINE f == [X \in SUBSET (A \cup B) |-> <<X \cap A, X \cap B>>]
<1>1. f \in Bijection(SUBSET (A \cup B), Pairs(A, B))
  <2>1. f \in [SUBSET (A \cup B) -> Pairs(A, B)]
    BY DEF Pairs
  <2>2. ASSUME NEW X \in SUBSET (A \cup B), NEW Y \in SUBSET (A \cup B), f[X] = f[Y] PROVE X = Y
    <3>1. X \cap A = Y \cap A /\ X \cap B = Y \cap B
      BY <2>2
    <3> QED
      BY <3>1
  <2>3. ASSUME NEW z \in Pairs(A, B) PROVE \E X \in SUBSET (A \cup B) : f[X] = z
    <3>1. PICK C \in SUBSET A, D \in SUBSET B : z = <<C, D>>
      BY DEF Pairs
    <3>2. (C \cup D) \cap A = C /\ (C \cup D) \cap B = D /\ C \cup D \in SUBSET (A \cup B)
      OBVIOUS
    <3> QED
      BY <3>1, <3>2
  <2> QED
    BY <2>1, <2>2, <2>3 DEF Bijection, Injection, Surjection, IsInjective
<1> QED
  BY <1>1 DEF ExistsBijection

\* 2^n is the number of subsets of 1..n ...
LEMMA PowerOfTwo ==
  ASSUME NEW n \in Nat PROVE 2^n \in Nat \ {0}
<1>1. IsFiniteSet(1..n) /\ Cardinality(1..n) = n
  BY FS_Interval
<1>2. IsFiniteSet(SUBSET (1..n)) /\ Cardinality(SUBSET (1..n)) = 2^n
  BY <1>1, FS_SUBSET
<1>3. Cardinality(SUBSET (1..n)) \in Nat
  BY <1>2, FS_CardinalityType
<1>4. Cardinality(SUBSET (1..n)) # 0
  <2>1. 1..n \in SUBSET (1..n)
    OBVIOUS
  <2> QED
    BY <1>2, <2>1, FS_EmptySet
<1> QED
  BY <1>2, <1>3, <1>4

\* ... and so the product of powers is that of the sum.
LEMMA PowerOfSum ==
  ASSUME NEW a \in Nat, NEW b \in Nat
  PROVE  2^(a + b) = 2^a * 2^b
<1> DEFINE A == 1..a
           B == (a + 1)..(a + b)
<1>1. IsFiniteSet(A) /\ Cardinality(A) = a
  BY FS_Interval
<1>2. IsFiniteSet(B) /\ Cardinality(B) = b
  <2>1. PICK x, y \in Int : x = a + 1 /\ y = a + b
    OBVIOUS
  <2>2. IsFiniteSet(x..y) /\ Cardinality(x..y) = IF x > y THEN 0 ELSE y - x + 1
    BY FS_Interval
  <2> QED
    BY <2>1, <2>2
<1>3. A \cap B = {}
  OBVIOUS
<1>4. A \cup B = 1..(a + b)
  OBVIOUS
<1>5. IsFiniteSet(A \cup B) /\ Cardinality(A \cup B) = a + b
  <2>1. PICK y \in Nat : y = a + b
    OBVIOUS
  <2>2. IsFiniteSet(1..y) /\ Cardinality(1..y) = y
    BY FS_Interval
  <2> HIDE DEF A, B
  <2> QED
    BY <1>4, <2>1, <2>2
<1> HIDE DEF A, B
<1>6. IsFiniteSet(SUBSET A) /\ Cardinality(SUBSET A) = 2^a
  BY <1>1, FS_SUBSET
<1>7. IsFiniteSet(SUBSET B) /\ Cardinality(SUBSET B) = 2^b
  BY <1>2, FS_SUBSET
<1>8. IsFiniteSet(SUBSET (A \cup B)) /\ Cardinality(SUBSET (A \cup B)) = 2^(a + b)
  BY <1>5, FS_SUBSET
<1>9. Cardinality(Pairs(A, B)) = 2^a * 2^b
  BY <1>6, <1>7, FS_Product DEF Pairs
<1>10. Cardinality(SUBSET (A \cup B)) = Cardinality(Pairs(A, B))
  BY <1>3, <1>8, SubsetsOfUnion, FS_Bijection
<1> QED
  BY <1>8, <1>9, <1>10

\* Products are monotone.
LEMMA Monotone ==
  ASSUME NEW q \in Nat, NEW a \in Nat, NEW b \in Nat, a <= b
  PROVE  q * a \in Nat /\ q * a <= q * b
<1>1. PICK d \in Nat : b = a + d
  <2>1. b - a \in Nat /\ b = a + (b - a)
    OBVIOUS
  <2> QED
    BY <2>1
<1>2. q * a \in Nat /\ q * d \in Nat
  OBVIOUS
<1>3. q * b = q * a + q * d
  BY <1>1
<1> QED
  BY <1>2, <1>3

\* A quotient by the multiples that it is between.
LEMMA QuotientIs ==
  ASSUME NEW k \in Nat, NEW S \in Nat \ {0}, NEW p \in Nat
  PROVE  /\ k \div S \in Nat
         /\ k \div S = p <=> S * p <= k /\ k < S * p + S
<1>1. PICK d \in Int, m \in Int : d = k \div S /\ m = k % S
  OBVIOUS
<1>2. k = S * d + m /\ 0 <= m /\ m < S
  BY <1>1
<1>3. d \in Nat
  <2> SUFFICES ASSUME d <= -1 PROVE FALSE
    OBVIOUS
  <2>1. PICK z \in Nat : z + 1 = -d
    <3>1. -d - 1 \in Nat /\ (-d - 1) + 1 = -d
      OBVIOUS
    <3> QED
      BY <3>1
  <2>2. S * z \in Nat /\ S * d = -(S * z) - S
    BY <2>1
  <2> QED
    BY <1>2, <2>2
<1>4. S * d \in Nat /\ S * p \in Nat
  BY <1>3
<1>5. ASSUME d + 1 <= p PROVE k < S * p
  <2>1. S * (d + 1) <= S * p /\ S * (d + 1) = S * d + S
    BY <1>3, <1>5, Monotone
  <2> QED
    BY <1>2, <1>4, <2>1
<1>6. ASSUME p + 1 <= d PROVE k >= S * p + S
  <2>1. S * (p + 1) <= S * d /\ S * (p + 1) = S * p + S
    BY <1>3, <1>6, Monotone
  <2> QED
    BY <1>2, <1>4, <2>1
<1>7. d = p \/ d + 1 <= p \/ p + 1 <= d
  BY <1>3
<1>8. d = p <=> S * p <= k /\ k < S * p + S
  <2>1. ASSUME d = p PROVE S * p <= k /\ k < S * p + S
    BY <1>2, <1>4, <2>1
  <2>2. ASSUME S * p <= k, k < S * p + S PROVE d = p
    BY <1>4, <1>5, <1>6, <1>7, <2>2
  <2> QED
    BY <2>1, <2>2
<1> QED
  BY <1>1, <1>3, <1>8

\* So does the remainder.
LEMMA RemainderIs ==
  ASSUME NEW k \in Nat, NEW S \in Nat \ {0}, NEW p \in Nat, S * p <= k, k < S * p + S
  PROVE  k % S = k - S * p
<1>1. PICK d \in Int, m \in Int : d = k \div S /\ m = k % S
  OBVIOUS
<1>2. k = S * d + m
  BY <1>1
<1>3. d = p
  BY <1>1, QuotientIs
<1>4. k = S * p + m /\ S * p \in Nat
  BY <1>2, <1>3
<1> QED
  BY <1>1, <1>4

(***************************************************************************)
(* How the key space is shared out.                                        *)
(***************************************************************************)

\* What is left of a word that fits, and of one that has wrapped once.
LEMMA Words ==
  /\ 2^Bits \in Nat /\ 2^Bits >= 2 /\ MaxWord \in Nat /\ MaxWord = 2^Bits - 1
  /\ \A x \in 0..MaxWord : Word(x) = x
  /\ Word(-1) = MaxWord /\ Word(2^Bits) = 0
<1>1. PICK m \in Nat \ {0} : m = 2^Bits
  BY BitsAssumption, PowerOfTwo
<1>2. m >= 2
  <2>1. PICK n \in Nat : n + 1 = Bits
    <3>1. Bits - 1 \in Nat /\ (Bits - 1) + 1 = Bits
      BY BitsAssumption
    <3> QED
      BY <3>1
  <2>2. 2^n \in Nat \ {0} /\ 2^(n + 1) = 2^n * 2^1
    BY <2>1, PowerOfTwo, PowerOfSum
  <2>3. 2^1 = 2
    OBVIOUS
  <2>4. m = 2^n * 2
    BY <1>1, <2>1, <2>2, <2>3
  <2> QED
    BY <2>2, <2>4
<1>3. \A x \in 0..(m - 1) : x % m = x
  BY <1>1
<1>4. (-1) % m = m - 1
  BY <1>1
<1>5. m % m = 0
  BY <1>1
<1> QED
  BY <1>1, <1>2, <1>3, <1>4, <1>5 DEF Word, MaxWord

\* A partition has as many keys as the bits right of it can tell apart.
LEMMA PartitionSize ==
  ASSUME NEW pbc \in 0..Bits
  PROVE  /\ 2^pbc \in Nat \ {0} /\ 2^(Bits - pbc) \in Nat \ {0}
         /\ 2^Bits = 2^pbc * 2^(Bits - pbc)
         /\ pbc > 0 => 2^(Bits - pbc) <= MaxWord
<1>1. PICK a, b \in Nat : a = pbc /\ b = Bits - pbc /\ a + b = Bits
  <2>1. pbc \in Nat /\ Bits - pbc \in Nat /\ pbc + (Bits - pbc) = Bits
    BY BitsAssumption
  <2> QED
    BY <2>1
<1>2. 2^a \in Nat \ {0} /\ 2^b \in Nat \ {0} /\ 2^Bits = 2^a * 2^b
  BY <1>1, PowerOfTwo, PowerOfSum
<1>3. ASSUME a > 0 PROVE 2^b <= MaxWord
  <2>1. PICK n \in Nat : n + 1 = a
    <3>1. a - 1 \in Nat /\ (a - 1) + 1 = a
      BY <1>3
    <3> QED
      BY <3>1
  <2>2. 2^n \in Nat \ {0} /\ 2^(n + 1) = 2^n * 2^1
    BY PowerOfTwo, PowerOfSum
  <2>3. 2^1 = 2
    OBVIOUS
  <2>4. PICK P \in Nat, S \in Nat \ {0} : P = 2^a /\ S = 2^b
    BY <1>2
  <2>5. P >= 2
    BY <2>1, <2>2, <2>3, <2>4
  <2>6. S * 2 <= S * P
    BY <2>4, <2>5, Monotone
  <2>7. S * P = P * S
    BY <2>4
  <2> QED
    BY <1>2, <2>4, <2>6, <2>7, Words
<1> QED
  BY <1>1, <1>2, <1>3

\* The pieces of a partition: with no more workers than keys, none is empty.
LEMMA PieceBounds ==
  ASSUME NEW S \in Nat \ {0}, NEW ws \in Nat \ {0}, ws <= S
  PROVE  /\ S \div ws \in Nat \ {0}
         /\ (S \div ws) * ws <= S
<1>1. PICK q \in Int, m \in Int : q = S \div ws /\ m = S % ws
  OBVIOUS
<1>2. S = ws * q + m /\ 0 <= m /\ m < ws
  BY <1>1
<1>3. q >= 1
  <2> SUFFICES ASSUME q <= 0 PROVE FALSE
    BY <1>1
  <2>1. PICK z \in Nat : z = -q
    OBVIOUS
  <2>2. ws * z \in Nat /\ ws * q = -(ws * z)
    BY <2>1
  <2> QED
    BY <1>2, <2>2
<1>4. ws * q = q * ws
  BY <1>1
<1> QED
  BY <1>1, <1>2, <1>3, <1>4

\* The partitions follow each other up to the end of the key space.
LEMMA PartitionEnds ==
  ASSUME NEW pbc \in 1..Bits, NEW p \in 0..(2^pbc - 1), NEW S, S = 2^(Bits - pbc)
  PROVE  /\ p * S \in Nat /\ p * S + S <= 2^Bits /\ (p + 1) * S = p * S + S
         /\ p # 2^pbc - 1 => p * S + S < 2^Bits
         /\ p = 2^pbc - 1 => p * S + S = 2^Bits
         /\ S \in Nat \ {0} /\ S <= MaxWord
<1>1. PICK P \in Nat \ {0} : P = 2^pbc /\ 2^Bits = P * S /\ S \in Nat \ {0} /\ S <= MaxWord
  BY PartitionSize
<1>2. p \in Nat /\ p + 1 \in Nat /\ p + 1 <= P
  BY <1>1
<1>3. p * S = S * p /\ (p + 1) * S = S * (p + 1) /\ P * S = S * P /\ S * (p + 1) = S * p + S
  BY <1>1, <1>2
<1>4. S * p \in Nat /\ S * (p + 1) <= S * P
  BY <1>1, <1>2, Monotone
<1>5. ASSUME p + 1 # P PROVE S * p + S < S * P
  <2>1. p + 1 + 1 <= P /\ S * (p + 1 + 1) = S * p + S + S
    BY <1>1, <1>2, <1>5
  <2>2. S * (p + 1 + 1) <= S * P
    BY <1>1, <1>2, <2>1, Monotone
  <2>3. S * p \in Nat /\ S * P \in Nat
    BY <1>1, <1>2
  <2> QED
    BY <1>1, <2>1, <2>2, <2>3
<1>6. p = P - 1 <=> p + 1 = P
  BY <1>1, <1>2
<1> QED
  BY <1>1, <1>2, <1>3, <1>4, <1>5, <1>6

\* Where the pieces of a partition begin and end, wrapping left out.
LEMMA PieceEnds ==
  ASSUME NEW pbc \in 1..Bits, NEW p \in 0..(2^pbc - 1), NEW S, S = 2^(Bits - pbc),
         NEW ws \in Nat \ {0}, ws <= S, NEW w \in 0..(ws - 1), NEW q, q = S \div ws
  PROVE  /\ RangeBegin(Bits - pbc, ws, p, w) = p * S + q * w
         /\ RangeEnd(Bits - pbc, 2^pbc - 1, ws, p, w)
              = IF w # ws - 1 THEN p * S + q * (w + 1) - 1 ELSE p * S + S - 1
<1>1. PICK z \in Nat : z = p * S
  BY PartitionEnds
<1>2. /\ z + S <= 2^Bits /\ (p + 1) * S = z + S
      /\ p # 2^pbc - 1 => z + S < 2^Bits
      /\ p = 2^pbc - 1 => z + S = 2^Bits
      /\ S \in Nat \ {0} /\ S <= MaxWord
  BY <1>1, PartitionEnds
<1>3. q \in Nat \ {0} /\ q * ws <= S
  BY <1>2, PieceBounds
<1>4. PICK m \in Nat : m = 2^Bits /\ MaxWord = m - 1
  BY Words
<1>5. Shl(p, Bits - pbc) = z /\ Shl(1, Bits - pbc) = S
  <2>1. z \in 0..MaxWord /\ S \in 0..MaxWord
    BY <1>1, <1>2, <1>4
  <2>2. 1 * S = S
    BY <1>2
  <2> QED
    BY <1>1, <2>1, <2>2, Words DEF Shl
<1>6. q * w \in Nat /\ q * (w + 1) = q * w + q /\ q * (w + 1) <= S
  <2>1. q * (w + 1) <= q * ws
    BY <1>3, Monotone
  <2>2. q * w \in Nat /\ q * (w + 1) = q * w + q /\ q * ws \in Nat
    BY <1>3
  <2> QED
    BY <1>2, <1>3, <2>1, <2>2
<1>7. RangeBegin(Bits - pbc, ws, p, w) = z + q * w
  <2>1. z + q * w \in 0..MaxWord
    BY <1>1, <1>2, <1>3, <1>4, <1>6
  <2> QED
    BY <1>5, <2>1, Words DEF RangeBegin
<1>8. ASSUME w # ws - 1
      PROVE  RangeEnd(Bits - pbc, 2^pbc - 1, ws, p, w) = z + q * (w + 1) - 1
  <2>1. z + q * (w + 1) - 1 \in 0..MaxWord
    BY <1>1, <1>2, <1>3, <1>4, <1>6
  <2> QED
    BY <1>5, <1>8, <2>1, Words DEF RangeEnd
<1>9. ASSUME w = ws - 1, p # 2^pbc - 1
      PROVE  RangeEnd(Bits - pbc, 2^pbc - 1, ws, p, w) = z + S - 1
  <2>1. z + S \in 0..MaxWord /\ z + S - 1 \in 0..MaxWord
    BY <1>1, <1>2, <1>4, <1>9
  <2>2. Shl(p + 1, Bits - pbc) = z + S
    BY <1>2, <2>1, Words DEF Shl
  <2> QED
    BY <1>9, <2>1, <2>2, Words DEF RangeEnd
<1>10. ASSUME w = ws - 1, p = 2^pbc - 1
       PROVE  RangeEnd(Bits - pbc, 2^pbc - 1, ws, p, w) = z + S - 1
  BY <1>2, <1>4, <1>10 DEF RangeEnd
<1> QED
  BY <1>1, <1>7, <1>8, <1>9, <1>10

\* A key of the partition is in a worker's piece by its place in the partition.
LEMMA KeysByPlace ==
  ASSUME NEW pbc \in 1..Bits, NEW p \in 0..(2^pbc - 1), NEW S, S = 2^(Bits - pbc),
         NEW z, z = p * S, NEW ws \in Nat \ {0}, ws <= S, NEW q, q = S \div ws
  PROVE  /\ KeysOfPartition(pbc, p) = {k \in 0..MaxWord : z <= k /\ k < z + S}
         /\ \A w \in 0..(ws - 1) :
              WorkerKeys(pbc, ws, p, w)
                = {k \in 0..MaxWord :
                     z + q * w <= k /\ k < z + (IF w # ws - 1 THEN q * (w + 1) ELSE S)}
<1>1. z \in Nat /\ S \in Nat \ {0} /\ MaxWord \in Nat /\ p \in Nat /\ q \in Nat \ {0}
  <2>1. z \in Nat /\ S \in Nat \ {0}
    BY PartitionEnds
  <2>2. 2^pbc \in Nat
    BY PartitionSize
  <2> QED
    BY <2>1, <2>2, PieceBounds, Words
<1>2. S * p = z
  BY <1>1
<1>3. pbc # NoRing
  BY DEF NoRing
<1>4. KeysOfPartition(pbc, p) = {k \in 0..MaxWord : k \div S = p}
  BY <1>3 DEF KeysOfPartition
<1>5. \A k \in 0..MaxWord : k \div S = p <=> z <= k /\ k < z + S
  BY <1>1, <1>2, QuotientIs
<1>6. ASSUME NEW w \in 0..(ws - 1)
      PROVE  WorkerKeys(pbc, ws, p, w)
                = {k \in 0..MaxWord :
                     z + q * w <= k /\ k < z + (IF w # ws - 1 THEN q * (w + 1) ELSE S)}
  <2>1. PICK b, e : /\ b = RangeBegin(Bits - pbc, ws, p, w)
                    /\ e = RangeEnd(Bits - pbc, 2^pbc - 1, ws, p, w)
    OBVIOUS
  <2>2. b = z + q * w /\ e = IF w # ws - 1 THEN z + q * (w + 1) - 1 ELSE z + S - 1
    BY <2>1, PieceEnds
  <2>3. WorkerKeys(pbc, ws, p, w) = {k \in 0..MaxWord : b <= k /\ k <= e}
    BY <1>3, <2>1 DEF WorkerKeys, KeysOf, Shift, PartitionMax
  <2>4. PICK u \in Nat, v \in Nat : u = q * w /\ v = q * (w + 1)
    BY <1>1
  <2>5. PICK t \in Nat : t = IF w # ws - 1 THEN q * (w + 1) ELSE S
    BY <1>1, <2>4
  <2>6. b = z + u /\ e = z + t - 1
    BY <2>2, <2>4, <2>5
  <2>7. ASSUME NEW k \in 0..MaxWord
        PROVE  b <= k /\ k <= e <=> z + u <= k /\ k < z + t
    BY <1>1, <2>6
  <2> QED
    BY <2>3, <2>4, <2>5, <2>7
<1> QED
  BY <1>4, <1>5, <1>6

\* The place r of a partition of S keys is in the piece of worker w.
InPiece(q, S, ws, w, r) == q * w <= r /\ r < IF w # ws - 1 THEN q * (w + 1) ELSE S

\* The pieces of a partition are one after the other, and the last goes on to its end.
LEMMA OneTaker ==
  ASSUME NEW S \in Nat \ {0}, NEW ws \in Nat \ {0}, ws <= S, NEW q, q = S \div ws,
         NEW r \in 0..(S - 1)
  PROVE  \E t \in 0..(ws - 1) :
           \A w \in 0..(ws - 1) : w = t <=> InPiece(q, S, ws, w, r)
<1>1. q \in Nat \ {0} /\ q * ws <= S
  BY PieceBounds
<1>2. PICK d \in Nat : d = r \div q /\ q * d <= r /\ r < q * d + q
  <2>1. r \div q \in Nat
    BY <1>1, QuotientIs
  <2> QED
    BY <1>1, <2>1, QuotientIs
<1> DEFINE t == IF d < ws - 1 THEN d ELSE ws - 1
<1>3. t \in 0..(ws - 1)
  OBVIOUS
<1>4. q * t <= r /\ r < IF t # ws - 1 THEN q * (t + 1) ELSE S
  <2>1. q * t <= q * d /\ q * t \in Nat /\ q * d \in Nat
    BY <1>1, Monotone
  <2>2. CASE d < ws - 1
    <3>1. q * (d + 1) = q * d + q
      BY <1>1
    <3> QED
      BY <1>2, <2>2, <3>1
  <2>3. CASE ~(d < ws - 1)
    BY <1>2, <2>1, <2>3
  <2> QED
    BY <2>2, <2>3
<1>5. ASSUME NEW w \in 0..(ws - 1), q * w <= r, r < IF w # ws - 1 THEN q * (w + 1) ELSE S
      PROVE  w = t
  <2> HIDE DEF t
  <2>1. CASE w < t
    <3>1. q * (w + 1) <= q * t /\ q * (w + 1) \in Nat /\ q * t \in Nat /\ w # ws - 1
      BY <1>1, <1>3, <2>1, Monotone
    <3> QED
      BY <1>4, <1>5, <3>1
  <2>2. CASE t < w
    <3>1. q * (t + 1) <= q * w /\ q * (t + 1) \in Nat /\ q * w \in Nat /\ t # ws - 1
      BY <1>1, <1>3, <2>2, Monotone
    <3> QED
      BY <1>4, <1>5, <3>1
  <2> QED
    BY <1>3, <2>1, <2>2
<1> HIDE DEF t
<1>6. \A w \in 0..(ws - 1) : w = t <=> InPiece(q, S, ws, w, r)
  BY <1>3, <1>4, <1>5 DEF InPiece
<1> QED
  BY <1>3, <1>6

\* Where there are several partitions, each of their keys has one worker, and a worker stays in.
LEMMA PartitionShared ==
  ASSUME NEW pbc \in 1..Bits, NEW ws \in Nat \ {0}, ws <= 2^(Bits - pbc),
         NEW p \in 0..(2^pbc - 1)
  PROVE  /\ \A k \in KeysOfPartition(pbc, p) :
              Cardinality({w \in 0..ws - 1 : k \in WorkerKeys(pbc, ws, p, w)}) = 1
         /\ \A w \in 0..ws - 1 : WorkerKeys(pbc, ws, p, w) \subseteq KeysOfPartition(pbc, p)
<1>1. PICK S, z, q : S = 2^(Bits - pbc) /\ z = p * S /\ q = S \div ws
  OBVIOUS
<1>2. S \in Nat \ {0} /\ z \in Nat /\ z + S <= 2^Bits /\ MaxWord \in Nat /\ q \in Nat \ {0}
      /\ q * ws <= S
  BY <1>1, PartitionEnds, PieceBounds, Words
<1> DEFINE To(w) == IF w # ws - 1 THEN q * (w + 1) ELSE S
<1>3. KeysOfPartition(pbc, p) = {k \in 0..MaxWord : z <= k /\ k < z + S}
  BY <1>1, KeysByPlace
<1>4. \A w \in 0..(ws - 1) :
        WorkerKeys(pbc, ws, p, w) = {k \in 0..MaxWord : z + q * w <= k /\ k < z + To(w)}
  BY <1>1, KeysByPlace
<1>5. ASSUME NEW k \in KeysOfPartition(pbc, p)
      PROVE  Cardinality({w \in 0..ws - 1 : k \in WorkerKeys(pbc, ws, p, w)}) = 1
  <2>1. PICK r \in 0..(S - 1) : k = z + r
    <3>1. k \in Nat /\ z <= k /\ k < z + S
      BY <1>2, <1>3
    <3>2. k - z \in 0..(S - 1) /\ k = z + (k - z)
      BY <1>2, <3>1
    <3> QED
      BY <3>2
  <2>2. PICK t \in 0..(ws - 1) : \A w \in 0..(ws - 1) : w = t <=> InPiece(q, S, ws, w, r)
    <3>1. ws <= S
      BY <1>1
    <3> QED
      BY <1>1, <1>2, <3>1, OneTaker
  <2>3. ASSUME NEW w \in 0..(ws - 1)
        PROVE  k \in WorkerKeys(pbc, ws, p, w) <=> w = t
    <3>1. PICK u \in Nat, v \in Nat : u = q * w /\ v = To(w)
      BY <1>2
    <3>2. z + u <= k /\ k < z + v <=> u <= r /\ r < v
      BY <1>2, <2>1
    <3>3. k \in 0..MaxWord
      BY <1>3
    <3>30. InPiece(q, S, ws, w, r) <=> u <= r /\ r < v
      BY <3>1 DEF InPiece
    <3> HIDE DEF To
    <3>4. k \in WorkerKeys(pbc, ws, p, w) <=> z + u <= k /\ k < z + v
      BY <1>4, <3>1, <3>3
    <3> QED
      BY <2>2, <3>2, <3>30, <3>4
  <2>4. {w \in 0..ws - 1 : k \in WorkerKeys(pbc, ws, p, w)} = {t}
    BY <2>3
  <2> QED
    BY <2>4, FS_Singleton
<1>6. ASSUME NEW w \in 0..(ws - 1)
      PROVE  WorkerKeys(pbc, ws, p, w) \subseteq KeysOfPartition(pbc, p)
  <2>1. PICK u \in Nat, v \in Nat : u = q * w /\ v = To(w)
    BY <1>2
  <2>2. v <= S
    <3>1. q * (w + 1) <= q * ws
      BY <1>2, Monotone
    <3>2. q * (w + 1) \in Nat /\ q * ws \in Nat
      BY <1>2
    <3> QED
      BY <1>2, <2>1, <3>1, <3>2
  <2> HIDE DEF To
  <2>3. WorkerKeys(pbc, ws, p, w) = {k \in 0..MaxWord : z + u <= k /\ k < z + v}
    BY <1>4, <2>1
  <2> QED
    BY <1>2, <1>3, <2>1, <2>2, <2>3
<1> QED
  BY <1>5, <1>6

\* Where there is one partition, or no ring, a piece wraps to all keys.
LEMMA EveryoneTakesAll ==
  ASSUME NEW pbc \in {NoRing, 0}, NEW ws \in Nat \ {0}, NEW w \in 0..(ws - 1)
  PROVE  /\ PartitionMax(pbc) = 0
         /\ WorkerKeys(pbc, ws, 0, w) = 0..MaxWord
         /\ KeysOfPartition(pbc, 0) = 0..MaxWord
<1>1. PICK m \in Nat : m = 2^Bits /\ m >= 2 /\ MaxWord = m - 1
  BY Words
<1>2. 2^0 = 1 /\ Bits - 0 = Bits
  BY BitsAssumption
<1>3. PartitionMax(pbc) = 0
  <2>1. CASE pbc = NoRing
    BY <2>1 DEF PartitionMax
  <2>2. CASE pbc = 0
    BY <1>2, <2>2 DEF PartitionMax, NoRing
  <2> QED
    BY <2>1, <2>2
<1>4. PICK s, one : s = Shift(pbc) /\ one = Shl(1, s)
  OBVIOUS
<1>5. 2^s \in Nat
  BY <1>2, <1>4, BitsAssumption, PowerOfTwo DEF Shift, NoRing
<1>6. Shl(0, s) = 0
  BY <1>1, <1>5, Words DEF Shl
<1>7. one \in {0, 1} /\ (pbc = 0 => one = 0)
  <2>1. CASE pbc = NoRing
    <3>1. s = 0
      BY <1>4, <2>1 DEF Shift
    <3>2. one = Word(1)
      BY <1>2, <1>4, <3>1 DEF Shl
    <3> QED
      BY <1>1, <2>1, <3>2, Words DEF NoRing
  <2>2. CASE pbc = 0
    <3>1. s = Bits
      BY <1>2, <1>4, <2>2 DEF Shift, NoRing
    <3>2. one = Word(2^Bits)
      BY <1>1, <1>4, <3>1 DEF Shl
    <3> QED
      BY <3>2, Words
  <2> QED
    BY <2>1, <2>2
<1>8. PICK q : q = one \div ws
  OBVIOUS
<1>9. q \in {0, 1} /\ (ws # 1 => q = 0)
  <2>1. CASE one = 0
    <3>1. q = 0
      <4>1. ws * 0 <= 0 /\ 0 < ws * 0 + ws
        OBVIOUS
      <4> QED
        BY <1>8, <2>1, <4>1, QuotientIs
    <3> QED
      BY <3>1
  <2>2. CASE one = 1 /\ ws # 1
    <3>1. q = 0
      <4>1. ws * 0 <= 1 /\ 1 < ws * 0 + ws
        BY <2>2
      <4> QED
        BY <1>8, <2>2, <4>1, QuotientIs
    <3> QED
      BY <3>1
  <2>3. CASE one = 1 /\ ws = 1
    BY <1>8, <2>3
  <2> QED
    BY <1>7, <2>1, <2>2, <2>3
<1>10. RangeBegin(s, ws, 0, w) = 0
  <2>1. q * w = 0
    BY <1>9
  <2> QED
    BY <1>1, <1>4, <1>6, <1>8, <2>1, Words DEF RangeBegin
<1>11. RangeEnd(s, 0, ws, 0, w) = MaxWord
  <2>1. CASE w # ws - 1
    <3>1. q * (w + 1) = 0
      BY <1>9, <2>1
    <3>2. Shl(0, s) + q * (w + 1) - 1 = -1
      BY <1>6, <3>1
    <3> QED
      BY <1>4, <1>8, <2>1, <3>2, Words DEF RangeEnd
  <2>2. CASE w = ws - 1
    BY <2>2 DEF RangeEnd
  <2> QED
    BY <2>1, <2>2
<1>12. WorkerKeys(pbc, ws, 0, w) = 0..MaxWord
  BY <1>1, <1>3, <1>4, <1>10, <1>11 DEF WorkerKeys, KeysOf
<1>13. KeysOfPartition(pbc, 0) = 0..MaxWord
  <2>1. CASE pbc = NoRing
    BY <2>1 DEF KeysOfPartition
  <2>2. CASE pbc = 0
    <3>1. \A k \in 0..MaxWord : k \div m = 0
      <4>1. \A k \in 0..MaxWord : m * 0 <= k /\ k < m * 0 + m
        BY <1>1
      <4> QED
        BY <1>1, <4>1, QuotientIs
    <3> QED
      BY <1>1, <1>2, <2>2, <3>1 DEF KeysOfPartition, NoRing
  <2> QED
    BY <2>1, <2>2
<1> QED
  BY <1>3, <1>12, <1>13

\* A worker starts at a partition of its own, or at the first.
LEMMA BeginInRange ==
  ASSUME NEW max \in Nat, NEW ws \in Nat \ {0}, NEW w \in 0..(ws - 1)
  PROVE  PartitionBegin(max, ws, w) \in 0..max
<1>1. PICK n \in Nat \ {0} : n = max + 1
  OBVIOUS
<1>2. PICK q \in Nat : q = n \div ws /\ ws * q <= n
  BY <1>1, QuotientIs
<1>3. q * w \in Nat /\ q * (w + 1) = q * w + q /\ q * ws \in Nat /\ q * (w + 1) <= q * ws
  <2>1. w + 1 \in Nat /\ w + 1 <= ws
    OBVIOUS
  <2>2. q * (w + 1) <= q * ws
    BY <1>2, <2>1, Monotone
  <2> QED
    BY <1>2, <2>2
<1>4. q * ws = ws * q
  BY <1>2
<1>5. q * w <= max
  <2>1. CASE q = 0
    BY <2>1
  <2>2. CASE q # 0
    BY <1>1, <1>2, <1>3, <1>4, <2>2
  <2> QED
    BY <2>1, <2>2
<1> QED
  BY <1>1, <1>2, <1>3, <1>5 DEF PartitionBegin

\* The partition of step i of a round trip.
At(max, b, i) == IF b + i <= max THEN b + i ELSE b + i - (max + 1)

\* A round trip goes from where it begins to the last partition and on from the first.
LEMMA RoundTripIs ==
  ASSUME NEW max \in Nat, NEW ws \in Nat \ {0}, NEW w \in 0..(ws - 1),
         NEW b, b = PartitionBegin(max, ws, w)
  PROVE  RoundTrip(max, ws, w) = [i \in 1..(max + 1) |-> At(max, b, i - 1)]
<1>1. b \in 0..max
  BY BeginInRange
<1> DEFINE F(i) == IF b + i <= max THEN b + i ELSE IF i <= max + 1 THEN b + i - (max + 1) ELSE 0
           Body(g, i) == IF i = 0 THEN b ELSE NextPartition(max, g[i - 1])
           Eqn(g) == g = [i \in 0..(max + 1) |-> Body(g, i)]
           Sol == [i \in 0..(max + 1) |-> At(max, b, i)]
<1>2. At(max, b, 0) = b
  BY <1>1 DEF At
<1>3. ASSUME NEW i \in Nat, i <= max
      PROVE  NextPartition(max, At(max, b, i)) = At(max, b, i + 1)
  BY <1>1, <1>3 DEF At, NextPartition
<1>4. Eqn(Sol)
  <2>1. ASSUME NEW i \in 0..(max + 1) PROVE At(max, b, i) = Body(Sol, i)
    <3>1. CASE i = 0
      BY <1>2, <3>1
    <3>2. CASE i # 0
      <4>1. i - 1 \in 0..(max + 1) /\ i - 1 \in Nat /\ i - 1 <= max /\ (i - 1) + 1 = i
        BY <3>2
      <4>2. Sol[i - 1] = At(max, b, i - 1)
        BY <4>1
      <4>3. NextPartition(max, At(max, b, i - 1)) = At(max, b, i)
        BY <1>3, <4>1
      <4> QED
        BY <3>2, <4>2, <4>3
    <3> QED
      BY <3>1, <3>2
  <2> HIDE DEF Body
  <2> QED
    BY <2>1
<1>5. ASSUME NEW g, Eqn(g), NEW j \in 0..(max + 1) PROVE g[j] = At(max, b, j)
  <2> DEFINE S == {i \in Nat : i \in 0..(max + 1) => g[i] = At(max, b, i)}
  <2>1. ASSUME NEW i \in 0..(max + 1) PROVE g[i] = Body(g, i)
    <3> HIDE DEF Body
    <3> QED
      BY <1>5
  <2>2. 0 \in S
    BY <2>1, <1>2
  <2>3. ASSUME NEW i \in Nat, i \in S PROVE i + 1 \in S
    <3> SUFFICES ASSUME i + 1 \in 0..(max + 1) PROVE g[i + 1] = At(max, b, i + 1)
      OBVIOUS
    <3>1. i \in 0..(max + 1) /\ i + 1 # 0 /\ (i + 1) - 1 = i /\ i <= max
      OBVIOUS
    <3>2. g[i + 1] = NextPartition(max, g[i])
      BY <2>1, <3>1
    <3> QED
      BY <2>3, <3>1, <3>2, <1>3
  <2> HIDE DEF S
  <2>4. Nat \subseteq S
    BY <2>2, <2>3, SetInduction
  <2>5. j \in S
    BY <2>4
  <2> QED
    BY <2>5 DEF S
<1> DEFINE at == CHOOSE g : Eqn(g)
<1>6. Eqn(at)
  <2> HIDE DEF Eqn, Sol
  <2> QED
    BY <1>4
<1> DEFINE back == {i \in 1..(max + 1) : at[i] = b}
           stop == IF back = {} THEN max + 1 ELSE CHOOSE i \in back : \A j \in back : i <= j
<1>7. RoundTrip(max, ws, w) = [i \in 1..stop |-> at[i - 1]]
  BY DEF RoundTrip
<1> HIDE DEF Eqn, at
<1>8. \A j \in 0..(max + 1) : at[j] = At(max, b, j)
  BY <1>5, <1>6
<1>9. back = {max + 1}
  <2>1. \A i \in 1..(max + 1) : At(max, b, i) = b <=> i = max + 1
    BY <1>1 DEF At
  <2> QED
    BY <1>8, <2>1
<1>10. stop = max + 1
  <2> HIDE DEF back
  <2>1. stop \in back
    BY <1>9
  <2> QED
    BY <1>9, <2>1
<1>11. \A i \in 1..(max + 1) : at[i - 1] = At(max, b, i - 1)
  BY <1>8
<1> HIDE DEF stop
<1> QED
  BY <1>7, <1>10, <1>11

\* Every partition is visited once.
VisitsAll(visits, max) == /\ Len(visits) = max + 1
                          /\ {visits[i] : i \in 1..max + 1} = 0..max

\* So it visits every partition once ...
LEMMA RoundTripVisits ==
  ASSUME NEW max \in Nat, NEW ws \in Nat \ {0}, NEW w \in 0..(ws - 1)
  PROVE  VisitsAll(RoundTrip(max, ws, w), max)
<1>1. PICK b \in 0..max : b = PartitionBegin(max, ws, w)
  BY BeginInRange
<1>2. PICK v : v = RoundTrip(max, ws, w)
  OBVIOUS
<1>3. v = [i \in 1..(max + 1) |-> At(max, b, i - 1)]
  BY <1>1, <1>2, RoundTripIs
<1>4. Len(v) = max + 1
  <2>1. max + 1 \in Nat
    OBVIOUS
  <2> QED
    BY <1>3, <2>1
<1>5. \A i \in 1..(max + 1) : v[i] \in 0..max
  BY <1>3 DEF At
<1>6. ASSUME NEW p \in 0..max PROVE \E i \in 1..(max + 1) : v[i] = p
  <2>1. PICK i \in 1..(max + 1) : At(max, b, i - 1) = p
    <3>1. CASE p >= b
      <4>1. p - b + 1 \in 1..(max + 1) /\ At(max, b, p - b + 1 - 1) = p
        BY <3>1 DEF At
      <4> QED
        BY <4>1
    <3>2. CASE p < b
      <4>1. p - b + max + 2 \in 1..(max + 1) /\ At(max, b, p - b + max + 2 - 1) = p
        BY <3>2 DEF At
      <4> QED
        BY <4>1
    <3> QED
      BY <3>1, <3>2
  <2> QED
    BY <1>3, <2>1
<1> QED
  BY <1>2, <1>4, <1>5, <1>6 DEF VisitsAll

\* ... and so do the two loops, from there to the last and from the first to there.
LEMMA TwoLoopsVisit ==
  ASSUME NEW max \in Nat, NEW ws \in Nat \ {0}, NEW w \in 0..(ws - 1)
  PROVE  VisitsAll(TwoLoops(max, ws, w), max)
<1>1. PICK b \in 0..max : b = PartitionBegin(max, ws, w)
  BY BeginInRange
<1>2. PICK s, t : /\ s = [i \in 1..(max + 1 - b) |-> b + i - 1]
                  /\ t = [i \in 1..b |-> i - 1]
  OBVIOUS
<1>3. s \in Seq(Nat) /\ Len(s) = max + 1 - b /\ t \in Seq(Nat) /\ Len(t) = b
  <2>1. max + 1 - b \in Nat /\ b \in Nat
    OBVIOUS
  <2> QED
    BY <1>2, <2>1
<1>4. PICK v : v = s \o t
  OBVIOUS
<1>5. v = TwoLoops(max, ws, w)
  BY <1>1, <1>2, <1>4 DEF TwoLoops
<1>6. /\ Len(v) = max + 1
      /\ \A i \in 1..(max + 1) : v[i] = IF i <= max + 1 - b THEN b + i - 1 ELSE i - (max + 1 - b) - 1
  <2>1. Len(s) + Len(t) = max + 1
    BY <1>3
  <2>2. /\ Len(v) = Len(s) + Len(t)
        /\ \A i \in 1..Len(s) + Len(t) : v[i] = IF i <= Len(s) THEN s[i] ELSE t[i - Len(s)]
    BY <1>3, <1>4, ConcatProperties
  <2>3. ASSUME NEW i \in 1..(max + 1)
        PROVE  v[i] = IF i <= max + 1 - b THEN b + i - 1 ELSE i - (max + 1 - b) - 1
    <3>1. CASE i <= max + 1 - b
      <4>1. v[i] = s[i]
        BY <1>3, <2>1, <2>2, <3>1
      <4>2. i \in 1..(max + 1 - b)
        BY <3>1
      <4>3. s[i] = b + i - 1
        BY <1>2, <4>2
      <4> QED
        BY <3>1, <4>1, <4>3
    <3>2. CASE ~(i <= max + 1 - b)
      <4>1. i - (max + 1 - b) \in 1..b
        BY <3>2
      <4> QED
        BY <1>2, <1>3, <2>1, <2>2, <3>2, <4>1
    <3> QED
      BY <3>1, <3>2
  <2> QED
    BY <2>1, <2>2, <2>3
<1>7. \A i \in 1..(max + 1) : v[i] \in 0..max
  BY <1>6
<1>8. ASSUME NEW p \in 0..max PROVE \E i \in 1..(max + 1) : v[i] = p
  <2>1. CASE p >= b
    <3>1. p - b + 1 \in 1..(max + 1) /\ v[p - b + 1] = p
      BY <1>6, <2>1
    <3> QED
      BY <3>1
  <2>2. CASE p < b
    <3>1. p - b + max + 2 \in 1..(max + 1) /\ v[p - b + max + 2] = p
      BY <1>6, <2>2
    <3> QED
      BY <3>1
  <2> QED
    BY <2>1, <2>2
<1> QED
  BY <1>5, <1>6, <1>7, <1>8 DEF VisitsAll

\* The ranges that have a key.
ScansOf(scans, k) == {i \in 1..Len(scans) : scans[i][1] <= k /\ k <= scans[i][2]}

\* The second scan of an answer ends where the first one starts.
LEMMA ScansCover ==
  ASSUME NEW start \in Nat, NEW stop \in Nat, start <= stop, NEW replicas \in Nat \ {0},
         NEW replica \in Int, replica < replicas, NEW k \in Nat
  PROVE  Cardinality(ScansOf(PullScans(start, stop, replicas, replica), k))
           = IF start <= k /\ k <= stop THEN 1 ELSE 0
<1>1. PICK d \in Nat, r \in Nat : /\ d = stop - start /\ r = (IF replica < 0 THEN 0 ELSE replica)
                                  /\ r <= replicas
  OBVIOUS
<1>2. PICK q \in Nat : q = d \div replicas /\ replicas * q <= d
  BY <1>1, QuotientIs
<1>3. q * r \in Nat /\ q * r <= d
  <2>1. q * r <= q * replicas /\ q * r \in Nat /\ q * replicas = replicas * q /\ q * replicas \in Nat
    BY <1>1, <1>2, Monotone
  <2> QED
    BY <1>1, <1>2, <2>1
<1>4. PICK first \in Nat : first = start + q * r /\ start <= first /\ first <= stop
  <2>1. PICK z \in Nat : z = q * r /\ z <= d
    BY <1>3
  <2> QED
    BY <1>1, <2>1
<1>5. PICK scans : scans = PullScans(start, stop, replicas, replica)
  OBVIOUS
<1>6. scans = <<<<first, stop>>>> \o (IF first # start THEN <<<<start, first - 1>>>> ELSE <<>>)
  BY <1>1, <1>2, <1>4, <1>5 DEF PullScans
<1>7. PICK Over : Over = {i \in 1..Len(scans) : scans[i][1] <= k /\ k <= scans[i][2]}
  OBVIOUS
<1>8. /\ Over \in {{}, {1}, {2}}
      /\ Over = {} <=> ~(start <= k /\ k <= stop)
  <2>1. CASE first = start
    <3>1. scans = <<<<first, stop>>>>
      BY <1>6, <2>1
    <3>2. Over = IF start <= k /\ k <= stop THEN {1} ELSE {}
      BY <1>7, <2>1, <3>1
    <3> QED
      BY <3>2
  <2>2. CASE first # start
    <3>1. PICK a, b : a = <<first, stop>> /\ b = <<start, first - 1>>
      OBVIOUS
    <3>2. scans = <<a>> \o <<b>>
      BY <1>6, <2>2, <3>1
    <3>3. scans = <<a, b>>
      <4>1. <<a>> \in Seq({a, b}) /\ <<b>> \in Seq({a, b}) /\ <<a, b>> \in Seq({a, b})
        OBVIOUS
      <4>2. Len(<<a>>) = 1 /\ Len(<<b>>) = 1 /\ Len(<<a, b>>) = 2
        OBVIOUS
      <4>3. /\ scans \in Seq({a, b}) /\ Len(scans) = 1 + 1
            /\ \A i \in 1..(1 + 1) : scans[i] = IF i <= 1 THEN <<a>>[i] ELSE <<b>>[i - 1]
        BY <3>2, <4>1, <4>2, ConcatProperties
      <4>4. scans[1] = a /\ scans[2] = b
        BY <4>3
      <4> QED
        BY <4>1, <4>2, <4>3, <4>4, SeqEqual
    <3>4. Over = IF first <= k /\ k <= stop THEN {1} ELSE IF start <= k /\ k <= stop THEN {2} ELSE {}
      BY <1>4, <1>7, <3>1, <3>3
    <3>5. first <= k /\ k <= stop => start <= k
      BY <1>4
    <3> QED
      BY <3>4, <3>5
  <2> QED
    BY <2>1, <2>2
<1>9. Cardinality({}) = 0 /\ Cardinality({1}) = 1 /\ Cardinality({2}) = 1
  BY FS_Singleton, FS_EmptySet
<1>10. Cardinality(Over) = IF start <= k /\ k <= stop THEN 1 ELSE 0
  BY <1>8, <1>9
<1> QED
  BY <1>5, <1>7, <1>10 DEF ScansOf

\* The range of a pass, its partitions and its workers, whatever the number of bits of a key.
LEMMA RangesCover ==
  ASSUME NEW a \in RangeInputs
  PROVE  /\ \A p \in 0..PartitionMax(a.pbc) : \A k \in KeysOfPartition(a.pbc, p) :
              LET takers == {w \in 0..a.workers - 1 : k \in WorkerKeys(a.pbc, a.workers, p, w)}
              IN IF a.pbc \in {NoRing, 0} THEN takers = 0..a.workers - 1
                 ELSE Cardinality(takers) = 1
         /\ \A p \in 0..PartitionMax(a.pbc), w \in 0..a.workers - 1 :
              WorkerKeys(a.pbc, a.workers, p, w) \subseteq KeysOfPartition(a.pbc, p)
         /\ PartitionMax(a.pbc) \in Nat
<1>1. PICK pbc, ws : pbc = a.pbc /\ ws = a.workers
  OBVIOUS
<1>2. /\ pbc \in {NoRing} \cup 0..Bits /\ ws \in Nat \ {0}
      /\ pbc > 0 => ws <= 2^(Bits - pbc)
  BY <1>1, RangeAssumption
<1>3. CASE pbc \in {NoRing, 0}
  <2>1. PartitionMax(pbc) = 0
    <3>1. 0 \in 0..(ws - 1)
      BY <1>2
    <3> QED
      BY <1>2, <1>3, <3>1, EveryoneTakesAll
  <2>2. \A w \in 0..ws - 1 :
          WorkerKeys(pbc, ws, 0, w) = 0..MaxWord /\ KeysOfPartition(pbc, 0) = 0..MaxWord
    BY <1>2, <1>3, EveryoneTakesAll
  <2>3. 0 \in 0..(ws - 1)
    BY <1>2
  <2>4. ASSUME NEW p \in 0..PartitionMax(pbc), NEW k \in KeysOfPartition(pbc, p)
        PROVE  {w \in 0..ws - 1 : k \in WorkerKeys(pbc, ws, p, w)} = 0..ws - 1
    <3>1. p = 0
      BY <2>1
    <3>2. k \in 0..MaxWord
      BY <2>2, <2>3, <3>1
    <3> QED
      BY <2>2, <3>1, <3>2
  <2>5. ASSUME NEW p \in 0..PartitionMax(pbc), NEW w \in 0..ws - 1
        PROVE  WorkerKeys(pbc, ws, p, w) \subseteq KeysOfPartition(pbc, p)
    <3>1. p = 0
      BY <2>1
    <3> QED
      BY <2>2, <3>1
  <2> QED
    BY <1>1, <1>3, <2>1, <2>4, <2>5
<1>4. CASE pbc \notin {NoRing, 0}
  <2>1. pbc \in 1..Bits /\ ws <= 2^(Bits - pbc)
    <3>1. pbc \in 0..Bits /\ pbc # 0
      BY <1>2, <1>4
    <3>2. pbc \in 1..Bits
      BY <3>1, BitsAssumption
    <3> QED
      BY <1>2, <3>2
  <2>2. PartitionMax(pbc) = 2^pbc - 1 /\ PartitionMax(pbc) \in Nat
    <3>1. pbc \in 0..Bits
      BY <2>1
    <3>2. 2^pbc \in Nat \ {0}
      BY <3>1, PartitionSize
    <3> QED
      BY <1>4, <3>2 DEF PartitionMax
  <2>3. ASSUME NEW p \in 0..PartitionMax(pbc)
        PROVE  /\ \A k \in KeysOfPartition(pbc, p) :
                    Cardinality({w \in 0..ws - 1 : k \in WorkerKeys(pbc, ws, p, w)}) = 1
               /\ \A w \in 0..ws - 1 : WorkerKeys(pbc, ws, p, w) \subseteq KeysOfPartition(pbc, p)
    BY <1>2, <2>1, <2>2, PartitionShared
  <2> QED
    BY <1>1, <1>4, <2>2, <2>3
<1> QED
  BY <1>3, <1>4

\* Whatever the width of a key, with any ring and any number of workers that does not exceed
\* the keys of a partition, the workers of a pass of push replication, pull replication and
\* tombstone discard take every key of every partition once, or, where there is one
\* partition, all of them; each visits every partition once; and the two scans that answer a
\* pull replication message go over its range once.
THEOREM PassesCoverTheKeys == Spec => []KeyRangesCover
<1> DEFINE Inv == /\ in.kind = "range" => in.arg \in RangeInputs
                  /\ in.kind = "pull" => in.arg \in PullInputs
<1>1. Init => Inv
  BY DEF Init
<1>2. Inv /\ [Next]_in => Inv'
  BY DEF Next
<1>3. Inv => KeyRangesCover
  <2> SUFFICES ASSUME Inv PROVE KeyRangesCover
    OBVIOUS
  <2>1. ASSUME in.kind = "range"
        PROVE  EveryKeyHasItsWorker /\ RangesStayInTheirPartition /\ EveryPartitionVisitedOnce
    <3>1. PICK a \in RangeInputs : a = in.arg
      BY <2>1
    <3>2. EveryKeyHasItsWorker
      BY <3>1, RangesCover DEF EveryKeyHasItsWorker
    <3>3. RangesStayInTheirPartition
      BY <3>1, RangesCover DEF RangesStayInTheirPartition
    <3>4. EveryPartitionVisitedOnce
      <4>1. PICK max \in Nat, ws \in Nat \ {0} : max = PartitionMax(a.pbc) /\ ws = a.workers
        BY RangesCover, RangeAssumption
      <4>2. ASSUME NEW w \in 0..(ws - 1)
            PROVE  VisitsAll(RoundTrip(max, ws, w), max) /\ VisitsAll(TwoLoops(max, ws, w), max)
        BY RoundTripVisits, TwoLoopsVisit
      <4>3. SUFFICES ASSUME NEW w \in 0..in.arg.workers - 1,
                            NEW visits \in {RoundTrip(PartitionMax(in.arg.pbc), in.arg.workers, w),
                                            TwoLoops(PartitionMax(in.arg.pbc), in.arg.workers, w)}
                     PROVE  /\ Len(visits) = PartitionMax(in.arg.pbc) + 1
                            /\ {visits[i] : i \in 1..PartitionMax(in.arg.pbc) + 1}
                                 = 0..PartitionMax(in.arg.pbc)
        BY DEF EveryPartitionVisitedOnce
      <4>4. VisitsAll(visits, max)
        BY <3>1, <4>1, <4>2
      <4> QED
        BY <3>1, <4>1, <4>4 DEF VisitsAll
    <3> QED
      BY <3>2, <3>3, <3>4
  <2>2. ASSUME in.kind # "range"
        PROVE  EveryKeyHasItsWorker /\ RangesStayInTheirPartition /\ EveryPartitionVisitedOnce
    BY <2>2 DEF EveryKeyHasItsWorker, RangesStayInTheirPartition, EveryPartitionVisitedOnce, IsInput
  <2>3. PullScansCoverTheRange
    <3> SUFFICES ASSUME in.kind = "pull", NEW k \in 0..MaxWord
                 PROVE  LET scans == PullScans(in.arg.start, in.arg.stop, in.arg.replicas, in.arg.replica)
                        IN Cardinality({i \in 1..Len(scans) : scans[i][1] <= k /\ k <= scans[i][2]})
                             = IF in.arg.start <= k /\ k <= in.arg.stop THEN 1 ELSE 0
      BY DEF PullScansCoverTheRange, IsInput
    <3>1. PICK a \in PullInputs : a = in.arg
      OBVIOUS
    <3>2. k \in Nat
      BY Words
    <3>3. PICK start \in Nat, stop \in Nat, replicas \in Nat \ {0}, replica \in Int :
             /\ start = a.start /\ stop = a.stop /\ replicas = a.replicas /\ replica = a.replica
             /\ start <= stop /\ replica < replicas
      BY PullAssumption
    <3>4. Cardinality(ScansOf(PullScans(start, stop, replicas, replica), k))
            = IF start <= k /\ k <= stop THEN 1 ELSE 0
      BY <3>2, <3>3, ScansCover
    <3> QED
      BY <3>1, <3>3, <3>4 DEF ScansOf
  <2> QED
    BY <2>1, <2>2, <2>3 DEF KeyRangesCover
<1> QED
  BY <1>1, <1>2, <1>3, PTL DEF Spec

(***************************************************************************)
(* The bloom filter of a pass.                                             *)
(***************************************************************************)

\* A filter of n entries, with probability p.
Filter(n, p, salt, bits) == [n |-> n, p |-> p, salt |-> salt, bits |-> bits]

\* The fields of a filter.
LEMMA FilterFields ==
  ASSUME NEW n, NEW p, NEW s, NEW b, NEW f, f = Filter(n, p, s, b)
  PROVE  f.n = n /\ f.p = p /\ f.salt = s /\ f.bits = b
  BY DEF Filter

\* The bits of an entry do not depend on those that are set.
LEMMA BitsOfFilter ==
  ASSUME NEW n, NEW p, NEW s, NEW b, NEW c, NEW x
  PROVE  BitsOf(Filter(n, p, s, b), x) = BitsOf(Filter(n, p, s, c), x)
  BY FilterFields DEF BitsOf

\* A reset leaves an empty filter with the new salt.
LEMMA ResetFilter ==
  ASSUME NEW n, NEW p, NEW s, NEW b, NEW t
  PROVE  reset(Filter(n, p, s, b), t) = Filter(n, p, t, {})
<1>1. PICK f, c : f = Filter(n, p, s, b) /\ c = {}
  OBVIOUS
<1>2. PICK h : h = [f EXCEPT !.bits = c]
  OBVIOUS
<1>3. h = Filter(n, p, s, c)
  BY <1>1, <1>2, SMT DEF Filter
<1>4. [f EXCEPT !.bits = c, !.salt = t] = [h EXCEPT !.salt = t]
  BY <1>2, SMT
<1>5. [h EXCEPT !.salt = t] = Filter(n, p, t, c)
  BY <1>3, SMT DEF Filter
<1>6. reset(f, t) = [f EXCEPT !.bits = c, !.salt = t]
  BY <1>1 DEF reset
<1> QED
  BY <1>1, <1>4, <1>5, <1>6

\* add sets the bits of an entry.
LEMMA AddToFilter ==
  ASSUME NEW n, NEW p, NEW s, NEW b, NEW x
  PROVE  add(Filter(n, p, s, b), x) = Filter(n, p, s, b \cup BitsOf(Filter(n, p, s, {}), x))
<1>1. PICK f, c : f = Filter(n, p, s, b) /\ c = b \cup BitsOf(Filter(n, p, s, {}), x)
  OBVIOUS
<1>2. f.bits = b /\ BitsOf(f, x) = BitsOf(Filter(n, p, s, {}), x)
  BY <1>1, FilterFields, BitsOfFilter
<1>3. add(f, x) = [f EXCEPT !.bits = c]
  BY <1>1, <1>2 DEF add
<1>4. [f EXCEPT !.bits = c] = Filter(n, p, s, c)
  BY <1>1, SMT DEF Filter
<1> QED
  BY <1>1, <1>3, <1>4

\* A pass leaves the bits of its entries under its own salt, whatever was there before.
LEMMA FilledIs ==
  ASSUME NEW n, NEW p, NEW s, NEW b, NEW salt, NEW entries, Len(entries) \in Nat
  PROVE  Filled(Filter(n, p, s, b), salt, entries)
           = Filter(n, p, salt, UNION {BitsOf(Filter(n, p, salt, {}), entries[j]) : j \in 1..Len(entries)})
<1> DEFINE B(x) == BitsOf(Filter(n, p, salt, {}), x)
           U(i) == UNION {B(entries[j]) : j \in 1..i}
           F(i) == Filter(n, p, salt, U(i))
           Sol  == [i \in 0..Len(entries) |-> F(i)]
<1>1. PICK f : f = Filter(n, p, s, b)
  OBVIOUS
<1> DEFINE Body(g, i) == IF i = 0 THEN reset(f, salt) ELSE add(g[i - 1], entries[i])
           Eqn(g) == g = [i \in 0..Len(entries) |-> Body(g, i)]
<1>2. U(0) = {} /\ \A i \in Nat : U(i + 1) = U(i) \cup B(entries[i + 1])
  <2> HIDE DEF B
  <2>1. U(0) = {}
    OBVIOUS
  <2>2. ASSUME NEW i \in Nat PROVE U(i + 1) = U(i) \cup B(entries[i + 1])
    <3>1. 1..(i + 1) = (1..i) \cup {i + 1}
      OBVIOUS
    <3> QED
      BY <3>1
  <2> QED
    BY <2>1, <2>2
<1>3. reset(f, salt) = F(0)
  <2>1. reset(f, salt) = Filter(n, p, salt, {})
    BY <1>1, ResetFilter
  <2> HIDE DEF U
  <2> QED
    BY <1>2, <2>1
<1>4. ASSUME NEW i \in Nat PROVE add(F(i), entries[i + 1]) = F(i + 1)
  <2>1. add(F(i), entries[i + 1]) = Filter(n, p, salt, U(i) \cup B(entries[i + 1]))
    BY AddToFilter
  <2> HIDE DEF U, B
  <2> QED
    BY <1>2, <2>1
<1> HIDE DEF F, B, U
<1>5. Eqn(Sol)
  <2>1. ASSUME NEW i \in 0..Len(entries)
        PROVE  F(i) = Body(Sol, i)
    <3>1. CASE i = 0
      BY <1>3, <3>1
    <3>2. CASE i # 0
      <4>1. i - 1 \in 0..Len(entries) /\ i - 1 \in Nat /\ (i - 1) + 1 = i
        BY <3>2
      <4>2. Sol[i - 1] = F(i - 1)
        BY <4>1
      <4>3. add(F(i - 1), entries[i]) = F(i)
        BY <1>4, <4>1
      <4> QED
        BY <3>2, <4>2, <4>3
    <3> QED
      BY <3>1, <3>2
  <2> HIDE DEF Body
  <2> QED
    BY <2>1
<1>6. ASSUME NEW g, Eqn(g) PROVE g[Len(entries)] = F(Len(entries))
  <2> DEFINE S == {i \in Nat : i \in 0..Len(entries) => g[i] = F(i)}
  <2>1. ASSUME NEW i \in 0..Len(entries) PROVE g[i] = Body(g, i)
    <3> HIDE DEF Body
    <3> QED
      BY <1>6
  <2>2. 0 \in S
    BY <2>1, <1>3
  <2>3. ASSUME NEW i \in Nat, i \in S PROVE i + 1 \in S
    <3> SUFFICES ASSUME i + 1 \in 0..Len(entries) PROVE g[i + 1] = F(i + 1)
      OBVIOUS
    <3>1. i \in 0..Len(entries) /\ i + 1 # 0 /\ (i + 1) - 1 = i
      OBVIOUS
    <3>2. g[i + 1] = add(g[i], entries[i + 1])
      BY <2>1, <3>1
    <3> QED
      BY <2>3, <3>1, <3>2, <1>4
  <2> HIDE DEF S
  <2>4. Nat \subseteq S
    BY <2>2, <2>3, SetInduction
  <2>5. Len(entries) \in S
    BY <2>4
  <2> QED
    BY <2>5 DEF S
<1>7. Filled(f, salt, entries) = (CHOOSE g : Eqn(g))[Len(entries)]
  BY DEF Filled
<1>8. Eqn(CHOOSE g : Eqn(g))
  <2> HIDE DEF Eqn, Sol
  <2> QED
    BY <1>5
<1>9. Filled(f, salt, entries) = F(Len(entries))
  <2> HIDE DEF Eqn
  <2> QED
    BY <1>6, <1>7, <1>8
<1> QED
  BY <1>1, <1>9 DEF F, B, U

\* A new filter is empty.
LEMMA NewFilter ==
  ASSUME NEW n, NEW p, NEW t
  PROVE  newKTBloomFilter(n, p, t) = Filter(n, p, t, {})
  BY DEF newKTBloomFilter, Filter

\* The filter that comes out of a message is the one that went into it.
LEMMA SentFilter ==
  ASSUME NEW n, NEW p, NEW s, NEW b
  PROVE  newKTBloomFilterFromMsg(toMsg(Filter(n, p, s, b))) = Filter(n, p, s, b)
<1>1. PICK f : f = Filter(n, p, s, b)
  OBVIOUS
<1>2. f.n = n /\ f.p = p /\ f.salt = s /\ f.bits = b
  BY <1>1, FilterFields
<1>3. PICK m : m = toMsg(f)
  OBVIOUS
<1>4. m.n = n /\ m.p = p /\ m.salt = s /\ m.body = b
  BY <1>2, <1>3 DEF toMsg
<1>5. newKTBloomFilterFromMsg(m) = Filter(n, p, s, b)
  BY <1>4 DEF newKTBloomFilterFromMsg, Filter
<1> QED
  BY <1>1, <1>3, <1>5

\* Whatever a filter held before, and whatever the hashes, a node that is asked by a pull
\* replication message finds in the filter of the message every entry that the sender added
\* in its pass, so it sends none of them back; and a pass starts from an empty filter (reset).
THEOREM FiltersAreTrue == Spec => []FiltersHoldTheirPass
<1> DEFINE Inv == in.kind = "bloom" => in.arg \in BloomInputs
<1>1. Init => Inv
  BY DEF Init
<1>2. Inv /\ [Next]_in => Inv'
  BY DEF Next
<1>3. Inv => FiltersHoldTheirPass
  <2> SUFFICES ASSUME in.kind = "bloom", in.arg \in BloomInputs
               PROVE  FiltersHoldTheirPass
    BY DEF FiltersHoldTheirPass, NoFalseNegatives, ResetForgets, IsInput
  <2>1. PICK a \in BloomInputs : a = in.arg
    OBVIOUS
  <2>2. PICK n, p, salt, before, entries :
            n = a.n /\ p = a.p /\ salt = a.salt /\ before = a.old /\ entries = a.entries
    OBVIOUS
  <2>3. Len(before) \in Nat /\ Len(entries) \in Nat
    BY <2>2, BloomAssumption
  <2>0. PICK last : last = salt - 1
    OBVIOUS
  <2> DEFINE B(x) == BitsOf(Filter(n, p, salt, {}), x)
             PassBits(e) == UNION {B(e[j]) : j \in 1..Len(e)}
             OldBits == UNION {BitsOf(Filter(n, p, last, {}), before[j]) : j \in 1..Len(before)}
  <2>4. PICK fresh : fresh = newKTBloomFilter(n, p, 0) /\ fresh = Filter(n, p, 0, {})
    BY NewFilter
  <2>5. PICK old, was : old = Filled(fresh, last, before) /\ old = Filter(n, p, last, was)
    <3>1. Filled(fresh, last, before) = Filter(n, p, last, OldBits)
      BY <2>3, <2>4, FilledIs
    <3> HIDE DEF OldBits
    <3> QED
      BY <3>1
  <2>6. PICK full : full = Filled(old, salt, entries) /\ full = Filter(n, p, salt, PassBits(entries))
    <3>1. Filled(old, salt, entries) = Filter(n, p, salt, PassBits(entries))
      BY <2>3, <2>5, FilledIs
    <3> HIDE DEF PassBits
    <3> QED
      BY <3>1
  <2>7. Filled(fresh, salt, entries) = full
    BY <2>3, <2>4, <2>6, FilledIs
  <2>8. newKTBloomFilterFromMsg(toMsg(full)) = full
    <3> HIDE DEF PassBits
    <3> QED
      BY <2>6, SentFilter
  <2>9. ASSUME NEW i \in 1..Len(entries)
        PROVE  mayHave(full, entries[i])
    <3>1. BitsOf(full, entries[i]) = B(entries[i])
      BY <2>6, BitsOfFilter
    <3>2. full.bits = PassBits(entries)
      <4> HIDE DEF PassBits
      <4> QED
        BY <2>6, FilterFields
    <3> HIDE DEF B
    <3>3. B(entries[i]) \subseteq PassBits(entries)
      OBVIOUS
    <3> HIDE DEF PassBits
    <3> QED
      BY <3>1, <3>2, <3>3 DEF mayHave
  <2> HIDE DEF B, PassBits, OldBits
  <2>10. NoFalseNegatives
    BY <2>0, <2>1, <2>2, <2>4, <2>5, <2>6, <2>8, <2>9 DEF NoFalseNegatives
  <2>11. ResetForgets
    BY <2>0, <2>1, <2>2, <2>4, <2>5, <2>6, <2>7 DEF ResetForgets
  <2> QED
    BY <2>10, <2>11 DEF FiltersHoldTheirPass
<1> QED
  BY <1>1, <1>2, <1>3, PTL DEF Spec

(***************************************************************************)
(* The reader of TOC files.  It goes over the places of a file in order,   *)
(* place m starting at word Header + m * f.entry; before every block it is *)
(* at a place (AtEntry): what is left of the block before, or to be        *)
(* skipped of this one, is up to there.  The first f.n places hold the     *)
(* entries, and those that follow, filler, which has no offset.            *)
(***************************************************************************)

\* Entries of value stores and of group stores.
Sized(f) == f.entry \in {32, 48}

\* The position of an entry, and those of c entries from number m on.
Pos(f, m)    == Header + m * f.entry
Seg(f, m, c) == [j \in 1..c |-> Pos(f, m + j - 1)]

\* Of the places for q entries from number m on, those with an entry in them.
Count(f, m, q) == IF m >= f.n THEN 0 ELSE IF m + q <= f.n THEN q ELSE f.n - m

\* A file that the reader does not give up at its header.
Readable(f) ==
  /\ f.entry \in {32, 48} /\ f.interval \in Nat /\ f.n \in Nat /\ f.header \in BOOLEAN
  /\ f.corrupt \subseteq Nat
  /\ GoodHeader(f)

\* Of q places from number m on, the last is the one that may have the trailer for its offset.
AtLast(f, m, q) == /\ q > 0 /\ TermIsOffset(f)
                   /\ Pos(f, m + q) = LastPlace(f) + f.entry

\* What is read of q places from number m on: those with an entry, and that last one.
Run(f, m, q) == IF AtLast(f, m, q) THEN Append(Seg(f, m, Count(f, m, q)), LastPlace(f))
                ELSE Seg(f, m, Count(f, m, q))

\* Positions go up by the size of an entry.
LEMMA PosFacts ==
  ASSUME NEW f, Sized(f), NEW m \in Nat
  PROVE  /\ Pos(f, m) \in Nat
         /\ Pos(f, m) = Header + m * f.entry
         /\ Pos(f, m + 1) = Pos(f, m) + f.entry
         /\ \A c \in Nat : Pos(f, m + c) = Pos(f, m) + c * f.entry /\ Pos(f, m + c) \in Nat
  BY DEF Sized, Pos, Header

\* A run of places is a sequence of numbers.
LEMMA SegFacts ==
  ASSUME NEW f, Sized(f), NEW m \in Nat, NEW c \in Nat
  PROVE  Seg(f, m, c) \in Seq(Nat) /\ Len(Seg(f, m, c)) = c
<1>1. \A j \in 1..c : Pos(f, m + j - 1) \in Nat
  BY DEF Sized, Pos, Header
<1>2. Seg(f, m, c) \in [1..c -> Nat]
  BY <1>1 DEF Seg
<1> QED
  BY <1>2

\* Its elements are the places in order.
LEMMA SegAt ==
  ASSUME NEW f, NEW m, NEW c, NEW j \in 1..c
  PROVE  Seg(f, m, c)[j] = Pos(f, m + j - 1)
  BY DEF Seg

\* A run of places is extended by the place that follows.
LEMMA SegAppend ==
  ASSUME NEW f, Sized(f), NEW m \in Nat, NEW c \in Nat
  PROVE  Append(Seg(f, m, c), Pos(f, m + c)) = Seg(f, m, c + 1)
<1>1. PICK s, t, e : s = Seg(f, m, c) /\ t = Seg(f, m, c + 1) /\ e = Pos(f, m + c)
  OBVIOUS
<1>2. /\ s \in Seq(Nat) /\ Len(s) = c /\ \A j \in 1..c : s[j] = Pos(f, m + j - 1)
      /\ t \in Seq(Nat) /\ Len(t) = c + 1 /\ \A j \in 1..(c + 1) : t[j] = Pos(f, m + j - 1)
      /\ e \in Nat
  <2>1. c + 1 \in Nat
    OBVIOUS
  <2>2. e \in Nat
    BY <1>1, PosFacts
  <2>3. s \in Seq(Nat) /\ Len(s) = c /\ \A j \in 1..c : s[j] = Pos(f, m + j - 1)
    <3>1. s \in Seq(Nat) /\ Len(s) = c
      BY <1>1, SegFacts
    <3>2. ASSUME NEW j \in 1..c PROVE s[j] = Pos(f, m + j - 1)
      BY <1>1, SegAt
    <3> QED
      BY <3>1, <3>2
  <2>4. t \in Seq(Nat) /\ Len(t) = c + 1 /\ \A j \in 1..(c + 1) : t[j] = Pos(f, m + j - 1)
    <3>1. t \in Seq(Nat) /\ Len(t) = c + 1
      BY <1>1, <2>1, SegFacts
    <3>2. ASSUME NEW j \in 1..(c + 1) PROVE t[j] = Pos(f, m + j - 1)
      BY <1>1, SegAt
    <3> QED
      BY <3>1, <3>2
  <2> QED
    BY <2>2, <2>3, <2>4
<1>3. /\ Append(s, e) \in Seq(Nat) /\ Len(Append(s, e)) = c + 1
      /\ \A i \in 1..c : Append(s, e)[i] = s[i]
      /\ Append(s, e)[c + 1] = e
  BY <1>2, AppendProperties
<1>4. ASSUME NEW i \in 1..(c + 1) PROVE Append(s, e)[i] = t[i]
  <2>1. CASE i \in 1..c
    BY <1>2, <1>3, <2>1
  <2>2. CASE i = c + 1
    <3>1. m + (c + 1) - 1 = m + c
      OBVIOUS
    <3>2. t[c + 1] = Pos(f, m + (c + 1) - 1)
      <4>1. c + 1 \in 1..(c + 1)
        OBVIOUS
      <4> QED
        BY <1>2, <4>1
    <3> QED
      BY <1>1, <1>3, <2>2, <3>1, <3>2
  <2>3. i \in 1..c \/ i = c + 1
    OBVIOUS
  <2> QED
    BY <2>1, <2>2, <2>3
<1>5. Append(s, e) = t
  BY <1>2, <1>3, <1>4, SeqEqual
<1> QED
  BY <1>1, <1>5

\* The places before one and those from there on.
LEMMA SegConcat ==
  ASSUME NEW f, Sized(f), NEW m \in Nat, NEW c \in Nat
  PROVE  Seg(f, 0, m) \o Seg(f, m, c) = Seg(f, 0, m + c)
<1>1. PICK s, t, u : s = Seg(f, 0, m) /\ t = Seg(f, m, c) /\ u = Seg(f, 0, m + c)
  OBVIOUS
<1>2. /\ s \in Seq(Nat) /\ Len(s) = m /\ \A j \in 1..m : s[j] = Pos(f, 0 + j - 1)
      /\ t \in Seq(Nat) /\ Len(t) = c /\ \A j \in 1..c : t[j] = Pos(f, m + j - 1)
      /\ u \in Seq(Nat) /\ Len(u) = m + c /\ \A j \in 1..(m + c) : u[j] = Pos(f, 0 + j - 1)
  <2>1. m + c \in Nat
    OBVIOUS
  <2>2. s \in Seq(Nat) /\ Len(s) = m /\ \A j \in 1..m : s[j] = Pos(f, 0 + j - 1)
    <3>1. s \in Seq(Nat) /\ Len(s) = m
      BY <1>1, SegFacts
    <3>2. ASSUME NEW j \in 1..m PROVE s[j] = Pos(f, 0 + j - 1)
      BY <1>1, SegAt
    <3> QED
      BY <3>1, <3>2
  <2>3. t \in Seq(Nat) /\ Len(t) = c /\ \A j \in 1..c : t[j] = Pos(f, m + j - 1)
    <3>1. t \in Seq(Nat) /\ Len(t) = c
      BY <1>1, SegFacts
    <3>2. ASSUME NEW j \in 1..c PROVE t[j] = Pos(f, m + j - 1)
      BY <1>1, SegAt
    <3> QED
      BY <3>1, <3>2
  <2>4. u \in Seq(Nat) /\ Len(u) = m + c /\ \A j \in 1..(m + c) : u[j] = Pos(f, 0 + j - 1)
    <3>1. u \in Seq(Nat) /\ Len(u) = m + c
      BY <1>1, <2>1, SegFacts
    <3>2. ASSUME NEW j \in 1..(m + c) PROVE u[j] = Pos(f, 0 + j - 1)
      BY <1>1, SegAt
    <3> QED
      BY <3>1, <3>2
  <2> QED
    BY <2>2, <2>3, <2>4
<1>3. /\ s \o t \in Seq(Nat) /\ Len(s \o t) = m + c
      /\ \A i \in 1..(m + c) : (s \o t)[i] = IF i <= m THEN s[i] ELSE t[i - m]
  BY <1>2, ConcatProperties
<1>4. ASSUME NEW i \in 1..(m + c) PROVE (s \o t)[i] = u[i]
  <2>1. CASE i <= m
    BY <1>2, <1>3, <2>1
  <2>2. CASE ~(i <= m)
    <3>1. i - m \in 1..c /\ m + (i - m) - 1 = 0 + i - 1
      BY <2>2
    <3>2. t[i - m] = Pos(f, m + (i - m) - 1)
      BY <1>2, <3>1
    <3> QED
      BY <1>2, <1>3, <2>2, <3>1, <3>2
  <2> QED
    BY <2>1, <2>2
<1>5. s \o t = u
  BY <1>2, <1>3, <1>4, SeqEqual
<1> QED
  BY <1>1, <1>5

\* The last place is behind the entries, and less than an entry before the end of the file.
LEMMA LastFacts ==
  ASSUME NEW f, Readable(f)
  PROVE  /\ FileEnd(f) \in Nat /\ LastPlace(f) \in Int /\ EntriesEnd(f) \in Nat
         /\ LastPlace(f) + f.entry <= FileEnd(f)
         /\ FileEnd(f) < LastPlace(f) + f.entry + f.entry
         /\ TermIsOffset(f) => /\ LastPlace(f) >= EntriesEnd(f) /\ LastPlace(f) \in Nat
                               /\ FileEnd(f) < LastPlace(f) + f.entry + 4
<1>1. PICK n \in Nat, I \in Nat : n = f.n /\ I = f.interval /\ I >= 32
  BY DEF Readable, GoodHeader, Header
<1>2. CASE f.entry = 32
  BY <1>1, <1>2 DEF LastPlace, TermIsOffset, EntriesEnd, FileEnd, Header
<1>3. CASE f.entry = 48
  BY <1>1, <1>3 DEF LastPlace, TermIsOffset, EntriesEnd, FileEnd, Header
<1> QED
  BY <1>2, <1>3 DEF Readable

\* The places before the end of the file have an offset if there is an entry in them, or if they
\* are the last and the trailer reaches into it.
LEMMA OffsetOfEntry ==
  ASSUME NEW f, Readable(f), NEW j \in Nat, Pos(f, j) + f.entry <= FileEnd(f)
  PROVE  OffsetIsSet(f, Pos(f, j)) <=> j < f.n \/ (TermIsOffset(f) /\ Pos(f, j) = LastPlace(f))
<1>1. PICK n \in Nat, I \in Nat : n = f.n /\ I = f.interval /\ I >= 32
  BY DEF Readable, GoodHeader, Header
<1>2. CASE f.entry = 32
  BY <1>1, <1>2 DEF OffsetIsSet, LastPlace, TermIsOffset, EntriesEnd, FileEnd, Pos, Header, Trailer
<1>3. CASE f.entry = 48
  <2>0. PICK over \in 0..47 : over = I % 48
    BY <1>1
  <2>1. PICK q \in Int : I = 48 * q + over
    BY <1>1, <2>0
  <2>2. OffsetIsSet(f, Pos(f, j)) <=> 48 * j + 24 < 48 * n \/ 48 * j + 52 > 48 * n + I
    BY <1>1, <1>3 DEF OffsetIsSet, EntriesEnd, FileEnd, Pos, Header, Trailer
  <2>3. TermIsOffset(f) /\ Pos(f, j) = LastPlace(f) <=> over < 4 /\ j + 1 = n + q
    <3>1. TermIsOffset(f) <=> over < 4
      BY <1>1, <1>3, <2>0 DEF TermIsOffset
    <3>2. LastPlace(f) = 32 + n * 48 + I - over - 48
      BY <1>1, <1>3, <2>0 DEF LastPlace, EntriesEnd, FileEnd, Header
    <3>3. Pos(f, j) = 32 + j * 48
      BY <1>3 DEF Pos, Header
    <3> QED
      BY <1>1, <2>1, <3>1, <3>2, <3>3
  <2>4. 48 * j + 48 <= 48 * n + I
    BY <1>1, <1>3 DEF EntriesEnd, FileEnd, Pos, Header
  <2> QED
    BY <1>1, <2>0, <2>1, <2>2, <2>3, <2>4
<1> QED
  BY <1>2, <1>3 DEF Readable

\* What is read is a sequence of positions.
LEMMA RunFacts ==
  ASSUME NEW f, Readable(f), NEW m \in Nat, NEW q \in Nat
  PROVE  /\ Run(f, m, q) \in Seq(Nat)
         /\ Run(f, m, 0) = <<>>
<1>1. Sized(f)
  BY DEF Readable, Sized
<1>2. PICK c \in Nat : c = Count(f, m, q)
  BY DEF Count, Readable
<1>3. Seg(f, m, c) \in Seq(Nat)
  BY <1>1, SegFacts
<1>4. AtLast(f, m, q) => LastPlace(f) \in Nat
  BY LastFacts DEF AtLast
<1>5. AtLast(f, m, q) => Append(Seg(f, m, c), LastPlace(f)) \in Seq(Nat)
  BY <1>3, <1>4, AppendProperties
<1>6. Run(f, m, q) \in Seq(Nat)
  BY <1>2, <1>3, <1>5 DEF Run
<1>7. Run(f, m, 0) = <<>>
  <2>1. Count(f, m, 0) = 0 /\ ~AtLast(f, m, 0)
    BY DEF Count, Readable, AtLast
  <2>2. Seg(f, m, 0) \in Seq(Nat) /\ Len(Seg(f, m, 0)) = 0
    BY <1>1, SegFacts
  <2> QED
    BY <2>1, <2>2, EmptySeq DEF Run
<1> QED
  BY <1>6, <1>7

\* Cutting off one more entry.
CutNext(f, s, x) == IF OffsetIsSet(f, x) THEN Append(s, x) ELSE s

CutsBy(f, from, q, g) ==
  /\ g[0] = <<>>
  /\ \A i \in Nat : i < q => g[i + 1] = CutNext(f, g[i], from + i * f.entry)

\* One more place after those that are read, if it ends within the file.
LEMMA RunStep ==
  ASSUME NEW f, Readable(f), NEW m \in Nat, NEW i \in Nat, NEW x, x = Pos(f, m + i),
         x + f.entry <= FileEnd(f)
  PROVE  CutNext(f, Run(f, m, i), x) = Run(f, m, i + 1)
<1>1. PICK n \in Nat, e \in {32, 48} : n = f.n /\ e = f.entry
  BY DEF Readable
<1>2. Sized(f)
  BY DEF Readable, Sized
<1>3. PICK j \in Nat : j = m + i
  OBVIOUS
<1>4. x \in Nat /\ x = Pos(f, j) /\ Pos(f, m + (i + 1)) = x + e
  <2>1. Pos(f, j) \in Nat /\ Pos(f, j + 1) = Pos(f, j) + f.entry
    BY <1>2, PosFacts
  <2>2. m + (i + 1) = j + 1
    BY <1>3
  <2> QED
    BY <1>1, <1>3, <2>1, <2>2
<1>5. ~AtLast(f, m, i)
  <2>1. LastPlace(f) \in Int /\ FileEnd(f) \in Nat
    BY LastFacts, Zenon
  <2>2. FileEnd(f) < LastPlace(f) + f.entry + f.entry
    BY LastFacts, Zenon
  <2> QED
    BY <1>1, <1>3, <1>4, <2>1, <2>2 DEF AtLast
<1>6. PICK s : s = Seg(f, m, Count(f, m, i)) /\ Run(f, m, i) = s
  BY <1>5 DEF Run
<1>7. AtLast(f, m, i + 1) <=> TermIsOffset(f) /\ x = LastPlace(f)
  <2>1. LastPlace(f) \in Int
    BY LastFacts, Zenon
  <2> QED
    BY <1>1, <1>4, <2>1 DEF AtLast
<1>8. OffsetIsSet(f, x) <=> j < n \/ (TermIsOffset(f) /\ x = LastPlace(f))
  BY <1>1, <1>4, OffsetOfEntry
<1>9. CASE j < n
  <2>1. Count(f, m, i) = i /\ Count(f, m, i + 1) = i + 1
    BY <1>1, <1>3, <1>9 DEF Count
  <2>2. Append(Seg(f, m, i), x) = Seg(f, m, i + 1)
    BY <1>2, SegAppend
  <2>3. ~AtLast(f, m, i + 1)
    <3>1. x + e <= EntriesEnd(f) /\ EntriesEnd(f) \in Nat
      BY <1>1, <1>4, <1>9 DEF EntriesEnd, Pos, Header
    <3>2. TermIsOffset(f) => LastPlace(f) >= EntriesEnd(f) /\ LastPlace(f) \in Nat
      BY LastFacts, Zenon
    <3> QED
      BY <1>1, <1>4, <1>7, <3>1, <3>2
  <2>4. Run(f, m, i + 1) = Seg(f, m, i + 1)
    BY <2>1, <2>3 DEF Run
  <2>5. CutNext(f, s, x) = Append(s, x)
    BY <1>8, <1>9 DEF CutNext
  <2> QED
    BY <1>6, <2>1, <2>2, <2>4, <2>5
<1>10. CASE ~(j < n)
  <2>1. Count(f, m, i) = Count(f, m, i + 1)
    BY <1>1, <1>3, <1>10 DEF Count
  <2>2. Run(f, m, i + 1) = IF AtLast(f, m, i + 1) THEN Append(s, LastPlace(f)) ELSE s
    BY <1>6, <2>1 DEF Run
  <2>3. CutNext(f, s, x) = IF AtLast(f, m, i + 1) THEN Append(s, x) ELSE s
    BY <1>7, <1>8, <1>10, Zenon DEF CutNext
  <2> QED
    BY <1>6, <1>7, <2>2, <2>3
<1> QED
  BY <1>9, <1>10

\* The cutting of q entries as a function that is defined by recursion.
CutAfter(f, from, g, q) ==
  g = [i \in 0..q |-> IF i = 0 THEN <<>> ELSE CutNext(f, g[i - 1], from + (i - 1) * f.entry)]

\* Cutting is defined for every number of entries.
LEMMA CutRuns ==
  ASSUME NEW f, NEW from, NEW q \in Nat
  PROVE  \E g : CutAfter(f, from, g, q)
<1> DEFINE N(s, b) == CutNext(f, s, from + b * f.entry)
           Eqn(g, n) == g = [b \in 0..n |-> IF b = 0 THEN <<>> ELSE N(g[b - 1], b - 1)]
           S == {n \in Nat : \E g : Eqn(g, n)}
<1>1. 0 \in S
  <2> DEFINE g == [b \in 0..0 |-> <<>>]
  <2>1. Eqn(g, 0)
    OBVIOUS
  <2> HIDE DEF g, Eqn
  <2> QED
    BY <2>1
<1> HIDE DEF N
<1>2. ASSUME NEW n \in Nat, n \in S PROVE n + 1 \in S
  <2>1. PICK g : Eqn(g, n)
    BY <1>2
  <2> DEFINE h == [b \in 0..(n + 1) |-> IF b = n + 1 THEN N(g[n], n) ELSE g[b]]
  <2>2. ASSUME NEW b \in 0..(n + 1)
        PROVE  h[b] = IF b = 0 THEN <<>> ELSE N(h[b - 1], b - 1)
    <3>1. CASE b = n + 1
      <4>1. b - 1 = n /\ n \in 0..(n + 1) /\ n # n + 1 /\ b # 0
        BY <3>1
      <4>2. h[n] = g[n]
        BY <4>1
      <4> QED
        BY <3>1, <4>1, <4>2
    <3>2. CASE b = 0
      <4>1. 0 \in 0..n /\ 0 # n + 1
        OBVIOUS
      <4>2. g[0] = <<>>
        BY <2>1, <4>1
      <4> QED
        BY <3>2, <4>1, <4>2
    <3>3. CASE b # 0 /\ b # n + 1
      <4>1. b \in 0..n /\ b - 1 \in 0..(n + 1) /\ b - 1 # n + 1
        BY <3>3
      <4>2. g[b] = N(g[b - 1], b - 1)
        BY <2>1, <3>3, <4>1
      <4>3. h[b - 1] = g[b - 1] /\ h[b] = g[b]
        BY <3>3, <4>1
      <4> QED
        BY <3>3, <4>2, <4>3
    <3> QED
      BY <3>1, <3>2, <3>3
  <2>3. Eqn(h, n + 1)
    <3>1. h = [b \in 0..(n + 1) |-> h[b]]
      OBVIOUS
    <3> HIDE DEF h
    <3> QED
      BY <2>2, <3>1
  <2> HIDE DEF h, Eqn
  <2> QED
    BY <2>3
<1> HIDE DEF S
<1>3. Nat \subseteq S
  BY <1>1, <1>2, SetInduction
<1>4. PICK g : Eqn(g, q)
  <2>1. q \in S
    BY <1>3
  <2> HIDE DEF Eqn
  <2> QED
    BY <2>1 DEF S
<1>5. CutAfter(f, from, g, q)
  BY <1>4 DEF CutAfter, N
<1> QED
  BY <1>5

\* Cut goes from one entry to the next.
LEMMA CutSteps ==
  ASSUME NEW f, NEW from \in Nat, NEW to \in Nat, NEW q \in Nat, q = (to - from) \div f.entry
  PROVE  \E g : CutsBy(f, from, q, g) /\ Cut(f, from, to) = g[q]
<1> DEFINE Body(g, i) == IF i = 0 THEN <<>> ELSE CutNext(f, g[i - 1], from + (i - 1) * f.entry)
           Eqn(g) == g = [i \in 0..q |-> Body(g, i)]
           read == CHOOSE g : Eqn(g)
<1>1. Eqn(read)
  <2>1. PICK g : CutAfter(f, from, g, q)
    BY CutRuns
  <2>2. Eqn(g)
    BY <2>1 DEF CutAfter
  <2> HIDE DEF Eqn
  <2> QED
    BY <2>2
<1>2. Cut(f, from, to) = read[q]
  BY DEF Cut, CutNext
<1> HIDE DEF read
<1>3. \A i \in 0..q : read[i] = Body(read, i)
  <2> HIDE DEF Body
  <2> QED
    BY <1>1
<1>4. read[0] = <<>>
  <2>1. 0 \in 0..q
    OBVIOUS
  <2> QED
    BY <1>3, <2>1
<1>5. ASSUME NEW i \in Nat, i < q PROVE read[i + 1] = CutNext(f, read[i], from + i * f.entry)
  <2>1. i + 1 \in 0..q /\ i + 1 # 0 /\ (i + 1) - 1 = i
    BY <1>5
  <2> QED
    BY <1>3, <2>1
<1>6. CutsBy(f, from, q, read)
  BY <1>4, <1>5 DEF CutsBy
<1> QED
  BY <1>2, <1>6

\* What a reader at an entry makes of the bytes up to a position within the file.
LEMMA CutIs ==
  ASSUME NEW f, Readable(f), NEW m \in Nat, NEW to \in Nat,
         Pos(f, m) <= to, to <= FileEnd(f)
  PROVE  /\ (to - Pos(f, m)) \div f.entry \in Nat
         /\ Cut(f, Pos(f, m), to) = Run(f, m, (to - Pos(f, m)) \div f.entry)
<1>0. Sized(f)
  BY DEF Readable, Sized
<1>1. PICK from \in Nat, e \in {32, 48} : from = Pos(f, m) /\ e = f.entry
  <2>1. Pos(f, m) \in Nat
    BY <1>0, PosFacts
  <2> QED
    BY <2>1 DEF Readable
<1>2. PICK d \in Nat : d = to - from
  BY <1>1
<1>3. PICK q \in Nat : q = d \div e /\ e * q <= d
  BY <1>1, QuotientIs
<1>4. PICK g : CutsBy(f, from, q, g) /\ Cut(f, from, to) = g[q]
  <2>1. q = (to - from) \div f.entry
    BY <1>1, <1>2, <1>3
  <2> QED
    BY <2>1, CutSteps
<1> DEFINE S == {i \in Nat : i <= q => g[i] = Run(f, m, i)}
<1>5. 0 \in S
  BY <1>4, RunFacts DEF CutsBy
<1>6. ASSUME NEW i \in Nat, i \in S PROVE i + 1 \in S
  <2> SUFFICES ASSUME i + 1 <= q PROVE g[i + 1] = Run(f, m, i + 1)
    OBVIOUS
  <2>1. g[i] = Run(f, m, i) /\ i < q
    BY <1>6
  <2>2. PICK x \in Nat : x = from + i * e
    BY <1>1
  <2>3. x = Pos(f, m + i)
    <3>1. Pos(f, m + i) = Pos(f, m) + i * f.entry
      BY <1>0, PosFacts
    <3> QED
      BY <1>1, <2>2, <3>1
  <2>4. x + f.entry <= FileEnd(f)
    <3>1. x + e <= to
      BY <1>1, <1>2, <1>3, <2>2
    <3>2. FileEnd(f) \in Nat
      BY LastFacts, Zenon
    <3> QED
      BY <1>1, <3>1, <3>2
  <2>5. CutNext(f, Run(f, m, i), x) = Run(f, m, i + 1)
    BY <2>3, <2>4, RunStep
  <2>6. g[i + 1] = CutNext(f, g[i], x)
    BY <1>1, <1>4, <2>1, <2>2 DEF CutsBy
  <2> QED
    BY <2>1, <2>5, <2>6
<1> HIDE DEF S
<1>7. Nat \subseteq S
  BY <1>5, <1>6, SetInduction
<1>8. g[q] = Run(f, m, q)
  <2>1. q \in S
    BY <1>7
  <2> QED
    BY <2>1 DEF S
<1> QED
  BY <1>1, <1>2, <1>3, <1>4, <1>8

\* How a reader goes from block to block.
ReaderAfter(f, start, g, n) ==
  g = [b \in 0..n |-> IF b = 0 THEN start ELSE ReadBlock(f, g[b - 1], b - 1)]

\* What the reader does is defined for every number of blocks.
LEMMA ReaderRuns ==
  ASSUME NEW f, NEW start, NEW N \in Nat
  PROVE  \E g : ReaderAfter(f, start, g, N)
<1> USE DEF ReaderAfter
<1> DEFINE Eqn(g, n) == ReaderAfter(f, start, g, n)
           S == {n \in Nat : \E g : Eqn(g, n)}
<1>1. 0 \in S
  <2> DEFINE g == [b \in 0..0 |-> start]
  <2>1. Eqn(g, 0)
    OBVIOUS
  <2> HIDE DEF g, Eqn
  <2> QED
    BY <2>1
<1>2. ASSUME NEW n \in Nat, n \in S PROVE n + 1 \in S
  <2>1. PICK g : Eqn(g, n)
    BY <1>2
  <2> DEFINE h == [b \in 0..(n + 1) |-> IF b = n + 1 THEN ReadBlock(f, g[n], n) ELSE g[b]]
  <2>2. ASSUME NEW b \in 0..(n + 1)
        PROVE  h[b] = IF b = 0 THEN start ELSE ReadBlock(f, h[b - 1], b - 1)
    <3>1. CASE b = n + 1
      <4>1. b - 1 = n /\ n \in 0..(n + 1) /\ n # n + 1 /\ b # 0
        BY <3>1
      <4>2. h[n] = g[n]
        BY <4>1
      <4> QED
        BY <3>1, <4>1, <4>2
    <3>2. CASE b = 0
      <4>1. 0 \in 0..n /\ 0 # n + 1
        OBVIOUS
      <4>2. g[0] = start
        BY <2>1, <4>1
      <4> QED
        BY <3>2, <4>1, <4>2
    <3>3. CASE b # 0 /\ b # n + 1
      <4>1. b \in 0..n /\ b - 1 \in 0..(n + 1) /\ b - 1 # n + 1
        BY <3>3
      <4>2. g[b] = ReadBlock(f, g[b - 1], b - 1)
        BY <2>1, <3>3, <4>1
      <4>3. h[b - 1] = g[b - 1] /\ h[b] = g[b]
        BY <3>3, <4>1
      <4> QED
        BY <3>3, <4>2, <4>3
    <3> QED
      BY <3>1, <3>2, <3>3
  <2>3. Eqn(h, n + 1)
    <3>1. h = [b \in 0..(n + 1) |-> h[b]]
      OBVIOUS
    <3> HIDE DEF h
    <3> QED
      BY <2>2, <3>1
  <2> HIDE DEF h, Eqn
  <2> QED
    BY <2>3
<1> HIDE DEF S
<1>3. Nat \subseteq S
  BY <1>1, <1>2, SetInduction
<1>4. N \in S
  BY <1>3
<1> QED
  BY <1>4 DEF S

\* Where blocks begin and end.
LEMMA BlockFacts ==
  ASSUME NEW f, Readable(f)
  PROVE  /\ f.interval \in Nat /\ f.interval >= 32 /\ FileEnd(f) \in Nat
         /\ Blocks(f) \in Nat \ {0}
         /\ Blocks(f) * f.interval \in Nat
         /\ Blocks(f) * f.interval <= FileEnd(f)
         /\ FileEnd(f) < Blocks(f) * f.interval + f.interval
         /\ \A b \in Nat : /\ b * f.interval \in Nat
                           /\ (b + 1) * f.interval = b * f.interval + f.interval
                           /\ b < Blocks(f) => b * f.interval + f.interval <= FileEnd(f)
<1>1. PICK I \in Nat : I = f.interval /\ I >= 32
  BY DEF Readable, GoodHeader, Header
<1>2. PICK n \in Nat : n = FileEnd(f) /\ n >= I
  <2>1. FileEnd(f) \in Nat /\ FileEnd(f) >= f.interval
    BY DEF Readable, FileEnd, EntriesEnd, Header
  <2> QED
    BY <1>1, <2>1
<1>3. PICK B \in Nat : B = n \div I /\ I * B <= n /\ n < I * B + I
  <2>1. n \div I \in Nat /\ I \in Nat \ {0}
    BY <1>1, QuotientIs
  <2> QED
    BY <2>1, QuotientIs
<1>4. B = Blocks(f)
  BY <1>1, <1>2, <1>3 DEF Blocks
<1>5. B # 0
  <2> SUFFICES ASSUME B = 0 PROVE FALSE
    OBVIOUS
  <2>1. n < I * 0 + I
    BY <1>3
  <2> QED
    BY <1>2, <2>1
<1>6. I * B = B * I /\ I * B \in Nat
  OBVIOUS
<1>7. ASSUME NEW b \in Nat
      PROVE  /\ b * I \in Nat /\ (b + 1) * I = b * I + I
             /\ b < B => b * I + I <= n
  <2>1. b * I \in Nat /\ (b + 1) * I = b * I + I /\ I * (b + 1) = (b + 1) * I
    OBVIOUS
  <2>2. ASSUME b < B PROVE b * I + I <= n
    <3>1. b + 1 <= B
      BY <2>2
    <3>2. I * (b + 1) <= I * B
      BY <3>1, Monotone
    <3> QED
      BY <1>2, <1>3, <1>6, <2>1, <3>2
  <2> QED
    BY <2>1, <2>2
<1> QED
  BY <1>1, <1>2, <1>3, <1>4, <1>5, <1>6, <1>7

\* The state of the reader; before block b it is at entry m: all places before that are done
\* with, and what is left of the block before, or skipped of this one, is up to there.
Reader(s) ==
  /\ {"skip", "left", "read", "noTerm", "panic"} \subseteq DOMAIN s
  /\ s.skip \in Nat /\ s.left \in Nat /\ s.read \in Seq(Nat) /\ s.panic \in BOOLEAN

AtEntry(f, s, b, m) ==
  /\ s.left < f.entry
  /\ s.skip # 0 => s.left = 0
  /\ From(s, b * f.interval) = Pos(f, m)

\* The reader of file f, at entry m in state s, has gone on to block b in state t, or to the end,
\* with an error if what is left there is shorter than the trailer.
GoesOn(f, s, m, t, b) == \E q \in Nat : /\ AtEntry(f, t, b, m + q)
                                         /\ Pos(f, m + q) <= FileEnd(f)
                                         /\ t.read = s.read \o Run(f, m, q)

EndsAt(f, s, m, t, q) ==
  /\ m + q >= f.n /\ t.read = s.read \o Run(f, m, q)
  /\ Pos(f, m + q) <= FileEnd(f)
  /\ t.noTerm <=> FileEnd(f) - Pos(f, m) < 8
  /\ t.noTerm <=> FileEnd(f) - Pos(f, m + q) < 8

Ends(f, s, m, t) == \E q \in Nat : EndsAt(f, s, m, t, q)

\* An intact block adds the entries that it completes; a reader that is to skip more than a block
\* panics.
LEMMA IntactBlock ==
  ASSUME NEW f, Readable(f), NEW b \in Nat, b < Blocks(f), b \notin f.corrupt,
         NEW s, Reader(s), ~s.panic, NEW m \in Nat, AtEntry(f, s, b, m),
         NEW t, t = ReadBlock(f, s, b)
  PROVE  /\ Reader(t)
         /\ s.skip > f.interval => t.panic
         /\ s.skip <= f.interval =>
              /\ ~t.panic /\ t.skip = 0
              /\ GoesOn(f, s, m, t, b + 1)
<1>1. PICK I \in Nat, e \in {32, 48} : I = f.interval /\ e = f.entry
  BY DEF Readable
<1>2. PICK pos \in Nat : /\ pos = b * I /\ (b + 1) * I = pos + I /\ pos + I <= FileEnd(f)
  BY <1>1, BlockFacts
<1>3. Sized(f)
  BY DEF Readable, Sized
<1>4. PICK from \in Nat : from = Pos(f, m)
  BY <1>3, PosFacts
<1>5. from = IF s.skip # 0 THEN pos + s.skip ELSE pos - s.left
  BY <1>1, <1>2, <1>4 DEF AtEntry, From
<1>6. From(s, pos) = from
  BY <1>5 DEF From
<1>7. CASE s.skip > I
  <2>1. t = [s EXCEPT !.panic = TRUE]
    BY <1>1, <1>7 DEF ReadBlock
  <2>2. Reader(t) /\ t.panic
    BY <2>1 DEF Reader
  <2>3. ~(s.skip <= f.interval)
    BY <1>1, <1>7 DEF Reader
  <2> QED
    BY <2>2, <2>3
<1>8. CASE s.skip <= I
  <2>1. PICK to \in Nat : to = pos + I /\ from <= to /\ to <= FileEnd(f)
    <3>1. s.skip \in Nat /\ s.left \in Nat
      BY DEF Reader
    <3>2. pos + I \in Nat /\ from <= pos + I
      BY <1>5, <1>8, <3>1
    <3> QED
      BY <1>2, <3>2
  <2>2. t = [s EXCEPT !.skip = 0, !.left = Left(f, from, to), !.read = @ \o Cut(f, from, to)]
    <3>1. s.skip \in Nat
      BY DEF Reader
    <3>2. ~(s.skip > I)
      BY <1>8, <3>1
    <3> QED
      BY <1>1, <1>2, <1>6, <2>1, <3>2, Zenon DEF ReadBlock
  <2>3. PICK q \in Nat : q = (to - from) \div e
    BY <1>1, <1>4, <2>1, CutIs
  <2>4. Cut(f, from, to) = Run(f, m, q)
    BY <1>1, <1>4, <2>1, <2>3, CutIs
  <2>5. PICK r \in Nat : r = (to - from) % e
    BY <1>1, <2>1
  <2>6. r < e /\ to - from = q * e + r
    <3>1. PICK d \in Nat : d = to - from
      BY <1>4, <2>1
    <3>2. CASE e = 32
      BY <2>3, <2>5, <3>1, <3>2
    <3>3. CASE e = 48
      BY <2>3, <2>5, <3>1, <3>3
    <3> QED
      BY <3>2, <3>3
  <2>7. Left(f, from, to) = r
    BY <1>1, <2>5 DEF Left
  <2>9. Run(f, m, q) \in Seq(Nat)
    BY RunFacts
  <2>10. PICK c : c = Run(f, m, q) /\ c \in Seq(Nat) /\ c = Cut(f, from, to)
    BY <2>4, <2>9
  <2>11. s.read \o c \in Seq(Nat)
    BY <2>10, ConcatProperties DEF Reader
  <2>12. /\ t.skip = 0 /\ t.left = r /\ t.read = s.read \o c /\ t.panic = s.panic
         /\ DOMAIN t = DOMAIN s
    <3>1. t = [s EXCEPT !.skip = 0, !.left = r, !.read = @ \o c]
      BY <2>2, <2>7, <2>10
    <3> QED
      BY <3>1 DEF Reader
  <2>13. Reader(t)
    BY <2>11, <2>12 DEF Reader
  <2>14. AtEntry(f, t, b + 1, m + q)
    <3>1. Pos(f, m + q) = from + q * e
      BY <1>1, <1>3, <1>4, PosFacts
    <3>2. From(t, to) = to - r
      BY <2>12 DEF From
    <3>3. to - r = from + q * e
      BY <1>1, <2>6
    <3>4. (b + 1) * f.interval = to
      BY <1>1, <1>2, <2>1
    <3> QED
      BY <1>1, <2>6, <2>12, <3>1, <3>2, <3>3, <3>4 DEF AtEntry
  <2>15. t.read = s.read \o Run(f, m, q) /\ ~t.panic /\ t.skip = 0
    BY <2>10, <2>12
  <2>18. Pos(f, m + q) <= FileEnd(f)
    <3>1. Pos(f, m + q) = from + q * e
      BY <1>1, <1>3, <1>4, PosFacts
    <3>2. FileEnd(f) \in Nat
      BY LastFacts, Zenon
    <3> QED
      BY <1>1, <2>1, <2>6, <3>1, <3>2
  <2>16. ~(s.skip > f.interval)
    BY <1>1, <1>8 DEF Reader
  <2>17. GoesOn(f, s, m, t, b + 1)
    BY <2>14, <2>15, <2>18, Zenon DEF GoesOn
  <2> QED
    BY <2>13, <2>15, <2>16, <2>17, Zenon
<1>9. s.skip > I \/ s.skip <= I
  BY <1>1 DEF Reader
<1> QED
  BY <1>7, <1>8, <1>9

\* A corrupt block costs the entries that reach into it and the one that starts where it ends.
LEMMA CorruptBlock ==
  ASSUME NEW f, Readable(f), NEW b \in Nat, b \in f.corrupt,
         NEW s, Reader(s), ~s.panic, NEW m \in Nat, AtEntry(f, s, b, m),
         s.skip = 0 \/ (s.skip = Header /\ b = 0 /\ m = 0 /\ Header % f.entry = 0),
         NEW t, t = ReadBlock(f, s, b)
  PROVE  /\ Reader(t) /\ ~t.panic /\ t.read = s.read /\ t.skip <= f.entry
         /\ \E k \in Nat : /\ AtEntry(f, t, b + 1, k)
                           /\ \A j \in Nat : m <= j => Pos(f, j) + f.entry > b * f.interval
                           /\ \A j \in Nat : j < k => Pos(f, j) <= b * f.interval + f.interval
<1>1. PICK I \in Nat, e \in {32, 48} : I = f.interval /\ e = f.entry /\ I >= 32
  BY DEF Readable, GoodHeader, Header
<1>2. PICK pos \in Nat : /\ pos = b * I /\ (b + 1) * I = pos + I
  BY <1>1, BlockFacts
<1>3. Sized(f)
  BY DEF Readable, Sized
<1>4. PICK left \in Nat, skip \in Nat : left = s.left /\ skip = s.skip
  BY DEF Reader
<1>5. left < e /\ (skip # 0 => left = 0) /\ Pos(f, m) = IF skip # 0 THEN pos + skip ELSE pos - left
  BY <1>1, <1>2, <1>4 DEF AtEntry, From
<1>6. PICK r \in Nat, q \in Nat : /\ r = (skip + left + I) % e /\ q = (skip + left + I) \div e
  BY <1>1
<1>7. skip + left + I = q * e + r /\ r < e
  BY <1>1, <1>6
<1>8. t = [s EXCEPT !.skip = SkipNext(f, s), !.left = 0]
  BY DEF ReadBlock
<1>9. SkipNext(f, s) = e - r
  BY <1>1, <1>4, <1>6 DEF SkipNext
<1>10. /\ t.skip = e - r /\ t.left = 0 /\ t.read = s.read /\ t.panic = s.panic
       /\ DOMAIN t = DOMAIN s
  BY <1>8, <1>9 DEF Reader
<1>11. Reader(t)
  <2>1. e - r \in Nat
    BY <1>1, <1>7
  <2> QED
    BY <1>10, <2>1 DEF Reader
<1>12. PICK k \in Nat : Pos(f, k) = pos + I + e - r
  <2>1. CASE skip = 0
    <3>1. PICK c \in Nat : c = q + 1
      OBVIOUS
    <3>2. Pos(f, m + c) = Pos(f, m) + c * f.entry
      BY <1>3, PosFacts
    <3>3. Pos(f, m) + c * e = pos + I + e - r
      BY <1>1, <1>5, <1>7, <2>1, <3>1
    <3> QED
      BY <1>1, <3>2, <3>3
  <2>2. CASE skip # 0
    <3>1. e = 32 /\ pos = 0 /\ skip = 32
      <4>1. e = 32
        BY <1>1, <1>4, <2>2 DEF Header
      <4> QED
        BY <1>2, <1>4, <2>2, <4>1 DEF Header
    <3>2. q >= 2 /\ left = 0
      BY <1>1, <1>5, <1>7, <2>2, <3>1
    <3>3. PICK k \in Nat : k = q - 1
      BY <3>2
    <3>4. Pos(f, k) = 32 + k * f.entry
      BY <1>3, PosFacts DEF Header
    <3>5. 32 + k * 32 = pos + I + e - r
      BY <1>7, <3>1, <3>2, <3>3
    <3> QED
      BY <1>1, <3>1, <3>4, <3>5
  <2> QED
    BY <2>1, <2>2
<1>13. AtEntry(f, t, b + 1, k)
  <2>1. t.skip # 0 /\ From(t, pos + I) = pos + I + (e - r)
    BY <1>1, <1>7, <1>10 DEF From
  <2> QED
    BY <1>1, <1>2, <1>10, <1>12, <2>1 DEF AtEntry
<1>14. ASSUME NEW j \in Nat, m <= j PROVE Pos(f, j) + f.entry > b * f.interval
  <2>1. Pos(f, m) <= Pos(f, j)
    BY <1>14 DEF Readable, Pos, Header
  <2>2. Pos(f, m) + e > pos
    BY <1>1, <1>5
  <2>3. Pos(f, m) \in Nat /\ Pos(f, j) \in Nat
    BY <1>3, PosFacts
  <2> QED
    BY <1>1, <1>2, <2>1, <2>2, <2>3
<1>15. ASSUME NEW j \in Nat, j < k PROVE Pos(f, j) <= b * f.interval + f.interval
  <2>1. Pos(f, j) + e <= Pos(f, k)
    BY <1>1, <1>15 DEF Pos, Header
  <2>2. Pos(f, j) \in Nat
    BY <1>3, PosFacts
  <2> QED
    BY <1>1, <1>2, <1>12, <2>1, <2>2
<1>16. t.skip <= f.entry
  BY <1>1, <1>6, <1>10
<1> QED
  BY <1>10, <1>11, <1>13, <1>14, <1>15, <1>16

\* After the last block the reader goes on to the trailer.
LEMMA Rest ==
  ASSUME NEW f, Readable(f), NEW s, Reader(s), ~s.panic,
         NEW m \in Nat, AtEntry(f, s, Blocks(f), m), NEW t, t = ReadRest(f, s)
  PROVE  /\ ~t.panic <=> s.skip <= FileEnd(f) - Blocks(f) * f.interval
         /\ ~t.panic => Ends(f, s, m, t)
<1>1. PICK I \in Nat, e \in {32, 48}, n \in Nat :
         I = f.interval /\ e = f.entry /\ n = f.n /\ I >= 32
  BY DEF Readable, GoodHeader, Header
<1>2. PICK pos \in Nat, to \in Nat : /\ pos = Blocks(f) * I /\ to = FileEnd(f) /\ pos <= to
  BY <1>1, BlockFacts
<1>3. Sized(f)
  BY DEF Readable, Sized
<1>4. PICK from \in Nat : from = Pos(f, m)
  BY <1>3, PosFacts
<1>5. from = IF s.skip # 0 THEN pos + s.skip ELSE pos - s.left
  BY <1>1, <1>2, <1>4 DEF AtEntry, From
<1>6. From(s, pos) = from
  BY <1>5 DEF From
<1>7. CASE s.skip > to - pos
  <2>1. t = [s EXCEPT !.panic = TRUE]
    BY <1>1, <1>2, <1>7, Zenon DEF ReadRest
  <2>2. t.panic
    BY <2>1 DEF Reader
  <2>3. ~(s.skip <= to - pos)
    BY <1>7 DEF Reader
  <2> QED
    BY <1>1, <1>2, <2>2, <2>3
<1>8. CASE s.skip <= to - pos
  <2>1. from <= to
    <3>1. s.skip \in Nat /\ s.left \in Nat
      BY DEF Reader
    <3>2. CASE s.skip = 0
      BY <1>2, <1>5, <3>1, <3>2
    <3>3. CASE s.skip # 0
      BY <1>2, <1>5, <1>8, <3>1, <3>3
    <3> QED
      BY <3>2, <3>3
  <2>2. to = 32 + n * e + I /\ from = 32 + m * e
    BY <1>1, <1>2, <1>3, <1>4, PosFacts DEF FileEnd, EntriesEnd, Header
  <2>3. ~(s.skip > to - pos)
    BY <1>8 DEF Reader
  <2>4. ReadRest(f, s) =
          [s EXCEPT !.read = @ \o Cut(f, from, IF to - from >= Trailer THEN to - Trailer ELSE to),
                    !.noTerm = ~(to - from >= Trailer)]
    BY <1>1, <1>2, <1>6, <2>3, Zenon DEF ReadRest
  <2>5. CASE to - from >= 8
    <3>1. PICK end \in Nat : end = to - 8 /\ from <= end /\ end <= to
      BY <2>1, <2>5
    <3>2. (to - from >= Trailer) = TRUE /\ to - Trailer = end
      BY <2>5, <3>1 DEF Trailer
    <3>3. t = [s EXCEPT !.read = @ \o Cut(f, from, end), !.noTerm = FALSE]
      BY <2>4, <3>2
    <3>4. PICK q \in Nat : q = (end - from) \div e /\ Cut(f, from, end) = Run(f, m, q)
      BY <1>1, <1>2, <1>4, <3>1, CutIs
    <3>5. t.panic = s.panic /\ t.noTerm = FALSE /\ t.read = s.read \o Run(f, m, q)
      BY <3>3, <3>4 DEF Reader
    <3>6. m + q >= n
      <4>1. CASE e = 32
        BY <1>1, <2>2, <3>1, <3>4, <4>1
      <4>2. CASE e = 48
        BY <1>1, <2>2, <3>1, <3>4, <4>2
      <4> QED
        BY <4>1, <4>2
    <3>7. PICK p \in Nat : p = Pos(f, m + q) /\ p <= end
      <4>1. Pos(f, m + q) = from + q * e
        BY <1>1, <1>3, <1>4, PosFacts
      <4>2. q * e <= end - from
        BY <1>1, <3>1, <3>4
      <4> QED
        BY <1>1, <3>1, <4>1, <4>2
    <3>8. ~(to - from < 8) /\ ~(to - p < 8) /\ p <= to
      BY <2>5, <3>1, <3>7
    <3>9. EndsAt(f, s, m, t, q)
      BY <1>1, <1>2, <1>4, <3>5, <3>6, <3>7, <3>8 DEF EndsAt
    <3> QED
      BY <1>1, <1>2, <1>8, <3>5, <3>9, Zenon DEF Ends
  <2>6. CASE ~(to - from >= 8)
    <3>1. (to - from >= Trailer) = FALSE
      BY <2>6 DEF Trailer
    <3>2. t = [s EXCEPT !.read = @ \o Cut(f, from, to), !.noTerm = TRUE]
      BY <2>4, <3>1
    <3>3. Cut(f, from, to) = Run(f, m, (to - from) \div e)
      BY <1>1, <1>2, <1>4, <2>1, CutIs
    <3>4. (to - from) \div e = 0
      BY <1>1, <2>1, <2>6
    <3>5. t.panic = s.panic /\ t.noTerm = TRUE /\ t.read = s.read \o Run(f, m, 0)
      <4>1. t = [s EXCEPT !.read = @ \o Run(f, m, 0), !.noTerm = TRUE]
        BY <3>2, <3>3, <3>4
      <4> QED
        BY <4>1 DEF Reader
    <3>6. m + 0 >= n
      <4>1. CASE e = 32
        BY <1>1, <2>2, <2>6, <4>1
      <4>2. CASE e = 48
        BY <1>1, <2>2, <2>6, <4>2
      <4> QED
        BY <4>1, <4>2
    <3>7. Pos(f, m + 0) = from /\ to - from < 8
      BY <1>4, <2>1, <2>6
    <3>8. EndsAt(f, s, m, t, 0)
      BY <1>1, <1>2, <1>4, <2>1, <3>5, <3>6, <3>7 DEF EndsAt
    <3> QED
      BY <1>1, <1>2, <1>8, <3>5, <3>8, Zenon DEF Ends
  <2> QED
    BY <2>5, <2>6
<1>9. s.skip > to - pos \/ s.skip <= to - pos
  BY DEF Reader
<1> QED
  BY <1>1, <1>2, <1>7, <1>8, <1>9

StartOfTOC == [skip |-> Header, left |-> 0, read |-> <<>>, noTerm |-> FALSE, panic |-> FALSE]

\* ReadTOC starts at the header, reads every block and then the rest.
LEMMA ReadsBlocks ==
  ASSUME NEW f, Readable(f)
  PROVE  \E g : /\ g[0] = StartOfTOC
                /\ \A b \in Nat : b < Blocks(f) => g[b + 1] = ReadBlock(f, g[b], b)
                /\ ReadTOC(f) = ReadRest(f, g[Blocks(f)])
<1>1. PICK N \in Nat : N = Blocks(f)
  BY BlockFacts
<1>2. PICK start : start = StartOfTOC
  OBVIOUS
<1> DEFINE Body(g, b) == IF b = 0 THEN start ELSE ReadBlock(f, g[b - 1], b - 1)
           Eqn(g) == g = [b \in 0..N |-> Body(g, b)]
           after == CHOOSE g : Eqn(g)
<1>3. \E g : Eqn(g)
  <2>1. \E g : ReaderAfter(f, start, g, N)
    BY ReaderRuns
  <2> QED
    BY <2>1 DEF ReaderAfter
<1>4. Eqn(after)
  <2> HIDE DEF Eqn
  <2> QED
    BY <1>3
<1>5. ReadTOC(f) = ReadRest(f, after[N])
  BY <1>1, <1>2 DEF ReadTOC, StartOfTOC, Readable
<1> HIDE DEF after
<1>6. \A b \in 0..N : after[b] = Body(after, b)
  <2> HIDE DEF Body
  <2> QED
    BY <1>4
<1>7. after[0] = StartOfTOC
  <2>1. 0 \in 0..N
    OBVIOUS
  <2> QED
    BY <1>2, <1>6, <2>1
<1>8. ASSUME NEW b \in Nat, b < N PROVE after[b + 1] = ReadBlock(f, after[b], b)
  <2>1. b + 1 \in 0..N /\ b + 1 # 0 /\ (b + 1) - 1 = b
    BY <1>8
  <2> QED
    BY <1>6, <2>1
<1> QED
  BY <1>1, <1>5, <1>7, <1>8

\* The reader starts at the first place.
LEMMA StartFacts ==
  ASSUME NEW f, Readable(f)
  PROVE  /\ Reader(StartOfTOC) /\ ~StartOfTOC.panic /\ StartOfTOC.skip = 32
         /\ StartOfTOC.read = <<>> /\ AtEntry(f, StartOfTOC, 0, 0)
<1>1. PICK s : s = StartOfTOC
  OBVIOUS
<1>2. /\ s.skip = 32 /\ s.left = 0 /\ s.read = <<>> /\ s.panic = FALSE
      /\ DOMAIN s = {"skip", "left", "read", "noTerm", "panic"}
  BY <1>1 DEF StartOfTOC, Header
<1>3. Reader(s)
  <2>1. <<>> \in Seq(Nat)
    BY EmptySeq
  <2>2. {"skip", "left", "read", "noTerm", "panic"} \subseteq DOMAIN s
    BY <1>2
  <2>3. s.skip \in Nat /\ s.left \in Nat
    BY <1>2
  <2>5. s.panic \in BOOLEAN
    BY <1>2, Zenon
  <2>4. s.read \in Seq(Nat)
    BY <1>2, <2>1
  <2> QED
    BY <2>2, <2>3, <2>4, <2>5 DEF Reader
<1>4. 0 * f.interval = 0
  BY BlockFacts
<1>5. AtEntry(f, s, 0, 0)
  BY <1>2, <1>4 DEF AtEntry, From, Pos, Header, Readable
<1> QED
  BY <1>1, <1>2, <1>3, <1>5

\* The entries up to a place, and those from there on.
LEMMA CountConcat ==
  ASSUME NEW f, Readable(f), NEW m \in Nat, NEW q \in Nat
  PROVE  Seg(f, 0, Count(f, 0, m)) \o Seg(f, m, Count(f, m, q)) = Seg(f, 0, Count(f, 0, m + q))
<1>1. PICK n \in Nat : n = f.n
  BY DEF Readable
<1>2. Sized(f)
  BY DEF Readable, Sized
<1>3. CASE m >= n
  <2>1. Count(f, m, q) = 0 /\ Count(f, 0, m) = n /\ Count(f, 0, m + q) = n
    BY <1>1, <1>3 DEF Count
  <2>2. Seg(f, 0, n) \in Seq(Nat)
    BY <1>2, SegFacts
  <2>3. Seg(f, m, 0) = <<>>
    <3>1. Seg(f, m, 0) \in Seq(Nat) /\ Len(Seg(f, m, 0)) = 0
      BY <1>2, SegFacts
    <3> QED
      BY <3>1, EmptySeq
  <2> QED
    BY <2>1, <2>2, <2>3, ConcatEmptySeq
<1>4. CASE m < n
  <2>1. PICK c \in Nat : c = Count(f, m, q)
    BY <1>1, <1>4 DEF Count
  <2>2. Count(f, 0, m) = m /\ Count(f, 0, m + q) = m + c
    BY <1>1, <1>4, <2>1 DEF Count
  <2>3. Seg(f, 0, m) \o Seg(f, m, c) = Seg(f, 0, m + c)
    BY <1>2, SegConcat, Zenon
  <2> QED
    BY <2>1, <2>2, <2>3, Zenon
<1> QED
  BY <1>1, <1>3, <1>4

\* Reading on from a place within the file.
LEMMA RunConcat ==
  ASSUME NEW f, Readable(f), NEW m \in Nat, NEW q \in Nat, Pos(f, m + q) <= FileEnd(f)
  PROVE  Run(f, 0, m) \o Run(f, m, q) = Run(f, 0, m + q)
<1>1. PICK n \in Nat, e \in {32, 48} : n = f.n /\ e = f.entry
  BY DEF Readable
<1>2. Sized(f)
  BY DEF Readable, Sized
<1>3. CASE q = 0
  <2>1. Run(f, m, q) = <<>> /\ Run(f, 0, m) \in Seq(Nat)
    BY <1>3, RunFacts
  <2>2. m + q = m
    BY <1>3
  <2> QED
    BY <2>1, <2>2, ConcatEmptySeq
<1>4. CASE q # 0
  <2>1. PICK s, t, u : s = Seg(f, 0, Count(f, 0, m)) /\ t = Seg(f, m, Count(f, m, q))
                       /\ u = Seg(f, 0, Count(f, 0, m + q))
    OBVIOUS
  <2>2. s \o t = u
    BY <2>1, CountConcat, Zenon
  <2>3. s \in Seq(Nat) /\ t \in Seq(Nat)
    <3>1. Count(f, 0, m) \in Nat /\ Count(f, m, q) \in Nat
      BY DEF Count, Readable
    <3> QED
      BY <1>2, <2>1, <3>1, SegFacts
  <2>4. ~AtLast(f, 0, m)
    <3>1. LastPlace(f) \in Int /\ FileEnd(f) \in Nat /\ FileEnd(f) < LastPlace(f) + f.entry + f.entry
      BY LastFacts, Zenon
    <3>2. Pos(f, m + q) = Pos(f, m) + q * f.entry /\ Pos(f, m) \in Nat
      BY <1>2, PosFacts
    <3>3. q * e >= e
      BY <1>1, <1>4
    <3>4. 0 + m = m
      OBVIOUS
    <3> QED
      BY <1>1, <3>1, <3>2, <3>3, <3>4 DEF AtLast
  <2>5. Run(f, 0, m) = s
    BY <2>1, <2>4 DEF Run
  <2>6. AtLast(f, m, q) <=> AtLast(f, 0, m + q)
    <3>1. 0 + (m + q) = m + q /\ q > 0 /\ m + q > 0
      BY <1>4
    <3> QED
      BY <3>1, Zenon DEF AtLast
  <2>7. CASE ~AtLast(f, m, q)
    <3>1. Run(f, m, q) = t /\ Run(f, 0, m + q) = u
      BY <2>1, <2>6, <2>7 DEF Run
    <3> QED
      BY <2>2, <2>5, <3>1
  <2>8. CASE AtLast(f, m, q)
    <3>1. PICK x \in Nat : x = LastPlace(f)
      BY <2>8, LastFacts DEF AtLast
    <3>2. Run(f, m, q) = Append(t, x) /\ Run(f, 0, m + q) = Append(u, x)
      BY <2>1, <2>6, <2>8, <3>1 DEF Run
    <3>3. Append(t, x) = t \o <<x>> /\ <<x>> \in Seq(Nat)
      BY <2>3, AppendIsConcat
    <3>4. s \o (t \o <<x>>) = (s \o t) \o <<x>>
      BY <2>3, <3>3, ConcatAssociative
    <3>5. u \in Seq(Nat)
      BY <2>2, <2>3, ConcatProperties
    <3>6. Append(u, x) = u \o <<x>>
      BY <3>5, AppendIsConcat
    <3> QED
      BY <2>2, <2>5, <3>2, <3>3, <3>4, <3>6
  <2> QED
    BY <2>7, <2>8
<1> QED
  BY <1>3, <1>4

\* Whether the reader of an intact file misses the terminator: it is at m when the last block
\* is done, and what is left from there on is shorter than the trailer.
LEMMA TermMissed ==
  ASSUME NEW f, Readable(f), NEW m \in Nat, Pos(f, m) <= Blocks(f) * f.interval,
         Blocks(f) * f.interval < Pos(f, m) + f.entry
  PROVE  FileEnd(f) - Pos(f, m) < 8 <=>
           f.interval % f.entry < 8 /\ EntriesEnd(f) % f.interval <= f.interval % f.entry
<1>1. PICK I \in Nat, n \in Nat, B \in Nat, F \in Nat, e \in {32, 48} :
         /\ I = f.interval /\ n = f.n /\ B = Blocks(f) /\ F = FileEnd(f) /\ e = f.entry /\ I >= 32
         /\ B * I \in Nat /\ B * I <= F /\ F < B * I + I
  BY BlockFacts DEF Readable
<1>2. PICK p \in Nat : p = B * I
  BY <1>1
<1>3. PICK over \in Nat : over = I % e /\ over < e
  BY <1>1
<1>4. F = 32 + n * e + I /\ EntriesEnd(f) = F - I
  BY <1>1 DEF FileEnd, EntriesEnd, Header
<1>5. EntriesEnd(f) % I = F - p
  <2>1. PICK b \in Nat, a \in Nat : b = B - 1 /\ a = F - I
    <3>1. B # 0
      BY <1>1, BlockFacts
    <3> QED
      BY <1>1, <1>4, <3>1
  <2>2. I * b = p - I
    BY <1>1, <1>2, <2>1
  <2>3. I * b <= a /\ a < I * b + I
    BY <1>1, <1>2, <2>1, <2>2
  <2>4. a % I = a - I * b
    BY <1>1, <2>3, RemainderIs
  <2>5. a - I * b = F - p
    BY <1>1, <2>1, <2>2
  <2> QED
    BY <1>1, <1>4, <2>1, <2>4, <2>5
<1>6. PICK from \in Nat : from = Pos(f, m) /\ from = 32 + m * e /\ from <= p /\ p < from + e
  <2>1. Sized(f)
    BY DEF Readable, Sized
  <2>2. Pos(f, m) \in Nat /\ Pos(f, m) = Header + m * f.entry
    BY <2>1, PosFacts
  <2> QED
    BY <1>1, <1>2, <2>2 DEF Header
<1>7. F - from < 8 <=> over < 8 /\ F - p <= over
  <2>1. CASE e = 32
    BY <1>1, <1>2, <1>3, <1>4, <1>6, <2>1
  <2>2. CASE e = 48
    BY <1>1, <1>2, <1>3, <1>4, <1>6, <2>2
  <2> QED
    BY <2>1, <2>2
<1> QED
  BY <1>1, <1>3, <1>5, <1>6, <1>7

\* A file without corrupt blocks is read from its first entry to its last.
LEMMA IntactReads ==
  ASSUME NEW f, Readable(f), f.corrupt = {}, NEW r, r = ReadTOC(f)
  PROVE  /\ r.noTerm <=> f.interval % f.entry < 8 /\ EntriesEnd(f) % f.interval <= f.interval % f.entry
         /\ r.read = IF r.noTerm /\ TermIsOffset(f) THEN Append(Entries(f), LastPlace(f))
                     ELSE Entries(f)
         /\ ~r.panic
<1>1. PICK g : /\ g[0] = StartOfTOC
               /\ \A b \in Nat : b < Blocks(f) => g[b + 1] = ReadBlock(f, g[b], b)
               /\ ReadTOC(f) = ReadRest(f, g[Blocks(f)])
  BY ReadsBlocks
<1>2. PICK N \in Nat \ {0} : N = Blocks(f)
  BY BlockFacts
<1> DEFINE Good(s, b, m) == /\ Reader(s) /\ ~s.panic /\ AtEntry(f, s, b, m)
                            /\ s.skip = IF b = 0 THEN 32 ELSE 0
                            /\ s.read = Run(f, 0, m)
           S == {b \in Nat : b <= N => \E m \in Nat : Good(g[b], b, m)}
<1>3. 0 \in S
  <2>1. Run(f, 0, 0) = <<>>
    BY RunFacts
  <2>3. Good(g[0], 0, 0)
    BY <1>1, <2>1, StartFacts
  <2> HIDE DEF Good
  <2> QED
    BY <2>3
<1>4. ASSUME NEW b \in Nat, b \in S PROVE b + 1 \in S
  <2> SUFFICES ASSUME b + 1 <= N PROVE \E m \in Nat : Good(g[b + 1], b + 1, m)
    OBVIOUS
  <2>1. PICK m \in Nat : Good(g[b], b, m)
    <3>1. b <= N
      OBVIOUS
    <3> HIDE DEF Good
    <3> QED
      BY <1>4, <3>1
  <2>2. PICK s, t : s = g[b] /\ t = g[b + 1]
    OBVIOUS
  <2>3. t = ReadBlock(f, s, b) /\ b < Blocks(f) /\ b \notin f.corrupt
    BY <1>1, <1>2, <2>2
  <2>4. s.skip <= f.interval
    <3>1. f.interval \in Nat /\ f.interval >= 32
      BY BlockFacts, Zenon
    <3>2. s.skip = 32 \/ s.skip = 0
      BY <2>1, <2>2
    <3> QED
      BY <3>1, <3>2
  <2>5. PICK q \in Nat : /\ Reader(t) /\ ~t.panic /\ t.skip = 0 /\ AtEntry(f, t, b + 1, m + q)
                         /\ t.read = s.read \o Run(f, m, q) /\ Pos(f, m + q) <= FileEnd(f)
    <3>1. Reader(s) /\ ~s.panic /\ AtEntry(f, s, b, m)
      BY <2>1, <2>2
    <3>2. /\ Reader(t)
          /\ s.skip <= f.interval =>
               /\ ~t.panic /\ t.skip = 0 /\ GoesOn(f, s, m, t, b + 1)
      BY <2>3, <3>1, IntactBlock
    <3> QED
      BY <2>4, <3>2 DEF GoesOn
  <2>6. t.read = Run(f, 0, m + q)
    <3>1. s.read = Run(f, 0, m)
      BY <2>1, <2>2
    <3>3. Pos(f, m + q) <= FileEnd(f)
      BY <2>5
    <3>2. Run(f, 0, m) \o Run(f, m, q) = Run(f, 0, m + q)
      BY <3>3, RunConcat
    <3> QED
      BY <2>5, <3>1, <3>2, Zenon
  <2>7. Good(t, b + 1, m + q)
    <3>1. b + 1 # 0
      OBVIOUS
    <3> QED
      BY <2>5, <2>6, <3>1, Zenon
  <2>8. m + q \in Nat
    OBVIOUS
  <2> HIDE DEF Good
  <2> QED
    BY <2>2, <2>7, <2>8, Zenon
<1> HIDE DEF S
<1>5. Nat \subseteq S
  BY <1>3, <1>4, SetInduction
<1>6. PICK m \in Nat : Good(g[N], N, m)
  <2>1. N \in S
    BY <1>5
  <2> HIDE DEF Good
  <2> QED
    BY <2>1 DEF S
<1>7. PICK s : s = g[Blocks(f)]
  OBVIOUS
<1>8. r = ReadRest(f, s) /\ AtEntry(f, s, Blocks(f), m) /\ Reader(s) /\ ~s.panic /\ s.skip = 0
      /\ s.read = Run(f, 0, m)
  BY <1>1, <1>2, <1>6, <1>7
<1>9. s.skip <= FileEnd(f) - Blocks(f) * f.interval
  <2>1. FileEnd(f) \in Nat /\ Blocks(f) * f.interval \in Nat /\ Blocks(f) * f.interval <= FileEnd(f)
    BY BlockFacts, Zenon
  <2> QED
    BY <1>8, <2>1
<1>10. ~r.panic /\ Ends(f, s, m, r)
  <2>1. /\ ~r.panic <=> s.skip <= FileEnd(f) - Blocks(f) * f.interval
        /\ ~r.panic => Ends(f, s, m, r)
    <3>1. Reader(s) /\ ~s.panic /\ r = ReadRest(f, s) /\ AtEntry(f, s, Blocks(f), m)
      BY <1>8
    <3> QED
      BY <3>1, Rest
  <2> QED
    BY <1>9, <2>1
<1>14. PICK q \in Nat : EndsAt(f, s, m, r, q)
  BY <1>10 DEF Ends
<1>11. r.read = Run(f, 0, m + q)
  <2>1. Run(f, 0, m) \o Run(f, m, q) = Run(f, 0, m + q)
    BY <1>14, RunConcat DEF EndsAt
  <2> QED
    BY <1>8, <1>14, <2>1, Zenon DEF EndsAt
<1>12. Count(f, 0, m + q) = f.n
  BY <1>14 DEF Count, Readable, EndsAt
<1>15. r.noTerm <=> f.interval % f.entry < 8 /\ EntriesEnd(f) % f.interval <= f.interval % f.entry
  <2>1. PICK p \in Nat, e \in {32, 48}, x \in Nat :
           p = Blocks(f) * f.interval /\ e = f.entry /\ x = Pos(f, m)
    <3>1. Pos(f, m) \in Nat
      BY PosFacts DEF Readable, Sized
    <3>2. Blocks(f) * f.interval \in Nat
      BY BlockFacts, Zenon
    <3> QED
      BY <3>1, <3>2 DEF Readable
  <2>2. x = p - s.left /\ s.left < e /\ s.left \in Nat
    BY <1>8, <2>1 DEF AtEntry, From, Reader
  <2>3. x <= p /\ p < x + e
    BY <2>1, <2>2
  <2>4. FileEnd(f) - Pos(f, m) < 8 <=>
           f.interval % f.entry < 8 /\ EntriesEnd(f) % f.interval <= f.interval % f.entry
    BY <2>1, <2>3, TermMissed
  <2> QED
    BY <1>14, <2>4 DEF EndsAt
<1>16. AtLast(f, 0, m + q) <=> r.noTerm /\ TermIsOffset(f)
  <2>1. PICK x \in Nat : x = Pos(f, m + q) /\ x = 32 + (m + q) * f.entry /\ x <= FileEnd(f)
    <3>1. Sized(f) /\ m + q \in Nat
      BY DEF Readable, Sized
    <3>2. Pos(f, m + q) \in Nat /\ Pos(f, m + q) = Header + (m + q) * f.entry
      BY <3>1, PosFacts
    <3> QED
      BY <1>14, <3>2 DEF EndsAt, Header
  <2>2. r.noTerm <=> FileEnd(f) - x < 8
    BY <1>14, <2>1 DEF EndsAt
  <2>3. ASSUME TermIsOffset(f)
        PROVE  FileEnd(f) - x < 8 <=> m + q > 0 /\ x = LastPlace(f) + f.entry
    <3>1. PICK n \in Nat, I \in Nat, k \in Nat : n = f.n /\ I = f.interval /\ I >= 32 /\ k = m + q
      BY DEF Readable, GoodHeader, Header
    <3>2. CASE f.entry = 32
      BY <2>1, <2>3, <3>1, <3>2 DEF LastPlace, TermIsOffset, EntriesEnd, FileEnd, Header
    <3>3. CASE f.entry = 48
      <4>1. PICK over \in 0..47 : over = I % 48
        BY <3>1
      <4>2. PICK c \in Int : I = 48 * c + over
        BY <3>1, <4>1
      <4>3. over < 4
        BY <2>3, <3>1, <3>3, <4>1 DEF TermIsOffset
      <4>4. FileEnd(f) = 32 + n * 48 + I
        BY <3>1, <3>3 DEF EntriesEnd, FileEnd, Header
      <4>5. LastPlace(f) + f.entry = 32 + n * 48 + I - over
        BY <3>1, <3>3, <4>1, <4>4 DEF LastPlace
      <4>6. x = 32 + k * 48
        BY <2>1, <3>1, <3>3
      <4>7. c >= 1 /\ k <= n + c
        BY <2>1, <3>1, <4>2, <4>3, <4>4, <4>6
      <4>8. FileEnd(f) - x < 8 <=> k = n + c
        BY <3>1, <4>2, <4>3, <4>4, <4>6, <4>7
      <4>9. x = LastPlace(f) + f.entry <=> k = n + c
        BY <3>1, <4>2, <4>5, <4>6
      <4> QED
        BY <3>1, <4>7, <4>8, <4>9
    <3> QED
      BY <3>2, <3>3 DEF Readable
  <2>4. 0 + (m + q) = m + q
    OBVIOUS
  <2> QED
    BY <2>1, <2>2, <2>3, <2>4, Zenon DEF AtLast
<1>13. Seg(f, 0, f.n) = Entries(f)
  <2>1. \A j \in 1..f.n : Pos(f, 0 + j - 1) = Header + (j - 1) * f.entry
    BY DEF Pos, Readable
  <2> QED
    BY <2>1 DEF Seg, Entries
<1>17. Run(f, 0, m + q) = IF r.noTerm /\ TermIsOffset(f) THEN Append(Entries(f), LastPlace(f))
                          ELSE Entries(f)
  BY <1>12, <1>13, <1>16, Zenon DEF Run
<1> QED
  BY <1>10, <1>11, <1>15, <1>17

\* The size of a file tells the number of its blocks, and so of its entries.
LEMMA StatCounts ==
  ASSUME NEW f, Readable(f)
  PROVE  TOCStat(f) = f.n
<1>1. PICK I \in Nat, n \in Nat, B \in Nat, F \in Nat :
         /\ I = f.interval /\ n = f.n /\ B = Blocks(f) /\ F = FileEnd(f) /\ I >= 32
         /\ B * I \in Nat /\ B * I <= F /\ F < B * I + I
  BY BlockFacts DEF Readable
<1>2. Size(f) = F + B * 4
  BY <1>1 DEF Size, Checksum
<1>3. (F + B * 4) \div (I + 4) = B
  <2>1. (I + 4) * B = B * I + B * 4
    BY <1>1
  <2>2. (I + 4) * B <= F + B * 4 /\ F + B * 4 < (I + 4) * B + (I + 4)
    BY <1>1, <2>1
  <2>3. F + B * 4 \in Nat /\ I + 4 \in Nat \ {0}
    BY <1>1
  <2> QED
    BY <2>2, <2>3, QuotientIs
<1>4. F - 32 - I = n * f.entry
  BY <1>1 DEF FileEnd, EntriesEnd, Header, Readable
<1>5. TOCStat(f) = (F + B * 4 - B * 4 - 32 - I) \div f.entry
  <2>1. PICK z \in Nat : z = Size(f) /\ z = F + B * 4 /\ z \div (I + 4) = B
    BY <1>1, <1>2, <1>3
  <2>2. TOCStat(f) = (z - (z \div (I + 4)) * 4 - 32 - I) \div f.entry
    BY <1>1, <2>1, Zenon DEF TOCStat, Checksum, Header
  <2> QED
    BY <2>1, <2>2
<1>6. F + B * 4 - B * 4 - 32 - I = n * f.entry
  BY <1>1, <1>4
<1>7. (n * f.entry) \div f.entry = n
  <2>1. CASE f.entry = 32
    BY <1>1, <2>1
  <2>2. CASE f.entry = 48
    BY <1>1, <2>2
  <2> QED
    BY <2>1, <2>2 DEF Readable
<1> QED
  BY <1>1, <1>5, <1>6, <1>7

\* The elements of a sequence.
Els(s) == {s[i] : i \in 1..Len(s)}

\* The elements of two sequences in a row.
LEMMA ElsConcat ==
  ASSUME NEW s \in Seq(Nat), NEW t \in Seq(Nat)
  PROVE  Els(s \o t) = Els(s) \cup Els(t)
<1>1. PICK m \in Nat, n \in Nat : m = Len(s) /\ n = Len(t)
  BY LenProperties
<1>2. PICK u : u = s \o t
  OBVIOUS
<1>3. /\ Len(u) = m + n
      /\ \A i \in 1..(m + n) : u[i] = IF i <= m THEN s[i] ELSE t[i - m]
  BY <1>1, <1>2, ConcatProperties
<1>4. ASSUME NEW i \in 1..(m + n) PROVE u[i] \in Els(s) \cup Els(t)
  <2>1. CASE i <= m
    BY <1>1, <1>3, <2>1 DEF Els
  <2>2. CASE ~(i <= m)
    <3>1. i - m \in 1..n
      BY <2>2
    <3> QED
      BY <1>1, <1>3, <2>2, <3>1 DEF Els
  <2> QED
    BY <2>1, <2>2
<1>5. ASSUME NEW i \in 1..m PROVE s[i] \in Els(u)
  <2>1. i \in 1..(m + n) /\ i <= m
    OBVIOUS
  <2> QED
    BY <1>3, <2>1 DEF Els
<1>6. ASSUME NEW i \in 1..n PROVE t[i] \in Els(u)
  <2>1. m + i \in 1..(m + n) /\ ~(m + i <= m) /\ (m + i) - m = i
    OBVIOUS
  <2>2. u[m + i] = t[i]
    BY <1>3, <2>1
  <2> QED
    BY <1>3, <2>1, <2>2 DEF Els
<1>7. Els(u) \subseteq Els(s) \cup Els(t)
  BY <1>3, <1>4 DEF Els
<1>8. Els(s) \subseteq Els(u)
  BY <1>1, <1>5 DEF Els
<1>9. Els(t) \subseteq Els(u)
  BY <1>1, <1>6 DEF Els
<1> QED
  BY <1>2, <1>7, <1>8, <1>9

\* Reading on from a place adds the entries in the places that follow.
LEMMA SegEls ==
  ASSUME NEW f, Readable(f), NEW m \in Nat, NEW q \in Nat, NEW seg, seg = Seg(f, m, Count(f, m, q))
  PROVE  /\ seg \in Seq(Nat)
         /\ Els(seg) \subseteq {Pos(f, j) : j \in 0..(f.n - 1)}
         /\ \A j \in 0..(f.n - 1) : m <= j /\ j < m + q => Pos(f, j) \in Els(seg)
<1>1. PICK n \in Nat, c \in Nat : /\ n = f.n /\ c = Count(f, m, q)
                                  /\ c = IF m >= n THEN 0 ELSE IF m + q <= n THEN q ELSE n - m
  BY DEF Readable, Count
<1>2. seg \in Seq(Nat) /\ Len(seg) = c
  <2>1. Sized(f)
    BY DEF Readable, Sized
  <2> QED
    BY <1>1, <2>1, SegFacts
<1>3. \A i \in 1..c : seg[i] = Pos(f, m + i - 1)
  BY <1>1, SegAt
<1>4. ASSUME NEW i \in 1..c PROVE seg[i] \in {Pos(f, j) : j \in 0..(n - 1)}
  <2>1. m + i - 1 \in 0..(n - 1)
    BY <1>1
  <2> QED
    BY <1>3, <2>1
<1>5. ASSUME NEW j \in 0..(n - 1), m <= j, j < m + q PROVE Pos(f, j) \in Els(seg)
  <2>1. j - m + 1 \in 1..c /\ m + (j - m + 1) - 1 = j
    BY <1>1, <1>5
  <2>2. seg[j - m + 1] = Pos(f, j)
    BY <1>3, <2>1
  <2> QED
    BY <1>2, <2>1, <2>2 DEF Els
<1> QED
  BY <1>1, <1>2, <1>4, <1>5 DEF Els

\* Where the trailer may be taken for an offset.
Last(f) == IF TermIsOffset(f) THEN {LastPlace(f)} ELSE {}

\* What is read besides entries is that place.
LEMMA RunEls ==
  ASSUME NEW f, Readable(f), NEW m \in Nat, NEW q \in Nat, NEW run, run = Run(f, m, q)
  PROVE  /\ run \in Seq(Nat)
         /\ Els(run) \subseteq {Pos(f, j) : j \in 0..(f.n - 1)} \cup Last(f)
         /\ \A j \in 0..(f.n - 1) : m <= j /\ j < m + q => Pos(f, j) \in Els(run)
<1>1. PICK seg : seg = Seg(f, m, Count(f, m, q))
  OBVIOUS
<1>2. /\ seg \in Seq(Nat)
      /\ Els(seg) \subseteq {Pos(f, j) : j \in 0..(f.n - 1)}
      /\ \A j \in 0..(f.n - 1) : m <= j /\ j < m + q => Pos(f, j) \in Els(seg)
  BY <1>1, SegEls
<1>3. CASE ~AtLast(f, m, q)
  <2>1. run = seg
    BY <1>1, <1>3 DEF Run
  <2> QED
    BY <1>2, <2>1
<1>4. CASE AtLast(f, m, q)
  <2>1. PICK x \in Nat : x = LastPlace(f)
    BY <1>4, LastFacts DEF AtLast
  <2>2. run = Append(seg, x) /\ x \in Last(f)
    BY <1>1, <1>4, <2>1 DEF Run, AtLast, Last
  <2>3. Append(seg, x) = seg \o <<x>> /\ <<x>> \in Seq(Nat)
    BY <1>2, AppendIsConcat
  <2>4. Els(run) = Els(seg) \cup Els(<<x>>)
    BY <1>2, <2>2, <2>3, ElsConcat
  <2>5. Els(<<x>>) = {x}
    BY DEF Els
  <2>6. run \in Seq(Nat)
    BY <1>2, <2>2, AppendProperties
  <2> QED
    BY <1>2, <2>2, <2>4, <2>5, <2>6
<1> QED
  BY <1>3, <1>4

\* The place of an entry is outside the block b and does not start where that ends.
OutsideOf(f, b, j) == \/ Pos(f, j) + f.entry <= b * f.interval
                      \/ Pos(f, j) > b * f.interval + f.interval

\* What a reader at place m has read, where block c is corrupt: entries only, but for the last
\* place, and all of them
\* that are before that place and outside the block.
HasRead(f, s, m, c) ==
  /\ Els(s.read) \subseteq {Pos(f, j) : j \in 0..(f.n - 1)} \cup Last(f)
  /\ \A j \in 0..(f.n - 1) : j < m /\ OutsideOf(f, c, j) => Pos(f, j) \in Els(s.read)

\* Whoever has read what it should goes on to have read what it should.
LEMMA ReadsOn ==
  ASSUME NEW f, Readable(f), NEW s, Reader(s), NEW m \in Nat, NEW q \in Nat, NEW c,
         HasRead(f, s, m, c), NEW t, t.read = s.read \o Run(f, m, q)
  PROVE  HasRead(f, t, m + q, c)
<1>1. PICK seg, read : seg = Run(f, m, q) /\ read = s.read
  OBVIOUS
<1>2. seg \in Seq(Nat) /\ read \in Seq(Nat)
  BY <1>1, RunEls DEF Reader
<1>3. Els(t.read) = Els(read) \cup Els(seg)
  BY <1>1, <1>2, ElsConcat
<1>4. Els(seg) \subseteq {Pos(f, j) : j \in 0..(f.n - 1)} \cup Last(f)
  BY <1>1, RunEls
<1>5. ASSUME NEW j \in 0..(f.n - 1), j < m + q, OutsideOf(f, c, j)
      PROVE  Pos(f, j) \in Els(read) \cup Els(seg)
  <2>1. j < m \/ m <= j
    BY DEF Readable
  <2>2. CASE j < m
    BY <1>1, <1>5, <2>2 DEF HasRead
  <2>3. CASE m <= j
    BY <1>1, <1>5, <2>3, RunEls
  <2> QED
    BY <2>1, <2>2, <2>3
<1> QED
  BY <1>1, <1>3, <1>4, <1>5 DEF HasRead

\* Where one block is corrupt, all entries outside of it are read, and nothing but entries.
LEMMA OneCorruptReads ==
  ASSUME NEW f, Readable(f), NEW c \in Nat, f.corrupt = {c}, c = 0 => Header % f.entry = 0,
         NEW r, r = ReadTOC(f), ~r.panic
  PROVE  \E m \in Nat : m >= f.n /\ HasRead(f, r, m, c)
<1>1. PICK g : /\ g[0] = StartOfTOC
               /\ \A b \in Nat : b < Blocks(f) => g[b + 1] = ReadBlock(f, g[b], b)
               /\ ReadTOC(f) = ReadRest(f, g[Blocks(f)])
  BY ReadsBlocks
<1>2. PICK N \in Nat \ {0} : N = Blocks(f)
  BY BlockFacts
<1> DEFINE Good(s, b, m) == /\ AtEntry(f, s, b, m) /\ HasRead(f, s, m, c)
                            /\ b = 0 => m = 0
                            /\ b <= c => s.skip = IF b = 0 THEN 32 ELSE 0
           S == {b \in Nat : b <= N => /\ Reader(g[b])
                                       /\ g[b].panic \/ \E m \in Nat : Good(g[b], b, m)}
<1>3. 0 \in S
  <2>1. HasRead(f, StartOfTOC, 0, c)
    BY StartFacts, EmptySeq DEF HasRead, Els
  <2>2. Good(g[0], 0, 0) /\ Reader(g[0])
    BY <1>1, <2>1, StartFacts
  <2> HIDE DEF Good
  <2> QED
    BY <2>2
<1>4. ASSUME NEW b \in Nat, b \in S PROVE b + 1 \in S
  <2> SUFFICES ASSUME b + 1 <= N
               PROVE  /\ Reader(g[b + 1])
                      /\ g[b + 1].panic \/ \E m \in Nat : Good(g[b + 1], b + 1, m)
    OBVIOUS
  <2>1. /\ Reader(g[b])
        /\ g[b].panic \/ \E m \in Nat : Good(g[b], b, m)
    <3>1. b <= N
      OBVIOUS
    <3> HIDE DEF Good
    <3> QED
      BY <1>4, <3>1
  <2>2. PICK s, t : s = g[b] /\ t = g[b + 1]
    OBVIOUS
  <2>3. t = ReadBlock(f, s, b) /\ b < Blocks(f)
    BY <1>1, <1>2, <2>2
  <2>4. CASE s.panic
    <3>1. t = s
      BY <2>3, <2>4 DEF ReadBlock
    <3> QED
      BY <2>1, <2>2, <2>4, <3>1
  <2>5. CASE ~s.panic
    <3>1. PICK m \in Nat : Good(s, b, m)
      <4> HIDE DEF Good
      <4> QED
        BY <2>1, <2>2, <2>5
    <3>2. Reader(s)
      BY <2>1, <2>2
    <3>3. CASE b = c
      <4>1. b \in f.corrupt
        BY <3>3
      <4>2. s.skip = 0 \/ (s.skip = Header /\ b = 0 /\ m = 0 /\ Header % f.entry = 0)
        BY <3>1, <3>3 DEF Header
      <4>3. PICK k \in Nat :
               /\ Reader(t) /\ ~t.panic /\ t.read = s.read /\ AtEntry(f, t, b + 1, k)
               /\ \A j \in Nat : m <= j => Pos(f, j) + f.entry > b * f.interval
               /\ \A j \in Nat : j < k => Pos(f, j) <= b * f.interval + f.interval
        BY <2>3, <2>5, <3>1, <3>2, <4>1, <4>2, CorruptBlock
      <4>4. ASSUME NEW j \in 0..(f.n - 1), j < k, OutsideOf(f, c, j)
            PROVE  Pos(f, j) \in Els(s.read)
        <5>1. j \in Nat /\ Pos(f, j) \in Nat /\ f.entry \in Nat /\ b * f.interval \in Nat
              /\ f.interval \in Nat
          <6>1. j \in Nat
            BY DEF Readable
          <6>2. Sized(f)
            BY DEF Readable, Sized
          <6>3. Pos(f, j) \in Nat
            BY <6>1, <6>2, PosFacts
          <6>4. f.entry \in Nat
            BY <6>2 DEF Sized
          <6>5. b * f.interval \in Nat /\ f.interval \in Nat
            BY BlockFacts
          <6> QED
            BY <6>1, <6>3, <6>4, <6>5
        <5>2. ~(m <= j)
          BY <3>3, <4>3, <4>4, <5>1 DEF OutsideOf
        <5>3. j < m
          BY <5>1, <5>2
        <5> QED
          BY <3>1, <4>4, <5>3 DEF HasRead
      <4>5. HasRead(f, t, k, c)
        BY <3>1, <4>3, <4>4 DEF HasRead
      <4>6. Good(t, b + 1, k)
        BY <3>3, <4>3, <4>5
      <4> HIDE DEF Good
      <4> QED
        BY <2>2, <4>3, <4>6
    <3>4. CASE b # c
      <4>1. b \notin f.corrupt
        BY <3>4
      <4>3. s.skip > f.interval \/ s.skip <= f.interval
        <5>1. f.interval \in Nat
          BY BlockFacts, Zenon
        <5> QED
          BY <3>2, <5>1 DEF Reader
      <4>4. Reader(t)
        BY <2>3, <2>5, <3>1, <3>2, <4>1, IntactBlock
      <4>5. CASE s.skip > f.interval
        <5>1. t.panic
          BY <2>3, <2>5, <3>1, <3>2, <4>1, <4>5, IntactBlock
        <5> QED
          BY <2>2, <4>4, <5>1
      <4>6. CASE s.skip <= f.interval
        <5>1. PICK q \in Nat : /\ t.skip = 0 /\ AtEntry(f, t, b + 1, m + q)
                               /\ t.read = s.read \o Run(f, m, q)
          <6>1. AtEntry(f, s, b, m)
            BY <3>1
          <6>2. s.skip <= f.interval =>
                  ~t.panic /\ t.skip = 0 /\ GoesOn(f, s, m, t, b + 1)
            BY <2>3, <2>5, <3>2, <4>1, <6>1, IntactBlock
          <6> QED
            BY <4>6, <6>2 DEF GoesOn
        <5>2. HasRead(f, t, m + q, c)
          <6>1. HasRead(f, s, m, c)
            BY <3>1
          <6> QED
            BY <3>2, <5>1, <6>1, ReadsOn, Zenon
        <5>3. Good(t, b + 1, m + q)
          <6>1. b + 1 # 0
            OBVIOUS
          <6> QED
            BY <5>1, <5>2, <6>1, Zenon
        <5>4. m + q \in Nat
          OBVIOUS
        <5> HIDE DEF Good
        <5> QED
          BY <2>2, <4>4, <5>3, <5>4, Zenon
      <4> QED
        BY <4>3, <4>5, <4>6
    <3> QED
      BY <3>3, <3>4
  <2> QED
    BY <2>4, <2>5
<1> HIDE DEF S
<1>5. Nat \subseteq S
  BY <1>3, <1>4, SetInduction
<1>6. PICK s : s = g[Blocks(f)]
  OBVIOUS
<1>7. /\ Reader(s)
      /\ s.panic \/ \E m \in Nat : Good(s, Blocks(f), m)
  <2>1. N \in S
    BY <1>5
  <2> HIDE DEF Good
  <2> QED
    BY <1>2, <1>6, <2>1 DEF S
<1>8. r = ReadRest(f, s)
  BY <1>1, <1>6
<1>9. ~s.panic
  <2> SUFFICES ASSUME s.panic PROVE r.panic
    OBVIOUS
  <2>1. r = [s EXCEPT !.panic = TRUE]
    BY <1>8 DEF ReadRest
  <2> QED
    BY <1>7, <2>1 DEF Reader
<1>10. PICK m \in Nat : Good(s, Blocks(f), m)
  <2> HIDE DEF Good
  <2> QED
    BY <1>7, <1>9
<1>11. PICK q \in Nat : m + q >= f.n /\ r.read = s.read \o Run(f, m, q)
  <2>1. AtEntry(f, s, Blocks(f), m)
    BY <1>10
  <2>2. Ends(f, s, m, r)
    <3>1. Reader(s) /\ ~s.panic /\ r = ReadRest(f, s)
      BY <1>7, <1>8, <1>9
    <3> QED
      BY <2>1, <3>1, Rest
  <2> QED
    BY <2>2 DEF Ends, EndsAt
<1>12. HasRead(f, r, m + q, c)
  <2>1. HasRead(f, s, m, c)
    BY <1>10
  <2> QED
    BY <1>7, <1>11, <2>1, ReadsOn, Zenon
<1>13. m + q \in Nat
  OBVIOUS
<1> QED
  BY <1>11, <1>12, <1>13

\* What the reader skips, up to block b where block c is corrupt, is an entry at most (a header at
\* first), and it skips something at the start and after that block only.
Skips(f, s, b, c) ==
  /\ {"skip", "left", "read", "noTerm", "panic"} \subseteq DOMAIN s
  /\ s.skip \in Nat /\ s.skip <= f.entry /\ s.left \in Nat /\ s.panic \in BOOLEAN
  /\ s.skip # 0 => s.panic \/ b = c + 1 \/ (b = 0 /\ s.skip = 32)
  /\ s.panic => f.interval < f.entry

\* One more block.
LEMMA SkipsOn ==
  ASSUME NEW f, Readable(f), NEW c \in Nat, f.corrupt = {c}, NEW b \in Nat, NEW s, Skips(f, s, b, c),
         NEW t, t = ReadBlock(f, s, b)
  PROVE  Skips(f, t, b + 1, c)
<1>1. PICK I \in Nat, e \in {32, 48} : I = f.interval /\ e = f.entry /\ I >= 32
  BY DEF Readable, GoodHeader, Header
<1>2. PICK pos \in Nat : pos = b * f.interval
  BY <1>1
<1>3. CASE s.panic
  <2>1. t = s
    BY <1>3, Zenon DEF ReadBlock
  <2> QED
    BY <1>3, <2>1 DEF Skips
<1>4. CASE ~s.panic /\ b \in f.corrupt
  <2>1. t = [s EXCEPT !.skip = SkipNext(f, s), !.left = 0]
    BY <1>4, Zenon DEF ReadBlock
  <2>2. PICK r \in Nat : r = (s.skip + s.left + I) % e /\ r < e
    BY <1>1 DEF Skips
  <2>3. SkipNext(f, s) = e - r
    BY <1>1, <2>2 DEF SkipNext
  <2>4. /\ t.skip = e - r /\ t.left = 0 /\ t.panic = s.panic /\ DOMAIN t = DOMAIN s
    BY <2>1, <2>3 DEF Skips
  <2>5. b = c
    BY <1>4
  <2>6. e - r \in Nat /\ e - r <= e
    BY <1>1, <2>2
  <2> QED
    BY <1>1, <1>4, <2>4, <2>5, <2>6 DEF Skips
<1>5. CASE ~s.panic /\ b \notin f.corrupt /\ s.skip > f.interval
  <2>1. t = [s EXCEPT !.panic = TRUE]
    BY <1>5, Zenon DEF ReadBlock
  <2>2. /\ t.skip = s.skip /\ t.left = s.left /\ t.panic = TRUE /\ DOMAIN t = DOMAIN s
    BY <2>1 DEF Skips
  <2>3. I < e
    BY <1>1, <1>5 DEF Skips
  <2> QED
    BY <1>1, <2>2, <2>3 DEF Skips
<1>6. CASE ~s.panic /\ b \notin f.corrupt /\ ~(s.skip > f.interval)
  <2>1. PICK from \in Int, to \in Int : from = From(s, pos) /\ to = pos + I
    BY <1>1 DEF From, Skips
  <2>2. t = [s EXCEPT !.skip = 0, !.left = Left(f, from, to), !.read = @ \o Cut(f, from, to)]
    BY <1>1, <1>2, <1>6, <2>1, Zenon DEF ReadBlock
  <2>3. Left(f, from, to) \in Nat
    BY <1>1, <2>1 DEF Left
  <2>4. /\ t.skip = 0 /\ t.left = Left(f, from, to) /\ t.panic = s.panic /\ DOMAIN t = DOMAIN s
    BY <2>2 DEF Skips
  <2> QED
    BY <1>1, <1>6, <2>3, <2>4 DEF Skips
<1> QED
  BY <1>3, <1>4, <1>5, <1>6

\* The reader panics only if less than an entry follows the corrupt block, up to the next checksum
\* or the end of the file.
LEMMA PanicsNearEnd ==
  ASSUME NEW f, Readable(f), NEW c \in Nat, f.corrupt = {c}, NEW r, r = ReadTOC(f), r.panic
  PROVE  FileEnd(f) - (c * f.interval + f.interval) < f.entry \/ f.interval < f.entry
<1>1. PICK g : /\ g[0] = StartOfTOC
               /\ \A b \in Nat : b < Blocks(f) => g[b + 1] = ReadBlock(f, g[b], b)
               /\ ReadTOC(f) = ReadRest(f, g[Blocks(f)])
  BY ReadsBlocks
<1>2. PICK N \in Nat : N = Blocks(f)
  BY BlockFacts
<1> DEFINE S == {b \in Nat : b <= N => Skips(f, g[b], b, c)}
<1>3. 0 \in S
  <2>1. /\ StartOfTOC.skip = 32 /\ StartOfTOC.left = 0 /\ StartOfTOC.panic = FALSE
        /\ DOMAIN StartOfTOC = {"skip", "left", "read", "noTerm", "panic"}
    BY DEF StartOfTOC, Header
  <2>2. Skips(f, StartOfTOC, 0, c)
    <3>1. StartOfTOC.panic \in BOOLEAN
      BY <2>1, Zenon
    <3>2. f.entry \in {32, 48}
      BY DEF Readable
    <3>3. PICK s : s = StartOfTOC
      OBVIOUS
    <3>4. /\ {"skip", "left", "read", "noTerm", "panic"} \subseteq DOMAIN s /\ ~s.panic
          /\ s.skip \in Nat /\ s.skip <= f.entry /\ s.left \in Nat /\ s.panic \in BOOLEAN
          /\ s.skip = 32
      BY <2>1, <3>1, <3>2, <3>3
    <3> QED
      BY <3>3, <3>4 DEF Skips
  <2> QED
    BY <1>1, <2>2
<1>4. ASSUME NEW b \in Nat, b \in S PROVE b + 1 \in S
  <2> SUFFICES ASSUME b + 1 <= N PROVE Skips(f, g[b + 1], b + 1, c)
    OBVIOUS
  <2>1. Skips(f, g[b], b, c) /\ b < Blocks(f)
    BY <1>2, <1>4
  <2>2. PICK s, t : s = g[b] /\ t = g[b + 1]
    OBVIOUS
  <2>3. t = ReadBlock(f, s, b)
    BY <1>1, <2>1, <2>2
  <2>4. Skips(f, t, b + 1, c)
    BY <2>1, <2>2, <2>3, SkipsOn
  <2> QED
    BY <2>2, <2>4
<1> HIDE DEF S
<1>5. Nat \subseteq S
  BY <1>3, <1>4, SetInduction
<1>6. PICK s : s = g[N] /\ Skips(f, s, N, c)
  <2>1. N \in S
    BY <1>5
  <2> QED
    BY <2>1 DEF S
<1>7. r = ReadRest(f, s)
  BY <1>1, <1>2, <1>6
<1>8. PICK pos \in Nat, end \in Nat : pos = Blocks(f) * f.interval /\ end = FileEnd(f) /\ pos <= end
  BY BlockFacts
<1>9. CASE s.panic
  BY <1>6, <1>9 DEF Skips
<1>10. CASE ~s.panic /\ s.skip > end - pos
  <2>1. s.skip # 0 /\ s.skip \in Nat /\ s.skip <= f.entry /\ f.entry \in Nat
    BY <1>6, <1>8, <1>10 DEF Skips, Readable
  <2>2. N # 0
    BY <1>2, BlockFacts
  <2>3. N = c + 1
    BY <1>6, <1>10, <2>1, <2>2 DEF Skips
  <2>4. c * f.interval + f.interval = pos
    BY <1>2, <1>8, <2>3, BlockFacts
  <2> QED
    BY <1>8, <1>10, <2>1, <2>4
<1>11. CASE ~s.panic /\ ~(s.skip > end - pos)
  <2>1. r.panic = s.panic
    <3>1. PICK u, v : r = [s EXCEPT !.read = @ \o u, !.noTerm = v]
      BY <1>7, <1>8, <1>11, Zenon DEF ReadRest
    <3> QED
      BY <1>6, <3>1 DEF Skips
  <2> QED
    BY <1>11, <2>1
<1> QED
  BY <1>9, <1>10, <1>11

\* Places that are no whole number of entries from the first one, in group stores.
Aside == {x \in Nat : x % 48 = 16}

\* Who starts to cut aside of the entries goes on so.
LEMMA CutsAside ==
  ASSUME NEW f, f.entry = 48, NEW from \in Aside, NEW to \in Nat, from <= to
  PROVE  Cut(f, from, to) \in Seq(Aside)
<1>1. PICK q \in Nat : q = (to - from) \div f.entry
  BY DEF Aside
<1>2. PICK g : CutsBy(f, from, q, g) /\ Cut(f, from, to) = g[q]
  <2>1. PICK a \in Nat : a = from
    BY DEF Aside
  <2>2. q = (to - a) \div f.entry
    BY <1>1, <2>1
  <2>3. \E g : CutsBy(f, a, q, g) /\ Cut(f, a, to) = g[q]
    BY <2>2, CutSteps
  <2> QED
    BY <2>1, <2>3
<1> DEFINE S == {i \in Nat : i <= q => g[i] \in Seq(Aside)}
<1>3. 0 \in S
  BY <1>2, EmptySeq DEF CutsBy
<1>4. ASSUME NEW i \in Nat, i \in S PROVE i + 1 \in S
  <2> SUFFICES ASSUME i + 1 <= q PROVE g[i + 1] \in Seq(Aside)
    OBVIOUS
  <2>1. g[i] \in Seq(Aside) /\ i < q
    BY <1>4
  <2>2. PICK x : x = from + i * f.entry
    OBVIOUS
  <2>3. x \in Aside
    BY <2>2 DEF Aside
  <2>4. g[i + 1] = CutNext(f, g[i], x)
    BY <1>2, <2>1, <2>2 DEF CutsBy
  <2>5. Append(g[i], x) \in Seq(Aside)
    BY <2>1, <2>3, AppendProperties
  <2> QED
    BY <2>1, <2>4, <2>5 DEF CutNext
<1> HIDE DEF S
<1>5. Nat \subseteq S
  BY <1>3, <1>4, SetInduction
<1>6. q \in S
  BY <1>5
<1> QED
  BY <1>2, <1>6 DEF S

\* A reader that is aside of the entries before block b.
ReadsAside(f, s, b) ==
  /\ {"skip", "left", "read", "noTerm", "panic"} \subseteq DOMAIN s
  /\ s.skip \in Nat /\ s.left \in Nat /\ s.read \in Seq(Aside) /\ s.panic \in BOOLEAN
  /\ From(s, b * f.interval) \in Aside

\* It stays aside.
LEMMA AsideOn ==
  ASSUME NEW f, Readable(f), f.entry = 48, NEW b \in Nat, b \notin f.corrupt,
         NEW s, ReadsAside(f, s, b), NEW t, t = ReadBlock(f, s, b)
  PROVE  ReadsAside(f, t, b + 1) \/ t.panic
<1>1. PICK I \in Nat : I = f.interval
  BY DEF Readable
<1>2. PICK pos \in Nat : pos = b * f.interval /\ (b + 1) * f.interval = pos + I
  BY <1>1
<1>3. CASE s.panic
  <2>1. t = s
    BY <1>3, Zenon DEF ReadBlock
  <2> QED
    BY <1>3, <2>1
<1>4. CASE ~s.panic /\ s.skip > f.interval
  <2>1. t = [s EXCEPT !.panic = TRUE]
    BY <1>4, Zenon DEF ReadBlock
  <2> QED
    BY <2>1 DEF ReadsAside
<1>5. CASE ~s.panic /\ ~(s.skip > f.interval)
  <2>1. PICK from \in Aside, to \in Nat : from = From(s, pos) /\ to = pos + I
    BY <1>1, <1>2 DEF ReadsAside
  <2>2. from <= to
    <3>1. PICK skip \in Nat, left \in Nat : skip = s.skip /\ left = s.left
      BY DEF ReadsAside
    <3>2. from = IF skip # 0 THEN pos + skip ELSE pos - left
      BY <2>1, <3>1 DEF From
    <3>3. skip <= I
      BY <1>1, <1>5, <3>1
    <3> QED
      BY <2>1, <3>1, <3>2, <3>3
  <2>3. t = [s EXCEPT !.skip = 0, !.left = Left(f, from, to), !.read = @ \o Cut(f, from, to)]
    BY <1>1, <1>2, <1>5, <2>1, Zenon DEF ReadBlock
  <2>4. PICK r \in Nat : r = Left(f, from, to) /\ r = (to - from) % 48 /\ r <= to - from
    BY <2>1, <2>2 DEF Left, Aside
  <2>5. PICK c \in Seq(Aside) : c = Cut(f, from, to)
    BY <2>1, <2>2, CutsAside
  <2>6. /\ t.skip = 0 /\ t.left = r /\ t.read = s.read \o c /\ t.panic = s.panic
        /\ DOMAIN t = DOMAIN s
    <3>1. t = [s EXCEPT !.skip = 0, !.left = r, !.read = @ \o c]
      BY <2>3, <2>4, <2>5
    <3> QED
      BY <3>1 DEF ReadsAside
  <2>7. s.read \o c \in Seq(Aside)
    BY <2>5, ConcatProperties DEF ReadsAside
  <2>8. to - r \in Aside
    <3>1. PICK d \in Nat, a \in Nat : d = to - from /\ a = from /\ a % 48 = 16
      BY <2>1, <2>2 DEF Aside
    <3>2. PICK k \in Int : d = 48 * k + r
      BY <2>4, <3>1
    <3>5. to = a + d
      BY <3>1
    <3>6. r <= d
      BY <2>4, <3>1
    <3>3. to - r = a + 48 * k /\ to - r \in Nat
      BY <3>2, <3>5, <3>6
    <3>4. (a + 48 * k) % 48 = 16
      BY <3>1
    <3> QED
      BY <3>3, <3>4 DEF Aside
  <2>9. From(t, (b + 1) * f.interval) = to - r
    BY <1>2, <2>1, <2>6 DEF From
  <2> QED
    BY <2>6, <2>7, <2>8, <2>9 DEF ReadsAside
<1> QED
  BY <1>3, <1>4, <1>5

\* Where the first block of a group's TOC is corrupt, nothing that is read is an entry.
LEMMA FirstCorruptReads ==
  ASSUME NEW f, Readable(f), f.entry = 48, f.corrupt = {0}, NEW r, r = ReadTOC(f), ~r.panic
  PROVE  r.read \in Seq(Aside)
<1>1. PICK g : /\ g[0] = StartOfTOC
               /\ \A b \in Nat : b < Blocks(f) => g[b + 1] = ReadBlock(f, g[b], b)
               /\ ReadTOC(f) = ReadRest(f, g[Blocks(f)])
  BY ReadsBlocks
<1>2. PICK N \in Nat \ {0} : N = Blocks(f)
  BY BlockFacts
<1>3. PICK I \in Nat : I = f.interval /\ I >= 32
  BY DEF Readable, GoodHeader, Header
<1> DEFINE S == {b \in Nat : b + 1 <= N => ReadsAside(f, g[b + 1], b + 1) \/ g[b + 1].panic}
<1>4. 0 \in S
  <2>1. PICK s, t : s = StartOfTOC /\ t = g[1]
    OBVIOUS
  <2>2. t = ReadBlock(f, s, 0)
    BY <1>1, <1>2, <2>1
  <2>3. /\ s.skip = 32 /\ s.left = 0 /\ s.read = <<>> /\ s.panic = FALSE
        /\ DOMAIN s = {"skip", "left", "read", "noTerm", "panic"}
    BY <2>1 DEF StartOfTOC, Header
  <2>4. t = [s EXCEPT !.skip = SkipNext(f, s), !.left = 0]
    BY <2>2, <2>3, Zenon DEF ReadBlock
  <2>5. SkipNext(f, s) = 48 - ((32 + I) % 48)
    BY <1>3, <2>3 DEF SkipNext
  <2>6. PICK k \in Nat : k = 48 - ((32 + I) % 48) /\ k # 0 /\ I + k \in Aside
    <3>1. PICK h \in 0..47 : h = (32 + I) % 48
      BY <1>3
    <3>2. PICK c \in Int : 32 + I = 48 * c + h
      BY <1>3, <3>1
    <3>3. I + (48 - h) = 48 * c + 16
      BY <1>3, <3>1, <3>2
    <3>4. (48 * c + 16) % 48 = 16
      BY <3>2
    <3>5. 48 - h \in Nat /\ 48 - h # 0 /\ I + (48 - h) \in Nat
      OBVIOUS
    <3>6. I + (48 - h) \in Aside
      BY <3>3, <3>4, <3>5 DEF Aside
    <3> QED
      BY <3>1, <3>5, <3>6
  <2>7. /\ t.skip = k /\ t.left = 0 /\ t.read = <<>> /\ t.panic = FALSE /\ DOMAIN t = DOMAIN s
    BY <2>3, <2>4, <2>5, <2>6
  <2>8. <<>> \in Seq(Aside)
    BY EmptySeq
  <2>9. From(t, 1 * f.interval) = I + k
    BY <1>3, <2>6, <2>7 DEF From
  <2>10. ReadsAside(f, t, 1)
    <3>1. t.panic \in BOOLEAN
      BY <2>7, Zenon
    <3> QED
      BY <2>3, <2>6, <2>7, <2>8, <2>9, <3>1 DEF ReadsAside
  <2> QED
    BY <2>1, <2>10
<1>5. ASSUME NEW b \in Nat, b \in S PROVE b + 1 \in S
  <2> SUFFICES ASSUME (b + 1) + 1 <= N
               PROVE  ReadsAside(f, g[(b + 1) + 1], (b + 1) + 1) \/ g[(b + 1) + 1].panic
    OBVIOUS
  <2>1. PICK d \in Nat : d = b + 1 /\ d < Blocks(f) /\ d # 0
    BY <1>2
  <2>2. PICK s, t : s = g[d] /\ t = g[d + 1]
    OBVIOUS
  <2>3. t = ReadBlock(f, s, d) /\ d \notin f.corrupt
    BY <1>1, <2>1, <2>2
  <2>4. ReadsAside(f, s, d) \/ s.panic
    BY <1>5, <2>1, <2>2
  <2>5. CASE s.panic
    <3>1. t = s
      BY <2>3, <2>5, Zenon DEF ReadBlock
    <3> QED
      BY <2>1, <2>2, <2>5, <3>1
  <2>6. CASE ReadsAside(f, s, d)
    <3>1. ReadsAside(f, t, d + 1) \/ t.panic
      BY <2>3, <2>6, AsideOn
    <3> QED
      BY <2>1, <2>2, <3>1
  <2> QED
    BY <2>4, <2>5, <2>6
<1> HIDE DEF S
<1>6. Nat \subseteq S
  BY <1>4, <1>5, SetInduction
<1>7. PICK s : s = g[N] /\ (ReadsAside(f, s, N) \/ s.panic)
  <2>1. PICK b \in Nat : b + 1 = N
    <3>1. N - 1 \in Nat /\ (N - 1) + 1 = N
      OBVIOUS
    <3> QED
      BY <3>1
  <2>2. b \in S
    BY <1>6
  <2> QED
    BY <2>1, <2>2 DEF S
<1>8. r = ReadRest(f, s)
  BY <1>1, <1>2, <1>7
<1>9. PICK pos \in Nat, end \in Nat : pos = Blocks(f) * f.interval /\ end = FileEnd(f) /\ pos <= end
  BY BlockFacts
<1>10. ReadsAside(f, s, N) /\ ~s.panic /\ ~(s.skip > end - pos)
  <2>1. ASSUME s.panic \/ s.skip > end - pos PROVE FALSE
    <3>1. r = [s EXCEPT !.panic = TRUE]
      BY <1>8, <1>9, <2>1, Zenon DEF ReadRest
    <3>2. s.panic => r = s
      BY <3>1
    <3>3. "panic" \in DOMAIN s => r.panic
      BY <3>1
    <3> QED
      BY <1>7, <2>1, <3>2, <3>3 DEF ReadsAside
  <2> QED
    BY <1>7, <2>1
<1>11. PICK from \in Aside : from = From(s, pos) /\ from <= end
  BY <1>2, <1>9, <1>10 DEF From, ReadsAside
<1>12. PICK last \in Nat : /\ last = IF end - from >= Trailer THEN end - Trailer ELSE end
                           /\ from <= last
  BY <1>11 DEF Trailer, Aside
<1>13. r = [s EXCEPT !.read = @ \o Cut(f, from, last), !.noTerm = ~(end - from >= Trailer)]
  BY <1>8, <1>9, <1>10, <1>11, <1>12, Zenon DEF ReadRest
<1>14. r.read = s.read \o Cut(f, from, last)
  BY <1>10, <1>13 DEF ReadsAside
<1>15. Cut(f, from, last) \in Seq(Aside)
  BY <1>12, CutsAside
<1> QED
  BY <1>10, <1>14, <1>15, ConcatProperties DEF ReadsAside

\* What a TOC file is, where the properties say something of it.
LEMMA ReadableInput ==
  ASSUME NEW f \in TOCInputs, GoodHeader(f)
  PROVE  Readable(f)
<1>1. /\ f.entry \in {32, 48} /\ f.interval \in Nat /\ f.n \in Nat
      /\ f.header \in BOOLEAN /\ f.corrupt \subseteq Nat
  BY TOCAssumption
<1> QED
  BY <1>1, Zenon DEF Readable

\* The places of a file are where its entries start.
LEMMA PlacesAreEntries ==
  ASSUME NEW f, Readable(f)
  PROVE  /\ \A j \in 0..(f.n - 1) : IsEntry(f, Pos(f, j))
         /\ \A x \in {Entries(f)[i] : i \in 1..f.n} : \E j \in 0..(f.n - 1) : x = Pos(f, j)
<1>1. PICK n \in Nat, e \in {32, 48} : n = f.n /\ e = f.entry
  BY DEF Readable
<1>2. ASSUME NEW j \in 0..(n - 1) PROVE IsEntry(f, Pos(f, j))
  <2>1. CASE e = 32
    <3>1. Pos(f, j) = 32 + j * 32 /\ EntriesEnd(f) = 32 + n * 32
      BY <1>1, <2>1 DEF Pos, EntriesEnd, Header
    <3>2. (32 + j * 32 - 32) % 32 = 0 /\ 32 + j * 32 + 32 <= 32 + n * 32 /\ 32 <= 32 + j * 32
      OBVIOUS
    <3> QED
      BY <1>1, <2>1, <3>1, <3>2 DEF IsEntry, Header
  <2>2. CASE e = 48
    <3>1. Pos(f, j) = 32 + j * 48 /\ EntriesEnd(f) = 32 + n * 48
      BY <1>1, <2>2 DEF Pos, EntriesEnd, Header
    <3>2. (32 + j * 48 - 32) % 48 = 0 /\ 32 + j * 48 + 48 <= 32 + n * 48 /\ 32 <= 32 + j * 48
      OBVIOUS
    <3> QED
      BY <1>1, <2>2, <3>1, <3>2 DEF IsEntry, Header
  <2> QED
    BY <2>1, <2>2
<1>3. ASSUME NEW i \in 1..n PROVE \E j \in 0..(n - 1) : Entries(f)[i] = Pos(f, j)
  <2>1. Entries(f)[i] = Header + (i - 1) * f.entry
    BY <1>1 DEF Entries
  <2>2. i - 1 \in 0..(n - 1) /\ Entries(f)[i] = Pos(f, i - 1)
    BY <2>1 DEF Pos
  <2> QED
    BY <2>2
<1> QED
  BY <1>1, <1>2, <1>3

\* Whatever the number of entries of a TOC file, and the interval of 32 bytes or more at which
\* checksums cut them, valueReadTOCEntriesBatched reads every entry once, in order, and
\* valueTOCStat counts the same entries.  It finds the terminator and reads nothing else, but
\* where the file ends less than a trailer after the last whole entry's size that the reader
\* has cut off: there it reports an error, and reads the place with the trailer for one more
\* entry if the trailer reaches into its offset.
THEOREM TOCsReadBack == Spec => []IntactTOCReadsBack
<1> DEFINE Inv == in.kind = "toc" => in.arg \in TOCInputs
<1>1. Init => Inv
  BY DEF Init
<1>2. Inv /\ [Next]_in => Inv'
  BY DEF Next
<1>3. Inv => IntactTOCReadsBack
  <2> SUFFICES ASSUME in.kind = "toc", in.arg \in TOCInputs, in.arg.corrupt = {},
                      GoodHeader(in.arg)
               PROVE  IntactTOCReadsBack
    BY DEF IntactTOCReadsBack, IsInput
  <2>1. PICK f, r, over : f = in.arg /\ r = ReadTOC(f) /\ over = f.interval % f.entry
    OBVIOUS
  <2>2. Readable(f) /\ f.corrupt = {}
    BY <2>1, ReadableInput
  <2>3. /\ r.noTerm <=> f.interval % f.entry < 8 /\ EntriesEnd(f) % f.interval <= f.interval % f.entry
        /\ r.read = IF r.noTerm /\ TermIsOffset(f) THEN Append(Entries(f), LastPlace(f))
                    ELSE Entries(f)
        /\ ~r.panic
    BY <2>1, <2>2, IntactReads
  <2>4. TOCStat(f) = f.n
    BY <2>2, StatCounts
  <2>5. r.noTerm <=> over < Trailer /\ EntriesEnd(f) % f.interval <= over
    BY <2>1, <2>3 DEF Trailer
  <2> QED
    BY <2>1, <2>3, <2>4, <2>5, ZenonT(60) DEF IntactTOCReadsBack
<1> QED
  BY <1>1, <1>2, <1>3, PTL DEF Spec

\* Where one block of a TOC file has a bad checksum, valueReadTOCEntriesBatched panics only if
\* less than an entry follows the block, up to the next checksum or the end of the file.  If it
\* returns, it has read all the entries that have no byte in the block and do not start where it
\* ends, and nothing else but, at most, the place with the trailer; but in a group store, whose
\* entries are longer than a header, it reads no entry at all if the block is the first one.
THEOREM CorruptBlocksAreSkipped == Spec => []OneCorruptBlockIsSkipped
<1> DEFINE Inv == in.kind = "toc" => in.arg \in TOCInputs
<1>1. Init => Inv
  BY DEF Init
<1>2. Inv /\ [Next]_in => Inv'
  BY DEF Next
<1>3. Inv => OneCorruptBlockIsSkipped
  <2> SUFFICES ASSUME in.kind = "toc", in.arg \in TOCInputs, Cardinality(in.arg.corrupt) = 1,
                      GoodHeader(in.arg)
               PROVE  OneCorruptBlockIsSkipped
    BY DEF OneCorruptBlockIsSkipped, IsInput
  <2>1. PICK f \in TOCInputs : f = in.arg
    OBVIOUS
  <2>2. Readable(f)
    BY <2>1, ReadableInput
  <2>3. PICK c \in Nat : f.corrupt = {c}
    <3>1. f.corrupt \subseteq Nat /\ IsFiniteSet(f.corrupt)
      BY TOCAssumption
    <3>2. \E c : f.corrupt = {c}
      BY <2>1, <3>1, FS_Singleton
    <3> QED
      BY <3>1, <3>2
  <2>4. PICK b, from, to, r, reads :
          /\ b = (CHOOSE x \in f.corrupt : TRUE) /\ from = b * f.interval
          /\ to = from + f.interval /\ r = ReadTOC(f)
          /\ reads = {r.read[i] : i \in 1..Len(r.read)}
    OBVIOUS
  <2>5. b = c
    BY <2>3, <2>4
  <2>6. r.panic => FileEnd(f) - to < f.entry \/ f.interval < f.entry
    BY <2>2, <2>3, <2>4, <2>5, PanicsNearEnd
  <2>7. ASSUME ~r.panic, b = 0, Header % f.entry # 0 PROVE \A x \in reads : ~IsEntry(f, x)
    <3>1. f.entry = 48
      BY <2>2, <2>7 DEF Readable, Header
    <3>2. r.read \in Seq(Aside)
      BY <2>2, <2>3, <2>4, <2>5, <2>7, <3>1, FirstCorruptReads
    <3>3. ASSUME NEW x \in reads PROVE ~IsEntry(f, x)
      <4>1. x \in Aside
        BY <2>4, <3>2
      <4>2. PICK y \in Nat : y = x /\ y % 48 = 16
        BY <4>1 DEF Aside
      <4>3. (y - 32) % 48 # 0
        BY <4>2
      <4> QED
        BY <3>1, <4>2, <4>3 DEF IsEntry, Header
    <3> QED
      BY <3>3
  <2>8. ASSUME ~r.panic, ~(b = 0 /\ Header % f.entry # 0)
        PROVE  /\ \A x \in reads : IsEntry(f, x) \/ (TermIsOffset(f) /\ x = LastPlace(f))
               /\ \A x \in {Entries(f)[i] : i \in 1..f.n} :
                    x + f.entry <= from \/ x > to => x \in reads
    <3>1. c = 0 => Header % f.entry = 0
      BY <2>5, <2>8
    <3>2. PICK m \in Nat : m >= f.n /\ HasRead(f, r, m, c)
      BY <2>2, <2>3, <2>4, <2>8, <3>1, OneCorruptReads
    <3>3. reads = Els(r.read)
      BY <2>4 DEF Els
    <3>4. ASSUME NEW x \in reads
          PROVE  IsEntry(f, x) \/ (TermIsOffset(f) /\ x = LastPlace(f))
      <4>1. x \in {Pos(f, j) : j \in 0..(f.n - 1)} \cup Last(f)
        BY <3>2, <3>3 DEF HasRead
      <4>2. CASE x \in Last(f)
        BY <4>2 DEF Last
      <4>3. CASE x \in {Pos(f, j) : j \in 0..(f.n - 1)}
        BY <2>2, <4>3, PlacesAreEntries
      <4> QED
        BY <4>1, <4>2, <4>3
    <3>5. ASSUME NEW x \in {Entries(f)[i] : i \in 1..f.n}, x + f.entry <= from \/ x > to
          PROVE  x \in reads
      <4>1. PICK j \in 0..(f.n - 1) : x = Pos(f, j)
        BY <2>2, PlacesAreEntries
      <4>2. OutsideOf(f, c, j)
        BY <2>4, <2>5, <3>5, <4>1 DEF OutsideOf
      <4>3. j < m
        BY <2>2, <3>2 DEF Readable
      <4>4. Pos(f, j) \in Els(r.read)
        BY <3>2, <4>2, <4>3 DEF HasRead
      <4> QED
        BY <3>3, <4>1, <4>4
    <3> QED
      BY <3>4, <3>5
  <2> QED
    BY <2>1, <2>4, <2>6, <2>7, <2>8, ZenonT(60) DEF OneCorruptBlockIsSkipped
<1> QED
  BY <1>1, <1>2, <1>3, PTL DEF Spec
===============================================================================
