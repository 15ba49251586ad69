---------------------------- MODULE MCAlgorithms ----------------------------
(* Inputs of Algorithms for TLC. *)
EXTENDS Algorithms

\* A ring with partitions of four keys at least, or none; up to four workers.
Ranges == [pbc : {NoRing} \cup 0..(Bits - 2), workers : 1..4]

Pulls == {a \in [start : 0..MaxWord, stop : {MaxWord, MaxWord \div 2, 7}, replicas : 1..4, replica : -1..3] :
            a.start <= a.stop /\ a.replica < a.replicas}

\* At most one corrupt block; intervals from below the least to several entries.
TOCs == {f \in [entry : {32, 48}, interval : 31..146, n : 0..9, header : {TRUE},
                corrupt : {{}} \cup {{b} : b \in 0..16}] :
           \A b \in f.corrupt : b < Blocks(f)}
       \cup [entry : {32}, interval : {36}, n : {1}, header : {FALSE}, corrupt : {{}}]

\* Value files: a header, values up to end, and an interval of filler.
ValueFiles ==
  {f \in [interval : {31, 32, 33, 40}, end : {33, 39, 40, 64, 66, 79, 96, 99, 120}, header : {TRUE},
          blocks : 0..5, corrupt : SUBSET (0..3)] :
     /\ f.blocks = (f.end + f.interval) \div f.interval
     /\ \A b \in f.corrupt : b < f.blocks}

\* A hash of few bits, so that filters fill up and collide.
SmallHash(salt, i, x, np) == {(salt * 3 + i * 5 + x) % 8, (salt + i + x * 3) % 8}
TwoRounds(n, p) == 2

SeqsUpTo(S, n) == UNION {[1..i -> S] : i \in 0..n}
Blooms == [n : {4}, p : {1}, salt : {1, 2}, old : SeqsUpTo(0..4, 2), entries : SeqsUpTo(0..4, 3)]

\* Every number that no combination below is about is r.
Given(r) ==
  [scale |-> [num |-> 1, den |-> 1], entrySize |-> 32, valueCap |-> r, workers |-> r,
   checksumInterval |-> r, pageSize |-> r, minValueAlloc |-> 0, writePagesPerWorker |-> r,
   msgCap |-> r, msgTimeout |-> r, fileCap |-> r, fileReaders |-> r, recoveryBatchSize |-> r,
   tombstoneDiscardInterval |-> r, tombstoneDiscardBatchSize |-> r, tombstoneAge |-> r,
   tombstoneDiscardWorkers |-> r, replicationIgnoreRecent |-> r,
   outPullReplicationInterval |-> r, outPullReplicationWorkers |-> r,
   outPullReplicationMsgs |-> r, outPullReplicationBloomN |-> r,
   outPullReplicationBloomP |-> r, outPullReplicationMsgTimeout |-> r,
   inPullReplicationWorkers |-> r, inPullReplicationMsgs |-> r,
   inPullReplicationResponseMsgTimeout |-> r, pushReplicationInterval |-> r,
   pushReplicationWorkers |-> r, pushReplicationMsgTimeout |-> r, bulkSetMsgCap |-> r,
   outBulkSetMsgs |-> r, inBulkSetWorkers |-> r, inBulkSetMsgs |-> r,
   inBulkSetResponseMsgTimeout |-> r, bulkSetAckMsgCap |-> r, inBulkSetAckWorkers |-> r,
   inBulkSetAckMsgs |-> r, outBulkSetAckMsgs |-> r, compactionInterval |-> r,
   compactionWorkers |-> r, compactionThreshold |-> r, compactionAgeThreshold |-> r,
   flusherThreshold |-> r, auditInterval |-> r, auditAgeThreshold |-> r,
   disk |-> [freeDisable |-> r, freeReenable |-> r, usageDisable |-> r, usageReenable |-> r],
   mem  |-> [freeDisable |-> r, freeReenable |-> r, usageDisable |-> r, usageReenable |-> r]]

Scales == {[num |-> 0, den |-> 1], [num |-> 1, den |-> 100], [num |-> 2, den |-> 1]}

Configs == {[Given(r) EXCEPT !.scale = s, !.entrySize = e, !.valueCap = v, !.workers = w,
                             !.checksumInterval = i, !.pageSize = p] :
              r \in {-1, 0, 1}, s \in Scales, e \in {32, 48}, v \in {-1, 0, 50, 2000000},
              w \in {-1, 0, 25}, i \in {-1, 0, 33, 100000, 262145}, p \in {-1, 0, 4096, MaxUint32}}
=============================================================================
