---------------------------- MODULE Replication -----------------------------
(***************************************************************************)
(* What the replication of one partition does to the data of a set of      *)
(* stores: push replication and its acknowledgements, pull replication,    *)
(* bulk-set messages, and the discard of tombstones, while the ring that   *)
(* says which nodes are responsible changes under all of them.             *)
(*                                                                         *)
(* A store is the timestampbits it has for each key (0: none); the value   *)
(* travels with its timestamp.  Partitions do not interact, so there is    *)
(* one; a ring version is the set of nodes responsible for it, version 0   *)
(* is "no ring yet".  A message is in net until a worker takes it: the     *)
(* MsgRing, the pools and the channels in front of the workers lose and    *)
(* reorder messages (module Messaging), so net is a set that can lose any *)
(* member.  A node has one worker per kind of message; more of them could  *)
(* only reorder messages, which net does.                                  *)
(*                                                                         *)
(* A job that a goroutine has in hand is a set with that job, or {}.       *)
(***************************************************************************)
EXTENDS LocMap, FiniteSets, Sequences

CONSTANTS Nodes,          \* node ids, never 0
          MaxKey,         \* the last key of the partition, the first is 0
          Keys,           \* the keys that are used
          Rings,          \* sequence of ring versions: the responsible nodes
          FirstRing,      \* the version all nodes start with
          ClientWrites,   \* set of [key, ts]: the writes that clients make
          ClientNodes,    \* the nodes that clients write to
          IgnoreRecent,   \* ReplicationIgnoreRecent, in micros
          TombstoneAge,   \* in micros
          MaxNow,         \* bound of the clock
          MsgCap,         \* entries that fit in a bulk-set message
          AckCap,         \* entries that fit in an acknowledgement
          BloomN,         \* entries of a bloom filter
          BatchSize,      \* entries of a tombstone discard batch
          OutMsgs,        \* pooled outgoing messages of a kind
          MaxFaults       \* lost messages, failed writes, false positives

\* timestampbits of a client's write: no utility bit but that of a deletion.
Clean(ts) == ts \in Nat /\ ts % TSB_UTIL \in {0, TSB_DELETION}

ASSUME RingsAssumption  == /\ Rings \in Seq(SUBSET Nodes)
                           /\ FirstRing \in 0..Len(Rings)
ASSUME KeysAssumption   == MaxKey \in Nat /\ Keys \subseteq 0..MaxKey
\* Clients give microseconds, which the store shifts past the utility bits.
ASSUME WritesAssumption == \A w \in ClientWrites : w.key \in Keys /\ Clean(w.ts)
ASSUME TimesAssumption  == {IgnoreRecent, TombstoneAge, MaxNow, MaxFaults} \subseteq Nat
\* The clock starts late enough for both ages, and within its bound.
ASSUME ClockAssumption  == TombstoneAge + IgnoreRecent <= MaxNow
\* A pool has at least one message: OutBulkSetMsgs and the like are at least 1.
ASSUME PoolsAssumption  == IsFiniteSet(Nodes) /\ OutMsgs \in Nat \ {0}

VARIABLES now,        \* the clock, in micros
          ring,       \* node -> ring version
          store,      \* node -> key -> timestampbits
          newest,     \* key -> newest timestampbits a client has written
          net,        \* messages under way
          push,       \* node -> push replication's batch
          outPull,    \* node -> pull replication's range
          inPull,     \* node -> answer being made to a pull replication
          bulkSet,    \* node -> bulk-set message being stored
          bulkSetAck, \* node -> acknowledgement being acted on
          expiring,   \* node -> deletions to mark as local removals
          faults      \* faults so far

vars == <<now, ring, store, newest, net, push, outPull, inPull, bulkSet,
          bulkSetAck, expiring, faults>>

(***************************************************************************)
(* Timestamps, rings, scans and writes                                     *)
(***************************************************************************)
Cutoff          == (now - IgnoreRecent) * TSB_UTIL
TombstoneCutoff == (now - TombstoneAge) * TSB_UTIL

IsDeletion(ts) == HasBit(ts, TSB_DELETION)
IsRemoval(ts)  == HasBit(ts, TSB_LOCAL_REMOVAL)

Responsible(n, v) == v # 0 /\ n \in Rings[v]

\* The keys that locmap.ScanCallback passes on for range lo..hi: entries that
\* are no local removals and older than the cutoff.
Scan(n, lo, hi, cutoff) ==
  {k \in Keys : lo <= k /\ k <= hi /\ store[n][k] # 0
                /\ ~IsRemoval(store[n][k]) /\ store[n][k] < cutoff}

\* The count first keys of S.
First(S, count) == {k \in S : Cardinality({j \in S : j < k}) < count}

\* A deletion is replicated only while its tombstone is young enough.
Replicable(ts, tombstoneCutoff) == IsDeletion(ts) => ts >= tombstoneCutoff

\* store.write on node n: the newest timestamp stays.
Write(n, k, ts) ==
  store' = [store EXCEPT ![n][k] = IF Wins([ts |-> @], ts, FALSE) THEN ts ELSE @]

\* MsgRing.MsgToOtherReplicas: to the other nodes of the sender's ring.
OtherReplicas(n) == Rings[ring[n]] \ {n}

\* Faulty variant: the pool is not waited for.
NoPool(n, kind) == TRUE

\* Outgoing messages come from a pool of each kind; the sender waits for one.
HasFreeMsg(n, kind) ==
  Cardinality({m \in net : m.from = n /\ m.kind = kind}) < OutMsgs

\* A bulk-set message without an entry is shorter than the shortest and is
\* thrown away by its receiver; an acknowledgement without one does nothing.
Send(msgs) == net' = net \cup {m \in msgs : m.kind = "pull" \/ m.entries # {}}

\* A step that may be a fault: they are counted and bounded.
Fault(happens) ==
  /\ happens => faults < MaxFaults
  /\ faults' = IF happens THEN faults + 1 ELSE faults

(***************************************************************************)
(* The environment                                                         *)
(***************************************************************************)
Tick ==
  /\ now < MaxNow
  /\ now' = now + 1
  /\ UNCHANGED <<ring, store, newest, net, push, outPull, inPull, bulkSet,
                 bulkSetAck, expiring, faults>>

NewRing(n) ==
  /\ ring[n] < Len(Rings)
  /\ ring' = [ring EXCEPT ![n] = @ + 1]
  /\ UNCHANGED <<now, store, newest, net, push, outPull, inPull, bulkSet,
                 bulkSetAck, expiring, faults>>

\* A client writes or deletes a key at any node, with the time as timestamp.
ClientWrite(n, w) ==
  /\ n \in ClientNodes
  /\ w.ts \div TSB_UTIL = now
  /\ store[n][w.key] < w.ts
  /\ Write(n, w.key, w.ts)
  /\ newest' = [newest EXCEPT ![w.key] = IF @ < w.ts THEN w.ts ELSE @]
  /\ UNCHANGED <<now, ring, net, push, outPull, inPull, bulkSet, bulkSetAck,
                 expiring, faults>>

\* A message times out, or its receiver has no free message to read it into.
Lose(m) ==
  /\ Fault(TRUE)
  /\ net' = net \ {m}
  /\ UNCHANGED <<now, ring, store, newest, push, outPull, inPull, bulkSet,
                 bulkSetAck, expiring>>

(***************************************************************************)
(* Push replication: a node that is not responsible sends what it has      *)
(***************************************************************************)
\* The keys of the first batch are gathered ...
PushScan(n) ==
  LET keys == First({k \in Scan(n, 0, MaxKey, Cutoff) :
                       Replicable(store[n][k], TombstoneCutoff)}, MsgCap)
  IN  /\ push[n] = {}
      /\ ring[n] # 0 /\ ~Responsible(n, ring[n])
      /\ keys # {}
      /\ push' = [push EXCEPT ![n] =
                    {[ver |-> ring[n], keys |-> keys, cutoff |-> Cutoff,
                      tombstoneCutoff |-> TombstoneCutoff]}]
      /\ UNCHANGED <<now, ring, store, newest, net, outPull, inPull, bulkSet,
                     bulkSetAck, expiring, faults>>

\* What is sent of key k when it is read again for the message.
PushEntry(n, k, j) ==
  {[key |-> k, ts |-> ts] :
     ts \in {t \in {store[n][k]} : t # 0 /\ ~IsRemoval(t) /\ t < j.cutoff
                                   /\ Replicable(t, j.tombstoneCutoff)}}

\* ... and are read and sent unless the ring has changed since.
PushSend(n) ==
  /\ \E j \in push[n] :
       IF ring[n] # j.ver
       THEN net' = net
       ELSE /\ HasFreeMsg(n, "set")
            /\ Send({[kind |-> "set", from |-> n, to |-> m, ack |-> TRUE,
                      entries |-> UNION {PushEntry(n, k, j) : k \in j.keys}] :
                       m \in OtherReplicas(n)})
  /\ push' = [push EXCEPT ![n] = {}]
  /\ UNCHANGED <<now, ring, store, newest, outPull, inPull, bulkSet,
                 bulkSetAck, expiring, faults>>

(***************************************************************************)
(* inBulkSet: what is received is stored, and what the node is responsible *)
(* for is acknowledged                                                     *)
(***************************************************************************)
\* The entries that the loop of inBulkSet comes to: it needs more than the
\* header of an entry, so a deletion at the end of the message, which has no
\* value, is passed over.  The order of a scan is that of the location map:
\* any entry may be the last.
PassedOver(entries) == {{e} : e \in {e \in entries : IsDeletion(e.ts)}}
                         \cup (IF \A e \in entries : IsDeletion(e.ts) THEN {} ELSE {{}})

InBulkSet(n, m) ==
  /\ m.kind = "set" /\ m.to = n /\ bulkSet[n] = {}
  /\ \E last \in PassedOver(m.entries) :
       /\ bulkSet' = [bulkSet EXCEPT ![n] =
                        {[ver |-> ring[n], from |-> m.from, left |-> left,
                          ack |-> m.ack /\ ring[n] # 0, acks |-> {}] :
                            left \in {m.entries \ last} \ {{}}}]
       /\ net' = net \ {m}
  /\ UNCHANGED <<now, ring, store, newest, push, outPull, inPull, bulkSetAck,
                 expiring, faults>>

\* Faulty variants: an entry that could not be stored is acknowledged; the last
\* entry that fits is not.
AcknowledgedIgnoringError(n, j, e, err) ==
  j.ack /\ Responsible(n, j.ver) /\ Cardinality(j.acks) < AckCap
AcknowledgedButLast(n, j, e, err) ==
  j.ack /\ ~err /\ Responsible(n, j.ver) /\ Cardinality(j.acks) + 1 < AckCap

Acknowledged(n, j, e, err) ==
  /\ j.ack /\ ~err
  /\ Responsible(n, j.ver)
  /\ Cardinality(j.acks) < AckCap

\* One entry is stored; with the last one, the acknowledgement is sent.  The
\* write of a value fails while writes are disabled, that of a deletion is
\* internal and does not.
InBulkSetEntry(n) ==
  \E j \in bulkSet[n] : \E e \in j.left : \E err \in BOOLEAN :
    LET acks == j.acks \cup (IF Acknowledged(n, j, e, err) THEN {e} ELSE {})
        left == j.left \ {e}
    IN  /\ j.ack => HasFreeMsg(n, "ack")
        /\ err => ~IsDeletion(e.ts)
        /\ Fault(err)
        /\ IF err THEN UNCHANGED store ELSE Write(n, e.key, e.ts)
        /\ IF left = {}
           THEN /\ bulkSet' = [bulkSet EXCEPT ![n] = {}]
                /\ IF j.ack
                   THEN Send({[kind |-> "ack", from |-> n, to |-> j.from,
                               ack |-> FALSE, entries |-> acks]})
                   ELSE UNCHANGED net
           ELSE /\ bulkSet' = [bulkSet EXCEPT ![n] =
                                 {[j EXCEPT !.left = left, !.acks = acks]}]
                /\ UNCHANGED net
        /\ UNCHANGED <<now, ring, newest, push, outPull, inPull, bulkSetAck,
                       expiring>>

(***************************************************************************)
(* inBulkSetAck: what others have and this node is not responsible for is  *)
(* removed                                                                 *)
(***************************************************************************)
InBulkSetAck(n, m) ==
  /\ m.kind = "ack" /\ m.to = n /\ bulkSetAck[n] = {}
  /\ net' = net \ {m}
  /\ bulkSetAck' = [bulkSetAck EXCEPT ![n] = {[ver |-> ring[n], left |-> m.entries]}]
  /\ UNCHANGED <<now, ring, store, newest, push, outPull, inPull, bulkSet,
                 expiring, faults>>

InBulkSetAckEntry(n) ==
  \E j \in bulkSetAck[n] : \E e \in j.left :
    /\ IF j.ver # 0 /\ ~Responsible(n, j.ver)
       THEN Write(n, e.key, e.ts + TSB_LOCAL_REMOVAL)
       ELSE UNCHANGED store
    /\ bulkSetAck' = [bulkSetAck EXCEPT ![n] =
                        {[i EXCEPT !.left = @ \ {e}] : i \in {i \in {j} : j.left # {e}}}]
    /\ UNCHANGED <<now, ring, newest, net, push, outPull, inPull, bulkSet,
                   expiring, faults>>

(***************************************************************************)
(* Pull replication: a responsible node says what it has, range by range,  *)
(* and the other replicas answer with what it lacks                        *)
(***************************************************************************)
\* A pass begins with the whole range of the partition.
OutPullBegin(n) ==
  /\ outPull[n] = {}
  /\ Responsible(n, ring[n])
  /\ Cardinality(Rings[ring[n]]) >= 2 /\ Cardinality(Nodes) >= 2
  /\ outPull' = [outPull EXCEPT ![n] =
                   {[ver |-> ring[n], lo |-> 0, cutoff |-> Cutoff]}]
  /\ UNCHANGED <<now, ring, store, newest, net, push, inPull, bulkSet,
                 bulkSetAck, expiring, faults>>

\* Keys and timestamps that a filter may report although they were not added.
Pairs == {<<k, store[m][k]>> : k \in Keys, m \in Nodes}

\* The first BloomN entries from lo on are added to the filter; more says that
\* entries are left, from key next on.  The message goes to the other replicas
\* unless the ring has changed, and the pass goes on with the rest.
OutPullRange(n) ==
  \E j \in outPull[n] : \E false \in {{}} \cup {{p} : p \in Pairs} :
    LET scan   == Scan(n, j.lo, MaxKey, j.cutoff)
        batch  == First(scan, BloomN)
        more   == batch # scan
        next   == CHOOSE k \in scan \ batch : \A i \in scan \ batch : k <= i
        filter == {<<k, store[n][k]>> : k \in batch} \cup false
        hi     == IF more THEN next - 1 ELSE MaxKey
    IN  /\ Fault(false # {})
        /\ IF ring[n] # j.ver
           THEN net' = net
           ELSE /\ HasFreeMsg(n, "pull")
                /\ Send({[kind |-> "pull", from |-> n, to |-> m, lo |-> j.lo, hi |-> hi,
                          cutoff |-> j.cutoff, filter |-> filter] : m \in OtherReplicas(n)})
        /\ outPull' = [outPull EXCEPT ![n] =
                         IF ring[n] = j.ver /\ more THEN {[j EXCEPT !.lo = next]} ELSE {}]
        /\ UNCHANGED <<now, ring, store, newest, push, inPull, bulkSet,
                       bulkSetAck, expiring>>

\* inPullReplication looks for keys of the range that the filter does not have;
\* which of them come first depends on where the scan starts (module KeyRanges).
InPullReplication(n, m) ==
  LET missing == {k \in Scan(n, m.lo, m.hi, m.cutoff) :
                    /\ Replicable(store[n][k], TombstoneCutoff)
                    /\ <<k, store[n][k]>> \notin m.filter}
  IN  /\ m.kind = "pull" /\ m.to = n /\ inPull[n] = {}
      /\ net' = net \ {m}
      /\ \E keys \in SUBSET missing :
           /\ Cardinality(keys) = IF Cardinality(missing) < MsgCap
                                  THEN Cardinality(missing) ELSE MsgCap
           /\ inPull' = [inPull EXCEPT ![n] =
                           IF ring[n] = 0 \/ keys = {} THEN {}
                           ELSE {[from |-> m.from, keys |-> keys]}]
      /\ UNCHANGED <<now, ring, store, newest, push, outPull, bulkSet,
                     bulkSetAck, expiring, faults>>

\* The keys are read again and sent; no acknowledgement is asked for.
InPullSend(n) ==
  /\ HasFreeMsg(n, "set")
  /\ \E j \in inPull[n] :
       Send({[kind |-> "set", from |-> n, to |-> j.from, ack |-> FALSE,
              entries |-> {[key |-> k, ts |-> store[n][k]] :
                             k \in {k \in j.keys : store[n][k] # 0
                                                   /\ ~IsRemoval(store[n][k])}}]})
  /\ inPull' = [inPull EXCEPT ![n] = {}]
  /\ UNCHANGED <<now, ring, store, newest, push, outPull, bulkSet,
                 bulkSetAck, expiring, faults>>

(***************************************************************************)
(* Tombstone discard                                                       *)
(***************************************************************************)
\* tombstoneDiscardPassLocalRemovals, and the memClearer when the block of the
\* marker is cleared: the key leaves the location map.
DiscardRemoval(n, k) ==
  /\ IsRemoval(store[n][k])
  /\ store' = [store EXCEPT ![n][k] = 0]
  /\ UNCHANGED <<now, ring, newest, net, push, outPull, inPull, bulkSet,
                 bulkSetAck, expiring, faults>>

Expired(n) == {k \in Scan(n, 0, MaxKey, TombstoneCutoff) :
                 IsDeletion(store[n][k])}

\* A batch of expired deletions is gathered ...
ExpireScan(n) ==
  /\ expiring[n] = {} /\ Expired(n) # {}
  /\ expiring' = [expiring EXCEPT ![n] =
                    {[key |-> k, ts |-> store[n][k]] : k \in First(Expired(n), BatchSize)}]
  /\ UNCHANGED <<now, ring, store, newest, net, push, outPull, inPull, bulkSet,
                 bulkSetAck, faults>>

\* ... and each is marked as a local removal.
ExpireWrite(n) ==
  \E e \in expiring[n] :
    /\ Write(n, e.key, e.ts + TSB_LOCAL_REMOVAL)
    /\ expiring' = [expiring EXCEPT ![n] = @ \ {e}]
    /\ UNCHANGED <<now, ring, newest, net, push, outPull, inPull, bulkSet,
                   bulkSetAck, faults>>

(***************************************************************************)
(* The specification                                                       *)
(***************************************************************************)
Init ==
  /\ now = TombstoneAge + IgnoreRecent
  /\ ring = [n \in Nodes |-> FirstRing]
  /\ store = [n \in Nodes |-> [k \in Keys |-> 0]]
  /\ newest = [k \in Keys |-> 0]
  /\ net = {} /\ faults = 0
  /\ push = [n \in Nodes |-> {}]
  /\ outPull = [n \in Nodes |-> {}]
  /\ inPull = [n \in Nodes |-> {}]
  /\ bulkSet = [n \in Nodes |-> {}]
  /\ bulkSetAck = [n \in Nodes |-> {}]
  /\ expiring = [n \in Nodes |-> {}]

\* The goroutines of a node.
PushReplication(n)  == PushScan(n) \/ PushSend(n)
OutPull(n)          == OutPullBegin(n) \/ OutPullRange(n)
InPull(n)           == (\E m \in net : InPullReplication(n, m)) \/ InPullSend(n)
InBulkSets(n)       == (\E m \in net : InBulkSet(n, m)) \/ InBulkSetEntry(n)
InBulkSetAcks(n)    == (\E m \in net : InBulkSetAck(n, m)) \/ InBulkSetAckEntry(n)
TombstoneDiscard(n) == \/ \E k \in Keys : DiscardRemoval(n, k)
                       \/ ExpireScan(n) \/ ExpireWrite(n)

Next ==
  \/ Tick
  \/ \E m \in net : Lose(m)
  \/ \E n \in Nodes :
       \/ NewRing(n)
       \/ \E w \in ClientWrites : ClientWrite(n, w)
       \/ PushReplication(n) \/ OutPull(n) \/ InPull(n)
       \/ InBulkSets(n) \/ InBulkSetAcks(n) \/ TombstoneDiscard(n)

Spec == Init /\ [][Next]_vars

\* Every goroutine goes on; its launcher begins another pass on its timer.
Fairness ==
  /\ WF_vars(Tick)
  /\ \A n \in Nodes :
       /\ WF_vars(NewRing(n))
       /\ WF_vars(PushReplication(n)) /\ WF_vars(OutPull(n)) /\ WF_vars(InPull(n))
       /\ WF_vars(InBulkSets(n)) /\ WF_vars(InBulkSetAcks(n))
       /\ WF_vars(TombstoneDiscard(n))

FairSpec == Spec /\ Fairness

(***************************************************************************)
(* Properties                                                              *)
(***************************************************************************)
Job == [ver : Nat, keys : SUBSET Keys, cutoff : Int, tombstoneCutoff : Int]
Entry == [key : Keys, ts : Nat]

\* Every variable has its type, and no node has more messages of a kind under
\* way than its pool and the receivers of the last one make.
TypeOK ==
  /\ now \in 0..MaxNow /\ faults \in 0..MaxFaults
  /\ ring \in [Nodes -> 0..Len(Rings)]
  /\ store \in [Nodes -> [Keys -> Nat]]
  /\ newest \in [Keys -> Nat]
  /\ \A n \in Nodes :
       /\ push[n] \subseteq Job /\ Cardinality(push[n]) <= 1
       /\ \A e \in expiring[n] : e \in Entry
       /\ \A j \in bulkSet[n] : j.left \subseteq Entry /\ j.acks \subseteq Entry
       /\ \A j \in bulkSetAck[n] : j.left \subseteq Entry
       /\ \A j \in inPull[n] : j.keys \subseteq Keys
  /\ \A m \in net : m.to \in Nodes /\ m.from \in Nodes
  /\ \A n \in Nodes, kind \in {"set", "ack", "pull"} :
       Cardinality({m \in net : m.from = n /\ m.kind = kind}) <= OutMsgs + Cardinality(Nodes) - 2

\* The newest value or deletion that a client has written stays on some node,
\* unless it is a deletion whose tombstone has expired: no node removes what it
\* has before another one has it for good.
NothingLost ==
  \A k \in Keys : newest[k] # 0 /\ Replicable(newest[k], TombstoneCutoff)
                    => \E n \in Nodes : store[n][k] = newest[k]

\* In the end the nodes of the last ring have the newest value of every key.
Replicated ==
  <>[](\A k \in Keys, n \in Nodes :
         Responsible(n, Len(Rings)) /\ ~IsDeletion(newest[k]) => store[n][k] = newest[k])

\* And the newest deletion, until it expires.
DeletionsReplicated ==
  <>[](\A k \in Keys, n \in Nodes :
         Responsible(n, Len(Rings)) /\ Replicable(newest[k], TombstoneCutoff)
           => store[n][k] = newest[k])

\* In the end the other nodes have nothing but deletions too old to be sent on.
HandedOff ==
  <>[](\A k \in Keys, n \in Nodes :
         ~Responsible(n, Len(Rings)) /\ store[n][k] # 0
           => IsDeletion(store[n][k]))

(***************************************************************************)
(* The inductive invariant behind NothingLost                              *)
(***************************************************************************)
\* Clients write to nodes that the first ring has, and the one change of the ring
\* takes the partition from at most one of its nodes, or gives it to none.
OneReplicaMoves ==
  /\ Len(Rings) = 2 /\ FirstRing = 1
  /\ ClientNodes \subseteq Rings[1]
  /\ \/ Rings[2] \subseteq Rings[1]
     \/ \E n \in Nodes : Rings[1] \ Rings[2] \subseteq {n}

Stay  == Rings[1] \cap Rings[2]
Leave == Rings[1] \ Rings[2]
Join  == Rings[2] \ Rings[1]

\* The nodes that lose the partition know it.
AllLeft == \A n \in Leave : ring[n] = 2

\* A node that may have data, or be sent some: a responsible one, or one that will
\* be and that those who leave have begun to push to.
MayHold(n) == n \in Nodes /\ (n \in Rings[1] \/ (n \in Rings[2] /\ (ring[n] = 2 \/ AllLeft)))

\* A node that may ask for data by pull replication.
MayAsk(n) == n \in Nodes /\ (n \in Rings[1] \/ (n \in Rings[2] /\ ring[n] = 2))

\* Who pushes to whom: those who leave to the new ring; those who join, while they do
\* not know of it, back to the old one.
Pushes(from, to) ==
  \/ from \in Leave /\ to \in Rings[2]
  \/ from \in Join /\ to \in Rings[1] /\ AllLeft

\* What is stored, sent or remembered was once written by a client.
Written(e) == e \in Entry /\ Clean(e.ts) /\ e.ts # 0 /\ e.ts <= newest[e.key]

\* The newest value of k is on a node that keeps it whatever node d removes.
Safe(k, d) ==
  \/ \E s \in Stay : store[s][k] = newest[k]
  \/ d \notin Join /\ \E j \in Join : ring[j] = 2 /\ store[j][k] = newest[k]

\* Entry e may be removed by d: it is acknowledged only once it is safe.
Removable(e, d) ==
  e.ts = newest[e.key] /\ Replicable(e.ts, TombstoneCutoff) => Safe(e.key, d)

\* A store has what a client has written, or the marker of its local removal.  A node
\* that keeps the partition removes nothing but expired deletions; one that joins had
\* removed only what is on a node that keeps it.
StoreOK(n, k) ==
  /\ \/ Clean(store[n][k]) /\ store[n][k] <= newest[k]
     \/ /\ store[n][k] > 2 /\ Clean(store[n][k] - TSB_LOCAL_REMOVAL)
        /\ store[n][k] - TSB_LOCAL_REMOVAL <= newest[k]
  /\ store[n][k] # 0 => MayHold(n)
  /\ n \in Stay /\ IsRemoval(store[n][k])
       => /\ IsDeletion(store[n][k])
          /\ store[n][k] - TSB_LOCAL_REMOVAL < TombstoneCutoff
  /\ n \in Join /\ store[n][k] = newest[k] + TSB_LOCAL_REMOVAL
       => ~Replicable(newest[k], TombstoneCutoff) \/ \E s \in Stay : store[s][k] = newest[k]

StoresOK == \A n \in Nodes, k \in Keys : StoreOK(n, k)

MsgOK(m) ==
  /\ m.kind \in {"set", "ack", "pull"} /\ m.from \in Nodes /\ m.to \in Nodes
  /\ m.kind # "pull" => /\ \A e \in m.entries : Written(e)
                        /\ MayHold(m.to)
  /\ m.kind = "set" => m.ack \in BOOLEAN /\ (m.ack => Pushes(m.from, m.to))
  /\ m.kind = "ack" => \A e \in m.entries : Removable(e, m.to)
  /\ m.kind = "pull" => MayAsk(m.from)

PushOK(n, j)    == j \in Job /\ j.ver \in 1..2 /\ n \notin Rings[j.ver]
OutPullOK(n, j) == j.ver \in 1..2 /\ n \in Rings[j.ver]
InPullOK(n, j)  == j.keys \subseteq Keys /\ MayAsk(j.from)

BulkSetJob    == [ver : 1..2, from : Nodes, left : SUBSET Entry, ack : BOOLEAN, acks : SUBSET Entry]
BulkSetAckJob == [ver : 1..2, left : SUBSET Entry]

BulkSetOK(n, j) ==
  /\ j \in BulkSetJob /\ j.ver <= ring[n]
  /\ \A e \in j.left : Written(e)
  /\ \A e \in j.acks : Written(e) /\ Removable(e, j.from)
  /\ j.ack => Pushes(j.from, n) /\ (j.from \in Join /\ n \in Leave => j.ver = 2)
  /\ MayHold(n)

BulkSetAckOK(n, j) ==
  /\ j \in BulkSetAckJob
  /\ \A e \in j.left : Written(e) /\ Removable(e, n)
  /\ MayHold(n)

ExpiringOK(n, e) ==
  Written(e) /\ IsDeletion(e.ts) /\ e.ts < TombstoneCutoff /\ MayHold(n)

JobsOK ==
  \A n \in Nodes :
    /\ \A j \in push[n] : PushOK(n, j)
    /\ \A j \in outPull[n] : OutPullOK(n, j)
    /\ \A j \in inPull[n] : InPullOK(n, j)
    /\ \A j \in bulkSet[n] : BulkSetOK(n, j)
    /\ \A j \in bulkSetAck[n] : BulkSetAckOK(n, j)
    /\ \A e \in expiring[n] : ExpiringOK(n, e)

ReplTypes ==
  /\ now \in Nat
  /\ ring \in [Nodes -> 1..2]
  /\ store \in [Nodes -> [Keys -> Nat]]
  /\ newest \in [Keys -> Nat] /\ \A k \in Keys : Clean(newest[k])
  /\ push \in [Nodes -> SUBSET Job]
  /\ DOMAIN outPull = Nodes /\ DOMAIN inPull = Nodes /\ DOMAIN bulkSet = Nodes
  /\ DOMAIN bulkSetAck = Nodes /\ DOMAIN expiring = Nodes

ReplInv ==
  /\ ReplTypes
  /\ StoresOK
  /\ \A m \in net : MsgOK(m)
  /\ JobsOK
  /\ NothingLost

(***************************************************************************)
(* The inductive invariant behind TypeOK                                   *)
(***************************************************************************)
\* No node sends to itself, so a message sent once has fewer receivers than
\* there are nodes.
MsgTyped(m) ==
  /\ m.kind \in {"set", "ack", "pull"}
  /\ m.from \in Nodes /\ m.to \in Nodes \ {m.from}
  /\ m.kind # "pull" => m.entries \subseteq Entry
  /\ m.kind = "set" => m.ack \in BOOLEAN

BulkSetTypes == [ver : 0..Len(Rings), from : Nodes, left : SUBSET Entry,
                 ack : BOOLEAN, acks : SUBSET Entry]

JobsTyped(n) ==
  /\ \A j \in push[n] : j.ver \in 1..Len(Rings)
  /\ \A j \in outPull[n] : j.ver \in 1..Len(Rings)
  /\ \A j \in inPull[n] : j.from # n
  /\ \A j \in bulkSet[n] : j.from # n

VariablesTyped ==
  /\ now \in 0..MaxNow /\ faults \in 0..MaxFaults
  /\ ring \in [Nodes -> 0..Len(Rings)]
  /\ store \in [Nodes -> [Keys -> Nat]]
  /\ newest \in [Keys -> Nat]
  /\ push \in [Nodes -> SUBSET Job]
  /\ DOMAIN outPull = Nodes
  /\ inPull \in [Nodes -> SUBSET [from : Nodes, keys : SUBSET Keys]]
  /\ bulkSet \in [Nodes -> SUBSET BulkSetTypes]
  /\ bulkSetAck \in [Nodes -> SUBSET [ver : 0..Len(Rings), left : SUBSET Entry]]
  /\ expiring \in [Nodes -> SUBSET Entry]

Sent(n, kind) == {m \in net : m.from = n /\ m.kind = kind}

NetTyped ==
  /\ IsFiniteSet(net)
  /\ \A m \in net : MsgTyped(m)
  /\ \A n \in Nodes, kind \in {"set", "ack", "pull"} :
       Cardinality(Sent(n, kind)) <= OutMsgs + Cardinality(Nodes) - 2

TypeInv ==
  /\ VariablesTyped
  /\ NetTyped
  /\ \A n \in Nodes : JobsTyped(n) /\ Cardinality(push[n]) <= 1
=============================================================================
