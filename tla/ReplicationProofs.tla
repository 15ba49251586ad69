-------------------------- MODULE ReplicationProofs --------------------------
(* Proofs about Replication, for any nodes, keys and client writes. *)
EXTENDS Replication, FiniteSetTheorems, TLAPS

\* The bits of a client's timestampbits and of the marker of its local removal.
LEMMA CleanBits ==
  ASSUME NEW t, Clean(t)
  PROVE  /\ t \in Nat /\ ~IsRemoval(t)
         /\ IsRemoval(t + TSB_LOCAL_REMOVAL)
         /\ IsDeletion(t + TSB_LOCAL_REMOVAL) <=> IsDeletion(t)
<1>1. t \in Nat /\ t % 256 \in {0, 128}
  BY DEF Clean, TSB_UTIL, TSB_DELETION
<1>2. (t \div 2) % 2 = 0
  BY <1>1
<1>3. ((t + 2) \div 2) % 2 = 1
  BY <1>1
<1>4. (t + 2) \div 128 = t \div 128
  BY <1>1
<1> QED
  BY <1>1, <1>2, <1>3, <1>4
  DEF IsRemoval, IsDeletion, HasBit, TSB_LOCAL_REMOVAL, TSB_DELETION

\* The marker of an older write does not outrank a newer one.
LEMMA CleanOrder ==
  ASSUME NEW a, NEW b, Clean(a), Clean(b), a < b
  PROVE  a + TSB_LOCAL_REMOVAL < b
<1>1. a \in Nat /\ b \in Nat /\ a % 256 \in {0, 128} /\ b % 256 \in {0, 128}
  BY DEF Clean, TSB_UTIL, TSB_DELETION
<1> QED
  BY <1>1 DEF TSB_LOCAL_REMOVAL

\* Both rings are sets of nodes, and who joins does so when at most one node leaves.
LEMMA RingFacts ==
  ASSUME OneReplicaMoves
  PROVE  /\ Rings[1] \subseteq Nodes /\ Rings[2] \subseteq Nodes
         /\ Stay \subseteq Nodes /\ Leave \subseteq Nodes /\ Join \subseteq Nodes
         /\ \A n \in Stay : n \in Rings[1] /\ n \in Rings[2] /\ n \notin Join
         /\ \A n \in Join, m \in Leave, l \in Leave : m = l
         /\ Len(Rings) = 2 /\ FirstRing = 1 /\ ClientNodes \subseteq Rings[1]
<1>1. /\ Rings \in Seq(SUBSET Nodes) /\ Len(Rings) = 2 /\ FirstRing = 1
      /\ ClientNodes \subseteq Rings[1]
  BY RingsAssumption DEF OneReplicaMoves
<1>2. Rings[1] \in SUBSET Nodes /\ Rings[2] \in SUBSET Nodes
  BY <1>1
<1>3. \A n \in Join, m \in Leave, l \in Leave : m = l
  BY DEF OneReplicaMoves, Join, Leave
<1> QED
  BY <1>1, <1>2, <1>3 DEF Stay, Leave, Join

\* What a write does to the store, entry by entry.
LEMMA WriteFacts ==
  ASSUME store \in [Nodes -> [Keys -> Nat]],
         NEW n \in Nodes, NEW k \in Keys, NEW ts \in Nat, Write(n, k, ts)
  PROVE  /\ store' \in [Nodes -> [Keys -> Nat]]
         /\ store[n][k] < ts => store'[n][k] = ts
         /\ ~(store[n][k] < ts) => store'[n][k] = store[n][k]
         /\ \A m \in Nodes, i \in Keys : m # n \/ i # k => store'[m][i] = store[m][i]
BY DEF Write, Wins

\* Deletions that are replicated after a step were so before it.
LEMMA CutoffGrows ==
  ASSUME now \in Nat, now' \in Nat, now <= now'
  PROVE  /\ TombstoneCutoff \in Int /\ TombstoneCutoff' \in Int
         /\ TombstoneCutoff <= TombstoneCutoff'
         /\ \A t \in Nat : Replicable(t, TombstoneCutoff)' => Replicable(t, TombstoneCutoff)
<1>1. /\ TombstoneAge \in Nat
  BY TimesAssumption
<1>2. /\ TombstoneCutoff \in Int /\ TombstoneCutoff' \in Int /\ TombstoneCutoff <= TombstoneCutoff'
  <2>1. \A a, b \in Int : a <= b => a * 256 \in Int /\ b * 256 \in Int /\ a * 256 <= b * 256
    OBVIOUS
  <2>2. \A a, b, c \in Nat : a <= b => a - c \in Int /\ b - c \in Int /\ a - c <= b - c
    OBVIOUS
  <2>3. now - TombstoneAge \in Int /\ now' - TombstoneAge \in Int /\ now - TombstoneAge <= now' - TombstoneAge
    BY <1>1, <2>2
  <2> QED
    BY <2>1, <2>3 DEF TombstoneCutoff, TSB_UTIL
<1>3. \A t \in Nat : Replicable(t, TombstoneCutoff)' => Replicable(t, TombstoneCutoff)
  BY <1>2 DEF Replicable
<1> QED
  BY <1>2, <1>3

\* A step on which the newest value of a key stays as safe as it was, unless there is
\* a newer one or it has expired.
KeepsSafe ==
  \A k \in Keys, d \in Nodes :
    newest'[k] = newest[k] /\ Replicable(newest[k], TombstoneCutoff)' /\ Safe(k, d) => Safe(k, d)'

\* Clocks, rings and timestamps only grow, and what was safe stays so.
Later ==
  /\ now <= now'
  /\ \A n \in Nodes : ring[n] <= ring'[n]
  /\ \A k \in Keys : newest[k] <= newest'[k]
  /\ KeepsSafe

\* What holds of a message or a job in hand holds later on.
LEMMA LaterKeeps ==
  ASSUME OneReplicaMoves, ReplTypes, ReplTypes', Later
  PROVE  /\ AllLeft => AllLeft'
         /\ \A n : MayHold(n) => MayHold(n)'
         /\ \A n : MayAsk(n) => MayAsk(n)'
         /\ \A n, d : Pushes(n, d) => Pushes(n, d)'
         /\ \A e : Written(e) => Written(e)'
         /\ \A e, d : Written(e) /\ d \in Nodes /\ Removable(e, d) => Removable(e, d)'
         /\ \A m : MsgOK(m) => MsgOK(m)'
         /\ \A n \in Nodes : \A j : PushOK(n, j) => PushOK(n, j)'
         /\ \A n \in Nodes : \A j : OutPullOK(n, j) => OutPullOK(n, j)'
         /\ \A n \in Nodes : \A j : InPullOK(n, j) => InPullOK(n, j)'
         /\ \A n \in Nodes : \A j : BulkSetOK(n, j) => BulkSetOK(n, j)'
         /\ \A n \in Nodes : \A j : BulkSetAckOK(n, j) => BulkSetAckOK(n, j)'
         /\ \A n \in Nodes : \A e : ExpiringOK(n, e) => ExpiringOK(n, e)'
<1> USE RingFacts
<1>1. \A n \in Nodes : ring[n] \in 1..2 /\ ring'[n] \in 1..2 /\ (ring[n] = 2 => ring'[n] = 2)
                        /\ ring[n] <= ring'[n]
  BY DEF ReplTypes, Later
<1>2. AllLeft => AllLeft'
  BY <1>1 DEF AllLeft
<1>3. \A n : MayHold(n) => MayHold(n)'
  BY <1>1, <1>2 DEF MayHold
<1>4. \A n : MayAsk(n) => MayAsk(n)'
  BY <1>1 DEF MayAsk
<1>5. \A n, d : Pushes(n, d) => Pushes(n, d)'
  BY <1>2 DEF Pushes
<1>6. \A e : Written(e) => Written(e)'
  <2> SUFFICES ASSUME NEW e, Written(e) PROVE Written(e)'
    OBVIOUS
  <2>1. e \in Entry /\ e.key \in Keys /\ e.ts \in Nat /\ e.ts <= newest[e.key]
    BY DEF Written, Entry
  <2>2. newest[e.key] \in Nat /\ newest'[e.key] \in Nat /\ newest[e.key] <= newest'[e.key]
    BY <2>1 DEF ReplTypes, Later
  <2>3. e.ts <= newest'[e.key]
    BY <2>1, <2>2
  <2> QED
    BY <2>3 DEF Written, Entry, Clean
<1>7. \A e, d : Written(e) /\ d \in Nodes /\ Removable(e, d) => Removable(e, d)'
  <2> SUFFICES ASSUME NEW e, NEW d \in Nodes, Written(e), Removable(e, d),
                      e.ts = newest'[e.key], Replicable(e.ts, TombstoneCutoff)'
               PROVE  Safe(e.key, d)'
    BY DEF Removable
  <2>1. /\ e.key \in Keys /\ e.ts \in Nat /\ e.ts <= newest[e.key]
        /\ newest[e.key] \in Nat /\ newest[e.key] <= newest'[e.key]
    BY DEF Written, Entry, ReplTypes, Later
  <2>2. newest'[e.key] = newest[e.key] /\ e.ts = newest[e.key]
    BY <2>1
  <2>3. Replicable(e.ts, TombstoneCutoff)
    BY <2>1, CutoffGrows DEF ReplTypes, Later
  <2> QED
    BY <2>1, <2>2, <2>3 DEF Removable, Later, KeepsSafe
<1>8. \A m : MsgOK(m) => MsgOK(m)'
  BY <1>3, <1>4, <1>5, <1>6, <1>7 DEF MsgOK
<1>9. \A n \in Nodes : \A j : PushOK(n, j) => PushOK(n, j)'
  BY DEF PushOK, Job
<1>10. \A n \in Nodes : \A j : OutPullOK(n, j) => OutPullOK(n, j)'
  BY DEF OutPullOK
<1>11. \A n \in Nodes : \A j : InPullOK(n, j) => InPullOK(n, j)'
  BY <1>4 DEF InPullOK
<1>12. \A n \in Nodes : \A j : BulkSetOK(n, j) => BulkSetOK(n, j)'
  <2> SUFFICES ASSUME NEW n \in Nodes, NEW j, BulkSetOK(n, j) PROVE BulkSetOK(n, j)'
    OBVIOUS
  <2>1. j \in BulkSetJob /\ j.from \in Nodes /\ j.ver <= ring'[n]
    BY <1>1 DEF BulkSetOK, BulkSetJob
  <2> QED
    BY <1>3, <1>5, <1>6, <1>7, <2>1 DEF BulkSetOK, BulkSetJob, Entry
<1>13. \A n \in Nodes : \A j : BulkSetAckOK(n, j) => BulkSetAckOK(n, j)'
  BY <1>3, <1>6, <1>7 DEF BulkSetAckOK, BulkSetAckJob, Entry
<1>14. \A n \in Nodes : \A e : ExpiringOK(n, e) => ExpiringOK(n, e)'
  <2> SUFFICES ASSUME NEW n \in Nodes, NEW e, ExpiringOK(n, e) PROVE ExpiringOK(n, e)'
    OBVIOUS
  <2>1. e.ts \in Nat /\ e.ts < TombstoneCutoff'
    BY CutoffGrows DEF ExpiringOK, Written, Entry, ReplTypes, Later
  <2> QED
    BY <1>3, <1>6, <2>1 DEF ExpiringOK
<1> QED
  BY <1>2, <1>3, <1>4, <1>5, <1>6, <1>7, <1>8, <1>9, <1>10, <1>11, <1>12, <1>13, <1>14

\* The stores stay as they are while clocks and rings move on.
LEMMA StoresFrame ==
  ASSUME OneReplicaMoves, ReplTypes, ReplTypes', StoresOK, NothingLost,
         now <= now', \A n \in Nodes : ring[n] <= ring'[n], UNCHANGED <<store, newest>>
  PROVE  StoresOK' /\ NothingLost' /\ Later
<1> USE RingFacts
<1>1. \A n \in Nodes : ring[n] \in 1..2 /\ ring'[n] \in 1..2 /\ (ring[n] = 2 => ring'[n] = 2)
  BY DEF ReplTypes
<1>2. KeepsSafe
  BY <1>1 DEF KeepsSafe, Safe
<1>3. Later
  BY <1>2 DEF Later, ReplTypes
<1>4. \A n : MayHold(n) => MayHold(n)'
  BY <1>3, LaterKeeps
<1>5. \A k \in Keys : newest[k] \in Nat
  BY DEF ReplTypes
<1>6. ASSUME NEW n \in Nodes, NEW k \in Keys PROVE StoreOK(n, k)'
  <2>1. /\ StoreOK(n, k) /\ store[n][k] \in Nat /\ newest[k] \in Nat
    BY DEF StoresOK, ReplTypes
  <2>2. /\ TombstoneCutoff \in Int /\ TombstoneCutoff' \in Int /\ TombstoneCutoff <= TombstoneCutoff'
        /\ \A t \in Nat : Replicable(t, TombstoneCutoff)' => Replicable(t, TombstoneCutoff)
    BY CutoffGrows DEF ReplTypes
  <2>3. store[n][k] - TSB_LOCAL_REMOVAL < TombstoneCutoff
          => store[n][k] - TSB_LOCAL_REMOVAL < TombstoneCutoff'
    BY <2>1, <2>2 DEF TSB_LOCAL_REMOVAL
  <2> QED
    BY <1>4, <2>1, <2>2, <2>3 DEF StoreOK
<1>7. NothingLost'
  BY <1>5, CutoffGrows DEF NothingLost, ReplTypes
<1> QED
  BY <1>3, <1>6, <1>7 DEF StoresOK

\* The newest timestamp is no marker, and a marker that outranks it is its own.
LEMMA StoreRank ==
  ASSUME ReplTypes, NEW k \in Keys, NEW e, Written(e), e.key = k
  PROVE  /\ e.ts \in Nat /\ newest[k] \in Nat /\ e.ts <= newest[k] /\ e.ts + TSB_LOCAL_REMOVAL \in Nat
         /\ e.ts # newest[k] => e.ts + TSB_LOCAL_REMOVAL < newest[k]
<1>1. e.ts \in Nat /\ Clean(e.ts) /\ e.ts <= newest[k] /\ newest[k] \in Nat /\ Clean(newest[k])
  BY DEF Written, Entry, ReplTypes
<1>2. e.ts # newest[k] => e.ts + TSB_LOCAL_REMOVAL < newest[k]
  BY <1>1, CleanOrder
<1> QED
  BY <1>1, <1>2 DEF TSB_LOCAL_REMOVAL

\* An entry that a client has written is stored: nothing newer gives way to it.
LEMMA StoresEntry ==
  ASSUME OneReplicaMoves, ReplTypes, StoresOK, NothingLost,
         NEW n \in Nodes, NEW e, Written(e), MayHold(n), Write(n, e.key, e.ts),
         UNCHANGED <<now, ring, newest>>
  PROVE  /\ store' \in [Nodes -> [Keys -> Nat]]
         /\ StoresOK' /\ NothingLost' /\ Later
<1> USE RingFacts
<1> DEFINE k == e.key
<1>1. /\ k \in Keys /\ e.ts \in Nat /\ Clean(e.ts) /\ e.ts <= newest[k]
  BY DEF Written, Entry
<1> HIDE DEF k
<1>2. /\ store' \in [Nodes -> [Keys -> Nat]] /\ store \in [Nodes -> [Keys -> Nat]]
      /\ store[n][k] < e.ts => store'[n][k] = e.ts
      /\ ~(store[n][k] < e.ts) => store'[n][k] = store[n][k]
      /\ \A m \in Nodes, i \in Keys : m # n \/ i # k => store'[m][i] = store[m][i]
  BY <1>1, WriteFacts DEF k, ReplTypes
<1>3. \A m \in Nodes, i \in Keys : newest[i] \in Nat /\ store[m][i] \in Nat
                                  /\ (store[m][i] = newest[i] => store'[m][i] = newest[i])
  BY <1>1, <1>2 DEF ReplTypes
<1>4. UNCHANGED TombstoneCutoff /\ \A m : MayHold(m)' <=> MayHold(m)
  BY DEF TombstoneCutoff, MayHold, AllLeft
<1>5. NothingLost'
  BY <1>3, <1>4 DEF NothingLost
<1>6. Later
  BY <1>3, <1>4 DEF Later, KeepsSafe, Safe, ReplTypes
<1>7. ASSUME NEW m \in Nodes, NEW i \in Keys PROVE StoreOK(m, i)'
  <2>1. CASE store'[m][i] = store[m][i]
    BY <1>3, <1>4, <2>1 DEF StoresOK, StoreOK
  <2>2. CASE store'[m][i] # store[m][i]
    <3>1. m = n /\ i = k /\ store'[m][i] = e.ts /\ store'[m][i] # newest[i] + TSB_LOCAL_REMOVAL
      BY <1>1, <1>2, <1>3, <2>2 DEF TSB_LOCAL_REMOVAL
    <3>2. ~IsRemoval(e.ts)
      BY <1>1, CleanBits
    <3>3. ~IsRemoval(store'[m][i]) /\ MayHold(m)' /\ Clean(store'[m][i]) /\ store'[m][i] <= newest'[i]
      BY <1>1, <1>4, <3>1, <3>2
    <3>4. store'[m][i] # newest'[i] + TSB_LOCAL_REMOVAL
      BY <3>1
    <3> QED
      BY <3>3, <3>4 DEF StoreOK
  <2> QED
    BY <2>1, <2>2
<1> QED
  BY <1>2, <1>5, <1>6, <1>7 DEF StoresOK

\* A client writes: its value is the newest, or an older one that nobody has as newest.
LEMMA StoresClient ==
  ASSUME OneReplicaMoves, ReplTypes, StoresOK, NothingLost,
         NEW n \in Nodes, NEW w \in ClientWrites, ClientWrite(n, w)
  PROVE  ReplTypes' /\ StoresOK' /\ NothingLost' /\ Later
<1> USE RingFacts
<1> DEFINE k == w.key
<1>1. /\ k \in Keys /\ w.ts \in Nat /\ Clean(w.ts) /\ store[n][k] < w.ts /\ n \in Rings[1]
      /\ UNCHANGED <<now, ring, push, outPull, inPull, bulkSet, bulkSetAck, expiring>>
  BY WritesAssumption DEF ClientWrite, Clean
<1>2. /\ store' \in [Nodes -> [Keys -> Nat]] /\ store \in [Nodes -> [Keys -> Nat]]
      /\ store'[n][k] = w.ts
      /\ \A m \in Nodes, i \in Keys : m # n \/ i # k => store'[m][i] = store[m][i]
  BY <1>1, WriteFacts DEF ClientWrite, ReplTypes
<1>3. /\ newest \in [Keys -> Nat] /\ newest' \in [Keys -> Nat]
      /\ \A i \in Keys : Clean(newest[i]) /\ Clean(newest'[i]) /\ newest[i] <= newest'[i]
      /\ \A i \in Keys : i # k => newest'[i] = newest[i]
      /\ newest'[k] = newest[k] \/ newest'[k] = w.ts
      /\ w.ts <= newest'[k]
  BY <1>1 DEF ClientWrite, ReplTypes
<1> HIDE DEF k
<1>4. ReplTypes'
  BY <1>1, <1>2, <1>3 DEF ReplTypes
<1>5. \A m \in Nodes, i \in Keys :
         store[m][i] = newest[i] /\ newest'[i] = newest[i] => store'[m][i] = newest'[i]
  BY <1>1, <1>2, <1>3
<1>6. UNCHANGED TombstoneCutoff /\ \A m : MayHold(m)' <=> MayHold(m)
  BY <1>1 DEF TombstoneCutoff, MayHold, AllLeft
<1>7. KeepsSafe
  BY <1>1, <1>5 DEF KeepsSafe, Safe
<1>8. Later
  <2>1. now <= now' /\ \A m \in Nodes : ring[m] <= ring'[m]
    BY <1>1 DEF ReplTypes
  <2> QED
    BY <1>3, <1>7, <2>1 DEF Later
<1>9. NothingLost'
  <2> SUFFICES ASSUME NEW i \in Keys, newest'[i] # 0, Replicable(newest[i], TombstoneCutoff)'
               PROVE  \E m \in Nodes : store'[m][i] = newest'[i]
    BY DEF NothingLost
  <2>1. CASE newest'[i] = newest[i]
    BY <1>5, <1>6, <2>1 DEF NothingLost
  <2>2. CASE newest'[i] # newest[i]
    BY <1>2, <1>3, <2>2
  <2> QED
    BY <2>1, <2>2
<1>10. ASSUME NEW m \in Nodes, NEW i \in Keys PROVE StoreOK(m, i)'
  <2>1. store[m][i] \in Nat /\ newest[i] \in Nat /\ newest'[i] \in Nat /\ newest[i] <= newest'[i]
    BY <1>2, <1>3
  <2>2. CASE m = n /\ i = k
    <3>1. ~IsRemoval(w.ts)
      BY <1>1, CleanBits
    <3>2. ~IsRemoval(store'[m][i]) /\ MayHold(m)' /\ Clean(store'[m][i]) /\ store'[m][i] <= newest'[i]
      BY <1>1, <1>2, <1>3, <1>6, <2>2, <3>1 DEF MayHold
    <3>3. store'[m][i] # newest'[i] + TSB_LOCAL_REMOVAL
      BY <1>1, <1>2, <1>3, <2>1, <2>2 DEF TSB_LOCAL_REMOVAL
    <3> QED
      BY <3>2, <3>3 DEF StoreOK
  <2>3. CASE m # n \/ i # k
    <3>1. store'[m][i] = store[m][i] /\ StoreOK(m, i)
      BY <1>2, <2>3 DEF StoresOK
    <3>2. store[m][i] - TSB_LOCAL_REMOVAL <= newest[i] /\ store[m][i] <= newest[i] + TSB_LOCAL_REMOVAL
      BY <2>1, <3>1 DEF StoreOK, TSB_LOCAL_REMOVAL
    <3>3. \/ Clean(store'[m][i]) /\ store'[m][i] <= newest'[i]
          \/ /\ store'[m][i] > 2 /\ Clean(store'[m][i] - TSB_LOCAL_REMOVAL)
             /\ store'[m][i] - TSB_LOCAL_REMOVAL <= newest'[i]
      BY <2>1, <3>1 DEF StoreOK, TSB_LOCAL_REMOVAL
    <3>4. /\ store'[m][i] # 0 => MayHold(m)'
          /\ m \in Stay /\ IsRemoval(store'[m][i])
               => /\ IsDeletion(store'[m][i])
                  /\ store'[m][i] - TSB_LOCAL_REMOVAL < TombstoneCutoff'
      BY <1>6, <3>1 DEF StoreOK
    <3>5. ASSUME m \in Join, store'[m][i] = newest'[i] + TSB_LOCAL_REMOVAL
          PROVE  ~Replicable(newest[i], TombstoneCutoff)' \/ \E s \in Stay : store'[s][i] = newest'[i]
      <4>1. newest'[i] = newest[i]
        BY <2>1, <3>1, <3>2, <3>5 DEF TSB_LOCAL_REMOVAL
      <4> QED
        BY <1>5, <1>6, <3>1, <3>5, <4>1 DEF StoreOK
    <3> QED
      BY <3>3, <3>4, <3>5 DEF StoreOK
  <2> QED
    BY <2>2, <2>3
<1> QED
  BY <1>4, <1>8, <1>9, <1>10 DEF StoresOK

\* A local removal is marked: of an expired deletion, or of what an acknowledgement
\* says is elsewhere, on a node that does not keep the partition.
LEMMA StoresMarker ==
  ASSUME OneReplicaMoves, ReplTypes, StoresOK, NothingLost,
         NEW n \in Nodes, NEW e, Written(e), MayHold(n),
         Write(n, e.key, e.ts + TSB_LOCAL_REMOVAL),
         \/ IsDeletion(e.ts) /\ e.ts < TombstoneCutoff
         \/ n \notin Stay /\ Removable(e, n),
         UNCHANGED <<now, ring, newest>>
  PROVE  /\ store' \in [Nodes -> [Keys -> Nat]]
         /\ StoresOK' /\ NothingLost' /\ Later
<1> USE RingFacts
<1> DEFINE k == e.key
           mark == e.ts + TSB_LOCAL_REMOVAL
<1>1. /\ k \in Keys /\ e.ts \in Nat /\ Clean(e.ts) /\ e.ts <= newest[k] /\ e.ts # 0
  BY DEF Written, Entry
<1>2. /\ newest[k] \in Nat /\ mark \in Nat /\ (e.ts # newest[k] => mark < newest[k])
      /\ mark > 2 /\ mark - TSB_LOCAL_REMOVAL = e.ts
      /\ mark = newest[k] + TSB_LOCAL_REMOVAL => e.ts = newest[k]
  BY <1>1, StoreRank DEF TSB_LOCAL_REMOVAL
<1>3. IsRemoval(mark) /\ (IsDeletion(mark) <=> IsDeletion(e.ts))
  BY <1>1, CleanBits
<1>4. /\ store' \in [Nodes -> [Keys -> Nat]] /\ store \in [Nodes -> [Keys -> Nat]]
      /\ store[n][k] < mark => store'[n][k] = mark
      /\ ~(store[n][k] < mark) => store'[n][k] = store[n][k]
      /\ \A m \in Nodes, i \in Keys : m # n \/ i # k => store'[m][i] = store[m][i]
  <2>1. Write(n, k, mark)
    OBVIOUS
  <2>2. k \in Keys /\ mark \in Nat /\ store \in [Nodes -> [Keys -> Nat]]
    BY <1>1, <1>2 DEF ReplTypes
  <2> HIDE DEF k, mark
  <2> QED
    BY <2>1, <2>2, WriteFacts
<1> HIDE DEF k, mark
<1>5. UNCHANGED TombstoneCutoff /\ (\A m : MayHold(m)' <=> MayHold(m)) /\ TombstoneCutoff \in Int
  BY CutoffGrows DEF TombstoneCutoff, MayHold, AllLeft, ReplTypes
<1>6. e.ts = newest[k] /\ Replicable(newest[k], TombstoneCutoff) => n \notin Stay /\ Safe(k, n)
  BY <1>1, <1>5 DEF Replicable, Removable, k
<1>7. ASSUME NEW m \in Nodes, NEW i \in Keys, store[m][i] = newest[i], store'[m][i] # newest[i]
      PROVE  m = n /\ i = k /\ e.ts = newest[k]
  BY <1>2, <1>4, <1>7 DEF ReplTypes
<1>8. ASSUME NEW s \in Stay, NEW i \in Keys, store[s][i] = newest[i], Replicable(newest[i], TombstoneCutoff)
      PROVE  store'[s][i] = newest[i]
  BY <1>6, <1>7, <1>8
<1>9. NothingLost'
  <2> SUFFICES ASSUME NEW i \in Keys, newest[i] # 0, Replicable(newest[i], TombstoneCutoff)
               PROVE  \E m \in Nodes : store'[m][i] = newest[i]
    BY <1>5 DEF NothingLost
  <2>1. PICK m \in Nodes : store[m][i] = newest[i]
    BY DEF NothingLost
  <2>2. CASE m = n /\ i = k /\ e.ts = newest[k]
    BY <1>6, <1>7, <1>8, <2>2 DEF Safe
  <2> QED
    BY <1>7, <2>1, <2>2
<1>10. KeepsSafe
  <2> SUFFICES ASSUME NEW i \in Keys, NEW d \in Nodes, Replicable(newest[i], TombstoneCutoff), Safe(i, d)
               PROVE  Safe(i, d)'
    BY <1>5 DEF KeepsSafe
  <2>1. CASE \E s \in Stay : store[s][i] = newest[i]
    BY <1>8, <2>1 DEF Safe
  <2>2. CASE d \notin Join /\ \E j \in Join : ring[j] = 2 /\ store[j][i] = newest[i]
    <3>1. PICK j \in Join : ring[j] = 2 /\ store[j][i] = newest[i]
      BY <2>2
    <3>2. CASE j = n /\ i = k /\ e.ts = newest[k]
      BY <1>6, <1>8, <3>2 DEF Safe
    <3>3. CASE ~(j = n /\ i = k /\ e.ts = newest[k])
      BY <1>7, <2>2, <3>1, <3>3 DEF Safe
    <3> QED
      BY <3>2, <3>3
  <2> QED
    BY <2>1, <2>2 DEF Safe
<1>11. Later
  BY <1>10 DEF Later, ReplTypes
<1>12. ASSUME NEW m \in Nodes, NEW i \in Keys PROVE StoreOK(m, i)'
  <2>1. CASE store'[m][i] = store[m][i]
    BY <1>5, <1>8, <2>1 DEF StoresOK, StoreOK
  <2>2. CASE store'[m][i] # store[m][i]
    <3>1. m = n /\ i = k /\ store'[m][i] = mark
      BY <1>4, <2>2
    <3>2. /\ store'[m][i] > 2 /\ Clean(store'[m][i] - TSB_LOCAL_REMOVAL)
          /\ store'[m][i] - TSB_LOCAL_REMOVAL <= newest'[i] /\ MayHold(m)'
      BY <1>1, <1>2, <1>5, <3>1
    <3>3. m \in Stay => /\ IsDeletion(store'[m][i])
                        /\ store'[m][i] - TSB_LOCAL_REMOVAL < TombstoneCutoff'
      BY <1>2, <1>3, <1>5, <3>1
    <3>4. ASSUME m \in Join, store'[m][i] = newest'[i] + TSB_LOCAL_REMOVAL
          PROVE  ~Replicable(newest[i], TombstoneCutoff)' \/ \E s \in Stay : store'[s][i] = newest'[i]
      <4>1. e.ts = newest[k]
        BY <1>2, <3>1, <3>4
      <4> QED
        BY <1>5, <1>6, <1>8, <3>1, <3>4, <4>1 DEF Safe
    <3> QED
      BY <3>2, <3>3, <3>4 DEF StoreOK
  <2> QED
    BY <2>1, <2>2
<1> QED
  BY <1>4, <1>9, <1>11, <1>12 DEF StoresOK

\* A marker is discarded: it was the newest value of no key.
LEMMA StoresDiscard ==
  ASSUME OneReplicaMoves, ReplTypes, StoresOK, NothingLost,
         NEW n \in Nodes, NEW k \in Keys, DiscardRemoval(n, k)
  PROVE  /\ store' \in [Nodes -> [Keys -> Nat]]
         /\ StoresOK' /\ NothingLost' /\ Later
<1> USE RingFacts
<1>1. /\ store' \in [Nodes -> [Keys -> Nat]] /\ store'[n][k] = 0 /\ IsRemoval(store[n][k])
      /\ \A m \in Nodes, i \in Keys : m # n \/ i # k => store'[m][i] = store[m][i]
      /\ UNCHANGED <<now, ring, newest>>
  BY DEF DiscardRemoval, ReplTypes
<1>2. \A i \in Keys : newest[i] \in Nat /\ ~IsRemoval(newest[i])
  BY CleanBits DEF ReplTypes
<1>3. \A m \in Nodes, i \in Keys : store[m][i] = newest[i] => store'[m][i] = newest[i]
  BY <1>1, <1>2
<1>4. UNCHANGED TombstoneCutoff /\ \A m : MayHold(m)' <=> MayHold(m)
  BY <1>1 DEF TombstoneCutoff, MayHold, AllLeft
<1>5. NothingLost'
  BY <1>1, <1>3, <1>4 DEF NothingLost
<1>6. Later
  <2>1. /\ now <= now' /\ \A m \in Nodes : ring[m] <= ring'[m]
        /\ \A i \in Keys : newest[i] <= newest'[i]
    BY <1>1 DEF ReplTypes
  <2>2. KeepsSafe
    BY <1>1, <1>3 DEF KeepsSafe, Safe
  <2> QED
    BY <2>1, <2>2 DEF Later
<1>7. ASSUME NEW m \in Nodes, NEW i \in Keys PROVE StoreOK(m, i)'
  <2>1. CASE store'[m][i] = store[m][i]
    BY <1>1, <1>3, <1>4, <2>1 DEF StoresOK, StoreOK
  <2>2. CASE store'[m][i] = 0
    <3>1. Clean(0)
      BY DEF Clean, TSB_UTIL
    <3>2. ~IsRemoval(0)
      BY <3>1, CleanBits
    <3>3. newest'[i] \in Nat /\ 0 <= newest'[i] /\ 0 # newest'[i] + TSB_LOCAL_REMOVAL
      BY <1>1, <1>2 DEF TSB_LOCAL_REMOVAL
    <3> QED
      BY <2>2, <3>1, <3>2, <3>3 DEF StoreOK
  <2> QED
    BY <1>1, <2>1, <2>2
<1> QED
  BY <1>1, <1>5, <1>6, <1>7 DEF StoresOK

\* It is enough to look at the messages and jobs that a step makes.
LEMMA ReplFrame ==
  ASSUME OneReplicaMoves, ReplInv, ReplTypes', StoresOK', NothingLost', Later,
         \A m \in net' : m \in net \/ MsgOK(m)',
         \A n \in Nodes :
           /\ \A j \in push'[n] : j \in push[n] \/ PushOK(n, j)'
           /\ \A j \in outPull'[n] : j \in outPull[n] \/ OutPullOK(n, j)'
           /\ \A j \in inPull'[n] : j \in inPull[n] \/ InPullOK(n, j)'
           /\ \A j \in bulkSet'[n] : j \in bulkSet[n] \/ BulkSetOK(n, j)'
           /\ \A j \in bulkSetAck'[n] : j \in bulkSetAck[n] \/ BulkSetAckOK(n, j)'
           /\ \A e \in expiring'[n] : e \in expiring[n] \/ ExpiringOK(n, e)'
  PROVE  ReplInv'
<1>1. ReplTypes /\ (\A m \in net : MsgOK(m)) /\ JobsOK
  BY DEF ReplInv
<1>2. /\ \A m : MsgOK(m) => MsgOK(m)'
      /\ \A n \in Nodes : \A j : PushOK(n, j) => PushOK(n, j)'
      /\ \A n \in Nodes : \A j : OutPullOK(n, j) => OutPullOK(n, j)'
      /\ \A n \in Nodes : \A j : InPullOK(n, j) => InPullOK(n, j)'
      /\ \A n \in Nodes : \A j : BulkSetOK(n, j) => BulkSetOK(n, j)'
      /\ \A n \in Nodes : \A j : BulkSetAckOK(n, j) => BulkSetAckOK(n, j)'
      /\ \A n \in Nodes : \A e : ExpiringOK(n, e) => ExpiringOK(n, e)'
  BY <1>1, LaterKeeps
<1>3. \A m \in net' : MsgOK(m)'
  BY <1>1, <1>2
<1>4. JobsOK'
  BY <1>1, <1>2 DEF JobsOK
<1> QED
  BY <1>3, <1>4 DEF ReplInv

\* Nothing is written, sent or in hand.
LEMMA InitRepl == ASSUME OneReplicaMoves PROVE Init => ReplInv
<1> SUFFICES ASSUME Init PROVE ReplInv
  OBVIOUS
<1> USE RingFacts
<1>1. Clean(0) /\ ~IsRemoval(0)
  <2>1. Clean(0)
    BY DEF Clean, TSB_UTIL
  <2> QED
    BY <2>1, CleanBits
<1>2. ReplTypes
  <2>1. now \in Nat
    BY TimesAssumption DEF Init
  <2> QED
    BY <1>1, <2>1 DEF Init, ReplTypes
<1>3. StoresOK
  BY <1>1 DEF Init, StoresOK, StoreOK, TSB_LOCAL_REMOVAL
<1>4. JobsOK /\ NothingLost
  BY DEF Init, JobsOK, NothingLost
<1> QED
  BY <1>2, <1>3, <1>4 DEF Init, ReplInv

\* What is read from a store to be sent, and is no marker, was written by a client.
LEMMA ReadIsWritten ==
  ASSUME ReplTypes, StoresOK, NEW n \in Nodes, NEW k \in Keys,
         store[n][k] # 0, ~IsRemoval(store[n][k])
  PROVE  Written([key |-> k, ts |-> store[n][k]]) /\ MayHold(n)
<1>1. StoreOK(n, k) /\ store[n][k] \in Nat
  BY DEF StoresOK, ReplTypes
<1>2. CASE store[n][k] > 2 /\ Clean(store[n][k] - TSB_LOCAL_REMOVAL)
  <2>1. IsRemoval((store[n][k] - TSB_LOCAL_REMOVAL) + TSB_LOCAL_REMOVAL)
    BY <1>2, CleanBits
  <2>2. (store[n][k] - TSB_LOCAL_REMOVAL) + TSB_LOCAL_REMOVAL = store[n][k]
    BY <1>1 DEF TSB_LOCAL_REMOVAL
  <2> QED
    BY <2>1, <2>2
<1>3. CASE Clean(store[n][k]) /\ store[n][k] <= newest[k]
  BY <1>1, <1>3 DEF Written, Entry, StoreOK
<1> QED
  BY <1>1, <1>2, <1>3 DEF StoreOK

\* What a node that keeps the partition, or has joined, has stored may be removed by
\* the node it came from.
StoredIsRemovable ==
  \A n \in Nodes : \A e, d :
    (/\ Written(e) /\ e.ts <= store[n][e.key]
     /\ n \in Stay \/ (n \in Join /\ ring[n] = 2 /\ d \notin Join)) => Removable(e, d)

LEMMA StoredFacts == OneReplicaMoves /\ ReplTypes /\ StoresOK => StoredIsRemovable
<1> SUFFICES ASSUME OneReplicaMoves, ReplTypes, StoresOK, NEW n \in Nodes, NEW e, NEW d, Written(e),
                    e.ts <= store[n][e.key],
                    n \in Stay \/ (n \in Join /\ ring[n] = 2 /\ d \notin Join),
                    e.ts = newest[e.key], Replicable(e.ts, TombstoneCutoff)
             PROVE  Safe(e.key, d)
  BY DEF StoredIsRemovable, Removable
<1> USE RingFacts
<1> DEFINE k == e.key
<1>1. /\ k \in Keys /\ e.ts \in Nat /\ Clean(e.ts) /\ e.ts = newest[k]
      /\ store[n][k] \in Nat /\ e.ts <= store[n][k] /\ StoreOK(n, k) /\ TombstoneCutoff \in Int
  <2>1. TombstoneCutoff \in Int
    <3>1. now - TombstoneAge \in Int
      BY TimesAssumption DEF ReplTypes
    <3> QED
      BY <3>1 DEF TombstoneCutoff, TSB_UTIL
  <2> QED
    BY <2>1 DEF Written, Entry, ReplTypes, StoresOK
<1> HIDE DEF k
<1>2. CASE store[n][k] = newest[k]
  BY <1>2 DEF Safe, k
<1>3. CASE store[n][k] # newest[k]
  <2>1. /\ Clean(store[n][k] - TSB_LOCAL_REMOVAL) /\ store[n][k] - TSB_LOCAL_REMOVAL <= newest[k]
        /\ store[n][k] > newest[k] /\ store[n][k] - TSB_LOCAL_REMOVAL \in Nat
        /\ (store[n][k] - TSB_LOCAL_REMOVAL) + TSB_LOCAL_REMOVAL = store[n][k]
    BY <1>1, <1>3 DEF StoreOK, TSB_LOCAL_REMOVAL
  <2>2. store[n][k] - TSB_LOCAL_REMOVAL = newest[k]
    <3>1. store[n][k] - TSB_LOCAL_REMOVAL < newest[k] => store[n][k] < newest[k]
      BY <1>1, <2>1, CleanOrder
    <3> QED
      BY <1>1, <2>1, <3>1
  <2>3. IsRemoval(store[n][k]) /\ (IsDeletion(store[n][k]) <=> IsDeletion(newest[k]))
    BY <2>1, <2>2, CleanBits
  <2>4. CASE n \in Stay
    BY <1>1, <2>2, <2>3, <2>4 DEF StoreOK, Replicable
  <2>5. CASE n \in Join
    <3>1. store[n][k] = newest[k] + TSB_LOCAL_REMOVAL
      BY <2>1, <2>2
    <3> QED
      BY <1>1, <2>5, <3>1 DEF StoreOK, Safe, k
  <2> QED
    BY <2>4, <2>5
<1> QED
  BY <1>2, <1>3

\* The clock and the rings, and messages that are lost.
LEMMA ReplEnvironment ==
  ASSUME OneReplicaMoves, ReplInv,
         Tick \/ (\E n \in Nodes : NewRing(n)) \/ (\E m \in net : Lose(m)) \/ UNCHANGED vars
  PROVE  ReplInv'
<1>1. ReplTypes /\ StoresOK /\ NothingLost
  BY DEF ReplInv
<1>2. /\ UNCHANGED <<store, newest, push, outPull, inPull, bulkSet, bulkSetAck, expiring>>
      /\ net' \subseteq net
  BY DEF Tick, NewRing, Lose, vars
<1>3. now' \in Nat /\ now <= now'
  <2>1. now \in Nat /\ (now' = now \/ now' = now + 1)
    BY <1>1 DEF Tick, NewRing, Lose, vars, ReplTypes
  <2> QED
    BY <2>1
<1>4. ring' \in [Nodes -> 1..2] /\ \A n \in Nodes : ring[n] <= ring'[n]
  <2>1. CASE UNCHANGED ring
    BY <1>1, <2>1 DEF ReplTypes
  <2>2. CASE \E n \in Nodes : NewRing(n)
    <3>1. PICK n \in Nodes : ring[n] < 2 /\ ring' = [ring EXCEPT ![n] = @ + 1]
      BY <2>2, RingFacts DEF NewRing
    <3>2. ring \in [Nodes -> 1..2] /\ ring[n] = 1
      BY <1>1, <3>1 DEF ReplTypes
    <3> QED
      BY <3>1, <3>2
  <2> QED
    BY <2>1, <2>2 DEF Tick, Lose, vars
<1>5. ReplTypes'
  BY <1>1, <1>2, <1>3, <1>4 DEF ReplTypes
<1>6. StoresOK' /\ NothingLost' /\ Later
  BY <1>1, <1>2, <1>3, <1>4, <1>5, StoresFrame
<1> QED
  BY <1>2, <1>5, <1>6, ReplFrame

\* Client writes.
LEMMA ReplClient ==
  ASSUME OneReplicaMoves, ReplInv, NEW n \in Nodes, NEW w \in ClientWrites, ClientWrite(n, w)
  PROVE  ReplInv'
<1>1. ReplTypes' /\ StoresOK' /\ NothingLost' /\ Later
  BY StoresClient DEF ReplInv
<1> QED
  BY <1>1, ReplFrame DEF ClientWrite

\* A step that leaves stores, clock and rings alone.
LEMMA ReplQuiet ==
  ASSUME OneReplicaMoves, ReplInv, UNCHANGED <<now, ring, store, newest>>
  PROVE  /\ ReplTypes' => StoresOK' /\ NothingLost' /\ Later
         /\ UNCHANGED <<Cutoff, TombstoneCutoff, AllLeft>>
         /\ Cutoff \in Int /\ TombstoneCutoff \in Int
         /\ \A n : (MayHold(n)' <=> MayHold(n)) /\ (MayAsk(n)' <=> MayAsk(n))
         /\ \A n, d : Pushes(n, d)' <=> Pushes(n, d)
         /\ \A e : Written(e)' <=> Written(e)
         /\ \A e, d : Removable(e, d)' <=> Removable(e, d)
<1>1. ReplTypes /\ StoresOK /\ NothingLost
  BY DEF ReplInv
<1>2. now <= now' /\ \A n \in Nodes : ring[n] <= ring'[n]
  BY <1>1 DEF ReplTypes
<1>3. ReplTypes' => StoresOK' /\ NothingLost' /\ Later
  BY <1>1, <1>2, StoresFrame
<1>4. UNCHANGED <<Cutoff, TombstoneCutoff, AllLeft>>
  BY DEF Cutoff, TombstoneCutoff, AllLeft
<1>5. Cutoff \in Int /\ TombstoneCutoff \in Int
  <2>1. now - TombstoneAge \in Int /\ now - IgnoreRecent \in Int
    BY <1>1, TimesAssumption DEF ReplTypes
  <2> QED
    BY <2>1 DEF Cutoff, TombstoneCutoff, TSB_UTIL
<1>6. /\ \A n : (MayHold(n)' <=> MayHold(n)) /\ (MayAsk(n)' <=> MayAsk(n))
      /\ \A n, d : Pushes(n, d)' <=> Pushes(n, d)
  BY DEF MayHold, MayAsk, Pushes, AllLeft
<1>7. \A e : Written(e)' <=> Written(e)
  BY DEF Written, Entry
<1>8. \A e, d : Removable(e, d)' <=> Removable(e, d)
  BY <1>4 DEF Removable, Safe
<1> QED
  BY <1>3, <1>4, <1>5, <1>6, <1>7, <1>8

\* Push replication: a node that sends has data, so it leaves, or joins and does not
\* know it yet.
LEMMA ReplPush ==
  ASSUME OneReplicaMoves, ReplInv, NEW n \in Nodes, PushReplication(n)
  PROVE  ReplInv'
<1> USE RingFacts
<1>1. /\ ReplTypes /\ StoresOK /\ JobsOK
      /\ UNCHANGED <<now, ring, store, newest, outPull, inPull, bulkSet, bulkSetAck, expiring>>
  BY DEF ReplInv, PushReplication, PushScan, PushSend
<1>2. CASE PushScan(n)
  <2> DEFINE keys == First({k \in Scan(n, 0, MaxKey, Cutoff) :
                              Replicable(store[n][k], TombstoneCutoff)}, MsgCap)
             job == [ver |-> ring[n], keys |-> keys, cutoff |-> Cutoff,
                     tombstoneCutoff |-> TombstoneCutoff]
  <2>1. push' = [push EXCEPT ![n] = {job}] /\ ~Responsible(n, ring[n]) /\ ring[n] # 0 /\ net' = net
    BY <1>2 DEF PushScan
  <2>2. keys \subseteq Keys
    BY DEF First, Scan
  <2>3. ring[n] \in 1..2 /\ n \notin Rings[ring[n]]
    BY <1>1, <2>1 DEF ReplTypes, Responsible
  <2>4. job \in Job
    <3> HIDE DEF keys
    <3> QED
      BY <1>1, <2>2, <2>3, ReplQuiet DEF Job
  <2>5. PushOK(n, job)
    BY <2>3, <2>4 DEF PushOK
  <2> HIDE DEF job
  <2>6. \A q \in Nodes : \A j \in push'[q] : j \in push[q] \/ PushOK(q, j)'
    BY <1>1, <2>1, <2>5 DEF ReplTypes, PushOK, Job
  <2>7. ReplTypes'
    BY <1>1, <2>1, <2>4 DEF ReplTypes, Job
  <2> QED
    BY <1>1, <2>1, <2>6, <2>7, ReplQuiet, ReplFrame
<1>3. CASE PushSend(n)
  <2>1. push' = [push EXCEPT ![n] = {}]
    BY <1>3 DEF PushSend
  <2>2. ReplTypes' /\ \A q \in Nodes : push'[q] \subseteq push[q]
    BY <1>1, <2>1 DEF ReplTypes, Job
  <2>3. ASSUME NEW m \in net', m \notin net PROVE MsgOK(m)'
    <3>1. PICK j \in push[n] : IF ring[n] # j.ver
                 THEN net' = net
                 ELSE /\ HasFreeMsg(n, "set")
                      /\ Send({[kind |-> "set", from |-> n, to |-> d, ack |-> TRUE,
                                entries |-> UNION {PushEntry(n, k, j) : k \in j.keys}] :
                                 d \in OtherReplicas(n)})
      BY <1>3 DEF PushSend
    <3> DEFINE entries == UNION {PushEntry(n, k, j) : k \in j.keys}
    <3>2. ring[n] = j.ver
      BY <2>3, <3>1
    <3>3. PICK d \in OtherReplicas(n) :
             m = [kind |-> "set", from |-> n, to |-> d, ack |-> TRUE, entries |-> entries]
      BY <2>3, <3>1, <3>2 DEF Send
    <3>4. entries # {}
      BY <2>3, <3>1, <3>2, <3>3 DEF Send
    <3>5. ASSUME NEW e \in entries PROVE Written(e) /\ MayHold(n)
      <4>1. PICK k \in j.keys : e \in PushEntry(n, k, j)
        OBVIOUS
      <4>2. e = [key |-> k, ts |-> store[n][k]] /\ store[n][k] # 0 /\ ~IsRemoval(store[n][k])
        BY <4>1 DEF PushEntry
      <4>3. k \in Keys
        BY <1>1 DEF ReplTypes, Job
      <4> QED
        BY <1>1, <4>2, <4>3, ReadIsWritten
    <3> HIDE DEF entries
    <3>6. MayHold(n) /\ j.ver \in 1..2 /\ n \notin Rings[j.ver] /\ d \in Rings[j.ver] /\ d \in Nodes
      BY <1>1, <3>2, <3>4, <3>5 DEF JobsOK, PushOK, OtherReplicas
    <3>7. Pushes(n, d) /\ MayHold(d)
      <4>1. CASE j.ver = 1
        BY <3>2, <3>6, <4>1 DEF MayHold, Pushes, Join
      <4>2. CASE j.ver = 2
        <5>1. n \in Leave /\ ring[n] = 2
          BY <3>2, <3>6, <4>2 DEF MayHold, Leave
        <5>2. d \in Rings[1] \/ AllLeft
          BY <3>6, <4>2, <5>1 DEF Join, AllLeft
        <5> QED
          BY <3>6, <4>2, <5>1, <5>2 DEF MayHold, Pushes
      <4> QED
        BY <3>6, <4>1, <4>2
    <3>8. MsgOK(m)
      BY <3>3, <3>5, <3>6, <3>7 DEF MsgOK
    <3>9. (\A e \in m.entries : Written(e)') /\ MayHold(d)' /\ Pushes(n, d)'
      BY <1>1, <3>3, <3>5, <3>7, ReplQuiet
    <3> QED
      BY <3>3, <3>6, <3>9 DEF MsgOK
  <2> QED
    BY <1>1, <2>2, <2>3, ReplQuiet, ReplFrame
<1> QED
  BY <1>2, <1>3 DEF PushReplication

\* A message is taken to be stored.
LEMMA ReplInBulkSet ==
  ASSUME OneReplicaMoves, ReplInv, NEW n \in Nodes, NEW m \in net, InBulkSet(n, m)
  PROVE  ReplInv'
<1> USE RingFacts
<1>1. /\ ReplTypes /\ StoresOK /\ JobsOK /\ MsgOK(m) /\ m.kind = "set" /\ m.to = n
      /\ UNCHANGED <<now, ring, store, newest, push, outPull, inPull, bulkSetAck, expiring>>
      /\ net' \subseteq net
  BY DEF ReplInv, InBulkSet
<1>2. PICK last : bulkSet' = [bulkSet EXCEPT ![n] =
                        {[ver |-> ring[n], from |-> m.from, left |-> left,
                          ack |-> m.ack /\ ring[n] # 0, acks |-> {}] :
                            left \in {m.entries \ last} \ {{}}}]
  BY DEF InBulkSet
<1>3. ReplTypes'
  BY <1>1, <1>2 DEF ReplTypes, Job
<1>4. ASSUME NEW j \in bulkSet'[n] PROVE BulkSetOK(n, j)'
  <2>1. PICK left \in {m.entries \ last} \ {{}} :
           j = [ver |-> ring[n], from |-> m.from, left |-> left,
                ack |-> m.ack /\ ring[n] # 0, acks |-> {}]
    BY <1>1, <1>2, <1>4 DEF ReplTypes
  <2>2. left \subseteq m.entries /\ \A e \in left : Written(e)'
    BY <1>1, ReplQuiet DEF MsgOK
  <2>3. ring[n] \in 1..2 /\ ring'[n] = ring[n] /\ m.ack \in BOOLEAN /\ m.from \in Nodes /\ MayHold(n)'
    BY <1>1, ReplQuiet DEF ReplTypes, MsgOK
  <2>4. ASSUME m.ack
        PROVE  Pushes(m.from, n)' /\ (m.from \in Join /\ n \in Leave => ring[n] = 2)
    <3>1. Pushes(m.from, n)
      BY <1>1, <2>4 DEF MsgOK
    <3> QED
      BY <1>1, <3>1, ReplQuiet DEF Pushes, AllLeft, Join, Leave
  <2>5. /\ j.ver = ring[n] /\ j.from = m.from /\ j.left = left /\ j.acks = {}
        /\ j.ack \in BOOLEAN /\ (j.ack => m.ack)
    BY <2>1, <2>3
  <2>6. j.ver <= ring'[n]
    BY <2>3, <2>5
  <2>7. j \in BulkSetJob
    BY <2>1, <2>2, <2>3 DEF BulkSetJob, Written, Entry
  <2> QED
    BY <2>2, <2>3, <2>4, <2>5, <2>6, <2>7 DEF BulkSetOK, BulkSetJob, Entry
<1>5. \A q \in Nodes : \A j \in bulkSet'[q] : j \in bulkSet[q] \/ BulkSetOK(q, j)'
  BY <1>1, <1>2, <1>4 DEF ReplTypes
<1> QED
  BY <1>1, <1>3, <1>5, ReplQuiet, ReplFrame

\* An entry is stored, and acknowledged if this node is responsible: it keeps the
\* partition, or has joined and the entry comes from a node that leaves.
LEMMA ReplInBulkSetEntry ==
  ASSUME OneReplicaMoves, ReplInv, NEW n \in Nodes, InBulkSetEntry(n)
  PROVE  ReplInv'
<1> USE RingFacts
<1>1. PICK j \in bulkSet[n] : \E e0 \in j.left : \E err0 \in BOOLEAN :
         LET acks == j.acks \cup (IF Acknowledged(n, j, e0, err0) THEN {e0} ELSE {})
             left == j.left \ {e0}
         IN  /\ err0 => ~IsDeletion(e0.ts)
             /\ IF err0 THEN UNCHANGED store ELSE Write(n, e0.key, e0.ts)
             /\ IF left = {}
                THEN /\ bulkSet' = [bulkSet EXCEPT ![n] = {}]
                     /\ IF j.ack
                        THEN Send({[kind |-> "ack", from |-> n, to |-> j.from,
                                    ack |-> FALSE, entries |-> acks]})
                        ELSE UNCHANGED net
                ELSE /\ bulkSet' = [bulkSet EXCEPT ![n] =
                                      {[j EXCEPT !.left = left, !.acks = acks]}]
                     /\ UNCHANGED net
             /\ UNCHANGED <<now, ring, newest, push, outPull, inPull, bulkSetAck, expiring>>
  BY DEF InBulkSetEntry
<1>2. PICK e \in j.left, err \in BOOLEAN :
         LET acks == j.acks \cup (IF Acknowledged(n, j, e, err) THEN {e} ELSE {})
             left == j.left \ {e}
         IN  /\ err => ~IsDeletion(e.ts)
             /\ IF err THEN UNCHANGED store ELSE Write(n, e.key, e.ts)
             /\ IF left = {}
                THEN /\ bulkSet' = [bulkSet EXCEPT ![n] = {}]
                     /\ IF j.ack
                        THEN Send({[kind |-> "ack", from |-> n, to |-> j.from,
                                    ack |-> FALSE, entries |-> acks]})
                        ELSE UNCHANGED net
                ELSE /\ bulkSet' = [bulkSet EXCEPT ![n] =
                                      {[j EXCEPT !.left = left, !.acks = acks]}]
                     /\ UNCHANGED net
             /\ UNCHANGED <<now, ring, newest, push, outPull, inPull, bulkSetAck, expiring>>
  BY <1>1
<1> DEFINE acks == j.acks \cup (IF Acknowledged(n, j, e, err) THEN {e} ELSE {})
           left == j.left \ {e}
<1>3. /\ ReplTypes /\ StoresOK /\ NothingLost /\ JobsOK /\ BulkSetOK(n, j) /\ Written(e) /\ MayHold(n)
      /\ UNCHANGED <<now, ring, newest, push, outPull, inPull, bulkSetAck, expiring>>
  BY <1>2 DEF ReplInv, JobsOK, BulkSetOK
<1>4. /\ store' \in [Nodes -> [Keys -> Nat]] /\ StoresOK' /\ NothingLost' /\ Later
  <2>1. CASE err
    <3>1. UNCHANGED store
      BY <1>2, <2>1
    <3>2. now <= now' /\ (\A q \in Nodes : ring[q] <= ring'[q])
      BY <1>3 DEF ReplTypes
    <3>3. store' \in [Nodes -> [Keys -> Nat]]
      BY <1>3, <3>1 DEF ReplTypes
    <3>4. KeepsSafe /\ Later
      BY <1>3, <3>1, <3>2 DEF KeepsSafe, Safe, Later, ReplTypes
    <3>5. StoresOK' /\ NothingLost'
      BY <1>3, <3>1 DEF StoresOK, StoreOK, NothingLost, MayHold, AllLeft, TombstoneCutoff
    <3> QED
      BY <3>3, <3>4, <3>5
  <2>2. CASE ~err
    <3>1. Write(n, e.key, e.ts)
      BY <1>2, <2>2
    <3> QED
      BY <1>3, <3>1, StoresEntry
  <2> QED
    BY <2>1, <2>2
<1>5. ReplTypes'
  BY <1>2, <1>3, <1>4 DEF ReplTypes, Job
<1>6. /\ \A q : MayHold(q) => MayHold(q)'
      /\ \A d : Written(d) => Written(d)'
      /\ \A d, q : Written(d) /\ q \in Nodes /\ Removable(d, q) => Removable(d, q)'
      /\ \A q, i : BulkSetOK(n, i) => BulkSetOK(n, i)'
      /\ BulkSetOK(n, j)'
  BY <1>3, <1>4, <1>5, LaterKeeps
<1>7. ASSUME Acknowledged(n, j, e, err) PROVE Removable(e, j.from)'
  <2>1. j.ack /\ ~err /\ Responsible(n, j.ver)
    BY <1>7 DEF Acknowledged
  <2>2. e.ts <= store'[n][e.key]
    <3>1. Write(n, e.key, e.ts) /\ e.key \in Keys /\ e.ts \in Nat /\ store \in [Nodes -> [Keys -> Nat]]
      BY <1>2, <1>3, <2>1 DEF Written, Entry, ReplTypes
    <3>2. /\ store[n][e.key] < e.ts => store'[n][e.key] = e.ts
          /\ ~(store[n][e.key] < e.ts) => store'[n][e.key] = store[n][e.key]
      BY <3>1, WriteFacts
    <3>3. store[n][e.key] \in Nat
      BY <3>1
    <3> QED
      BY <3>1, <3>2, <3>3
  <2>3. n \in Stay \/ (n \in Join /\ ring'[n] = 2 /\ j.from \notin Join)
    <3>1. /\ j.ver \in 1..2 /\ j.ver <= ring[n] /\ ring[n] \in 1..2 /\ n \in Rings[j.ver]
          /\ Pushes(j.from, n) /\ (j.from \in Join /\ n \in Leave => j.ver = 2)
      BY <1>3, <2>1 DEF BulkSetOK, BulkSetJob, Responsible, ReplTypes
    <3>2. CASE j.ver = 1
      BY <1>3, <3>1, <3>2 DEF Pushes, Stay, Join, Leave
    <3>3. CASE j.ver = 2
      <4>1. ring[n] = 2
        BY <3>1, <3>3
      <4> QED
        BY <1>3, <3>1, <3>3, <4>1 DEF Pushes, Stay, Join, Leave
    <3> QED
      BY <3>1, <3>2, <3>3
  <2>4. (OneReplicaMoves /\ ReplTypes /\ StoresOK => StoredIsRemovable)'
    BY StoredFacts, PTL
  <2>5. OneReplicaMoves' /\ Written(e)'
    BY <1>3, <1>6 DEF OneReplicaMoves
  <2>6. StoredIsRemovable'
    BY <1>4, <1>5, <2>4, <2>5
  <2> QED
    BY <2>2, <2>3, <2>5, <2>6 DEF StoredIsRemovable
<1>8. \A c \in acks : Written(c)' /\ Removable(c, j.from)'
  BY <1>3, <1>6, <1>7 DEF BulkSetOK
<1>9. ASSUME NEW m \in net', m \notin net PROVE MsgOK(m)'
  <2>1. m = [kind |-> "ack", from |-> n, to |-> j.from, ack |-> FALSE, entries |-> acks] /\ j.ack
    BY <1>2, <1>9 DEF Send
  <2> HIDE DEF acks
  <2>2. j.from \in Nodes
    BY <1>3 DEF BulkSetOK, BulkSetJob
  <2>3. MayHold(j.from)'
    BY <1>6, <2>1, <2>2 DEF BulkSetOK, Pushes, MayHold, Leave, Join
  <2> QED
    BY <1>8, <2>1, <2>2, <2>3 DEF MsgOK
<1>10. ASSUME NEW i \in bulkSet'[n] PROVE BulkSetOK(n, i)'
  <2>1. i = [j EXCEPT !.left = left, !.acks = acks]
    BY <1>2, <1>3, <1>10 DEF ReplTypes
  <2>2. j \in BulkSetJob /\ left \subseteq Entry /\ acks \subseteq Entry
    BY <1>3 DEF BulkSetOK, BulkSetJob
  <2> HIDE DEF acks, left
  <2>3. i \in BulkSetJob /\ i.ver = j.ver /\ i.from = j.from /\ i.ack = j.ack /\ i.left = left /\ i.acks = acks
    BY <2>1, <2>2 DEF BulkSetJob
  <2>4. \A c \in left : Written(c)'
    BY <1>6 DEF left, BulkSetOK
  <2> QED
    BY <1>6, <1>8, <2>3, <2>4 DEF BulkSetOK, BulkSetJob, Entry
<1>11. \A q \in Nodes : \A i \in bulkSet'[q] : i \in bulkSet[q] \/ BulkSetOK(q, i)'
  BY <1>2, <1>3, <1>10 DEF ReplTypes
<1> QED
  BY <1>3, <1>4, <1>5, <1>9, <1>11, ReplFrame

\* Acknowledgements: what is marked as removed is safe elsewhere.
LEMMA ReplInBulkSetAcks ==
  ASSUME OneReplicaMoves, ReplInv, NEW n \in Nodes, InBulkSetAcks(n)
  PROVE  ReplInv'
<1> USE RingFacts
<1>1. ReplTypes /\ StoresOK /\ NothingLost /\ JobsOK
  BY DEF ReplInv
<1>2. ASSUME NEW m \in net, InBulkSetAck(n, m) PROVE ReplInv'
  <2>0. PICK job : job = [ver |-> ring[n], left |-> m.entries]
    OBVIOUS
  <2>1. /\ MsgOK(m) /\ m.kind = "ack" /\ m.to = n /\ net' \subseteq net
        /\ bulkSetAck' = [bulkSetAck EXCEPT ![n] = {job}]
        /\ UNCHANGED <<now, ring, store, newest, push, outPull, inPull, bulkSet, expiring>>
    BY <1>2, <2>0 DEF InBulkSetAck, ReplInv
  <2>2. job \in BulkSetAckJob
    BY <1>1, <2>0, <2>1 DEF BulkSetAckJob, MsgOK, Written, ReplTypes
  <2>3. (\A e \in m.entries : Written(e)' /\ Removable(e, n)') /\ MayHold(n)'
    BY <2>1, ReplQuiet DEF MsgOK
  <2>4. BulkSetAckOK(n, job)'
    BY <2>0, <2>2, <2>3 DEF BulkSetAckOK, BulkSetAckJob, Entry
  <2>5. ReplTypes'
    BY <1>1, <2>1 DEF ReplTypes, Job
  <2>6. \A q \in Nodes : \A j \in bulkSetAck'[q] : j \in bulkSetAck[q] \/ BulkSetAckOK(q, j)'
    BY <1>1, <2>1, <2>4 DEF ReplTypes
  <2> QED
    BY <2>1, <2>5, <2>6, ReplQuiet, ReplFrame
<1>3. CASE InBulkSetAckEntry(n)
  <2>1. PICK j \in bulkSetAck[n] : \E e \in j.left :
           /\ IF j.ver # 0 /\ ~Responsible(n, j.ver)
              THEN Write(n, e.key, e.ts + TSB_LOCAL_REMOVAL)
              ELSE UNCHANGED store
           /\ bulkSetAck' = [bulkSetAck EXCEPT ![n] =
                               {[i EXCEPT !.left = @ \ {e}] : i \in {i \in {j} : j.left # {e}}}]
           /\ UNCHANGED <<now, ring, newest, net, push, outPull, inPull, bulkSet, expiring>>
    BY <1>3 DEF InBulkSetAckEntry
  <2>2. PICK e \in j.left :
           /\ IF j.ver # 0 /\ ~Responsible(n, j.ver)
              THEN Write(n, e.key, e.ts + TSB_LOCAL_REMOVAL)
              ELSE UNCHANGED store
           /\ bulkSetAck' = [bulkSetAck EXCEPT ![n] =
                               {[i EXCEPT !.left = @ \ {e}] : i \in {i \in {j} : j.left # {e}}}]
           /\ UNCHANGED <<now, ring, newest, net, push, outPull, inPull, bulkSet, expiring>>
    BY <2>1
  <2>3. BulkSetAckOK(n, j) /\ Written(e) /\ Removable(e, n) /\ MayHold(n) /\ j.ver \in 1..2
    BY <1>1 DEF JobsOK, BulkSetAckOK, BulkSetAckJob
  <2>4. store' \in [Nodes -> [Keys -> Nat]] /\ StoresOK' /\ NothingLost' /\ Later
    <3>1. CASE ~Responsible(n, j.ver)
      <4>1. n \notin Stay /\ Write(n, e.key, e.ts + TSB_LOCAL_REMOVAL)
        BY <2>2, <2>3, <3>1 DEF Responsible
      <4> QED
        BY <1>1, <2>2, <2>3, <4>1, StoresMarker
    <3>2. CASE Responsible(n, j.ver)
      <4>1. UNCHANGED store
        BY <2>2, <3>2
      <4>2. now <= now' /\ (\A q \in Nodes : ring[q] <= ring'[q])
        BY <1>1, <2>2 DEF ReplTypes
      <4>3. store' \in [Nodes -> [Keys -> Nat]]
        BY <1>1, <4>1 DEF ReplTypes
      <4>4. KeepsSafe /\ Later
        BY <1>1, <2>2, <4>1, <4>2 DEF KeepsSafe, Safe, Later, ReplTypes
      <4>5. StoresOK' /\ NothingLost'
        BY <1>1, <2>2, <4>1 DEF StoresOK, StoreOK, NothingLost, MayHold, AllLeft, TombstoneCutoff
      <4> QED
        BY <4>3, <4>4, <4>5
    <3> QED
      BY <3>1, <3>2
  <2>5. ReplTypes'
    BY <1>1, <2>2, <2>4 DEF ReplTypes, Job
  <2>6. BulkSetAckOK(n, j)'
    BY <1>1, <2>3, <2>4, <2>5, LaterKeeps
  <2>7. ASSUME NEW i \in bulkSetAck'[n] PROVE BulkSetAckOK(n, i)'
    <3>1. i = [j EXCEPT !.left = @ \ {e}]
      BY <1>1, <2>2, <2>7 DEF ReplTypes
    <3>2. i \in BulkSetAckJob /\ i.ver = j.ver /\ i.left \subseteq j.left
      BY <2>3, <3>1 DEF BulkSetAckOK, BulkSetAckJob
    <3> QED
      BY <2>6, <3>2 DEF BulkSetAckOK, BulkSetAckJob, Entry
  <2>8. \A q \in Nodes : \A i \in bulkSetAck'[q] : i \in bulkSetAck[q] \/ BulkSetAckOK(q, i)'
    BY <1>1, <2>2, <2>7 DEF ReplTypes
  <2> QED
    BY <2>2, <2>4, <2>5, <2>8, ReplFrame
<1> QED
  BY <1>2, <1>3 DEF InBulkSetAcks

\* Pull replication, on the side that asks.
LEMMA ReplOutPull ==
  ASSUME OneReplicaMoves, ReplInv, NEW n \in Nodes, OutPull(n)
  PROVE  ReplInv'
<1> USE RingFacts
<1>1. /\ ReplTypes /\ JobsOK
      /\ UNCHANGED <<now, ring, store, newest, push, inPull, bulkSet, bulkSetAck, expiring>>
  BY DEF ReplInv, OutPull, OutPullBegin, OutPullRange
<1>2. CASE OutPullBegin(n)
  <2>0. PICK job : job = [ver |-> ring[n], lo |-> 0, cutoff |-> Cutoff]
    OBVIOUS
  <2>1. outPull' = [outPull EXCEPT ![n] = {job}] /\ Responsible(n, ring[n]) /\ net' = net
    BY <1>2, <2>0 DEF OutPullBegin
  <2>2. OutPullOK(n, job)'
    BY <1>1, <2>0, <2>1 DEF OutPullOK, Responsible, ReplTypes
  <2>3. ReplTypes'
    BY <1>1, <2>1 DEF ReplTypes, Job
  <2>4. \A q \in Nodes : \A j \in outPull'[q] : j \in outPull[q] \/ OutPullOK(q, j)'
    BY <1>1, <2>1, <2>2 DEF ReplTypes
  <2> QED
    BY <1>1, <2>1, <2>3, <2>4, ReplQuiet, ReplFrame
<1>3. CASE OutPullRange(n)
  <2>0. PICK j \in outPull[n], false \in {{}} \cup {{p} : p \in Pairs} :
           LET scan   == Scan(n, j.lo, MaxKey, j.cutoff)
               batch  == First(scan, BloomN)
               more   == batch # scan
               next   == CHOOSE k \in scan \ batch : \A i \in scan \ batch : k <= i
               filter == {<<k, store[n][k]>> : k \in batch} \cup false
               hi     == IF more THEN next - 1 ELSE MaxKey
           IN  /\ IF ring[n] # j.ver
                  THEN net' = net
                  ELSE Send({[kind |-> "pull", from |-> n, to |-> m, lo |-> j.lo, hi |-> hi,
                              cutoff |-> j.cutoff, filter |-> filter] : m \in OtherReplicas(n)})
               /\ outPull' = [outPull EXCEPT ![n] =
                                IF ring[n] = j.ver /\ more THEN {[j EXCEPT !.lo = next]} ELSE {}]
    BY <1>3 DEF OutPullRange
  <2> DEFINE scan   == Scan(n, j.lo, MaxKey, j.cutoff)
             batch  == First(scan, BloomN)
             lo     == CHOOSE k \in scan \ batch : \A i \in scan \ batch : k <= i
             filter == {<<k, store[n][k]>> : k \in batch} \cup false
             hi     == IF batch # scan THEN lo - 1 ELSE MaxKey
  <2>1. /\ \/ net' = net
           \/ /\ ring[n] = j.ver
              /\ Send({[kind |-> "pull", from |-> n, to |-> m, lo |-> j.lo, hi |-> hi,
                        cutoff |-> j.cutoff, filter |-> filter] : m \in OtherReplicas(n)})
        /\ \/ outPull' = [outPull EXCEPT ![n] = {[j EXCEPT !.lo = lo]}]
           \/ outPull' = [outPull EXCEPT ![n] = {}]
    BY <2>0
  <2> HIDE DEF filter, hi, lo
  <2>2. OutPullOK(n, j)
    BY <1>1 DEF JobsOK
  <2>3. ASSUME NEW i \in outPull'[n] PROVE OutPullOK(n, i)'
    <3>1. i = [j EXCEPT !.lo = lo]
      BY <1>1, <2>1, <2>3 DEF ReplTypes
    <3>2. i.ver = j.ver
      BY <3>1
    <3> QED
      BY <2>2, <3>2 DEF OutPullOK
  <2>4. \A q \in Nodes : \A i \in outPull'[q] : i \in outPull[q] \/ OutPullOK(q, i)'
    BY <1>1, <2>1, <2>3 DEF ReplTypes
  <2>5. ASSUME NEW m \in net', m \notin net PROVE MsgOK(m)'
    <3>1. PICK d \in OtherReplicas(n) :
             m = [kind |-> "pull", from |-> n, to |-> d, lo |-> j.lo, hi |-> hi,
                  cutoff |-> j.cutoff, filter |-> filter]
      BY <2>1, <2>5 DEF Send
    <3>2. ring[n] = j.ver
      BY <2>1, <2>5
    <3>3. d \in Nodes /\ MayAsk(n)
      BY <2>2, <3>2 DEF OtherReplicas, OutPullOK, MayAsk
    <3>4. MayAsk(n)'
      BY <1>1, <3>3, ReplQuiet
    <3> QED
      BY <3>1, <3>3, <3>4 DEF MsgOK
  <2>6. ReplTypes'
    BY <1>1, <2>1 DEF ReplTypes, Job
  <2> QED
    BY <1>1, <2>4, <2>5, <2>6, ReplQuiet, ReplFrame
<1> QED
  BY <1>2, <1>3 DEF OutPull

\* Pull replication, on the side that answers.
LEMMA ReplInPull ==
  ASSUME OneReplicaMoves, ReplInv, NEW n \in Nodes, InPull(n)
  PROVE  ReplInv'
<1> USE RingFacts
<1>1. /\ ReplTypes /\ StoresOK /\ JobsOK
      /\ UNCHANGED <<now, ring, store, newest, push, outPull, bulkSet, bulkSetAck, expiring>>
  BY DEF ReplInv, InPull, InPullReplication, InPullSend
<1>2. ASSUME NEW m \in net, InPullReplication(n, m) PROVE ReplInv'
  <2>1. PICK keys \in SUBSET Keys :
           \/ inPull' = [inPull EXCEPT ![n] = {}]
           \/ inPull' = [inPull EXCEPT ![n] = {[from |-> m.from, keys |-> keys]}]
    <3> DEFINE missing == {k \in Scan(n, m.lo, m.hi, m.cutoff) :
                             /\ Replicable(store[n][k], TombstoneCutoff)
                             /\ <<k, store[n][k]>> \notin m.filter}
    <3>1. PICK keys \in SUBSET missing :
             inPull' = [inPull EXCEPT ![n] = IF ring[n] = 0 \/ keys = {} THEN {}
                                             ELSE {[from |-> m.from, keys |-> keys]}]
      BY <1>2 DEF InPullReplication
    <3>2. missing \subseteq Keys
      BY DEF Scan
    <3> QED
      BY <3>1, <3>2
  <2>2. MsgOK(m) /\ m.kind = "pull" /\ net' \subseteq net
    BY <1>2 DEF InPullReplication, ReplInv
  <2>3. MayAsk(m.from)'
    BY <1>1, <2>2, ReplQuiet DEF MsgOK
  <2>4. InPullOK(n, [from |-> m.from, keys |-> keys])'
    BY <2>3 DEF InPullOK
  <2>5. \A q \in Nodes : \A j \in inPull'[q] : j \in inPull[q] \/ InPullOK(q, j)'
    BY <1>1, <2>1, <2>4 DEF ReplTypes
  <2>6. ReplTypes'
    BY <1>1, <2>1 DEF ReplTypes, Job
  <2> QED
    BY <1>1, <2>2, <2>5, <2>6, ReplQuiet, ReplFrame
<1>3. CASE InPullSend(n)
  <2>1. inPull' = [inPull EXCEPT ![n] = {}]
    BY <1>3 DEF InPullSend
  <2>2. ReplTypes' /\ \A q \in Nodes : inPull'[q] \subseteq inPull[q]
    BY <1>1, <2>1 DEF ReplTypes, Job
  <2>3. ASSUME NEW m \in net', m \notin net PROVE MsgOK(m)'
    <3>1. PICK j \in inPull[n] :
             Send({[kind |-> "set", from |-> n, to |-> j.from, ack |-> FALSE,
                    entries |-> {[key |-> k, ts |-> store[n][k]] :
                                   k \in {k \in j.keys : store[n][k] # 0
                                                         /\ ~IsRemoval(store[n][k])}}]})
      BY <1>3 DEF InPullSend
    <3> DEFINE entries == {[key |-> k, ts |-> store[n][k]] :
                             k \in {k \in j.keys : store[n][k] # 0 /\ ~IsRemoval(store[n][k])}}
    <3>2. m = [kind |-> "set", from |-> n, to |-> j.from, ack |-> FALSE, entries |-> entries]
      BY <2>3, <3>1 DEF Send
    <3>3. j.keys \subseteq Keys /\ MayAsk(j.from)
      BY <1>1 DEF JobsOK, InPullOK
    <3>4. ASSUME NEW e \in entries PROVE Written(e)
      <4>1. PICK k \in j.keys : e = [key |-> k, ts |-> store[n][k]] /\ store[n][k] # 0
                               /\ ~IsRemoval(store[n][k])
        OBVIOUS
      <4> QED
        BY <1>1, <3>3, <4>1, ReadIsWritten
    <3> HIDE DEF entries
    <3>5. MayHold(j.from)' /\ j.from \in Nodes /\ \A e \in entries : Written(e)'
      BY <1>1, <3>3, <3>4, ReplQuiet DEF MayAsk, MayHold
    <3> QED
      BY <3>2, <3>5 DEF MsgOK
  <2> QED
    BY <1>1, <2>2, <2>3, ReplQuiet, ReplFrame
<1> QED
  BY <1>2, <1>3 DEF InPull

\* Tombstone discard.
LEMMA ReplDiscard ==
  ASSUME OneReplicaMoves, ReplInv, NEW n \in Nodes, TombstoneDiscard(n)
  PROVE  ReplInv'
<1> USE RingFacts
<1>1. ReplTypes /\ StoresOK /\ NothingLost /\ JobsOK
  BY DEF ReplInv
<1>2. ASSUME NEW k \in Keys, DiscardRemoval(n, k) PROVE ReplInv'
  <2>1. store' \in [Nodes -> [Keys -> Nat]] /\ StoresOK' /\ NothingLost' /\ Later
    BY <1>1, <1>2, StoresDiscard
  <2>2. UNCHANGED <<now, ring, newest, net, push, outPull, inPull, bulkSet, bulkSetAck, expiring>>
    BY <1>2 DEF DiscardRemoval
  <2>3. ReplTypes'
    BY <1>1, <2>1, <2>2 DEF ReplTypes, Job
  <2> QED
    BY <2>1, <2>2, <2>3, ReplFrame
<1>3. CASE ExpireScan(n)
  <2> DEFINE batch == {[key |-> k, ts |-> store[n][k]] : k \in First(Expired(n), BatchSize)}
  <2>1. /\ expiring' = [expiring EXCEPT ![n] = batch]
        /\ UNCHANGED <<now, ring, store, newest, net, push, outPull, inPull, bulkSet, bulkSetAck>>
    BY <1>3 DEF ExpireScan
  <2>2. ASSUME NEW e \in batch PROVE ExpiringOK(n, e)'
    <3>1. PICK k \in Expired(n) : e = [key |-> k, ts |-> store[n][k]]
      BY DEF First
    <3>2. /\ k \in Keys /\ store[n][k] # 0 /\ ~IsRemoval(store[n][k])
          /\ store[n][k] < TombstoneCutoff /\ IsDeletion(store[n][k])
      BY DEF Expired, Scan
    <3>3. Written(e) /\ MayHold(n)
      BY <1>1, <3>1, <3>2, ReadIsWritten
    <3>4. Written(e)' /\ MayHold(n)' /\ TombstoneCutoff' = TombstoneCutoff
      BY <2>1, <3>3, ReplQuiet
    <3>5. e.ts = store[n][k]
      BY <3>1
    <3> QED
      BY <3>2, <3>4, <3>5 DEF ExpiringOK
  <2> HIDE DEF batch
  <2>3. ReplTypes'
    BY <1>1, <2>1 DEF ReplTypes, Job
  <2>4. \A q \in Nodes : \A e \in expiring'[q] : e \in expiring[q] \/ ExpiringOK(q, e)'
    BY <1>1, <2>1, <2>2 DEF ReplTypes
  <2> QED
    BY <2>1, <2>3, <2>4, ReplQuiet, ReplFrame
<1>4. CASE ExpireWrite(n)
  <2>1. PICK e \in expiring[n] :
           /\ Write(n, e.key, e.ts + TSB_LOCAL_REMOVAL)
           /\ expiring' = [expiring EXCEPT ![n] = @ \ {e}]
           /\ UNCHANGED <<now, ring, newest, net, push, outPull, inPull, bulkSet, bulkSetAck>>
    BY <1>4 DEF ExpireWrite
  <2>2. Written(e) /\ IsDeletion(e.ts) /\ e.ts < TombstoneCutoff /\ MayHold(n)
    BY <1>1 DEF JobsOK, ExpiringOK
  <2>3. store' \in [Nodes -> [Keys -> Nat]] /\ StoresOK' /\ NothingLost' /\ Later
    BY <1>1, <2>1, <2>2, StoresMarker
  <2>4. ReplTypes'
    BY <1>1, <2>1, <2>3 DEF ReplTypes, Job
  <2>5. \A q \in Nodes : expiring'[q] \subseteq expiring[q]
    BY <1>1, <2>1 DEF ReplTypes
  <2> QED
    BY <2>1, <2>3, <2>4, <2>5, ReplFrame
<1> QED
  BY <1>2, <1>3, <1>4 DEF TombstoneDiscard

\* Every step keeps the invariant.
LEMMA ReplStep == ASSUME OneReplicaMoves PROVE ReplInv /\ [Next]_vars => ReplInv'
<1> SUFFICES ASSUME ReplInv, [Next]_vars PROVE ReplInv'
  OBVIOUS
<1>1. ASSUME NEW n \in Nodes, InBulkSets(n) PROVE ReplInv'
  BY <1>1, ReplInBulkSet, ReplInBulkSetEntry DEF InBulkSets
<1> QED
  BY <1>1, ReplEnvironment, ReplClient, ReplPush, ReplInBulkSetAcks, ReplOutPull, ReplInPull, ReplDiscard
  DEF Next

\* While a partition moves, with every node learning of the new ring at its own time
\* and messages lost, late and out of order, no node removes the newest value or live
\* deletion before another has it for good.
THEOREM HandoffLosesNothing == ASSUME OneReplicaMoves PROVE Spec => []NothingLost
<1>1. Init => ReplInv
  BY InitRepl
<1>2. ReplInv /\ [Next]_vars => ReplInv'
  BY ReplStep
<1>3. ReplInv => NothingLost
  BY DEF ReplInv
<1> QED
  BY <1>1, <1>2, <1>3, PTL DEF Spec

(***************************************************************************)
(* Types, for any rings: what is under way of each sender and kind stays   *)
(* within its pool and the receivers of one message.                       *)
(***************************************************************************)
LEMMA NetShrinks ==
  ASSUME NetTyped, net' \subseteq net
  PROVE  NetTyped'
<1>1. IsFiniteSet(net) /\ IsFiniteSet(net') /\ \A m \in net' : MsgTyped(m)
  BY FS_Subset DEF NetTyped
<1>2. ASSUME NEW n \in Nodes, NEW kind \in {"set", "ack", "pull"}
      PROVE  Cardinality(Sent(n, kind))' <= OutMsgs + Cardinality(Nodes) - 2
  <2>1. Sent(n, kind)' \subseteq Sent(n, kind) /\ Sent(n, kind) \subseteq net
    BY DEF Sent
  <2>2. IsFiniteSet(Sent(n, kind))
    BY <1>1, <2>1, FS_Subset
  <2>3. /\ IsFiniteSet(Sent(n, kind)')
        /\ Cardinality(Sent(n, kind)') <= Cardinality(Sent(n, kind))
    BY <2>1, <2>2, FS_Subset
  <2>4. /\ Cardinality(Sent(n, kind)) \in Nat /\ Cardinality(Sent(n, kind)') \in Nat
        /\ Cardinality(Nodes) \in Nat /\ OutMsgs \in Nat
    BY <2>2, <2>3, FS_CardinalityType, PoolsAssumption
  <2>5. Cardinality(Sent(n, kind)) <= OutMsgs + Cardinality(Nodes) - 2
    BY DEF NetTyped
  <2> QED
    BY <2>3, <2>4, <2>5
<1> QED
  BY <1>1, <1>2 DEF NetTyped

\* A sender that has a free message puts it under way to fewer receivers than there
\* are nodes.
LEMMA NetSends ==
  ASSUME NetTyped, NEW n \in Nodes, NEW kind \in {"set", "ack", "pull"},
         NEW msgs, IsFiniteSet(msgs), Cardinality(msgs) <= Cardinality(Nodes) - 1,
         \A m \in msgs : m.from = n /\ m.kind = kind /\ MsgTyped(m),
         HasFreeMsg(n, kind), Send(msgs)
  PROVE  NetTyped'
<1> DEFINE new == {m \in msgs : m.kind = "pull" \/ m.entries # {}}
<1>1. net' = net \cup new /\ new \subseteq msgs
  BY DEF Send
<1> HIDE DEF new
<1>2. /\ IsFiniteSet(new) /\ Cardinality(new) <= Cardinality(msgs) /\ IsFiniteSet(net)
      /\ \A m \in net' : MsgTyped(m)
  BY <1>1, FS_Subset DEF NetTyped
<1>3. IsFiniteSet(net')
  BY <1>1, <1>2, FS_Union
<1>4. /\ Cardinality(new) \in Nat /\ Cardinality(msgs) \in Nat /\ Cardinality(Nodes) \in Nat
      /\ OutMsgs \in Nat
  BY <1>2, FS_CardinalityType, PoolsAssumption
<1>5. ASSUME NEW p \in Nodes, NEW k \in {"set", "ack", "pull"}
      PROVE  Cardinality(Sent(p, k)') <= OutMsgs + Cardinality(Nodes) - 2
  <2>1. IsFiniteSet(Sent(p, k))
    <3>1. Sent(p, k) \subseteq net
      BY DEF Sent
    <3> QED
      BY <1>2, <3>1, FS_Subset
  <2>2. CASE p = n /\ k = kind
    <3>1. Sent(p, k)' = Sent(p, k) \cup new
      BY <1>1, <2>2 DEF Sent
    <3>2. Cardinality(Sent(p, k)) < OutMsgs
      BY <2>2 DEF HasFreeMsg, Sent
    <3>3. /\ IsFiniteSet(Sent(p, k) \cap new)
          /\ Cardinality(Sent(p, k) \cup new)
               = Cardinality(Sent(p, k)) + Cardinality(new) - Cardinality(Sent(p, k) \cap new)
      BY <1>2, <2>1, FS_Union, FS_Intersection
    <3>4. Cardinality(Sent(p, k)) \in Nat /\ Cardinality(Sent(p, k) \cap new) \in Nat
      BY <2>1, <3>3, FS_CardinalityType
    <3> QED
      BY <1>2, <1>4, <3>1, <3>2, <3>3, <3>4
  <2>3. CASE ~(p = n /\ k = kind)
    <3>1. Sent(p, k)' = Sent(p, k)
      BY <1>1, <2>3 DEF Sent
    <3> QED
      BY <3>1 DEF NetTyped
  <2> QED
    BY <2>2, <2>3
<1>6. \A p \in Nodes, k \in {"set", "ack", "pull"} :
        Cardinality(Sent(p, k))' <= OutMsgs + Cardinality(Nodes) - 2
  BY <1>5
<1> QED
  BY <1>2, <1>3, <1>6 DEF NetTyped

\* One message to another node.
LEMMA NetSendsOne ==
  ASSUME NetTyped, NEW msg, MsgTyped(msg), HasFreeMsg(msg.from, msg.kind), Send({msg})
  PROVE  NetTyped'
<1>1. msg.from \in Nodes /\ msg.to \in Nodes /\ msg.from # msg.to
      /\ msg.kind \in {"set", "ack", "pull"}
  BY DEF MsgTyped
<1>2. IsFiniteSet({msg}) /\ Cardinality({msg}) = 1
  BY FS_Singleton
<1>3. Cardinality(Nodes) \in Nat /\ Cardinality(Nodes) >= 2
  <2>1. IsFiniteSet({msg.from}) /\ Cardinality({msg.from}) = 1
    BY FS_Singleton
  <2>2. Cardinality({msg.from} \cup {msg.to}) = 2
    BY <1>1, <2>1, FS_AddElement
  <2>3. {msg.from} \cup {msg.to} \in SUBSET Nodes
    BY <1>1
  <2>4. Cardinality({msg.from} \cup {msg.to}) <= Cardinality(Nodes) /\ Cardinality(Nodes) \in Nat
    BY <2>3, FS_Subset, FS_CardinalityType, PoolsAssumption
  <2> QED
    BY <2>2, <2>4
<1>4. Cardinality({msg}) <= Cardinality(Nodes) - 1
  BY <1>2, <1>3
<1>5. \A m \in {msg} : m.from = msg.from /\ m.kind = msg.kind /\ MsgTyped(m)
  OBVIOUS
<1> QED
  BY <1>1, <1>2, <1>4, <1>5, NetSends

\* The other replicas of a node are fewer than the nodes.
LEMMA OtherReplicasFacts ==
  ASSUME NEW n \in Nodes, ring[n] \in 1..Len(Rings)
  PROVE  /\ OtherReplicas(n) \subseteq Nodes \ {n}
         /\ IsFiniteSet(OtherReplicas(n))
         /\ Cardinality(OtherReplicas(n)) <= Cardinality(Nodes) - 1
<1>1. Rings[ring[n]] \in SUBSET Nodes
  BY RingsAssumption
<1>2. OtherReplicas(n) \in SUBSET (Nodes \ {n})
  BY <1>1 DEF OtherReplicas
<1>3. IsFiniteSet(Nodes \ {n}) /\ Cardinality(Nodes \ {n}) = Cardinality(Nodes) - 1
  BY FS_RemoveElement, PoolsAssumption
<1>4. /\ IsFiniteSet(OtherReplicas(n))
      /\ Cardinality(OtherReplicas(n)) <= Cardinality(Nodes \ {n})
  BY <1>2, <1>3, FS_Subset
<1> QED
  BY <1>2, <1>3, <1>4

\* The same message to each of them.
LEMMA Receivers ==
  ASSUME NEW S, IsFiniteSet(S), NEW f, NEW T, DOMAIN f = S, T = {f[m] : m \in S}
  PROVE  IsFiniteSet(T) /\ Cardinality(T) <= Cardinality(S)
<1> DEFINE g == [m \in S |-> f[m]]
<1>1. g \in [S -> T] /\ \A t \in T : \E m \in S : g[m] = t
  OBVIOUS
<1>2. g \in Surjection(S, T)
  BY <1>1 DEF Surjection
<1> QED
  BY <1>2, FS_Surjection

LEMMA InitTypes == Init => TypeInv
<1> SUFFICES ASSUME Init PROVE TypeInv
  OBVIOUS
<1>1. VariablesTyped
  <2>1. now \in 0..MaxNow /\ faults \in 0..MaxFaults
    BY TimesAssumption, ClockAssumption DEF Init
  <2>2. ring \in [Nodes -> 0..Len(Rings)]
    BY RingsAssumption DEF Init
  <2> QED
    BY <2>1, <2>2 DEF Init, VariablesTyped
<1>2. NetTyped
  <2>1. net = {} /\ IsFiniteSet(net)
    BY FS_EmptySet DEF Init
  <2>2. ASSUME NEW n \in Nodes, NEW kind \in {"set", "ack", "pull"}
        PROVE  Cardinality(Sent(n, kind)) <= OutMsgs + Cardinality(Nodes) - 2
    <3>1. Sent(n, kind) = {} /\ Cardinality({}) = 0
      BY <2>1, FS_EmptySet DEF Sent
    <3>2. Cardinality(Nodes) \in Nat /\ Cardinality(Nodes) # 0 /\ OutMsgs \in Nat \ {0}
      BY FS_EmptySet, FS_CardinalityType, PoolsAssumption
    <3> QED
      BY <3>1, <3>2
  <2> QED
    BY <2>1, <2>2 DEF NetTyped
<1>3. \A n \in Nodes : JobsTyped(n) /\ Cardinality(push[n]) <= 1
  <2>1. \A n \in Nodes : /\ push[n] = {} /\ outPull[n] = {} /\ inPull[n] = {} /\ bulkSet[n] = {}
                         /\ Cardinality({}) = 0
    BY FS_EmptySet DEF Init
  <2>2. \A n \in Nodes : JobsTyped(n)
    BY <2>1 DEF JobsTyped
  <2>3. \A n \in Nodes : Cardinality(push[n]) = 0
    BY <2>1
  <2> QED
    BY <2>2, <2>3
<1> QED
  BY <1>1, <1>2, <1>3 DEF TypeInv

\* A write keeps the store's type.
LEMMA WriteTyped ==
  ASSUME store \in [Nodes -> [Keys -> Nat]],
         NEW n \in Nodes, NEW k \in Keys, NEW ts \in Nat, Write(n, k, ts)
  PROVE  store' \in [Nodes -> [Keys -> Nat]]
BY WriteFacts

LEMMA FaultTyped ==
  ASSUME faults \in 0..MaxFaults, NEW b, Fault(b)
  PROVE  faults' \in 0..MaxFaults
BY TimesAssumption DEF Fault

\* The clock, the rings, the clients and the loss of messages.
LEMMA TypesEnvironment ==
  ASSUME TypeInv,
         \/ Tick
         \/ \E m \in net : Lose(m)
         \/ \E n \in Nodes : NewRing(n)
         \/ \E n \in Nodes : \E w \in ClientWrites : ClientWrite(n, w)
  PROVE  TypeInv'
<1>1. /\ VariablesTyped /\ NetTyped /\ net' \subseteq net
      /\ UNCHANGED <<push, outPull, inPull, bulkSet, bulkSetAck, expiring>>
  BY DEF TypeInv, Tick, Lose, NewRing, ClientWrite
<1>2. NetTyped'
  BY <1>1, NetShrinks
<1>3. now' \in 0..MaxNow
  <2>1. now \in 0..MaxNow /\ MaxNow \in Nat
    BY <1>1, TimesAssumption DEF VariablesTyped
  <2>2. now' = now \/ (now < MaxNow /\ now' = now + 1)
    BY DEF Tick, Lose, NewRing, ClientWrite
  <2> QED
    BY <2>1, <2>2
<1>4. faults' \in 0..MaxFaults
  BY <1>1, FaultTyped DEF VariablesTyped, Tick, Lose, NewRing, ClientWrite
<1>5. ring' \in [Nodes -> 0..Len(Rings)]
  <2>1. ring \in [Nodes -> 0..Len(Rings)] /\ Len(Rings) \in Nat
    BY <1>1, RingsAssumption DEF VariablesTyped
  <2>2. CASE \E n \in Nodes : NewRing(n)
    BY <2>1, <2>2 DEF NewRing
  <2> QED
    BY <2>1, <2>2 DEF Tick, Lose, ClientWrite
<1>6. store' \in [Nodes -> [Keys -> Nat]] /\ newest' \in [Keys -> Nat]
  <2>1. store \in [Nodes -> [Keys -> Nat]] /\ newest \in [Keys -> Nat]
    BY <1>1 DEF VariablesTyped
  <2>2. ASSUME NEW n \in Nodes, NEW w \in ClientWrites, ClientWrite(n, w)
        PROVE  store' \in [Nodes -> [Keys -> Nat]] /\ newest' \in [Keys -> Nat]
    <3>1. w.key \in Keys /\ w.ts \in Nat
      BY WritesAssumption DEF Clean
    <3>2. Write(n, w.key, w.ts) /\ newest' = [newest EXCEPT ![w.key] = IF @ < w.ts THEN w.ts ELSE @]
      BY <2>2 DEF ClientWrite
    <3>3. newest' \in [Keys -> Nat]
      BY <2>1, <3>1, <3>2
    <3> QED
      BY <2>1, <3>1, <3>2, <3>3, WriteTyped
  <2> QED
    BY <2>1, <2>2 DEF Tick, Lose, NewRing
<1>7. VariablesTyped'
  BY <1>1, <1>3, <1>4, <1>5, <1>6 DEF VariablesTyped
<1>8. \A n \in Nodes : JobsTyped(n)' /\ Cardinality(push[n])' <= 1
  BY <1>1 DEF TypeInv, JobsTyped
<1> QED
  BY <1>2, <1>7, <1>8 DEF TypeInv

\* A job that is put in hand alone, or done, keeps the others' as they are.
LEMMA TypesPush ==
  ASSUME TypeInv, NEW n \in Nodes, PushReplication(n)
  PROVE  TypeInv'
<1>1. /\ VariablesTyped /\ NetTyped
      /\ UNCHANGED <<now, ring, store, newest, outPull, inPull, bulkSet, bulkSetAck, expiring, faults>>
  BY DEF TypeInv, PushReplication, PushScan, PushSend
<1>2. /\ push \in [Nodes -> SUBSET Job] /\ ring[n] \in 0..Len(Rings) /\ now \in Nat
      /\ store[n] \in [Keys -> Nat]
  BY <1>1, TimesAssumption DEF VariablesTyped
<1>3. CASE PushScan(n)
  <2> DEFINE keys == First({k \in Scan(n, 0, MaxKey, Cutoff) :
                              Replicable(store[n][k], TombstoneCutoff)}, MsgCap)
             job == [ver |-> ring[n], keys |-> keys, cutoff |-> Cutoff,
                     tombstoneCutoff |-> TombstoneCutoff]
  <2>1. push' = [push EXCEPT ![n] = {job}] /\ ring[n] # 0 /\ net' = net
    BY <1>3 DEF PushScan
  <2>2. keys \subseteq Keys
    BY DEF First, Scan
  <2>3. Cutoff \in Int /\ TombstoneCutoff \in Int
    BY <1>2, TimesAssumption DEF Cutoff, TombstoneCutoff, TSB_UTIL
  <2>4. job \in Job /\ job.ver \in 1..Len(Rings)
    <3> HIDE DEF keys
    <3> QED
      BY <1>2, <2>1, <2>2, <2>3, RingsAssumption DEF Job
  <2> HIDE DEF job
  <2>5. push' \in [Nodes -> SUBSET Job]
    BY <1>2, <2>1, <2>4
  <2>6. VariablesTyped' /\ NetTyped'
    BY <1>1, <2>1, <2>5, NetShrinks DEF VariablesTyped
  <2>7. ASSUME NEW p \in Nodes PROVE JobsTyped(p)' /\ Cardinality(push'[p]) <= 1
    <3>1. JobsTyped(p) /\ Cardinality(push[p]) <= 1
      BY DEF TypeInv
    <3>2. CASE p = n
      <4>1. push'[p] = {job} /\ Cardinality({job}) = 1
        BY <1>2, <2>1, <3>2, FS_Singleton
      <4>2. Cardinality(push'[p]) <= 1
        BY <4>1
      <4> QED
        BY <1>1, <2>4, <3>1, <4>1, <4>2 DEF JobsTyped
    <3>3. CASE p # n
      <4>1. push'[p] = push[p]
        BY <1>2, <2>1, <3>3
      <4> QED
        BY <1>1, <3>1, <4>1 DEF JobsTyped
    <3> QED
      BY <3>2, <3>3
  <2> QED
    BY <2>6, <2>7 DEF TypeInv
<1>4. CASE PushSend(n)
  <2>1. push' = [push EXCEPT ![n] = {}]
    BY <1>4 DEF PushSend
  <2>2. VariablesTyped'
    BY <1>1, <2>1 DEF VariablesTyped
  <2>3. ASSUME NEW p \in Nodes PROVE JobsTyped(p)' /\ Cardinality(push'[p]) <= 1
    <3>1. JobsTyped(p) /\ Cardinality(push[p]) <= 1 /\ (push'[p] = {} \/ push'[p] = push[p])
      BY <1>2, <2>1 DEF TypeInv
    <3>2. Cardinality({}) = 0
      BY FS_EmptySet
    <3>3. Cardinality(push'[p]) <= 1
      BY <3>1, <3>2
    <3> QED
      BY <1>1, <3>1, <3>3 DEF JobsTyped
  <2>4. NetTyped'
    <3>1. PICK j \in push[n] : IF ring[n] # j.ver
                 THEN net' = net
                 ELSE /\ HasFreeMsg(n, "set")
                      /\ Send({[kind |-> "set", from |-> n, to |-> d, ack |-> TRUE,
                                entries |-> UNION {PushEntry(n, k, j) : k \in j.keys}] :
                                 d \in OtherReplicas(n)})
      BY <1>4 DEF PushSend
    <3> DEFINE entries == UNION {PushEntry(n, k, j) : k \in j.keys}
               f == [d \in OtherReplicas(n) |->
                       [kind |-> "set", from |-> n, to |-> d, ack |-> TRUE, entries |-> entries]]
               msgs == {f[d] : d \in OtherReplicas(n)}
    <3>2. entries \subseteq Entry
      <4>1. j.keys \subseteq Keys
        BY <1>2 DEF Job
      <4>2. \A k \in j.keys : PushEntry(n, k, j) \subseteq Entry
        BY <1>2, <4>1 DEF PushEntry, Entry
      <4> QED
        BY <4>2
    <3>3. CASE ring[n] # j.ver
      BY <1>1, <3>1, <3>3, NetShrinks
    <3>4. CASE ring[n] = j.ver
      <4>1. HasFreeMsg(n, "set") /\ Send(msgs)
        BY <3>1, <3>4
      <4>2. ring[n] \in 1..Len(Rings)
        BY <3>4 DEF TypeInv, JobsTyped
      <4>3. /\ OtherReplicas(n) \subseteq Nodes \ {n} /\ IsFiniteSet(OtherReplicas(n))
            /\ Cardinality(OtherReplicas(n)) <= Cardinality(Nodes) - 1
        BY <4>2, OtherReplicasFacts
      <4> HIDE DEF entries
      <4>4. ASSUME NEW m \in msgs PROVE m.from = n /\ m.kind = "set" /\ MsgTyped(m)
        <5>1. PICK d \in OtherReplicas(n) :
                m = [kind |-> "set", from |-> n, to |-> d, ack |-> TRUE, entries |-> entries]
          OBVIOUS
        <5>2. m.ack = TRUE /\ m.kind = "set" /\ m.from = n /\ m.to = d /\ m.entries = entries
          BY <5>1
        <5>3. m.ack \in BOOLEAN
          BY <5>2
        <5> QED
          BY <3>2, <4>3, <5>2, <5>3 DEF MsgTyped
      <4>5. DOMAIN f = OtherReplicas(n)
        OBVIOUS
      <4> HIDE DEF f
      <4>6. IsFiniteSet(msgs) /\ Cardinality(msgs) <= Cardinality(OtherReplicas(n))
        BY <4>3, <4>5, Receivers
      <4> HIDE DEF msgs
      <4>7. Cardinality(msgs) <= Cardinality(Nodes) - 1
        <5>1. /\ Cardinality(msgs) \in Nat /\ Cardinality(OtherReplicas(n)) \in Nat
              /\ Cardinality(Nodes) \in Nat
          BY <4>3, <4>6, FS_CardinalityType, PoolsAssumption
        <5> QED
          BY <4>3, <4>6, <5>1
      <4> QED
        BY <1>1, <4>1, <4>4, <4>6, <4>7, NetSends
    <3> QED
      BY <3>3, <3>4
  <2> QED
    BY <2>2, <2>3, <2>4 DEF TypeInv
<1> QED
  BY <1>3, <1>4 DEF PushReplication

LEMMA TypesOutPull ==
  ASSUME TypeInv, NEW n \in Nodes, OutPull(n)
  PROVE  TypeInv'
<1>1. /\ VariablesTyped /\ NetTyped
      /\ UNCHANGED <<now, ring, store, newest, push, inPull, bulkSet, bulkSetAck, expiring>>
  BY DEF TypeInv, OutPull, OutPullBegin, OutPullRange
<1>2. DOMAIN outPull = Nodes /\ ring[n] \in 0..Len(Rings) /\ faults \in 0..MaxFaults
  BY <1>1 DEF VariablesTyped
<1>3. ASSUME DOMAIN outPull' = Nodes, faults' \in 0..MaxFaults, NetTyped',
             \A p \in Nodes : \A j \in outPull'[p] : j.ver \in 1..Len(Rings)
      PROVE  TypeInv'
  <2>1. VariablesTyped'
    BY <1>1, <1>3 DEF VariablesTyped
  <2>2. \A p \in Nodes : JobsTyped(p)' /\ Cardinality(push'[p]) <= 1
    BY <1>1, <1>3 DEF TypeInv, JobsTyped
  <2> QED
    BY <1>3, <2>1, <2>2 DEF TypeInv
<1>4. \A p \in Nodes : \A j \in outPull[p] : j.ver \in 1..Len(Rings)
  BY DEF TypeInv, JobsTyped
<1>5. CASE OutPullBegin(n)
  <2>0. PICK job : job = [ver |-> ring[n], lo |-> 0, cutoff |-> Cutoff]
    OBVIOUS
  <2>1. /\ outPull' = [outPull EXCEPT ![n] = {job}] /\ Responsible(n, ring[n])
        /\ net' = net /\ faults' = faults
    BY <1>5, <2>0 DEF OutPullBegin
  <2>2. job.ver \in 1..Len(Rings)
    BY <1>2, <2>0, <2>1, RingsAssumption DEF Responsible
  <2>3. \A p \in Nodes : \A j \in outPull'[p] : j.ver \in 1..Len(Rings)
    BY <1>2, <1>4, <2>1, <2>2
  <2>4. NetTyped'
    BY <1>1, <2>1, NetShrinks
  <2> QED
    BY <1>2, <1>3, <2>1, <2>3, <2>4
<1>6. CASE OutPullRange(n)
  <2>0. PICK j \in outPull[n], false \in {{}} \cup {{p} : p \in Pairs} :
           LET scan   == Scan(n, j.lo, MaxKey, j.cutoff)
               batch  == First(scan, BloomN)
               more   == batch # scan
               next   == CHOOSE k \in scan \ batch : \A i \in scan \ batch : k <= i
               filter == {<<k, store[n][k]>> : k \in batch} \cup false
               hi     == IF more THEN next - 1 ELSE MaxKey
           IN  /\ Fault(false # {})
               /\ IF ring[n] # j.ver
                  THEN net' = net
                  ELSE /\ HasFreeMsg(n, "pull")
                       /\ Send({[kind |-> "pull", from |-> n, to |-> m, lo |-> j.lo, hi |-> hi,
                                 cutoff |-> j.cutoff, filter |-> filter] : m \in OtherReplicas(n)})
               /\ outPull' = [outPull EXCEPT ![n] =
                                IF ring[n] = j.ver /\ more THEN {[j EXCEPT !.lo = next]} ELSE {}]
    BY <1>6 DEF OutPullRange
  <2> DEFINE scan   == Scan(n, j.lo, MaxKey, j.cutoff)
             batch  == First(scan, BloomN)
             lo     == CHOOSE k \in scan \ batch : \A i \in scan \ batch : k <= i
             filter == {<<k, store[n][k]>> : k \in batch} \cup false
             hi     == IF batch # scan THEN lo - 1 ELSE MaxKey
             f      == [d \in OtherReplicas(n) |->
                          [kind |-> "pull", from |-> n, to |-> d, lo |-> j.lo, hi |-> hi,
                           cutoff |-> j.cutoff, filter |-> filter]]
             msgs   == {f[d] : d \in OtherReplicas(n)}
  <2>1. /\ \/ net' = net
           \/ ring[n] = j.ver /\ HasFreeMsg(n, "pull") /\ Send(msgs)
        /\ \/ outPull' = [outPull EXCEPT ![n] = {[j EXCEPT !.lo = lo]}]
           \/ outPull' = [outPull EXCEPT ![n] = {}]
        /\ Fault(false # {})
    BY <2>0
  <2> HIDE DEF filter, hi, lo
  <2>2. \A p \in Nodes : \A i \in outPull'[p] : i.ver \in 1..Len(Rings)
    <3>1. ASSUME NEW i, i = [j EXCEPT !.lo = lo] PROVE i.ver = j.ver
      BY <3>1
    <3>2. \A p \in Nodes : \A i \in outPull'[p] : i \in outPull[p] \/ i = [j EXCEPT !.lo = lo]
      BY <1>2, <2>1
    <3> QED
      BY <1>4, <3>1, <3>2
  <2>3. DOMAIN outPull' = Nodes /\ faults' \in 0..MaxFaults
    BY <1>2, <2>1, FaultTyped
  <2>4. NetTyped'
    <3>1. CASE net' = net
      BY <1>1, <3>1, NetShrinks
    <3>2. CASE ring[n] = j.ver /\ HasFreeMsg(n, "pull") /\ Send(msgs)
      <4>1. ring[n] \in 1..Len(Rings)
        BY <1>4, <3>2
      <4>2. /\ OtherReplicas(n) \subseteq Nodes \ {n} /\ IsFiniteSet(OtherReplicas(n))
            /\ Cardinality(OtherReplicas(n)) <= Cardinality(Nodes) - 1
        BY <4>1, OtherReplicasFacts
      <4>3. \A m \in msgs : m.from = n /\ m.kind = "pull" /\ MsgTyped(m)
        BY <4>2 DEF MsgTyped
      <4>4. DOMAIN f = OtherReplicas(n)
        OBVIOUS
      <4> HIDE DEF f
      <4>5. IsFiniteSet(msgs) /\ Cardinality(msgs) <= Cardinality(OtherReplicas(n))
        BY <4>2, <4>4, Receivers
      <4> HIDE DEF msgs
      <4>6. Cardinality(msgs) <= Cardinality(Nodes) - 1
        <5>1. /\ Cardinality(msgs) \in Nat /\ Cardinality(OtherReplicas(n)) \in Nat
              /\ Cardinality(Nodes) \in Nat
          BY <4>2, <4>5, FS_CardinalityType, PoolsAssumption
        <5> QED
          BY <4>2, <4>5, <5>1
      <4> QED
        BY <1>1, <3>2, <4>3, <4>5, <4>6, NetSends
    <3> QED
      BY <2>1, <3>1, <3>2
  <2> QED
    BY <1>3, <2>2, <2>3, <2>4
<1> QED
  BY <1>5, <1>6 DEF OutPull

LEMMA TypesInPull ==
  ASSUME TypeInv, NEW n \in Nodes, InPull(n)
  PROVE  TypeInv'
<1> DEFINE Answer == [from : Nodes, keys : SUBSET Keys]
<1>1. /\ VariablesTyped /\ NetTyped
      /\ UNCHANGED <<now, ring, store, newest, push, outPull, bulkSet, bulkSetAck, expiring, faults>>
  BY DEF TypeInv, InPull, InPullReplication, InPullSend
<1>2. inPull \in [Nodes -> SUBSET Answer] /\ store[n] \in [Keys -> Nat]
  BY <1>1 DEF VariablesTyped
<1>3. ASSUME inPull' \in [Nodes -> SUBSET Answer], NetTyped',
             \A p \in Nodes : \A j \in inPull'[p] : j \in inPull[p] \/ j.from # p
      PROVE  TypeInv'
  <2>1. VariablesTyped'
    BY <1>1, <1>3 DEF VariablesTyped
  <2>2. \A p \in Nodes : JobsTyped(p)' /\ Cardinality(push'[p]) <= 1
    BY <1>1, <1>3 DEF TypeInv, JobsTyped
  <2> QED
    BY <1>3, <2>1, <2>2 DEF TypeInv
<1>4. ASSUME NEW m \in net, InPullReplication(n, m) PROVE TypeInv'
  <2> DEFINE missing == {k \in Scan(n, m.lo, m.hi, m.cutoff) :
                           /\ Replicable(store[n][k], TombstoneCutoff)
                           /\ <<k, store[n][k]>> \notin m.filter}
  <2>1. missing \subseteq Keys
    BY DEF Scan
  <2>2. PICK keys \in SUBSET missing :
           inPull' = [inPull EXCEPT ![n] = IF ring[n] = 0 \/ keys = {} THEN {}
                                           ELSE {[from |-> m.from, keys |-> keys]}]
    BY <1>4 DEF InPullReplication
  <2> HIDE DEF missing
  <2>3. m.to = n /\ m.from \in Nodes /\ m.from # n
    BY <1>1, <1>4 DEF InPullReplication, NetTyped, MsgTyped
  <2>4. inPull' \in [Nodes -> SUBSET Answer]
    BY <1>2, <2>1, <2>2, <2>3
  <2>5. \A p \in Nodes : \A j \in inPull'[p] : j \in inPull[p] \/ j.from # p
    BY <1>2, <2>2, <2>3
  <2>6. NetTyped'
    BY <1>1, <1>4, NetShrinks DEF InPullReplication
  <2> QED
    BY <1>3, <2>4, <2>5, <2>6
<1>5. CASE InPullSend(n)
  <2>1. inPull' = [inPull EXCEPT ![n] = {}] /\ HasFreeMsg(n, "set")
    BY <1>5 DEF InPullSend
  <2>2. PICK j \in inPull[n] :
       Send({[kind |-> "set", from |-> n, to |-> j.from, ack |-> FALSE,
              entries |-> {[key |-> k, ts |-> store[n][k]] :
                             k \in {k \in j.keys : store[n][k] # 0
                                                   /\ ~IsRemoval(store[n][k])}}]})
    BY <1>5 DEF InPullSend
  <2> DEFINE entries == {[key |-> k, ts |-> store[n][k]] :
                           k \in {k \in j.keys : store[n][k] # 0 /\ ~IsRemoval(store[n][k])}}
             msg == [kind |-> "set", from |-> n, to |-> j.from, ack |-> FALSE, entries |-> entries]
  <2>3. j.from \in Nodes /\ j.from # n /\ j.keys \subseteq Keys
    BY <1>2 DEF TypeInv, JobsTyped
  <2>4. entries \subseteq Entry
    BY <1>2, <2>3 DEF Entry
  <2>5. Send({msg})
    BY <2>2
  <2> HIDE DEF entries
  <2>6. MsgTyped(msg) /\ msg.from = n /\ msg.kind = "set"
    BY <2>3, <2>4 DEF MsgTyped
  <2> HIDE DEF msg
  <2>7. NetTyped'
    BY <1>1, <2>1, <2>5, <2>6, NetSendsOne
  <2>8. /\ inPull' \in [Nodes -> SUBSET Answer]
        /\ \A p \in Nodes : \A i \in inPull'[p] : i \in inPull[p]
    BY <1>2, <2>1
  <2> QED
    BY <1>3, <2>7, <2>8
<1> QED
  BY <1>4, <1>5 DEF InPull

LEMMA TypesInBulkSets ==
  ASSUME TypeInv, NEW n \in Nodes, InBulkSets(n)
  PROVE  TypeInv'
<1>1. /\ VariablesTyped /\ NetTyped
      /\ UNCHANGED <<now, ring, newest, push, outPull, inPull, bulkSetAck, expiring>>
  BY DEF TypeInv, InBulkSets, InBulkSet, InBulkSetEntry
<1>2. /\ bulkSet \in [Nodes -> SUBSET BulkSetTypes] /\ ring[n] \in 0..Len(Rings)
      /\ store \in [Nodes -> [Keys -> Nat]] /\ faults \in 0..MaxFaults
  BY <1>1 DEF VariablesTyped
<1>3. ASSUME bulkSet' \in [Nodes -> SUBSET BulkSetTypes], NetTyped',
             store' \in [Nodes -> [Keys -> Nat]], faults' \in 0..MaxFaults,
             \A p \in Nodes : \A j \in bulkSet'[p] : j \in bulkSet[p] \/ j.from # p
      PROVE  TypeInv'
  <2>1. VariablesTyped'
    BY <1>1, <1>3 DEF VariablesTyped
  <2>2. \A p \in Nodes : JobsTyped(p)' /\ Cardinality(push'[p]) <= 1
    BY <1>1, <1>3 DEF TypeInv, JobsTyped
  <2> QED
    BY <1>3, <2>1, <2>2 DEF TypeInv
<1>4. ASSUME NEW m \in net, InBulkSet(n, m) PROVE TypeInv'
  <2>1. PICK last \in PassedOver(m.entries) :
           /\ bulkSet' = [bulkSet EXCEPT ![n] =
                        {[ver |-> ring[n], from |-> m.from, left |-> left,
                          ack |-> m.ack /\ ring[n] # 0, acks |-> {}] :
                            left \in {m.entries \ last} \ {{}}}]
           /\ net' = net \ {m}
    BY <1>4 DEF InBulkSet
  <2>2. /\ m.kind = "set" /\ m.to = n /\ m.from \in Nodes /\ m.from # n
        /\ m.entries \subseteq Entry
    BY <1>1, <1>4 DEF InBulkSet, NetTyped, MsgTyped
  <2>3. PICK ack \in BOOLEAN : ack = (m.ack /\ ring[n] # 0)
    OBVIOUS
  <2>4. ASSUME NEW left \in {m.entries \ last} \ {{}}
        PROVE  [ver |-> ring[n], from |-> m.from, left |-> left, ack |-> ack, acks |-> {}]
                  \in {j \in BulkSetTypes : j.from # n}
    BY <1>2, <2>2 DEF BulkSetTypes
  <2>5. PICK jobs \in SUBSET {j \in BulkSetTypes : j.from # n} :
          bulkSet' = [bulkSet EXCEPT ![n] = jobs]
    BY <2>1, <2>3, <2>4
  <2>6. /\ bulkSet' \in [Nodes -> SUBSET BulkSetTypes]
        /\ \A p \in Nodes : \A j \in bulkSet'[p] : j \in bulkSet[p] \/ j.from # p
    BY <1>2, <2>5
  <2>7. NetTyped'
    BY <1>1, <2>1, NetShrinks
  <2>8. store' = store /\ faults' = faults
    BY <1>4 DEF InBulkSet
  <2> QED
    BY <1>2, <1>3, <2>6, <2>7, <2>8
<1>5. CASE InBulkSetEntry(n)
  <2>0. PICK j \in bulkSet[n] : \E e \in j.left : \E err \in BOOLEAN :
          LET acks == j.acks \cup (IF Acknowledged(n, j, e, err) THEN {e} ELSE {})
              left == j.left \ {e}
          IN  /\ j.ack => HasFreeMsg(n, "ack")
              /\ Fault(err)
              /\ IF err THEN UNCHANGED store ELSE Write(n, e.key, e.ts)
              /\ IF left = {}
                 THEN /\ bulkSet' = [bulkSet EXCEPT ![n] = {}]
                      /\ IF j.ack
                         THEN Send({[kind |-> "ack", from |-> n, to |-> j.from,
                                     ack |-> FALSE, entries |-> acks]})
                         ELSE UNCHANGED net
                 ELSE /\ bulkSet' = [bulkSet EXCEPT ![n] =
                                       {[j EXCEPT !.left = left, !.acks = acks]}]
                      /\ UNCHANGED net
    BY <1>5 DEF InBulkSetEntry
  <2>1. PICK e \in j.left, err \in BOOLEAN :
          LET acks == j.acks \cup (IF Acknowledged(n, j, e, err) THEN {e} ELSE {})
              left == j.left \ {e}
          IN  /\ j.ack => HasFreeMsg(n, "ack")
              /\ Fault(err)
              /\ IF err THEN UNCHANGED store ELSE Write(n, e.key, e.ts)
              /\ IF left = {}
                 THEN /\ bulkSet' = [bulkSet EXCEPT ![n] = {}]
                      /\ IF j.ack
                         THEN Send({[kind |-> "ack", from |-> n, to |-> j.from,
                                     ack |-> FALSE, entries |-> acks]})
                         ELSE UNCHANGED net
                 ELSE /\ bulkSet' = [bulkSet EXCEPT ![n] =
                                       {[j EXCEPT !.left = left, !.acks = acks]}]
                      /\ UNCHANGED net
    BY <2>0
  <2> DEFINE acks == j.acks \cup (IF Acknowledged(n, j, e, err) THEN {e} ELSE {})
             left == j.left \ {e}
             job  == [j EXCEPT !.left = left, !.acks = acks]
             msg  == [kind |-> "ack", from |-> n, to |-> j.from, ack |-> FALSE, entries |-> acks]
  <2>2. j \in BulkSetTypes /\ j.from # n
    BY <1>2 DEF TypeInv, JobsTyped
  <2>3. /\ j.left \subseteq Entry /\ j.acks \subseteq Entry /\ j.from \in Nodes
        /\ e.key \in Keys /\ e.ts \in Nat /\ e \in Entry
    BY <2>2 DEF BulkSetTypes, Entry
  <2>4. acks \subseteq Entry /\ left \subseteq Entry
    BY <2>3
  <2>5. store' \in [Nodes -> [Keys -> Nat]]
    BY <1>2, <2>1, <2>3, WriteTyped
  <2>6. faults' \in 0..MaxFaults
    BY <1>2, <2>1, FaultTyped
  <2>7. /\ bulkSet' = [bulkSet EXCEPT ![n] = {}] \/ bulkSet' = [bulkSet EXCEPT ![n] = {job}]
        /\ net' = net \/ (HasFreeMsg(n, "ack") /\ Send({msg}))
    BY <2>1
  <2> HIDE DEF acks, left
  <2>8. job \in BulkSetTypes /\ job.from # n
    BY <2>2, <2>4 DEF BulkSetTypes
  <2> HIDE DEF job
  <2>9. /\ bulkSet' \in [Nodes -> SUBSET BulkSetTypes]
        /\ \A p \in Nodes : \A i \in bulkSet'[p] : i \in bulkSet[p] \/ i.from # p
    BY <1>2, <2>7, <2>8
  <2>10. MsgTyped(msg) /\ msg.from = n /\ msg.kind = "ack"
    BY <2>2, <2>3, <2>4 DEF MsgTyped
  <2> HIDE DEF msg
  <2>11. NetTyped'
    BY <1>1, <2>7, <2>10, NetShrinks, NetSendsOne
  <2> QED
    BY <1>3, <2>5, <2>6, <2>9, <2>11
<1> QED
  BY <1>4, <1>5 DEF InBulkSets

LEMMA TypesInBulkSetAcks ==
  ASSUME TypeInv, NEW n \in Nodes, InBulkSetAcks(n)
  PROVE  TypeInv'
<1> DEFINE AckJob == [ver : 0..Len(Rings), left : SUBSET Entry]
<1>1. /\ VariablesTyped /\ NetTyped
      /\ UNCHANGED <<now, ring, newest, push, outPull, inPull, bulkSet, expiring, faults>>
  BY DEF TypeInv, InBulkSetAcks, InBulkSetAck, InBulkSetAckEntry
<1>2. /\ bulkSetAck \in [Nodes -> SUBSET AckJob] /\ ring[n] \in 0..Len(Rings)
      /\ store \in [Nodes -> [Keys -> Nat]]
  BY <1>1 DEF VariablesTyped
<1>3. ASSUME NEW jobs \in SUBSET AckJob, bulkSetAck' = [bulkSetAck EXCEPT ![n] = jobs],
             store' \in [Nodes -> [Keys -> Nat]], net' \subseteq net
      PROVE  TypeInv'
  <2>1. bulkSetAck' \in [Nodes -> SUBSET AckJob]
    BY <1>2, <1>3
  <2>2. VariablesTyped'
    BY <1>1, <1>3, <2>1 DEF VariablesTyped
  <2>3. \A p \in Nodes : JobsTyped(p)' /\ Cardinality(push'[p]) <= 1
    BY <1>1 DEF TypeInv, JobsTyped
  <2> QED
    BY <1>1, <1>3, <2>2, <2>3, NetShrinks DEF TypeInv
<1>4. ASSUME NEW m \in net, InBulkSetAck(n, m) PROVE TypeInv'
  <2>1. /\ bulkSetAck' = [bulkSetAck EXCEPT ![n] = {[ver |-> ring[n], left |-> m.entries]}]
        /\ net' \subseteq net /\ store' = store
    BY <1>4 DEF InBulkSetAck
  <2>2. m.entries \subseteq Entry
    BY <1>1, <1>4 DEF InBulkSetAck, NetTyped, MsgTyped
  <2>3. {[ver |-> ring[n], left |-> m.entries]} \in SUBSET AckJob
    BY <1>2, <2>2
  <2> QED
    BY <1>2, <1>3, <2>1, <2>3
<1>5. CASE InBulkSetAckEntry(n)
  <2>0. PICK j \in bulkSetAck[n] : \E e \in j.left :
    /\ IF j.ver # 0 /\ ~Responsible(n, j.ver)
       THEN Write(n, e.key, e.ts + TSB_LOCAL_REMOVAL)
       ELSE UNCHANGED store
    /\ bulkSetAck' = [bulkSetAck EXCEPT ![n] =
                        {[i EXCEPT !.left = @ \ {e}] : i \in {i \in {j} : j.left # {e}}}]
    /\ net' = net
    BY <1>5 DEF InBulkSetAckEntry
  <2>1. PICK e \in j.left :
    /\ IF j.ver # 0 /\ ~Responsible(n, j.ver)
       THEN Write(n, e.key, e.ts + TSB_LOCAL_REMOVAL)
       ELSE UNCHANGED store
    /\ bulkSetAck' = [bulkSetAck EXCEPT ![n] =
                        {[i EXCEPT !.left = @ \ {e}] : i \in {i \in {j} : j.left # {e}}}]
    /\ net' = net
    BY <2>0
  <2>2. j \in AckJob
    BY <1>2
  <2>3. e.key \in Keys /\ e.ts + TSB_LOCAL_REMOVAL \in Nat
    BY <2>2 DEF Entry, TSB_LOCAL_REMOVAL
  <2>4. store' \in [Nodes -> [Keys -> Nat]]
    BY <1>2, <2>1, <2>3, WriteTyped
  <2>5. {[i EXCEPT !.left = @ \ {e}] : i \in {i \in {j} : j.left # {e}}} \in SUBSET AckJob
    BY <2>2
  <2> QED
    BY <1>3, <2>1, <2>4, <2>5
<1> QED
  BY <1>4, <1>5 DEF InBulkSetAcks

LEMMA TypesDiscard ==
  ASSUME TypeInv, NEW n \in Nodes, TombstoneDiscard(n)
  PROVE  TypeInv'
<1>1. /\ VariablesTyped /\ NetTyped
      /\ UNCHANGED <<now, ring, newest, net, push, outPull, inPull, bulkSet, bulkSetAck, faults>>
  BY DEF TypeInv, TombstoneDiscard, DiscardRemoval, ExpireScan, ExpireWrite
<1>2. expiring \in [Nodes -> SUBSET Entry] /\ store \in [Nodes -> [Keys -> Nat]]
  BY <1>1 DEF VariablesTyped
<1>3. expiring' \in [Nodes -> SUBSET Entry]
  <2>1. CASE ExpireScan(n)
    <3> DEFINE batch == {[key |-> k, ts |-> store[n][k]] : k \in First(Expired(n), BatchSize)}
    <3>1. expiring' = [expiring EXCEPT ![n] = batch]
      BY <2>1 DEF ExpireScan
    <3>2. First(Expired(n), BatchSize) \subseteq Keys
      BY DEF First, Expired, Scan
    <3>3. batch \subseteq Entry
      BY <1>2, <3>2 DEF Entry
    <3> QED
      BY <1>2, <3>1, <3>3
  <2>2. CASE ExpireWrite(n)
    BY <1>2, <2>2 DEF ExpireWrite
  <2>3. CASE \E k \in Keys : DiscardRemoval(n, k)
    BY <1>2, <2>3 DEF DiscardRemoval
  <2> QED
    BY <2>1, <2>2, <2>3 DEF TombstoneDiscard
<1>4. store' \in [Nodes -> [Keys -> Nat]]
  <2>1. CASE ExpireScan(n)
    BY <1>2, <2>1 DEF ExpireScan
  <2>2. CASE ExpireWrite(n)
    <3>1. PICK e \in expiring[n] : Write(n, e.key, e.ts + TSB_LOCAL_REMOVAL)
      BY <2>2 DEF ExpireWrite
    <3>2. e.key \in Keys /\ e.ts + TSB_LOCAL_REMOVAL \in Nat
      BY <1>2 DEF Entry, TSB_LOCAL_REMOVAL
    <3> QED
      BY <1>2, <3>1, <3>2, WriteTyped
  <2>3. CASE \E k \in Keys : DiscardRemoval(n, k)
    BY <1>2, <2>3 DEF DiscardRemoval
  <2> QED
    BY <2>1, <2>2, <2>3 DEF TombstoneDiscard
<1>5. VariablesTyped'
  BY <1>1, <1>3, <1>4 DEF VariablesTyped
<1>6. \A p \in Nodes : JobsTyped(p)' /\ Cardinality(push'[p]) <= 1
  BY <1>1 DEF TypeInv, JobsTyped
<1> QED
  BY <1>1, <1>5, <1>6, NetShrinks DEF TypeInv

LEMMA TypesStep == TypeInv /\ [Next]_vars => TypeInv'
<1> SUFFICES ASSUME TypeInv, [Next]_vars PROVE TypeInv'
  OBVIOUS
<1>1. CASE UNCHANGED vars
  <2>1. VariablesTyped' /\ NetTyped'
    BY <1>1, NetShrinks DEF TypeInv, VariablesTyped, vars
  <2>2. \A n \in Nodes : JobsTyped(n)' /\ Cardinality(push'[n]) <= 1
    BY <1>1 DEF TypeInv, JobsTyped, vars
  <2> QED
    BY <2>1, <2>2 DEF TypeInv
<1>2. CASE Next
  BY <1>2, TypesEnvironment, TypesPush, TypesOutPull, TypesInPull, TypesInBulkSets,
     TypesInBulkSetAcks, TypesDiscard
  DEF Next
<1> QED
  BY <1>1, <1>2

\* Every variable keeps its type, for any nodes, rings, keys, client writes and faults, and
\* however messages are lost, late or reordered no node has more of a kind under way than
\* its pool and the receivers of the last one make: a sender waits for a free message
\* before each send to the other replicas, to whoever asked or to whoever pushed.
THEOREM ReplicationTypes == Spec => []TypeOK
<1>1. TypeInv => TypeOK
  <2> SUFFICES ASSUME TypeInv PROVE TypeOK
    OBVIOUS
  <2>1. VariablesTyped /\ NetTyped
    BY DEF TypeInv
  <2>2. /\ \A m \in net : m.to \in Nodes /\ m.from \in Nodes
        /\ \A n \in Nodes, kind \in {"set", "ack", "pull"} :
             Cardinality({m \in net : m.from = n /\ m.kind = kind})
               <= OutMsgs + Cardinality(Nodes) - 2
    BY <2>1 DEF NetTyped, MsgTyped, Sent
  <2>3. ASSUME NEW n \in Nodes
        PROVE  /\ push[n] \subseteq Job /\ Cardinality(push[n]) <= 1
               /\ \A e \in expiring[n] : e \in Entry
               /\ \A j \in bulkSet[n] : j.left \subseteq Entry /\ j.acks \subseteq Entry
               /\ \A j \in bulkSetAck[n] : j.left \subseteq Entry
               /\ \A j \in inPull[n] : j.keys \subseteq Keys
    <3>1. /\ push[n] \in SUBSET Job /\ Cardinality(push[n]) <= 1
          /\ expiring[n] \in SUBSET Entry /\ bulkSet[n] \in SUBSET BulkSetTypes
          /\ bulkSetAck[n] \in SUBSET [ver : 0..Len(Rings), left : SUBSET Entry]
          /\ inPull[n] \in SUBSET [from : Nodes, keys : SUBSET Keys]
      BY <2>1 DEF TypeInv, VariablesTyped
    <3> QED
      BY <3>1 DEF BulkSetTypes
  <2> QED
    BY <2>1, <2>2, <2>3 DEF TypeOK, VariablesTyped
<1> QED
  BY <1>1, InitTypes, TypesStep, PTL DEF Spec
=============================================================================
