-------------------------- MODULE CompactionProofs --------------------------
(***************************************************************************)
(* Theorems about module Compaction, for any keys, workers, batch sizes,   *)
(* writes, files, passes, restarts and errors.  CompactionInv is           *)
(* inductive; each of its parts has a lemma below.                         *)
(***************************************************************************)
EXTENDS Compaction, FiniteSetTheorems, TLAPS

(***************************************************************************)
(* The steps, by what they leave alone                                     *)
(***************************************************************************)
\* The launcher, its pass and its workers.
PassStep == /\ Alive
            /\ \/ CompactionLauncher \/ PassQueue \/ PassInterrupted \/ PassQueued \/ PassWait
               \/ \E w \in Chans : CompactionWorker(w)

\* A goroutine, but for its writes.
EntryStep(c, s) == Alive /\ \/ Receive(c, s) \/ Return(c, s) \/ Sample(c, s)
                            \/ LookUp(c, s) \/ ReadValue(c, s)

\* The reader of the TOC, and the ends of a call that removes nothing.
ReaderStep == Alive /\ ((\E w \in Chans : TaskBegin(w)) \/ ReadBlock \/ ReadEntry \/ ReadEnd)
EndStep    == Alive /\ (SampleEnd \/ CompactEnd)

\* Shutdown, but for its flush.
ShutdownStep == Shutdown \/ ShutdownReturns \/ RewriteAfterShutdown

LEMMA Steps ==
  ASSUME Next
  PROVE  \/ \E w \in Writes : ClientWrite(w)
         \/ PageOut \/ Flush \/ PassStep \/ ReaderStep \/ EndStep
         \/ Alive /\ RemoveTOC
         \/ Alive /\ RemoveValues
         \/ \E c \in Chans, s \in Slots : EntryStep(c, s)
         \/ \E c \in Chans, s \in Slots : Alive /\ Rewrite(c, s)
         \/ ShutdownStep \/ Crash \/ Startup
         \/ RecoverFile
         \/ \E c \in Chans : RecoverEntry(c)
         \/ RecoveryEnd \/ CompactionStartup
BY DEF Next, Compact, CompactionPass, TaskEnd, Goroutines, Work, Recovery, PassStep, EntryStep,
       ReaderStep, EndStep, ShutdownStep

LEMMA PassStepFrame ==
  ASSUME PassStep PROVE UNCHANGED <<store, life, batchVars, counts>> /\ Alive
BY DEF PassStep, CompactionLauncher, PassQueue, PassInterrupted, PassQueued, PassWait,
       CompactionWorker, PassFrame

\* At most one error, if there may be one more.
FaultStep == faults' = faults \/ (faults < MaxFaults /\ faults' = faults + 1)

LEMMA EntryStepFrame ==
  ASSUME NEW c, NEW s, EntryStep(c, s)
  PROVE  /\ UNCHANGED <<lock, task, slot, left, todo, block, filling, worker, reading>>
         /\ TaskFrame /\ Alive /\ FaultStep
<1>1. UNCHANGED <<lock, task, slot, left, todo, block, filling, worker, reading>> /\ TaskFrame /\ Alive
  <2>1. CASE Receive(c, s) \/ Return(c, s)
    BY <2>1 DEF EntryStep, Receive, Return, counts, reading
  <2>2. CASE Sample(c, s) \/ LookUp(c, s)
    BY <2>2 DEF EntryStep, Sample, LookUp, EntryFrame
  <2>3. CASE ReadValue(c, s)
    BY <2>3, Zenon DEF EntryStep, ReadValue, EntryFrame
  <2> QED BY <2>1, <2>2, <2>3 DEF EntryStep
<1>2. CASE Receive(c, s) \/ Return(c, s) \/ Sample(c, s) \/ LookUp(c, s)
  <2>1. faults' = faults
    BY <1>2 DEF Receive, Return, Sample, LookUp
  <2> QED BY <1>1, <2>1 DEF FaultStep
<1>3. CASE ReadValue(c, s)
  <2>1. \E err \in BOOLEAN : Fault(err /\ ~Closed(lm[Head(gor[c][s].batch).key]))
    BY <1>3, Zenon DEF ReadValue
  <2> QED BY <1>1, <2>1 DEF Fault, FaultStep
<1> QED BY <1>2, <1>3 DEF EntryStep

LEMMA ReaderStepFrame ==
  ASSUME ReaderStep PROVE TaskFrame /\ Alive /\ FaultStep
<1>1. TaskFrame /\ Alive
  BY DEF ReaderStep, TaskBegin, ReadBlock, ReadEntry, ReadEnd
<1>2. CASE ReadEntry \/ ReadEnd
  <2>1. faults' = faults
    BY <1>2 DEF ReadEntry, ReadEnd
  <2> QED BY <1>1, <2>1 DEF FaultStep
<1>3. ASSUME NEW w \in Chans, TaskBegin(w) PROVE FaultStep
  <2>1. \E err \in BOOLEAN : Fault(err)
    BY <1>3 DEF TaskBegin
  <2> QED BY <2>1 DEF Fault, FaultStep
<1>4. CASE ReadBlock
  <2>1. faults' = faults \/ Fault(TRUE)
    BY <1>4 DEF ReadBlock
  <2>2. Fault(TRUE) => faults < MaxFaults /\ faults' = faults + 1
    BY DEF Fault
  <2> QED BY <1>1, <2>1, <2>2, Zenon DEF FaultStep
<1> QED BY <1>1, <1>2, <1>3, <1>4 DEF ReaderStep

LEMMA EndStepFrame ==
  ASSUME EndStep
  PROVE  /\ UNCHANGED <<slot, left, todo, block, filling, free, pending, gor, counts, faults>>
         /\ TaskFrame /\ Alive
BY DEF EndStep, SampleEnd, CompactEnd

LEMMA ShutdownStepFrame ==
  ASSUME ShutdownStep
  PROVE  UNCHANGED <<store, replay, queue, starts, faults, launcher, names, jobs, jobsClosed,
                     cancel, worker, passes, batchVars, counts>>
BY DEF ShutdownStep, Shutdown, ShutdownReturns, RewriteAfterShutdown, pass

(***************************************************************************)
(* Timestamps, writes and pages                                            *)
(***************************************************************************)
LEMMA PlainStamp ==
  ASSUME NEW t \in Nat, ~HasBit(t, TSB_COMPACTION_REWRITE)
  PROVE  /\ NoRewrite(t) = t /\ NoRewrite(t + 1) = t
         /\ HasBit(t + 1, TSB_COMPACTION_REWRITE)
<1>1. (t \div 1) % 2 # 1
  BY DEF HasBit, TSB_COMPACTION_REWRITE
<1>2. t \div 1 = t /\ (t + 1) \div 1 = t + 1
  OBVIOUS
<1>3. t % 2 = 0 /\ (t + 1) % 2 = 1
  BY <1>1, <1>2
<1> QED BY <1>2, <1>3 DEF HasBit, NoRewrite, TSB_COMPACTION_REWRITE

\* A value of k with timestamp t is in memory, and its location.
Written(k, t, v) ==
  /\ lm[k].ts <= t
  /\ mem' = Append(mem, [key |-> k, ts |-> t, val |-> v])
  /\ lm' = [lm EXCEPT ![k] = [ts |-> t, id |-> MEM, off |-> Len(mem) + 1]]
  /\ older' = IF Behind(k, t) THEN older \cup {k} ELSE older

\* A write with timestamp t, be it a rewrite, is kept or has lost.
LEMMA WriteEffect ==
  ASSUME StoreTypes, NEW k \in Keys, NEW t \in Nat, NEW ts \in {t, t + 1}, NEW v,
         ~HasBit(t, TSB_COMPACTION_REWRITE), Write(k, ts, v)
  PROVE  \/ UNCHANGED <<mem, lm, older>> /\ lm[k].ts >= ts
         \/ Written(k, t, v)
<1>1. lm \in [Keys -> [ts : Nat, id : 0..(MaxFiles + 1), off : Nat]]
  BY DEF StoreTypes, Location
<1>2. lm[k].ts \in Nat
  BY <1>1
<1>3. NoRewrite(ts) = t /\ (HasBit(ts, TSB_COMPACTION_REWRITE) <=> ts = t + 1)
  BY PlainStamp
<1>4. Wins(lm[k], t, HasBit(ts, TSB_COMPACTION_REWRITE)) <=> lm[k].ts < ts
  BY <1>2, <1>3 DEF Wins
<1>5. CASE lm[k].ts < ts
  <2>1. lm[k].ts <= t
    BY <1>2, <1>5
  <2> QED BY <1>3, <1>4, <1>5, <2>1 DEF Write, Set, Written, MEM
<1>6. CASE ~(lm[k].ts < ts)
  <2>1. lm[k].ts >= ts
    BY <1>2, <1>6
  <2> QED BY <1>3, <1>4, <1>6, <2>1 DEF Write, Set
<1> QED BY <1>5, <1>6

LEMMA ClientWriteEffect ==
  ASSUME StoreTypes, NEW w \in Writes, ClientWrite(w)
  PROVE  /\ w.key \in Keys /\ w.ts \in Nat \ {0} /\ ~HasBit(w.ts, TSB_COMPACTION_REWRITE)
         /\ \/ UNCHANGED <<mem, lm, older>> /\ lm[w.key].ts >= w.ts
            \/ Written(w.key, w.ts, w.ts)
         /\ running = "up" /\ Alive
         /\ flushed' = IF Removal(w.ts) THEN [flushed EXCEPT ![w.key] = 0] ELSE flushed
         /\ UNCHANGED <<data, toc, values, tocs, open, broken, atRisk, lost, life, pass, batchVars,
                        counts>>
<1>1. w.key \in Keys /\ w.ts \in Nat \ {0} /\ ~HasBit(w.ts, TSB_COMPACTION_REWRITE)
  BY CompactionAssumption
<1>2. Write(w.key, w.ts, w.ts)
  BY DEF ClientWrite
<1>3. \/ UNCHANGED <<mem, lm, older>> /\ lm[w.key].ts >= w.ts
      \/ Written(w.key, w.ts, w.ts)
  BY <1>1, <1>2, WriteEffect
<1> QED BY <1>1, <1>3 DEF ClientWrite, Alive

\* The entry that a goroutine is at comes from a TOC.
LEMMA HeadEntry ==
  ASSUME StoreTypes, TaskTypes, FilesOK, EntriesOK, NEW c \in Chans, NEW s \in Slots,
         gor[c][s].batch # <<>>
  PROVE  /\ Head(gor[c][s].batch) \in EntryRec /\ IsEntry(Head(gor[c][s].batch))
         /\ Head(gor[c][s].batch).ts > 0
         /\ ~HasBit(Head(gor[c][s].batch).ts, TSB_COMPACTION_REWRITE)
         /\ ~Removal(Head(gor[c][s].batch).ts)
         /\ Busy(gor[c][s])
<1> DEFINE b == gor[c][s].batch
           e == Head(b)
<1>1. gor[c][s] \in GoroutineRec
  BY DEF TaskTypes
<1>2. b \in Seq(EntryRec) /\ b # <<>>
  BY <1>1 DEF GoroutineRec
<1>3. e = b[1] /\ 1 \in DOMAIN b /\ e \in EntryRec
  BY <1>2
<1>4. b # Nil
  <2> SUFFICES ASSUME b = Nil PROVE FALSE OBVIOUS
  <2>1. e.id = 0
    BY <1>3 DEF Nil
  <2> QED BY <1>3, <2>1 DEF EntryRec, FileIDs
<1>5. IsEntry(e)
  <2>1. EntriesOf(b)
    BY DEF EntriesOK
  <2> QED BY <2>1, <1>3, <1>4 DEF EntriesOf
<1>6. PICK i \in toc[e.id] : e = Entry(e.id, i)
  BY <1>5 DEF IsEntry
<1>7. e.id \in FileIDs
  BY <1>3 DEF EntryRec
<1>8. e.ts = data[e.id][i].ts
  BY <1>6 DEF Entry
<1>9. i \in DOMAIN data[e.id] /\ ~Removal(data[e.id][i].ts) /\ Stamped(data[e.id])
  BY <1>6, <1>7 DEF FilesOK
<1>10. Busy(gor[c][s])
  BY DEF EntriesOK
<1> QED BY <1>3, <1>5, <1>8, <1>9, <1>10 DEF Stamped

\* A rewrite fails, has lost to a newer value, or is kept.
LEMMA RewriteEffect ==
  ASSUME StoreTypes, TaskTypes, FilesOK, EntriesOK, NEW c \in Chans, NEW s \in Slots,
         Rewrite(c, s)
  PROVE  LET g == gor[c][s]
             e == Head(g.batch)
         IN  /\ g.pc = "write" /\ g.batch # <<>> /\ Alive /\ g \in GoroutineRec
             /\ e \in EntryRec /\ IsEntry(e) /\ e.ts > 0 /\ ~Removal(e.ts)
             /\ ~HasBit(e.ts, TSB_COMPACTION_REWRITE)
             /\ \/ /\ UNCHANGED <<mem, lm, older>> /\ writeErr' = (writeErr \/ s = slot)
                   /\ gor' = [gor EXCEPT ![c][s] = [Done(g) EXCEPT !.batch = <<>>]]
                \/ /\ \/ UNCHANGED <<mem, lm, older>> /\ lm[e.key].ts > e.ts
                      \/ Written(e.key, e.ts, g.val)
                   /\ writeErr' = writeErr /\ gor' = [gor EXCEPT ![c][s] = Done(g)]
             /\ faults' \in {faults, faults + 1} /\ (faults' # faults => faults < MaxFaults)
             /\ UNCHANGED <<data, toc, values, tocs, open, broken, flushed, atRisk, lost, writes,
                            running, replay, queue, starts, launcher, notify, names, jobs, jobsClosed, cancel,
                            passes, checked, stale, skip, readErr>>
             /\ EntryFrame
<1> DEFINE g == gor[c][s]
           e == Head(g.batch)
<1>1. g \in GoroutineRec /\ g.pc = "write" /\ g.batch # <<>> /\ Alive
  <2>1. g \in GoroutineRec
    BY DEF TaskTypes
  <2>2. g.pc = "write" /\ Alive
    BY DEF Rewrite, Alive
  <2>3. g.batch # <<>>
    BY <2>2 DEF EntriesOK
  <2> QED BY <2>1, <2>2, <2>3
<1>2. /\ e \in EntryRec /\ IsEntry(e) /\ e.ts > 0 /\ ~Removal(e.ts)
      /\ ~HasBit(e.ts, TSB_COMPACTION_REWRITE)
  BY <1>1, HeadEntry
<1>3. e.key \in Keys /\ e.ts \in Nat
  BY <1>2 DEF EntryRec
<1>4. writeErr \in BOOLEAN /\ lm[e.key].ts \in Nat
  <2>1. lm \in [Keys -> [ts : Nat, id : 0..(MaxFiles + 1), off : Nat]]
    BY DEF StoreTypes, Location
  <2> QED BY <1>3, <2>1 DEF TaskTypes
<1>5. PICK err \in BOOLEAN :
        /\ Fault(err)
        /\ writeErr' = (writeErr \/ (err /\ s = slot))
        /\ IF err THEN UNCHANGED <<mem, lm, older>> ELSE Write(e.key, RewriteTimestamp(e), g.val)
        /\ Goroutine(c, s, IF err THEN [Done(g) EXCEPT !.batch = <<>>] ELSE Done(g))
  BY Zenon DEF Rewrite
<1>7. ASSUME ~err
      PROVE  \/ UNCHANGED <<mem, lm, older>> /\ lm[e.key].ts > e.ts
             \/ Written(e.key, e.ts, g.val)
  <2>1. Write(e.key, e.ts + 1, g.val)
    BY <1>5, <1>7 DEF RewriteTimestamp, TSB_COMPACTION_REWRITE
  <2>2. \/ UNCHANGED <<mem, lm, older>> /\ lm[e.key].ts >= e.ts + 1
        \/ Written(e.key, e.ts, g.val)
    BY <2>1, <1>2, <1>3, WriteEffect
  <2> QED BY <2>2, <1>3, <1>4
<1>8. \/ /\ UNCHANGED <<mem, lm, older>> /\ writeErr' = (writeErr \/ s = slot)
         /\ gor' = [gor EXCEPT ![c][s] = [Done(g) EXCEPT !.batch = <<>>]]
      \/ /\ \/ UNCHANGED <<mem, lm, older>> /\ lm[e.key].ts > e.ts
            \/ Written(e.key, e.ts, g.val)
         /\ writeErr' = writeErr /\ gor' = [gor EXCEPT ![c][s] = Done(g)]
  <2>1. CASE err
    BY <1>5, <2>1 DEF Goroutine
  <2>2. CASE ~err
    <3>1. writeErr' = writeErr
      BY <1>4, <1>5, <2>2
    <3>2. gor' = [gor EXCEPT ![c][s] = Done(g)]
      BY <1>5, <2>2 DEF Goroutine
    <3> QED BY <1>7, <2>2, <3>1, <3>2
  <2> QED BY <2>1, <2>2
<1>9. faults' \in {faults, faults + 1} /\ (faults' # faults => faults < MaxFaults)
  BY <1>5 DEF Fault
<1>10. UNCHANGED <<data, toc, values, tocs, open, broken, flushed, atRisk, lost, writes, running,
                   replay, queue, starts, launcher, notify, names, jobs, jobsClosed, cancel,
                   passes, checked, stale, skip, readErr>> /\ EntryFrame
  BY DEF Rewrite
<1> HIDE DEF g, e
<1> QED BY <1>1, <1>2, <1>8, <1>9, <1>10 DEF g, e

\* A page in a new file: locations keep their places, and the TOC lists the
\* newest values of their keys.
Paged(f) ==
  /\ f \in FileIDs /\ data[f] = <<>> /\ f \notin tocs /\ toc[f] = {}
  /\ mem' = <<>> /\ data' = [data EXCEPT ![f] = mem]
  /\ toc' = [toc EXCEPT ![f] = {i \in DOMAIN mem : /\ ~Removal(mem[i].ts)
                                                   /\ mem[i].ts = lm[mem[i].key].ts}]
  /\ values' = values \cup {f} /\ tocs' = tocs \cup {f}
  /\ lm' = [k \in Keys |-> IF lm[k].id # MEM THEN lm[k]
                           ELSE IF Removal(lm[k].ts) THEN Missing
                           ELSE [ts |-> lm[k].ts, id |-> f, off |-> lm[k].off]]

LEMMA ToFileEffect ==
  ASSUME StoreTypes, FilesOK, LocationsOK, NEW f \in NewFile, ToFile(f)
  PROVE  Paged(f)
<1>1. f \in FileIDs /\ data[f] = <<>> /\ f \notin tocs /\ toc[f] = {}
  <2>1. f \in FileIDs /\ data[f] = <<>>
    BY DEF NewFile
  <2> QED BY <2>1 DEF FilesOK
<1>2. lm \in [Keys -> [ts : Nat, id : 0..(MaxFiles + 1), off : Nat]] /\ mem \in Seq(ValueRec)
  BY DEF StoreTypes, Location
<1>3. \A i \in DOMAIN mem : /\ mem[i].key \in Keys /\ mem[i].ts \in Nat
                            /\ lm[mem[i].key].ts \in Nat /\ i \in Nat
  <2> SUFFICES ASSUME NEW i \in DOMAIN mem
               PROVE  mem[i].key \in Keys /\ mem[i].ts \in Nat /\ lm[mem[i].key].ts \in Nat /\ i \in Nat
    OBVIOUS
  <2>1. mem[i] \in ValueRec /\ i \in Nat
    BY <1>2
  <2>2. mem[i].key \in Keys /\ mem[i].ts \in Nat
    BY <2>1 DEF ValueRec
  <2> QED BY <1>2, <2>1, <2>2
<1>4. \A i \in DOMAIN mem : /\ lm[mem[i].key].id = MEM
                            /\ mem[i].ts <= lm[mem[i].key].ts /\ i <= lm[mem[i].key].off
  BY DEF LocationsOK
<1>5. {i \in DOMAIN mem : Listed(i)} = {i \in DOMAIN mem : /\ ~Removal(mem[i].ts)
                                                           /\ mem[i].ts = lm[mem[i].key].ts}
  BY <1>3, <1>4 DEF Listed, Places
<1>6. ASSUME NEW k \in Keys, lm[k].id = MEM PROVE LastPlace(k) = lm[k].off
  <2>1. lm[k] # Missing /\ lm[k].id \notin FileIDs /\ lm[k].ts \in Nat /\ lm[k].off \in Nat
    <3>1. lm[k].ts \in Nat /\ lm[k].off \in Nat
      BY <1>2
    <3> QED BY <1>6, <3>1 DEF Missing, MEM, FileIDs
  <2>2. LocationOK(k)
    BY DEF LocationsOK
  <2>3. lm[k].off \in DOMAIN mem /\ mem[lm[k].off].key = k /\ mem[lm[k].off].ts = lm[k].ts
    BY <2>1, <2>2 DEF LocationOK
  <2>4. lm[k].off \in Places(k)
    BY <2>1, <2>3 DEF Places
  <2>5. \A j \in Places(k) : j \in Nat /\ j <= lm[k].off
    BY <1>3, <1>4 DEF Places
  <2>6. LastPlace(k) \in Places(k) /\ \A j \in Places(k) : j <= LastPlace(k)
    BY <2>4, <2>5 DEF LastPlace
  <2> QED BY <2>1, <2>4, <2>5, <2>6
<1>7. lm' = [k \in Keys |-> IF lm[k].id # MEM THEN lm[k]
                            ELSE IF Removal(lm[k].ts) THEN Missing
                            ELSE [ts |-> lm[k].ts, id |-> f, off |-> lm[k].off]]
  BY <1>6 DEF ToFile
<1> QED BY <1>1, <1>5, <1>7 DEF ToFile, Paged

LEMMA PageEffect ==
  ASSUME StoreTypes, FilesOK, LocationsOK, PageOut \/ Flush
  PROVE  /\ Alive
         /\ UNCHANGED <<broken, older, lost, writes, life, pass, batchVars, counts>>
         /\ \/ \E f \in FileIDs : /\ Paged(f) /\ mem # <<>>
                                  /\ \/ open' = open \cup {f} /\ UNCHANGED <<flushed, atRisk>>
                                     \/ /\ open' = {} /\ atRisk' = {}
                                        /\ flushed' = [k \in Keys |-> IF Lost(lost, lm', k) THEN 0 ELSE lm'[k].ts]
            \/ /\ UNCHANGED <<data, toc, values, tocs, lm, mem>>
               /\ mem = <<>> /\ open' = {} /\ atRisk' = {}
               /\ flushed' = [k \in Keys |-> IF Lost(lost, lm', k) THEN 0 ELSE lm'[k].ts]
<1>1. CASE PageOut
  <2>1. PICK f \in NewFile : ToFile(f) /\ open' = open \cup {f}
    BY <1>1 DEF PageOut
  <2>2. Paged(f) /\ f \in FileIDs
    BY <2>1, ToFileEffect DEF NewFile
  <2> QED BY <1>1, <2>1, <2>2 DEF PageOut, Alive
<1>2. CASE Flush /\ mem = <<>>
  BY <1>2 DEF Flush, Alive
<1>3. CASE Flush /\ mem # <<>>
  <2>1. PICK f \in NewFile : ToFile(f)
    BY <1>3 DEF Flush
  <2>2. Paged(f) /\ f \in FileIDs
    BY <2>1, ToFileEffect DEF NewFile
  <2>3. /\ Alive
        /\ UNCHANGED <<broken, older, lost, writes, life, pass, batchVars, counts>>
        /\ open' = {} /\ atRisk' = {}
        /\ flushed' = [k \in Keys |-> IF Lost(lost, lm', k) THEN 0 ELSE lm'[k].ts]
    BY <1>3 DEF Flush, Alive
  <2> QED BY <1>3, <2>2, <2>3
<1> QED BY <1>1, <1>2, <1>3

(***************************************************************************)
(* Types                                                                   *)
(***************************************************************************)
LEMMA WrittenTypes ==
  ASSUME StoreTypes, NEW k \in Keys, NEW t \in Nat, NEW v \in Nat, Written(k, t, v)
  PROVE  /\ mem' \in Seq(ValueRec) /\ lm' \in Location(Keys, 0..(MaxFiles + 1))
         /\ older' \subseteq Keys
<1>1. [key |-> k, ts |-> t, val |-> v] \in ValueRec
  BY DEF ValueRec
<1>2. mem' \in Seq(ValueRec)
  BY <1>1 DEF StoreTypes, Written
<1>3. MEM \in 0..(MaxFiles + 1) /\ Len(mem) + 1 \in Nat
  BY CompactionAssumption DEF MEM, StoreTypes
<1>4. lm' \in Location(Keys, 0..(MaxFiles + 1))
  BY <1>3, SMTT(30) DEF StoreTypes, Written, Location
<1> QED BY <1>2, <1>4 DEF StoreTypes, Written

LEMMA PagedTypes ==
  ASSUME StoreTypes, NEW f \in FileIDs, Paged(f)
  PROVE  /\ mem' \in Seq(ValueRec) /\ data' \in [FileIDs -> Seq(ValueRec)]
         /\ toc' \in [FileIDs -> SUBSET Nat] /\ lm' \in Location(Keys, 0..(MaxFiles + 1))
         /\ values' \subseteq FileIDs /\ tocs' \subseteq FileIDs
<1>1. f \in 0..(MaxFiles + 1) /\ 0 \in 0..(MaxFiles + 1)
  BY CompactionAssumption DEF FileIDs
<1>2. lm' \in Location(Keys, 0..(MaxFiles + 1))
  <2>1. lm \in [Keys -> [ts : Nat, id : 0..(MaxFiles + 1), off : Nat]]
    BY DEF StoreTypes, Location
  <2> QED BY <1>1, <2>1 DEF Paged, Location, Missing
<1>3. mem \in Seq(ValueRec) /\ DOMAIN mem \subseteq Nat
  BY DEF StoreTypes
<1> QED BY <1>2, <1>3 DEF StoreTypes, Paged

\* Recovery sets the location of an entry, unless there is a newer one.
Recovered(c, e) ==
  /\ e.id \in tocs \cap values /\ e.id \in FileIDs /\ e.off \in toc[e.id] /\ e.off \in Nat
  /\ data[e.id][e.off] \in ValueRec /\ queue' = [queue EXCEPT ![c] = @ \ {e}]
  /\ LET v == data[e.id][e.off]
     IN  \/ lm' = lm /\ v.ts < lm[v.key].ts
         \/ /\ lm[v.key].ts <= v.ts
            /\ lm' = [lm EXCEPT ![v.key] = [ts |-> v.ts, id |-> e.id, off |-> e.off]]

LEMMA RecoverEntryEffect ==
  ASSUME CompactionInv, NEW c \in Chans, RecoverEntry(c)
  PROVE  \E e \in queue[c] : Recovered(c, e)
<1> USE DEF CompactionInv
<1>1. PICK e \in queue[c] : lm' = Replayed(e) /\ queue' = [queue EXCEPT ![c] = @ \ {e}]
  BY DEF RecoverEntry, FirstRead
<1>2. e.id \in tocs \cap values /\ e.off \in toc[e.id]
  BY <1>1 DEF RecoverEntry, RecoveryOK
<1>3. e \in [id : FileIDs, off : Nat]
  BY <1>1 DEF StoreTypes
<1>4. e.id \in FileIDs /\ e.off \in Nat /\ e.id # 0
  BY <1>3 DEF FileIDs
<1> DEFINE v == data[e.id][e.off]
<1>5. v \in ValueRec
  BY <1>2, <1>4 DEF StoreTypes, FilesOK
<1>6. v.key \in Keys /\ v.ts \in Nat /\ lm[v.key].ts \in Nat
  <2>1. v.key \in Keys /\ v.ts \in Nat
    BY <1>5 DEF ValueRec
  <2> HIDE DEF v
  <2> QED BY <2>1 DEF StoreTypes, Location
<1>7. lm' = Set(lm, v.key, v.ts, e.id, e.off, TRUE)
  BY <1>1 DEF Replayed
<1> HIDE DEF v
<1>8. \/ lm' = lm /\ v.ts < lm[v.key].ts
      \/ /\ lm[v.key].ts <= v.ts
         /\ lm' = [lm EXCEPT ![v.key] = [ts |-> v.ts, id |-> e.id, off |-> e.off]]
  BY <1>4, <1>6, <1>7 DEF Set, Wins
<1> QED BY <1>1, <1>2, <1>4, <1>5, <1>8 DEF Recovered, v

LEMMA StoreTypesStep ==
  ASSUME CompactionInv, Next PROVE StoreTypes'
<1> USE DEF CompactionInv
<1>1. ASSUME NEW w \in Writes, ClientWrite(w) PROVE StoreTypes'
  <2>1. /\ w.key \in Keys /\ w.ts \in Nat
        /\ UNCHANGED <<mem, lm, older>> \/ Written(w.key, w.ts, w.ts)
        /\ flushed' = IF Removal(w.ts) THEN [flushed EXCEPT ![w.key] = 0] ELSE flushed
        /\ UNCHANGED <<data, toc, values, tocs, open, broken, atRisk, lost, life>>
    BY <1>1, ClientWriteEffect
  <2>2. /\ mem' \in Seq(ValueRec) /\ lm' \in Location(Keys, 0..(MaxFiles + 1))
        /\ older' \subseteq Keys
    BY <2>1, WrittenTypes DEF StoreTypes
  <2>3. flushed' \in [Keys -> Nat]
    BY <2>1 DEF StoreTypes
  <2> QED BY <2>1, <2>2, <2>3 DEF StoreTypes, life
<1>2. CASE PageOut \/ Flush
  <2>1. /\ UNCHANGED <<broken, older, lost, writes, life>>
        /\ \/ \E f \in FileIDs : /\ Paged(f)
                                 /\ \/ open' = open \cup {f} /\ UNCHANGED <<flushed, atRisk>>
                                    \/ /\ open' = {} /\ atRisk' = {}
                                       /\ flushed' = [k \in Keys |-> IF Lost(lost, lm', k) THEN 0 ELSE lm'[k].ts]
           \/ /\ UNCHANGED <<data, toc, values, tocs, lm, mem>>
              /\ open' = {} /\ atRisk' = {}
              /\ flushed' = [k \in Keys |-> IF Lost(lost, lm', k) THEN 0 ELSE lm'[k].ts]
    BY <1>2, PageEffect
  <2>2. /\ mem' \in Seq(ValueRec) /\ data' \in [FileIDs -> Seq(ValueRec)]
        /\ toc' \in [FileIDs -> SUBSET Nat] /\ lm' \in Location(Keys, 0..(MaxFiles + 1))
        /\ values' \subseteq FileIDs /\ tocs' \subseteq FileIDs
    BY <2>1, PagedTypes DEF StoreTypes
  <2>3. open' \subseteq FileIDs /\ atRisk' \subseteq Keys
    BY <2>1 DEF StoreTypes
  <2>4. flushed' \in [Keys -> Nat]
    <3>1. \A k \in Keys : lm'[k].ts \in Nat
      BY <2>2 DEF Location
    <3> QED BY <2>1, <3>1 DEF StoreTypes
  <2> QED BY <2>1, <2>2, <2>3, <2>4 DEF StoreTypes, life
<1>3. CASE PassStep
  BY <1>3, PassStepFrame DEF StoreTypes, store, life
<1>4. CASE ReaderStep
  <2>1. faults' \in 0..MaxFaults
    <3>1. faults \in 0..MaxFaults /\ MaxFaults \in Nat
      BY CompactionAssumption DEF StoreTypes
    <3> QED BY <1>4, <3>1, ReaderStepFrame DEF FaultStep
  <2> QED BY <1>4, <2>1, ReaderStepFrame DEF StoreTypes, store, TaskFrame
<1>5. CASE EndStep
  BY <1>5, EndStepFrame DEF StoreTypes, store, TaskFrame
<1>6. CASE RemoveTOC
  <2>1. faults' \in 0..MaxFaults /\ tocs' \subseteq FileIDs
    <3>1. faults \in 0..MaxFaults /\ MaxFaults \in Nat /\ tocs \subseteq FileIDs
      BY CompactionAssumption DEF StoreTypes
    <3>2. \E err \in BOOLEAN : Fault(err) /\ tocs' = IF err THEN tocs ELSE tocs \ {File}
      BY <1>6 DEF RemoveTOC
    <3> QED BY <3>1, <3>2 DEF Fault
  <2>2. atRisk' \subseteq Keys /\ lost' \subseteq EntryRec
    BY <1>6 DEF RemoveTOC, StoreTypes, TaskTypes
  <2>3. flushed' \in [Keys -> Nat]
    BY <1>6 DEF RemoveTOC, StoreTypes
  <2> QED BY <1>6, <2>1, <2>2, <2>3 DEF RemoveTOC, StoreTypes
<1>7. CASE RemoveValues
  BY <1>7 DEF RemoveValues, StoreTypes, life
<1>8. ASSUME NEW c \in Chans, NEW s \in Slots, EntryStep(c, s) PROVE StoreTypes'
  <2>1. faults' \in 0..MaxFaults
    <3>1. faults \in 0..MaxFaults /\ MaxFaults \in Nat
      BY CompactionAssumption DEF StoreTypes
    <3> QED BY <1>8, <3>1, EntryStepFrame DEF FaultStep
  <2> QED BY <1>8, <2>1, EntryStepFrame DEF StoreTypes, store, TaskFrame
<1>9. ASSUME NEW c \in Chans, NEW s \in Slots, Rewrite(c, s) PROVE StoreTypes'
  <2> DEFINE g == gor[c][s]
             e == Head(g.batch)
  <2>1. /\ g \in GoroutineRec /\ e \in EntryRec
        /\ UNCHANGED <<mem, lm, older>> \/ Written(e.key, e.ts, g.val)
        /\ faults' \in {faults, faults + 1} /\ (faults' # faults => faults < MaxFaults)
        /\ UNCHANGED <<data, toc, values, tocs, open, broken, flushed, atRisk, lost, running,
                       replay, queue>>
    BY <1>9, RewriteEffect, Zenon
  <2>2. e.key \in Keys /\ e.ts \in Nat /\ g.val \in Nat
    BY <2>1 DEF GoroutineRec, EntryRec
  <2> HIDE DEF e, g
  <2>3. /\ mem' \in Seq(ValueRec) /\ lm' \in Location(Keys, 0..(MaxFiles + 1))
        /\ older' \subseteq Keys
    BY <2>1, <2>2, WrittenTypes DEF StoreTypes
  <2>4. faults' \in 0..MaxFaults
    BY <2>1, CompactionAssumption DEF StoreTypes
  <2> QED BY <2>1, <2>3, <2>4 DEF StoreTypes
<1>10. CASE ShutdownStep
  <2>1. running' \in {"down", "stopping", "panicked"}
    BY <1>10 DEF ShutdownStep, Shutdown, ShutdownReturns, RewriteAfterShutdown
  <2> QED BY <1>10, <2>1, ShutdownStepFrame DEF StoreTypes, store
<1>11. CASE Crash
  <2>1. /\ mem' = <<>> /\ running' = "down" /\ atRisk' = {} /\ lost' = {}
        /\ lm' = [k \in Keys |-> Missing]
        /\ flushed' = [k \in Keys |-> IF k \in atRisk THEN 0 ELSE flushed[k]]
        /\ UNCHANGED <<data, values, tocs, older, replay, queue, faults>>
    BY <1>11 DEF Crash
  <2>2. open' \subseteq FileIDs /\ broken' \subseteq FileIDs /\ toc' \in [FileIDs -> SUBSET Nat]
    BY <1>11 DEF Crash, StoreTypes
  <2>3. lm' \in Location(Keys, 0..(MaxFiles + 1))
    BY <2>1, CompactionAssumption DEF Location, Missing
  <2> QED BY <2>1, <2>2, <2>3 DEF StoreTypes
<1>12. CASE Startup
  <2>1. lm' \in Location(Keys, 0..(MaxFiles + 1))
    BY <1>12, CompactionAssumption DEF Startup, Location, Missing
  <2> QED BY <1>12, <2>1 DEF Startup, StoreTypes
<1>13. CASE RecoverFile
  <2>1. PICK f \in Oldest(replay) :
          /\ replay' = replay \ {f}
          /\ queue' = [c \in Chans |->
                        queue[c] \cup {[id |-> f, off |-> i] :
                                        i \in {i \in toc[f] : Readable(f) /\ Chan(data[f][i].key) = c}}]
    BY <1>13 DEF RecoverFile
  <2>2. f \in FileIDs /\ toc[f] \subseteq Nat
    BY DEF Oldest, StoreTypes
  <2>3. queue' \in [Chans -> SUBSET [id : FileIDs, off : Nat]]
    BY <2>1, <2>2 DEF StoreTypes
  <2> QED BY <1>13, <2>1, <2>3 DEF RecoverFile, RecoveryFrame, StoreTypes
<1>14. ASSUME NEW c \in Chans, RecoverEntry(c) PROVE StoreTypes'
  <2>1. PICK e \in queue[c] : Recovered(c, e)
    BY <1>14, RecoverEntryEffect
  <2>2. queue' \in [Chans -> SUBSET [id : FileIDs, off : Nat]]
    BY <2>1 DEF Recovered, StoreTypes
  <2>3. lm' \in Location(Keys, 0..(MaxFiles + 1))
    <3>1. PICK v : v = data[e.id][e.off]
      OBVIOUS
    <3>2. /\ e.id \in FileIDs /\ e.off \in Nat /\ v \in ValueRec
          /\ \/ lm' = lm
             \/ lm' = [lm EXCEPT ![v.key] = [ts |-> v.ts, id |-> e.id, off |-> e.off]]
      BY <2>1, <3>1 DEF Recovered
    <3>3. v.key \in Keys /\ v.ts \in Nat /\ e.id \in 0..(MaxFiles + 1)
      BY <3>2, CompactionAssumption DEF ValueRec, FileIDs
    <3>4. [ts |-> v.ts, id |-> e.id, off |-> e.off] \in [ts : Nat, id : 0..(MaxFiles + 1), off : Nat]
      BY <3>2, <3>3
    <3>5. lm \in [Keys -> [ts : Nat, id : 0..(MaxFiles + 1), off : Nat]]
      BY DEF StoreTypes, Location
    <3> QED BY <3>2, <3>3, <3>4, <3>5 DEF Location
  <2> QED BY <1>14, <2>2, <2>3 DEF RecoverEntry, RecoveryFrame, StoreTypes
<1>15. CASE RecoveryEnd
  <2>1. running' \in {"panicked", "recovered"} /\ older' \subseteq Keys
    BY <1>15 DEF RecoveryEnd, StoreTypes
  <2> QED BY <1>15, <2>1 DEF RecoveryEnd, RecoveryFrame, StoreTypes
<1>16. CASE CompactionStartup
  <2>1. flushed' \in [Keys -> Nat]
    BY <1>16 DEF CompactionStartup, StoreTypes, Location
  <2> QED BY <1>16, <2>1 DEF CompactionStartup, RecoveryFrame, StoreTypes
<1> QED
  BY <1>1, <1>2, <1>3, <1>4, <1>5, <1>6, <1>7, <1>8, <1>9, <1>10, <1>11, <1>12, <1>13,
     <1>14, <1>15, <1>16, Steps

LEMMA ChanInChans ==
  ASSUME NEW k \in Keys PROVE Chan(k) \in Chans
<1>1. k \in Nat /\ Workers \in Nat /\ Workers > 0
  BY CompactionAssumption
<1>2. k % Workers \in 0..(Workers - 1)
  BY <1>1
<1> QED BY <1>1, <1>2 DEF Chan, Chans

\* A location leads to a value, whose key and timestamp it has.
LEMMA LocationValue ==
  ASSUME CompactionInv, NEW k \in Keys, lm[k].id # 0
  PROVE  /\ Value(lm[k]) \in ValueRec /\ Value(lm[k]).key = k /\ Value(lm[k]).ts = lm[k].ts
         /\ lm[k].id \in {MEM} \cup FileIDs
         /\ lm[k].id = MEM => lm[k].off \in DOMAIN mem
         /\ lm[k].id # MEM => lm[k].off \in toc[lm[k].id] /\ lm[k].off \in DOMAIN data[lm[k].id]
<1> USE DEF CompactionInv
<1>1. LocationOK(k) /\ lm[k] # Missing
  BY DEF LocationsOK, Missing
<1>2. CASE lm[k].id = MEM
  <2>1. /\ lm[k].off \in DOMAIN mem
        /\ mem[lm[k].off].key = k /\ mem[lm[k].off].ts = lm[k].ts
    BY <1>1, <1>2 DEF LocationOK, MEM, FileIDs
  <2>2. mem[lm[k].off] \in ValueRec
    BY <2>1 DEF StoreTypes
  <2> QED BY <1>2, <2>1, <2>2 DEF Value
<1>3. CASE lm[k].id # MEM
  <2>1. /\ lm[k].id \in FileIDs /\ lm[k].off \in toc[lm[k].id]
        /\ data[lm[k].id][lm[k].off].key = k /\ data[lm[k].id][lm[k].off].ts = lm[k].ts
    BY <1>1, <1>3 DEF LocationOK
  <2>2. lm[k].off \in DOMAIN data[lm[k].id]
    BY <2>1 DEF FilesOK
  <2>3. data[lm[k].id][lm[k].off] \in ValueRec
    BY <2>1, <2>2 DEF StoreTypes
  <2> QED BY <1>3, <2>1, <2>2, <2>3 DEF Value
<1> QED BY <1>2, <1>3

(***************************************************************************)
(* What a goroutine with record g does: h is its record afterwards         *)
(***************************************************************************)
Received(c, s, h) ==
  /\ gor[c][s].pc = "wait" /\ pending[c] # <<>>
  /\ pending' = [pending EXCEPT ![c] = Tail(@)] /\ UNCHANGED <<free, skip, readErr, writeErr>>
  /\ \/ Head(pending[c]) = Nil /\ h.pc = "gone" /\ h.batch = gor[c][s].batch
     \/ Head(pending[c]) # Nil /\ s = slot /\ (skip[c] \/ writeErr) /\ h = gor[c][s]
     \/ Head(pending[c]) # Nil /\ h.pc = "entry" /\ h.batch = Head(pending[c])

Returned(c, s, h) ==
  /\ gor[c][s].pc = "entry" /\ gor[c][s].batch = <<>> /\ h.pc = "wait" /\ h.batch = <<>>
  /\ free' = [free EXCEPT ![c] = @ + 1] /\ UNCHANGED <<pending, skip, readErr, writeErr>>

Sampled(c, s, h) ==
  /\ gor[c][s].pc = "entry" /\ gor[c][s].kind = "sample" /\ h.pc = "entry"
  /\ h.batch \in {<<>>, Tail(gor[c][s].batch)}
  /\ skip' = skip \/ \E b \in BOOLEAN : s = slot /\ skip' = [skip EXCEPT ![c] = b]
  /\ UNCHANGED <<free, pending, readErr, writeErr>>

LookedUp(c, s, h) ==
  LET g == gor[c][s]
      e == Head(g.batch)
  IN  /\ g.pc = "entry" /\ g.kind = "compact"
      /\ \/ IsStale(lm[e.key].ts, e) /\ h.pc = "entry" /\ h.batch = Tail(g.batch)
         \/ ~IsStale(lm[e.key].ts, e) /\ h.pc = "read" /\ h.batch = g.batch
      /\ UNCHANGED <<free, pending, skip, readErr, writeErr>>

HasRead(c, s, h) ==
  LET g == gor[c][s]
      e == Head(g.batch)
      l == lm[e.key]
  IN  /\ g.pc = "read"
      /\ \/ h.pc = "entry" /\ h.batch = Tail(g.batch) /\ s = slot /\ readErr'
         \/ h.pc = "entry" /\ h.batch = Tail(g.batch) /\ s # slot /\ readErr' = readErr
         \/ /\ h.pc = "entry" /\ h.batch = Tail(g.batch) /\ readErr' = readErr
            /\ ~Live(l) \/ Removal(l.ts) \/ l.ts > e.ts
         \/ /\ h.pc = "write" /\ h.batch = g.batch /\ readErr' = readErr
            /\ Live(l) /\ l.ts <= e.ts /\ h.val = Value(l).val
      /\ UNCHANGED <<free, pending, skip, writeErr>>

LEMMA EntryStepEffect ==
  ASSUME CompactionInv, NEW c \in Chans, NEW s \in Slots, EntryStep(c, s)
  PROVE  \E h \in GoroutineRec :
           /\ gor' = [gor EXCEPT ![c][s] = h] /\ h.kind = gor[c][s].kind
           /\ \/ Received(c, s, h) \/ Returned(c, s, h)
              \/ /\ gor[c][s].batch # <<>>
                 /\ Sampled(c, s, h) \/ LookedUp(c, s, h) \/ HasRead(c, s, h)
<1> USE DEF CompactionInv
<1> DEFINE g == gor[c][s]
           e == Head(g.batch)
<1>1. /\ g \in GoroutineRec /\ pending[c] \in Seq(Batch) /\ skip \in [Chans -> BOOLEAN]
      /\ readErr \in BOOLEAN /\ writeErr \in BOOLEAN /\ gor[c] \in [Slots -> GoroutineRec]
  BY DEF TaskTypes
<1>2. g.batch \in Seq(EntryRec) /\ g.kind \in {"sample", "compact"} /\ g.val \in Nat
  BY <1>1 DEF GoroutineRec
<1> HIDE DEF g, e
<1>3. g.batch # <<>> => Done(g) \in GoroutineRec
  <2>1. g.batch # <<>> => Tail(g.batch) \in Seq(EntryRec)
    BY <1>2
  <2> QED BY <1>1, <2>1 DEF Done, GoroutineRec
<1>4. g.batch # <<>> => /\ Done(g).pc = "entry" /\ Done(g).batch = Tail(g.batch)
                        /\ Done(g).kind = g.kind
  BY <1>1 DEF Done, GoroutineRec
<1>5. CASE Receive(c, s)
  <2>1. PICK b : b = Head(pending[c])
    OBVIOUS
  <2>2. PICK h : h = IF b = Nil THEN [g EXCEPT !.pc = "gone"]
                     ELSE IF s = slot /\ (skip[c] \/ writeErr) THEN g
                     ELSE [g EXCEPT !.pc = "entry", !.batch = b]
    OBVIOUS
  <2>3. /\ g.pc = "wait" /\ pending[c] # <<>>
        /\ pending' = [pending EXCEPT ![c] = Tail(@)] /\ UNCHANGED <<free, counts>>
        /\ gor' = [gor EXCEPT ![c][s] = h]
    BY <1>5, <2>1, <2>2 DEF Receive, Goroutine, g
  <2>4. b \in Batch
    BY <1>1, <2>1, <2>3
  <2>5. b # Nil => b \in Seq(EntryRec)
    BY <2>4 DEF Batch
  <2>6. h \in GoroutineRec /\ h.kind = g.kind
    BY <1>1, <2>2, <2>5 DEF GoroutineRec
  <2>7. \/ b = Nil /\ h.pc = "gone" /\ h.batch = g.batch
        \/ b # Nil /\ s = slot /\ (skip[c] \/ writeErr) /\ h = g
        \/ b # Nil /\ h.pc = "entry" /\ h.batch = b
    BY <1>1, <2>2 DEF GoroutineRec
  <2>8. Received(c, s, h)
    BY <2>1, <2>3, <2>7 DEF Received, counts, g
  <2> QED BY <2>3, <2>6, <2>8 DEF g
<1>6. CASE Return(c, s)
  <2>1. PICK h : h = [g EXCEPT !.pc = "wait"]
    OBVIOUS
  <2>2. h \in GoroutineRec /\ h.kind = g.kind /\ h.pc = "wait" /\ h.batch = g.batch
    BY <1>1, <2>1 DEF GoroutineRec
  <2>3. gor' = [gor EXCEPT ![c][s] = h] /\ Returned(c, s, h)
    BY <1>6, <2>1, <2>2 DEF Return, Goroutine, Returned, counts, g
  <2> QED BY <2>2, <2>3 DEF g
<1>7. CASE Sample(c, s)
  <2>1. g.pc = "entry" /\ g.kind = "sample" /\ g.batch # <<>>
    BY <1>7 DEF Sample, g
  <2>2. UNCHANGED <<free, pending, readErr, writeErr>>
    BY <1>7, Zenon DEF Sample, EntryFrame
  <2>3. PICK h \in GoroutineRec : /\ gor' = [gor EXCEPT ![c][s] = h] /\ h.kind = g.kind
                                  /\ h.pc = "entry" /\ h.batch \in {<<>>, Tail(g.batch)}
    <3>1. <<>> \in Seq(EntryRec)
      OBVIOUS
    <3>2. PICK h : h = IF s = slot /\ checked + 1 >= ToCheck THEN [g EXCEPT !.batch = <<>>] ELSE Done(g)
      OBVIOUS
    <3>3. gor' = [gor EXCEPT ![c][s] = h]
      BY <1>7, <3>2 DEF Sample, Goroutine, g
    <3>4. CASE s = slot /\ checked + 1 >= ToCheck
      <4>1. h \in GoroutineRec /\ h.kind = g.kind /\ h.pc = "entry" /\ h.batch = <<>>
        BY <1>1, <2>1, <3>1, <3>2, <3>4 DEF GoroutineRec
      <4> QED BY <3>3, <4>1
    <3>5. CASE ~(s = slot /\ checked + 1 >= ToCheck)
      BY <1>3, <1>4, <2>1, <3>2, <3>3, <3>5
    <3> QED BY <3>4, <3>5
  <2>4. skip' = skip \/ \E b \in BOOLEAN : s = slot /\ skip' = [skip EXCEPT ![c] = b]
    <3>1. CASE s = slot
      <4>1. skip' = [skip EXCEPT ![c] = (checked + 1 >= ToCheck)]
        BY <1>7, <3>1 DEF Sample
      <4>2. (checked + 1 >= ToCheck) \in BOOLEAN
        OBVIOUS
      <4> QED BY <3>1, <4>1, <4>2
    <3>2. CASE s # slot
      BY <1>7, <3>2 DEF Sample
    <3> QED BY <3>1, <3>2
  <2>5. Sampled(c, s, h)
    BY <2>1, <2>2, <2>3, <2>4 DEF Sampled, g
  <2> QED BY <2>1, <2>3, <2>5 DEF g
<1>8. CASE LookUp(c, s)
  <2>1. g.pc = "entry" /\ g.kind = "compact" /\ g.batch # <<>>
    BY <1>8 DEF LookUp, g
  <2>2. UNCHANGED <<free, pending, skip, readErr, writeErr>>
    BY <1>8, Zenon DEF LookUp, EntryFrame, counts
  <2>3. PICK h : h = IF IsStale(lm[e.key].ts, e) THEN Done(g) ELSE [g EXCEPT !.pc = "read"]
    OBVIOUS
  <2>4. gor' = [gor EXCEPT ![c][s] = h]
    BY <1>8, <2>3 DEF LookUp, Goroutine, g, e
  <2>5. /\ h \in GoroutineRec /\ h.kind = g.kind
        /\ \/ IsStale(lm[e.key].ts, e) /\ h.pc = "entry" /\ h.batch = Tail(g.batch)
           \/ ~IsStale(lm[e.key].ts, e) /\ h.pc = "read" /\ h.batch = g.batch
    <3>1. CASE IsStale(lm[e.key].ts, e)
      BY <1>3, <1>4, <2>1, <2>3, <3>1
    <3>2. CASE ~IsStale(lm[e.key].ts, e)
      BY <1>1, <2>3, <3>2 DEF GoroutineRec
    <3> QED BY <3>1, <3>2
  <2>6. LookedUp(c, s, h)
    BY <2>1, <2>2, <2>5 DEF LookedUp, g, e
  <2> QED BY <2>1, <2>4, <2>5, <2>6 DEF g
<1>9. CASE ReadValue(c, s)
  <2>1. g.pc = "read" /\ g.batch # <<>>
    BY <1>9 DEF ReadValue, EntriesOK, g
  <2>2. e \in EntryRec /\ e.key \in Keys /\ e.ts \in Nat
    <3>1. e \in EntryRec
      BY <1>2, <2>1 DEF e
    <3> QED BY <3>1 DEF EntryRec
  <2>3. PICK l : l = lm[e.key]
    OBVIOUS
  <2>4. l.ts \in Nat
    BY <2>2, <2>3 DEF StoreTypes, Location
  <2>5. PICK err \in BOOLEAN :
          /\ readErr' = (readErr \/ (err /\ s = slot))
          /\ gor' = [gor EXCEPT ![c][s] =
                       IF err \/ (l.id = 0 \/ HasBit(l.ts, TSB_DELETION) \/ Removal(l.ts)) \/ l.ts > e.ts
                       THEN Done(g) ELSE [g EXCEPT !.pc = "write", !.val = Value(l).val]]
    BY <1>9, <2>3, Zenon DEF ReadValue, Goroutine, g, e
  <2>6. UNCHANGED <<free, pending, skip, writeErr>>
    BY <1>9, Zenon DEF ReadValue, EntryFrame
  <2>7. CASE err \/ l.id = 0 \/ HasBit(l.ts, TSB_DELETION) \/ Removal(l.ts) \/ l.ts > e.ts
    <3>1. PICK h : h = Done(g)
      OBVIOUS
    <3>2. /\ gor' = [gor EXCEPT ![c][s] = h] /\ h \in GoroutineRec /\ h.kind = g.kind
          /\ h.pc = "entry" /\ h.batch = Tail(g.batch)
      BY <1>3, <1>4, <2>1, <2>5, <2>7, <3>1
    <3>3. \/ s = slot /\ readErr'
          \/ s # slot /\ readErr' = readErr
          \/ readErr' = readErr /\ (~Live(l) \/ Removal(l.ts) \/ l.ts > e.ts)
      BY <1>1, <2>5, <2>7 DEF Live
    <3>4. HasRead(c, s, h)
      BY <2>1, <2>3, <2>6, <3>2, <3>3 DEF HasRead, g, e
    <3> QED BY <2>1, <3>2, <3>4 DEF g
  <2>8. CASE ~(err \/ l.id = 0 \/ HasBit(l.ts, TSB_DELETION) \/ Removal(l.ts) \/ l.ts > e.ts)
    <3>1. PICK h : h = [g EXCEPT !.pc = "write", !.val = Value(l).val]
      OBVIOUS
    <3>2. Value(l).val \in Nat
      BY <2>2, <2>3, <2>8, LocationValue DEF ValueRec
    <3>3. /\ gor' = [gor EXCEPT ![c][s] = h] /\ h \in GoroutineRec /\ h.kind = g.kind
          /\ h.pc = "write" /\ h.batch = g.batch /\ h.val = Value(l).val
      <4>1. gor' = [gor EXCEPT ![c][s] = h]
        BY <2>5, <2>8, <3>1
      <4> QED BY <1>1, <3>1, <3>2, <4>1 DEF GoroutineRec
    <3>4. readErr' = readErr /\ Live(l) /\ l.ts <= e.ts
      BY <1>1, <2>2, <2>4, <2>5, <2>8 DEF Live
    <3>5. HasRead(c, s, h)
      BY <2>1, <2>3, <2>6, <3>3, <3>4 DEF HasRead, g, e
    <3> QED BY <2>1, <3>3, <3>5 DEF g
  <2> QED BY <2>7, <2>8
<1> QED BY <1>5, <1>6, <1>7, <1>8, <1>9 DEF EntryStep

LEMMA EntryStepAlive ==
  ASSUME NEW c, NEW s, EntryStep(c, s) PROVE gor[c][s].pc # "gone"
<1>1. Receive(c, s) => gor[c][s].pc = "wait"
  BY DEF Receive
<1>2. Return(c, s) => gor[c][s].pc = "entry"
  BY DEF Return
<1>3. Sample(c, s) => gor[c][s].pc = "entry"
  BY DEF Sample
<1>4. LookUp(c, s) => gor[c][s].pc = "entry"
  BY DEF LookUp
<1>5. ReadValue(c, s) => gor[c][s].pc = "read"
  BY Zenon DEF ReadValue
<1> QED BY <1>1, <1>2, <1>3, <1>4, <1>5 DEF EntryStep

\* What the kinds of steps have in common.
LEMMA AtEntry ==
  ASSUME NEW c, NEW s, NEW h, Sampled(c, s, h) \/ LookedUp(c, s, h) \/ HasRead(c, s, h)
  PROVE  /\ Busy(gor[c][s]) /\ Busy(h) /\ pending' = pending /\ free' = free
         /\ \/ h.pc = "entry" /\ h.batch \in {<<>>, Tail(gor[c][s].batch)}
            \/ h.pc \in {"read", "write"} /\ h.batch = gor[c][s].batch
<1>1. CASE Sampled(c, s, h)
  BY <1>1 DEF Sampled, Busy
<1>2. CASE LookedUp(c, s, h)
  BY <1>2, ZenonT(30) DEF LookedUp, Busy
<1>3. CASE HasRead(c, s, h)
  BY <1>3, ZenonT(30) DEF HasRead, Busy
<1> QED BY <1>1, <1>2, <1>3

LEMMA StepErrors ==
  ASSUME NEW c, NEW s, NEW h,
         \/ Received(c, s, h) \/ Returned(c, s, h)
         \/ Sampled(c, s, h) \/ LookedUp(c, s, h) \/ HasRead(c, s, h)
  PROVE  writeErr' = writeErr /\ (readErr' = readErr \/ readErr')
<1>1. CASE Received(c, s, h)
  BY <1>1 DEF Received
<1>2. CASE Returned(c, s, h)
  BY <1>2 DEF Returned
<1>3. CASE Sampled(c, s, h)
  BY <1>3 DEF Sampled
<1>4. CASE LookedUp(c, s, h)
  BY <1>4 DEF LookedUp
<1>5. CASE HasRead(c, s, h)
  BY <1>5, ZenonT(30) DEF HasRead
<1> QED BY <1>1, <1>2, <1>3, <1>4, <1>5

LEMMA AtChannels ==
  ASSUME NEW c, NEW s, NEW h,
         \/ Received(c, s, h) \/ Returned(c, s, h)
         \/ Sampled(c, s, h) \/ LookedUp(c, s, h) \/ HasRead(c, s, h)
  PROVE  /\ pending' = pending \/ (pending[c] # <<>> /\ pending' = [pending EXCEPT ![c] = Tail(@)])
         /\ free' = free \/ free' = [free EXCEPT ![c] = @ + 1]
<1>1. CASE Received(c, s, h)
  BY <1>1, Zenon DEF Received
<1>2. CASE Returned(c, s, h)
  BY <1>2, Zenon DEF Returned
<1>3. CASE Sampled(c, s, h) \/ LookedUp(c, s, h) \/ HasRead(c, s, h)
  BY <1>3, AtEntry
<1> QED BY <1>1, <1>2, <1>3

LEMMA HolderFacts ==
  ASSUME CompactionInv, task # "none"
  PROVE  /\ lock \in Chans /\ lock # 0 /\ Active(lock) /\ worker[lock] \in WorkerRec
         /\ File \in FileIDs /\ data[File] # <<>> /\ launcher \notin {"gone", "wait"}
<1> USE DEF CompactionInv
<1>1. lock \in Chans /\ lock # 0
  BY CompactionAssumption DEF WorkersOK, TaskTypes, Chans
<1>2. Active(lock)
  BY <1>1 DEF WorkersOK
<1>3. launcher \notin {"gone", "wait"}
  BY <1>1, <1>2 DEF WorkersOK, WorkersGone, Active
<1> QED BY <1>1, <1>2, <1>3 DEF WorkersOK, File, TaskTypes

\* The lock is free again, and its worker takes another job or goes on with its file.
Unlocked ==
  /\ lock' = 0 /\ task' = "none"
  /\ \E r \in WorkerRec : /\ worker' = [worker EXCEPT ![lock] = r]
                          /\ r.pc = "next" \/ (r.pc = "compact" /\ r.file = File)

LEMMA UnlockEffect ==
  ASSUME CompactionInv, task # "none", NEW next \in {"next", "compact"}, Unlock(next)
  PROVE  Unlocked
<1>1. lock \in Chans /\ worker[lock] \in WorkerRec /\ worker \in [Chans -> WorkerRec]
  BY HolderFacts DEF CompactionInv, TaskTypes
<1>2. PICK r : r = IF next = "next" THEN NoJob ELSE [worker[lock] EXCEPT !.pc = next]
  OBVIOUS
<1>3. r \in WorkerRec /\ (r.pc = "next" \/ (r.pc = "compact" /\ r.file = File))
  BY <1>1, <1>2 DEF WorkerRec, NoJob, File
<1>4. worker' = [worker EXCEPT ![lock] = r]
  BY <1>2 DEF Unlock
<1> QED BY <1>3, <1>4 DEF Unlock, Unlocked

LEMMA EndStepEffect ==
  ASSUME CompactionInv, EndStep
  PROVE  /\ Unlocked /\ Finished /\ task \in {"sampled", "rewritten"}
         /\ task = "rewritten" => readErr \/ writeErr \/ (tocErr /\ ~anyRead)
<1>1. CASE SampleEnd
  <2>1. Unlock(IF NeedsCompaction THEN "compact" ELSE "next") /\ task = "sampled" /\ Finished
    BY <1>1 DEF SampleEnd
  <2>2. Unlock("compact") \/ Unlock("next")
    BY <2>1
  <2> QED BY <2>1, <2>2, UnlockEffect
<1>2. CASE CompactEnd
  <2>1. /\ Unlock("next") /\ task = "rewritten" /\ Finished
        /\ readErr \/ writeErr \/ (tocErr /\ ~anyRead)
    BY <1>2 DEF CompactEnd, Removes
  <2> QED BY <2>1, UnlockEffect
<1> QED BY <1>1, <1>2 DEF EndStep

\* A call begins: without its TOC it leaves its goroutines, else it has the lock.
BeginFails(w) ==
  /\ slot' = slot + 1 /\ left' = TRUE /\ faults < MaxFaults /\ faults' = faults + 1
  /\ worker' = [worker EXCEPT ![w] = NoJob]
  /\ UNCHANGED <<lock, task, todo, filling, free>>

Begun(w) ==
  /\ free[1] > 0 /\ free' = [free EXCEPT ![1] = @ - 1]
  /\ lock' = w /\ task' = worker[w].pc /\ todo' = toc[worker[w].file]
  /\ filling' = [c \in Chans |-> IF c = 1 THEN <<>> ELSE Nil]
  /\ UNCHANGED <<slot, left, worker, faults>>

LEMMA TaskBeginEffect ==
  ASSUME NEW w \in Chans, TaskBegin(w)
  PROVE  /\ Active(w) /\ lock = 0
         /\ gor' = IF cancel /\ worker[w].pc = "compact" /\ slot > 1 THEN gor
                   ELSE Started(worker[w].pc)
         /\ BeginFails(w) \/ Begun(w)
         /\ ResetCounts /\ UNCHANGED <<block, pending>> /\ TaskFrame
<1>1. PICK err \in BOOLEAN :
       /\ Fault(err)
       /\ IF err
          THEN /\ slot' = slot + 1 /\ left' = TRUE
               /\ worker' = [worker EXCEPT ![w] = NoJob]
               /\ UNCHANGED <<lock, task, todo, filling, free>>
          ELSE /\ free[1] > 0 /\ free' = [free EXCEPT ![1] = @ - 1]
               /\ lock' = w /\ task' = worker[w].pc
               /\ todo' = toc[worker[w].file]
               /\ filling' = [c \in Chans |-> IF c = 1 THEN <<>> ELSE Nil]
               /\ UNCHANGED <<slot, left, worker>>
  BY DEF TaskBegin
<1>2. BeginFails(w) \/ Begun(w)
  <2>1. CASE err
    BY <1>1, <2>1 DEF BeginFails, Fault
  <2>2. CASE ~err
    BY <1>1, <2>2 DEF Begun, Fault
  <2> QED BY <2>1, <2>2
<1> QED BY <1>2 DEF TaskBegin, Active

\* A block of the TOC is read, or entries are missed.
BlockRead ==
  /\ \E i \in todo : block' = UpTo(i)
  /\ UNCHANGED <<todo, faults, tocErr, missed>>

BlockMissed(S) ==
  /\ S \subseteq todo /\ todo' = todo \ S /\ missed' = missed \cup {Entry(File, j) : j \in S}
  /\ tocErr' = TRUE /\ faults < MaxFaults /\ faults' = faults + 1 /\ block' = {}

LEMMA ReadBlockEffect ==
  ASSUME ReadBlock
  PROVE  /\ task \in {"sample", "compact"} /\ (task = "compact" => ~cancel) /\ block = {}
         /\ BlockRead \/ \E S \in SUBSET todo : BlockMissed(S)
         /\ UNCHANGED <<lock, task, slot, left, filling, free, pending, gor, worker, checked,
                        stale, skip, readErr, writeErr, anyRead>> /\ TaskFrame
<1>1. /\ task \in {"sample", "compact"} /\ (task = "compact" => ~cancel) /\ block = {}
      /\ UNCHANGED <<lock, task, slot, left, filling, free, pending, gor, worker, checked,
                     stale, skip, readErr, writeErr, anyRead>> /\ TaskFrame
  BY DEF ReadBlock, Stopped
<1>2. CASE Fault(TRUE)
  <2>1. faults < MaxFaults /\ faults' = faults + 1
    BY <1>2 DEF Fault
  <2>2. CASE BlockRead
    BY <1>1, <2>2
  <2>3. CASE ~BlockRead
    <3>1. PICK i \in todo \cup {0} :
             /\ todo' = todo \ UpTo(i) /\ tocErr' = TRUE /\ block' = block
             /\ missed' = missed \cup {Entry(File, j) : j \in UpTo(i)}
      BY <2>3, Zenon DEF ReadBlock, BlockRead
    <3>2. UpTo(i) \in SUBSET todo
      BY DEF UpTo
    <3>3. BlockMissed(UpTo(i))
      BY <1>1, <2>1, <3>1, <3>2 DEF BlockMissed
    <3> QED BY <1>1, <3>2, <3>3
  <2> QED BY <2>2, <2>3
<1>3. CASE ~Fault(TRUE)
  BY <1>1, <1>3, Zenon DEF ReadBlock, BlockRead
<1> QED BY <1>2, <1>3

\* An entry goes to the batch of its channel, which may be full then.
ReadInto(i, c, b) ==
  /\ i \in todo /\ i \in toc[File] /\ todo' = todo \ {i} /\ block' = block \ {i}
  /\ c = Chan(data[File][i].key) /\ c \in Chans
  /\ Entry(File, i) \in EntryRec
  /\ b \in Seq(EntryRec) /\ b # Nil
  /\ b = IF filling[c] = Nil THEN <<Entry(File, i)>> ELSE Append(filling[c], Entry(File, i))
  /\ filling[c] = Nil => free[c] > 0
  /\ free' = [free EXCEPT ![c] = IF filling[c] = Nil THEN @ - 1 ELSE @]
  /\ \/ filling' = [filling EXCEPT ![c] = b] /\ pending' = pending
     \/ filling' = [filling EXCEPT ![c] = Nil] /\ pending' = [pending EXCEPT ![c] = Append(@, b)]

\* No entry is in the place that Nil has.
LEMMA NotNil ==
  ASSUME NEW b \in Seq(EntryRec) PROVE b # Nil
<1> SUFFICES ASSUME b = Nil PROVE FALSE OBVIOUS
<1>1. b[1] \in EntryRec /\ b[1].id = 0
  BY DEF Nil
<1> QED BY <1>1 DEF EntryRec, FileIDs

LEMMA EntryTyped ==
  ASSUME CompactionInv, NEW f \in FileIDs, NEW i \in toc[f]
  PROVE  Entry(f, i) \in EntryRec /\ data[f][i].key \in Keys /\ data[f][i].ts \in Nat
         /\ i \in DOMAIN data[f] /\ i \in Nat
<1>1. i \in DOMAIN data[f] /\ data[f] \in Seq(ValueRec)
  BY DEF CompactionInv, FilesOK, StoreTypes
<1>2. data[f][i] \in ValueRec /\ i \in Nat
  BY <1>1
<1> QED BY <1>1, <1>2 DEF Entry, EntryRec, ValueRec

LEMMA ReadEntryEffect ==
  ASSUME CompactionInv, ReadEntry
  PROVE  /\ task \in {"sample", "compact"}
         /\ \E i \in todo, c \in Chans, b \in Seq(EntryRec) : ReadInto(i, c, b)
         /\ UNCHANGED <<lock, task, slot, left, gor, checked, stale, skip, readErr, writeErr,
                        tocErr, missed, faults, worker>> /\ TaskFrame
<1>1. /\ task \in {"sample", "compact"}
      /\ UNCHANGED <<lock, task, slot, left, gor, checked, stale, skip, readErr, writeErr,
                     tocErr, missed, faults, worker>> /\ TaskFrame
  BY DEF ReadEntry
<1>2. File \in FileIDs /\ todo \subseteq toc[File]
  BY <1>1, HolderFacts DEF CompactionInv, EntriesOK
<1>3. PICK i \in block : LET e == Entry(File, i)
                            c == Chan(e.key)
                            batch == IF filling[c] = Nil THEN <<e>> ELSE Append(filling[c], e)
                            full  == Len(batch) >= BatchSize
                        IN  /\ filling[c] = Nil => free[c] > 0
                            /\ free' = [free EXCEPT ![c] = IF filling[c] = Nil THEN @ - 1 ELSE @]
                            /\ filling' = [filling EXCEPT ![c] = IF full THEN Nil ELSE batch]
                            /\ pending' = [pending EXCEPT ![c] = IF full THEN Append(@, batch) ELSE @]
                            /\ todo' = todo \ {i} /\ block' = block \ {i}
  BY Zenon DEF ReadEntry, Oldest
<1>d. i \in todo
  BY DEF CompactionInv, TaskTypes
<1>4. PICK c : c = Chan(data[File][i].key)
  OBVIOUS
<1>5. Entry(File, i) \in EntryRec /\ c \in Chans
  BY <1>2, <1>d, <1>4, EntryTyped, ChanInChans
<1>6. Entry(File, i).key = data[File][i].key
  BY DEF Entry
<1>7. PICK b : b = IF filling[c] = Nil THEN <<Entry(File, i)>> ELSE Append(filling[c], Entry(File, i))
  OBVIOUS
<1>8. b \in Seq(EntryRec)
  <2>1. filling[c] \in Seq(EntryRec) \/ filling[c] = Nil
    BY <1>5 DEF CompactionInv, TaskTypes, Batch
  <2> QED BY <1>5, <1>7, <2>1
<1>9. /\ filling[c] = Nil => free[c] > 0
      /\ free' = [free EXCEPT ![c] = IF filling[c] = Nil THEN @ - 1 ELSE @]
      /\ filling' = [filling EXCEPT ![c] = IF Len(b) >= BatchSize THEN Nil ELSE b]
      /\ pending' = [pending EXCEPT ![c] = IF Len(b) >= BatchSize THEN Append(@, b) ELSE @]
      /\ todo' = todo \ {i} /\ block' = block \ {i}
  BY <1>3, <1>4, <1>6, <1>7, Zenon
<1>10. pending = [pending EXCEPT ![c] = pending[c]]
  BY <1>5 DEF CompactionInv, TaskTypes
<1>11. \/ filling' = [filling EXCEPT ![c] = b] /\ pending' = pending
       \/ filling' = [filling EXCEPT ![c] = Nil] /\ pending' = [pending EXCEPT ![c] = Append(@, b)]
  <2>1. CASE Len(b) >= BatchSize
    BY <1>9, <2>1, Zenon
  <2>2. CASE ~(Len(b) >= BatchSize)
    <3>1. pending' = [pending EXCEPT ![c] = pending[c]]
      BY <1>9, <2>2, Zenon
    <3> QED BY <1>9, <1>10, <2>2, <3>1, Zenon
  <2> QED BY <2>1, <2>2
<1>12. ReadInto(i, c, b)
  <2>1. b # Nil /\ i \in toc[File] /\ c \in Chans
    BY <1>2, <1>d, <1>5, <1>8, NotNil
  <2> QED BY <1>d, <1>4, <1>5, <1>7, <1>8, <1>9, <1>11, <2>1, Zenon DEF ReadInto
<1> QED BY <1>1, <1>d, <1>5, <1>8, <1>12

\* The TOC is read: a canceled compaction has no nils for its goroutines.
ReadCanceled ==
  /\ task = "compact" /\ cancel /\ task' = "none" /\ lock' = 0
  /\ worker' = [worker EXCEPT ![lock] = NoJob]
  /\ slot' = IF Finished THEN slot ELSE slot + 1
  /\ pending' = [c \in Chans |-> pending[c] \o Rest(c)]

ReadAll ==
  /\ \/ task = "sample" /\ task' = "sampled"
     \/ task = "compact" /\ ~cancel /\ task' = "rewritten" /\ todo = {}
  /\ UNCHANGED <<lock, worker, slot>>
  /\ pending' = [c \in Chans |-> Append(pending[c] \o Rest(c), Nil)]

LEMMA RestTyped ==
  ASSUME CompactionInv, NEW c \in Chans
  PROVE  /\ Rest(c) \in Seq(Batch) /\ pending[c] \in Seq(Batch) /\ Nil \in Batch
         /\ pending[c] \o Rest(c) \in Seq(Batch)
         /\ filling[c] = Nil => pending[c] \o Rest(c) = pending[c]
         /\ filling[c] # Nil => pending[c] \o Rest(c) = Append(pending[c], filling[c])
<1>1. filling[c] \in Batch /\ pending[c] \in Seq(Batch) /\ Nil \in Batch
  BY DEF CompactionInv, TaskTypes, Batch
<1>2. PICK p, f, r : p = pending[c] /\ f = filling[c] /\ r = Rest(c)
  OBVIOUS
<1>3. CASE f = Nil
  <2>1. r = <<>>
    BY <1>2, <1>3 DEF Rest
  <2>2. p \o r = p /\ r \in Seq(Batch)
    BY <1>1, <1>2, <2>1
  <2> QED BY <1>1, <1>2, <1>3, <2>2
<1>4. CASE f # Nil
  <2>1. r = <<f>>
    BY <1>2, <1>4 DEF Rest
  <2>2. p \o r = Append(p, f) /\ r \in Seq(Batch) /\ Append(p, f) \in Seq(Batch)
    BY <1>1, <1>2, <2>1
  <2> QED BY <1>1, <1>2, <1>4, <2>2
<1> QED BY <1>3, <1>4

LEMMA ReadEndEffect ==
  ASSUME CompactionInv, ReadEnd
  PROVE  /\ ReadCanceled \/ ReadAll
         /\ filling' = [c \in Chans |-> Nil] /\ todo' = {}
         /\ block = {} /\ UNCHANGED <<left, block, free, gor, counts, faults>> /\ TaskFrame
<1>1. /\ task \in {"sample", "compact"} /\ (todo = {} \/ Stopped)
      /\ filling' = [c \in Chans |-> Nil] /\ todo' = {}
      /\ block = {} /\ UNCHANGED <<left, block, free, gor, counts, faults>> /\ TaskFrame
  BY DEF ReadEnd
<1>2. \A c \in Chans : /\ (pending[c] \o Rest(c)) \o <<>> = pending[c] \o Rest(c)
                       /\ (pending[c] \o Rest(c)) \o <<Nil>> = Append(pending[c] \o Rest(c), Nil)
  <2> TAKE c \in Chans
  <2>1. pending[c] \o Rest(c) \in Seq(Batch) /\ Nil \in Batch
    BY RestTyped
  <2>2. PICK p : p = pending[c] \o Rest(c)
    OBVIOUS
  <2>3. p \o <<>> = p /\ p \o <<Nil>> = Append(p, Nil)
    BY <2>1, <2>2
  <2> QED BY <2>2, <2>3
<1>3. CASE task = "compact" /\ cancel
  <2>1. /\ pending' = [c \in Chans |-> pending[c] \o Rest(c) \o <<>>]
        /\ task' = "none" /\ lock' = 0 /\ worker' = [worker EXCEPT ![lock] = NoJob]
        /\ slot' = IF Finished THEN slot ELSE slot + 1
    BY <1>3 DEF ReadEnd
  <2>2. pending' = [c \in Chans |-> pending[c] \o Rest(c)]
    BY <1>2, <2>1
  <2> QED BY <1>1, <1>3, <2>1, <2>2 DEF ReadCanceled
<1>4. CASE ~(task = "compact" /\ cancel)
  <2>1. /\ pending' = [c \in Chans |-> pending[c] \o Rest(c) \o <<Nil>>]
        /\ task' = IF task = "sample" THEN "sampled" ELSE "rewritten"
        /\ UNCHANGED <<lock, worker, slot>>
    BY <1>4 DEF ReadEnd
  <2>2. pending' = [c \in Chans |-> Append(pending[c] \o Rest(c), Nil)]
    BY <1>2, <2>1
  <2>3. task = "compact" => ~cancel /\ todo = {}
    BY <1>1, <1>4 DEF Stopped
  <2> QED BY <1>1, <2>1, <2>2, <2>3 DEF ReadAll
<1> QED BY <1>3, <1>4

\* Entries that are missed are entries of the file.
LEMMA MissedEffect ==
  ASSUME CompactionInv, task # "none", NEW S \in SUBSET todo, BlockMissed(S),
         task \in {"sample", "compact"}
  PROVE  /\ missed' \subseteq EntryRec
         /\ \A e \in missed' : e \in missed \/ \E i \in S : e = Entry(File, i)
         /\ \A i \in S : Entry(File, i) \in missed'
<1>1. \A i \in S : i \in toc[File]
  BY DEF CompactionInv, EntriesOK
<1>2. File \in FileIDs
  BY HolderFacts
<1>3. \A i \in S : Entry(File, i) \in EntryRec
  BY <1>1, <1>2, EntryTyped
<1>4. missed \subseteq EntryRec
  BY DEF CompactionInv, TaskTypes
<1> QED BY <1>3, <1>4 DEF BlockMissed

taskState == <<launcher, notify, cancel, names, jobs, worker, lock, slot, left, task, todo,
               block, filling, free, pending, gor, skip, readErr, writeErr, missed>>

LEMMA TaskTypesStable ==
  ASSUME TaskTypes, UNCHANGED taskState PROVE TaskTypes'
BY DEF TaskTypes, taskState

LEMMA TaskTypesStep ==
  ASSUME CompactionInv, Next PROVE TaskTypes'
<1> USE DEF CompactionInv
<1>0. /\ jobs \in Seq(FileIDs) /\ worker \in [Chans -> WorkerRec] /\ filling \in [Chans -> Batch]
      /\ free \in [Chans -> Nat] /\ pending \in [Chans -> Seq(Batch)]
      /\ gor \in [Chans -> [Slots -> GoroutineRec]]
  BY DEF CompactionInv, TaskTypes
<1>f. free \in [Chans -> Nat]
  BY DEF CompactionInv, TaskTypes
<1>g. gor \in [Chans -> [Slots -> GoroutineRec]]
  BY DEF CompactionInv, TaskTypes
<1>p. StoreTypes /\ TaskTypes /\ FilesOK /\ LocationsOK /\ EntriesOK
  BY DEF CompactionInv
<1> HIDE DEF CompactionInv
<1>1. ASSUME NEW w \in Writes, ClientWrite(w) PROVE TaskTypes'
  BY <1>1, ClientWriteEffect, <1>p, TaskTypesStable DEF taskState, pass, batchVars, counts
<1>2. CASE PageOut \/ Flush
  BY <1>2, PageEffect, <1>p, TaskTypesStable DEF taskState, pass, batchVars, counts
<1>3. CASE PassStep
  <2>1. UNCHANGED <<batchVars, counts>>
    BY <1>3, PassStepFrame
  <2>2. CASE CompactionLauncher
    <3>1. NoJob \in WorkerRec
      BY DEF NoJob, WorkerRec
    <3>2. worker' \in [Chans -> WorkerRec] /\ jobs' \in Seq(FileIDs) /\ names' \subseteq FileIDs
      <4>1. tocs \subseteq FileIDs /\ names \subseteq FileIDs
        BY DEF CompactionInv, TaskTypes, StoreTypes
      <4>2. /\ worker' = worker \/ worker' = [w \in Chans |-> NoJob]
            /\ jobs' \in {jobs, <<>>} /\ names' \in {names, tocs}
        BY <2>2 DEF CompactionLauncher
      <4>3. [w \in Chans |-> NoJob] \in [Chans -> WorkerRec] /\ <<>> \in Seq(FileIDs)
        BY <3>1
      <4> QED BY <1>0, <4>1, <4>2, <4>3
    <3>3. launcher' \in {"queue", "gone"} /\ notify' \in BOOLEAN /\ cancel' \in BOOLEAN
      BY <1>p, <2>2 DEF CompactionLauncher, TaskTypes
    <3> QED BY <1>p, <2>1, <3>2, <3>3 DEF TaskTypes, batchVars, counts
  <2>3. CASE PassQueue
    <3>1. PICK f \in names, old \in BOOLEAN :
            /\ jobs' = IF Candidate(f, old) THEN Append(jobs, f) ELSE jobs
            /\ names' = IF old THEN names \ {f} ELSE {}
      BY <2>3 DEF PassQueue, Oldest
    <3>2. f \in FileIDs
      BY <3>1 DEF CompactionInv, TaskTypes
    <3>3. jobs' \in Seq(FileIDs) /\ names' \subseteq FileIDs
      BY <3>1, <3>2 DEF CompactionInv, TaskTypes
    <3> QED BY <2>1, <2>3, <3>3 DEF PassQueue, TaskTypes, CompactionInv, batchVars, counts
  <2>4. CASE PassInterrupted \/ PassQueued \/ PassWait
    BY <2>1, <2>4 DEF PassInterrupted, PassQueued, PassWait, TaskTypes, CompactionInv, batchVars,
       counts
  <2>5. ASSUME NEW w \in Chans, CompactionWorker(w) PROVE TaskTypes'
    <3>1. jobs \in Seq(FileIDs) /\ worker \in [Chans -> WorkerRec] /\ worker[w] \in WorkerRec
      BY DEF CompactionInv, TaskTypes
    <3>2. jobs' \in Seq(FileIDs)
      <4>1. jobs' = jobs \/ (jobs # <<>> /\ jobs' = Tail(jobs))
        BY <2>5 DEF CompactionWorker
      <4> QED BY <3>1, <4>1
    <3>3. worker' \in [Chans -> WorkerRec]
      <4>1. CASE jobs # <<>> /\ worker' # worker
        <5>1. Head(jobs) \in FileIDs
          BY <3>1, <4>1
        <5>2. PICK r : r = [pc |-> IF Cardinality(toc[Head(jobs)]) < SmallTotal THEN "compact" ELSE "sample",
                            file |-> Head(jobs)]
          OBVIOUS
        <5>3. r \in WorkerRec
          BY <5>1, <5>2 DEF WorkerRec
        <5>4. worker' = [worker EXCEPT ![w] = r]
          BY <2>5, <4>1, <5>2 DEF CompactionWorker
        <5> QED BY <3>1, <5>3, <5>4
      <4>2. CASE jobs = <<>>
        <5>1. [worker[w] EXCEPT !.pc = "gone"] \in WorkerRec
          BY <3>1 DEF WorkerRec
        <5>2. worker' = [worker EXCEPT ![w] = [worker[w] EXCEPT !.pc = "gone"]]
          BY <2>5, <4>2, <3>1 DEF CompactionWorker
        <5> QED BY <3>1, <5>1, <5>2
      <4> QED BY <3>1, <4>1, <4>2
    <3> QED BY <2>1, <2>5, <3>2, <3>3 DEF CompactionWorker, TaskTypes, CompactionInv, batchVars, counts
  <2> QED BY <1>3, <2>2, <2>3, <2>4, <2>5 DEF PassStep
<1>4. CASE ReaderStep
  <2>1. TaskFrame
    BY <1>4, ReaderStepFrame
  <2>2. ASSUME NEW w \in Chans, TaskBegin(w) PROVE TaskTypes'
    <3>1. /\ Active(w) /\ lock = 0
          /\ gor' = IF cancel /\ worker[w].pc = "compact" /\ slot > 1 THEN gor
                    ELSE Started(worker[w].pc)
          /\ BeginFails(w) \/ Begun(w)
          /\ ResetCounts /\ UNCHANGED <<block, pending>>
      BY <2>2, TaskBeginEffect
    <3>2. /\ skip' \in [Chans -> BOOLEAN] /\ readErr' \in BOOLEAN /\ writeErr' \in BOOLEAN
          /\ missed' \subseteq EntryRec
      BY <3>1 DEF ResetCounts
    <3>b. block = {}
      BY <3>1, <1>p DEF CompactionInv, EntriesOK, TaskTypes, WorkersOK
    <3>3. gor' \in [Chans -> [Slots -> GoroutineRec]]
      <4>1. PICK g : g = [pc |-> "wait", kind |-> worker[w].pc, batch |-> <<>>, val |-> 0]
        OBVIOUS
      <4>2. g \in GoroutineRec
        BY <3>1, <4>1 DEF Active, GoroutineRec
      <4>3. Started(worker[w].pc) = [c \in Chans |-> [gor[c] EXCEPT ![slot] = g]]
        BY <4>1 DEF Started
      <4>4. Started(worker[w].pc) \in [Chans -> [Slots -> GoroutineRec]]
        <5>1. \A c \in Chans : [gor[c] EXCEPT ![slot] = g] \in [Slots -> GoroutineRec]
          BY <1>g, <4>2
        <5> QED BY <4>3, <5>1
      <4> QED BY <3>1, <4>4 DEF CompactionInv, TaskTypes
    <3>4. CASE BeginFails(w)
      <4>1. worker' \in [Chans -> WorkerRec]
        BY <3>4 DEF BeginFails, TaskTypes, CompactionInv, NoJob, WorkerRec
      <4> QED BY <2>1, <3>1, <3>2, <3>3, <3>4, <4>1 DEF BeginFails, TaskTypes, CompactionInv, TaskFrame
    <3>5. CASE Begun(w)
      <4>1. worker[w].file \in FileIDs
        BY <3>1 DEF CompactionInv, WorkersOK
      <4>2. todo' \subseteq Nat
        BY <3>5, <4>1 DEF Begun, StoreTypes, CompactionInv
      <4>3. free' \in [Chans -> Nat]
        <5>1. 1 \in Chans
          BY CompactionAssumption DEF Chans
        <5> QED BY <3>5, <5>1 DEF Begun, TaskTypes, CompactionInv
      <4>4. filling' \in [Chans -> Batch]
        BY <3>5 DEF Begun, Batch
      <4>5. lock' \in 0..Workers /\ task' \in {"sample", "compact"}
        BY <3>1, <3>5 DEF Begun, Chans, Active
      <4> QED BY <2>1, <3>1, <3>2, <3>3, <3>b, <3>5, <4>2, <4>3, <4>4, <4>5
              DEF Begun, TaskTypes, CompactionInv, TaskFrame
    <3> QED BY <3>1, <3>4, <3>5
  <2>b. CASE ReadBlock
    <3>1. /\ task \in {"sample", "compact"} /\ block = {}
          /\ BlockRead \/ \E S \in SUBSET todo : BlockMissed(S)
          /\ UNCHANGED <<lock, task, slot, left, filling, free, pending, gor, worker, checked,
                         stale, skip, readErr, writeErr, anyRead>>
      BY <2>b, ReadBlockEffect
    <3>2. todo' \subseteq Nat /\ block' \subseteq todo' /\ missed' \subseteq EntryRec
      <4>1. todo \subseteq Nat /\ missed \subseteq EntryRec
        BY <1>p DEF TaskTypes
      <4>2. CASE BlockRead
        BY <4>1, <4>2 DEF BlockRead, UpTo
      <4>3. ASSUME NEW S \in SUBSET todo, BlockMissed(S)
            PROVE  todo' \subseteq Nat /\ block' \subseteq todo' /\ missed' \subseteq EntryRec
        <5>1. missed' \subseteq EntryRec
          BY <3>1, <4>3, MissedEffect
        <5> QED BY <4>1, <4>3, <5>1 DEF BlockMissed
      <4> QED BY <3>1, <4>2, <4>3
    <3> QED BY <2>1, <3>1, <3>2 DEF CompactionInv, TaskTypes, TaskFrame
  <2>3. CASE ReadEntry
    <3>1. PICK i \in todo, c \in Chans, b \in Seq(EntryRec) : ReadInto(i, c, b)
      BY <2>3, ReadEntryEffect
    <3>2. UNCHANGED <<lock, task, slot, left, gor, skip, readErr, writeErr, missed, worker>>
      BY <2>3, ReadEntryEffect
    <3>3. free' \in [Chans -> Nat]
      BY <3>1 DEF ReadInto, TaskTypes, CompactionInv
    <3>4. b \in Batch /\ Nil \in Batch
      BY DEF Batch
    <3>5. filling' \in [Chans -> Batch] /\ pending' \in [Chans -> Seq(Batch)]
      <4>1. \/ filling' = [filling EXCEPT ![c] = b] /\ pending' = pending
            \/ /\ filling' = [filling EXCEPT ![c] = Nil]
               /\ pending' = [pending EXCEPT ![c] = Append(@, b)]
        BY <3>1, Zenon DEF ReadInto
      <4>p. Append(pending[c], b) \in Seq(Batch)
        BY <1>0, <3>4
      <4>2. PICK a \in Seq(Batch) : a = Append(pending[c], b)
        BY <4>p
      <4>3. pending' = pending \/ pending' = [pending EXCEPT ![c] = a]
        BY <4>1, <4>2
      <4>4. filling' \in [Chans -> Batch]
        BY <1>0, <3>4, <4>1
      <4> QED BY <1>0, <4>2, <4>3, <4>4
    <3>6. todo' \subseteq Nat /\ block' \subseteq todo'
      BY <3>1 DEF ReadInto, TaskTypes, CompactionInv
    <3> QED BY <2>1, <3>2, <3>3, <3>5, <3>6 DEF CompactionInv, TaskTypes, TaskFrame, counts
  <2>4. CASE ReadEnd
    <3>1. /\ ReadCanceled \/ ReadAll
          /\ filling' = [c \in Chans |-> Nil] /\ todo' = {}
          /\ block = {} /\ UNCHANGED <<left, block, free, gor, counts, faults>>
      BY <2>4, ReadEndEffect
    <3>2. filling' \in [Chans -> Batch]
      BY <3>1 DEF Batch
    <3>3. pending' \in [Chans -> Seq(Batch)]
      <4>1. \A c \in Chans : /\ pending[c] \o Rest(c) \in Seq(Batch)
                             /\ Append(pending[c] \o Rest(c), Nil) \in Seq(Batch)
        <5> TAKE c \in Chans
        <5>1. pending[c] \o Rest(c) \in Seq(Batch) /\ Nil \in Batch
          BY RestTyped
        <5>2. PICK p : p = pending[c] \o Rest(c)
          OBVIOUS
        <5> QED BY <5>1, <5>2
      <4> QED BY <3>1, <4>1 DEF ReadCanceled, ReadAll
    <3>4. worker' \in [Chans -> WorkerRec]
      <4>1. NoJob \in WorkerRec
        BY DEF NoJob, WorkerRec
      <4> QED BY <1>0, <3>1, <4>1 DEF ReadCanceled, ReadAll
    <3>5. lock' \in 0..Workers /\ slot' \in Nat \ {0}
          /\ task' \in {"none", "sampled", "rewritten"}
      BY <3>1, CompactionAssumption, SMTT(30) DEF ReadCanceled, ReadAll, TaskTypes, CompactionInv
    <3> QED BY <2>1, <3>1, <3>2, <3>3, <3>4, <3>5 DEF CompactionInv, TaskTypes, TaskFrame, counts
  <2> QED BY <1>4, <2>2, <2>b, <2>3, <2>4 DEF ReaderStep
<1>5. CASE EndStep
  <2>1. /\ Unlocked /\ TaskFrame
        /\ UNCHANGED <<slot, left, todo, block, filling, free, pending, gor, counts>>
    BY <1>5, EndStepEffect, EndStepFrame
  <2>2. worker' \in [Chans -> WorkerRec]
    BY <2>1 DEF Unlocked, TaskTypes, CompactionInv
  <2> QED BY <2>1, <2>2, CompactionAssumption, SMTT(30)
             DEF Unlocked, TaskTypes, CompactionInv, TaskFrame, counts
<1>6. CASE RemoveTOC
  BY <1>6 DEF RemoveTOC, TaskTypes, CompactionInv, pass, counts
<1>7. CASE RemoveValues
  <2>1. Unlocked
    BY <1>7, UnlockEffect DEF RemoveValues
  <2>2. worker' \in [Chans -> WorkerRec]
    BY <2>1 DEF Unlocked, TaskTypes, CompactionInv
  <2> QED BY <1>7, <2>1, <2>2, CompactionAssumption, SMTT(30)
             DEF RemoveValues, Unlocked, TaskTypes, CompactionInv, counts
<1>8. ASSUME NEW c \in Chans, NEW s \in Slots, EntryStep(c, s) PROVE TaskTypes'
  <2>1. PICK h \in GoroutineRec :
          /\ gor' = [gor EXCEPT ![c][s] = h]
          /\ \/ Received(c, s, h) \/ Returned(c, s, h)
             \/ /\ gor[c][s].batch # <<>>
                /\ Sampled(c, s, h) \/ LookedUp(c, s, h) \/ HasRead(c, s, h)
    BY <1>8, EntryStepEffect
  <2>2. gor' \in [Chans -> [Slots -> GoroutineRec]]
    BY <2>1 DEF CompactionInv, TaskTypes
  <2>3. pending' \in [Chans -> Seq(Batch)]
    <3>1. pending' = pending \/ (pending[c] # <<>> /\ pending' = [pending EXCEPT ![c] = Tail(@)])
      BY <2>1 DEF Received, Returned, Sampled, LookedUp, HasRead
    <3>2. pending[c] # <<>> => Tail(pending[c]) \in Seq(Batch)
      BY <1>0
    <3> QED BY <1>0, <3>1, <3>2
  <2>4. free' \in [Chans -> Nat]
    <3>1. free' = free \/ free' = [free EXCEPT ![c] = @ + 1]
      BY <2>1 DEF Received, Returned, Sampled, LookedUp, HasRead
    <3> QED BY <1>f, <3>1
  <2>5. skip' \in [Chans -> BOOLEAN]
    <3>1. skip' = skip \/ \E b \in BOOLEAN : skip' = [skip EXCEPT ![c] = b]
      BY <2>1 DEF Received, Returned, Sampled, LookedUp, HasRead
    <3> QED BY <3>1 DEF CompactionInv, TaskTypes
  <2>6. readErr' \in BOOLEAN /\ writeErr' = writeErr
    <3>1. readErr' \in {readErr, readErr'} /\ writeErr' = writeErr
      BY <2>1 DEF Received, Returned, Sampled, LookedUp, HasRead
    <3>2. readErr' \in BOOLEAN
      BY <1>8 DEF EntryStep, Receive, Return, Sample, LookUp, ReadValue, counts, TaskTypes,
         CompactionInv
    <3> QED BY <3>1, <3>2
  <2>7. UNCHANGED <<lock, task, slot, left, todo, block, filling, worker, missed>> /\ TaskFrame
    BY <1>8, EntryStepFrame DEF reading
  <2> QED BY <2>2, <2>3, <2>4, <2>5, <2>6, <2>7 DEF CompactionInv, TaskTypes, TaskFrame
<1>9. ASSUME NEW c \in Chans, NEW s \in Slots, Rewrite(c, s) PROVE TaskTypes'
  <2> DEFINE g == gor[c][s]
  <2>1. /\ g \in GoroutineRec /\ g.batch # <<>>
        /\ writeErr' \in {writeErr, writeErr \/ s = slot}
        /\ gor' = [gor EXCEPT ![c][s] = [Done(g) EXCEPT !.batch = <<>>]]
           \/ gor' = [gor EXCEPT ![c][s] = Done(g)]
        /\ UNCHANGED <<launcher, notify, names, jobs, jobsClosed, cancel, passes, skip, readErr>>
        /\ EntryFrame
    BY <1>p, <1>9, RewriteEffect, Zenon
  <2> HIDE DEF g
  <2>2. Done(g) \in GoroutineRec /\ [Done(g) EXCEPT !.batch = <<>>] \in GoroutineRec
    <3>1. g.batch \in Seq(EntryRec)
      BY <2>1 DEF GoroutineRec
    <3>2. Tail(g.batch) \in Seq(EntryRec) /\ <<>> \in Seq(EntryRec)
      BY <2>1, <3>1
    <3>3. Done(g) \in GoroutineRec
      BY <2>1, <3>2 DEF Done, GoroutineRec
    <3>4. PICK d : d = Done(g)
      OBVIOUS
    <3>5. [d EXCEPT !.batch = <<>>] \in GoroutineRec
      BY <3>2, <3>3, <3>4 DEF GoroutineRec
    <3> QED BY <3>3, <3>4, <3>5
  <2>3. gor' \in [Chans -> [Slots -> GoroutineRec]]
    <3>1. PICK h \in GoroutineRec : gor' = [gor EXCEPT ![c][s] = h]
      BY <2>1, <2>2
    <3> QED BY <1>g, <3>1
  <2>4. writeErr' \in BOOLEAN
    BY <2>1 DEF CompactionInv, TaskTypes
  <2> QED BY <2>1, <2>3, <2>4 DEF CompactionInv, TaskTypes, EntryFrame, reading
<1>10. CASE ShutdownStep
  <2>1. notify' \in BOOLEAN
    BY <1>10, ZenonT(60) DEF ShutdownStep, Shutdown, ShutdownReturns, RewriteAfterShutdown,
                             TaskTypes, CompactionInv, pass
  <2> QED BY <1>10, <2>1, ShutdownStepFrame, ZenonT(60)
             DEF CompactionInv, TaskTypes, batchVars, counts
<1>11. Idle \in [Chans -> [Slots -> GoroutineRec]]
  BY DEF Idle, GoroutineRec
<1>12. Batches \in Nat
  BY CompactionAssumption
<1>13. CASE Crash
  <2>1. [c \in Chans |-> Nil] \in [Chans -> Batch] /\ [c \in Chans |-> <<>>] \in [Chans -> Seq(Batch)]
    BY DEF Batch
  <2>2. [w \in Chans |-> [pc |-> "gone", file |-> 0]] \in [Chans -> WorkerRec]
    BY DEF WorkerRec
  <2>3. /\ notify' = FALSE /\ cancel' = FALSE /\ gor' = Idle /\ launcher' = "gone" /\ names' = {}
        /\ jobs' = <<>> /\ worker' = [w \in Chans |-> [pc |-> "gone", file |-> 0]]
        /\ lock' = 0 /\ task' = "none" /\ slot' = 1 /\ todo' = {} /\ block' = {} /\ left' = left
        /\ filling' = [c \in Chans |-> Nil] /\ pending' = [c \in Chans |-> <<>>]
        /\ free' = [c \in Chans |-> Batches] /\ ResetCounts
    BY <1>13 DEF Crash
  <2>4. lock' \in 0..Workers /\ free' \in [Chans -> Nat] /\ jobs' \in Seq(FileIDs)
    BY <1>12, <2>3, CompactionAssumption
  <2>5. /\ skip' \in [Chans -> BOOLEAN] /\ readErr' \in BOOLEAN /\ writeErr' \in BOOLEAN
        /\ missed' \subseteq EntryRec
    BY <2>3 DEF ResetCounts
  <2>6. left' \in BOOLEAN
    BY <1>p, <2>3 DEF TaskTypes
  <2> HIDE DEF Idle
  <2>7. /\ gor' \in [Chans -> [Slots -> GoroutineRec]] /\ worker' \in [Chans -> WorkerRec]
        /\ filling' \in [Chans -> Batch] /\ pending' \in [Chans -> Seq(Batch)]
    BY <1>11, <2>1, <2>2, <2>3
  <2>8. /\ launcher' = "gone" /\ notify' \in BOOLEAN /\ cancel' \in BOOLEAN /\ names' \subseteq FileIDs
        /\ slot' = 1 /\ task' = "none" /\ todo' \subseteq Nat /\ block' \subseteq todo'
    BY <2>3, Zenon
  <2> QED BY <2>4, <2>5, <2>6, <2>7, <2>8 DEF TaskTypes
<1>14. CASE Startup
  <2>1. [c \in Chans |-> Nil] \in [Chans -> Batch] /\ [c \in Chans |-> <<>>] \in [Chans -> Seq(Batch)]
    BY DEF Batch
  <2> QED BY <1>11, <1>12, <1>14, <2>1, CompactionAssumption DEF Startup, TaskTypes, CompactionInv, pass, counts
<1>15. CASE RecoverFile \/ (\E c \in Chans : RecoverEntry(c)) \/ RecoveryEnd
  BY <1>15, <1>p, TaskTypesStable DEF RecoverFile, RecoverEntry, RecoveryEnd, RecoveryFrame,
     taskState,
     pass, batchVars, counts
<1>16. CASE CompactionStartup
  BY <1>16 DEF CompactionStartup, RecoveryFrame, TaskTypes, CompactionInv, batchVars, counts
<1> QED
  BY <1>1, <1>2, <1>3, <1>4, <1>5, <1>6, <1>7, <1>8, <1>9, <1>10, <1>13, <1>14, <1>15, <1>16, Steps

(***************************************************************************)
(* Files and locations                                                     *)
(***************************************************************************)
\* The steps of compaction that leave the store alone.
Quiet == Alive /\ UNCHANGED <<store, running, replay, queue>>

LEMMA QuietSteps ==
  ASSUME PassStep \/ ReaderStep \/ EndStep \/ \E c \in Chans, s \in Slots : EntryStep(c, s)
  PROVE  Quiet
BY PassStepFrame, ReaderStepFrame, EndStepFrame, EntryStepFrame DEF Quiet, life, TaskFrame

\* What every use of the invariant needs.
LEMMA InvParts ==
  ASSUME CompactionInv
  PROVE  /\ StoreTypes /\ TaskTypes /\ FilesOK /\ LocationsOK /\ EntriesOK
         /\ mem \in Seq(ValueRec) /\ data \in [FileIDs -> Seq(ValueRec)]
         /\ lm \in [Keys -> [ts : Nat, id : 0..(MaxFiles + 1), off : Nat]]
BY DEF CompactionInv, StoreTypes, Location

\* The writes of clients and of rewrites.
WriteStep(k, t, v) ==
  /\ Written(k, t, v) /\ k \in Keys /\ t \in Nat /\ t > 0 /\ v \in Nat
  /\ ~HasBit(t, TSB_COMPACTION_REWRITE)
  /\ Alive /\ UNCHANGED <<data, toc, values, tocs, open, broken, atRisk, running, replay, queue>>

LEMMA ClientWriteStep ==
  ASSUME CompactionInv, NEW w \in Writes, ClientWrite(w)
  PROVE  /\ WriteStep(w.key, w.ts, w.ts) \/ UNCHANGED <<mem, lm, older>>
         /\ w.key \in Keys /\ w.ts \in Nat /\ Alive /\ lm'[w.key].ts >= w.ts
         /\ running = "up" /\ flushed' = IF Removal(w.ts) THEN [flushed EXCEPT ![w.key] = 0] ELSE flushed
         /\ UNCHANGED <<data, toc, values, tocs, open, broken, atRisk, lost, life, pass, batchVars,
                        counts>>
<1>1. StoreTypes /\ lm \in [Keys -> [ts : Nat, id : 0..(MaxFiles + 1), off : Nat]]
  BY InvParts
<1>2. /\ w.key \in Keys /\ w.ts \in Nat \ {0} /\ ~HasBit(w.ts, TSB_COMPACTION_REWRITE)
      /\ \/ UNCHANGED <<mem, lm, older>> /\ lm[w.key].ts >= w.ts
         \/ Written(w.key, w.ts, w.ts)
      /\ running = "up" /\ Alive
      /\ flushed' = IF Removal(w.ts) THEN [flushed EXCEPT ![w.key] = 0] ELSE flushed
      /\ UNCHANGED <<data, toc, values, tocs, open, broken, atRisk, lost, life, pass,
                     batchVars, counts>>
  BY <1>1, ClientWriteEffect
<1>3. lm'[w.key].ts >= w.ts
  BY <1>1, <1>2 DEF Written
<1> QED BY <1>2, <1>3 DEF WriteStep, life

LEMMA RewriteStep ==
  ASSUME CompactionInv, NEW c \in Chans, NEW s \in Slots, Rewrite(c, s)
  PROVE  LET g == gor[c][s]
             e == Head(g.batch)
         IN  /\ WriteStep(e.key, e.ts, g.val) \/ UNCHANGED <<mem, lm, older>>
             /\ e.key \in Keys /\ e.ts \in Nat /\ g.pc = "write" /\ Alive
             /\ IsEntry(e) /\ ~Removal(e.ts)
             /\ UNCHANGED <<data, toc, values, tocs, open, broken, flushed, atRisk, running, replay,
                            queue>>
<1> DEFINE g == gor[c][s]
           e == Head(g.batch)
<1>1. /\ g.pc = "write" /\ Alive /\ g \in GoroutineRec
      /\ e \in EntryRec /\ IsEntry(e) /\ e.ts > 0 /\ ~Removal(e.ts)
      /\ ~HasBit(e.ts, TSB_COMPACTION_REWRITE)
      /\ UNCHANGED <<mem, lm, older>> \/ Written(e.key, e.ts, g.val)
      /\ UNCHANGED <<data, toc, values, tocs, open, broken, flushed, atRisk, running, replay,
                     queue>>
  BY InvParts, RewriteEffect, Zenon
<1> HIDE DEF g, e
<1>2. e.key \in Keys /\ e.ts \in Nat /\ g.val \in Nat
  BY <1>1 DEF EntryRec, GoroutineRec
<1>3. WriteStep(e.key, e.ts, g.val) \/ UNCHANGED <<mem, lm, older>>
  BY <1>1, <1>2 DEF WriteStep
<1> QED BY <1>1, <1>2, <1>3 DEF g, e

\* What a write leaves in memory.
LEMMA WrittenMem ==
  ASSUME CompactionInv, NEW k \in Keys, NEW t \in Nat, NEW v \in Nat, Written(k, t, v)
  PROVE  /\ DOMAIN mem' = 1..(Len(mem) + 1) /\ DOMAIN mem = 1..Len(mem) /\ Len(mem) \in Nat
         /\ \A i \in 1..Len(mem) : mem'[i] = mem[i]
         /\ mem'[Len(mem) + 1] = [key |-> k, ts |-> t, val |-> v]
         /\ \A j \in Keys \ {k} : lm'[j] = lm[j]
         /\ lm'[k] = [ts |-> t, id |-> MEM, off |-> Len(mem) + 1]
         /\ lm[k].ts \in Nat /\ lm[k].ts <= t
<1>1. mem \in Seq(ValueRec) /\ lm \in [Keys -> [ts : Nat, id : 0..(MaxFiles + 1), off : Nat]]
  BY InvParts
<1>2. mem' = Append(mem, [key |-> k, ts |-> t, val |-> v])
  BY DEF Written
<1> QED BY <1>1, <1>2 DEF Written

LEMMA WriteFiles ==
  ASSUME CompactionInv, NEW k, NEW t, NEW v, WriteStep(k, t, v)
  PROVE  FilesOK' /\ LocationsOK'
<1>1. /\ k \in Keys /\ t \in Nat /\ t > 0 /\ v \in Nat /\ ~HasBit(t, TSB_COMPACTION_REWRITE)
      /\ Alive' /\ UNCHANGED <<data, toc, tocs>> /\ Written(k, t, v)
  BY DEF WriteStep, Alive
<1>2. /\ DOMAIN mem' = 1..(Len(mem) + 1) /\ DOMAIN mem = 1..Len(mem) /\ Len(mem) \in Nat
      /\ \A i \in 1..Len(mem) : mem'[i] = mem[i]
      /\ mem'[Len(mem) + 1] = [key |-> k, ts |-> t, val |-> v]
      /\ \A j \in Keys \ {k} : lm'[j] = lm[j]
      /\ lm'[k] = [ts |-> t, id |-> MEM, off |-> Len(mem) + 1]
      /\ lm[k].ts \in Nat /\ lm[k].ts <= t
  BY <1>1, WrittenMem
<1>3. FilesOK /\ LocationsOK
  BY InvParts
<1>4. FilesOK'
  <2>1. Stamped(mem)'
    BY <1>1, <1>2, <1>3 DEF FilesOK, Stamped
  <2> QED BY <1>1, <1>3, <2>1 DEF FilesOK, Stamped
<1>5. ASSUME NEW j \in Keys PROVE LocationOK(j)'
  <2>1. CASE j = k
    BY <1>2, <2>1 DEF LocationOK
  <2>2. CASE j # k
    <3>1. LocationOK(j) /\ lm'[j] = lm[j]
      BY <1>2, <1>3, <2>2 DEF LocationsOK
    <3>2. lm[j].off \in DOMAIN mem => lm[j].off \in DOMAIN mem' /\ mem'[lm[j].off] = mem[lm[j].off]
      BY <1>2
    <3> QED BY <1>1, <3>1, <3>2 DEF LocationOK
  <2> QED BY <2>1, <2>2
<1>6. ASSUME NEW i \in DOMAIN mem'
      PROVE  LET l == lm'[mem'[i].key] IN l.id = MEM /\ mem'[i].ts <= l.ts /\ i <= l.off
  <2>1. CASE i = Len(mem) + 1
    BY <1>1, <1>2, <2>1
  <2>2. CASE i # Len(mem) + 1
    <3>1. i \in 1..Len(mem) /\ mem'[i] = mem[i] /\ mem[i] \in ValueRec
      BY <1>2, <2>2, InvParts
    <3>2. mem[i].key \in Keys /\ mem[i].ts \in Nat
      BY <3>1 DEF ValueRec
    <3>3. lm[mem[i].key].id = MEM /\ mem[i].ts <= lm[mem[i].key].ts /\ i <= lm[mem[i].key].off
      BY <1>2, <1>3, <3>1 DEF LocationsOK
    <3>4. CASE mem[i].key = k
      BY <1>1, <1>2, <3>1, <3>2, <3>3, <3>4
    <3>5. CASE mem[i].key # k
      BY <1>2, <3>1, <3>2, <3>3, <3>5
    <3> QED BY <3>4, <3>5
  <2> QED BY <2>1, <2>2
<1> QED BY <1>4, <1>5, <1>6 DEF LocationsOK

\* What a page leaves.
LEMMA PagedFacts ==
  ASSUME CompactionInv, NEW f \in FileIDs, Paged(f)
  PROVE  /\ data[f] = <<>> /\ f \notin tocs /\ toc[f] = {} /\ mem' = <<>>
         /\ data'[f] = mem /\ \A g \in FileIDs \ {f} : data'[g] = data[g] /\ toc'[g] = toc[g]
         /\ toc'[f] = {i \in DOMAIN mem : ~Removal(mem[i].ts) /\ mem[i].ts = lm[mem[i].key].ts}
         /\ values' = values \cup {f} /\ tocs' = tocs \cup {f}
         /\ \A k \in Keys : /\ lm[k].id # MEM => lm'[k] = lm[k] /\ lm[k].id # f
                            /\ lm[k].id = MEM /\ Removal(lm[k].ts) => lm'[k] = Missing
                            /\ lm[k].id = MEM /\ ~Removal(lm[k].ts) =>
                                 /\ lm'[k] = [ts |-> lm[k].ts, id |-> f, off |-> lm[k].off]
                                 /\ lm[k].off \in toc'[f] /\ data'[f][lm[k].off].key = k
                                 /\ data'[f][lm[k].off].ts = lm[k].ts
<1>1. mem \in Seq(ValueRec) /\ lm \in [Keys -> [ts : Nat, id : 0..(MaxFiles + 1), off : Nat]]
      /\ data \in [FileIDs -> Seq(ValueRec)] /\ toc \in [FileIDs -> SUBSET Nat]
  BY InvParts DEF StoreTypes
<1>2. /\ data[f] = <<>> /\ f \notin tocs /\ toc[f] = {} /\ mem' = <<>>
      /\ data'[f] = mem /\ \A g \in FileIDs \ {f} : data'[g] = data[g] /\ toc'[g] = toc[g]
      /\ toc'[f] = {i \in DOMAIN mem : ~Removal(mem[i].ts) /\ mem[i].ts = lm[mem[i].key].ts}
      /\ values' = values \cup {f} /\ tocs' = tocs \cup {f}
  BY <1>1 DEF Paged
<1>3. ASSUME NEW k \in Keys
      PROVE  /\ lm[k].id # MEM => lm'[k] = lm[k]
             /\ lm[k].id = MEM /\ Removal(lm[k].ts) => lm'[k] = Missing
             /\ lm[k].id = MEM /\ ~Removal(lm[k].ts) =>
                     lm'[k] = [ts |-> lm[k].ts, id |-> f, off |-> lm[k].off]
  BY DEF Paged
<1>4. ASSUME NEW k \in Keys, lm[k].id # MEM PROVE lm[k].id # f
  <2> SUFFICES ASSUME lm[k].id = f PROVE FALSE OBVIOUS
  <2>1. f # 0
    BY DEF FileIDs
  <2> QED BY <1>2, <1>4, <2>1, LocationValue
<1>5. ASSUME NEW k \in Keys, lm[k].id = MEM, ~Removal(lm[k].ts)
      PROVE  /\ lm[k].off \in toc'[f] /\ data'[f][lm[k].off].key = k
             /\ data'[f][lm[k].off].ts = lm[k].ts
  <2>1. /\ lm[k].off \in DOMAIN mem /\ Value(lm[k]).key = k /\ Value(lm[k]).ts = lm[k].ts
    BY <1>5, LocationValue DEF MEM
  <2>2. mem[lm[k].off].key = k /\ mem[lm[k].off].ts = lm[k].ts
    BY <1>5, <2>1 DEF Value
  <2> QED BY <1>2, <1>5, <2>1, <2>2
<1> QED BY <1>2, <1>3, <1>4, <1>5

LEMMA PageFiles ==
  ASSUME CompactionInv, NEW f \in FileIDs, Paged(f), mem # <<>>
  PROVE  FilesOK' /\ LocationsOK'
<1>1. FilesOK /\ LocationsOK
  BY InvParts
<1>2. FilesOK'
  <2>1. ASSUME NEW g \in FileIDs
        PROVE  /\ Stamped(data'[g]) /\ toc'[g] \subseteq DOMAIN data'[g]
               /\ \A i \in toc'[g] : ~Removal(data'[g][i].ts)
    <3>1. CASE g = f
      BY <1>1, <3>1, PagedFacts DEF FilesOK
    <3>2. CASE g # f
      BY <1>1, <3>2, PagedFacts DEF FilesOK
    <3> QED BY <3>1, <3>2
  <2>2. \A g \in tocs' : data'[g] # <<>>
    <3>1. tocs \subseteq FileIDs
      BY InvParts DEF StoreTypes
    <3> QED BY <1>1, <3>1, PagedFacts DEF FilesOK
  <2>3. mem' = <<>>
    BY PagedFacts
  <2> QED BY <2>1, <2>2, <2>3 DEF FilesOK, Stamped
<1>3. ASSUME NEW k \in Keys PROVE LocationOK(k)'
  <2>1. CASE lm[k].id # MEM
    <3>1. LocationOK(k) /\ lm'[k] = lm[k] /\ lm[k].id # f
      BY <1>1, <2>1, PagedFacts, ZenonT(60) DEF LocationsOK
    <3>2. lm[k].id \in FileIDs => data'[lm[k].id] = data[lm[k].id] /\ toc'[lm[k].id] = toc[lm[k].id]
      BY <3>1, PagedFacts
    <3> QED BY <2>1, <3>1, <3>2 DEF LocationOK
  <2>2. CASE lm[k].id = MEM /\ Removal(lm[k].ts)
    BY <2>2, PagedFacts DEF LocationOK
  <2>3. CASE lm[k].id = MEM /\ ~Removal(lm[k].ts)
    <3>1. /\ lm'[k] = [ts |-> lm[k].ts, id |-> f, off |-> lm[k].off]
          /\ lm[k].off \in toc'[f] /\ data'[f][lm[k].off].key = k
          /\ data'[f][lm[k].off].ts = lm[k].ts
      BY <2>3, PagedFacts
    <3>2. lm'[k].id = f /\ lm'[k].off = lm[k].off /\ lm'[k].ts = lm[k].ts
      BY <3>1
    <3> QED BY <3>1, <3>2 DEF LocationOK
  <2> QED BY <2>1, <2>2, <2>3
<1>4. mem' = <<>>
  BY PagedFacts
<1> QED BY <1>2, <1>3, <1>4 DEF LocationsOK

LEMMA FilesStep ==
  ASSUME CompactionInv, Next PROVE FilesOK' /\ LocationsOK'
<1>0. FilesOK /\ LocationsOK /\ StoreTypes
  BY InvParts
<1>1. ASSUME UNCHANGED <<mem, data, toc, lm>>, tocs' \subseteq tocs, mem = <<>> \/ Alive'
      PROVE  FilesOK' /\ LocationsOK'
  <2>1. FilesOK'
    BY <1>0, <1>1 DEF FilesOK, Stamped
  <2>2. LocationsOK'
    BY <1>0, <1>1 DEF LocationsOK, LocationOK
  <2> QED BY <2>1, <2>2
<1>2. ASSUME NEW w \in Writes, ClientWrite(w) PROVE FilesOK' /\ LocationsOK'
  BY <1>1, <1>2, ClientWriteStep, WriteFiles DEF life, Alive
<1>3. CASE PageOut \/ Flush
  <2>1. \/ \E f \in FileIDs : Paged(f) /\ mem # <<>>
        \/ UNCHANGED <<data, toc, values, tocs, lm, mem>> /\ mem = <<>>
    BY <1>3, <1>0, PageEffect
  <2> QED BY <1>1, <2>1, PageFiles
<1>4. CASE PassStep \/ ReaderStep \/ EndStep \/ \E c \in Chans, s \in Slots : EntryStep(c, s)
  BY <1>1, <1>4, QuietSteps DEF Quiet, store, Alive
<1>5. CASE Alive /\ RemoveTOC
  <2>1. /\ UNCHANGED <<mem, data, toc, lm, running>>
        /\ tocs' \subseteq tocs
    BY <1>5 DEF RemoveTOC
  <2> QED BY <1>1, <1>5, <2>1 DEF Alive
<1>6. CASE Alive /\ RemoveValues
  BY <1>1, <1>6 DEF RemoveValues, life, Alive
<1>7. ASSUME NEW c \in Chans, NEW s \in Slots, Rewrite(c, s) PROVE FilesOK' /\ LocationsOK'
  <2>1. /\ \/ \E k, t, v : WriteStep(k, t, v)
           \/ UNCHANGED <<mem, lm, older>>
        /\ Alive /\ UNCHANGED <<data, toc, tocs, running>>
    BY <1>7, RewriteStep, Zenon
  <2> QED BY <1>1, <2>1, WriteFiles DEF Alive
<1>8. CASE ShutdownStep
  <2>1. UNCHANGED <<mem, data, toc, lm, tocs>>
    BY <1>8, ShutdownStepFrame DEF store
  <2>2. mem = <<>> \/ Alive'
    BY <1>0, <1>8 DEF ShutdownStep, Shutdown, ShutdownReturns, RewriteAfterShutdown, FilesOK, Alive
  <2> QED BY <1>1, <2>1, <2>2
<1>9. CASE Crash
  <2>1. /\ mem' = <<>> /\ lm' = [k \in Keys |-> Missing] /\ UNCHANGED <<data, tocs>>
        /\ \A f \in FileIDs : toc'[f] \subseteq toc[f]
    BY <1>9 DEF Crash
  <2>2. FilesOK'
    BY <1>0, <2>1 DEF FilesOK, Stamped
  <2>3. LocationsOK'
    BY <2>1 DEF LocationsOK, LocationOK
  <2> QED BY <2>2, <2>3
<1>10. CASE Startup
  <2>1. mem = <<>>
    BY <1>0, <1>10 DEF Startup, FilesOK, Alive
  <2>2. UNCHANGED <<mem, data, toc, tocs>> /\ lm' = [k \in Keys |-> Missing]
    BY <1>10 DEF Startup
  <2>3. FilesOK'
    BY <1>0, <2>1, <2>2 DEF FilesOK, Stamped
  <2>4. LocationsOK'
    BY <2>1, <2>2 DEF LocationsOK, LocationOK
  <2> QED BY <2>3, <2>4
<1>11. CASE RecoverFile \/ RecoveryEnd \/ CompactionStartup
  <2>1. mem = <<>> /\ UNCHANGED <<mem, data, toc, lm, tocs>>
    BY <1>0, <1>11 DEF RecoverFile, RecoveryEnd, CompactionStartup, RecoveryFrame, FilesOK, Alive
  <2> QED BY <1>1, <2>1
<1>12. ASSUME NEW c \in Chans, RecoverEntry(c) PROVE FilesOK' /\ LocationsOK'
  <2>1. mem = <<>> /\ UNCHANGED <<mem, data, toc, tocs>>
    BY <1>0, <1>12 DEF RecoverEntry, RecoveryFrame, FilesOK, Alive
  <2>2. FilesOK'
    BY <1>0, <2>1 DEF FilesOK, Stamped
  <2>3. PICK e \in queue[c] : Recovered(c, e)
    BY <1>12, RecoverEntryEffect
  <2>4. PICK v : v = data[e.id][e.off]
    OBVIOUS
  <2>5. /\ e.id \in FileIDs /\ e.off \in toc[e.id]
        /\ \/ lm' = lm
           \/ lm' = [lm EXCEPT ![v.key] = [ts |-> v.ts, id |-> e.id, off |-> e.off]]
    BY <2>3, <2>4, Zenon DEF Recovered
  <2>6. ASSUME NEW k \in Keys PROVE LocationOK(k)'
    <3>1. LocationOK(k)
      BY <1>0 DEF LocationsOK
    <3>2. CASE lm'[k] = lm[k]
      BY <2>1, <3>1, <3>2 DEF LocationOK
    <3>3. CASE lm'[k] # lm[k]
      <4>1. k = v.key /\ lm'[k] = [ts |-> v.ts, id |-> e.id, off |-> e.off]
        BY <2>5, <3>3, InvParts
      <4>2. lm'[k].id = e.id /\ lm'[k].ts = v.ts /\ lm'[k].off = e.off
        BY <4>1
      <4> QED BY <2>1, <2>4, <2>5, <4>1, <4>2 DEF LocationOK
    <3> QED BY <3>2, <3>3
  <2> QED BY <2>1, <2>2, <2>6 DEF LocationsOK
<1> QED
  BY <1>2, <1>3, <1>4, <1>5, <1>6, <1>7, <1>8, <1>9, <1>10, <1>11, <1>12, Steps

(***************************************************************************)
(* Jobs, workers and the slots of their goroutines                         *)
(***************************************************************************)
LEMMA WorkersStable ==
  ASSUME CompactionInv, UNCHANGED <<launcher, cancel, names, jobs, worker, lock, task>>,
         \A f \in FileIDs : data[f] # <<>> => data'[f] # <<>>, tocs \subseteq tocs',
         running' \in {"down", "recovering", "recovered"} => launcher = "gone"
  PROVE  WorkersOK' /\ JobsOK'
<1>1. WorkersOK /\ JobsOK
  BY DEF CompactionInv
<1>2. WorkersOK'
  BY <1>1 DEF WorkersOK, Active, WorkersGone
<1>3. JobsOK'
  BY <1>1 DEF JobsOK, Active
<1> QED BY <1>2, <1>3

\* A worker that is through with its file, or that goes on with it.
LEMMA WorkerThrough ==
  ASSUME CompactionInv, NEW w \in Chans, NEW r \in WorkerRec, Active(w), lock \in {0, w},
         worker' = [worker EXCEPT ![w] = r],
         r.pc = "next" \/ (r.pc = "compact" /\ r.file = worker[w].file /\ task # "removing"),
         lock' = 0, task' = "none",
         UNCHANGED <<launcher, cancel, names, jobs, running, data, tocs>>
  PROVE  WorkersOK' /\ JobsOK'
<1>1. WorkersOK /\ JobsOK /\ worker \in [Chans -> WorkerRec]
  BY DEF CompactionInv, TaskTypes
<1>2. worker'[w] = r /\ \A v \in Chans \ {w} : worker'[v] = worker[v]
  BY <1>1
<1>3. launcher \notin {"gone", "wait"}
  BY <1>1 DEF WorkersOK, WorkersGone, Active
<1>4. \A v \in Chans : Active(v)' => Active(v) /\ worker'[v].file = worker[v].file
  <2> SUFFICES ASSUME NEW v \in Chans, Active(v)' PROVE Active(v) /\ worker'[v].file = worker[v].file
    OBVIOUS
  <2>1. CASE v = w
    BY <1>2, <2>1 DEF Active
  <2>2. CASE v # w
    BY <1>2, <2>2 DEF Active
  <2> QED BY <2>1, <2>2
<1>5. WorkersOK'
  BY <1>1, <1>3, <1>4 DEF WorkersOK
<1>6. ASSUME NEW v \in Chans, Active(v)' PROVE worker'[v].file \in tocs
  <2>1. CASE v = w
    <3>1. r.pc = "compact" /\ task # "removing"
      BY <1>2, <1>6, <2>1 DEF Active
    <3> QED BY <1>1, <1>4, <1>6, <3>1 DEF JobsOK
  <2>2. CASE v # w
    <3>1. v # lock
      <4>1. v # 0
        BY DEF Chans
      <4> QED BY <2>2, <4>1
    <3> QED BY <1>1, <1>4, <1>6, <3>1 DEF JobsOK
  <2> QED BY <2>1, <2>2
<1>7. ASSUME NEW v \in Chans, Active(v)', NEW u \in Chans \ {v}, Active(u)'
      PROVE  worker'[u].file # worker'[v].file
  BY <1>1, <1>4, <1>7 DEF JobsOK
<1>8. JobsOK'
  BY <1>1, <1>4, <1>6, <1>7 DEF JobsOK
<1> QED BY <1>5, <1>8

LEMMA PassQueueWorkers ==
  ASSUME CompactionInv, PassQueue PROVE WorkersOK' /\ JobsOK'
<1>1. /\ UNCHANGED <<launcher, cancel, worker, lock, task, running, data, tocs>>
      /\ launcher = "queue"
  BY DEF PassQueue, PassFrame, batchVars, store, life
<1>2. PICK f \in names, old \in BOOLEAN :
        /\ jobs' = IF Candidate(f, old) THEN Append(jobs, f) ELSE jobs
        /\ names' = IF old THEN names \ {f} ELSE {}
  BY DEF PassQueue, Oldest
<1>3. WorkersOK /\ JobsOK /\ jobs \in Seq(FileIDs) /\ names \subseteq FileIDs
  BY DEF CompactionInv, TaskTypes
<1>4. WorkersOK'
  BY <1>1, <1>3 DEF WorkersOK, Active, WorkersGone
<1>5. names' \subseteq names \ {f}
  BY <1>2 DEF Candidate
<1>6. jobs' = jobs \/ jobs' = Append(jobs, f)
  BY <1>2
<1>7. \A i \in DOMAIN jobs' : \/ i \in DOMAIN jobs /\ jobs'[i] = jobs[i]
                              \/ i = Len(jobs) + 1 /\ i \notin DOMAIN jobs /\ jobs'[i] = f
  BY <1>3, <1>6
<1>8. \A i \in DOMAIN jobs' : jobs'[i] \notin names'
  BY <1>3, <1>5, <1>7 DEF JobsOK
<1>9. ASSUME NEW i \in DOMAIN jobs', NEW j \in DOMAIN jobs', i # j PROVE jobs'[i] # jobs'[j]
  BY <1>2, <1>3, <1>7, <1>9 DEF JobsOK
<1>10. ASSUME NEW w \in Chans, Active(w)'
       PROVE  /\ worker'[w].file \notin names' /\ \A i \in DOMAIN jobs' : jobs'[i] # worker'[w].file
              /\ \A v \in Chans \ {w} : Active(v)' => worker'[v].file # worker'[w].file
              /\ worker'[w].file \in tocs' \/ (w = lock' /\ task' = "removing")
  <2>1. Active(w) /\ \A v \in Chans : Active(v)' = Active(v)
    BY <1>1, <1>10 DEF Active
  <2>2. worker[w].file \notin names /\ \A i \in DOMAIN jobs : jobs[i] # worker[w].file
    BY <1>3, <2>1 DEF JobsOK
  <2>3. /\ \A v \in Chans \ {w} : Active(v)' => worker[v].file # worker[w].file
        /\ worker[w].file \in tocs \/ (w = lock /\ task = "removing")
    BY <1>3, <2>1 DEF JobsOK
  <2> QED BY <1>1, <1>2, <1>5, <1>7, <2>2, <2>3
<1> QED BY <1>4, <1>8, <1>9, <1>10 DEF JobsOK

LEMMA CompactionWorkerWorkers ==
  ASSUME CompactionInv, NEW w \in Chans, CompactionWorker(w) PROVE WorkersOK' /\ JobsOK'
<1>1. UNCHANGED <<launcher, cancel, names, lock, task, running, data, tocs, jobsClosed>>
  BY DEF CompactionWorker, PassFrame, batchVars, store, life
<1>2. /\ WorkersOK /\ JobsOK /\ FilesOK /\ jobs \in Seq(FileIDs) /\ names \subseteq FileIDs
      /\ worker \in [Chans -> WorkerRec]
  BY DEF CompactionInv, TaskTypes
<1>3. worker[w].pc = "next"
  BY DEF CompactionWorker
<1>4. launcher \notin {"gone", "wait"} /\ lock # w /\ ~Active(w)
  BY <1>2, <1>3, CompactionAssumption DEF WorkersOK, WorkersGone, Active, Chans
<1>5. CASE jobs # <<>>
  <2>1. PICK f : f = Head(jobs)
    OBVIOUS
  <2>2. /\ jobs' = Tail(jobs) /\ f \in FileIDs /\ 1 \in DOMAIN jobs /\ jobs[1] = f
        /\ \A i \in DOMAIN jobs' : i + 1 \in DOMAIN jobs /\ jobs'[i] = jobs[i + 1] /\ i + 1 # 1 /\ i \in Nat
    <3>1. jobs' = Tail(jobs)
      BY <1>5 DEF CompactionWorker
    <3> QED BY <1>2, <1>5, <2>1, <3>1
  <2>3. PICK r : r = [pc |-> IF Cardinality(toc[f]) < SmallTotal THEN "compact" ELSE "sample", file |-> f]
    OBVIOUS
  <2>4. r.file = f
    BY <2>3
  <2>5. worker' = worker \/ (f \in tocs /\ worker' = [worker EXCEPT ![w] = r])
    BY <1>5, <2>1, <2>3 DEF CompactionWorker
  <2>6. \A v \in Chans : Active(v)' => \/ Active(v) /\ worker'[v] = worker[v]
                                       \/ v = w /\ f \in tocs /\ worker'[v] = r
    BY <1>2, <2>5 DEF Active
  <2>7. \A v \in Chans \ {w} : worker'[v] = worker[v]
    BY <1>2, <2>5
  <2>8. data[f] # <<>> \/ f \notin tocs
    BY <1>2 DEF FilesOK
  <2>9. WorkersOK'
    <3>1. lock' # 0 => Active(lock)'
      <4>1. lock # 0 => lock \in Chans
        BY CompactionAssumption DEF CompactionInv, TaskTypes, Chans
      <4> QED BY <1>1, <1>2, <1>4, <2>7, <4>1 DEF WorkersOK, Active
    <3> QED BY <1>1, <1>2, <1>4, <2>2, <2>4, <2>6, <2>8, <3>1 DEF WorkersOK
  <2>10. \A i \in DOMAIN jobs' : jobs'[i] # f /\ jobs'[i] \notin names'
    BY <1>1, <1>2, <2>2 DEF JobsOK
  <2>11. \A i, j \in DOMAIN jobs' : i # j => jobs'[i] # jobs'[j]
    <3> SUFFICES ASSUME NEW i \in DOMAIN jobs', NEW j \in DOMAIN jobs', i # j PROVE jobs'[i] # jobs'[j]
      OBVIOUS
    <3>1. i + 1 # j + 1
      BY <2>2
    <3> QED BY <1>2, <2>2, <3>1 DEF JobsOK
  <2>12. f \notin names
    BY <1>2, <2>2 DEF JobsOK
  <2>13. ASSUME NEW v \in Chans, Active(v)'
         PROVE  /\ worker'[v].file \notin names' /\ \A i \in DOMAIN jobs' : jobs'[i] # worker'[v].file
                /\ \A u \in Chans \ {v} : Active(u)' => worker'[u].file # worker'[v].file
                /\ worker'[v].file \in tocs' \/ (v = lock' /\ task' = "removing")
    <3>1. CASE Active(v) /\ worker'[v] = worker[v]
      <4>1. /\ worker[v].file \notin names /\ \A i \in DOMAIN jobs : jobs[i] # worker[v].file
            /\ \A u \in Chans \ {v} : Active(u) => worker[u].file # worker[v].file
            /\ worker[v].file \in tocs \/ (v = lock /\ task = "removing")
        BY <1>2, <3>1 DEF JobsOK
      <4>2. f # worker[v].file
        BY <2>2, <4>1
      <4>3. \A i \in DOMAIN jobs' : jobs'[i] # worker[v].file
        BY <2>2, <4>1
      <4>4. \A u \in Chans \ {v} : Active(u)' => worker'[u].file # worker'[v].file
        BY <2>4, <2>6, <3>1, <4>1, <4>2
      <4> QED BY <1>1, <3>1, <4>1, <4>3, <4>4
    <3>2. CASE v = w /\ f \in tocs /\ worker'[v] = r
      <4>1. \A u \in Chans \ {v} : Active(u)' => worker'[u].file # f
        <5> SUFFICES ASSUME NEW u \in Chans \ {v}, Active(u)' PROVE worker'[u].file # f
          OBVIOUS
        <5>1. Active(u) /\ worker'[u] = worker[u]
          BY <2>6, <3>2
        <5> QED BY <1>2, <2>2, <5>1 DEF JobsOK
      <4> QED BY <1>1, <2>4, <2>10, <2>12, <3>2, <4>1
    <3> QED BY <2>6, <2>13, <3>1, <3>2
  <2> QED BY <2>9, <2>10, <2>11, <2>13 DEF JobsOK
<1>6. CASE jobs = <<>>
  <2>1. worker' = [worker EXCEPT ![w].pc = "gone"] /\ jobs' = jobs
    BY <1>6 DEF CompactionWorker
  <2>2. \A v \in Chans \ {w} : worker'[v] = worker[v]
    BY <1>2, <2>1
  <2>3. worker'[w].pc = "gone"
    BY <1>2, <2>1 DEF WorkerRec
  <2>4. \A v \in Chans : Active(v)' => v # w /\ Active(v) /\ worker'[v] = worker[v]
    BY <2>2, <2>3 DEF Active
  <2>5. lock' # 0 => Active(lock)'
    <3>1. lock # 0 => lock \in Chans
      BY CompactionAssumption DEF CompactionInv, TaskTypes, Chans
    <3> QED BY <1>1, <1>2, <1>4, <2>2, <3>1 DEF WorkersOK, Active
  <2>6. WorkersOK'
    BY <1>1, <1>2, <1>4, <2>4, <2>5 DEF WorkersOK
  <2>7. JobsOK'
    BY <1>1, <1>2, <2>1, <2>4 DEF JobsOK
  <2> QED BY <2>6, <2>7
<1> QED BY <1>5, <1>6

LEMMA WorkersStep ==
  ASSUME CompactionInv, Next PROVE WorkersOK' /\ JobsOK'
<1>0. /\ WorkersOK /\ JobsOK /\ StoreTypes /\ FilesOK /\ LocationsOK /\ EntriesOK /\ TaskTypes
      /\ worker \in [Chans -> WorkerRec] /\ NoJob \in WorkerRec /\ NoJob.pc = "next"
  BY DEF CompactionInv, TaskTypes, NoJob, WorkerRec
<1>1. ASSUME NEW w \in Writes, ClientWrite(w) PROVE WorkersOK' /\ JobsOK'
  BY <1>0, <1>1, ClientWriteStep, WorkersStable DEF life, pass, batchVars, WorkersOK
<1>2. CASE PageOut \/ Flush
  <2>1. /\ UNCHANGED <<launcher, cancel, names, jobs, worker, lock, task, running>>
        /\ (\E f \in FileIDs : Paged(f) /\ mem # <<>>) \/ UNCHANGED <<data, tocs>>
    BY <1>0, <1>2, PageEffect DEF life, pass, batchVars
  <2>2. (\A f \in FileIDs : data[f] # <<>> => data'[f] # <<>>) /\ tocs \subseteq tocs'
    BY <2>1, PagedFacts
  <2> QED BY <1>0, <2>1, <2>2, WorkersStable DEF WorkersOK
<1>3. CASE PassStep
  <2>0. UNCHANGED <<lock, task, running, data, tocs, replay>> /\ Alive
    BY <1>3, PassStepFrame DEF store, life, batchVars
  <2>1. CASE CompactionLauncher
    <3>1. launcher = "wait"
      BY <2>1 DEF CompactionLauncher
    <3>2. \A w \in Chans : worker[w].pc = "gone"
      BY <1>0, <3>1 DEF WorkersOK, WorkersGone
    <3>3. lock = 0
      BY <3>2, HolderFacts, <1>0 DEF WorkersOK, Active
    <3>4. CASE launcher' = "queue"
      <4>1. /\ names' = tocs /\ jobs' = <<>> /\ cancel' = FALSE
            /\ worker' = [w \in Chans |-> NoJob]
        BY <2>1, <3>4 DEF CompactionLauncher
      <4>2. \A w \in Chans : ~Active(w)'
        BY <1>0, <4>1 DEF Active
      <4>3. WorkersOK'
        BY <1>0, <2>0, <3>3, <3>4, <4>1, <4>2 DEF WorkersOK, Alive
      <4>4. JobsOK'
        BY <4>1, <4>2 DEF JobsOK
      <4> QED BY <4>3, <4>4
    <3>5. CASE launcher' = "gone"
      <4>1. UNCHANGED <<names, jobs, cancel, worker>>
        BY <2>1, <3>5 DEF CompactionLauncher
      <4>2. WorkersOK'
        BY <1>0, <2>0, <3>2, <3>5, <4>1 DEF WorkersOK, WorkersGone, Active
      <4>3. JobsOK'
        BY <1>0, <2>0, <4>1 DEF JobsOK, Active
      <4> QED BY <4>2, <4>3
    <3> QED BY <2>1, <3>4, <3>5 DEF CompactionLauncher
  <2>2. CASE PassInterrupted \/ PassQueued \/ PassWait
    <3>1. /\ UNCHANGED <<names, jobs, worker>>
          /\ launcher' \in {"gone", "wait"} => WorkersGone
          /\ launcher' \in {"queue", "workers"} => cancel' = cancel /\ launcher = "queue"
      BY <2>2 DEF PassInterrupted, PassQueued, PassWait
    <3>2. WorkersOK'
      BY <1>0, <2>0, <3>1 DEF WorkersOK, WorkersGone, Active, Alive
    <3>3. JobsOK'
      BY <1>0, <2>0, <3>1 DEF JobsOK, Active
    <3> QED BY <3>2, <3>3
  <2> QED BY <1>3, <2>1, <2>2, PassQueueWorkers, CompactionWorkerWorkers DEF PassStep
<1>4. CASE ReaderStep
  <2>0. UNCHANGED <<launcher, cancel, names, jobs, running, data, tocs>> /\ Alive
    BY <1>4, ReaderStepFrame DEF TaskFrame, store
  <2>1. ASSUME NEW w \in Chans, TaskBegin(w) PROVE WorkersOK' /\ JobsOK'
    <3>1. Active(w) /\ lock = 0 /\ (BeginFails(w) \/ Begun(w))
      BY <2>1, TaskBeginEffect
    <3>2. CASE BeginFails(w)
      <4>1. worker' = [worker EXCEPT ![w] = NoJob] /\ lock' = 0 /\ task' = "none"
        BY <1>0, <3>1, <3>2 DEF BeginFails, WorkersOK
      <4> QED BY <1>0, <2>0, <3>1, <4>1, WorkerThrough
    <3>3. CASE Begun(w)
      <4>1. lock' = w /\ task' = worker[w].pc /\ worker' = worker
        BY <3>3 DEF Begun
      <4>2. task' \notin {"none", "removing"} /\ w # 0
        BY <3>1, <4>1 DEF Active, Chans
      <4>3. WorkersOK'
        BY <1>0, <2>0, <3>1, <4>1, <4>2 DEF WorkersOK, WorkersGone, Active
      <4>4. JobsOK'
        <5>1. ASSUME NEW v \in Chans, Active(v) PROVE worker[v].file \in tocs
          <6>1. v # 0
            BY DEF Chans
          <6> QED BY <1>0, <3>1, <5>1, <6>1 DEF JobsOK
        <5> QED BY <1>0, <2>0, <4>1, <5>1 DEF JobsOK, Active
      <4> QED BY <4>3, <4>4
    <3> QED BY <3>1, <3>2, <3>3
  <2>2. CASE ReadBlock \/ ReadEntry
    <3>1. UNCHANGED <<lock, task, worker>>
      BY <2>2, ReadBlockEffect, ReadEntryEffect
    <3> QED BY <1>0, <2>0, <3>1, WorkersStable DEF WorkersOK
  <2>3. CASE ReadEnd
    <3>1. ReadCanceled \/ ReadAll
      BY <2>3, ReadEndEffect
    <3>2. CASE ReadCanceled
      <4>1. /\ task = "compact" /\ lock' = 0 /\ task' = "none"
            /\ worker' = [worker EXCEPT ![lock] = NoJob]
        BY <3>2 DEF ReadCanceled
      <4>2. lock \in Chans /\ Active(lock)
        BY <4>1, HolderFacts
      <4>3. PICK w \in Chans : w = lock
        BY <4>2
      <4> QED BY <1>0, <2>0, <4>1, <4>2, <4>3, WorkerThrough
    <3>3. CASE ReadAll
      <4>1. UNCHANGED <<lock, worker>> /\ task # "none" /\ task' # "none" /\ task # "removing"
        BY <3>3 DEF ReadAll
      <4>2. WorkersOK'
        BY <1>0, <2>0, <4>1 DEF WorkersOK, WorkersGone, Active
      <4>3. JobsOK'
        BY <1>0, <2>0, <4>1 DEF JobsOK, Active
      <4> QED BY <4>2, <4>3
    <3> QED BY <3>1, <3>2, <3>3
  <2> QED BY <1>4, <2>1, <2>2, <2>3 DEF ReaderStep
<1>5. CASE EndStep
  <2>1. UNCHANGED <<launcher, cancel, names, jobs, running, data, tocs>>
    BY <1>5, EndStepFrame DEF TaskFrame, store
  <2>2. Unlocked /\ task \in {"sampled", "rewritten"}
    BY <1>5, EndStepEffect
  <2>3. lock \in Chans /\ Active(lock)
    BY <2>2, HolderFacts
  <2>4. PICK w \in Chans : w = lock
    BY <2>3
  <2>5. PICK r \in WorkerRec : /\ worker' = [worker EXCEPT ![w] = r]
                               /\ r.pc = "next" \/ (r.pc = "compact" /\ r.file = worker[w].file)
    BY <2>2, <2>4 DEF Unlocked, File
  <2>6. lock' = 0 /\ task' = "none"
    BY <2>2 DEF Unlocked
  <2> QED BY <2>1, <2>2, <2>3, <2>4, <2>5, <2>6, WorkerThrough
<1>6. CASE Alive /\ RemoveTOC
  <2>1. /\ UNCHANGED <<launcher, cancel, names, jobs, worker, lock, running, data>>
        /\ task = "rewritten" /\ task' = "removing" /\ tocs' \in {tocs, tocs \ {File}}
    BY <1>6 DEF RemoveTOC, pass
  <2>2. lock \in Chans /\ Active(lock)
    BY <2>1, HolderFacts
  <2>3. WorkersOK'
    BY <1>0, <2>1 DEF WorkersOK, WorkersGone, Active
  <2>4. ASSUME NEW v \in Chans, Active(v)'
        PROVE  worker'[v].file \in tocs' \/ (v = lock' /\ task' = "removing")
    <3>1. CASE v = lock
      BY <2>1, <3>1
    <3>2. CASE v # lock
      <4>1. Active(v)
        BY <2>1, <2>4 DEF Active
      <4>2. worker[v].file \in tocs /\ worker[v].file # worker[lock].file
        BY <1>0, <2>1, <2>2, <3>2, <4>1 DEF JobsOK
      <4> QED BY <2>1, <4>2 DEF File
    <3> QED BY <3>1, <3>2
  <2>5. JobsOK'
    BY <1>0, <2>1, <2>4 DEF JobsOK, Active
  <2> QED BY <2>3, <2>5
<1>7. CASE Alive /\ RemoveValues
  <2>1. /\ UNCHANGED <<launcher, cancel, names, jobs, running, data, tocs>>
        /\ task = "removing" /\ lock' = 0 /\ task' = "none"
        /\ worker' = [worker EXCEPT ![lock] = NoJob]
    BY <1>7 DEF RemoveValues, Unlock, life
  <2>2. lock \in Chans /\ Active(lock)
    BY <2>1, HolderFacts
  <2>3. PICK w \in Chans : w = lock
    BY <2>2
  <2> QED BY <1>0, <2>1, <2>2, <2>3, WorkerThrough
<1>8. ASSUME NEW c \in Chans, NEW s \in Slots, EntryStep(c, s) PROVE WorkersOK' /\ JobsOK'
  BY <1>0, <1>8, EntryStepFrame, WorkersStable DEF TaskFrame, store, WorkersOK
<1>9. ASSUME NEW c \in Chans, NEW s \in Slots, Rewrite(c, s) PROVE WorkersOK' /\ JobsOK'
  <2>1. UNCHANGED <<launcher, cancel, names, jobs, worker, lock, task, running, data, tocs>>
    BY <1>9 DEF Rewrite, EntryFrame
  <2> QED BY <1>0, <2>1, WorkersStable DEF WorkersOK
<1>10. CASE ShutdownStep
  <2>1. UNCHANGED <<launcher, cancel, names, jobs, worker, lock, task, data, tocs>>
    BY <1>10, ShutdownStepFrame DEF batchVars, store
  <2>2. running' \in {"down", "recovering", "recovered"} => launcher = "gone"
    BY <1>10 DEF ShutdownStep, Shutdown, ShutdownReturns, RewriteAfterShutdown
  <2> QED BY <2>1, <2>2, WorkersStable
<1>11. CASE Crash
  <2>1. /\ launcher' = "gone" /\ names' = {} /\ jobs' = <<>> /\ cancel' = FALSE
        /\ worker' = [w \in Chans |-> [pc |-> "gone", file |-> 0]] /\ lock' = 0 /\ task' = "none"
    BY <1>11 DEF Crash
  <2>2. \A w \in Chans : worker'[w].pc = "gone"
    BY <2>1
  <2>3. WorkersOK'
    BY <2>1, <2>2 DEF WorkersOK, WorkersGone, Active
  <2>4. JobsOK'
    BY <2>1, <2>2 DEF JobsOK, Active
  <2> QED BY <2>3, <2>4
<1>12. CASE Startup
  <2>1. UNCHANGED <<launcher, cancel, names, jobs, worker, data, tocs>> /\ running = "down"
        /\ lock' = 0 /\ task' = "none"
    BY <1>12 DEF Startup, pass
  <2>2. launcher = "gone" /\ WorkersGone
    BY <1>0, <2>1 DEF WorkersOK
  <2>3. WorkersOK'
    BY <2>1, <2>2 DEF WorkersOK, WorkersGone, Active
  <2>4. JobsOK'
    BY <1>0, <2>1, <2>2 DEF JobsOK, Active, WorkersGone
  <2> QED BY <2>3, <2>4
<1>13. CASE RecoverFile \/ (\E c \in Chans : RecoverEntry(c)) \/ RecoveryEnd
  <2>1. /\ UNCHANGED <<launcher, cancel, names, jobs, worker, lock, task, data, tocs>>
        /\ running = "recovering"
    BY <1>13 DEF RecoverFile, RecoverEntry, RecoveryEnd, RecoveryFrame, pass, batchVars
  <2> QED BY <1>0, <2>1, WorkersStable DEF WorkersOK
<1>14. CASE CompactionStartup
  <2>1. /\ UNCHANGED <<cancel, names, jobs, worker, lock, task, data, tocs>>
        /\ running = "recovered" /\ running' = "up" /\ launcher' = "wait"
    BY <1>14 DEF CompactionStartup, RecoveryFrame, batchVars
  <2>2. WorkersGone /\ launcher = "gone"
    BY <1>0, <2>1 DEF WorkersOK
  <2>3. WorkersOK'
    BY <1>0, <2>1, <2>2 DEF WorkersOK, WorkersGone, Active
  <2>4. JobsOK'
    BY <1>0, <2>1, <2>2 DEF JobsOK, Active, WorkersGone
  <2> QED BY <2>3, <2>4
<1> QED
  BY <1>1, <1>2, <1>3, <1>4, <1>5, <1>6, <1>7, <1>8, <1>9, <1>10, <1>11, <1>12, <1>13, <1>14, Steps

LEMMA SlotFacts ==
  ASSUME CompactionInv PROVE slot \in Slots /\ 1 \in Slots /\ faults \in Nat /\ slot \in Nat
<1>1. /\ slot \in Nat \ {0} /\ faults \in 0..MaxFaults /\ MaxFaults \in Nat
      /\ slot <= 1 + faults \/ slot <= 2 + faults
  BY CompactionAssumption DEF CompactionInv, StoreTypes, TaskTypes, SlotsOK
<1> QED BY <1>1 DEF Slots

LEMMA GorUpdate ==
  ASSUME CompactionInv, NEW c \in Chans, NEW s \in Slots, NEW h, gor' = [gor EXCEPT ![c][s] = h]
  PROVE  /\ gor'[c][s] = h
         /\ \A d \in Chans, u \in Slots : d # c \/ u # s => gor'[d][u] = gor[d][u]
<1>1. gor \in [Chans -> [Slots -> GoroutineRec]]
  BY DEF CompactionInv, TaskTypes
<1> QED BY <1>1

\* A goroutine that is not gone does something.
LEMMA SlotsWork ==
  ASSUME CompactionInv, NEW c \in Chans, NEW s \in Slots, NEW h, gor' = [gor EXCEPT ![c][s] = h],
         gor[c][s].pc # "gone", faults' \in {faults, faults + 1},
         UNCHANGED <<slot, lock, task, cancel, launcher, running>>
  PROVE  SlotsOK'
<1>1. SlotsOK /\ slot \in Slots /\ faults \in Nat /\ slot \in Nat
  BY SlotFacts DEF CompactionInv
<1>2. \A d \in Chans, u \in Slots : d # c \/ u # s => gor'[d][u] = gor[d][u]
  BY GorUpdate
<1>3. ASSUME Finished PROVE Finished'
  BY <1>1, <1>2, <1>3 DEF Finished
<1>4. ASSUME NEW d \in Chans, NEW u \in Slots, u > slot PROVE gor'[d][u].pc = "gone"
  BY <1>1, <1>2, <1>4 DEF SlotsOK
<1> QED BY <1>1, <1>3, <1>4 DEF SlotsOK

LEMMA SlotsStable ==
  ASSUME CompactionInv, UNCHANGED <<gor, slot, lock, task>>,
         UNCHANGED <<cancel, launcher>> \/ slot <= 1 + faults,
         running' \in {running, "up", "down", "stopping", "panicked"}
         \/ running \in {"recovering", "recovered"}, faults' = faults
  PROVE  SlotsOK'
<1>1. SlotsOK
  BY DEF CompactionInv
<1> QED BY <1>1 DEF SlotsOK, Finished

LEMMA SlotsBegin ==
  ASSUME CompactionInv, NEW w \in Chans, TaskBegin(w), Alive PROVE SlotsOK'
<1>1. /\ Active(w) /\ lock = 0
      /\ gor' = IF cancel /\ worker[w].pc = "compact" /\ slot > 1 THEN gor
                ELSE Started(worker[w].pc)
      /\ BeginFails(w) \/ Begun(w)
  BY TaskBeginEffect
<1>2. UNCHANGED <<cancel, launcher, running>>
  BY TaskBeginEffect DEF TaskFrame
<1>3. SlotsOK /\ slot \in Slots /\ faults \in Nat /\ slot \in Nat
      /\ gor \in [Chans -> [Slots -> GoroutineRec]]
  BY SlotFacts DEF CompactionInv, TaskTypes
<1>4. \A c \in Chans, s \in Slots : s # slot => gor'[c][s] = gor[c][s]
  BY <1>1, <1>3 DEF Started
<1>5. Finished
  BY <1>1, <1>3 DEF SlotsOK
<1>6. CASE BeginFails(w)
  <2>1. slot' = slot + 1 /\ faults < MaxFaults /\ faults' = faults + 1 /\ UNCHANGED <<lock, task>>
    BY <1>6 DEF BeginFails
  <2>2. task = "none"
    BY <1>1 DEF CompactionInv, WorkersOK
  <2>3. \/ slot' <= 1 + faults'
        \/ slot' <= 2 + faults' /\ cancel' /\ launcher' # "wait"
    BY <1>2, <1>3, <2>1 DEF SlotsOK
  <2>4. slot' \in Slots
    <3>1. slot + 1 <= 3 + faults /\ MaxFaults \in Nat
      BY <1>3, CompactionAssumption DEF SlotsOK
    <3> QED BY <1>3, <2>1, <3>1 DEF Slots
  <2>5. Finished'
    BY <1>3, <1>4, <2>1, <2>4 DEF Finished, SlotsOK
  <2>6. ASSUME NEW c \in Chans, NEW s \in Slots, s > slot' PROVE gor'[c][s].pc = "gone"
    <3>1. s > slot /\ s # slot
      BY <1>3, <2>1, <2>6 DEF Slots
    <3> QED BY <1>3, <1>4, <3>1 DEF SlotsOK
  <2> QED BY <1>2, <2>1, <2>2, <2>3, <2>5, <2>6 DEF SlotsOK, Alive
<1>7. CASE Begun(w)
  <2>1. UNCHANGED <<slot, faults>> /\ lock' = w /\ task' = worker[w].pc
    BY <1>7 DEF Begun
  <2>2. w # 0 /\ task' \in {"sample", "compact"}
    BY <1>1, <2>1 DEF Chans, Active
  <2>3. cancel' /\ task' = "compact" /\ slot > 1 => Finished'
    BY <1>1, <1>2, <1>5, <2>1 DEF Finished
  <2>4. ASSUME NEW c \in Chans, NEW s \in Slots, s > slot' PROVE gor'[c][s].pc = "gone"
    <3>1. s # slot
      BY <1>3, <2>1, <2>4 DEF Slots
    <3> QED BY <1>3, <1>4, <2>1, <2>4, <3>1 DEF SlotsOK
  <2>5. \/ slot' <= 1 + faults'
        \/ slot' <= 2 + faults' /\ cancel' /\ launcher' # "wait" /\ slot > 1
    BY <1>2, <1>3, <2>1 DEF SlotsOK
  <2> QED BY <1>2, <2>1, <2>2, <2>3, <2>4, <2>5 DEF SlotsOK, Alive
<1> QED BY <1>1, <1>6, <1>7

LEMMA SlotsStep ==
  ASSUME CompactionInv, Next PROVE SlotsOK'
<1>0. /\ SlotsOK /\ slot \in Slots /\ 1 \in Slots /\ faults \in Nat /\ slot \in Nat
      /\ gor \in [Chans -> [Slots -> GoroutineRec]] /\ WorkersOK
      /\ StoreTypes /\ FilesOK /\ LocationsOK
  BY SlotFacts DEF CompactionInv, TaskTypes
<1>1. ASSUME NEW w \in Writes, ClientWrite(w) PROVE SlotsOK'
  BY <1>1, ClientWriteStep, SlotsStable DEF life, pass, batchVars
<1>2. CASE PageOut \/ Flush
  BY <1>0, <1>2, PageEffect, SlotsStable DEF life, pass, batchVars
<1>3. CASE PassStep
  <2>1. UNCHANGED <<gor, slot, lock, task, running, faults>>
    BY <1>3, PassStepFrame DEF batchVars, life
  <2>2. UNCHANGED <<cancel, launcher>> \/ slot <= 1 + faults \/ (cancel /\ launcher = "stop")
    <3>1. CASE launcher \in {"queue", "workers"}
      BY <1>0, <3>1 DEF SlotsOK, WorkersOK
    <3>2. CASE launcher = "wait"
      BY <1>0, <3>2 DEF SlotsOK
    <3>3. CASE launcher = "gone"
      BY <1>3, <3>3 DEF PassStep, CompactionLauncher, PassQueue, PassInterrupted, PassQueued,
                        PassWait, CompactionWorker
    <3>4. CASE launcher = "stop"
      BY <1>0, <3>4 DEF SlotsOK
    <3> QED BY <3>1, <3>2, <3>3, <3>4 DEF CompactionInv, TaskTypes
  <2>3. CASE cancel /\ launcher = "stop"
    <3>1. cancel' = cancel /\ launcher' # "wait"
      BY <1>3, <2>3 DEF PassStep, CompactionLauncher, PassQueue, PassInterrupted, PassQueued,
                        PassWait, CompactionWorker
    <3> QED BY <1>0, <2>1, <2>3, <3>1 DEF SlotsOK, Finished
  <2> QED BY <2>1, <2>2, <2>3, SlotsStable
<1>4. CASE ReaderStep
  <2>0. UNCHANGED <<launcher, cancel, running>> /\ Alive
    BY <1>4, ReaderStepFrame DEF TaskFrame
  <2>1. CASE ReadEntry
    <3>1. UNCHANGED <<gor, slot, lock, task, faults>>
      BY <2>1, ReadEntryEffect
    <3> QED BY <2>0, <3>1, SlotsStable
  <2>b. CASE ReadBlock
    <3>1. UNCHANGED <<gor, slot, lock, task>>
      BY <2>b, ReadBlockEffect
    <3>2. faults' = faults \/ faults' = faults + 1
      BY <2>b, ReadBlockEffect DEF BlockRead, BlockMissed
    <3>n. slot \in Nat /\ faults \in Nat /\ slot' = slot
      BY <1>0, <3>1
    <3>3. slot <= 1 + faults => slot' <= 1 + faults'
      <4>1. CASE faults' = faults
        BY <3>n, <4>1
      <4>2. CASE faults' = faults + 1
        BY <3>n, <4>2
      <4> QED BY <3>2, <4>1, <4>2
    <3>4. slot <= 2 + faults => slot' <= 2 + faults'
      <4>1. CASE faults' = faults
        BY <3>n, <4>1
      <4>2. CASE faults' = faults + 1
        BY <3>n, <4>2
      <4> QED BY <3>2, <4>1, <4>2
    <3>5. Finished' <=> Finished
      BY <3>1 DEF Finished
    <3> QED BY <1>0, <2>0, <3>1, <3>3, <3>4, <3>5, Zenon DEF SlotsOK
  <2>2. CASE ReadEnd
    <3>1. (ReadCanceled \/ ReadAll) /\ UNCHANGED <<gor, faults>>
      BY <2>2, ReadEndEffect
    <3>2. CASE ReadCanceled /\ Finished
      <4>1. slot' = slot /\ task' = "none"
        BY <3>2 DEF ReadCanceled
      <4> QED BY <1>0, <2>0, <3>1, <3>2, <4>1 DEF SlotsOK, Finished
    <3>3. CASE ReadCanceled /\ ~Finished
      <4>1. task = "compact" /\ cancel /\ slot' = slot + 1 /\ task' = "none"
        BY <3>3 DEF ReadCanceled
      <4>2. slot <= 1 + faults /\ launcher # "wait"
        BY <1>0, <3>3, <4>1, HolderFacts DEF SlotsOK
      <4>3. slot' \in Slots
        <5>1. faults <= MaxFaults /\ MaxFaults \in Nat
          BY <1>0, CompactionAssumption DEF StoreTypes
        <5> QED BY <1>0, <4>1, <4>2, <5>1 DEF Slots
      <4>4. Finished'
        BY <1>0, <3>1, <4>1, <4>3 DEF Finished, SlotsOK
      <4>5. ASSUME NEW c \in Chans, NEW s \in Slots, s > slot' PROVE gor'[c][s].pc = "gone"
        <5>1. s > slot
          BY <1>0, <4>1, <4>5 DEF Slots
        <5> QED BY <1>0, <3>1, <5>1 DEF SlotsOK
      <4> QED BY <1>0, <2>0, <3>1, <4>1, <4>2, <4>4, <4>5 DEF SlotsOK, Alive
    <3>4. CASE ReadAll
      <4>1. UNCHANGED <<slot, lock>> /\ task' \in {"sampled", "rewritten"} /\ task # "none"
        BY <3>4 DEF ReadAll
      <4>2. lock # 0
        BY <4>1, HolderFacts
      <4> QED BY <1>0, <2>0, <3>1, <4>1, <4>2 DEF SlotsOK
    <3> QED BY <3>1, <3>2, <3>3, <3>4
  <2> QED BY <1>4, <2>0, <2>1, <2>b, <2>2, SlotsBegin DEF ReaderStep
<1>5. CASE EndStep
  <2>1. UNCHANGED <<slot, gor, faults, launcher, cancel, running>>
    BY <1>5, EndStepFrame DEF TaskFrame
  <2>2. Finished /\ task' = "none"
    BY <1>5, EndStepEffect DEF Unlocked
  <2>3. Finished'
    BY <2>1, <2>2 DEF Finished
  <2> QED BY <1>0, <2>1, <2>2, <2>3 DEF SlotsOK
<1>6. CASE Alive /\ RemoveTOC
  <2>1. UNCHANGED <<slot, gor, launcher, cancel, running>> /\ Finished /\ task' = "removing"
    BY <1>6 DEF RemoveTOC, Removes, pass
  <2>2. faults' \in {faults, faults + 1}
    <3>1. \E err \in BOOLEAN : Fault(err)
      BY <1>6 DEF RemoveTOC
    <3> QED BY <3>1 DEF Fault
  <2>3. Finished'
    BY <2>1 DEF Finished
  <2>4. \/ slot' <= 1 + faults'
        \/ slot' <= 2 + faults' /\ cancel' /\ launcher' # "wait"
    <3>1. slot <= 1 + faults \/ (slot <= 2 + faults /\ cancel /\ launcher # "wait")
      BY <1>0 DEF SlotsOK
    <3>2. slot \in Nat /\ faults \in Nat /\ slot' = slot /\ cancel' = cancel /\ launcher' = launcher
      BY <1>0, <2>1
    <3>3. CASE faults' = faults
      BY <3>1, <3>2, <3>3
    <3>4. CASE faults' = faults + 1
      <4>1. slot <= 1 + faults => slot' <= 1 + faults'
        BY <3>2, <3>4
      <4>2. slot <= 2 + faults => slot' <= 2 + faults'
        BY <3>2, <3>4
      <4> QED BY <3>1, <3>2, <4>1, <4>2, Zenon
    <3> QED BY <2>2, <3>3, <3>4
  <2>5. running' \in {"recovering", "recovered"} => slot' = 1
    BY <1>0, <2>1 DEF SlotsOK
  <2>6. \A c \in Chans, s \in Slots : s > slot' => gor'[c][s].pc = "gone"
    BY <1>0, <2>1 DEF SlotsOK
  <2> QED BY <2>3, <2>4, <2>5, <2>6 DEF SlotsOK
<1>7. CASE Alive /\ RemoveValues
  <2>1. /\ UNCHANGED <<slot, gor, launcher, cancel, running, faults>> /\ task = "removing"
        /\ task' = "none"
    BY <1>7 DEF RemoveValues, Unlock, life
  <2>2. Finished'
    BY <1>0, <2>1 DEF SlotsOK, Finished
  <2> QED BY <1>0, <2>1, <2>2 DEF SlotsOK
<1>8. ASSUME NEW c \in Chans, NEW s \in Slots, EntryStep(c, s) PROVE SlotsOK'
  <2>1. PICK h \in GoroutineRec : gor' = [gor EXCEPT ![c][s] = h]
    BY <1>8, EntryStepEffect
  <2>2. gor[c][s].pc # "gone"
    <3>1. gor[c][s].pc \in {"wait", "entry", "read"}
      BY <1>8, EntryStepEffect DEF Received, Returned, Sampled, LookedUp, HasRead
    <3> QED BY <3>1
  <2>3. /\ faults' \in {faults, faults + 1}
        /\ UNCHANGED <<slot, lock, task, cancel, launcher, running>>
    BY <1>8, EntryStepFrame DEF TaskFrame, FaultStep
  <2> QED BY <2>1, <2>2, <2>3, SlotsWork
<1>9. ASSUME NEW c \in Chans, NEW s \in Slots, Rewrite(c, s) PROVE SlotsOK'
  <2>1. /\ gor[c][s].pc = "write" /\ faults' \in {faults, faults + 1}
        /\ \E h : gor' = [gor EXCEPT ![c][s] = h]
        /\ UNCHANGED <<cancel, launcher, running>> /\ EntryFrame
    BY <1>9, RewriteEffect, InvParts, Zenon
  <2> QED BY <2>1, SlotsWork DEF EntryFrame
<1>10. CASE ShutdownStep
  <2>1. running' \in {"up", "down", "stopping", "panicked"}
    BY <1>10 DEF ShutdownStep, Shutdown, ShutdownReturns, RewriteAfterShutdown
  <2> QED BY <1>10, <2>1, ShutdownStepFrame, SlotsStable DEF batchVars
<1>11. CASE Crash \/ Startup
  <2>1. slot' = 1 /\ gor' = Idle /\ faults' = faults /\ task' = "none"
    BY <1>11 DEF Crash, Startup
  <2>2. \A c \in Chans, s \in Slots : gor'[c][s].pc = "gone"
    BY <2>1 DEF Idle
  <2> QED BY <1>0, <2>1, <2>2 DEF SlotsOK, Finished
<1>12. CASE RecoverFile \/ (\E c \in Chans : RecoverEntry(c)) \/ RecoveryEnd
  BY <1>12, SlotsStable DEF RecoverFile, RecoverEntry, RecoveryEnd, RecoveryFrame, pass, batchVars
<1>13. CASE CompactionStartup
  <2>1. slot = 1
    BY <1>0, <1>13 DEF CompactionStartup, SlotsOK
  <2> QED BY <1>0, <1>13, <2>1, SlotsStable DEF CompactionStartup, RecoveryFrame, batchVars
<1> QED
  BY <1>1, <1>2, <1>3, <1>4, <1>5, <1>6, <1>7, <1>8, <1>9, <1>10, <1>11, <1>12, <1>13, Steps

(***************************************************************************)
(* The batches of a channel                                                *)
(***************************************************************************)
WaitingIn(p) == {i \in DOMAIN p : p[i] # Nil}

LEMMA WaitingFinite ==
  ASSUME NEW p \in Seq(Batch)
  PROVE  IsFiniteSet(WaitingIn(p)) /\ Cardinality(WaitingIn(p)) \in Nat
<1>1. DOMAIN p = 1..Len(p) /\ Len(p) \in Nat
  OBVIOUS
<1>2. IsFiniteSet(1..Len(p)) /\ WaitingIn(p) \in SUBSET (1..Len(p))
  BY <1>1, FS_Interval DEF WaitingIn
<1>3. IsFiniteSet(WaitingIn(p))
  BY <1>2, FS_Subset
<1> QED BY <1>3, FS_CardinalityType

LEMMA WaitingAppend ==
  ASSUME NEW p \in Seq(Batch), NEW b \in Batch
  PROVE  Cardinality(WaitingIn(Append(p, b))) = Cardinality(WaitingIn(p)) + (IF b = Nil THEN 0 ELSE 1)
<1>1. PICK q : q = Append(p, b)
  OBVIOUS
<1>2. /\ DOMAIN p = 1..Len(p) /\ Len(p) \in Nat /\ DOMAIN q = 1..(Len(p) + 1)
      /\ q[Len(p) + 1] = b /\ \A i \in 1..Len(p) : q[i] = p[i]
  BY <1>1
<1>3. IsFiniteSet(WaitingIn(p)) /\ Cardinality(WaitingIn(p)) \in Nat
  BY WaitingFinite
<1>4. CASE b = Nil
  <2>1. WaitingIn(q) = WaitingIn(p)
    BY <1>2, <1>4 DEF WaitingIn
  <2> QED BY <1>1, <1>3, <1>4, <2>1
<1>5. CASE b # Nil
  <2>1. WaitingIn(q) = WaitingIn(p) \cup {Len(p) + 1} /\ Len(p) + 1 \notin WaitingIn(p)
    BY <1>2, <1>5 DEF WaitingIn
  <2> QED BY <1>1, <1>3, <1>5, <2>1, FS_AddElement
<1> QED BY <1>4, <1>5

LEMMA WaitingTail ==
  ASSUME NEW p \in Seq(Batch), p # <<>>
  PROVE  Cardinality(WaitingIn(Tail(p))) + (IF Head(p) = Nil THEN 0 ELSE 1) <= Cardinality(WaitingIn(p))
<1>1. PICK q : q = Tail(p)
  OBVIOUS
<1>2. /\ DOMAIN p = 1..Len(p) /\ Len(p) \in Nat /\ 1 \in DOMAIN p /\ Head(p) = p[1] /\ q \in Seq(Batch)
      /\ \A i \in DOMAIN q : i \in Nat /\ i + 1 \in DOMAIN p /\ q[i] = p[i + 1] /\ i + 1 # 1
  BY <1>1
<1>3. IsFiniteSet(WaitingIn(p)) /\ Cardinality(WaitingIn(p)) \in Nat /\ Cardinality(WaitingIn(q)) \in Nat
  BY <1>2, WaitingFinite
<1>4. /\ IsFiniteSet(WaitingIn(p) \ {1})
      /\ Cardinality(WaitingIn(p) \ {1}) = IF p[1] # Nil THEN Cardinality(WaitingIn(p)) - 1
                                           ELSE Cardinality(WaitingIn(p))
  <2>1. 1 \in WaitingIn(p) <=> p[1] # Nil
    BY <1>2 DEF WaitingIn
  <2> QED BY <1>3, <2>1, FS_RemoveElement
<1>5. PICK f : f = [i \in WaitingIn(q) |-> i + 1]
  OBVIOUS
<1>6. f \in Injection(WaitingIn(q), WaitingIn(p) \ {1})
  <2>1. \A i \in WaitingIn(q) : i \in Nat /\ i + 1 \in WaitingIn(p) \ {1}
    BY <1>2 DEF WaitingIn
  <2> QED BY <1>5, <2>1 DEF Injection, IsInjective
<1>7. Cardinality(WaitingIn(q)) <= Cardinality(WaitingIn(p) \ {1})
  BY <1>4, <1>6, FS_Injection
<1> QED BY <1>1, <1>2, <1>3, <1>4, <1>7

\* The goroutines of a channel that are at work.
BusyIn(gs) == {s \in Slots : Busy(gs[s])}

LEMMA BusyFinite ==
  ASSUME NEW gs PROVE IsFiniteSet(BusyIn(gs)) /\ Cardinality(BusyIn(gs)) \in Nat
<1>1. IsFiniteSet(Slots)
  <2>1. 1 \in Int /\ MaxFaults + 2 \in Int
    BY CompactionAssumption
  <2> QED BY <2>1, FS_Interval DEF Slots
<1>2. BusyIn(gs) \in SUBSET Slots
  BY DEF BusyIn
<1>3. IsFiniteSet(BusyIn(gs))
  BY <1>1, <1>2, FS_Subset
<1> QED BY <1>3, FS_CardinalityType

LEMMA BusySubset ==
  ASSUME NEW gs, NEW hs, BusyIn(hs) \subseteq BusyIn(gs)
  PROVE  Cardinality(BusyIn(hs)) <= Cardinality(BusyIn(gs))
BY BusyFinite, FS_Subset

LEMMA BusyUpdate ==
  ASSUME NEW gs, NEW hs, NEW s \in Slots, \A u \in Slots \ {s} : hs[u] = gs[u]
  PROVE  /\ Busy(hs[s]) = Busy(gs[s]) => Cardinality(BusyIn(hs)) = Cardinality(BusyIn(gs))
         /\ Busy(hs[s]) /\ ~Busy(gs[s]) => Cardinality(BusyIn(hs)) = Cardinality(BusyIn(gs)) + 1
         /\ ~Busy(hs[s]) /\ Busy(gs[s]) => Cardinality(BusyIn(hs)) = Cardinality(BusyIn(gs)) - 1
<1>1. CASE Busy(hs[s]) = Busy(gs[s])
  <2>1. BusyIn(hs) = BusyIn(gs)
    BY <1>1 DEF BusyIn
  <2> QED BY <1>1, <2>1
<1>2. CASE Busy(hs[s]) /\ ~Busy(gs[s])
  <2>1. BusyIn(hs) = BusyIn(gs) \cup {s} /\ s \notin BusyIn(gs)
    BY <1>2 DEF BusyIn
  <2> QED BY <1>2, <2>1, BusyFinite, FS_AddElement
<1>3. CASE ~Busy(hs[s]) /\ Busy(gs[s])
  <2>1. BusyIn(hs) = BusyIn(gs) \ {s} /\ s \in BusyIn(gs)
    BY <1>3 DEF BusyIn
  <2> QED BY <1>3, <2>1, BusyFinite, FS_RemoveElement
<1> QED BY <1>1, <1>2, <1>3 DEF Busy

Filled(b) == IF b = Nil THEN 0 ELSE 1

\* The four parts of PoolOK for a channel.
PoolAt(n, b, p, gs) ==
  n + Filled(b) + Cardinality(WaitingIn(p)) + Cardinality(BusyIn(gs)) <= Batches

LEMMA PoolParts ==
  /\ PoolOK <=> \A c \in Chans : PoolAt(free[c], filling[c], pending[c], gor[c])
  /\ PoolOK' <=> \A c \in Chans : PoolAt(free'[c], filling'[c], pending'[c], gor'[c])
<1>1. PoolOK <=> \A c \in Chans : PoolAt(free[c], filling[c], pending[c], gor[c])
  BY DEF PoolOK, PoolAt, Filled, Waiting, WaitingIn, Taken, BusyIn
<1>2. PoolOK' <=> \A c \in Chans : PoolAt(free'[c], filling'[c], pending'[c], gor'[c])
  BY DEF PoolOK, PoolAt, Filled, Waiting, WaitingIn, Taken, BusyIn
<1> QED BY <1>1, <1>2

LEMMA PoolTypes ==
  ASSUME CompactionInv, NEW c \in Chans
  PROVE  /\ free[c] \in Nat /\ Filled(filling[c]) \in Nat /\ filling[c] \in Batch
         /\ pending[c] \in Seq(Batch) /\ Cardinality(WaitingIn(pending[c])) \in Nat
         /\ Cardinality(BusyIn(gor[c])) \in Nat /\ Batches \in Nat
         /\ PoolAt(free[c], filling[c], pending[c], gor[c])
<1>1. free[c] \in Nat /\ pending[c] \in Seq(Batch) /\ filling[c] \in Batch /\ PoolOK
  BY DEF CompactionInv, TaskTypes
<1> QED BY <1>1, WaitingFinite, BusyFinite, PoolParts, CompactionAssumption DEF Filled

\* Nothing is taken: what goroutines or the reader give back, or drop.
LEMMA PoolLess ==
  ASSUME CompactionInv, NEW c \in Chans, NEW n \in Nat, NEW b, NEW p, NEW gs,
         n <= free[c], Filled(b) <= Filled(filling[c]), Filled(b) \in Nat,
         Cardinality(WaitingIn(p)) <= Cardinality(WaitingIn(pending[c])),
         Cardinality(WaitingIn(p)) \in Nat, BusyIn(gs) \subseteq BusyIn(gor[c])
  PROVE  PoolAt(n, b, p, gs)
<1>1. /\ Cardinality(BusyIn(gs)) <= Cardinality(BusyIn(gor[c]))
      /\ Cardinality(BusyIn(gs)) \in Nat
  BY BusySubset, BusyFinite
<1> QED BY <1>1, PoolTypes, SMTT(30) DEF PoolAt

LEMMA PoolStable ==
  ASSUME CompactionInv, UNCHANGED <<free, filling, pending, gor>> PROVE PoolOK'
BY PoolParts DEF CompactionInv

LEMMA PoolEmpty ==
  ASSUME free' = [c \in Chans |-> Batches], filling' = [c \in Chans |-> Nil],
         pending' = [c \in Chans |-> <<>>], gor' = Idle
  PROVE  PoolOK'
<1> SUFFICES ASSUME NEW c \in Chans PROVE PoolAt(Batches, Nil, <<>>, Idle[c])
  BY PoolParts
<1>1. WaitingIn(<<>>) = {} /\ BusyIn(Idle[c]) = {}
  BY DEF WaitingIn, BusyIn, Idle, Busy
<1>2. Batches \in Nat
  BY CompactionAssumption
<1>3. Cardinality(WaitingIn(<<>>)) = 0 /\ Cardinality(BusyIn(Idle[c])) = 0 /\ Filled(Nil) = 0
  BY <1>1, FS_EmptySet DEF Filled
<1> QED BY <1>2, <1>3 DEF PoolAt

LEMMA PoolBegin ==
  ASSUME CompactionInv, NEW w \in Chans, TaskBegin(w) PROVE PoolOK'
<1>1. /\ lock = 0 /\ pending' = pending
      /\ gor' = IF cancel /\ worker[w].pc = "compact" /\ slot > 1 THEN gor
                ELSE Started(worker[w].pc)
      /\ BeginFails(w) \/ Begun(w)
  BY TaskBeginEffect
<1>2. gor \in [Chans -> [Slots -> GoroutineRec]] /\ slot \in Slots
  BY SlotFacts DEF CompactionInv, TaskTypes
<1>3. ASSUME NEW c \in Chans PROVE BusyIn(gor'[c]) \subseteq BusyIn(gor[c])
  <2>1. CASE gor' = gor
    BY <2>1
  <2>2. CASE gor' = Started(worker[w].pc)
    <3>1. /\ gor'[c][slot] = [pc |-> "wait", kind |-> worker[w].pc, batch |-> <<>>, val |-> 0]
          /\ \A s \in Slots \ {slot} : gor'[c][s] = gor[c][s]
      BY <1>2, <2>2 DEF Started
    <3>2. ~Busy(gor'[c][slot])
      BY <3>1 DEF Busy
    <3> QED BY <3>1, <3>2 DEF BusyIn
  <2> QED BY <1>1, <2>1, <2>2
<1>4. CASE BeginFails(w)
  <2>1. UNCHANGED <<filling, free>>
    BY <1>4 DEF BeginFails
  <2>2. ASSUME NEW c \in Chans PROVE PoolAt(free'[c], filling'[c], pending'[c], gor'[c])
    <3>1. free'[c] = free[c] /\ filling'[c] = filling[c] /\ pending'[c] = pending[c]
      BY <1>1, <2>1
    <3>2. BusyIn(gor'[c]) \subseteq BusyIn(gor[c])
      BY <1>3
    <3>t. /\ free[c] \in Nat /\ Filled(filling[c]) \in Nat
          /\ Cardinality(WaitingIn(pending[c])) \in Nat
      BY PoolTypes DEF Filled
    <3>3. PoolAt(free[c], filling[c], pending[c], gor'[c])
      BY <3>2, <3>t, PoolLess
    <3> QED BY <3>1, <3>3
  <2> QED BY <2>2, PoolParts
<1>5. CASE Begun(w)
  <2>1. /\ free[1] > 0 /\ free' = [free EXCEPT ![1] = @ - 1]
        /\ filling' = [c \in Chans |-> IF c = 1 THEN <<>> ELSE Nil]
    BY <1>5 DEF Begun
  <2>2. \A c \in Chans : filling[c] = Nil
    BY <1>1 DEF CompactionInv, WorkersOK, EntriesOK
  <2>3. free \in [Chans -> Nat]
    BY DEF CompactionInv, TaskTypes
  <2>4. ASSUME NEW c \in Chans PROVE PoolAt(free'[c], filling'[c], pending'[c], gor'[c])
    <3>1. /\ free[c] \in Nat /\ Filled(filling[c]) = 0
          /\ Cardinality(WaitingIn(pending[c])) \in Nat /\ Batches \in Nat
          /\ Cardinality(BusyIn(gor[c])) \in Nat /\ Cardinality(BusyIn(gor'[c])) \in Nat
          /\ Cardinality(BusyIn(gor'[c])) <= Cardinality(BusyIn(gor[c]))
          /\ PoolAt(free[c], filling[c], pending[c], gor[c])
      BY <1>3, <2>2, PoolTypes, BusyFinite, BusySubset DEF Filled
    <3>2. CASE c = 1
      <4>1. free'[c] = free[c] - 1 /\ Filled(filling'[c]) = 1
        BY <2>1, <2>3, <3>2 DEF Filled, Nil
      <4> QED BY <1>1, <2>1, <3>1, <3>2, <4>1 DEF PoolAt
    <3>3. CASE c # 1
      <4>1. free'[c] = free[c] /\ Filled(filling'[c]) = 0
        BY <2>1, <2>3, <3>3 DEF Filled
      <4> QED BY <1>1, <3>1, <4>1 DEF PoolAt
    <3> QED BY <3>2, <3>3
  <2> QED BY <2>4, PoolParts
<1> QED BY <1>1, <1>4, <1>5

LEMMA PoolReadEntry ==
  ASSUME CompactionInv, ReadEntry PROVE PoolOK'
<1>1. PICK i \in todo, c \in Chans, b \in Seq(EntryRec) : ReadInto(i, c, b)
  BY ReadEntryEffect
<1>2. gor' = gor
  BY ReadEntryEffect
<1>3. /\ b # Nil /\ (filling[c] = Nil => free[c] > 0)
      /\ free' = [free EXCEPT ![c] = IF filling[c] = Nil THEN @ - 1 ELSE @]
      /\ \/ filling' = [filling EXCEPT ![c] = b] /\ pending' = pending
         \/ filling' = [filling EXCEPT ![c] = Nil] /\ pending' = [pending EXCEPT ![c] = Append(@, b)]
  BY <1>1, Zenon DEF ReadInto
<1>4. /\ free \in [Chans -> Nat] /\ filling \in [Chans -> Batch] /\ pending \in [Chans -> Seq(Batch)]
  BY DEF CompactionInv, TaskTypes
<1>5. ASSUME NEW d \in Chans, d # c PROVE PoolAt(free'[d], filling'[d], pending'[d], gor'[d])
  <2>1. free'[d] = free[d] /\ filling'[d] = filling[d] /\ pending'[d] = pending[d]
    BY <1>3, <1>4, <1>5
  <2> QED BY <1>2, <2>1, PoolTypes
<1>6. PoolAt(free'[c], filling'[c], pending'[c], gor'[c])
  <2>1. /\ free[c] \in Nat /\ pending[c] \in Seq(Batch) /\ Batches \in Nat
        /\ Cardinality(WaitingIn(pending[c])) \in Nat /\ Cardinality(BusyIn(gor[c])) \in Nat
        /\ PoolAt(free[c], filling[c], pending[c], gor[c])
    BY PoolTypes
  <2>2. free'[c] + 1 = free[c] + Filled(filling[c]) /\ free'[c] \in Nat
    BY <1>3, <1>4, <2>1 DEF Filled
  <2>3. Filled(filling'[c]) + Cardinality(WaitingIn(pending'[c])) = 1 + Cardinality(WaitingIn(pending[c]))
    <3>1. CASE filling' = [filling EXCEPT ![c] = b] /\ pending' = pending
      <4>1. filling'[c] = b
        BY <1>4, <3>1
      <4> QED BY <1>3, <3>1, <4>1 DEF Filled
    <3>2. CASE filling' = [filling EXCEPT ![c] = Nil] /\ pending' = [pending EXCEPT ![c] = Append(@, b)]
      <4>1. filling'[c] = Nil /\ pending'[c] = Append(pending[c], b)
        BY <1>4, <3>2
      <4>2. b \in Batch
        BY DEF Batch
      <4>3. Cardinality(WaitingIn(pending'[c])) = Cardinality(WaitingIn(pending[c])) + 1
        BY <1>3, <2>1, <4>1, <4>2, WaitingAppend
      <4> QED BY <2>1, <4>1, <4>3 DEF Filled
    <3> QED BY <1>3, <3>1, <3>2
  <2>4. Filled(filling'[c]) \in Nat /\ Filled(filling[c]) \in Nat
    BY DEF Filled
  <2>5. Cardinality(WaitingIn(pending'[c])) \in Nat
    <3>1. pending'[c] \in Seq(Batch)
      <4>1. Append(pending[c], b) \in Seq(Batch)
        BY <2>1 DEF Batch
      <4> QED BY <1>3, <1>4, <2>1, <4>1
    <3> QED BY <3>1, WaitingFinite
  <2>6. PICK n, m, x : /\ n = free'[c] /\ m = Filled(filling'[c])
                       /\ x = Cardinality(WaitingIn(pending'[c]))
    OBVIOUS
  <2>7. PICK n0, m0, x0, g : /\ n0 = free[c] /\ m0 = Filled(filling[c])
                             /\ x0 = Cardinality(WaitingIn(pending[c]))
                             /\ g = Cardinality(BusyIn(gor[c]))
    OBVIOUS
  <2>8. /\ n \in Nat /\ m \in Nat /\ x \in Nat /\ n0 \in Nat /\ m0 \in Nat /\ x0 \in Nat
        /\ g \in Nat /\ Batches \in Nat /\ n + 1 = n0 + m0 /\ m + x = 1 + x0
    BY <2>1, <2>2, <2>3, <2>4, <2>5, <2>6, <2>7
  <2>9. n0 + m0 + x0 + g <= Batches
    BY <2>1, <2>7 DEF PoolAt
  <2>10. n + m + x + g <= Batches
    BY <2>8, <2>9
  <2> QED BY <1>2, <2>6, <2>7, <2>10 DEF PoolAt
<1> QED BY <1>5, <1>6, PoolParts

LEMMA PoolReadEnd ==
  ASSUME CompactionInv, ReadEnd PROVE PoolOK'
<1>1. /\ ReadCanceled \/ ReadAll
      /\ filling' = [c \in Chans |-> Nil] /\ UNCHANGED <<free, gor>>
  BY ReadEndEffect
<1> SUFFICES ASSUME NEW c \in Chans PROVE PoolAt(free'[c], filling'[c], pending'[c], gor'[c])
  BY PoolParts
<1>2. /\ free[c] \in Nat /\ pending[c] \in Seq(Batch) /\ Batches \in Nat /\ filling[c] \in Batch
      /\ Cardinality(WaitingIn(pending[c])) \in Nat /\ Cardinality(BusyIn(gor[c])) \in Nat
      /\ PoolAt(free[c], filling[c], pending[c], gor[c])
  BY PoolTypes
<1>3. PICK p : p = pending[c] \o Rest(c)
  OBVIOUS
<1>4. /\ p \in Seq(Batch) /\ Nil \in Batch
      /\ Cardinality(WaitingIn(p)) = Cardinality(WaitingIn(pending[c])) + Filled(filling[c])
  <2>1. CASE filling[c] = Nil
    <3>1. p = pending[c] /\ Nil \in Batch /\ Filled(filling[c]) = 0
      BY <1>3, <2>1, RestTyped DEF Filled
    <3> QED BY <1>2, <3>1
  <2>2. CASE filling[c] # Nil
    <3>1. p = Append(pending[c], filling[c]) /\ Nil \in Batch /\ Filled(filling[c]) = 1
          /\ p \in Seq(Batch)
      BY <1>3, <2>2, RestTyped DEF Filled
    <3> QED BY <1>2, <2>2, <3>1, WaitingAppend
  <2> QED BY <2>1, <2>2
<1>5. pending'[c] = p \/ pending'[c] = Append(p, Nil)
  BY <1>1, <1>3 DEF ReadCanceled, ReadAll
<1>6. Cardinality(WaitingIn(p)) \in Nat
  BY <1>4, WaitingFinite
<1>7. Cardinality(WaitingIn(pending'[c])) = Cardinality(WaitingIn(p))
  <2>1. Cardinality(WaitingIn(Append(p, Nil))) = Cardinality(WaitingIn(p)) + 0
    BY <1>4, WaitingAppend
  <2>2. Cardinality(WaitingIn(p)) + 0 = Cardinality(WaitingIn(p))
    BY <1>6
  <2> QED BY <1>5, <2>1, <2>2, Zenon
<1>8. Filled(filling'[c]) = 0 /\ Filled(filling[c]) \in Nat
  BY <1>1 DEF Filled
<1> QED BY <1>1, <1>2, <1>4, <1>6, <1>7, <1>8 DEF PoolAt

LEMMA PoolEntryStep ==
  ASSUME CompactionInv, NEW c \in Chans, NEW s \in Slots, EntryStep(c, s) PROVE PoolOK'
<1>1. PICK h \in GoroutineRec :
        /\ gor' = [gor EXCEPT ![c][s] = h]
        /\ \/ Received(c, s, h) \/ Returned(c, s, h)
           \/ /\ gor[c][s].batch # <<>>
              /\ Sampled(c, s, h) \/ LookedUp(c, s, h) \/ HasRead(c, s, h)
  BY EntryStepEffect
<1>0. gor' = [gor EXCEPT ![c][s] = h]
  BY <1>1
<1>2. gor'[c][s] = h /\ \A d \in Chans, u \in Slots : d # c \/ u # s => gor'[d][u] = gor[d][u]
  <2>1. gor \in [Chans -> [Slots -> GoroutineRec]]
    BY DEF CompactionInv, TaskTypes
  <2> QED BY <1>0, <2>1
<1>3. filling' = filling
  BY EntryStepFrame
<1>4. free \in [Chans -> Nat] /\ pending \in [Chans -> Seq(Batch)]
  BY DEF CompactionInv, TaskTypes
<1>5. /\ pending' = pending \/ (pending[c] # <<>> /\ pending' = [pending EXCEPT ![c] = Tail(@)])
      /\ free' = free \/ free' = [free EXCEPT ![c] = @ + 1]
  BY <1>1, AtChannels
<1>6. ASSUME NEW d \in Chans, d # c PROVE PoolAt(free'[d], filling'[d], pending'[d], gor'[d])
  <2>1. free'[d] = free[d] /\ pending'[d] = pending[d]
    BY <1>4, <1>5, <1>6
  <2>2. BusyIn(gor'[d]) = BusyIn(gor[d])
    BY <1>2, <1>6 DEF BusyIn
  <2> QED BY <1>3, <2>1, <2>2, PoolTypes DEF PoolAt
<1>7. /\ free[c] \in Nat /\ pending[c] \in Seq(Batch) /\ Batches \in Nat /\ Filled(filling[c]) \in Nat
      /\ Cardinality(WaitingIn(pending[c])) \in Nat /\ Cardinality(BusyIn(gor[c])) \in Nat
      /\ PoolAt(free[c], filling[c], pending[c], gor[c])
  BY PoolTypes
<1>8. PICK gs, hs : gs = gor[c] /\ hs = gor'[c]
  OBVIOUS
<1>9. /\ Busy(hs[s]) = Busy(gs[s]) => Cardinality(BusyIn(hs)) = Cardinality(BusyIn(gs))
      /\ Busy(hs[s]) /\ ~Busy(gs[s]) => Cardinality(BusyIn(hs)) = Cardinality(BusyIn(gs)) + 1
      /\ ~Busy(hs[s]) /\ Busy(gs[s]) => Cardinality(BusyIn(hs)) = Cardinality(BusyIn(gs)) - 1
  <2>1. \A u \in Slots \ {s} : hs[u] = gs[u]
    BY <1>2, <1>8
  <2> QED BY <2>1, BusyUpdate
<1>10. PICK n, m, x, g : /\ n = free[c] /\ m = Filled(filling[c])
                         /\ x = Cardinality(WaitingIn(pending[c])) /\ g = Cardinality(BusyIn(gs))
  OBVIOUS
<1>11. PICK y, k : y = Cardinality(WaitingIn(pending'[c])) /\ k = Cardinality(BusyIn(hs))
  OBVIOUS
<1>12. {n, m, x, g, Batches} \subseteq Nat /\ n + m + x + g <= Batches
  BY <1>7, <1>8, <1>10 DEF PoolAt
<1>13. k \in Nat
  BY <1>11, BusyFinite
<1>14. CASE Received(c, s, h)
  <2>1. /\ gor[c][s].pc = "wait" /\ pending[c] # <<>> /\ free' = free
        /\ pending'[c] = Tail(pending[c])
        /\ \/ Head(pending[c]) = Nil /\ h.pc = "gone"
           \/ Head(pending[c]) # Nil /\ h = gor[c][s]
           \/ Head(pending[c]) # Nil /\ h.pc = "entry"
    BY <1>4, <1>14 DEF Received
  <2>2. y + (IF Head(pending[c]) = Nil THEN 0 ELSE 1) <= x /\ y \in Nat
    <3>1. Tail(pending[c]) \in Seq(Batch)
      BY <1>7, <2>1
    <3>2. y = Cardinality(WaitingIn(Tail(pending[c])))
      BY <1>11, <2>1
    <3>3. y \in Nat
      BY <3>1, <3>2, WaitingFinite
    <3> QED BY <1>7, <1>10, <2>1, <3>2, <3>3, WaitingTail
  <2>3. \/ Head(pending[c]) = Nil /\ k = g
        \/ Head(pending[c]) # Nil /\ (k = g \/ k = g + 1)
    <3>1. hs[s] = h /\ gs[s] = gor[c][s] /\ ~Busy(gs[s])
      BY <1>2, <1>8, <2>1 DEF Busy
    <3>2. Head(pending[c]) = Nil => ~Busy(hs[s])
      BY <2>1, <3>1 DEF Busy
    <3>3. CASE Busy(hs[s])
      BY <1>9, <1>10, <1>11, <3>1, <3>2, <3>3
    <3>4. CASE ~Busy(hs[s])
      <4>1. Busy(hs[s]) = Busy(gs[s])
        BY <3>1, <3>4 DEF Busy
      <4> QED BY <1>9, <1>10, <1>11, <4>1
    <3> QED BY <3>3, <3>4
  <2>4. n + m + y + k <= Batches
    BY <1>12, <1>13, <2>2, <2>3
  <2>5. PoolAt(free'[c], filling'[c], pending'[c], gor'[c])
    BY <1>3, <1>8, <1>10, <1>11, <2>1, <2>4 DEF PoolAt
  <2> QED BY <1>6, <2>5, PoolParts
<1>15. CASE Returned(c, s, h)
  <2>1. /\ gor[c][s].pc = "entry" /\ h.pc = "wait" /\ pending' = pending /\ free'[c] = free[c] + 1
    BY <1>4, <1>15 DEF Returned
  <2>2. k = g - 1 /\ y = x
    <3>1. Busy(gs[s]) /\ ~Busy(hs[s])
      BY <1>2, <1>8, <2>1 DEF Busy
    <3> QED BY <1>9, <1>10, <1>11, <2>1, <3>1
  <2>3. (n + 1) + m + y + k <= Batches
    BY <1>12, <1>13, <2>2
  <2>4. PoolAt(free'[c], filling'[c], pending'[c], gor'[c])
    BY <1>3, <1>8, <1>10, <1>11, <2>1, <2>3 DEF PoolAt
  <2> QED BY <1>6, <2>4, PoolParts
<1>16. CASE Sampled(c, s, h) \/ LookedUp(c, s, h) \/ HasRead(c, s, h)
  <2>1. Busy(gor[c][s]) /\ Busy(h) /\ pending' = pending /\ free' = free
    BY <1>16, AtEntry
  <2>2. k = g /\ y = x
    <3>1. Busy(gs[s]) /\ Busy(hs[s])
      BY <1>2, <1>8, <2>1
    <3> QED BY <1>9, <1>10, <1>11, <2>1, <3>1
  <2>3. PoolAt(free'[c], filling'[c], pending'[c], gor'[c])
    BY <1>3, <1>8, <1>10, <1>11, <1>12, <2>1, <2>2 DEF PoolAt
  <2> QED BY <1>6, <2>3, PoolParts
<1> QED BY <1>1, <1>14, <1>15, <1>16

LEMMA PoolStep ==
  ASSUME CompactionInv, Next PROVE PoolOK'
<1>1. ASSUME NEW w \in Writes, ClientWrite(w) PROVE PoolOK'
  BY <1>1, ClientWriteStep, PoolStable DEF batchVars
<1>2. CASE PageOut \/ Flush
  BY <1>2, PageEffect, InvParts, PoolStable DEF batchVars
<1>3. CASE PassStep
  BY <1>3, PassStepFrame, PoolStable DEF batchVars
<1>4. CASE ReaderStep
  <2>1. CASE ReadBlock
    BY <2>1, ReadBlockEffect, PoolStable
  <2> QED BY <1>4, <2>1, PoolBegin, PoolReadEntry, PoolReadEnd DEF ReaderStep
<1>5. CASE EndStep
  BY <1>5, EndStepFrame, PoolStable
<1>6. CASE RemoveTOC
  BY <1>6, PoolStable DEF RemoveTOC
<1>7. CASE RemoveValues
  BY <1>7, PoolStable DEF RemoveValues
<1>8. ASSUME NEW c \in Chans, NEW s \in Slots, Rewrite(c, s) PROVE PoolOK'
  <2>1. PICK h : gor' = [gor EXCEPT ![c][s] = h] /\ Busy(h)
    <3> DEFINE g == gor[c][s]
    <3>1. /\ g \in GoroutineRec
          /\ \/ gor' = [gor EXCEPT ![c][s] = [Done(g) EXCEPT !.batch = <<>>]]
             \/ gor' = [gor EXCEPT ![c][s] = Done(g)]
      BY <1>8, RewriteEffect, InvParts, Zenon
    <3> HIDE DEF g
    <3>2. Busy(Done(g)) /\ Busy([Done(g) EXCEPT !.batch = <<>>])
      BY <3>1 DEF Done, Busy, GoroutineRec
    <3> QED BY <3>1, <3>2
  <2>2. UNCHANGED <<free, filling, pending>> /\ Busy(gor[c][s])
    BY <1>8 DEF Rewrite, EntryFrame, Busy
  <2>3. gor'[c][s] = h /\ \A d \in Chans, u \in Slots : d # c \/ u # s => gor'[d][u] = gor[d][u]
    <3>1. gor' = [gor EXCEPT ![c][s] = h]
      BY <2>1
    <3>2. gor \in [Chans -> [Slots -> GoroutineRec]]
      BY DEF CompactionInv, TaskTypes
    <3> QED BY <3>1, <3>2
  <2>4. \A d \in Chans : BusyIn(gor'[d]) = BusyIn(gor[d])
    BY <2>1, <2>2, <2>3 DEF BusyIn
  <2>5. ASSUME NEW d \in Chans PROVE PoolAt(free'[d], filling'[d], pending'[d], gor'[d])
    BY <2>2, <2>4, PoolTypes DEF PoolAt
  <2> QED BY <2>5, PoolParts
<1>9. CASE ShutdownStep
  BY <1>9, ShutdownStepFrame, PoolStable DEF batchVars
<1>10. CASE Crash \/ Startup
  <2>1. /\ free' = [c \in Chans |-> Batches] /\ filling' = [c \in Chans |-> Nil]
        /\ pending' = [c \in Chans |-> <<>>] /\ gor' = Idle
    BY <1>10 DEF Crash, Startup
  <2> QED BY <2>1, PoolEmpty
<1>11. CASE RecoverFile \/ (\E c \in Chans : RecoverEntry(c)) \/ RecoveryEnd \/ CompactionStartup
  BY <1>11, PoolStable DEF RecoverFile, RecoverEntry, RecoveryEnd, CompactionStartup, RecoveryFrame,
                           batchVars
<1> QED
  BY <1>1, <1>2, <1>3, <1>4, <1>5, <1>6, <1>7, <1>8, <1>9, <1>10, <1>11, PoolEntryStep, Steps

(***************************************************************************)
(* The entries on their way                                                *)
(***************************************************************************)
\* The parts of EntriesOK before and after a step.
IsEntryThen(e) ==
  /\ \E i \in toc'[e.id] : e = [key |-> data'[e.id][i].key, ts |-> data'[e.id][i].ts, id |-> e.id]
  /\ ~left' => e.id \in tocs'
EntriesThen(b) == b # Nil => \A i \in DOMAIN b : IsEntryThen(b[i])
GoroutineNow(g)  == /\ ~Busy(g) => g.batch = <<>>
                    /\ g.pc \in {"read", "write"} => g.batch # <<>>
                    /\ EntriesOf(g.batch)
GoroutineThen(g) == /\ ~Busy(g) => g.batch = <<>>
                    /\ g.pc \in {"read", "write"} => g.batch # <<>>
                    /\ EntriesThen(g.batch)

LEMMA EntriesParts ==
  /\ EntriesOK <=>
       /\ \A c \in Chans, s \in Slots : GoroutineNow(gor[c][s])
       /\ \A c \in Chans : EntriesOf(filling[c]) /\ \A i \in DOMAIN pending[c] : EntriesOf(pending[c][i])
       /\ IF task \in {"sample", "compact"} THEN todo \subseteq toc[worker[lock].file]
          ELSE todo = {} /\ \A c \in Chans : filling[c] = Nil
  /\ EntriesOK' <=>
       /\ \A c \in Chans, s \in Slots : GoroutineThen(gor'[c][s])
       /\ \A c \in Chans : EntriesThen(filling'[c]) /\ \A i \in DOMAIN pending'[c] : EntriesThen(pending'[c][i])
       /\ IF task' \in {"sample", "compact"} THEN todo' \subseteq toc'[worker'[lock'].file]
          ELSE todo' = {} /\ \A c \in Chans : filling'[c] = Nil
BY DEF EntriesOK, GoroutineNow, GoroutineThen, EntriesOf, EntriesThen, IsEntry, IsEntryThen,
   Entry, File

\* Entries stay entries.
EntriesHold ==
  /\ \A f \in FileIDs : \A i \in toc[f] : i \in toc'[f] /\ data'[f][i] = data[f][i]
  /\ left => left'
  /\ left' \/ tocs \subseteq tocs'

LEMMA EntryHolds ==
  ASSUME EntriesHold, NEW e \in EntryRec, IsEntry(e) PROVE IsEntryThen(e)
<1>1. e.id \in FileIDs
  BY DEF EntryRec
<1>2. PICK i \in toc[e.id] : e = Entry(e.id, i)
  BY DEF IsEntry
<1>3. i \in toc'[e.id] /\ data'[e.id][i] = data[e.id][i]
  BY <1>1, <1>2 DEF EntriesHold
<1>4. e = [key |-> data'[e.id][i].key, ts |-> data'[e.id][i].ts, id |-> e.id]
  BY <1>2, <1>3 DEF Entry
<1>5. ~left' => e.id \in tocs'
  BY DEF EntriesHold, IsEntry
<1> QED BY <1>3, <1>4, <1>5 DEF IsEntryThen

LEMMA BatchHolds ==
  ASSUME EntriesHold, NEW b \in Batch, EntriesOf(b) PROVE EntriesThen(b)
<1> SUFFICES ASSUME b # Nil, NEW i \in DOMAIN b PROVE IsEntryThen(b[i])
  BY DEF EntriesThen
<1>1. b \in Seq(EntryRec)
  BY DEF Batch
<1>2. b[i] \in EntryRec
  BY <1>1
<1> QED BY <1>2, EntryHolds DEF EntriesOf

LEMMA EmptyHolds ==
  EntriesThen(<<>>) /\ EntriesThen(Nil)
BY DEF EntriesThen

LEMMA GoroutineHolds ==
  ASSUME EntriesHold, NEW g \in GoroutineRec, GoroutineNow(g) PROVE GoroutineThen(g)
<1>1. g.batch \in Batch
  BY DEF GoroutineRec, Batch
<1>2. EntriesThen(g.batch)
  BY <1>1, BatchHolds DEF GoroutineNow
<1> QED BY <1>2 DEF GoroutineNow, GoroutineThen

LEMMA TailHolds ==
  ASSUME NEW b \in Seq(EntryRec), b # <<>>, EntriesThen(b) PROVE EntriesThen(Tail(b))
<1>1. PICK q : q = Tail(b)
  OBVIOUS
<1>2. \A i \in DOMAIN q : i + 1 \in DOMAIN b /\ q[i] = b[i + 1]
  BY <1>1
<1>3. b # Nil
  BY NotNil
<1>4. \A i \in DOMAIN q : IsEntryThen(q[i])
  BY <1>2, <1>3 DEF EntriesThen
<1> QED BY <1>1, <1>4 DEF EntriesThen

LEMMA EntriesNow ==
  ASSUME CompactionInv
  PROVE  /\ \A c \in Chans, s \in Slots : gor[c][s] \in GoroutineRec /\ GoroutineNow(gor[c][s])
         /\ \A c \in Chans : /\ filling[c] \in Batch /\ EntriesOf(filling[c])
                             /\ pending[c] \in Seq(Batch)
                             /\ \A i \in DOMAIN pending[c] : /\ pending[c][i] \in Batch
                                                             /\ EntriesOf(pending[c][i])
         /\ IF task \in {"sample", "compact"} THEN todo \subseteq toc[worker[lock].file]
            ELSE todo = {} /\ \A c \in Chans : filling[c] = Nil
<1>1. /\ filling \in [Chans -> Batch] /\ pending \in [Chans -> Seq(Batch)]
      /\ gor \in [Chans -> [Slots -> GoroutineRec]] /\ EntriesOK
  BY DEF CompactionInv, TaskTypes
<1>2. \A c \in Chans : pending[c] \in Seq(Batch) /\ \A i \in DOMAIN pending[c] : pending[c][i] \in Batch
  BY <1>1
<1> QED BY <1>1, <1>2, EntriesParts

\* All that is on its way stays on its way.
LEMMA EntriesStay ==
  ASSUME CompactionInv, EntriesHold
  PROVE  /\ \A c \in Chans, s \in Slots : GoroutineThen(gor[c][s])
         /\ \A c \in Chans : EntriesThen(filling[c]) /\ \A i \in DOMAIN pending[c] : EntriesThen(pending[c][i])
<1>1. \A c \in Chans, s \in Slots : GoroutineThen(gor[c][s])
  BY EntriesNow, GoroutineHolds
<1>2. \A c \in Chans : EntriesThen(filling[c]) /\ \A i \in DOMAIN pending[c] : EntriesThen(pending[c][i])
  BY EntriesNow, BatchHolds
<1> QED BY <1>1, <1>2

LEMMA EntriesStable ==
  ASSUME CompactionInv, EntriesHold, UNCHANGED <<gor, filling, pending, todo, lock, task>>,
         lock # 0 => worker'[lock] = worker[lock]
  PROVE  EntriesOK'
<1>1. task \in {"sample", "compact"} => /\ todo \subseteq toc[worker[lock].file]
                                        /\ worker[lock].file \in FileIDs /\ lock # 0
  BY EntriesNow, HolderFacts DEF File
<1>2. task \in {"sample", "compact"} => todo' \subseteq toc'[worker'[lock'].file]
  BY <1>1 DEF EntriesHold
<1>3. task \notin {"sample", "compact"} => todo' = {} /\ \A c \in Chans : filling'[c] = Nil
  BY EntriesNow
<1> QED BY <1>2, <1>3, EntriesStay, EntriesParts

\* A goroutine has another record, entries another place.
LEMMA EntriesWork ==
  ASSUME CompactionInv, EntriesHold, NEW c \in Chans, NEW s \in Slots, NEW h,
         gor' = [gor EXCEPT ![c][s] = h], GoroutineThen(h),
         pending' = pending \/ (pending[c] # <<>> /\ pending' = [pending EXCEPT ![c] = Tail(@)]),
         UNCHANGED <<filling, todo, lock, task, worker>>
  PROVE  EntriesOK'
<1>1. \A d \in Chans, u \in Slots : GoroutineThen(gor'[d][u])
  <2>1. gor'[c][s] = h /\ \A d \in Chans, u \in Slots : d # c \/ u # s => gor'[d][u] = gor[d][u]
    <3>1. gor \in [Chans -> [Slots -> GoroutineRec]]
      BY DEF CompactionInv, TaskTypes
    <3> QED BY <3>1
  <2> QED BY <2>1, EntriesStay
<1>2. ASSUME NEW d \in Chans, NEW i \in DOMAIN pending'[d] PROVE EntriesThen(pending'[d][i])
  <2>1. CASE pending'[d] = pending[d]
    BY <1>2, <2>1, EntriesStay
  <2>2. CASE pending'[d] # pending[d]
    <3>1. pending \in [Chans -> Seq(Batch)]
      BY DEF CompactionInv, TaskTypes
    <3>2. d = c /\ pending'[d] = Tail(pending[d]) /\ pending[d] # <<>> /\ pending[d] \in Seq(Batch)
      BY <2>2, <3>1
    <3>3. i + 1 \in DOMAIN pending[d] /\ pending'[d][i] = pending[d][i + 1]
      BY <1>2, <3>2
    <3> QED BY <3>3, EntriesStay
  <2> QED BY <2>1, <2>2
<1>3. task \in {"sample", "compact"} => /\ todo \subseteq toc[worker[lock].file]
                                        /\ worker[lock].file \in FileIDs
  BY EntriesNow, HolderFacts DEF File
<1>4. task' \in {"sample", "compact"} => todo' \subseteq toc'[worker'[lock'].file]
  BY <1>3 DEF EntriesHold
<1>5. task' \notin {"sample", "compact"} => todo' = {} /\ \A d \in Chans : filling'[d] = Nil
  BY EntriesNow
<1>6. \A d \in Chans : EntriesThen(filling'[d])
  BY EntriesStay
<1> QED BY <1>1, <1>2, <1>4, <1>5, <1>6, EntriesParts

\* Once the goroutines of a compaction have ended nothing is on its way.
LEMMA Emptied ==
  ASSUME CompactionInv, task \in {"rewritten", "removing", "none"}, Finished, ~left,
         task # "none" \/ Orderly
  PROVE  /\ Orderly /\ slot = 1 /\ todo = {}
         /\ \A c \in Chans : /\ pending[c] = <<>> /\ filling[c] = Nil
                             /\ \A s \in Slots : gor[c][s].pc = "gone" /\ gor[c][s].batch = <<>>
<1>1. Orderly
  BY DEF Orderly
<1>2. slot = 1 /\ \A c \in Chans : ChannelOK(c)
  BY <1>1 DEF CompactionInv, ChannelsOK
<1>3. ASSUME NEW c \in Chans PROVE Ended(c)
  <2>1. gor[c][1].pc = "gone"
    BY <1>2 DEF Finished
  <2> QED BY <1>2, <2>1 DEF ChannelOK, Ending
<1>4. ASSUME NEW c \in Chans, NEW s \in Slots PROVE gor[c][s].pc = "gone"
  <2>1. s = 1 \/ s > slot
    BY <1>2 DEF Slots
  <2>2. s > slot => gor[c][s].pc = "gone"
    BY DEF CompactionInv, SlotsOK
  <2> QED BY <1>2, <2>1, <2>2 DEF Finished
<1>5. ASSUME NEW c \in Chans, NEW s \in Slots PROVE gor[c][s].batch = <<>>
  BY <1>4, EntriesNow DEF GoroutineNow, Busy
<1> QED BY <1>1, <1>2, <1>3, <1>4, <1>5, EntriesNow DEF Ended

LEMMA EntriesEntryStep ==
  ASSUME CompactionInv, NEW c \in Chans, NEW s \in Slots, EntryStep(c, s) PROVE EntriesOK'
<1>1. PICK h \in GoroutineRec :
        /\ gor' = [gor EXCEPT ![c][s] = h]
        /\ \/ Received(c, s, h) \/ Returned(c, s, h)
           \/ /\ gor[c][s].batch # <<>>
              /\ Sampled(c, s, h) \/ LookedUp(c, s, h) \/ HasRead(c, s, h)
  BY EntryStepEffect
<1>2. /\ UNCHANGED <<filling, todo, lock, task, worker, left>>
      /\ UNCHANGED <<toc, data, tocs>>
  BY EntryStepFrame DEF TaskFrame, store
<1>3. EntriesHold
  BY <1>2 DEF EntriesHold
<1>4. pending' = pending \/ (pending[c] # <<>> /\ pending' = [pending EXCEPT ![c] = Tail(@)])
  BY <1>1, AtChannels
<1>5. PICK g : g = gor[c][s]
  OBVIOUS
<1>6. g \in GoroutineRec /\ g.batch \in Seq(EntryRec) /\ GoroutineThen(g)
  <2>1. g \in GoroutineRec
    BY <1>5, EntriesNow
  <2> QED BY <1>3, <1>5, <2>1, EntriesStay DEF GoroutineRec
<1>7. GoroutineThen(h)
  <2>1. CASE Received(c, s, h)
    <3>1. g.pc = "wait" /\ g.batch = <<>>
      BY <1>5, <1>6, <2>1 DEF Received, GoroutineThen, Busy
    <3>2. CASE h.pc = "gone" /\ h.batch = g.batch
      BY <3>1, <3>2, EmptyHolds DEF GoroutineThen
    <3>3. CASE h = g
      BY <1>6, <3>3
    <3>4. CASE h.pc = "entry" /\ h.batch = Head(pending[c])
      <4>1. pending[c] \in Seq(Batch) /\ pending[c] # <<>>
        BY <2>1, EntriesNow DEF Received
      <4>2. Head(pending[c]) = pending[c][1] /\ 1 \in DOMAIN pending[c]
        BY <4>1
      <4>3. EntriesThen(h.batch)
        BY <1>3, <3>4, <4>2, EntriesStay
      <4> QED BY <3>4, <4>3 DEF GoroutineThen, Busy
    <3> QED BY <1>5, <2>1, <3>2, <3>3, <3>4 DEF Received
  <2>2. CASE Returned(c, s, h)
    BY <2>2, EmptyHolds DEF Returned, GoroutineThen
  <2>3. CASE /\ g.batch # <<>>
             /\ Sampled(c, s, h) \/ LookedUp(c, s, h) \/ HasRead(c, s, h)
    <3>1. EntriesThen(g.batch) /\ EntriesThen(Tail(g.batch)) /\ EntriesThen(<<>>)
      BY <1>6, <2>3, TailHolds, EmptyHolds DEF GoroutineThen
    <3>2. \/ h.pc = "entry" /\ h.batch \in {<<>>, Tail(g.batch)}
          \/ h.pc \in {"read", "write"} /\ h.batch = g.batch
      BY <1>5, <2>3, AtEntry
    <3>3. EntriesThen(h.batch) /\ Busy(h)
      BY <3>1, <3>2 DEF Busy
    <3>4. h.pc \in {"read", "write"} => h.batch # <<>>
      BY <2>3, <3>2
    <3> QED BY <3>3, <3>4, Zenon DEF GoroutineThen
  <2> QED BY <1>1, <1>5, <2>1, <2>2, <2>3
<1> QED BY <1>1, <1>2, <1>3, <1>4, <1>7, EntriesWork

LEMMA EntriesRewrite ==
  ASSUME CompactionInv, NEW c \in Chans, NEW s \in Slots, Rewrite(c, s) PROVE EntriesOK'
<1>1. UNCHANGED <<filling, pending, todo, lock, task, worker, left, toc, data, tocs>>
  BY DEF Rewrite, EntryFrame
<1>2. EntriesHold
  BY <1>1 DEF EntriesHold
<1>3. PICK g : g = gor[c][s]
  OBVIOUS
<1>4. /\ g.batch # <<>>
      /\ \/ gor' = [gor EXCEPT ![c][s] = [Done(g) EXCEPT !.batch = <<>>]]
         \/ gor' = [gor EXCEPT ![c][s] = Done(g)]
  BY <1>3, RewriteEffect, InvParts, Zenon
<1>5. g \in GoroutineRec /\ g.batch \in Seq(EntryRec) /\ GoroutineThen(g)
  <2>1. g \in GoroutineRec
    BY <1>3, EntriesNow
  <2> QED BY <1>2, <1>3, <2>1, EntriesStay DEF GoroutineRec
<1>6. GoroutineThen(Done(g)) /\ GoroutineThen([Done(g) EXCEPT !.batch = <<>>])
  <2>1. EntriesThen(Tail(g.batch)) /\ EntriesThen(<<>>)
    BY <1>4, <1>5, TailHolds, EmptyHolds DEF GoroutineThen
  <2>2. /\ Done(g).pc = "entry" /\ Done(g).batch = Tail(g.batch)
        /\ [Done(g) EXCEPT !.batch = <<>>].pc = "entry" /\ [Done(g) EXCEPT !.batch = <<>>].batch = <<>>
    BY <1>5 DEF Done, GoroutineRec
  <2> QED BY <2>1, <2>2 DEF GoroutineThen, Busy
<1>7. PICK h : gor' = [gor EXCEPT ![c][s] = h] /\ GoroutineThen(h)
  BY <1>4, <1>6
<1> QED BY <1>1, <1>2, <1>7, EntriesWork

LEMMA EntriesBegin ==
  ASSUME CompactionInv, NEW w \in Chans, TaskBegin(w) PROVE EntriesOK'
<1>1. /\ Active(w) /\ lock = 0 /\ pending' = pending
      /\ gor' = IF cancel /\ worker[w].pc = "compact" /\ slot > 1 THEN gor
                ELSE Started(worker[w].pc)
      /\ BeginFails(w) \/ Begun(w)
      /\ UNCHANGED <<toc, data, tocs>>
  BY TaskBeginEffect DEF TaskFrame, store
<1>2. EntriesHold
  BY <1>1 DEF EntriesHold, BeginFails, Begun
<1>3. \A c \in Chans, s \in Slots : GoroutineThen(gor'[c][s])
  <2>1. CASE gor' = gor
    BY <1>2, <2>1, EntriesStay
  <2>2. CASE gor' = Started(worker[w].pc)
    <3>1. gor \in [Chans -> [Slots -> GoroutineRec]] /\ slot \in Slots
      BY SlotFacts DEF CompactionInv, TaskTypes
    <3>2. PICK g : g = [pc |-> "wait", kind |-> worker[w].pc, batch |-> <<>>, val |-> 0]
      OBVIOUS
    <3>3. \A c \in Chans : gor'[c][slot] = g /\ \A s \in Slots \ {slot} : gor'[c][s] = gor[c][s]
      BY <2>2, <3>1, <3>2 DEF Started
    <3>4. GoroutineThen(g)
      BY <3>2, EmptyHolds DEF GoroutineThen
    <3> QED BY <1>2, <3>3, <3>4, EntriesStay
  <2> QED BY <1>1, <2>1, <2>2
<1>4. \A c \in Chans : \A i \in DOMAIN pending'[c] : EntriesThen(pending'[c][i])
  BY <1>1, <1>2, EntriesStay
<1>5. task = "none"
  BY <1>1 DEF CompactionInv, WorkersOK
<1>6. todo = {} /\ \A c \in Chans : filling[c] = Nil
  BY <1>5, EntriesNow
<1>7. CASE BeginFails(w)
  <2>1. UNCHANGED <<task, todo, filling>>
    BY <1>7 DEF BeginFails
  <2> QED BY <1>3, <1>4, <1>5, <1>6, <2>1, EmptyHolds, EntriesParts
<1>8. CASE Begun(w)
  <2>1. /\ task' \in {"sample", "compact"} /\ todo' = toc[worker[w].file] /\ lock' = w /\ worker' = worker
        /\ \A c \in Chans : filling'[c] \in {<<>>, Nil}
    BY <1>1, <1>8 DEF Begun, Active
  <2>2. \A c \in Chans : EntriesThen(filling'[c])
    BY <2>1, EmptyHolds
  <2>3. todo' \subseteq toc'[worker'[lock'].file]
    BY <1>1, <2>1
  <2> QED BY <1>3, <1>4, <2>1, <2>2, <2>3, EntriesParts
<1> QED BY <1>1, <1>7, <1>8

LEMMA EntriesReadBlock ==
  ASSUME CompactionInv, ReadBlock PROVE EntriesOK'
<1>1. /\ UNCHANGED <<lock, task, left, filling, pending, gor, worker, toc, data, tocs>>
      /\ task \in {"sample", "compact"}
  BY ReadBlockEffect DEF TaskFrame, store
<1>2. todo' \subseteq todo
  BY ReadBlockEffect DEF BlockRead, BlockMissed
<1>3. EntriesHold
  BY <1>1 DEF EntriesHold
<1>4. todo' \subseteq toc'[worker'[lock'].file]
  BY <1>1, <1>2, EntriesNow
<1> QED BY <1>1, <1>3, <1>4, EntriesStay, EntriesParts

LEMMA EntriesReadEntry ==
  ASSUME CompactionInv, ReadEntry PROVE EntriesOK'
<1>1. PICK i \in todo, c \in Chans, b \in Seq(EntryRec) : ReadInto(i, c, b)
  BY ReadEntryEffect
<1>2. /\ UNCHANGED <<lock, task, left, gor, worker, toc, data, tocs>>
      /\ task \in {"sample", "compact"}
  BY ReadEntryEffect DEF TaskFrame, store
<1>3. EntriesHold
  BY <1>2 DEF EntriesHold
<1>4. PICK e : e = Entry(File, i)
  OBVIOUS
<1>5. /\ i \in toc[File] /\ todo' = todo \ {i} /\ e \in EntryRec
      /\ b = IF filling[c] = Nil THEN <<e>> ELSE Append(filling[c], e)
      /\ \/ filling' = [filling EXCEPT ![c] = b] /\ pending' = pending
         \/ filling' = [filling EXCEPT ![c] = Nil] /\ pending' = [pending EXCEPT ![c] = Append(@, b)]
  BY <1>1, <1>4, Zenon DEF ReadInto
<1>6. IsEntryThen(e)
  <2>1. e.id = File
    BY <1>4 DEF Entry
  <2>2. ~left => File \in tocs
    BY <1>2, HolderFacts DEF CompactionInv, JobsOK, File
  <2>3. IsEntry(e)
    BY <1>4, <1>5, <2>1, <2>2 DEF IsEntry
  <2> QED BY <1>3, <1>5, <2>3, EntryHolds
<1>7. EntriesThen(b)
  <2>1. CASE filling[c] = Nil
    BY <1>5, <1>6, <2>1 DEF EntriesThen
  <2>2. CASE filling[c] # Nil
    <3>1. PICK a : a = filling[c]
      OBVIOUS
    <3>2. a \in Seq(EntryRec) /\ EntriesThen(a) /\ a # Nil /\ b = Append(a, e)
      BY <1>3, <1>5, <2>2, <3>1, EntriesNow, EntriesStay DEF Batch
    <3>3. \A j \in DOMAIN b : (j \in DOMAIN a /\ b[j] = a[j]) \/ b[j] = e
      BY <3>2
    <3> QED BY <1>6, <3>2, <3>3 DEF EntriesThen
  <2> QED BY <2>1, <2>2
<1>8. filling \in [Chans -> Batch] /\ pending \in [Chans -> Seq(Batch)]
  BY DEF CompactionInv, TaskTypes
<1>9. \A d \in Chans : EntriesThen(filling'[d])
  <2>1. \A d \in Chans : filling'[d] = filling[d] \/ filling'[d] = b \/ filling'[d] = Nil
    BY <1>5, <1>8
  <2> QED BY <1>3, <1>7, <2>1, EntriesStay, EmptyHolds
<1>10. ASSUME NEW d \in Chans, NEW j \in DOMAIN pending'[d] PROVE EntriesThen(pending'[d][j])
  <2>1. CASE pending'[d] = pending[d]
    BY <1>3, <1>10, <2>1, EntriesStay
  <2>2. CASE pending'[d] # pending[d]
    <3>1. pending'[d] = Append(pending[d], b) /\ pending[d] \in Seq(Batch)
      BY <1>5, <1>8, <2>2
    <3>2. (j \in DOMAIN pending[d] /\ pending'[d][j] = pending[d][j]) \/ pending'[d][j] = b
      BY <1>10, <3>1
    <3> QED BY <1>3, <1>7, <3>2, EntriesStay
  <2> QED BY <2>1, <2>2
<1>11. \A d \in Chans, s \in Slots : GoroutineThen(gor'[d][s])
  BY <1>2, <1>3, EntriesStay
<1>12. todo' \subseteq toc'[worker'[lock'].file]
  BY <1>2, <1>5, EntriesNow
<1> QED BY <1>2, <1>9, <1>10, <1>11, <1>12, EntriesParts

LEMMA EntriesReadEnd ==
  ASSUME CompactionInv, ReadEnd PROVE EntriesOK'
<1>1. /\ ReadCanceled \/ ReadAll
      /\ filling' = [c \in Chans |-> Nil] /\ todo' = {}
      /\ UNCHANGED <<left, gor, toc, data, tocs>>
  BY ReadEndEffect DEF TaskFrame, store
<1>2. EntriesHold
  BY <1>1 DEF EntriesHold
<1>3. task' \notin {"sample", "compact"}
  BY <1>1 DEF ReadCanceled, ReadAll
<1>4. ASSUME NEW c \in Chans, NEW i \in DOMAIN pending'[c] PROVE EntriesThen(pending'[c][i])
  <2>1. PICK p : p = pending[c] \o Rest(c)
    OBVIOUS
  <2>2. p \in Seq(Batch) /\ pending[c] \in Seq(Batch) /\ Nil \in Batch
    BY <2>1, RestTyped
  <2>3. pending'[c] = p \/ pending'[c] = Append(p, Nil)
    BY <1>1, <2>1 DEF ReadCanceled, ReadAll
  <2>4. ASSUME NEW j \in DOMAIN p PROVE EntriesThen(p[j])
    <3>1. p = pending[c] \/ p = Append(pending[c], filling[c])
      BY <2>1, RestTyped
    <3>2. filling[c] \in Batch
      BY EntriesNow
    <3>3. (j \in DOMAIN pending[c] /\ p[j] = pending[c][j]) \/ p[j] = filling[c]
      <4>1. CASE p = pending[c]
        BY <2>4, <4>1
      <4>2. CASE p = Append(pending[c], filling[c])
        BY <2>2, <2>4, <3>2, <4>2, SMTT(30)
      <4> QED BY <3>1, <4>1, <4>2
    <3> QED BY <1>2, <3>3, EntriesStay
  <2>5. (i \in DOMAIN p /\ pending'[c][i] = p[i]) \/ pending'[c][i] = Nil
    BY <1>4, <2>2, <2>3, SMTT(30)
  <2> QED BY <2>4, <2>5, EmptyHolds
<1>5. \A c \in Chans : EntriesThen(filling'[c]) /\ filling'[c] = Nil
  BY <1>1, EmptyHolds
<1>6. \A c \in Chans, s \in Slots : GoroutineThen(gor'[c][s])
  BY <1>1, <1>2, EntriesStay
<1> QED BY <1>1, <1>3, <1>4, <1>5, <1>6, EntriesParts

LEMMA EntriesEmpty ==
  ASSUME filling' = [c \in Chans |-> Nil], pending' = [c \in Chans |-> <<>>], gor' = Idle,
         todo' = {}, task' = "none"
  PROVE  EntriesOK'
<1>1. \A c \in Chans, s \in Slots : gor'[c][s].batch = <<>> /\ gor'[c][s].pc = "gone"
  BY DEF Idle
<1>2. \A c \in Chans, s \in Slots : GoroutineThen(gor'[c][s])
  BY <1>1, EmptyHolds DEF GoroutineThen
<1>3. \A c \in Chans : /\ EntriesThen(filling'[c]) /\ filling'[c] = Nil
                        /\ \A i \in DOMAIN pending'[c] : EntriesThen(pending'[c][i])
  BY EmptyHolds
<1> QED BY <1>2, <1>3, EntriesParts

\* The worker with the lock keeps its file beside the others.
LEMMA PassHolder ==
  ASSUME CompactionInv, PassStep, lock # 0 PROVE worker'[lock] = worker[lock]
<1>1. task # "none"
  BY DEF CompactionInv, WorkersOK
<1>2. lock \in Chans /\ Active(lock) /\ launcher \notin {"gone", "wait"}
  BY <1>1, HolderFacts
<1>3. ASSUME NEW w \in Chans, CompactionWorker(w) PROVE worker'[lock] = worker[lock]
  <2>1. w # lock /\ worker \in [Chans -> WorkerRec]
    BY <1>2, <1>3 DEF CompactionWorker, Active, CompactionInv, TaskTypes
  <2>2. worker' = worker \/ \E r : worker' = [worker EXCEPT ![w] = r]
    <3>1. CASE jobs # <<>>
      BY <1>3, <3>1 DEF CompactionWorker
    <3>2. CASE jobs = <<>>
      <4>1. worker' = [worker EXCEPT ![w] = [worker[w] EXCEPT !.pc = "gone"]]
        BY <1>3, <3>2, <2>1 DEF CompactionWorker
      <4> QED BY <4>1
    <3> QED BY <3>1, <3>2
  <2> QED BY <1>2, <2>1, <2>2
<1> QED BY <1>2, <1>3 DEF PassStep, CompactionLauncher, PassQueue, PassInterrupted, PassQueued, PassWait

LEMMA EntriesStep ==
  ASSUME CompactionInv, Next PROVE EntriesOK'
<1>1. ASSUME NEW w \in Writes, ClientWrite(w) PROVE EntriesOK'
  <2>1. UNCHANGED <<data, toc, tocs, left, gor, filling, pending, todo, lock, task, worker>>
    BY <1>1, ClientWriteStep DEF batchVars, pass
  <2> QED BY <2>1, EntriesStable DEF EntriesHold
<1>2. CASE PageOut \/ Flush
  <2>1. /\ UNCHANGED <<left, gor, filling, pending, todo, lock, task, worker>>
        /\ (\E f \in FileIDs : Paged(f)) \/ UNCHANGED <<data, toc, tocs>>
    BY <1>2, InvParts, PageEffect DEF batchVars, pass
  <2>2. EntriesHold
    <3>1. ASSUME NEW f \in FileIDs, Paged(f) PROVE EntriesHold
      <4>1. toc[f] = {} /\ tocs \subseteq tocs' /\ \A g \in FileIDs \ {f} : data'[g] = data[g] /\ toc'[g] = toc[g]
        BY <3>1, PagedFacts
      <4> QED BY <2>1, <4>1 DEF EntriesHold
    <3> QED BY <2>1, <3>1 DEF EntriesHold
  <2> QED BY <2>1, <2>2, EntriesStable
<1>3. CASE PassStep
  <2>1. UNCHANGED <<data, toc, tocs, left, gor, filling, pending, todo, lock, task>>
    BY <1>3, PassStepFrame DEF batchVars, store
  <2> QED BY <1>3, <2>1, PassHolder, EntriesStable DEF EntriesHold
<1>4. CASE ReaderStep
  BY <1>4, EntriesBegin, EntriesReadBlock, EntriesReadEntry, EntriesReadEnd DEF ReaderStep
<1>5. CASE EndStep \/ RemoveValues
  <2>1. /\ UNCHANGED <<data, toc, tocs, left, gor, filling, pending, todo>>
        /\ task \notin {"sample", "compact"} /\ task' = "none"
    <3>1. CASE EndStep
      BY <3>1, EndStepFrame, EndStepEffect DEF TaskFrame, store, Unlocked
    <3>2. CASE RemoveValues
      BY <3>2 DEF RemoveValues, Unlock
    <3> QED BY <1>5, <3>1, <3>2
  <2>2. EntriesHold
    BY <2>1 DEF EntriesHold
  <2>3. todo' = {} /\ \A c \in Chans : filling'[c] = Nil
    BY <2>1, EntriesNow
  <2> QED BY <2>1, <2>2, <2>3, EntriesStay, EntriesParts
<1>6. CASE RemoveTOC
  <2>1. /\ UNCHANGED <<data, toc, left, gor, filling, pending, todo, lock, worker>>
        /\ task = "rewritten" /\ task' = "removing" /\ Finished
    BY <1>6 DEF RemoveTOC, Removes, pass
  <2>2. todo' = {} /\ \A c \in Chans : filling'[c] = Nil
    BY <2>1, EntriesNow
  <2>3. CASE left
    <3>1. EntriesHold
      BY <2>1, <2>3 DEF EntriesHold
    <3> QED BY <2>1, <2>2, <3>1, EntriesStay, EntriesParts
  <2>4. CASE ~left
    <3>1. \A c \in Chans : /\ pending[c] = <<>>
                            /\ \A s \in Slots : gor[c][s].pc = "gone" /\ gor[c][s].batch = <<>>
      BY <2>1, <2>4, Emptied
    <3>2. \A c \in Chans, s \in Slots : GoroutineThen(gor'[c][s])
      BY <2>1, <3>1, EmptyHolds DEF GoroutineThen
    <3> QED BY <2>1, <2>2, <3>1, <3>2, EmptyHolds, EntriesParts
  <2> QED BY <2>3, <2>4
<1>7. CASE ShutdownStep
  <2>1. UNCHANGED <<data, toc, tocs, left, gor, filling, pending, todo, lock, task, worker>>
    BY <1>7, ShutdownStepFrame DEF batchVars, store
  <2> QED BY <2>1, EntriesStable DEF EntriesHold
<1>8. CASE Crash \/ Startup
  <2>1. /\ filling' = [c \in Chans |-> Nil] /\ pending' = [c \in Chans |-> <<>>] /\ gor' = Idle
        /\ todo' = {} /\ task' = "none"
    BY <1>8 DEF Crash, Startup
  <2> QED BY <2>1, EntriesEmpty
<1>9. CASE RecoverFile \/ (\E c \in Chans : RecoverEntry(c)) \/ RecoveryEnd \/ CompactionStartup
  <2>1. UNCHANGED <<data, toc, tocs, left, gor, filling, pending, todo, lock, task, worker>>
    BY <1>9 DEF RecoverFile, RecoverEntry, RecoveryEnd, CompactionStartup, RecoveryFrame,
       batchVars, pass
  <2> QED BY <2>1, EntriesStable DEF EntriesHold
<1> QED
  BY <1>1, <1>2, <1>3, <1>4, <1>5, <1>6, <1>7, <1>8, <1>9, EntriesEntryStep, EntriesRewrite, Steps

(***************************************************************************)
(* Recovery                                                                *)
(***************************************************************************)
\* Steps of a store that runs leave it running, or end it.
LEMMA AliveSteps ==
  ASSUME CompactionInv, Next
  PROVE  \/ Alive /\ Alive' /\ running' \in {running, "stopping"}
         \/ ShutdownStep \/ Crash \/ Startup \/ RecoverFile
         \/ \E c \in Chans : RecoverEntry(c)
         \/ RecoveryEnd \/ CompactionStartup
<1>1. ASSUME NEW w \in Writes, ClientWrite(w) PROVE Alive /\ running' = running
  BY <1>1, ClientWriteStep DEF life
<1>2. ASSUME PageOut \/ Flush PROVE Alive /\ running' = running
  BY <1>2, InvParts, PageEffect DEF life
<1>3. ASSUME PassStep \/ ReaderStep \/ EndStep \/ \E c \in Chans, s \in Slots : EntryStep(c, s)
      PROVE  Alive /\ running' = running
  BY <1>3, QuietSteps DEF Quiet
<1>4. ASSUME Alive, RemoveTOC \/ RemoveValues PROVE Alive /\ running' = running
  BY <1>4 DEF RemoveTOC, RemoveValues, life
<1>5. ASSUME NEW c \in Chans, NEW s \in Slots, Rewrite(c, s) PROVE Alive /\ running' = running
  BY <1>5, RewriteStep, Zenon
<1>6. ASSUME Alive, running' = running PROVE Alive' /\ running' \in {running, "stopping"}
  BY <1>6 DEF Alive
<1> QED BY <1>1, <1>2, <1>3, <1>4, <1>5, <1>6, Steps

LEMMA RecoverFileRecovery ==
  ASSUME CompactionInv, RecoverFile PROVE RecoveryOK'
<1>1. /\ UNCHANGED <<running, lm, data, toc, values, tocs>> /\ running = "recovering"
  BY DEF RecoverFile, RecoveryFrame
<1>2. PICK f \in Oldest(replay) :
          /\ replay' = replay \ {f}
          /\ queue' = [c \in Chans |->
                        queue[c] \cup {[id |-> f, off |-> i] :
                                        i \in {i \in toc[f] : Readable(f) /\ Chan(data[f][i].key) = c}}]
  BY DEF RecoverFile
<1>3. RecoveryOK /\ replay \subseteq FileIDs /\ tocs \subseteq FileIDs
  BY DEF CompactionInv, StoreTypes
<1>4. ASSUME NEW c \in Chans, NEW q \in queue'[c] PROVE q.id \in tocs \cap values /\ q.off \in toc[q.id]
  <2>1. CASE q \in queue[c]
    BY <1>1, <1>3, <2>1 DEF RecoveryOK
  <2>2. CASE q \notin queue[c]
    <3>1. PICK i \in toc[f] : Readable(f) /\ q = [id |-> f, off |-> i]
      BY <1>2, <1>4, <2>2
    <3>2. q.id = f /\ q.off = i /\ f \in values
      BY <3>1 DEF Readable
    <3>3. f \in FileIDs
      BY <1>3 DEF Oldest
    <3>4. f \in tocs
      BY <1>1, <1>2, <1>3 DEF RecoveryOK, Oldest
    <3> QED BY <3>1, <3>2, <3>4
  <2> QED BY <2>1, <2>2
<1>5. ASSUME NEW g \in tocs \cap values, NEW i \in toc[g]
      PROVE  \/ g \in replay'
             \/ [id |-> g, off |-> i] \in queue'[Chan(data[g][i].key)]
             \/ data[g][i].ts <= lm[data[g][i].key].ts
  <2>1. data[g][i].key \in Keys
    BY <1>3, <1>5, EntryTyped
  <2>2. PICK c \in Chans : c = Chan(data[g][i].key)
    BY <2>1, ChanInChans
  <2>3. queue[c] \subseteq queue'[c]
    BY <1>2
  <2>4. CASE g = f
    <3>1. i \in {j \in toc[f] : Readable(f) /\ Chan(data[f][j].key) = c}
      BY <1>5, <2>2, <2>4 DEF Readable
    <3>2. [id |-> f, off |-> i] \in queue'[c]
      BY <1>2, <3>1
    <3> QED BY <2>2, <2>4, <3>2
  <2>5. CASE g # f
    BY <1>1, <1>2, <1>3, <1>5, <2>2, <2>3, <2>5 DEF RecoveryOK
  <2> QED BY <2>4, <2>5
<1>6. /\ replay' \subseteq tocs
      /\ \A k \in Keys : lm[k].id \in {0} \cup (tocs \cap values)
  BY <1>1, <1>2, <1>3 DEF RecoveryOK
<1> QED BY <1>1, <1>4, <1>5, <1>6 DEF RecoveryOK

LEMMA RecoverEntryRecovery ==
  ASSUME CompactionInv, NEW c \in Chans, RecoverEntry(c) PROVE RecoveryOK'
<1>1. /\ UNCHANGED <<running, replay, data, toc, values, tocs>> /\ running = "recovering"
  BY DEF RecoverEntry, RecoveryFrame
<1>2. PICK e \in queue[c] : Recovered(c, e)
  BY RecoverEntryEffect
<1>3. PICK v : v = data[e.id][e.off]
  OBVIOUS
<1>4. /\ e.id \in tocs \cap values /\ v \in ValueRec
      /\ queue' = [queue EXCEPT ![c] = @ \ {e}]
      /\ \/ lm' = lm /\ v.ts < lm[v.key].ts
         \/ /\ lm[v.key].ts <= v.ts
            /\ lm' = [lm EXCEPT ![v.key] = [ts |-> v.ts, id |-> e.id, off |-> e.off]]
  BY <1>2, <1>3, Zenon DEF Recovered
<1>5. v.key \in Keys /\ v.ts \in Nat
  BY <1>4 DEF ValueRec
<1>6. /\ lm \in [Keys -> [ts : Nat, id : 0..(MaxFiles + 1), off : Nat]] /\ RecoveryOK
      /\ queue \in [Chans -> SUBSET [id : FileIDs, off : Nat]] /\ tocs \subseteq FileIDs
  BY InvParts DEF CompactionInv, StoreTypes
<1>7. \A k \in Keys : /\ lm'[k] = lm[k] \/ (k = v.key /\ lm'[k].id = e.id)
                      /\ lm[k].ts \in Nat /\ lm'[k].ts \in Nat /\ lm'[k].ts >= lm[k].ts
  BY <1>4, <1>5, <1>6
<1>8. lm'[v.key].ts >= v.ts
  BY <1>4, <1>5, <1>6
<1>9. \A d \in Chans : queue'[d] \subseteq queue[d] /\ \A q \in queue[d] : q \in queue'[d] \/ q = e
  BY <1>4, <1>6
<1>10. ASSUME NEW f \in tocs \cap values, NEW i \in toc[f]
       PROVE  \/ f \in replay
              \/ [id |-> f, off |-> i] \in queue'[Chan(data[f][i].key)]
              \/ data[f][i].ts <= lm'[data[f][i].key].ts
  <2>1. PICK u : u = data[f][i]
    OBVIOUS
  <2>2. u.key \in Keys /\ u.ts \in Nat
    BY <1>6, <1>10, <2>1, EntryTyped
  <2>3. PICK d \in Chans : d = Chan(u.key)
    BY <2>2, ChanInChans
  <2>4. \/ f \in replay \/ [id |-> f, off |-> i] \in queue[d] \/ u.ts <= lm[u.key].ts
    BY <1>1, <1>6, <1>10, <2>1, <2>3 DEF RecoveryOK
  <2>5. CASE [id |-> f, off |-> i] = e
    <3>1. u = v
      BY <1>3, <2>1, <2>5
    <3> QED BY <1>8, <2>1, <3>1, <1>5
  <2>6. CASE [id |-> f, off |-> i] \in queue[d] /\ [id |-> f, off |-> i] # e
    BY <1>9, <2>1, <2>3, <2>6
  <2>7. CASE u.ts <= lm[u.key].ts
    <3>1. u.ts <= lm'[u.key].ts
      BY <1>7, <2>2, <2>7
    <3> QED BY <2>1, <3>1
  <2> QED BY <2>4, <2>5, <2>6, <2>7
<1>11. \A k \in Keys : lm'[k].id \in {0} \cup (tocs \cap values)
  BY <1>1, <1>4, <1>6, <1>7 DEF RecoveryOK
<1>12. \A d \in Chans : \A q \in queue'[d] : q.id \in tocs \cap values /\ q.off \in toc[q.id]
  BY <1>1, <1>6, <1>9 DEF RecoveryOK
<1>13. replay' \subseteq tocs
  BY <1>1, <1>6 DEF RecoveryOK
<1> QED BY <1>1, <1>10, <1>11, <1>12, <1>13 DEF RecoveryOK

LEMMA RecoveryStep ==
  ASSUME CompactionInv, Next PROVE RecoveryOK'
<1>0. RecoveryOK
  BY DEF CompactionInv
<1>1. CASE running' \notin {"recovering", "recovered"}
  BY <1>1 DEF RecoveryOK
<1>2. CASE Startup
  <2>1. /\ running' = "recovering" /\ lm' = [k \in Keys |-> Missing] /\ replay' = tocs
        /\ queue' = [c \in Chans |-> {}] /\ UNCHANGED <<data, toc, values, tocs>>
    BY <1>2 DEF Startup
  <2> QED BY <2>1 DEF RecoveryOK, Missing
<1>3. CASE RecoveryEnd
  <2>1. /\ running = "recovering" /\ replay = {} /\ \A c \in Chans : queue[c] = {}
        /\ UNCHANGED <<lm, replay, queue, data, toc, values, tocs, open>>
        /\ running' = "recovered" => open \cap values = {}
    BY <1>3 DEF RecoveryEnd, RecoveryFrame
  <2> QED BY <1>0, <2>1 DEF RecoveryOK
<1>4. Alive' \/ ShutdownStep \/ Crash \/ CompactionStartup => running' \notin {"recovering", "recovered"}
  BY DEF Alive, ShutdownStep, Shutdown, ShutdownReturns, RewriteAfterShutdown, Crash,
     CompactionStartup
<1> QED BY <1>1, <1>2, <1>3, <1>4, AliveSteps, RecoverFileRecovery, RecoverEntryRecovery

(***************************************************************************)
(* The files that stay                                                     *)
(***************************************************************************)
LEMMA KeptFacts ==
  /\ task # "removing" => Kept = tocs \cap values
  /\ task = "removing" => Kept = (tocs \cap values) \ {File}
BY DEF Kept

LEMMA KeptThen ==
  /\ task' # "removing" => Kept' = tocs' \cap values'
  /\ task' = "removing" => Kept' = (tocs' \cap values') \ {worker'[lock'].file}
BY DEF Kept, File

LEMMA KeptHolds ==
  ASSUME CompactionInv, Next PROVE (Alive /\ RemoveTOC) \/ Kept \subseteq Kept'
<1>1. ASSUME UNCHANGED <<task, lock>>, tocs \subseteq tocs', values \subseteq values',
             lock # 0 => worker'[lock] = worker[lock]
      PROVE  Kept \subseteq Kept'
  <2>1. task = "removing" => lock # 0
    BY HolderFacts
  <2> QED BY <1>1, <2>1, KeptFacts, KeptThen DEF File
<1>2. ASSUME task' # "removing", tocs \subseteq tocs', values \subseteq values'
      PROVE  Kept \subseteq Kept'
  BY <1>2, KeptFacts, KeptThen
<1>3. ASSUME NEW w \in Writes, ClientWrite(w) PROVE Kept \subseteq Kept'
  BY <1>1, <1>3, ClientWriteStep DEF batchVars, pass
<1>4. ASSUME PageOut \/ Flush PROVE Kept \subseteq Kept'
  <2>1. /\ UNCHANGED <<task, lock, worker>>
        /\ (\E f \in FileIDs : Paged(f)) \/ UNCHANGED <<tocs, values>>
    BY <1>4, InvParts, PageEffect DEF batchVars, pass
  <2>2. tocs \subseteq tocs' /\ values \subseteq values'
    BY <2>1 DEF Paged
  <2> QED BY <1>1, <2>1, <2>2
<1>5. ASSUME PassStep PROVE Kept \subseteq Kept'
  BY <1>1, <1>5, PassStepFrame, PassHolder DEF batchVars, store
<1>6. ASSUME ReaderStep PROVE Kept \subseteq Kept'
  <2>1. UNCHANGED <<tocs, values>>
    BY <1>6, ReaderStepFrame DEF TaskFrame, store
  <2>2. task' # "removing"
    <3>1. ASSUME NEW w \in Chans, TaskBegin(w) PROVE task' # "removing"
      <4>1. /\ worker[w].pc \in {"sample", "compact"} /\ lock = 0
            /\ task' = task \/ task' = worker[w].pc
        BY <3>1, TaskBeginEffect DEF BeginFails, Begun, Active
      <4> QED BY <4>1 DEF CompactionInv, WorkersOK
    <3>2. ASSUME ReadBlock \/ ReadEntry PROVE task' # "removing"
      BY <3>2, ReadBlockEffect, ReadEntryEffect
    <3>3. ASSUME ReadEnd PROVE task' # "removing"
      BY <3>3, ReadEndEffect DEF ReadCanceled, ReadAll
    <3> QED BY <1>6, <3>1, <3>2, <3>3 DEF ReaderStep
  <2> QED BY <1>2, <2>1, <2>2
<1>7. ASSUME EndStep PROVE Kept \subseteq Kept'
  BY <1>2, <1>7, EndStepFrame, EndStepEffect DEF Unlocked, TaskFrame, store
<1>8. ASSUME RemoveValues PROVE Kept \subseteq Kept'
  <2>1. task = "removing" /\ task' = "none" /\ tocs' = tocs /\ values' = values \ {File}
    BY <1>8 DEF RemoveValues, Unlock
  <2> QED BY <2>1, KeptFacts, KeptThen
<1>9. ASSUME NEW c \in Chans, NEW s \in Slots, EntryStep(c, s) PROVE Kept \subseteq Kept'
  BY <1>1, <1>9, EntryStepFrame DEF TaskFrame, store
<1>10. ASSUME NEW c \in Chans, NEW s \in Slots, Rewrite(c, s) PROVE Kept \subseteq Kept'
  BY <1>1, <1>10 DEF Rewrite, EntryFrame
<1>11. ASSUME ShutdownStep PROVE Kept \subseteq Kept'
  BY <1>1, <1>11, ShutdownStepFrame DEF batchVars, store
<1>12. ASSUME Crash \/ Startup PROVE Kept \subseteq Kept'
  BY <1>2, <1>12 DEF Crash, Startup
<1>13. ASSUME RecoverFile \/ (\E c \in Chans : RecoverEntry(c)) \/ RecoveryEnd \/ CompactionStartup
       PROVE  Kept \subseteq Kept'
  BY <1>1, <1>13 DEF RecoverFile, RecoverEntry, RecoveryEnd, CompactionStartup, RecoveryFrame,
                     batchVars, pass
<1> QED
  BY <1>3, <1>4, <1>5, <1>6, <1>7, <1>8, <1>9, <1>10, <1>11, <1>12, <1>13, Steps

\* Recovery has no call under way.
LEMMA NoTask ==
  ASSUME CompactionInv, ~Alive, running \notin {"down", "panicked"} PROVE task = "none"
<1>1. running \in {"recovering", "recovered"}
  BY DEF CompactionInv, StoreTypes, Alive
<1>2. launcher = "gone"
  BY <1>1 DEF CompactionInv, WorkersOK
<1> QED BY <1>2, HolderFacts

\* Of a location, is it that of an entry that is lost?
LostThen(k) == [key |-> k, ts |-> lm'[k].ts, id |-> lm'[k].id] \in lost'

LEMMA LostParts ==
  ASSUME NEW k
  PROVE  /\ Lost(lost, lm, k) <=> [key |-> k, ts |-> lm[k].ts, id |-> lm[k].id] \in lost
         /\ Lost(lost', lm', k) <=> LostThen(k)
         /\ Lost(lost, lm, k)' <=> LostThen(k)
         /\ lost \subseteq lost' /\ lm'[k] = lm[k] /\ Lost(lost, lm, k) => LostThen(k)
BY DEF Lost, LostThen

\* What a removal loses.
LEMMA RemoveLoses ==
  ASSUME CompactionInv, RemoveTOC
  PROVE  /\ lost \subseteq lost' /\ missed \subseteq lost' /\ lost' \subseteq lost \cup missed
         /\ lm' = lm /\ flushed' = [k \in Keys |-> IF LostThen(k) THEN 0 ELSE flushed[k]]
<1>1. /\ lost' = IF anyRead THEN lost \cup missed ELSE lost
      /\ tocErr => anyRead
      /\ flushed' = [k \in Keys |-> IF Lost(lost', lm, k) THEN 0 ELSE flushed[k]] /\ lm' = lm
  BY DEF RemoveTOC, Removes
<1>2. missed # {} => tocErr
  BY DEF CompactionInv, LostOK
<1>3. \A k \in Keys : Lost(lost', lm, k) <=> LostThen(k)
  BY <1>1 DEF Lost, LostThen
<1> QED BY <1>1, <1>2, <1>3

\* Entries that are lost stay lost until the next start.
LEMMA LostGrows ==
  ASSUME CompactionInv, Next PROVE lost \subseteq lost' \/ lm' = [k \in Keys |-> Missing]
<1>1. ASSUME NEW w \in Writes, ClientWrite(w) PROVE lost' = lost
  BY <1>1 DEF ClientWrite
<1>2. ASSUME PageOut \/ Flush PROVE lost' = lost
  BY <1>2 DEF PageOut, Flush
<1>3. ASSUME PassStep \/ ReaderStep \/ EndStep \/ \E c \in Chans, s \in Slots : EntryStep(c, s)
      PROVE  lost' = lost
  BY <1>3, QuietSteps DEF Quiet, store
<1>4. ASSUME RemoveValues PROVE lost' = lost
  BY <1>4 DEF RemoveValues
<1>5. ASSUME NEW c \in Chans, NEW s \in Slots, Rewrite(c, s) PROVE lost' = lost
  BY <1>5 DEF Rewrite
<1>6. ASSUME ShutdownStep PROVE lost' = lost
  BY <1>6, ShutdownStepFrame DEF store
<1>7. ASSUME RecoverFile \/ (\E c \in Chans : RecoverEntry(c)) \/ RecoveryEnd \/ CompactionStartup
      PROVE  lost' = lost
  BY <1>7 DEF RecoverFile, RecoverEntry, RecoveryEnd, CompactionStartup, RecoveryFrame
<1>8. ASSUME Crash \/ Startup PROVE lm' = [k \in Keys |-> Missing]
  BY <1>8 DEF Crash, Startup
<1> QED BY <1>1, <1>2, <1>3, <1>4, <1>5, <1>6, <1>7, <1>8, RemoveLoses, Steps

\* No location that can be read leads to a file that is removed, but for those of
\* entries that were missed.
LEMMA NothingLeadsThere ==
  ASSUME CompactionInv, RemoveTOC, ~left, NEW k \in Keys, Live(lm[k]), ~LostThen(k)
  PROVE  lm[k].id # File
<1>1. task = "rewritten" /\ Finished /\ ~readErr /\ ~writeErr
  BY DEF RemoveTOC, Removes
<1>4. ~Lost(missed, lm, k)
  BY RemoveLoses DEF Lost, LostThen
<1>2. /\ Orderly /\ todo = {}
      /\ \A c \in Chans : pending[c] = <<>> /\ filling[c] = Nil /\ gor[c][1].batch = <<>>
  <2>1. 1 \in Slots
    BY SlotFacts
  <2> QED BY <1>1, <2>1, Emptied
<1>3. ~InFlight(k)
  BY <1>2 DEF InFlight, Has
<1> QED BY <1>1, <1>2, <1>3, <1>4 DEF CompactionInv, RewritesOK

\* A write leaves the locations of other keys.
LEMMA WriteLocations ==
  ASSUME CompactionInv, NEW j, NEW t, NEW v, WriteStep(j, t, v), NEW k \in Keys
  PROVE  /\ lm'[k] = lm[k] \/ k = j
         /\ k = j => /\ lm'[k].id = MEM /\ lm'[k].ts = t /\ lm'[k].off = Len(mem) + 1
                    /\ lm[k].ts <= t /\ lm[k].ts \in Nat
<1>1. j \in Keys /\ t \in Nat /\ v \in Nat /\ Written(j, t, v)
  BY DEF WriteStep
<1>2. /\ \A i \in Keys \ {j} : lm'[i] = lm[i]
      /\ lm'[j] = [ts |-> t, id |-> MEM, off |-> Len(mem) + 1]
      /\ lm[j].ts \in Nat /\ lm[j].ts <= t
  BY <1>1, WrittenMem
<1>3. lm'[j].id = MEM /\ lm'[j].ts = t /\ lm'[j].off = Len(mem) + 1
  BY <1>2
<1> QED BY <1>2, <1>3

LEMMA KeptStep ==
  ASSUME CompactionInv, Next PROVE LocationsKept'
<1> SUFFICES ASSUME ~left', NEW k \in Keys, Live(lm'[k]), ~LostThen(k)
             PROVE  lm'[k].id \in {MEM} \cup Kept'
  BY LostParts DEF LocationsKept, Live
<1>0. LocationsKept
  BY DEF CompactionInv
<1>1. CASE Kept \subseteq Kept' /\ lm'[k] = lm[k] /\ ~left
  <2>1. CASE lost \subseteq lost'
    BY <1>0, <1>1, <2>1, LostParts DEF LocationsKept
  <2>2. CASE lm'[k] = Missing
    BY <2>2 DEF Live, Missing
  <2> QED BY <2>1, <2>2, LostGrows
<1>2. CASE lm'[k].id = MEM
  BY <1>2
<1>3. CASE lm'[k] = Missing
  BY <1>3 DEF Live, Missing
<1>4. ASSUME NEW w \in Writes, ClientWrite(w) PROVE lm'[k].id \in {MEM} \cup Kept'
  <2>1. lm'[k] = lm[k] \/ lm'[k].id = MEM
    BY <1>4, ClientWriteStep, WriteLocations
  <2>2. left' = left /\ ~RemoveTOC
    BY <1>4, ClientWriteStep DEF batchVars, RemoveTOC
  <2> QED BY <1>1, <1>2, <1>4, <2>1, <2>2, KeptHolds
<1>5. CASE PageOut \/ Flush
  <2>1. /\ UNCHANGED <<task, lock, worker, left>>
        /\ \/ \E f \in FileIDs : Paged(f)
           \/ UNCHANGED <<data, toc, values, tocs, lm, mem>>
    BY <1>5, InvParts, PageEffect DEF batchVars, pass
  <2>2. ~RemoveTOC
    BY <2>1 DEF RemoveTOC
  <2>3. CASE lm' = lm
    BY <1>1, <2>1, <2>2, <2>3, KeptHolds
  <2>4. ASSUME NEW f \in FileIDs, Paged(f), lm[k].id = MEM, ~Removal(lm[k].ts)
        PROVE  lm'[k].id \in Kept'
    <3>1. lm'[k].id = f /\ f \in tocs' /\ f \in values' /\ data[f] = <<>>
      <4>1. /\ lm'[k] = [ts |-> lm[k].ts, id |-> f, off |-> lm[k].off]
            /\ f \in tocs' /\ f \in values' /\ data[f] = <<>>
        BY <2>4, PagedFacts
      <4>2. lm'[k].id = f
        BY <4>1
      <4> QED BY <4>1, <4>2
    <3>2. task = "removing" => File # f
      BY <3>1, HolderFacts
    <3> QED BY <2>1, <3>1, <3>2, KeptThen DEF File
  <2>5. ASSUME NEW f \in FileIDs, Paged(f) PROVE lm'[k].id \in {MEM} \cup Kept'
    <3>1. \/ lm'[k] = lm[k] \/ lm'[k] = Missing \/ (lm[k].id = MEM /\ ~Removal(lm[k].ts))
      BY <2>5, PagedFacts
    <3> QED BY <1>1, <1>3, <2>1, <2>2, <2>4, <2>5, <3>1, KeptHolds
  <2> QED BY <2>1, <2>3, <2>5
<1>6. CASE PassStep \/ ReaderStep \/ EndStep \/ \E c \in Chans, s \in Slots : EntryStep(c, s)
  <2>1. lm' = lm /\ tocs' = tocs /\ values' = values
    BY <1>6, QuietSteps DEF Quiet, store
  <2>2. ~left
    <3>1. ASSUME ReaderStep PROVE ~left
      <4>1. ASSUME NEW w \in Chans, TaskBegin(w) PROVE ~left
        BY <4>1, TaskBeginEffect DEF BeginFails, Begun
      <4> QED BY <3>1, <4>1, ReadBlockEffect, ReadEntryEffect, ReadEndEffect DEF ReaderStep
    <3> QED BY <1>6, <3>1, PassStepFrame, EndStepFrame, EntryStepFrame DEF batchVars
  <2>3. Kept \subseteq Kept'
    <3>1. ~RemoveTOC
      <4>1. ASSUME RemoveTOC PROVE FALSE
        <5>1. task = "rewritten" /\ task' = "removing"
          BY <4>1 DEF RemoveTOC
        <5>2. task' = task \/ task' \in {"none", "sample", "compact", "sampled", "rewritten"}
          <6>1. ASSUME ReaderStep PROVE task' = task \/ task' \in {"none", "sample", "compact", "sampled", "rewritten"}
            <7>1. ASSUME NEW w \in Chans, TaskBegin(w) PROVE task' = task \/ task' \in {"sample", "compact"}
              BY <7>1, TaskBeginEffect DEF BeginFails, Begun, Active
            <7> QED BY <6>1, <7>1, ReadBlockEffect, ReadEntryEffect, ReadEndEffect
                    DEF ReaderStep, ReadCanceled, ReadAll
          <6> QED BY <1>6, <6>1, PassStepFrame, EndStepEffect, EntryStepFrame DEF batchVars, Unlocked
        <5> QED BY <5>1, <5>2
      <4> QED BY <4>1
    <3> QED BY <3>1, KeptHolds
  <2> QED BY <1>1, <2>1, <2>2, <2>3
<1>7. CASE Alive /\ RemoveTOC
  <2>1. /\ UNCHANGED <<left, lm, values, worker, lock>> /\ task' = "removing" /\ task = "rewritten"
        /\ tocs \ {File} \subseteq tocs'
    BY <1>7 DEF RemoveTOC, pass
  <2>2. lm[k].id # File /\ lm[k].id \in {MEM} \cup Kept
    <3>1. ~Lost(lost, lm, k)
      BY <1>7, <2>1, RemoveLoses, LostParts
    <3> QED BY <1>0, <1>7, <2>1, <3>1, NothingLeadsThere DEF LocationsKept
  <2> QED BY <2>1, <2>2, KeptFacts, KeptThen DEF File
<1>8. CASE RemoveValues
  <2>1. UNCHANGED <<left, lm>> /\ task' = "none"
    BY <1>8 DEF RemoveValues, Unlock
  <2>2. ~RemoveTOC
    BY <2>1 DEF RemoveTOC
  <2> QED BY <1>1, <2>1, <2>2, KeptHolds
<1>9. ASSUME NEW c \in Chans, NEW s \in Slots, Rewrite(c, s) PROVE lm'[k].id \in {MEM} \cup Kept'
  <2>1. \/ \E j, t, v : WriteStep(j, t, v)
        \/ UNCHANGED <<mem, lm, older>>
    BY <1>9, RewriteStep, Zenon
  <2>2. lm'[k] = lm[k] \/ lm'[k].id = MEM
    BY <2>1, WriteLocations
  <2>3. left' = left /\ ~RemoveTOC
    BY <1>9 DEF Rewrite, EntryFrame, RemoveTOC
  <2> QED BY <1>1, <1>2, <2>2, <2>3, KeptHolds
<1>10. CASE ShutdownStep
  <2>1. UNCHANGED <<left, lm, task>>
    BY <1>10, ShutdownStepFrame DEF batchVars, store
  <2>2. ~RemoveTOC
    BY <2>1 DEF RemoveTOC
  <2> QED BY <1>1, <2>1, <2>2, KeptHolds
<1>11. CASE Crash \/ Startup
  BY <1>3, <1>11 DEF Crash, Startup
<1>12. CASE RecoverFile \/ (\E c \in Chans : RecoverEntry(c)) \/ RecoveryEnd \/ CompactionStartup
  <2>1. running \in {"recovering", "recovered"} /\ UNCHANGED <<task, tocs, values>>
    BY <1>12 DEF RecoverFile, RecoverEntry, RecoveryEnd, CompactionStartup, RecoveryFrame, batchVars
  <2>2. task' = "none"
    BY <2>1, NoTask DEF Alive
  <2>3. lm'[k].id \in {0} \cup (tocs' \cap values')
    <3>1. CASE running' \in {"recovering", "recovered"}
      BY <3>1, RecoveryStep DEF RecoveryOK
    <3>2. CASE running' \notin {"recovering", "recovered"}
      <4>1. UNCHANGED <<lm, tocs, values>>
        BY <1>12, <2>1, <3>2 DEF RecoverFile, RecoverEntry, RecoveryEnd, CompactionStartup,
           RecoveryFrame
      <4> QED BY <2>1, <4>1 DEF CompactionInv, RecoveryOK
    <3> QED BY <3>1, <3>2
  <2> QED BY <2>2, <2>3, KeptThen DEF Live
<1> QED
  BY <1>4, <1>5, <1>6, <1>7, <1>8, <1>9, <1>10, <1>11, <1>12, Steps

(***************************************************************************)
(* The timestamps of rewritten values                                      *)
(***************************************************************************)
\* The parts of TimestampsOK before and after a step.
OwnBut(s, keys) == \A i \in DOMAIN s : s[i].key \notin keys => s[i].val = s[i].ts
WritesOwn(g, keys) == g.pc = "write" /\ Head(g.batch).key \notin keys => g.val = Head(g.batch).ts
BehindThen(k, ts) == \E f \in tocs' : \E i \in toc'[f] : data'[f][i].key = k /\ data'[f][i].ts > ts

LEMMA TimestampsParts ==
  /\ TimestampsOK <=> (~left =>
       /\ OwnBut(mem, older) /\ \A f \in FileIDs : OwnBut(data[f], older)
       /\ running \in {"recovered", "up", "stopping"} =>
            \A k \in Keys \ older : lm[k].id = 0 \/ ~Behind(k, lm[k].ts)
       /\ \A c \in Chans, s \in Slots : WritesOwn(gor[c][s], older))
  /\ TimestampsOK' <=> (~left' =>
       /\ OwnBut(mem', older') /\ \A f \in FileIDs : OwnBut(data'[f], older')
       /\ running' \in {"recovered", "up", "stopping"} =>
            \A k \in Keys \ older' : lm'[k].id = 0 \/ ~BehindThen(k, lm'[k].ts)
       /\ \A c \in Chans, s \in Slots : WritesOwn(gor'[c][s], older'))
BY DEF TimestampsOK, OwnTimestamps, OwnBut, WritesOwn, Behind, BehindThen

LEMMA HistoryGrows ==
  ASSUME CompactionInv, Next PROVE older \subseteq older' /\ (left => left')
<1>1. ASSUME NEW w \in Writes, ClientWrite(w) PROVE older \subseteq older' /\ (left => left')
  BY <1>1, ClientWriteStep DEF WriteStep, Written, batchVars
<1>2. ASSUME PageOut \/ Flush PROVE older \subseteq older' /\ (left => left')
  BY <1>2, InvParts, PageEffect DEF batchVars
<1>3. ASSUME PassStep PROVE older \subseteq older' /\ (left => left')
  BY <1>3, PassStepFrame DEF batchVars, store
<1>4. ASSUME ReaderStep PROVE older \subseteq older' /\ (left => left')
  <2>1. ASSUME NEW w \in Chans, TaskBegin(w) PROVE left => left'
    BY <2>1, TaskBeginEffect DEF BeginFails, Begun
  <2>2. (ReadBlock => left' = left) /\ (ReadEntry => left' = left) /\ (ReadEnd => left' = left)
    BY DEF ReadBlock, ReadEntry, ReadEnd
  <2>3. left => left'
    BY <1>4, <2>1, <2>2, Zenon DEF ReaderStep
  <2> QED BY <1>4, <2>3, ReaderStepFrame DEF TaskFrame, store
<1>5. ASSUME EndStep PROVE older \subseteq older' /\ (left => left')
  BY <1>5, EndStepFrame DEF TaskFrame, store
<1>6. ASSUME RemoveTOC \/ RemoveValues PROVE older \subseteq older' /\ (left => left')
  BY <1>6 DEF RemoveTOC, RemoveValues
<1>7. ASSUME NEW c \in Chans, NEW s \in Slots, EntryStep(c, s) PROVE older \subseteq older' /\ (left => left')
  BY <1>7, EntryStepFrame DEF TaskFrame, store
<1>8. ASSUME NEW c \in Chans, NEW s \in Slots, Rewrite(c, s) PROVE older \subseteq older' /\ (left => left')
  <2>1. older' = older \/ \E k, t, v : Written(k, t, v)
    BY <1>8, InvParts, RewriteEffect, Zenon
  <2> QED BY <1>8, <2>1 DEF Written, Rewrite, EntryFrame
<1>9. ASSUME ShutdownStep PROVE older \subseteq older' /\ (left => left')
  BY <1>9, ShutdownStepFrame DEF batchVars, store
<1>10. ASSUME Crash \/ Startup \/ RecoverFile \/ (\E c \in Chans : RecoverEntry(c)) \/ RecoveryEnd
              \/ CompactionStartup
       PROVE  older \subseteq older' /\ (left => left')
  BY <1>10 DEF Crash, Startup, RecoverFile, RecoverEntry, RecoveryEnd, CompactionStartup,
               RecoveryFrame, batchVars
<1> QED BY <1>1, <1>2, <1>3, <1>4, <1>5, <1>6, <1>7, <1>8, <1>9, <1>10, Steps

\* A goroutine has read the value that its entry is about.
LEMMA ReadTimestamp ==
  ASSUME CompactionInv, ~left, Alive, NEW c \in Chans, NEW s \in Slots, NEW h \in GoroutineRec,
         gor[c][s].batch # <<>>, HasRead(c, s, h)
  PROVE  WritesOwn(h, older)
<1>1. PICK g : g = gor[c][s]
  OBVIOUS
<1>2. PICK e : e = Head(g.batch)
  OBVIOUS
<1> SUFFICES ASSUME h.pc = "write", Head(h.batch).key \notin older PROVE h.val = Head(h.batch).ts
  BY DEF WritesOwn
<1>3. /\ h.batch = g.batch /\ Live(lm[e.key]) /\ lm[e.key].ts <= e.ts
      /\ h.val = Value(lm[e.key]).val
  <2>1. h.pc # "entry"
    OBVIOUS
  <2> QED BY <1>1, <1>2, <2>1, Zenon DEF HasRead
<1>4. e \in EntryRec /\ IsEntry(e)
  BY <1>1, <1>2, InvParts, HeadEntry
<1>5. e.key \in Keys /\ e.ts \in Nat /\ e.id \in FileIDs /\ e.key \notin older
  BY <1>2, <1>3, <1>4 DEF EntryRec
<1>6. PICK l : l = lm[e.key]
  OBVIOUS
<1>7. /\ l.id # 0 /\ l.ts \in Nat
  BY <1>3, <1>5, <1>6, InvParts DEF Live
<1>8. ~Behind(e.key, l.ts)
  BY <1>5, <1>6, <1>7, TimestampsParts DEF CompactionInv, Alive
<1>9. e.ts <= l.ts
  <2>1. PICK i \in toc[e.id] : e = Entry(e.id, i)
    BY <1>4 DEF IsEntry
  <2>2. e.id \in tocs
    BY <1>4 DEF IsEntry
  <2>3. data[e.id][i].key = e.key /\ data[e.id][i].ts = e.ts
    BY <2>1 DEF Entry
  <2> QED BY <1>5, <1>7, <1>8, <2>1, <2>2, <2>3 DEF Behind
<1>10. /\ Value(l).key = e.key /\ Value(l).ts = l.ts /\ l.id \in {MEM} \cup FileIDs
       /\ l.id = MEM => l.off \in DOMAIN mem
       /\ l.id # MEM => l.off \in DOMAIN data[l.id]
  BY <1>5, <1>6, <1>7, LocationValue
<1>11. Value(l).val = Value(l).ts
  BY <1>5, <1>10, TimestampsParts DEF CompactionInv, OwnBut, Value
<1> QED BY <1>2, <1>3, <1>5, <1>6, <1>7, <1>9, <1>10, <1>11

LEMMA WritesOwnGrows ==
  ASSUME NEW g, NEW a, NEW b, a \subseteq b, WritesOwn(g, a) PROVE WritesOwn(g, b)
BY DEF WritesOwn

\* Every goroutine writes with the timestamp of its value.
LEMMA WritesOwnStep ==
  ASSUME CompactionInv, Next, ~left'
  PROVE  \A c \in Chans, s \in Slots : WritesOwn(gor'[c][s], older')
<1>0. /\ ~left /\ older \subseteq older'
      /\ \A c \in Chans, s \in Slots : WritesOwn(gor[c][s], older')
      /\ gor \in [Chans -> [Slots -> GoroutineRec]] /\ slot \in Slots
  <2>1. ~left /\ older \subseteq older'
    BY HistoryGrows
  <2>2. \A c \in Chans, s \in Slots : WritesOwn(gor[c][s], older')
    BY <2>1, TimestampsParts, WritesOwnGrows DEF CompactionInv
  <2> QED BY <2>1, <2>2, SlotFacts DEF CompactionInv, TaskTypes
<1>1. CASE gor' = gor
  BY <1>0, <1>1
<1>2. CASE gor' = Idle
  BY <1>2 DEF Idle, WritesOwn
<1>3. ASSUME NEW w \in Chans, gor' = Started(worker[w].pc)
      PROVE  \A c \in Chans, s \in Slots : WritesOwn(gor'[c][s], older')
  <2>1. \A c \in Chans, s \in Slots : gor'[c][s] = gor[c][s] \/ gor'[c][s].pc = "wait"
    BY <1>0, <1>3 DEF Started
  <2> QED BY <1>0, <2>1 DEF WritesOwn
<1>4. ASSUME NEW c \in Chans, NEW s \in Slots, NEW h, gor' = [gor EXCEPT ![c][s] = h],
             WritesOwn(h, older')
      PROVE  \A d \in Chans, u \in Slots : WritesOwn(gor'[d][u], older')
  <2>1. \A d \in Chans, u \in Slots : gor'[d][u] = gor[d][u] \/ gor'[d][u] = h
    BY <1>0, <1>4
  <2> QED BY <1>0, <1>4, <2>1
<1>5. ASSUME NEW c \in Chans, NEW s \in Slots, EntryStep(c, s)
      PROVE  \A d \in Chans, u \in Slots : WritesOwn(gor'[d][u], older')
  <2>1. PICK h \in GoroutineRec :
          /\ gor' = [gor EXCEPT ![c][s] = h]
          /\ \/ Received(c, s, h) \/ Returned(c, s, h)
             \/ /\ gor[c][s].batch # <<>>
                /\ Sampled(c, s, h) \/ LookedUp(c, s, h) \/ HasRead(c, s, h)
    BY <1>5, EntryStepEffect
  <2>2. CASE h.pc # "write"
    BY <1>4, <2>1, <2>2 DEF WritesOwn
  <2>3. CASE gor[c][s].batch # <<>> /\ HasRead(c, s, h)
    <3>1. Alive
      BY <1>5, EntryStepFrame
    <3>2. WritesOwn(h, older')
      BY <1>0, <2>3, <3>1, ReadTimestamp, WritesOwnGrows
    <3> QED BY <1>4, <2>1, <3>2
  <2> QED BY <2>1, <2>2, <2>3 DEF Received, Returned, Sampled, LookedUp
<1>6. ASSUME NEW c \in Chans, NEW s \in Slots, Rewrite(c, s)
      PROVE  \A d \in Chans, u \in Slots : WritesOwn(gor'[d][u], older')
  <2>1. PICK g : g = gor[c][s]
    OBVIOUS
  <2>2. \/ gor' = [gor EXCEPT ![c][s] = [Done(g) EXCEPT !.batch = <<>>]]
        \/ gor' = [gor EXCEPT ![c][s] = Done(g)]
    BY <1>6, <2>1, RewriteEffect, InvParts, Zenon
  <2>3. g \in GoroutineRec
    BY <1>0, <2>1
  <2>4. Done(g).pc = "entry" /\ [Done(g) EXCEPT !.batch = <<>>].pc = "entry"
    BY <2>3 DEF Done, GoroutineRec
  <2>5. WritesOwn(Done(g), older') /\ WritesOwn([Done(g) EXCEPT !.batch = <<>>], older')
    BY <2>4 DEF WritesOwn
  <2> QED BY <1>4, <2>2, <2>5
<1>7. (\E w \in Writes : ClientWrite(w)) \/ PageOut \/ Flush => gor' = gor
  BY ClientWriteStep, InvParts, PageEffect DEF batchVars
<1>8. PassStep \/ EndStep \/ RemoveTOC \/ RemoveValues \/ ShutdownStep => gor' = gor
  BY PassStepFrame, EndStepFrame, ShutdownStepFrame DEF batchVars, RemoveTOC, RemoveValues
<1>9. ReaderStep => gor' = gor \/ \E w \in Chans : gor' = Started(worker[w].pc)
  <2>1. \A w \in Chans : TaskBegin(w) => gor' = gor \/ gor' = Started(worker[w].pc)
    BY DEF TaskBegin
  <2>2. (ReadBlock => gor' = gor) /\ (ReadEntry => gor' = gor) /\ (ReadEnd => gor' = gor)
    BY DEF ReadBlock, ReadEntry, ReadEnd
  <2> QED BY <2>1, <2>2, Zenon DEF ReaderStep
<1>10. RecoverFile \/ (\E c \in Chans : RecoverEntry(c)) \/ RecoveryEnd \/ CompactionStartup => gor' = gor
  BY DEF RecoverFile, RecoverEntry, RecoveryEnd, CompactionStartup, RecoveryFrame, batchVars
<1>11. Crash \/ Startup => gor' = Idle
  BY DEF Crash, Startup
<1> QED BY <1>1, <1>2, <1>3, <1>5, <1>6, <1>7, <1>8, <1>9, <1>10, <1>11, Steps

\* A write with the timestamp of its value.
LEMMA WriteTimestamps ==
  ASSUME CompactionInv, ~left, NEW k, NEW t, NEW v, WriteStep(k, t, v), k \notin older' => v = t
  PROVE  /\ OwnBut(mem', older') /\ \A f \in FileIDs : OwnBut(data'[f], older')
         /\ \A j \in Keys \ older' : lm'[j].id = 0 \/ ~BehindThen(j, lm'[j].ts)
<1>1. /\ k \in Keys /\ t \in Nat /\ v \in Nat /\ Written(k, t, v) /\ Alive
      /\ UNCHANGED <<data, toc, tocs>>
  BY DEF WriteStep
<1>2. /\ DOMAIN mem' = 1..(Len(mem) + 1) /\ DOMAIN mem = 1..Len(mem) /\ Len(mem) \in Nat
      /\ \A i \in 1..Len(mem) : mem'[i] = mem[i]
      /\ mem'[Len(mem) + 1] = [key |-> k, ts |-> t, val |-> v]
  BY <1>1, WrittenMem
<1>3. older \subseteq older' /\ (k \notin older' => ~Behind(k, t))
  BY <1>1 DEF Written
<1>4. /\ OwnBut(mem, older) /\ \A f \in FileIDs : OwnBut(data[f], older)
      /\ \A j \in Keys \ older : lm[j].id = 0 \/ ~Behind(j, lm[j].ts)
  BY <1>1, TimestampsParts DEF CompactionInv, Alive
<1>5. OwnBut(mem', older')
  <2> SUFFICES ASSUME NEW i \in DOMAIN mem', mem'[i].key \notin older' PROVE mem'[i].val = mem'[i].ts
    BY DEF OwnBut
  <2>1. CASE i = Len(mem) + 1
    BY <1>2, <2>1
  <2>2. CASE i # Len(mem) + 1
    <3>1. i \in DOMAIN mem /\ mem'[i] = mem[i]
      BY <1>2, <2>2
    <3> QED BY <1>3, <1>4, <3>1 DEF OwnBut
  <2> QED BY <2>1, <2>2
<1>6. \A f \in FileIDs : OwnBut(data'[f], older')
  BY <1>1, <1>3, <1>4 DEF OwnBut
<1>7. ASSUME NEW j \in Keys \ older', lm'[j].id # 0 PROVE ~BehindThen(j, lm'[j].ts)
  <2>1. ~Behind(j, lm'[j].ts)
    <3>1. CASE j = k
      BY <1>3, <1>7, <3>1, WriteLocations
    <3>2. CASE j # k
      <4>1. lm'[j] = lm[j]
        BY <1>7, <3>2, WriteLocations
      <4> QED BY <1>3, <1>4, <1>7, <4>1
    <3> QED BY <3>1, <3>2
  <2> QED BY <1>1, <2>1 DEF Behind, BehindThen
<1> QED BY <1>5, <1>6, <1>7

LEMMA PageTimestamps ==
  ASSUME CompactionInv, ~left, Alive, older' = older, NEW f \in FileIDs, Paged(f)
  PROVE  /\ OwnBut(mem', older') /\ \A g \in FileIDs : OwnBut(data'[g], older')
         /\ \A j \in Keys \ older' : lm'[j].id = 0 \/ ~BehindThen(j, lm'[j].ts)
<1>1. /\ OwnBut(mem, older) /\ \A g \in FileIDs : OwnBut(data[g], older)
      /\ \A j \in Keys \ older : lm[j].id = 0 \/ ~Behind(j, lm[j].ts)
  BY TimestampsParts DEF CompactionInv, Alive
<1>2. /\ mem' = <<>> /\ data'[f] = mem
      /\ \A g \in FileIDs \ {f} : data'[g] = data[g] /\ toc'[g] = toc[g]
      /\ toc'[f] = {i \in DOMAIN mem : ~Removal(mem[i].ts) /\ mem[i].ts = lm[mem[i].key].ts}
      /\ tocs' = tocs \cup {f}
  BY PagedFacts
<1>3. OwnBut(mem', older') /\ \A g \in FileIDs : OwnBut(data'[g], older')
  <2>1. OwnBut(mem', older')
    BY <1>2 DEF OwnBut
  <2> QED BY <1>1, <1>2, <2>1
<1>4. ASSUME NEW j \in Keys \ older', lm'[j].id # 0 PROVE ~BehindThen(j, lm'[j].ts)
  <2>1. lm[j].id # 0 /\ lm'[j].ts = lm[j].ts
    <3>1. CASE lm[j].id # MEM
      BY <1>4, <3>1, PagedFacts
    <3>2. CASE lm[j].id = MEM
      <4>1. lm'[j] = Missing \/ lm'[j] = [ts |-> lm[j].ts, id |-> f, off |-> lm[j].off]
        BY <1>4, <3>2, PagedFacts
      <4>2. lm'[j] # Missing
        BY <1>4 DEF Missing
      <4> QED BY <3>2, <4>1, <4>2 DEF MEM
    <3> QED BY <3>1, <3>2
  <2>2. ~Behind(j, lm[j].ts)
    BY <1>1, <1>4, <2>1
  <2> SUFFICES ASSUME NEW g \in tocs', NEW i \in toc'[g], data'[g][i].key = j, data'[g][i].ts > lm[j].ts
               PROVE  FALSE
    BY <2>1 DEF BehindThen
  <2>3. tocs \subseteq FileIDs /\ lm[j].ts \in Nat
    BY <1>4, InvParts DEF StoreTypes
  <2>4. CASE g = f
    BY <1>2, <2>3, <2>4
  <2>5. CASE g # f
    BY <1>2, <2>2, <2>3, <2>5 DEF Behind
  <2> QED BY <2>4, <2>5
<1> QED BY <1>3, <1>4

LEMMA TimestampsStep ==
  ASSUME CompactionInv, Next PROVE TimestampsOK'
<1> SUFFICES ASSUME ~left'
             PROVE  /\ OwnBut(mem', older') /\ \A f \in FileIDs : OwnBut(data'[f], older')
                    /\ running' \in {"recovered", "up", "stopping"} =>
                         \A k \in Keys \ older' : lm'[k].id = 0 \/ ~BehindThen(k, lm'[k].ts)
  BY TimestampsParts, WritesOwnStep
<1> DEFINE Goal == /\ OwnBut(mem', older') /\ \A f \in FileIDs : OwnBut(data'[f], older')
                   /\ running' \in {"recovered", "up", "stopping"} =>
                        \A k \in Keys \ older' : lm'[k].id = 0 \/ ~BehindThen(k, lm'[k].ts)
<1>0. /\ ~left /\ older \subseteq older' /\ OwnBut(mem, older)
      /\ \A f \in FileIDs : OwnBut(data[f], older)
      /\ running \in {"recovered", "up", "stopping"} =>
           \A k \in Keys \ older : lm[k].id = 0 \/ ~Behind(k, lm[k].ts)
  BY HistoryGrows, TimestampsParts DEF CompactionInv
<1>1. ASSUME mem' \in {mem, <<>>}, data' = data
      PROVE  OwnBut(mem', older') /\ \A f \in FileIDs : OwnBut(data'[f], older')
  BY <1>0, <1>1 DEF OwnBut
<1>2. ASSUME UNCHANGED <<data, toc, lm>>, tocs' \subseteq tocs, running \in {"recovered", "up", "stopping"}
      PROVE  \A k \in Keys \ older' : lm'[k].id = 0 \/ ~BehindThen(k, lm'[k].ts)
  BY <1>0, <1>2 DEF Behind, BehindThen
<1>3. ASSUME NEW w \in Writes, ClientWrite(w) PROVE Goal
  <2>1. CASE WriteStep(w.key, w.ts, w.ts)
    BY <1>0, <2>1, WriteTimestamps
  <2>2. CASE UNCHANGED <<mem, lm, older>>
    <3>1. UNCHANGED <<data, toc, tocs>> /\ running = "up"
      BY <1>3, ClientWriteStep
    <3> QED BY <1>1, <1>2, <2>2, <3>1
  <2> QED BY <1>3, <2>1, <2>2, ClientWriteStep
<1>4. CASE PageOut \/ Flush
  <2>1. /\ Alive /\ older' = older
        /\ \/ \E f \in FileIDs : Paged(f)
           \/ UNCHANGED <<data, toc, values, tocs, lm, mem>>
    BY <1>4, InvParts, PageEffect
  <2> QED BY <1>0, <1>1, <1>2, <2>1, PageTimestamps DEF Alive
<1>5. CASE PassStep \/ ReaderStep \/ EndStep \/ \E c \in Chans, s \in Slots : EntryStep(c, s)
  BY <1>1, <1>2, <1>5, QuietSteps DEF Quiet, store, Alive
<1>6. CASE Alive /\ (RemoveTOC \/ RemoveValues)
  <2>1. UNCHANGED <<mem, data, toc, lm>> /\ tocs' \subseteq tocs
    BY <1>6 DEF RemoveTOC, RemoveValues
  <2> QED BY <1>1, <1>2, <1>6, <2>1 DEF Alive
<1>7. ASSUME NEW c \in Chans, NEW s \in Slots, Rewrite(c, s) PROVE Goal
  <2>1. PICK g, e : g = gor[c][s] /\ e = Head(g.batch)
    OBVIOUS
  <2>2. /\ WriteStep(e.key, e.ts, g.val) \/ UNCHANGED <<mem, lm, older>>
        /\ g.pc = "write" /\ Alive /\ UNCHANGED <<data, toc, tocs>>
    BY <1>7, <2>1, RewriteStep, Zenon
  <2>3. e.key \notin older' => g.val = e.ts
    BY <1>0, <2>1, <2>2, TimestampsParts DEF CompactionInv, WritesOwn
  <2>4. CASE WriteStep(e.key, e.ts, g.val)
    BY <1>0, <2>3, <2>4, WriteTimestamps
  <2>5. CASE UNCHANGED <<mem, lm, older>>
    BY <1>1, <1>2, <2>2, <2>5 DEF Alive
  <2> QED BY <2>2, <2>4, <2>5
<1>8. CASE ShutdownStep
  <2>1. UNCHANGED <<mem, data, toc, lm, tocs>>
    BY <1>8, ShutdownStepFrame DEF store
  <2>2. running' \in {"recovered", "up", "stopping"} => running \in {"recovered", "up", "stopping"}
    BY <1>8 DEF ShutdownStep, Shutdown, ShutdownReturns, RewriteAfterShutdown
  <2> QED BY <1>1, <1>2, <2>1, <2>2
<1>9. CASE Crash \/ Startup \/ RecoverFile \/ \E c \in Chans : RecoverEntry(c)
  <2>1. mem' \in {mem, <<>>} /\ data' = data /\ running' \in {"down", "recovering"}
    BY <1>9 DEF Crash, Startup, RecoverFile, RecoverEntry, RecoveryFrame
  <2> QED BY <1>1, <2>1
<1>10. CASE RecoveryEnd
  <2>1. /\ UNCHANGED <<mem, data, toc, tocs, lm>>
        /\ \A k \in Keys \ older' : ~(lm[k].id # 0 /\ Behind(k, lm[k].ts))
    BY <1>10 DEF RecoveryEnd, RecoveryFrame
  <2> QED BY <1>1, <2>1 DEF Behind, BehindThen
<1>11. CASE CompactionStartup
  BY <1>1, <1>2, <1>11 DEF CompactionStartup, RecoveryFrame
<1> HIDE DEF Goal
<1> QED BY <1>3, <1>4, <1>5, <1>6, <1>7, <1>8, <1>9, <1>10, <1>11, Steps DEF Goal

(***************************************************************************)
(* What has been flushed                                                   *)
(***************************************************************************)
DurableThen(k) == \E f \in Kept' \ open' : \E i \in toc'[f] :
                    data'[f][i].key = k /\ data'[f][i].ts >= flushed'[k]
ExcusedThen(k) == flushed'[k] = 0 \/ HasBit(flushed'[k], TSB_DELETION) \/ k \in atRisk'

LEMMA FlushedParts ==
  FlushedOK' <=>
    /\ \A k \in Keys : Removal(lm'[k].ts) => flushed'[k] = 0
    /\ \A k \in Keys : LostThen(k) => flushed'[k] = 0
    /\ Alive' => \A k \in Keys : lm'[k].id \in FileIDs \ open' => flushed'[k] \in {0, lm'[k].ts}
    /\ Alive' => \A k \in Keys : ExcusedThen(k) \/ lm'[k].ts >= flushed'[k]
    /\ ~left' => \A k \in Keys : ExcusedThen(k) \/ DurableThen(k)
BY DEF FlushedOK, ExcusedThen, DurableThen, Excused, Durable, Lost, LostThen

\* Lost entries are those of files.
LEMMA LostInFiles ==
  ASSUME CompactionInv, Next, NEW k \in Keys, LostThen(k)
  PROVE  lm'[k].id \in FileIDs /\ lm'[k].id # MEM /\ lm'[k] # Missing
<1>1. lost' \subseteq EntryRec
  BY StoreTypesStep DEF StoreTypes
<1>2. lm'[k].id \in FileIDs
  BY <1>1 DEF LostThen, EntryRec
<1> QED BY <1>2 DEF FileIDs, MEM, Missing

LEMMA NoRemoval == ~Removal(Missing.ts) /\ Missing.ts = 0
<1>1. Missing.ts = 0
  BY DEF Missing
<1>2. \A b \in {1, 2, 4} : 0 \div b = 0
  OBVIOUS
<1> QED BY <1>1, <1>2 DEF Removal, HasBit, TSB_LOCAL_REMOVAL

\* A copy in a closed TOC stays.
LEMMA DurableHolds ==
  ASSUME CompactionInv, Kept \subseteq Kept', NEW k \in Keys, flushed'[k] = flushed[k], Durable(k),
         \A f \in Kept \ open : /\ f \notin open' /\ toc'[f] = toc[f]
                                /\ \A i \in toc[f] : data'[f][i] = data[f][i]
  PROVE  DurableThen(k)
<1>0. PICK f \in Kept \ open : \E i \in toc[f] : data[f][i].key = k /\ data[f][i].ts >= flushed[k]
  BY DEF Durable
<1>1. PICK i \in toc[f] : data[f][i].key = k /\ data[f][i].ts >= flushed[k]
  BY <1>0
<1>2. f \in Kept' \ open' /\ i \in toc'[f] /\ data'[f][i] = data[f][i]
  BY <1>1
<1> QED BY <1>1, <1>2 DEF DurableThen

\* A location that leads to a closed TOC is a copy.
LEMMA LocatedDurable ==
  ASSUME CompactionInv, Next, ~left', NEW k \in Keys, Live(lm'[k]), lm'[k].id # MEM,
         lm'[k].id \notin open', lm'[k].ts = flushed'[k], ~LostThen(k)
  PROVE  DurableThen(k)
<1>1. LocationsKept' /\ LocationsOK' /\ StoreTypes'
  BY KeptStep, FilesStep, StoreTypesStep
<1>2. lm'[k].id \in Kept' /\ lm'[k].ts \in Nat
  BY <1>1, LostParts DEF LocationsKept, Live, StoreTypes, Location
<1>3. LocationOK(k)'
  BY <1>1 DEF LocationsOK
<1>4. lm'[k] # Missing
  BY DEF Live, Missing
<1>5. /\ lm'[k].off \in toc'[lm'[k].id]
      /\ data'[lm'[k].id][lm'[k].off].key = k /\ data'[lm'[k].id][lm'[k].off].ts = lm'[k].ts
  BY <1>3, <1>4 DEF LocationOK
<1> QED BY <1>2, <1>5 DEF DurableThen

\* With memory on disk, what is located is flushed, unless its entry is lost.
FlushedAll ==
  \A k \in Keys : /\ LostThen(k) => flushed'[k] = 0
                  /\ ~LostThen(k) => flushed'[k] = lm'[k].ts

LEMMA FlushedAllSays ==
  ASSUME FlushedAll
  PROVE  /\ \A k \in Keys : LostThen(k) => flushed'[k] = 0
         /\ \A k \in Keys : flushed'[k] # 0 => flushed'[k] = lm'[k].ts /\ ~LostThen(k)
BY Zenon DEF FlushedAll

LEMMA FlushedNow ==
  ASSUME CompactionInv, Next, mem' = <<>>, FlushedAll, atRisk' = {}, open' \cap values' = {}
  PROVE  FlushedOK'
<1>1. LocationsOK' /\ FilesOK' /\ LocationsKept'
  BY FilesStep, KeptStep
<1>2. ASSUME NEW k \in Keys PROVE ~Removal(lm'[k].ts) /\ lm'[k].id # MEM
  <2>1. LocationOK(k)'
    BY <1>1 DEF LocationsOK
  <2>2. CASE lm'[k] = Missing
    BY <2>2, NoRemoval DEF Missing, MEM
  <2>3. CASE lm'[k].id \in FileIDs
    <3>1. lm'[k] # Missing /\ lm'[k].id # MEM
      BY <2>3 DEF Missing, FileIDs, MEM
    <3>2. /\ lm'[k].off \in toc'[lm'[k].id]
          /\ data'[lm'[k].id][lm'[k].off].ts = lm'[k].ts
      BY <2>1, <3>1 DEF LocationOK
    <3> QED BY <1>1, <2>3, <3>1, <3>2 DEF FilesOK
  <2>4. CASE lm'[k].off \in DOMAIN mem'
    BY <2>4
  <2> QED BY <2>1, <2>2, <2>3, <2>4 DEF LocationOK
<1>0. \A k \in Keys : lm'[k].ts \in Nat
  BY StoreTypesStep DEF StoreTypes, Location
<1>7. \A k \in Keys : LostThen(k) => flushed'[k] = 0
  BY FlushedAllSays, Zenon
<1>6. \A k \in Keys : flushed'[k] # 0 => flushed'[k] = lm'[k].ts /\ ~LostThen(k)
  BY FlushedAllSays, Zenon
<1>3. \A k \in Keys : flushed'[k] \in {0, lm'[k].ts} /\ lm'[k].ts \in Nat
  BY <1>0, <1>6, Zenon
<1>4. ASSUME ~left', NEW k \in Keys, ~ExcusedThen(k) PROVE DurableThen(k)
  <2>0. flushed'[k] = lm'[k].ts /\ ~LostThen(k)
    BY <1>4, <1>6 DEF ExcusedThen
  <2>1. lm'[k].ts # 0 /\ ~HasBit(lm'[k].ts, TSB_DELETION)
    BY <1>4, <2>0 DEF ExcusedThen
  <2>2. LocationOK(k)' /\ lm'[k] # Missing
    BY <1>1, <2>1, NoRemoval DEF LocationsOK
  <2>3. lm'[k].id # 0
    BY <2>2 DEF LocationOK, MEM, FileIDs
  <2>4. lm'[k].id \in Kept'
    BY <1>1, <1>2, <1>4, <2>0, <2>1, <2>3, LostParts DEF LocationsKept, Live
  <2>5. lm'[k].id \in values'
    BY <2>4, KeptThen
  <2>6. Live(lm'[k])
    BY <2>1, <2>3 DEF Live
  <2>7. lm'[k].id \notin open' /\ lm'[k].id # MEM
    BY <1>2, <2>5
  <2> QED BY <1>4, <2>0, <2>6, <2>7, LocatedDurable
<1>5. \A k \in Keys : ExcusedThen(k) \/ lm'[k].ts >= flushed'[k]
  <2> SUFFICES ASSUME NEW k \in Keys, flushed'[k] # 0 PROVE lm'[k].ts >= flushed'[k]
    BY DEF ExcusedThen
  <2> QED BY <1>3, <1>6
<1>8. \A k \in Keys : Removal(lm'[k].ts) => flushed'[k] = 0
  BY <1>2
<1>9. \A k \in Keys : lm'[k].id \in FileIDs \ open' => flushed'[k] \in {0, lm'[k].ts}
  BY <1>3
<1> QED BY <1>4, <1>5, <1>7, <1>8, <1>9, FlushedParts, Zenon

\* Steps that take nothing off the disk.
LEMMA FlushedStable ==
  ASSUME CompactionInv, Next, ~RemoveTOC,
         \A k \in Keys : /\ flushed'[k] = flushed[k] \/ flushed'[k] = 0
                         /\ k \in atRisk => k \in atRisk' \/ flushed'[k] = 0,
         \A f \in Kept \ open : /\ f \notin open' /\ toc'[f] = toc[f]
                                /\ \A i \in toc[f] : data'[f][i] = data[f][i],
         \A k \in Keys : Removal(lm'[k].ts) => flushed'[k] = 0,
         \A k \in Keys : LostThen(k) => flushed'[k] = 0 \/ (lm'[k] = lm[k] /\ lost' = lost),
         \A k \in Keys : \/ ~Alive' \/ flushed'[k] = 0
                         \/ /\ Alive /\ lm'[k].ts >= lm[k].ts
                            /\ lm'[k].id \in FileIDs \ open' => lm'[k] = lm[k] /\ lm[k].id \notin open
  PROVE  FlushedOK'
<1>1. FlushedOK /\ flushed \in [Keys -> Nat] /\ \A k \in Keys : lm[k].ts \in Nat /\ lm'[k].ts \in Nat
  BY StoreTypesStep DEF CompactionInv, StoreTypes, Location
<1>2. Kept \subseteq Kept' /\ (left => left')
  BY KeptHolds, HistoryGrows
<1>3. ASSUME NEW k \in Keys, ~ExcusedThen(k) PROVE ~Excused(k) /\ flushed'[k] = flushed[k]
  BY <1>3 DEF ExcusedThen, Excused
<1>4. ASSUME ~left', NEW k \in Keys PROVE ExcusedThen(k) \/ DurableThen(k)
  <2>1. ASSUME ~ExcusedThen(k) PROVE DurableThen(k)
    <3>1. ~Excused(k) /\ flushed'[k] = flushed[k]
      BY <1>3, <2>1
    <3>2. Durable(k)
      BY <1>1, <1>2, <1>4, <3>1 DEF FlushedOK
    <3> QED BY <1>2, <3>1, <3>2, DurableHolds
  <2> QED BY <2>1
<1>5. ASSUME Alive', NEW k \in Keys PROVE ExcusedThen(k) \/ lm'[k].ts >= flushed'[k]
  <2>1. ASSUME ~ExcusedThen(k) PROVE lm'[k].ts >= flushed'[k]
    <3>1. ~Excused(k) /\ flushed'[k] = flushed[k] /\ flushed'[k] # 0
      BY <1>3, <2>1 DEF ExcusedThen
    <3>2. Alive /\ lm'[k].ts >= lm[k].ts
      BY <1>5, <3>1
    <3>3. lm[k].ts >= flushed[k]
      BY <1>1, <3>1, <3>2 DEF FlushedOK
    <3> QED BY <1>1, <3>1, <3>2, <3>3
  <2> QED BY <2>1
<1>6. ASSUME Alive', NEW k \in Keys, lm'[k].id \in FileIDs \ open' PROVE flushed'[k] \in {0, lm'[k].ts}
  <2>1. CASE flushed'[k] = 0
    BY <2>1
  <2>2. CASE flushed'[k] # 0
    <3>1. Alive /\ lm'[k] = lm[k] /\ lm[k].id \notin open /\ flushed'[k] = flushed[k]
      BY <1>6, <2>2
    <3>2. lm[k].id \in FileIDs \ open
      BY <1>6, <3>1
    <3> QED BY <1>1, <3>1, <3>2 DEF FlushedOK
  <2> QED BY <2>1, <2>2
<1>7. ASSUME NEW k \in Keys, LostThen(k) PROVE flushed'[k] = 0
  <2>1. CASE lm'[k] = lm[k] /\ lost' = lost
    <3>1. Lost(lost, lm, k)
      BY <1>7, <2>1 DEF Lost, LostThen
    <3>2. flushed[k] = 0
      BY <1>1, <3>1 DEF FlushedOK
    <3> QED BY <3>2
  <2> QED BY <1>7, <2>1
<1>8. \A k \in Keys : Removal(lm'[k].ts) => flushed'[k] = 0
  OBVIOUS
<1> QED BY <1>4, <1>5, <1>6, <1>7, <1>8, FlushedParts, Zenon

LEMMA FlushedRemoveTOC ==
  ASSUME CompactionInv, Next, Alive, RemoveTOC PROVE FlushedOK'
<1>0. \A k \in Keys : /\ LostThen(k) => flushed'[k] = 0
                      /\ ~LostThen(k) => flushed'[k] = flushed[k]
  BY RemoveLoses
<1>1. /\ UNCHANGED <<data, toc, values, open, lm, running, worker, lock, left>>
      /\ task = "rewritten" /\ task' = "removing" /\ tocs \ {File} \subseteq tocs'
      /\ atRisk' = atRisk \cup {k \in Keys : /\ lm[k].id \in {0, MEM} \cup open
                                            /\ \E i \in toc[File] : data[File][i].key = k}
  BY DEF RemoveTOC, pass
<1>2. FlushedOK
  BY DEF CompactionInv
<1>3. \A k \in Keys : ~ExcusedThen(k) => ~Excused(k) /\ flushed'[k] = flushed[k] /\ ~LostThen(k)
  BY <1>0, <1>1 DEF ExcusedThen, Excused
<1>4. Kept \ {File} \subseteq Kept'
  BY <1>1, KeptFacts, KeptThen DEF File
<1>5. ASSUME ~left', NEW k \in Keys, ~ExcusedThen(k) PROVE DurableThen(k)
  <2>1. ~Excused(k) /\ Durable(k) /\ flushed'[k] = flushed[k] /\ ~LostThen(k)
    BY <1>1, <1>2, <1>3, <1>5 DEF FlushedOK
  <2>2. PICK f \in Kept \ open : \E i \in toc[f] : data[f][i].key = k /\ data[f][i].ts >= flushed[k]
    BY <2>1 DEF Durable
  <2>3. CASE f # File
    <3>1. f \in Kept' \ open'
      BY <1>1, <1>4, <2>2, <2>3
    <3> QED BY <1>1, <2>1, <2>2, <3>1 DEF DurableThen
  <2>4. CASE f = File
    <3>1. lm[k].id \notin {0, MEM} \cup open
      BY <1>1, <1>5, <2>2, <2>4 DEF ExcusedThen
    <3>2. lm[k].id \in FileIDs
      BY <3>1, LocationValue
    <3>3. flushed[k] = lm[k].ts /\ ~HasBit(flushed[k], TSB_DELETION)
      BY <1>2, <2>1, <3>1, <3>2 DEF FlushedOK, Excused
    <3>4. Live(lm'[k]) /\ lm'[k].id # MEM /\ lm'[k].id \notin open' /\ lm'[k].ts = flushed'[k]
      BY <1>1, <2>1, <3>1, <3>3 DEF Live
    <3> QED BY <1>5, <2>1, <3>4, LocatedDurable
  <2> QED BY <2>3, <2>4
<1>6. Alive' => Alive
  BY <1>1 DEF Alive
<1>7. \A k \in Keys : Alive' => ExcusedThen(k) \/ lm'[k].ts >= flushed'[k]
  BY <1>1, <1>2, <1>3, <1>6 DEF FlushedOK
<1>8. \A k \in Keys : Removal(lm'[k].ts) => flushed'[k] = 0
  BY <1>0, <1>1, <1>2 DEF FlushedOK
<1>9. \A k \in Keys : Alive' => (lm'[k].id \in FileIDs \ open' => flushed'[k] \in {0, lm'[k].ts})
  BY <1>0, <1>1, <1>2, <1>6 DEF FlushedOK
<1>10. \A k \in Keys : LostThen(k) => flushed'[k] = 0
  BY <1>0
<1> QED BY <1>5, <1>7, <1>8, <1>9, <1>10, FlushedParts, Zenon

LEMMA FlushedStep ==
  ASSUME CompactionInv, Next PROVE FlushedOK'
<1>0. /\ FlushedOK /\ flushed \in [Keys -> Nat] /\ \A k \in Keys : lm[k].ts \in Nat
      /\ Kept \subseteq tocs
  BY KeptFacts DEF CompactionInv, StoreTypes, Location
<1>1. ASSUME UNCHANGED <<flushed, atRisk, data, toc, open, lm>>, ~RemoveTOC, Alive' => Alive,
             lost' \in {lost, {}}
      PROVE  FlushedOK'
  <2>1. \A k \in Keys : Removal(lm'[k].ts) => flushed'[k] = 0
    BY <1>0, <1>1 DEF FlushedOK
  <2>2. \A k \in Keys : lm'[k].ts >= lm[k].ts
    BY <1>0, <1>1
  <2>3. \A k \in Keys : LostThen(k) => lm'[k] = lm[k] /\ lost' = lost
    BY <1>1 DEF LostThen
  <2> QED BY <1>1, <2>1, <2>2, <2>3, FlushedStable
<1>2. ASSUME NEW w \in Writes, ClientWrite(w) PROVE FlushedOK'
  <2>1. /\ WriteStep(w.key, w.ts, w.ts) \/ UNCHANGED <<mem, lm, older>>
        /\ w.key \in Keys /\ w.ts \in Nat /\ Alive /\ UNCHANGED <<running, data, toc, open, atRisk, lost, task>>
        /\ flushed' = IF Removal(w.ts) THEN [flushed EXCEPT ![w.key] = 0] ELSE flushed
    BY <1>2, ClientWriteStep DEF life, batchVars
  <2>2. ~RemoveTOC
    BY <2>1 DEF RemoveTOC
  <2>3. \A k \in Keys : flushed'[k] = flushed[k] \/ flushed'[k] = 0
    BY <1>0, <2>1
  <2>4. ASSUME NEW k \in Keys PROVE Removal(lm'[k].ts) => flushed'[k] = 0
    <3>1. CASE lm'[k] = lm[k]
      BY <1>0, <2>3, <3>1 DEF FlushedOK
    <3>2. CASE lm'[k] # lm[k]
      <4>1. k = w.key /\ lm'[k].ts = w.ts
        BY <2>1, <3>2, WriteLocations
      <4> QED BY <1>0, <2>1, <4>1
    <3> QED BY <3>1, <3>2
  <2>5. \A k \in Keys : /\ lm'[k].ts >= lm[k].ts
                        /\ lm'[k].id \in FileIDs \ open' => lm'[k] = lm[k] /\ lm[k].id \notin open
    <3> TAKE k \in Keys
    <3>1. CASE lm'[k] = lm[k]
      BY <1>0, <2>1, <3>1
    <3>2. CASE lm'[k] # lm[k]
      <4>1. k = w.key /\ lm'[k].ts = w.ts /\ lm'[k].id = MEM /\ lm[k].ts <= w.ts
        BY <2>1, <3>2, WriteLocations
      <4> QED BY <1>0, <2>1, <4>1 DEF MEM, FileIDs
    <3> QED BY <3>1, <3>2
  <2>6. \A k \in Keys : LostThen(k) => lm'[k] = lm[k] /\ lost' = lost
    <3> TAKE k \in Keys
    <3> HAVE LostThen(k)
    <3>1. lm'[k].id # MEM
      BY LostInFiles
    <3> QED BY <2>1, <3>1, WriteLocations
  <2> QED BY <2>1, <2>2, <2>3, <2>4, <2>5, <2>6, FlushedStable
<1>3. CASE PageOut \/ Flush
  <2>1. /\ Alive /\ UNCHANGED <<running, task, lost>>
        /\ \/ \E f \in FileIDs : /\ Paged(f) /\ mem # <<>>
                                 /\ \/ open' = open \cup {f} /\ UNCHANGED <<flushed, atRisk>>
                                    \/ /\ open' = {} /\ atRisk' = {}
                                       /\ flushed' = [k \in Keys |-> IF Lost(lost, lm', k) THEN 0 ELSE lm'[k].ts]
           \/ /\ UNCHANGED <<data, toc, values, tocs, lm, mem>>
              /\ mem = <<>> /\ open' = {} /\ atRisk' = {}
              /\ flushed' = [k \in Keys |-> IF Lost(lost, lm', k) THEN 0 ELSE lm'[k].ts]
    BY <1>3, InvParts, PageEffect DEF life, batchVars
  <2>2. ASSUME open' = {}, atRisk' = {}, mem' = <<>>,
               flushed' = [k \in Keys |-> IF Lost(lost, lm', k) THEN 0 ELSE lm'[k].ts]
        PROVE  FlushedOK'
    <3>1. \A k \in Keys : Lost(lost, lm', k) <=> LostThen(k)
      BY <2>1 DEF Lost, LostThen
    <3>2. FlushedAll
      BY <2>2, <3>1 DEF FlushedAll
    <3> QED BY <2>2, <3>2, FlushedNow
  <2>3. ASSUME NEW f \in FileIDs, Paged(f), open' = open \cup {f}, UNCHANGED <<flushed, atRisk>>
        PROVE  FlushedOK'
    <3>1. ~RemoveTOC
      BY <2>1 DEF RemoveTOC
    <3>2. f \notin tocs /\ \A g \in FileIDs \ {f} : data'[g] = data[g] /\ toc'[g] = toc[g]
      BY <2>3, PagedFacts
    <3>3. \A g \in Kept \ open : /\ g \notin open' /\ toc'[g] = toc[g]
                                  /\ \A i \in toc[g] : data'[g][i] = data[g][i]
      <4>1. Kept \subseteq FileIDs
        BY <1>0 DEF CompactionInv, StoreTypes
      <4> QED BY <1>0, <2>3, <3>2, <4>1
    <3>4. ASSUME NEW k \in Keys
          PROVE  /\ Removal(lm'[k].ts) => flushed'[k] = 0
                 /\ \/ flushed'[k] = 0
                    \/ /\ lm'[k].ts >= lm[k].ts
                       /\ lm'[k].id \in FileIDs \ open' => lm'[k] = lm[k] /\ lm[k].id \notin open
      <4>1. CASE lm[k].id # MEM
        <5>1. lm'[k] = lm[k]
          BY <2>3, <4>1, PagedFacts
        <5> QED BY <1>0, <2>3, <5>1 DEF FlushedOK
      <4>2. CASE lm[k].id = MEM /\ Removal(lm[k].ts)
        BY <1>0, <2>3, <4>2 DEF FlushedOK
      <4>3. CASE lm[k].id = MEM /\ ~Removal(lm[k].ts)
        <5>1. lm'[k] = [ts |-> lm[k].ts, id |-> f, off |-> lm[k].off]
          BY <2>3, <4>3, PagedFacts
        <5>2. lm'[k].ts = lm[k].ts /\ lm'[k].id = f
          BY <5>1
        <5> QED BY <1>0, <2>3, <4>3, <5>2
      <4> QED BY <4>1, <4>2, <4>3
    <3>5. \A k \in Keys : LostThen(k) => flushed'[k] = 0 \/ (lm'[k] = lm[k] /\ lost' = lost)
      <4> SUFFICES ASSUME NEW k \in Keys, LostThen(k), lm'[k] # lm[k] PROVE FALSE
        BY <2>1
      <4>1. lm'[k] # Missing
        BY LostInFiles
      <4>2. lm'[k] = [ts |-> lm[k].ts, id |-> f, off |-> lm[k].off]
        BY <2>3, <4>1, PagedFacts
      <4>3. PICK e \in lost : e.id = f
        BY <2>1, <4>2 DEF LostThen
      <4>4. \E i \in toc[f] : e = Entry(f, i)
        BY <4>3 DEF CompactionInv, LostOK
      <4> QED BY <2>3, <4>4, PagedFacts
    <3> QED BY <2>1, <2>3, <3>1, <3>3, <3>4, <3>5, FlushedStable
  <2>4. ASSUME NEW f \in FileIDs, Paged(f) PROVE mem' = <<>>
    BY <2>4, PagedFacts
  <2> QED BY <2>1, <2>2, <2>3, <2>4
<1>4. CASE PassStep \/ ReaderStep \/ EndStep \/ \E c \in Chans, s \in Slots : EntryStep(c, s)
  <2>1. UNCHANGED <<flushed, atRisk, data, toc, open, lm, lost, running>> /\ Alive
    BY <1>4, QuietSteps DEF Quiet, store
  <2> QED BY <1>1, <2>1, FlushedRemoveTOC
<1>5. CASE Alive /\ RemoveValues
  <2>1. UNCHANGED <<flushed, atRisk, data, toc, open, lm, lost, running>>
    BY <1>5 DEF RemoveValues, life
  <2> QED BY <1>1, <1>5, <2>1, FlushedRemoveTOC
<1>6. ASSUME NEW c \in Chans, NEW s \in Slots, Rewrite(c, s) PROVE FlushedOK'
  <2>1. PICK g, e : g = gor[c][s] /\ e = Head(g.batch)
    OBVIOUS
  <2>2. /\ WriteStep(e.key, e.ts, g.val) \/ UNCHANGED <<mem, lm, older>>
        /\ ~Removal(e.ts) /\ e.ts \in Nat /\ Alive
        /\ UNCHANGED <<data, toc, open, flushed, atRisk, running>>
    BY <1>6, <2>1, RewriteStep, Zenon
  <2>3. task' = task /\ ~RemoveTOC /\ lost' = lost
    BY <1>6 DEF Rewrite, EntryFrame, RemoveTOC
  <2>4. ASSUME NEW k \in Keys
        PROVE  /\ Removal(lm'[k].ts) => flushed'[k] = 0
               /\ lm'[k].ts >= lm[k].ts
               /\ lm'[k].id \in FileIDs \ open' => lm'[k] = lm[k] /\ lm[k].id \notin open
    <3>1. CASE lm'[k] = lm[k]
      BY <1>0, <2>2, <3>1 DEF FlushedOK
    <3>2. CASE lm'[k] # lm[k]
      <4>1. lm'[k].ts = e.ts /\ lm'[k].id = MEM /\ lm[k].ts <= e.ts
        BY <2>2, <3>2, WriteLocations
      <4> QED BY <1>0, <2>2, <4>1 DEF MEM, FileIDs
    <3> QED BY <3>1, <3>2
  <2>5. \A k \in Keys : LostThen(k) => lm'[k] = lm[k] /\ lost' = lost
    <3> TAKE k \in Keys
    <3> HAVE LostThen(k)
    <3>1. lm'[k].id # MEM
      BY LostInFiles
    <3> QED BY <2>2, <2>3, <3>1, WriteLocations
  <2> QED BY <2>2, <2>3, <2>4, <2>5, FlushedStable
<1>7. CASE ShutdownStep
  <2>1. UNCHANGED <<flushed, atRisk, data, toc, open, lm, lost, task>>
    BY <1>7, ShutdownStepFrame DEF store, batchVars
  <2>2. Alive' => Alive
    BY <1>7 DEF ShutdownStep, Shutdown, ShutdownReturns, RewriteAfterShutdown, Alive
  <2> QED BY <1>1, <2>1, <2>2 DEF RemoveTOC
<1>8. CASE Crash
  <2>1. /\ lm' = [k \in Keys |-> Missing] /\ running' = "down" /\ data' = data /\ task' = "none"
        /\ flushed' = [k \in Keys |-> IF k \in atRisk THEN 0 ELSE flushed[k]] /\ lost' = {}
    BY <1>8 DEF Crash
  <2>2. PICK torn \in SUBSET open : /\ open' = open \ torn
                                    /\ toc' = [f \in FileIDs |-> IF f \in torn THEN {} ELSE toc[f]]
    BY <1>8 DEF Crash
  <2>3. \A f \in Kept \ open : f \notin open' /\ toc'[f] = toc[f]
    <3>1. Kept \subseteq FileIDs
      BY <1>0 DEF CompactionInv, StoreTypes
    <3> QED BY <2>2, <3>1
  <2>4. ~RemoveTOC /\ ~Alive' /\ \A k \in Keys : ~Removal(lm'[k].ts)
    BY <2>1, NoRemoval DEF RemoveTOC, Alive
  <2>5. \A k \in Keys : ~LostThen(k)
    BY <2>1 DEF LostThen
  <2> QED BY <2>1, <2>3, <2>4, <2>5, FlushedStable
<1>9. CASE Startup
  <2>1. /\ lm' = [k \in Keys |-> Missing] /\ running' = "recovering" /\ task' = "none"
        /\ UNCHANGED <<data, toc, open, flushed, atRisk>> /\ lost' = {}
    BY <1>9 DEF Startup
  <2>2. ~RemoveTOC /\ ~Alive' /\ \A k \in Keys : ~Removal(lm'[k].ts)
    BY <2>1, NoRemoval DEF RemoveTOC, Alive
  <2>3. \A k \in Keys : ~LostThen(k)
    BY <2>1 DEF LostThen
  <2> QED BY <2>1, <2>2, <2>3, FlushedStable
<1>10. CASE RecoverFile \/ RecoveryEnd
  <2>1. UNCHANGED <<flushed, atRisk, data, toc, open, lm, lost, task>> /\ ~Alive'
    BY <1>10 DEF RecoverFile, RecoveryEnd, RecoveryFrame, batchVars, Alive
  <2> QED BY <1>1, <2>1 DEF RemoveTOC
<1>11. ASSUME NEW c \in Chans, RecoverEntry(c) PROVE FlushedOK'
  <2>1. UNCHANGED <<flushed, atRisk, data, toc, open, task, mem>> /\ ~Alive' /\ mem = <<>>
    BY <1>11 DEF RecoverEntry, RecoveryFrame, batchVars, Alive, CompactionInv, FilesOK
  <2>2. ASSUME NEW k \in Keys PROVE ~Removal(lm'[k].ts)
    <3>1. LocationOK(k)' /\ FilesOK'
      BY FilesStep DEF LocationsOK
    <3>2. CASE lm'[k] = Missing
      BY <3>2, NoRemoval
    <3>3. CASE lm'[k] # Missing
      <4>1. /\ lm'[k].id \in FileIDs /\ lm'[k].off \in toc'[lm'[k].id]
            /\ data'[lm'[k].id][lm'[k].off].ts = lm'[k].ts
        BY <2>1, <3>1, <3>3 DEF LocationOK
      <4> QED BY <3>1, <4>1 DEF FilesOK
    <3> QED BY <3>2, <3>3
  <2>3. ~RemoveTOC
    BY <2>1 DEF RemoveTOC
  <2>4. \A k \in Keys : ~LostThen(k)
    <3>1. lost' = {}
      BY <1>11 DEF RecoverEntry, RecoveryFrame, CompactionInv, LostOK
    <3> QED BY <3>1 DEF LostThen
  <2> QED BY <2>1, <2>2, <2>3, <2>4, FlushedStable
<1>12. CASE CompactionStartup
  <2>1. /\ running = "recovered" /\ UNCHANGED <<lm, mem, open, values>>
        /\ flushed' = [k \in Keys |-> lm[k].ts] /\ atRisk' = {}
    BY <1>12 DEF CompactionStartup, RecoveryFrame
  <2>2. mem' = <<>> /\ open' \cap values' = {}
    BY <2>1 DEF CompactionInv, FilesOK, RecoveryOK, Alive
  <2>3. lost' = {}
    BY <1>12, <2>1 DEF CompactionStartup, RecoveryFrame, CompactionInv, LostOK
  <2>4. FlushedAll
    BY <2>1, <2>3 DEF FlushedAll, LostThen
  <2> QED BY <2>1, <2>2, <2>4, FlushedNow
<1> QED
  BY <1>2, <1>3, <1>4, <1>5, <1>6, <1>7, <1>8, <1>9, <1>10, <1>11, <1>12, FlushedRemoveTOC, Steps

(***************************************************************************)
(* The channels of a call                                                  *)
(***************************************************************************)
\* ChannelOK, of the goroutine g with the batches p and the flag sk in task t.
ReadingAt(g, p, kind) == g.pc # "gone" /\ g.kind = kind /\ \A i \in DOMAIN p : p[i] # Nil
EndingAt(g, p, kind)  == /\ g.pc # "gone" /\ g.kind = kind
                         /\ p # <<>> /\ p[Len(p)] = Nil
                         /\ \A i \in DOMAIN p : i < Len(p) => p[i] # Nil
EndedAt(g, p)         == g.pc = "gone" /\ p = <<>>
ChannelAt(t, g, p, sk) ==
  /\ t \in {"none", "removing"} => EndedAt(g, p)
  /\ t = "sample" => ReadingAt(g, p, "sample")
  /\ t = "compact" => ReadingAt(g, p, "compact") /\ ~sk
  /\ t = "sampled" => EndedAt(g, p) \/ EndingAt(g, p, "sample")
  /\ t = "rewritten" => EndedAt(g, p) \/ (EndingAt(g, p, "compact") /\ ~sk)

LEMMA ChannelParts ==
  /\ TaskTypes => \A c \in Chans : ChannelOK(c) <=> ChannelAt(task, gor[c][1], pending[c], skip[c])
  /\ TaskTypes' => \A c \in Chans : ChannelOK(c)' <=> ChannelAt(task', gor'[c][1], pending'[c], skip'[c])
<1>1. ASSUME TaskTypes, NEW c \in Chans
      PROVE  ChannelOK(c) <=> ChannelAt(task, gor[c][1], pending[c], skip[c])
  <2>1. task \in {"none", "sample", "sampled", "compact", "rewritten", "removing"}
    BY <1>1 DEF TaskTypes
  <2> QED BY <2>1 DEF ChannelOK, ChannelAt, Reading, ReadingAt, Ending, EndingAt, Ended, EndedAt
<1>2. ASSUME TaskTypes', NEW c \in Chans
      PROVE  ChannelOK(c)' <=> ChannelAt(task', gor'[c][1], pending'[c], skip'[c])
  <2>1. task' \in {"none", "sample", "sampled", "compact", "rewritten", "removing"}
    BY <1>2 DEF TaskTypes
  <2> QED BY <2>1 DEF ChannelOK, ChannelAt, Reading, ReadingAt, Ending, EndingAt, Ended, EndedAt
<1> QED BY <1>1, <1>2

LEMMA ChannelsNow ==
  ASSUME CompactionInv, Orderly
  PROVE  slot = 1 /\ \A c \in Chans : ChannelAt(task, gor[c][1], pending[c], skip[c])
BY ChannelParts DEF CompactionInv, ChannelsOK

LEMMA ChannelsThen ==
  ASSUME CompactionInv, Next,
         Orderly' => slot' = 1 /\ \A c \in Chans : ChannelAt(task', gor'[c][1], pending'[c], skip'[c])
  PROVE  ChannelsOK'
<1>1. TaskTypes'
  BY TaskTypesStep
<1> QED BY <1>1, ChannelParts DEF ChannelsOK

LEMMA OrderlyParts ==
  Orderly' <=> /\ ~left'
               /\ \/ ~cancel' \/ launcher' = "wait"
                  \/ running' \in {"recovering", "recovered"}
                  \/ task' \in {"rewritten", "removing"}
BY DEF Orderly

\* Only a start makes the channels orderly again.
LEMMA WasOrderly ==
  ASSUME CompactionInv, Next, Orderly' PROVE Orderly \/ Crash \/ Startup
<1>0. ~left /\ WorkersOK
  BY OrderlyParts, HistoryGrows DEF CompactionInv
<1>1. ASSUME UNCHANGED <<cancel, launcher, task>>, running' \in {"recovering", "recovered"} => running' = running
      PROVE  Orderly
  BY <1>0, <1>1, OrderlyParts DEF Orderly
<1>2. ASSUME NEW w \in Writes, ClientWrite(w) PROVE Orderly
  BY <1>1, <1>2, ClientWriteStep DEF life, pass, batchVars
<1>3. ASSUME PageOut \/ Flush PROVE Orderly
  BY <1>1, <1>3, InvParts, PageEffect DEF life, pass, batchVars
<1>4. ASSUME PassStep PROVE Orderly
  <2>1. UNCHANGED <<task, running>>
    BY <1>4, PassStepFrame DEF batchVars, life
  <2>2. CASE launcher \in {"queue", "workers"}
    BY <1>0, <2>2 DEF WorkersOK, Orderly
  <2>3. CASE launcher = "wait"
    BY <1>0, <2>3 DEF Orderly
  <2>4. CASE launcher \notin {"queue", "workers", "wait"}
    <3>1. cancel' = cancel /\ launcher' \in {"gone", launcher}
      BY <1>4, <2>4 DEF PassStep, CompactionLauncher, PassQueue, PassInterrupted, PassQueued,
                        PassWait, CompactionWorker
    <3> QED BY <1>0, <2>1, <2>4, <3>1, OrderlyParts DEF Orderly
  <2> QED BY <2>2, <2>3, <2>4
<1>5. ASSUME ReaderStep PROVE Orderly
  <2>1. UNCHANGED <<cancel, launcher, running>>
    BY <1>5, ReaderStepFrame DEF TaskFrame
  <2>2. task' \in {"rewritten", "removing"} => task' = task \/ ~cancel
    <3>1. ASSUME NEW w \in Chans, TaskBegin(w) PROVE task' = task \/ task' \in {"sample", "compact"}
      BY <3>1, TaskBeginEffect DEF BeginFails, Begun, Active
    <3>2. ASSUME ReadEnd PROVE task' \in {"rewritten", "removing"} => ~cancel
      BY <3>2, ReadEndEffect DEF ReadCanceled, ReadAll
    <3>3. ReadBlock \/ ReadEntry => task' = task
      BY DEF ReadBlock, ReadEntry
    <3> QED BY <1>5, <3>1, <3>2, <3>3, Zenon DEF ReaderStep
  <2> QED BY <1>0, <2>1, <2>2, OrderlyParts DEF Orderly
<1>6. ASSUME EndStep \/ RemoveValues PROVE Orderly
  <2>1. UNCHANGED <<cancel, launcher, running>> /\ task' = "none"
    BY <1>6, EndStepFrame, EndStepEffect DEF TaskFrame, Unlocked, RemoveValues, Unlock, life
  <2> QED BY <1>0, <2>1, OrderlyParts DEF Orderly
<1>7. ASSUME RemoveTOC PROVE Orderly
  BY <1>0, <1>7 DEF RemoveTOC, Orderly
<1>8. ASSUME NEW c \in Chans, NEW s \in Slots, EntryStep(c, s) PROVE Orderly
  BY <1>1, <1>8, EntryStepFrame DEF TaskFrame
<1>9. ASSUME NEW c \in Chans, NEW s \in Slots, Rewrite(c, s) PROVE Orderly
  BY <1>1, <1>9 DEF Rewrite, EntryFrame
<1>10. ASSUME ShutdownStep PROVE Orderly
  <2>1. running' \notin {"recovering", "recovered"}
    BY <1>10 DEF ShutdownStep, Shutdown, ShutdownReturns, RewriteAfterShutdown
  <2> QED BY <1>1, <1>10, <2>1, ShutdownStepFrame DEF batchVars
<1>11. ASSUME RecoverFile \/ (\E c \in Chans : RecoverEntry(c)) \/ RecoveryEnd \/ CompactionStartup
       PROVE  Orderly
  BY <1>0, <1>11 DEF RecoverFile, RecoverEntry, RecoveryEnd, CompactionStartup, Orderly
<1> QED
  BY <1>2, <1>3, <1>4, <1>5, <1>6, <1>7, <1>8, <1>9, <1>10, <1>11, Steps

\* A goroutine receives from its channel.
LEMMA ChannelReceived ==
  ASSUME NEW t, NEW g, NEW h, NEW p \in Seq(Batch), NEW sk, ChannelAt(t, g, p, sk), p # <<>>,
         h.kind = g.kind, g.pc # "gone",
         t \in {"none", "sample", "sampled", "compact", "rewritten", "removing"},
         (Head(p) = Nil /\ h.pc = "gone") \/ (Head(p) # Nil /\ h.pc # "gone")
  PROVE  ChannelAt(t, h, Tail(p), sk)
<1>1. PICK q : q = Tail(p)
  OBVIOUS
<1>2. /\ q \in Seq(Batch) /\ Len(q) = Len(p) - 1 /\ Head(p) = p[1] /\ 1 \in DOMAIN p
      /\ Len(p) \in Nat /\ Len(p) > 0 /\ DOMAIN p = 1..Len(p) /\ DOMAIN q = 1..Len(q)
  BY <1>1
<1>3. \A i \in DOMAIN q : q[i] = p[i + 1] /\ i + 1 \in DOMAIN p /\ i \in Nat
  BY <1>1, <1>2
<1>4. ASSUME NEW kind, ReadingAt(g, p, kind) PROVE ReadingAt(h, q, kind)
  BY <1>2, <1>3, <1>4 DEF ReadingAt
<1>5. ASSUME NEW kind, EndingAt(g, p, kind) PROVE EndedAt(h, q) \/ EndingAt(h, q, kind)
  <2>1. CASE Head(p) = Nil
    <3>1. Len(p) = 1
      BY <1>2, <1>5, <2>1 DEF EndingAt
    <3>2. q = <<>>
      BY <1>2, <3>1
    <3> QED BY <2>1, <3>2 DEF EndedAt
  <2>2. CASE Head(p) # Nil
    <3>1. Len(p) > 1 /\ p[Len(p)] = Nil
      BY <1>2, <1>5, <2>2 DEF EndingAt
    <3>2. Len(q) \in DOMAIN q /\ q # <<>>
      BY <1>2, <3>1
    <3>3. q[Len(q)] = Nil
      BY <1>2, <1>3, <3>1, <3>2
    <3>4. \A i \in DOMAIN q : i < Len(q) => q[i] # Nil
      <4> SUFFICES ASSUME NEW i \in DOMAIN q, i < Len(q) PROVE q[i] # Nil OBVIOUS
      <4>1. i + 1 \in DOMAIN p /\ i + 1 < Len(p) /\ q[i] = p[i + 1]
        BY <1>2, <1>3
      <4> QED BY <1>5, <4>1 DEF EndingAt
    <3> QED BY <1>5, <2>2, <3>2, <3>3, <3>4 DEF EndingAt
  <2> QED BY <2>1, <2>2
<1>6. ~EndedAt(g, p)
  BY DEF EndedAt
<1>7. CASE t \in {"none", "removing"}
  BY <1>6, <1>7 DEF ChannelAt
<1>8. CASE t = "sample"
  BY <1>1, <1>4, <1>8 DEF ChannelAt
<1>9. CASE t = "compact"
  BY <1>1, <1>4, <1>9 DEF ChannelAt
<1>10. CASE t = "sampled"
  BY <1>1, <1>5, <1>6, <1>10 DEF ChannelAt
<1>11. CASE t = "rewritten"
  BY <1>1, <1>5, <1>6, <1>11 DEF ChannelAt
<1> QED BY <1>7, <1>8, <1>9, <1>10, <1>11

\* A goroutine goes on with its batch.
LEMMA ChannelSame ==
  ASSUME NEW t, NEW g, NEW h, NEW p, NEW sk, NEW sk1, ChannelAt(t, g, p, sk), h.kind = g.kind,
         g.pc # "gone", h.pc # "gone", sk1 = sk \/ g.kind = "sample",
         t \in {"none", "sample", "sampled", "compact", "rewritten", "removing"}
  PROVE  ChannelAt(t, h, p, sk1)
<1>1. \A kind : /\ ReadingAt(g, p, kind) => ReadingAt(h, p, kind) /\ g.kind = kind
                /\ EndingAt(g, p, kind) => EndingAt(h, p, kind) /\ g.kind = kind
  BY DEF ReadingAt, EndingAt
<1>2. ~EndedAt(g, p)
  BY DEF EndedAt
<1> QED BY <1>1, <1>2 DEF ChannelAt

\* Under way there is only the goroutine of the call.
LEMMA OnlySlot ==
  ASSUME CompactionInv, Orderly, NEW c \in Chans, NEW s \in Slots, gor[c][s].pc # "gone"
  PROVE  s = 1 /\ slot = 1
<1>1. slot = 1
  BY ChannelsNow
<1> QED BY <1>1 DEF CompactionInv, SlotsOK, Slots

LEMMA ChannelsEntryStep ==
  ASSUME CompactionInv, Next, Orderly, NEW c \in Chans, NEW s \in Slots, EntryStep(c, s)
  PROVE  ChannelsOK'
<1>1. PICK h \in GoroutineRec :
        /\ gor' = [gor EXCEPT ![c][s] = h] /\ h.kind = gor[c][s].kind
        /\ \/ Received(c, s, h) \/ Returned(c, s, h)
           \/ /\ gor[c][s].batch # <<>>
              /\ Sampled(c, s, h) \/ LookedUp(c, s, h) \/ HasRead(c, s, h)
  BY EntryStepEffect
<1>2. gor[c][s].pc # "gone"
  BY EntryStepAlive
<1>3. s = 1 /\ slot = 1 /\ 1 \in Slots
  BY <1>2, OnlySlot, SlotFacts
<1>4. UNCHANGED <<slot, task>>
  BY EntryStepFrame
<1>5. /\ gor \in [Chans -> [Slots -> GoroutineRec]] /\ pending \in [Chans -> Seq(Batch)]
      /\ skip \in [Chans -> BOOLEAN]
      /\ task \in {"none", "sample", "sampled", "compact", "rewritten", "removing"}
  BY DEF CompactionInv, TaskTypes
<1>6. PICK g, p : g = gor[c][1] /\ p = pending[c]
  OBVIOUS
<1>7. gor'[c][1] = h /\ \A d \in Chans \ {c} : gor'[d] = gor[d]
  BY <1>1, <1>3, <1>5
<1>8. /\ \A d \in Chans \ {c} : pending'[d] = pending[d] /\ skip'[d] = skip[d]
      /\ h.kind = g.kind /\ g.pc # "gone"
      /\ \/ /\ pending'[c] = Tail(p) /\ skip'[c] = skip[c] /\ p # <<>>
            /\ (Head(p) = Nil /\ h.pc = "gone") \/ (Head(p) # Nil /\ h.pc # "gone")
         \/ /\ pending'[c] = p /\ h.pc # "gone"
            /\ skip'[c] = skip[c] \/ g.kind = "sample"
  <2>1. CASE Received(c, s, h)
    <3>1. /\ pending' = [pending EXCEPT ![c] = Tail(@)] /\ skip' = skip /\ p # <<>>
          /\ \/ Head(p) = Nil /\ h.pc = "gone"
             \/ Head(p) # Nil /\ h = gor[c][s]
             \/ Head(p) # Nil /\ h.pc = "entry"
      BY <1>6, <2>1 DEF Received
    <3>2. pending'[c] = Tail(p) /\ \A d \in Chans \ {c} : pending'[d] = pending[d]
      BY <1>5, <1>6, <3>1
    <3> QED BY <1>1, <1>2, <1>3, <1>6, <3>1, <3>2
  <2>2. CASE Returned(c, s, h) \/ LookedUp(c, s, h) \/ HasRead(c, s, h)
    <3>1. UNCHANGED <<pending, skip>> /\ h.pc # "gone"
      BY <2>2 DEF Returned, LookedUp, HasRead
    <3> QED BY <1>1, <1>2, <1>3, <1>6, <3>1
  <2>3. CASE Sampled(c, s, h)
    <3>1. /\ pending' = pending /\ h.pc # "gone" /\ gor[c][s].kind = "sample"
          /\ skip' = skip \/ \E b \in BOOLEAN : skip' = [skip EXCEPT ![c] = b]
      BY <2>3 DEF Sampled
    <3>2. \A d \in Chans \ {c} : skip'[d] = skip[d]
      BY <1>5, <3>1
    <3> QED BY <1>1, <1>2, <1>3, <1>6, <3>1, <3>2
  <2> QED BY <1>1, <2>1, <2>2, <2>3
<1>9. \A d \in Chans : ChannelAt(task, gor[d][1], pending[d], skip[d])
  BY ChannelsNow
<1>10. ChannelAt(task', gor'[c][1], pending'[c], skip'[c])
  <2>1. ChannelAt(task, g, p, skip[c]) /\ p \in Seq(Batch)
    BY <1>5, <1>6, <1>9
  <2>2. CASE /\ pending'[c] = Tail(p) /\ skip'[c] = skip[c] /\ p # <<>>
             /\ (Head(p) = Nil /\ h.pc = "gone") \/ (Head(p) # Nil /\ h.pc # "gone")
    <3>1. ChannelAt(task, h, Tail(p), skip[c])
      BY <1>5, <1>8, <2>1, <2>2, ChannelReceived
    <3> QED BY <1>4, <1>7, <2>2, <3>1
  <2>3. CASE /\ pending'[c] = p /\ h.pc # "gone"
             /\ skip'[c] = skip[c] \/ g.kind = "sample"
    <3>1. ChannelAt(task, h, p, skip'[c])
      BY <1>5, <1>8, <2>1, <2>3, ChannelSame
    <3> QED BY <1>4, <1>7, <2>3, <3>1
  <2> QED BY <1>8, <2>2, <2>3
<1>11. \A d \in Chans : ChannelAt(task', gor'[d][1], pending'[d], skip'[d])
  BY <1>4, <1>7, <1>8, <1>9, <1>10
<1> QED BY <1>3, <1>4, <1>11, ChannelsThen

LEMMA ChannelsRewrite ==
  ASSUME CompactionInv, Next, Orderly, NEW c \in Chans, NEW s \in Slots, Rewrite(c, s)
  PROVE  ChannelsOK'
<1>1. PICK g : g = gor[c][s]
  OBVIOUS
<1>2. /\ g.pc = "write" /\ g \in GoroutineRec
      /\ \/ gor' = [gor EXCEPT ![c][s] = [Done(g) EXCEPT !.batch = <<>>]]
         \/ gor' = [gor EXCEPT ![c][s] = Done(g)]
      /\ UNCHANGED <<skip, slot, task, pending>>
  BY <1>1, RewriteEffect, InvParts, Zenon DEF EntryFrame
<1>3. s = 1 /\ slot = 1 /\ 1 \in Slots
  BY <1>1, <1>2, OnlySlot, SlotFacts
<1>4. PICK h : gor' = [gor EXCEPT ![c][s] = h] /\ h.kind = g.kind /\ h.pc = "entry"
  <2>1. /\ Done(g).pc = "entry" /\ Done(g).kind = g.kind
        /\ [Done(g) EXCEPT !.batch = <<>>].pc = "entry" /\ [Done(g) EXCEPT !.batch = <<>>].kind = g.kind
    BY <1>2 DEF Done, GoroutineRec
  <2> QED BY <1>2, <2>1
<1>5. /\ gor \in [Chans -> [Slots -> GoroutineRec]]
      /\ task \in {"none", "sample", "sampled", "compact", "rewritten", "removing"}
  BY DEF CompactionInv, TaskTypes
<1>6. gor'[c][1] = h /\ \A d \in Chans \ {c} : gor'[d] = gor[d]
  BY <1>3, <1>4, <1>5
<1>7. \A d \in Chans : ChannelAt(task, gor[d][1], pending[d], skip[d])
  BY ChannelsNow
<1>8. ChannelAt(task, h, pending[c], skip[c])
  <2>1. ChannelAt(task, g, pending[c], skip[c]) /\ g.pc # "gone" /\ h.pc # "gone"
    BY <1>1, <1>2, <1>3, <1>4, <1>7
  <2> QED BY <1>4, <1>5, <2>1, ChannelSame
<1>9. \A d \in Chans : ChannelAt(task', gor'[d][1], pending'[d], skip'[d])
  BY <1>2, <1>6, <1>7, <1>8
<1> QED BY <1>2, <1>3, <1>9, ChannelsThen

LEMMA ChannelsBegin ==
  ASSUME CompactionInv, Next, Orderly, Orderly', NEW w \in Chans, TaskBegin(w), Alive PROVE ChannelsOK'
<1>1. /\ Active(w) /\ lock = 0 /\ pending' = pending /\ skip' = [c \in Chans |-> FALSE]
      /\ gor' = IF cancel /\ worker[w].pc = "compact" /\ slot > 1 THEN gor
                ELSE Started(worker[w].pc)
      /\ BeginFails(w) \/ Begun(w)
      /\ UNCHANGED <<cancel, launcher, running>>
  BY TaskBeginEffect DEF TaskFrame, ResetCounts
<1>2. Begun(w)
  BY <1>1, OrderlyParts DEF BeginFails
<1>3. task' = worker[w].pc /\ worker[w].pc \in {"sample", "compact"} /\ slot' = slot
  BY <1>1, <1>2 DEF Begun, Active
<1>4. launcher \notin {"gone", "wait"}
  BY <1>1 DEF CompactionInv, WorkersOK, WorkersGone, Active
<1>5. ~cancel
  BY <1>1, <1>3, <1>4, OrderlyParts DEF Alive
<1>6. task = "none"
  BY <1>1 DEF CompactionInv, WorkersOK
<1>7. slot = 1 /\ \A c \in Chans : pending[c] = <<>>
  BY <1>6, ChannelsNow DEF ChannelAt, EndedAt
<1>8. gor \in [Chans -> [Slots -> GoroutineRec]] /\ 1 \in Slots
  BY SlotFacts DEF CompactionInv, TaskTypes
<1>9. \A c \in Chans : gor'[c][1] = [pc |-> "wait", kind |-> worker[w].pc, batch |-> <<>>, val |-> 0]
  BY <1>1, <1>5, <1>7, <1>8 DEF Started
<1>10. \A c \in Chans : gor'[c][1].pc = "wait" /\ gor'[c][1].kind = task'
  BY <1>3, <1>9
<1>11. ASSUME NEW c \in Chans PROVE ReadingAt(gor'[c][1], pending'[c], task') /\ ~skip'[c]
  BY <1>1, <1>7, <1>10 DEF ReadingAt
<1>12. \A c \in Chans : ChannelAt(task', gor'[c][1], pending'[c], skip'[c])
  BY <1>3, <1>11 DEF ChannelAt
<1> QED BY <1>3, <1>7, <1>12, ChannelsThen

LEMMA ChannelsReadEntry ==
  ASSUME CompactionInv, Next, Orderly, ReadEntry PROVE ChannelsOK'
<1>1. PICK i \in todo, c \in Chans, b \in Seq(EntryRec) : ReadInto(i, c, b)
  BY ReadEntryEffect
<1>2. /\ UNCHANGED <<task, slot, gor, skip>> /\ task \in {"sample", "compact"}
  BY ReadEntryEffect DEF counts
<1>3. /\ b # Nil
      /\ pending' = pending \/ pending' = [pending EXCEPT ![c] = Append(@, b)]
  BY <1>1, Zenon DEF ReadInto
<1>4. pending \in [Chans -> Seq(Batch)] /\ b \in Batch
  BY DEF CompactionInv, TaskTypes, Batch
<1>5. slot = 1 /\ \A d \in Chans : ChannelAt(task, gor[d][1], pending[d], skip[d])
  BY ChannelsNow
<1>6. ASSUME NEW d \in Chans, \A j \in DOMAIN pending[d] : pending[d][j] # Nil
      PROVE  \A j \in DOMAIN pending'[d] : pending'[d][j] # Nil
  <2>1. pending'[d] = pending[d] \/ pending'[d] = Append(pending[d], b)
    BY <1>3, <1>4
  <2>2. PICK p, q : p = pending[d] /\ q = pending'[d]
    OBVIOUS
  <2>3. p \in Seq(Batch) /\ (q = p \/ q = Append(p, b)) /\ \A j \in DOMAIN p : p[j] # Nil
    BY <1>4, <1>6, <2>1, <2>2
  <2>4. \A j \in DOMAIN q : q[j] # Nil
    <3>1. CASE q = p
      BY <2>3, <3>1
    <3>2. CASE q = Append(p, b)
      <4>1. \A j \in DOMAIN q : (j \in DOMAIN p /\ q[j] = p[j]) \/ q[j] = b
        BY <1>4, <2>3, <3>2
      <4> QED BY <1>3, <2>3, <4>1
    <3> QED BY <2>3, <3>1, <3>2
  <2> QED BY <2>2, <2>4
<1>7. \A d \in Chans : ChannelAt(task', gor'[d][1], pending'[d], skip'[d])
  <2> TAKE d \in Chans
  <2>1. ChannelAt(task, gor[d][1], pending[d], skip[d])
    BY <1>5
  <2>2. \A kind : ReadingAt(gor[d][1], pending[d], kind) => ReadingAt(gor'[d][1], pending'[d], kind)
    BY <1>2, <1>6 DEF ReadingAt
  <2> QED BY <1>2, <2>1, <2>2 DEF ChannelAt
<1> QED BY <1>2, <1>5, <1>7, ChannelsThen

LEMMA ChannelsReadEnd ==
  ASSUME CompactionInv, Next, Orderly, Orderly', ReadEnd, Alive PROVE ChannelsOK'
<1>1. /\ ReadCanceled \/ ReadAll
      /\ UNCHANGED <<gor, skip, launcher, running, cancel>>
  BY ReadEndEffect DEF TaskFrame, counts
<1>2. ReadAll
  <2> SUFFICES ASSUME ReadCanceled PROVE FALSE BY <1>1
  <2>1. task = "compact" /\ cancel /\ task' = "none"
    BY DEF ReadCanceled
  <2>2. launcher # "wait"
    BY <2>1, HolderFacts
  <2> QED BY <1>1, <2>1, <2>2, OrderlyParts DEF Alive
<1>3. /\ UNCHANGED slot
      /\ (task = "sample" /\ task' = "sampled") \/ (task = "compact" /\ task' = "rewritten")
      /\ pending' = [c \in Chans |-> Append(pending[c] \o Rest(c), Nil)]
  BY <1>2 DEF ReadAll
<1>4. slot = 1 /\ \A c \in Chans : ChannelAt(task, gor[c][1], pending[c], skip[c])
  BY ChannelsNow
<1>5. ASSUME NEW c \in Chans PROVE ChannelAt(task', gor'[c][1], pending'[c], skip'[c])
  <2>1. PICK p, q, f : p = pending[c] /\ q = pending[c] \o Rest(c) /\ f = filling[c]
    OBVIOUS
  <2>2. /\ p \in Seq(Batch) /\ q \in Seq(Batch) /\ Nil \in Batch /\ f \in Batch
        /\ f = Nil => q = p
        /\ f # Nil => q = Append(p, f)
    BY <2>1, RestTyped, EntriesNow
  <2>3. ReadingAt(gor[c][1], p, task) /\ (task = "compact" => ~skip[c])
    BY <1>3, <1>4, <2>1 DEF ChannelAt
  <2>4. \A i \in DOMAIN q : q[i] # Nil
    <3>1. CASE f = Nil
      BY <2>2, <2>3, <3>1 DEF ReadingAt
    <3>2. CASE f # Nil
      <4>1. \A j \in DOMAIN q : (j \in DOMAIN p /\ q[j] = p[j]) \/ q[j] = f
        BY <2>2, <3>2
      <4> QED BY <2>3, <3>2, <4>1 DEF ReadingAt
    <3> QED BY <3>1, <3>2
  <2>5. PICK r : r = Append(q, Nil)
    OBVIOUS
  <2>6. /\ r # <<>> /\ r[Len(r)] = Nil
        /\ \A i \in DOMAIN r : i < Len(r) => r[i] # Nil
    <3>1. Len(r) = Len(q) + 1 /\ Len(q) \in Nat /\ r[Len(q) + 1] = Nil /\ DOMAIN r = 1..(Len(q) + 1)
          /\ DOMAIN q = 1..Len(q) /\ \A i \in 1..Len(q) : r[i] = q[i]
      BY <2>2, <2>5
    <3>2. \A i \in DOMAIN r : i < Len(r) => i \in DOMAIN q
      BY <3>1
    <3> QED BY <2>4, <3>1, <3>2
  <2>7. EndingAt(gor'[c][1], r, task)
    BY <1>1, <2>3, <2>6 DEF EndingAt, ReadingAt
  <2>8. pending'[c] = r /\ skip'[c] = skip[c]
    BY <1>1, <1>3, <2>1, <2>5
  <2> QED BY <1>3, <2>3, <2>7, <2>8 DEF ChannelAt
<1> QED BY <1>3, <1>4, <1>5, ChannelsThen

LEMMA ChannelsStep ==
  ASSUME CompactionInv, Next PROVE ChannelsOK'
<1> SUFFICES ASSUME Orderly' PROVE ChannelsOK'
  BY DEF ChannelsOK
<1>0. CASE Crash \/ Startup
  <2>1. slot' = 1 /\ task' = "none" /\ gor' = Idle /\ pending' = [c \in Chans |-> <<>>] /\ 1 \in Slots
    BY <1>0, SlotFacts DEF Crash, Startup
  <2>2. \A c \in Chans : gor'[c][1].pc = "gone" /\ pending'[c] = <<>>
    BY <2>1 DEF Idle
  <2>3. \A c \in Chans : ChannelAt(task', gor'[c][1], pending'[c], skip'[c])
    BY <2>1, <2>2 DEF ChannelAt, EndedAt
  <2> QED BY <2>1, <2>3, ChannelsThen
<1>1. CASE Orderly
  <2>0. slot = 1 /\ \A c \in Chans : ChannelAt(task, gor[c][1], pending[c], skip[c])
    BY <1>1, ChannelsNow
  <2>1. ASSUME UNCHANGED <<slot, task, gor, pending, skip>> PROVE ChannelsOK'
    BY <2>0, <2>1, ChannelsThen
  <2>2. ASSUME UNCHANGED <<slot, gor, pending, skip>>, Finished, task' \in {"none", "removing"}
        PROVE  ChannelsOK'
    <3>1. \A c \in Chans : gor[c][1].pc = "gone"
      BY <2>0, <2>2 DEF Finished
    <3>2. task # "none" => \A c \in Chans : EndedAt(gor[c][1], pending[c])
      <4>1. task \in {"none", "sample", "sampled", "compact", "rewritten", "removing"}
        BY DEF CompactionInv, TaskTypes
      <4> QED BY <2>0, <3>1, <4>1 DEF ChannelAt, EndingAt, ReadingAt
    <3>3. \A c \in Chans : EndedAt(gor[c][1], pending[c])
      BY <2>0, <3>2 DEF ChannelAt
    <3>4. \A c \in Chans : ChannelAt(task', gor'[c][1], pending'[c], skip'[c])
      BY <2>2, <3>3 DEF ChannelAt
    <3> QED BY <2>0, <2>2, <3>4, ChannelsThen
  <2>3. ASSUME NEW w \in Writes, ClientWrite(w) PROVE ChannelsOK'
    BY <2>1, <2>3, ClientWriteStep DEF batchVars, counts
  <2>4. ASSUME PageOut \/ Flush PROVE ChannelsOK'
    BY <2>1, <2>4, InvParts, PageEffect DEF batchVars, counts
  <2>5. ASSUME PassStep \/ ShutdownStep PROVE ChannelsOK'
    BY <2>1, <2>5, PassStepFrame, ShutdownStepFrame DEF batchVars, counts
  <2>6. ASSUME ReaderStep PROVE ChannelsOK'
    <3>1. ReadBlock => UNCHANGED <<slot, task, gor, pending, skip>>
      BY DEF ReadBlock
    <3> QED BY <1>1, <2>1, <2>6, <3>1, ChannelsBegin, ChannelsReadEntry, ChannelsReadEnd
            DEF ReaderStep
  <2>7. ASSUME EndStep PROVE ChannelsOK'
    BY <2>2, <2>7, EndStepFrame, EndStepEffect DEF counts, Unlocked
  <2>8. ASSUME RemoveTOC PROVE ChannelsOK'
    BY <2>2, <2>8 DEF RemoveTOC, Removes, counts
  <2>9. ASSUME RemoveValues PROVE ChannelsOK'
    BY <2>2, <2>9 DEF RemoveValues, Unlock, counts, CompactionInv, SlotsOK
  <2>10. ASSUME RecoverFile \/ (\E c \in Chans : RecoverEntry(c)) \/ RecoveryEnd \/ CompactionStartup
         PROVE  ChannelsOK'
    BY <2>1, <2>10 DEF RecoverFile, RecoverEntry, RecoveryEnd, CompactionStartup, RecoveryFrame,
                       batchVars, counts
  <2> QED
    BY <1>0, <1>1, <2>3, <2>4, <2>5, <2>6, <2>7, <2>8, <2>9, <2>10, ChannelsEntryStep,
       ChannelsRewrite, Steps
<1> QED BY <1>0, <1>1, WasOrderly

(***************************************************************************)
(* What compactFile still has to rewrite                                   *)
(***************************************************************************)
HasAt(b, k, t) == b # Nil /\ \E i \in DOMAIN b : b[i].key = k /\ b[i].ts = t
FlightNow(k, t) ==
  \/ \E i \in todo : data[File][i].key = k /\ data[File][i].ts = t
  \/ \E c \in Chans : \/ HasAt(filling[c], k, t)
                      \/ \E i \in DOMAIN pending[c] : HasAt(pending[c][i], k, t)
                      \/ HasAt(gor[c][1].batch, k, t)
FlightThen(k, t) ==
  \/ \E i \in todo' : data'[worker'[lock'].file][i].key = k /\ data'[worker'[lock'].file][i].ts = t
  \/ \E c \in Chans : \/ HasAt(filling'[c], k, t)
                      \/ \E i \in DOMAIN pending'[c] : HasAt(pending'[c][i], k, t)
                      \/ HasAt(gor'[c][1].batch, k, t)

LEMMA FlightParts ==
  /\ \A k \in Keys : InFlight(k) <=> FlightNow(k, lm[k].ts)
  /\ \A k \in Keys : InFlight(k)' <=> FlightThen(k, lm'[k].ts)
<1>1. ASSUME NEW k \in Keys PROVE InFlight(k) <=> FlightNow(k, lm[k].ts)
  <2>1. \A i : Matches(Entry(File, i), k) <=> data[File][i].key = k /\ data[File][i].ts = lm[k].ts
    BY DEF Matches, Entry
  <2>2. \A b : Has(b, k) <=> HasAt(b, k, lm[k].ts)
    BY DEF Has, HasAt, Matches
  <2> QED BY <2>1, <2>2 DEF InFlight, FlightNow
<1>2. ASSUME NEW k \in Keys PROVE InFlight(k)' <=> FlightThen(k, lm'[k].ts)
  BY DEF InFlight, FlightThen, Has, HasAt, Matches, Entry, File
<1> QED BY <1>1, <1>2

LEMMA TailHas ==
  ASSUME NEW b \in Seq(EntryRec), b # <<>>, NEW k, NEW t, HasAt(b, k, t),
         ~(Head(b).key = k /\ Head(b).ts = t)
  PROVE  HasAt(Tail(b), k, t)
<1>1. PICK i \in DOMAIN b : b[i].key = k /\ b[i].ts = t
  BY DEF HasAt
<1>2. PICK q : q = Tail(b)
  OBVIOUS
<1>3. q \in Seq(EntryRec) /\ i # 1
  BY <1>1, <1>2
<1>4. i - 1 \in DOMAIN q /\ q[i - 1] = b[i]
  BY <1>1, <1>2, <1>3
<1>5. q # Nil
  BY <1>3, NotNil
<1> QED BY <1>1, <1>2, <1>4, <1>5 DEF HasAt

\* What RewritesOK is about, before and after a step.
Rewriting     == Orderly /\ task \in {"compact", "rewritten"} /\ ~readErr /\ ~writeErr
RewritingThen == Orderly' /\ task' \in {"compact", "rewritten"} /\ ~readErr' /\ ~writeErr'

\* Has the reader of the TOC missed the entry that the location of k is about?
MissedNow(k)  == [key |-> k, ts |-> lm[k].ts, id |-> lm[k].id] \in missed
MissedThen(k) == [key |-> k, ts |-> lm'[k].ts, id |-> lm'[k].id] \in missed'

LEMMA RewritesThen ==
  ASSUME RewritingThen =>
           \A k \in Keys : Live(lm'[k]) /\ lm'[k].id = worker'[lock'].file /\ ~MissedThen(k) =>
                            FlightThen(k, lm'[k].ts)
  PROVE  RewritesOK'
<1>1. \A k : Lost(missed, lm, k)' <=> MissedThen(k)
  BY DEF Lost, MissedThen
<1> QED BY <1>1, FlightParts DEF RewritesOK, RewritingThen, Live, File

LEMMA RewritesNow ==
  ASSUME CompactionInv, Rewriting, NEW k \in Keys, Live(lm[k]), lm[k].id = File, ~MissedNow(k)
  PROVE  FlightNow(k, lm[k].ts)
<1>1. ~Lost(missed, lm, k)
  BY DEF Lost, MissedNow
<1> QED BY <1>1, FlightParts DEF CompactionInv, RewritesOK, Rewriting

LEMMA MissedSame ==
  ASSUME NEW k, missed' = missed, lm'[k] = lm[k] PROVE MissedThen(k) <=> MissedNow(k)
BY DEF MissedNow, MissedThen

\* Steps beside the call.
LEMMA RewritesStable ==
  ASSUME CompactionInv, UNCHANGED <<task, todo, filling, pending, gor, lock, readErr, writeErr, missed>>,
         lock # 0 => worker'[lock] = worker[lock], Orderly' => Orderly,
         \A f \in FileIDs : data[f] # <<>> => data'[f] = data[f],
         \A k \in Keys : lm'[k] = lm[k] \/ lm'[k].id \in {0, MEM}
                         \/ (lm'[k].id \in FileIDs /\ data[lm'[k].id] = <<>>)
  PROVE  RewritesOK'
<1> SUFFICES ASSUME RewritingThen, NEW k \in Keys, Live(lm'[k]), lm'[k].id = worker'[lock'].file,
                    ~MissedThen(k)
             PROVE  FlightThen(k, lm'[k].ts)
  BY RewritesThen
<1>1. Rewriting /\ task # "none"
  BY DEF RewritingThen, Rewriting
<1>2. worker'[lock'].file = File /\ File \in FileIDs /\ data[File] # <<>> /\ data'[File] = data[File]
  BY <1>1, HolderFacts DEF File
<1>3. lm'[k] = lm[k]
  BY <1>2 DEF FileIDs, MEM
<1>4. FlightNow(k, lm[k].ts)
  BY <1>1, <1>2, <1>3, RewritesNow, MissedSame
<1> QED BY <1>2, <1>3, <1>4 DEF FlightNow, FlightThen

LEMMA RewritesBegin ==
  ASSUME CompactionInv, NEW w \in Chans, TaskBegin(w) PROVE RewritesOK'
<1> SUFFICES ASSUME RewritingThen, NEW k \in Keys, Live(lm'[k]), lm'[k].id = worker'[lock'].file,
                    ~MissedThen(k)
             PROVE  FlightThen(k, lm'[k].ts)
  BY RewritesThen
<1>1. /\ BeginFails(w) \/ Begun(w)
      /\ UNCHANGED <<data, toc, lm>>
  BY TaskBeginEffect DEF TaskFrame, store
<1>2. Begun(w)
  BY <1>1, OrderlyParts DEF BeginFails, RewritingThen
<1>3. lock' = w /\ todo' = toc[worker[w].file] /\ worker' = worker
  BY <1>2 DEF Begun
<1>4. lm[k].id = worker[w].file /\ lm[k].id # 0 /\ lm[k].id \in {MEM} \cup FileIDs
  BY <1>1, <1>3, LocationValue DEF Live
<1>5. lm[k].id # MEM
  BY <1>4, TaskBeginEffect DEF CompactionInv, WorkersOK, MEM, FileIDs
<1>6. /\ lm[k].off \in toc[lm[k].id] /\ data[lm[k].id][lm[k].off].key = k
      /\ data[lm[k].id][lm[k].off].ts = lm[k].ts
  BY <1>4, <1>5, LocationValue DEF Value
<1> QED BY <1>1, <1>3, <1>4, <1>6 DEF FlightThen

\* Of a block, or of all that is left, the entries are read or missed.
LEMMA RewritesReadBlock ==
  ASSUME CompactionInv, ReadBlock PROVE RewritesOK'
<1> SUFFICES ASSUME RewritingThen, NEW k \in Keys, Live(lm'[k]), lm'[k].id = worker'[lock'].file,
                    ~MissedThen(k)
             PROVE  FlightThen(k, lm'[k].ts)
  BY RewritesThen
<1>1. /\ BlockRead \/ \E S \in SUBSET todo : BlockMissed(S)
      /\ UNCHANGED <<lock, task, filling, pending, gor, worker, data, lm, readErr, writeErr, cancel,
                     launcher, running, left>>
      /\ task \in {"sample", "compact"}
  BY ReadBlockEffect DEF TaskFrame, store
<1>2. Rewriting
  BY <1>1, OrderlyParts DEF RewritingThen, Rewriting, Orderly
<1>3. lm'[k] = lm[k] /\ worker'[lock'].file = File /\ Live(lm[k]) /\ lm[k].id = File
  BY <1>1 DEF File
<1>4. CASE BlockRead
  <2>1. todo' = todo /\ missed' = missed
    BY <1>4 DEF BlockRead
  <2>2. FlightNow(k, lm[k].ts)
    BY <1>2, <1>3, <2>1, RewritesNow, MissedSame
  <2> QED BY <1>1, <1>3, <2>1, <2>2 DEF FlightNow, FlightThen
<1>5. ASSUME NEW S \in SUBSET todo, BlockMissed(S) PROVE FlightThen(k, lm'[k].ts)
  <2>1. PICK t : t = lm[k].ts
    OBVIOUS
  <2>2. todo' = todo \ S /\ missed \subseteq missed'
    BY <1>5 DEF BlockMissed
  <2>3. \A i \in S : Entry(File, i) \in missed'
    BY <1>5, Zenon DEF BlockMissed
  <2>4. ~MissedNow(k)
    BY <1>3, <2>2 DEF MissedNow, MissedThen
  <2>5. FlightNow(k, t)
    BY <1>2, <1>3, <2>1, <2>4, RewritesNow
  <2>6. \A i \in S : ~(data[File][i].key = k /\ data[File][i].ts = t)
    <3> SUFFICES ASSUME NEW i \in S, data[File][i].key = k, data[File][i].ts = t PROVE FALSE
      OBVIOUS
    <3>1. Entry(File, i) = [key |-> k, ts |-> lm'[k].ts, id |-> lm'[k].id]
      BY <1>3, <2>1 DEF Entry
    <3> QED BY <2>3, <3>1 DEF MissedThen
  <2>7. FlightThen(k, t)
    BY <1>1, <1>3, <2>2, <2>5, <2>6 DEF FlightNow, FlightThen
  <2> QED BY <1>3, <2>1, <2>7
<1> QED BY <1>1, <1>4, <1>5

\* The reader hands an entry on.
LEMMA RewritesReadEntry ==
  ASSUME CompactionInv, Next, ReadEntry PROVE RewritesOK'
<1> SUFFICES ASSUME RewritingThen, NEW k \in Keys, Live(lm'[k]), lm'[k].id = worker'[lock'].file,
                    ~MissedThen(k)
             PROVE  FlightThen(k, lm'[k].ts)
  BY RewritesThen
<1>1. PICK i \in todo, c \in Chans, b \in Seq(EntryRec) : ReadInto(i, c, b)
  BY ReadEntryEffect
<1>2. UNCHANGED <<lock, task, gor, worker, data, lm, readErr, writeErr, missed, cancel, launcher,
                  running, left>>
  BY ReadEntryEffect DEF TaskFrame, store
<1>3. Rewriting
  BY <1>2, OrderlyParts DEF RewritingThen, Rewriting, Orderly
<1>4. PICK t : t = lm[k].ts
  OBVIOUS
<1>5. FlightNow(k, t)
  BY <1>2, <1>3, <1>4, RewritesNow, MissedSame DEF File
<1>6. /\ todo' = todo \ {i} /\ b # Nil
      /\ b = IF filling[c] = Nil THEN <<Entry(File, i)>> ELSE Append(filling[c], Entry(File, i))
      /\ \/ filling' = [filling EXCEPT ![c] = b] /\ pending' = pending
         \/ filling' = [filling EXCEPT ![c] = Nil] /\ pending' = [pending EXCEPT ![c] = Append(@, b)]
  BY <1>1, Zenon DEF ReadInto
<1>7. filling \in [Chans -> Batch] /\ pending \in [Chans -> Seq(Batch)] /\ b \in Batch
  BY DEF CompactionInv, TaskTypes, Batch
<1>8. /\ \A d \in Chans \ {c} : filling'[d] = filling[d] /\ pending'[d] = pending[d]
      /\ \/ filling'[c] = b /\ pending'[c] = pending[c]
         \/ pending'[c] = Append(pending[c], b)
  BY <1>6, <1>7
<1>9. ASSUME HasAt(b, k, t) PROVE FlightThen(k, t)
  <2>1. CASE filling'[c] = b
    BY <1>9, <2>1 DEF FlightThen
  <2>2. CASE pending'[c] = Append(pending[c], b)
    <3>1. PICK p, q : p = pending[c] /\ q = pending'[c]
      OBVIOUS
    <3>2. Len(p) + 1 \in DOMAIN q /\ q[Len(p) + 1] = b
      BY <1>7, <2>2, <3>1
    <3> QED BY <1>9, <3>1, <3>2 DEF FlightThen
  <2> QED BY <1>8, <2>1, <2>2
<1>10. ASSUME NEW d \in Chans, NEW j \in DOMAIN pending[d] PROVE j \in DOMAIN pending'[d] /\ pending'[d][j] = pending[d][j]
  <2>1. pending'[d] = pending[d] \/ pending'[d] = Append(pending[d], b)
    BY <1>8
  <2>2. PICK p, q : p = pending[d] /\ q = pending'[d]
    OBVIOUS
  <2>3. p \in Seq(Batch) /\ (q = p \/ q = Append(p, b)) /\ j \in DOMAIN p
    BY <1>7, <1>10, <2>1, <2>2
  <2>4. j \in DOMAIN q /\ q[j] = p[j]
    <3>1. CASE q = p
      BY <2>3, <3>1
    <3>2. CASE q = Append(p, b)
      BY <1>7, <2>3, <3>2
    <3> QED BY <2>3, <3>1, <3>2
  <2> QED BY <2>2, <2>4
<1>11. PICK e : e = Entry(File, i)
  OBVIOUS
<1>12. e.key = data[File][i].key /\ e.ts = data[File][i].ts /\ e \in EntryRec
  <2>1. Entry(File, i) \in EntryRec
    BY <1>1, Zenon DEF ReadInto
  <2>2. e.key = data[File][i].key /\ e.ts = data[File][i].ts
    BY <1>11 DEF Entry
  <2> QED BY <1>11, <2>1, <2>2
<1>13. ASSUME e.key = k, e.ts = t PROVE HasAt(b, k, t)
  <2>1. \E j \in DOMAIN b : b[j] = e
    <3>1. CASE filling[c] = Nil
      <4>1. b = <<e>>
        BY <1>6, <1>11, <3>1
      <4>2. 1 \in DOMAIN b /\ b[1] = e
        BY <4>1
      <4> QED BY <4>2
    <3>2. CASE filling[c] # Nil
      <4>1. PICK a : a = filling[c]
        OBVIOUS
      <4>2. a \in Seq(EntryRec) /\ b = Append(a, e)
        BY <1>6, <1>7, <1>11, <3>2, <4>1 DEF Batch
      <4>3. Len(a) + 1 \in DOMAIN b /\ b[Len(a) + 1] = e
        BY <1>12, <4>2
      <4> QED BY <4>3
    <3> QED BY <3>1, <3>2
  <2> QED BY <1>6, <1>13, <2>1 DEF HasAt
<1>14. ASSUME HasAt(filling[c], k, t) PROVE HasAt(b, k, t)
  <2>1. PICK a : a = filling[c]
    OBVIOUS
  <2>2. a # Nil /\ a \in Seq(EntryRec) /\ b = Append(a, e)
    BY <1>6, <1>7, <1>11, <1>14, <2>1 DEF Batch, HasAt
  <2>3. \A j \in DOMAIN a : j \in DOMAIN b /\ b[j] = a[j]
    BY <1>12, <2>2
  <2> QED BY <1>6, <1>14, <2>1, <2>3 DEF HasAt
<1>15. FlightThen(k, t)
  <2>1. CASE \E j \in todo : data[File][j].key = k /\ data[File][j].ts = t
    <3>1. PICK j \in todo : data[File][j].key = k /\ data[File][j].ts = t
      BY <2>1
    <3>2. CASE j = i
      BY <1>9, <1>12, <1>13, <3>1, <3>2
    <3>3. CASE j # i
      <4>1. j \in todo' /\ data'[worker'[lock'].file] = data[File]
        BY <1>2, <1>6, <3>1, <3>3 DEF File
      <4> QED BY <3>1, <4>1 DEF FlightThen
    <3> QED BY <3>2, <3>3
  <2>2. ASSUME NEW d \in Chans, HasAt(filling[d], k, t) PROVE FlightThen(k, t)
    <3>1. CASE d = c
      BY <1>9, <1>14, <2>2, <3>1
    <3>2. CASE d # c
      BY <1>8, <2>2, <3>2 DEF FlightThen
    <3> QED BY <3>1, <3>2
  <2>3. ASSUME NEW d \in Chans, NEW j \in DOMAIN pending[d], HasAt(pending[d][j], k, t) PROVE FlightThen(k, t)
    <3>1. j \in DOMAIN pending'[d] /\ HasAt(pending'[d][j], k, t)
      BY <1>10, <2>3
    <3> QED BY <3>1 DEF FlightThen
  <2>4. ASSUME NEW d \in Chans, HasAt(gor[d][1].batch, k, t) PROVE FlightThen(k, t)
    BY <1>2, <2>4 DEF FlightThen
  <2> QED BY <1>5, <2>1, <2>2, <2>3, <2>4 DEF FlightNow
<1> QED BY <1>2, <1>4, <1>15

LEMMA RewritesReadEnd ==
  ASSUME CompactionInv, Next, ReadEnd PROVE RewritesOK'
<1> SUFFICES ASSUME RewritingThen, NEW k \in Keys, Live(lm'[k]), lm'[k].id = worker'[lock'].file,
                    ~MissedThen(k)
             PROVE  FlightThen(k, lm'[k].ts)
  BY RewritesThen
<1>1. /\ ReadCanceled \/ ReadAll
      /\ UNCHANGED <<gor, data, lm, readErr, writeErr, missed, cancel, launcher, running, left>>
  BY ReadEndEffect DEF TaskFrame, store, counts
<1>2. /\ task = "compact" /\ ~cancel /\ todo = {} /\ UNCHANGED <<lock, worker>>
      /\ pending' = [c \in Chans |-> Append(pending[c] \o Rest(c), Nil)]
  BY <1>1 DEF ReadCanceled, ReadAll, RewritingThen
<1>3. Rewriting
  BY <1>1, <1>2, OrderlyParts DEF RewritingThen, Rewriting, Orderly
<1>4. PICK t : t = lm[k].ts
  OBVIOUS
<1>5. FlightNow(k, t)
  BY <1>1, <1>2, <1>3, <1>4, RewritesNow, MissedSame DEF File
<1>6. ASSUME NEW c \in Chans
      PROVE  /\ \A j \in DOMAIN pending[c] : j \in DOMAIN pending'[c] /\ pending'[c][j] = pending[c][j]
             /\ filling[c] # Nil => \E j \in DOMAIN pending'[c] : pending'[c][j] = filling[c]
  <2>1. PICK p, q, f, r : p = pending[c] /\ q = pending[c] \o Rest(c) /\ f = filling[c] /\ r = pending'[c]
    OBVIOUS
  <2>2. /\ p \in Seq(Batch) /\ q \in Seq(Batch) /\ Nil \in Batch /\ f \in Batch
        /\ f = Nil => q = p
        /\ f # Nil => q = Append(p, f)
        /\ r = Append(q, Nil)
    BY <1>2, <2>1, RestTyped, EntriesNow
  <2>3. \A j \in DOMAIN q : j \in DOMAIN r /\ r[j] = q[j]
    BY <2>2
  <2>4. \A j \in DOMAIN p : j \in DOMAIN q /\ q[j] = p[j]
    <3>1. CASE f = Nil
      BY <2>2, <3>1
    <3>2. CASE f # Nil
      <4>1. q = Append(p, f)
        BY <2>2, <3>2
      <4> QED BY <2>2, <4>1
    <3> QED BY <3>1, <3>2
  <2>5. f # Nil => Len(p) + 1 \in DOMAIN q /\ q[Len(p) + 1] = f
    BY <2>2
  <2> QED BY <2>1, <2>3, <2>4, <2>5
<1>7. FlightThen(k, t)
  <2>1. ASSUME NEW c \in Chans, HasAt(filling[c], k, t) PROVE FlightThen(k, t)
    <3>1. PICK j \in DOMAIN pending'[c] : pending'[c][j] = filling[c]
      BY <1>6, <2>1 DEF HasAt
    <3>2. HasAt(pending'[c][j], k, t)
      BY <2>1, <3>1
    <3> QED BY <3>1, <3>2 DEF FlightThen
  <2>2. ASSUME NEW c \in Chans, NEW j \in DOMAIN pending[c], HasAt(pending[c][j], k, t) PROVE FlightThen(k, t)
    <3>1. j \in DOMAIN pending'[c] /\ HasAt(pending'[c][j], k, t)
      BY <1>6, <2>2
    <3> QED BY <3>1 DEF FlightThen
  <2>3. ASSUME NEW c \in Chans, HasAt(gor[c][1].batch, k, t) PROVE FlightThen(k, t)
    BY <1>1, <2>3 DEF FlightThen
  <2> QED BY <1>2, <1>5, <2>1, <2>2, <2>3 DEF FlightNow
<1> QED BY <1>1, <1>4, <1>7

\* A goroutine has another record and perhaps the first batch of its channel.
LEMMA FlightWork ==
  ASSUME CompactionInv, NEW c \in Chans, NEW h \in GoroutineRec, gor' = [gor EXCEPT ![c][1] = h],
         UNCHANGED <<todo, filling, lock, worker, data>>, NEW k, NEW t, FlightNow(k, t),
         \/ pending' = pending
         \/ /\ pending[c] # <<>> /\ pending' = [pending EXCEPT ![c] = Tail(@)]
            /\ HasAt(Head(pending[c]), k, t) => HasAt(h.batch, k, t),
         HasAt(gor[c][1].batch, k, t) => HasAt(h.batch, k, t)
  PROVE  FlightThen(k, t)
<1>1. gor \in [Chans -> [Slots -> GoroutineRec]] /\ 1 \in Slots /\ pending \in [Chans -> Seq(Batch)]
  BY SlotFacts DEF CompactionInv, TaskTypes
<1>2. gor'[c][1] = h /\ \A d \in Chans \ {c} : gor'[d] = gor[d]
  BY <1>1
<1>3. ASSUME HasAt(h.batch, k, t) PROVE FlightThen(k, t)
  BY <1>2, <1>3 DEF FlightThen
<1>4. CASE \E i \in todo : data[File][i].key = k /\ data[File][i].ts = t
  BY <1>4 DEF FlightThen, File
<1>5. ASSUME NEW d \in Chans, HasAt(filling[d], k, t) PROVE FlightThen(k, t)
  BY <1>5 DEF FlightThen
<1>6. ASSUME NEW d \in Chans, NEW j \in DOMAIN pending[d], HasAt(pending[d][j], k, t) PROVE FlightThen(k, t)
  <2>1. CASE pending'[d] = pending[d]
    BY <1>6, <2>1 DEF FlightThen
  <2>2. CASE pending'[d] # pending[d]
    <3>1. /\ d = c /\ pending[d] # <<>> /\ pending'[d] = Tail(pending[d])
          /\ HasAt(Head(pending[d]), k, t) => HasAt(h.batch, k, t)
      BY <1>1, <2>2
    <3>2. PICK p, q : p = pending[d] /\ q = pending'[d]
      OBVIOUS
    <3>3. p \in Seq(Batch) /\ q = Tail(p) /\ p # <<>> /\ j \in DOMAIN p
      BY <1>1, <1>6, <3>1, <3>2
    <3>4. CASE j = 1
      <4>1. Head(p) = p[j]
        BY <3>3, <3>4
      <4> QED BY <1>3, <1>6, <3>1, <3>2, <4>1
    <3>5. CASE j # 1
      <4>1. j - 1 \in DOMAIN q /\ q[j - 1] = p[j]
        BY <3>3, <3>5
      <4> QED BY <1>6, <3>2, <4>1 DEF FlightThen
    <3> QED BY <3>4, <3>5
  <2> QED BY <2>1, <2>2
<1>7. ASSUME NEW d \in Chans, HasAt(gor[d][1].batch, k, t) PROVE FlightThen(k, t)
  BY <1>2, <1>3, <1>7 DEF FlightThen
<1> QED BY <1>4, <1>5, <1>6, <1>7 DEF FlightNow

\* A goroutine drops no entry that its key still has.
LEMMA RewritesEntryStep ==
  ASSUME CompactionInv, Next, NEW c \in Chans, NEW s \in Slots, EntryStep(c, s) PROVE RewritesOK'
<1> SUFFICES ASSUME RewritingThen, NEW k \in Keys, Live(lm'[k]), lm'[k].id = worker'[lock'].file,
                    ~MissedThen(k)
             PROVE  FlightThen(k, lm'[k].ts)
  BY RewritesThen
<1>1. PICK h \in GoroutineRec :
        /\ gor' = [gor EXCEPT ![c][s] = h] /\ h.kind = gor[c][s].kind
        /\ \/ Received(c, s, h) \/ Returned(c, s, h)
           \/ /\ gor[c][s].batch # <<>>
              /\ Sampled(c, s, h) \/ LookedUp(c, s, h) \/ HasRead(c, s, h)
  BY EntryStepEffect
<1>2. UNCHANGED <<lock, task, todo, filling, worker, data, lm, missed, cancel, launcher, running,
                  left>>
  BY EntryStepFrame DEF TaskFrame, store, reading
<1>3. Orderly /\ task \in {"compact", "rewritten"} /\ ~writeErr
  <2>1. writeErr' = writeErr
    BY <1>1, StepErrors
  <2> QED BY <1>2, <2>1, OrderlyParts DEF RewritingThen, Orderly
<1>4. ~readErr
  <2>1. readErr' = readErr \/ readErr'
    BY <1>1, StepErrors
  <2> QED BY <2>1 DEF RewritingThen
<1>5. Rewriting
  BY <1>3, <1>4 DEF Rewriting
<1>6. gor[c][s].pc # "gone"
  BY EntryStepAlive
<1>7. s = 1 /\ slot = 1
  BY <1>3, <1>6, OnlySlot
<1>8. PICK g, t : g = gor[c][1] /\ t = lm[k].ts
  OBVIOUS
<1>9. ChannelAt(task, g, pending[c], skip[c])
  BY <1>3, <1>8, ChannelsNow
<1>10. g.kind = "compact" /\ ~skip[c]
  BY <1>3, <1>6, <1>7, <1>8, <1>9 DEF ChannelAt, ReadingAt, EndingAt, EndedAt
<1>11. FlightNow(k, t) /\ Live(lm[k])
  BY <1>2, <1>5, <1>8, RewritesNow, MissedSame DEF File
<1>12. g \in GoroutineRec /\ g.batch \in Seq(EntryRec) /\ GoroutineNow(g) /\ t \in Nat
  <2>1. g \in GoroutineRec /\ GoroutineNow(g)
    BY <1>7, <1>8, EntriesNow
  <2> QED BY <1>8, <2>1, InvParts DEF GoroutineRec
<1>13. CASE Received(c, s, h)
  <2>1. /\ pending[c] # <<>> /\ pending' = [pending EXCEPT ![c] = Tail(@)] /\ g.pc = "wait"
        /\ \/ Head(pending[c]) = Nil
           \/ h.batch = Head(pending[c])
    BY <1>3, <1>7, <1>8, <1>10, <1>13 DEF Received
  <2>2. HasAt(Head(pending[c]), k, t) => HasAt(h.batch, k, t)
    BY <2>1 DEF HasAt
  <2>3. ~HasAt(g.batch, k, t)
    BY <1>12, <2>1 DEF GoroutineNow, Busy, HasAt
  <2>4. FlightThen(k, t)
    BY <1>1, <1>2, <1>7, <1>8, <1>11, <2>1, <2>2, <2>3, FlightWork
  <2> QED BY <1>2, <1>8, <2>4
<1>14. CASE Returned(c, s, h)
  <2>1. pending' = pending /\ g.batch = <<>>
    BY <1>7, <1>8, <1>14 DEF Returned
  <2>2. ~HasAt(g.batch, k, t)
    BY <2>1 DEF HasAt
  <2>3. FlightThen(k, t)
    BY <1>1, <1>2, <1>7, <1>8, <1>11, <2>1, <2>2, FlightWork
  <2> QED BY <1>2, <1>8, <2>3
<1>15. CASE g.batch # <<>> /\ (LookedUp(c, s, h) \/ HasRead(c, s, h))
  <2>1. PICK e : e = Head(g.batch)
    OBVIOUS
  <2>2. /\ pending' = pending
        /\ \/ h.batch = g.batch
           \/ h.batch = Tail(g.batch) /\ IsStale(lm[e.key].ts, e)
           \/ /\ h.batch = Tail(g.batch)
              /\ ~Live(lm[e.key]) \/ Removal(lm[e.key].ts) \/ lm[e.key].ts > e.ts
    BY <1>7, <1>8, <1>15, <2>1 DEF LookedUp, HasRead, RewritingThen
  <2>3. e.ts > 0 /\ ~Removal(e.ts) /\ e \in EntryRec
    BY <1>7, <1>8, <1>15, <2>1, InvParts, HeadEntry
  <2>4. e.ts \in Nat
    BY <2>3 DEF EntryRec
  <2>5. ASSUME e.key = k, e.ts = t PROVE h.batch = g.batch
    <3>1. lm[e.key].ts = e.ts /\ Live(lm[e.key])
      BY <1>8, <1>11, <2>5
    <3>2. ~IsStale(lm[e.key].ts, e) /\ ~(lm[e.key].ts > e.ts) /\ ~Removal(lm[e.key].ts)
      BY <2>3, <2>4, <3>1 DEF IsStale
    <3> QED BY <2>2, <3>1, <3>2
  <2>6. ASSUME HasAt(g.batch, k, t) PROVE HasAt(h.batch, k, t)
    <3>1. CASE h.batch = g.batch
      BY <2>6, <3>1
    <3>2. CASE h.batch # g.batch
      <4>1. h.batch = Tail(g.batch) /\ ~(e.key = k /\ e.ts = t)
        BY <2>2, <2>5, <3>2
      <4>2. HasAt(Tail(g.batch), k, t)
        BY <1>12, <1>15, <2>1, <2>6, <4>1, TailHas
      <4> QED BY <4>1, <4>2
    <3> QED BY <3>1, <3>2
  <2>7. FlightThen(k, t)
    BY <1>1, <1>2, <1>7, <1>8, <1>11, <2>2, <2>6, FlightWork
  <2> QED BY <1>2, <1>8, <2>7
<1>16. ~Sampled(c, s, h)
  BY <1>7, <1>8, <1>10 DEF Sampled
<1> QED BY <1>1, <1>7, <1>8, <1>13, <1>14, <1>15, <1>16

LEMMA RewritesRewrite ==
  ASSUME CompactionInv, Next, NEW c \in Chans, NEW s \in Slots, Rewrite(c, s) PROVE RewritesOK'
<1> SUFFICES ASSUME RewritingThen, NEW k \in Keys, Live(lm'[k]), lm'[k].id = worker'[lock'].file,
                    ~MissedThen(k)
             PROVE  FlightThen(k, lm'[k].ts)
  BY RewritesThen
<1>1. PICK g, e : g = gor[c][s] /\ e = Head(g.batch)
  OBVIOUS
<1>2. /\ g.pc = "write" /\ g.batch # <<>> /\ g \in GoroutineRec /\ e \in EntryRec
      /\ \/ UNCHANGED lm /\ writeErr' = (writeErr \/ s = slot)
         \/ /\ (UNCHANGED lm /\ lm[e.key].ts > e.ts) \/ Written(e.key, e.ts, g.val)
            /\ writeErr' = writeErr /\ gor' = [gor EXCEPT ![c][s] = Done(g)]
      /\ UNCHANGED <<data, cancel, launcher, running, readErr>>
      /\ EntryFrame
  BY <1>1, RewriteEffect, InvParts, Zenon
<1>3. UNCHANGED <<lock, task, todo, filling, pending, worker, left, missed>>
  BY <1>2 DEF EntryFrame, reading
<1>4. writeErr \in BOOLEAN
  BY DEF CompactionInv, TaskTypes
<1>5. Orderly /\ task \in {"compact", "rewritten"} /\ ~readErr /\ ~writeErr
  BY <1>2, <1>3, <1>4, OrderlyParts DEF RewritingThen, Orderly
<1>6. s = 1 /\ slot = 1
  BY <1>1, <1>2, <1>5, OnlySlot
<1>7. /\ (UNCHANGED lm /\ lm[e.key].ts > e.ts) \/ Written(e.key, e.ts, g.val)
      /\ gor' = [gor EXCEPT ![c][s] = Done(g)]
  BY <1>2, <1>4, <1>6 DEF RewritingThen
<1>8. e.key \in Keys /\ e.ts \in Nat /\ g.val \in Nat /\ g.batch \in Seq(EntryRec)
  BY <1>2 DEF EntryRec, GoroutineRec
<1>9. File \in FileIDs /\ worker'[lock'].file = File
  BY <1>3, <1>5, HolderFacts DEF File
<1>10. lm'[k] = lm[k] /\ ~(e.key = k /\ e.ts = lm[k].ts)
  <2>1. CASE UNCHANGED lm /\ lm[e.key].ts > e.ts
    BY <1>8, <2>1
  <2>2. CASE Written(e.key, e.ts, g.val)
    <3>1. /\ \A j \in Keys \ {e.key} : lm'[j] = lm[j]
          /\ lm'[e.key] = [ts |-> e.ts, id |-> MEM, off |-> Len(mem) + 1]
      BY <1>8, <2>2, WrittenMem
    <3>2. lm'[e.key].id = MEM
      BY <3>1
    <3>3. k # e.key
      BY <1>9, <3>2 DEF MEM, FileIDs
    <3> QED BY <3>1, <3>3
  <2> QED BY <1>7, <2>1, <2>2
<1>11. PICK t : t = lm[k].ts
  OBVIOUS
<1>12. FlightNow(k, t)
  BY <1>3, <1>5, <1>9, <1>10, <1>11, RewritesNow, MissedSame DEF Rewriting
<1>13. PICK h \in GoroutineRec : gor' = [gor EXCEPT ![c][1] = h] /\ h.batch = Tail(g.batch)
  <2>1. Tail(g.batch) \in Seq(EntryRec)
    BY <1>2, <1>8
  <2>2. Done(g) \in GoroutineRec /\ Done(g).batch = Tail(g.batch)
    BY <1>2, <2>1 DEF Done, GoroutineRec
  <2> QED BY <1>6, <1>7, <2>2
<1>14. HasAt(gor[c][1].batch, k, t) => HasAt(h.batch, k, t)
  BY <1>1, <1>2, <1>6, <1>8, <1>10, <1>11, <1>13, TailHas
<1>15. FlightThen(k, t)
  BY <1>2, <1>3, <1>12, <1>13, <1>14, FlightWork
<1> QED BY <1>10, <1>11, <1>15

LEMMA RewritesStep ==
  ASSUME CompactionInv, Next PROVE RewritesOK'
<1>1. CASE task' \notin {"compact", "rewritten"}
  BY <1>1, RewritesThen DEF RewritingThen
<1>2. Crash \/ Startup => task' = "none"
  BY DEF Crash, Startup
<1>3. ASSUME NEW w \in Writes, ClientWrite(w), Orderly' => Orderly PROVE RewritesOK'
  <2>1. /\ UNCHANGED <<task, todo, filling, pending, gor, lock, readErr, writeErr, missed, worker, data>>
        /\ WriteStep(w.key, w.ts, w.ts) \/ UNCHANGED <<mem, lm, older>>
    BY <1>3, ClientWriteStep DEF batchVars, counts, pass
  <2>2. \A k \in Keys : lm'[k] = lm[k] \/ lm'[k].id \in {0, MEM}
    BY <2>1, WriteLocations
  <2> QED BY <1>3, <2>1, <2>2, RewritesStable
<1>4. ASSUME PageOut \/ Flush, Orderly' => Orderly PROVE RewritesOK'
  <2>1. /\ UNCHANGED <<task, todo, filling, pending, gor, lock, readErr, writeErr, missed, worker>>
        /\ (\E f \in FileIDs : Paged(f)) \/ UNCHANGED <<data, lm>>
    BY <1>4, InvParts, PageEffect DEF batchVars, counts, pass
  <2>2. CASE UNCHANGED <<data, lm>>
    BY <1>4, <2>1, <2>2, RewritesStable
  <2>3. ASSUME NEW f \in FileIDs, Paged(f) PROVE RewritesOK'
    <3>1. data[f] = <<>> /\ \A g \in FileIDs \ {f} : data'[g] = data[g]
      BY <2>3, PagedFacts
    <3>2. ASSUME NEW k \in Keys
          PROVE  \/ lm'[k] = lm[k] \/ lm'[k].id \in {0, MEM}
                 \/ (lm'[k].id \in FileIDs /\ data[lm'[k].id] = <<>>)
      <4>1. \/ lm'[k] = lm[k] \/ lm'[k] = Missing
            \/ lm'[k] = [ts |-> lm[k].ts, id |-> f, off |-> lm[k].off]
        BY <2>3, PagedFacts
      <4>2. lm'[k] = lm[k] \/ lm'[k].id = 0 \/ lm'[k].id = f
        BY <4>1 DEF Missing
      <4> QED BY <3>1, <4>2
    <3> QED BY <1>4, <2>1, <3>1, <3>2, RewritesStable
  <2> QED BY <2>1, <2>2, <2>3
<1>5. ASSUME PassStep, Orderly' => Orderly PROVE RewritesOK'
  <2>1. UNCHANGED <<task, todo, filling, pending, gor, lock, readErr, writeErr, missed, data, lm>>
    BY <1>5, PassStepFrame DEF batchVars, counts, store
  <2> QED BY <1>5, <2>1, PassHolder, RewritesStable
<1>6. ASSUME ReaderStep PROVE RewritesOK'
  BY <1>6, RewritesBegin, RewritesReadBlock, RewritesReadEntry, RewritesReadEnd DEF ReaderStep
<1>7. EndStep \/ RemoveTOC \/ RemoveValues => task' \in {"none", "removing"}
  BY EndStepEffect DEF Unlocked, RemoveTOC, RemoveValues, Unlock
<1>8. ASSUME ShutdownStep, Orderly' => Orderly PROVE RewritesOK'
  <2>1. UNCHANGED <<task, todo, filling, pending, gor, lock, readErr, writeErr, missed, data, lm, worker>>
    BY <1>8, ShutdownStepFrame DEF batchVars, counts, store
  <2> QED BY <1>8, <2>1, RewritesStable
<1>9. RecoverFile \/ (\E c \in Chans : RecoverEntry(c)) \/ RecoveryEnd \/ CompactionStartup => task' = "none"
  BY NoTask DEF RecoverFile, RecoverEntry, RecoveryEnd, CompactionStartup, RecoveryFrame,
     batchVars, Alive
<1>10. Crash \/ Startup \/ (Orderly' => Orderly)
  BY WasOrderly
<1> QED
  BY <1>1, <1>2, <1>3, <1>4, <1>5, <1>6, <1>7, <1>8, <1>9, <1>10, RewritesEntryStep,
     RewritesRewrite, Steps

(***************************************************************************)
(* Entries that were missed                                                *)
(***************************************************************************)
IsListed(e) == \E i \in toc[e.id] : e = Entry(e.id, i)
ListedThen(e) == \E i \in toc'[e.id] : e = [key |-> data'[e.id][i].key, ts |-> data'[e.id][i].ts,
                                            id |-> e.id]
FilesStay == \A f \in FileIDs : data[f] # <<>> => data'[f] = data[f] /\ toc'[f] = toc[f]

LEMMA ListedStays ==
  ASSUME CompactionInv, FilesStay, NEW e \in EntryRec, IsListed(e) PROVE ListedThen(e)
<1>1. PICK i \in toc[e.id] : e = Entry(e.id, i)
  BY DEF IsListed
<1>2. PICK f : f = e.id
  OBVIOUS
<1>3. f \in FileIDs
  BY <1>2 DEF EntryRec
<1>4. i \in DOMAIN data[f] /\ data[f] \in Seq(ValueRec)
  BY <1>1, <1>2, <1>3 DEF CompactionInv, FilesOK, StoreTypes
<1>5. data[f] # <<>>
  BY <1>4
<1>6. data'[f] = data[f] /\ toc'[f] = toc[f]
  BY <1>3, <1>5 DEF FilesStay
<1> QED BY <1>1, <1>2, <1>6 DEF ListedThen, Entry

LEMMA LostHolds ==
  ASSUME CompactionInv, FilesStay, lost' \cup missed' \subseteq lost \cup missed,
         missed' # {} => tocErr', running' \in {"recovering", "recovered"} => lost' = {}
  PROVE  LostOK'
<1>1. lost \cup missed \subseteq EntryRec /\ \A e \in lost \cup missed : IsListed(e)
  BY DEF CompactionInv, StoreTypes, TaskTypes, LostOK, IsListed
<1>2. \A e \in lost' \cup missed' : ListedThen(e)
  BY <1>1, ListedStays
<1> QED BY <1>2 DEF LostOK, ListedThen, Entry

LEMMA LostStep ==
  ASSUME CompactionInv, Next PROVE LostOK'
<1>0. /\ missed # {} => tocErr
      /\ running \in {"recovering", "recovered"} => lost = {}
  BY DEF CompactionInv, LostOK
<1>1. ASSUME UNCHANGED <<data, toc, lost, missed, tocErr>>,
             running' \in {"recovering", "recovered"} => running \in {"recovering", "recovered"}
      PROVE  LostOK'
  BY <1>0, <1>1, LostHolds DEF FilesStay
<1>2. ASSUME NEW w \in Writes, ClientWrite(w) PROVE LostOK'
  BY <1>1, <1>2 DEF ClientWrite, life, counts
<1>3. ASSUME PageOut \/ Flush PROVE LostOK'
  <2>1. /\ UNCHANGED <<lost, missed, tocErr, running>>
        /\ (\E f \in FileIDs : Paged(f)) \/ UNCHANGED <<data, toc>>
    BY <1>3, InvParts, PageEffect DEF life, counts
  <2>2. FilesStay
    <3>1. ASSUME NEW f \in FileIDs, Paged(f) PROVE FilesStay
      BY <3>1, PagedFacts DEF FilesStay
    <3> QED BY <2>1, <3>1 DEF FilesStay
  <2> QED BY <1>0, <2>1, <2>2, LostHolds
<1>4. ASSUME PassStep PROVE LostOK'
  BY <1>1, <1>4, PassStepFrame DEF store, life, counts
<1>5. ASSUME ReaderStep PROVE LostOK'
  <2>1. UNCHANGED <<data, toc, lost, running>> /\ Alive
    BY <1>5, ReaderStepFrame DEF TaskFrame, store
  <2>2. ASSUME NEW w \in Chans, TaskBegin(w) PROVE LostOK'
    <3>1. missed' = {}
      BY <2>2 DEF TaskBegin, ResetCounts
    <3> QED BY <1>0, <2>1, <3>1, LostHolds DEF FilesStay
  <2>3. ASSUME ReadBlock PROVE LostOK'
    <3>1. BlockRead \/ \E S \in SUBSET todo : BlockMissed(S)
      BY <2>3, ReadBlockEffect
    <3>2. CASE BlockRead
      BY <1>1, <2>1, <3>2 DEF BlockRead
    <3>3. ASSUME NEW S \in SUBSET todo, BlockMissed(S) PROVE LostOK'
      <4>1. /\ task \in {"sample", "compact"} /\ task # "none"
        BY <2>3 DEF ReadBlock
      <4>2. /\ \A e \in missed' : e \in missed \/ \E i \in S : e = Entry(File, i)
            /\ missed' \subseteq EntryRec
        BY <3>3, <4>1, MissedEffect
      <4>3. \A i \in S : i \in toc[File]
        BY <4>1 DEF CompactionInv, EntriesOK
      <4>4. \A e \in lost' \cup missed' : IsListed(e)
        <5> SUFFICES ASSUME NEW e \in lost' \cup missed' PROVE IsListed(e) OBVIOUS
        <5>1. CASE e \in lost \cup missed
          BY <5>1 DEF CompactionInv, LostOK, IsListed
        <5>2. CASE \E i \in S : e = Entry(File, i)
          <6>1. PICK i \in S : e = Entry(File, i)
            BY <5>2
          <6>2. e.id = File
            BY <6>1 DEF Entry
          <6> QED BY <4>3, <6>1, <6>2 DEF IsListed
        <5> QED BY <2>1, <4>2, <5>1, <5>2
      <4>5. tocErr'
        BY <3>3 DEF BlockMissed
      <4>6. lost' = {} \/ running' \notin {"recovering", "recovered"}
        BY <2>1 DEF Alive
      <4> QED BY <2>1, <4>4, <4>5, <4>6 DEF LostOK, IsListed, Entry
    <3> QED BY <3>1, <3>2, <3>3
  <2>4. ASSUME ReadEntry \/ ReadEnd PROVE LostOK'
    BY <1>1, <2>1, <2>4 DEF ReadEntry, ReadEnd, counts
  <2> QED BY <1>5, <2>2, <2>3, <2>4 DEF ReaderStep
<1>6. ASSUME EndStep PROVE LostOK'
  BY <1>1, <1>6 DEF EndStep, SampleEnd, CompactEnd, TaskFrame, store, counts
<1>7. ASSUME RemoveTOC PROVE LostOK'
  <2>2. UNCHANGED <<data, toc, missed, tocErr, running>> /\ task = "rewritten"
    BY <1>7 DEF RemoveTOC, counts
  <2>3. running \notin {"recovering", "recovered"}
    BY <2>2, NoTask DEF Alive
  <2> QED BY <1>0, <1>7, <2>2, <2>3, RemoveLoses, LostHolds DEF FilesStay
<1>8. ASSUME RemoveValues PROVE LostOK'
  BY <1>1, <1>8 DEF RemoveValues, life, counts
<1>9. ASSUME NEW c \in Chans, NEW s \in Slots, EntryStep(c, s) PROVE LostOK'
  BY <1>1, <1>9, EntryStepFrame DEF TaskFrame, store, reading
<1>10. ASSUME NEW c \in Chans, NEW s \in Slots, Rewrite(c, s) PROVE LostOK'
  BY <1>1, <1>10 DEF Rewrite, EntryFrame, reading
<1>11. ASSUME ShutdownStep PROVE LostOK'
  <2>1. running' \notin {"recovering", "recovered"}
    BY <1>11 DEF ShutdownStep, Shutdown, ShutdownReturns, RewriteAfterShutdown
  <2> QED BY <1>1, <1>11, <2>1, ShutdownStepFrame DEF store, counts
<1>12. ASSUME Crash PROVE LostOK'
  <2>1. lost' = {} /\ missed' = {}
    BY <1>12 DEF Crash, ResetCounts
  <2> QED BY <2>1 DEF LostOK
<1>13. ASSUME Startup PROVE LostOK'
  <2>1. lost' = {} /\ UNCHANGED <<data, toc, missed, tocErr>>
    BY <1>13 DEF Startup, counts
  <2> QED BY <1>0, <2>1, LostHolds DEF FilesStay
<1>14. ASSUME RecoverFile \/ (\E c \in Chans : RecoverEntry(c)) \/ RecoveryEnd \/ CompactionStartup
       PROVE  LostOK'
  <2>1. UNCHANGED <<data, toc, lost, missed, tocErr>> /\ running \in {"recovering", "recovered"}
    BY <1>14 DEF RecoverFile, RecoverEntry, RecoveryEnd, CompactionStartup, RecoveryFrame, counts
  <2> QED BY <1>1, <2>1
<1> QED
  BY <1>2, <1>3, <1>4, <1>5, <1>6, <1>7, <1>8, <1>9, <1>10, <1>11, <1>12, <1>13, <1>14, Steps

(***************************************************************************)
(* The invariant                                                           *)
(***************************************************************************)
LEMMA InitTypes ==
  ASSUME Init PROVE StoreTypes /\ TaskTypes
<1>1. /\ MaxFaults \in Nat /\ MaxFiles \in Nat /\ Batches \in Nat /\ Workers \in Nat
      /\ 0 \in 0..(MaxFiles + 1) /\ 0 \in 0..MaxFaults /\ 0 \in 0..Workers
  BY CompactionAssumption
<1>2. lm \in Location(Keys, 0..(MaxFiles + 1))
  BY <1>1 DEF Init, Location, Missing
<1>3. StoreTypes
  BY <1>1, <1>2 DEF Init, StoreTypes
<1>4. Idle \in [Chans -> [Slots -> GoroutineRec]]
  BY DEF Idle, GoroutineRec
<1>5. worker \in [Chans -> WorkerRec]
  BY DEF Init, WorkerRec
<1>6. filling \in [Chans -> Batch] /\ pending \in [Chans -> Seq(Batch)]
  BY DEF Init, Batch
<1>7. free \in [Chans -> Nat] /\ skip \in [Chans -> BOOLEAN]
  BY <1>1 DEF Init
<1>8. /\ names \subseteq FileIDs /\ jobs \in Seq(FileIDs) /\ todo \subseteq Nat
      /\ block \subseteq todo /\ missed \subseteq EntryRec
      /\ lock \in 0..Workers /\ slot \in Nat \ {0} /\ gor \in [Chans -> [Slots -> GoroutineRec]]
  BY <1>1, <1>4 DEF Init
<1>9. /\ launcher \in {"gone", "wait", "queue", "workers", "stop"}
      /\ task \in {"none", "sample", "sampled", "compact", "rewritten", "removing"}
      /\ notify \in BOOLEAN /\ cancel \in BOOLEAN /\ left \in BOOLEAN
      /\ readErr \in BOOLEAN /\ writeErr \in BOOLEAN
  BY DEF Init
<1>10. TaskTypes
  BY <1>5, <1>6, <1>7, <1>8, <1>9 DEF TaskTypes
<1> QED BY <1>3, <1>10

LEMMA InitBatches ==
  ASSUME Init PROVE PoolOK /\ EntriesOK /\ ChannelsOK /\ RewritesOK
<1>0. \A c \in Chans, s \in Slots : gor[c][s] = [pc |-> "gone", kind |-> "compact",
                                                 batch |-> <<>>, val |-> 0]
  BY DEF Init, Idle
<1>1. PoolOK
  <2> SUFFICES ASSUME NEW c \in Chans PROVE PoolAt(Batches, Nil, <<>>, Idle[c])
    BY PoolParts DEF Init
  <2>1. WaitingIn(<<>>) = {} /\ BusyIn(Idle[c]) = {}
    BY DEF WaitingIn, BusyIn, Idle, Busy
  <2>2. Batches \in Nat
    BY CompactionAssumption
  <2>3. Cardinality(WaitingIn(<<>>)) = 0 /\ Cardinality(BusyIn(Idle[c])) = 0 /\ Filled(Nil) = 0
    BY <2>1, FS_EmptySet DEF Filled
  <2> QED BY <2>2, <2>3 DEF PoolAt
<1>2. EntriesOK
  <2>1. EntriesOf(<<>>) /\ EntriesOf(Nil)
    BY DEF EntriesOf
  <2>2. \A c \in Chans, s \in Slots : gor[c][s].batch = <<>> /\ gor[c][s].pc = "gone"
    BY <1>0
  <2>3. task = "none" /\ todo = {} /\ \A c \in Chans : filling[c] = Nil /\ pending[c] = <<>>
    BY DEF Init
  <2> QED BY <2>1, <2>2, <2>3 DEF EntriesOK
<1>3. ChannelsOK
  <2>1. 1 \in Slots
    BY CompactionAssumption DEF Slots
  <2>2. task = "none" /\ slot = 1 /\ \A c \in Chans : pending[c] = <<>> /\ gor[c][1].pc = "gone"
    BY <1>0, <2>1 DEF Init
  <2> QED BY <2>2 DEF ChannelsOK, ChannelOK, Ended
<1>4. RewritesOK
  BY DEF Init, RewritesOK
<1> QED BY <1>1, <1>2, <1>3, <1>4

LEMMA InitInv ==
  ASSUME Init PROVE CompactionInv
<1>1. StoreTypes /\ TaskTypes
  BY InitTypes
<1>2. PoolOK /\ EntriesOK /\ ChannelsOK /\ RewritesOK
  BY InitBatches
<1>3. /\ mem = <<>> /\ tocs = {} /\ \A f \in FileIDs : data[f] = <<>> /\ toc[f] = {}
      /\ \A k \in Keys : lm[k] = Missing /\ lm[k].id = 0 /\ lm[k].ts = 0 /\ flushed[k] = 0
      /\ running = "recovered" /\ launcher = "gone" /\ lock = 0 /\ task = "none"
      /\ \A w \in Chans : worker[w].pc = "gone"
      /\ jobs = <<>> /\ slot = 1 /\ open = {} /\ replay = {} /\ \A c \in Chans : queue[c] = {}
  BY DEF Init, Missing
<1>4. FilesOK /\ LocationsOK
  BY <1>3 DEF FilesOK, Stamped, LocationsOK, LocationOK
<1>5. WorkersOK /\ JobsOK
  BY <1>3 DEF WorkersOK, JobsOK, Active, WorkersGone
<1>6. \A c \in Chans, s \in Slots : gor[c][s].pc = "gone"
  BY DEF Init, Idle
<1>7. SlotsOK
  <2>1. 1 \in Slots /\ faults = 0
    BY CompactionAssumption DEF Init, Slots
  <2> QED BY <1>3, <1>6, <2>1 DEF SlotsOK, Finished
<1>8. LocationsKept
  BY <1>3 DEF LocationsKept, Live
<1>9. TimestampsOK
  BY <1>3, <1>6 DEF TimestampsOK, OwnTimestamps
<1>10. FlushedOK
  <2>1. \A k \in Keys : ~Removal(lm[k].ts)
    BY <1>3, NoRemoval
  <2> QED BY <1>3, <2>1 DEF FlushedOK, Excused, Alive
<1>11. RecoveryOK
  BY <1>3 DEF RecoveryOK
<1>12. LostOK
  BY DEF Init, LostOK
<1> QED BY <1>1, <1>2, <1>4, <1>5, <1>7, <1>8, <1>9, <1>10, <1>11, <1>12 DEF CompactionInv

LEMMA StutterInv ==
  ASSUME CompactionInv, UNCHANGED vars PROVE CompactionInv'
<1> USE DEF vars, store, life, pass, batchVars, counts
<1>1. StoreTypes' /\ TaskTypes'
  BY DEF CompactionInv, StoreTypes, TaskTypes
<1>2. FilesOK' /\ LocationsOK'
  BY DEF CompactionInv, FilesOK, Stamped, Alive, LocationsOK, LocationOK
<1>3. WorkersOK' /\ JobsOK'
  BY DEF CompactionInv, WorkersOK, WorkersGone, JobsOK, Active
<1>4. SlotsOK' /\ PoolOK'
  BY PoolStable DEF CompactionInv, SlotsOK, Finished
<1>5. EntriesOK'
  BY EntriesStable DEF EntriesHold
<1>6. ChannelsOK'
  BY <1>1, ChannelParts, OrderlyParts DEF CompactionInv, ChannelsOK, Orderly
<1>7. RewritesOK'
  BY DEF CompactionInv, RewritesOK, Orderly, InFlight, Has, Matches, Entry, File, Lost
<1>8. LocationsKept' /\ FlushedOK'
  BY DEF CompactionInv, LocationsKept, Kept, File, FlushedOK, Excused, Durable, Alive, Lost
<1>9. TimestampsOK'
  BY DEF CompactionInv, TimestampsOK, OwnTimestamps, Behind
<1>10. RecoveryOK'
  BY DEF CompactionInv, RecoveryOK
<1>11. LostOK'
  BY DEF CompactionInv, LostOK, Entry
<1> QED BY <1>1, <1>2, <1>3, <1>4, <1>5, <1>6, <1>7, <1>8, <1>9, <1>10, <1>11 DEF CompactionInv

LEMMA NextInv ==
  ASSUME CompactionInv, Next PROVE CompactionInv'
BY StoreTypesStep, TaskTypesStep, FilesStep, WorkersStep, SlotsStep, PoolStep, EntriesStep,
   RecoveryStep, KeptStep, TimestampsStep, FlushedStep, ChannelsStep, RewritesStep, LostStep
   DEF CompactionInv

LEMMA Invariance == Spec => []CompactionInv
<1>1. Init => CompactionInv
  BY InitInv
<1>2. CompactionInv /\ [Next]_vars => CompactionInv'
  BY NextInv, StutterInv
<1> QED BY <1>1, <1>2, PTL DEF Spec

(***************************************************************************)
(* The theorems                                                            *)
(***************************************************************************)
\* Every variable has its type; in particular, the three batches that
\* compactFile and needsCompaction make for a channel are never more, and the
\* calls whose goroutines are left behind never need another slot.
THEOREM CompactionTypes == Spec => []TypeOK
<1>1. CompactionInv => TypeOK
  <2> SUFFICES ASSUME CompactionInv PROVE TypeOK OBVIOUS
  <2>1. \A c \in Chans : free[c] \in 0..Batches
    <3> SUFFICES ASSUME NEW c \in Chans PROVE free[c] \in 0..Batches OBVIOUS
    <3> QED BY PoolTypes DEF PoolAt
  <2> QED BY <2>1, SlotFacts DEF CompactionInv, StoreTypes, TaskTypes, TypeOK
<1> QED BY <1>1, Invariance, PTL

\* compactFile removes a file only when no key that can be read leads to it but
\* by an entry that the reader of its TOC missed while it read others, whatever
\* is written, flushed and compacted beside it, with any number of workers and
\* any errors of reading the TOC, reading values and writing them; and what any
\* other location leads to is a value of its key that was written with the
\* timestamp of the location.
THEOREM CompactionKeepsTheValues == Spec => []CompactionKeepsValues
<1>1. CompactionInv => CompactionKeepsValues
  <2> SUFFICES ASSUME CompactionInv PROVE CompactionKeepsValues OBVIOUS
  <2>1. LocationsLead
    <3> SUFFICES ASSUME ~left, NEW k \in Keys, lm[k].id # 0, ~HasBit(lm[k].ts, TSB_DELETION),
                        ~Lost(lost, lm, k)
                 PROVE  /\ lm[k].id \in {MEM} \cup values
                        /\ Value(lm[k]).key = k /\ Value(lm[k]).ts = lm[k].ts
      BY DEF LocationsLead, NoneLeftBehind
    <3>1. lm[k].id \in {MEM} \cup Kept
      BY DEF CompactionInv, LocationsKept, Live
    <3> QED BY <3>1, LocationValue, KeptFacts
  <2>2. RewritesKeepTimestamps
    <3> SUFFICES ASSUME ~left, NEW k \in Keys \ older, lm[k].id \in {MEM} \cup values
                 PROVE  Value(lm[k]).val = lm[k].ts
      BY DEF RewritesKeepTimestamps, NoneLeftBehind
    <3>1. lm[k].id # 0
      <4>1. values \subseteq FileIDs
        BY DEF CompactionInv, StoreTypes
      <4> QED BY <4>1 DEF FileIDs, MEM
    <3>2. /\ Value(lm[k]).key = k /\ Value(lm[k]).ts = lm[k].ts
          /\ lm[k].id \in {MEM} \cup FileIDs
          /\ lm[k].id = MEM => lm[k].off \in DOMAIN mem
          /\ lm[k].id # MEM => lm[k].off \in DOMAIN data[lm[k].id]
      BY <3>1, LocationValue
    <3>3. OwnBut(mem, older) /\ \A f \in FileIDs : OwnBut(data[f], older)
      BY TimestampsParts DEF CompactionInv
    <3>4. CASE lm[k].id = MEM
      BY <3>2, <3>3, <3>4 DEF Value, OwnBut
    <3>5. CASE lm[k].id # MEM
      BY <3>2, <3>3, <3>5 DEF Value, OwnBut
    <3> QED BY <3>4, <3>5
  <2> QED BY <2>1, <2>2 DEF CompactionKeepsValues
<1> QED BY <1>1, Invariance, PTL

\* However its workers take turns, recovery gives every key the location of
\* the newest entry that the TOCs have of it, and finds no other key.
THEOREM RecoveryIsComplete == Spec => []RecoveryFindsNewest
<1>1. CompactionInv => RecoveryFindsNewest
  <2> SUFFICES ASSUME CompactionInv, running = "recovered", NEW k \in Keys
               PROVE  LET found == {e \in (tocs \cap values) \X UNION {toc[f] : f \in FileIDs} :
                                      e[2] \in toc[e[1]] /\ data[e[1]][e[2]].key = k}
                      IN  IF found = {} THEN lm[k] = Missing
                          ELSE /\ <<lm[k].id, lm[k].off>> \in found
                               /\ \A e \in found : data[e[1]][e[2]].ts <= lm[k].ts
    BY DEF RecoveryFindsNewest
  <2> DEFINE found == {e \in (tocs \cap values) \X UNION {toc[f] : f \in FileIDs} :
                         e[2] \in toc[e[1]] /\ data[e[1]][e[2]].key = k}
  <2>0. tocs \subseteq FileIDs /\ values \subseteq FileIDs
    BY DEF CompactionInv, StoreTypes
  <2>1. /\ lm[k].id \in {0} \cup (tocs \cap values)
        /\ \A f \in tocs \cap values : \A i \in toc[f] : data[f][i].ts <= lm[data[f][i].key].ts
    <3>1. replay = {} /\ \A c \in Chans : queue[c] = {}
      BY DEF CompactionInv, RecoveryOK
    <3>2. \A f \in tocs \cap values : \A i \in toc[f] : Chan(data[f][i].key) \in Chans
      <4> SUFFICES ASSUME NEW f \in tocs \cap values, NEW i \in toc[f]
                   PROVE  Chan(data[f][i].key) \in Chans
        OBVIOUS
      <4>1. f \in FileIDs /\ i \in DOMAIN data[f] /\ data[f] \in Seq(ValueRec)
        BY <2>0 DEF CompactionInv, FilesOK, StoreTypes
      <4>2. data[f][i] \in ValueRec
        BY <4>1
      <4> QED BY <4>2, ChanInChans DEF ValueRec
    <3> QED BY <3>1, <3>2 DEF CompactionInv, RecoveryOK
  <2>2. \A e \in found : data[e[1]][e[2]].ts <= lm[k].ts
    BY <2>1
  <2>3. CASE lm[k].id = 0
    <3>1. lm[k] = Missing
      <4>1. LocationOK(k)
        BY DEF CompactionInv, LocationsOK
      <4> QED BY <4>1, <2>3 DEF LocationOK, MEM, FileIDs
    <3>2. found = {}
      <4> SUFFICES ASSUME NEW e \in found PROVE FALSE OBVIOUS
      <4>1. e[1] \in FileIDs /\ e[2] \in toc[e[1]]
        BY <2>0
      <4>2. e[2] \in DOMAIN data[e[1]] /\ Stamped(data[e[1]]) /\ data[e[1]] \in Seq(ValueRec)
        BY <4>1 DEF CompactionInv, FilesOK, StoreTypes
      <4>3. data[e[1]][e[2]].ts > 0 /\ data[e[1]][e[2]] \in ValueRec
        BY <4>2 DEF Stamped
      <4>4. data[e[1]][e[2]].ts <= 0 /\ data[e[1]][e[2]].ts \in Nat
        BY <2>2, <3>1, <4>3 DEF Missing, ValueRec
      <4> QED BY <4>3, <4>4
    <3> QED BY <3>1, <3>2
  <2>4. CASE lm[k].id # 0
    <3>1. lm[k].id \in tocs \cap values /\ lm[k].id \in FileIDs
      BY <2>0, <2>1, <2>4
    <3>0. lm[k].id # MEM
      BY <3>1, CompactionAssumption DEF FileIDs, MEM
    <3>2. lm[k].off \in toc[lm[k].id] /\ data[lm[k].id][lm[k].off].key = k
      BY <2>4, <3>0, <3>1, LocationValue DEF Value
    <3>3. <<lm[k].id, lm[k].off>> \in found
      BY <3>1, <3>2
    <3> QED BY <2>2, <3>3
  <2> QED BY <2>3, <2>4
<1> QED BY <1>1, Invariance, PTL

\* Once a value is flushed its key has it, or a newer one, after every crash and
\* restart and every compaction, unless the only copy was at risk: the file was
\* removed while the value to follow it was in memory, or after its TOC had been
\* read in part, without the entry of that key.
THEOREM FlushedStays == Spec => []FlushedValuesStay
<1>1. CompactionInv => FlushedValuesStay
  <2> SUFFICES ASSUME CompactionInv, running \in {"recovered", "up"}, ~left, NEW k \in Keys,
                      ~HasBit(flushed[k], TSB_DELETION), k \notin atRisk
               PROVE  lm[k].ts >= flushed[k]
    BY DEF FlushedValuesStay, NoneLeftBehind
  <2>0. lm[k].ts \in Nat /\ flushed[k] \in Nat
    <3>1. lm[k].ts \in Nat
      BY InvParts
    <3> QED BY <3>1 DEF CompactionInv, StoreTypes
  <2>1. CASE flushed[k] = 0
    BY <2>0, <2>1
  <2>2. CASE flushed[k] # 0 /\ running = "up"
    <3>1. ~Excused(k) /\ Alive
      BY <2>2 DEF Excused, Alive
    <3> QED BY <3>1 DEF CompactionInv, FlushedOK
  <2>3. CASE flushed[k] # 0 /\ running = "recovered"
    <3>1. ~Excused(k)
      BY <2>3 DEF Excused
    <3>2. Durable(k)
      BY <3>1 DEF CompactionInv, FlushedOK
    <3>3. PICK f \in Kept \ open : \E i \in toc[f] : data[f][i].key = k /\ data[f][i].ts >= flushed[k]
      BY <3>2 DEF Durable
    <3>4. PICK i \in toc[f] : data[f][i].key = k /\ data[f][i].ts >= flushed[k]
      BY <3>3
    <3>5. f \in tocs \cap values
      BY KeptFacts
    <3>6. replay = {} /\ queue[Chan(k)] = {}
      BY <2>3, ChanInChans DEF CompactionInv, RecoveryOK
    <3>7. data[f][i].ts <= lm[k].ts
      BY <2>3, <3>4, <3>5, <3>6 DEF CompactionInv, RecoveryOK
    <3>8. data[f][i].ts \in Nat
      <4>1. f \in FileIDs /\ data[f] \in Seq(ValueRec) /\ i \in DOMAIN data[f]
        BY <3>5 DEF CompactionInv, StoreTypes, FilesOK
      <4>2. data[f][i] \in ValueRec
        BY <4>1
      <4> QED BY <4>2 DEF ValueRec
    <3> QED BY <2>0, <3>4, <3>7, <3>8
  <2> QED BY <2>1, <2>2, <2>3
<1> QED BY <1>1, Invariance, PTL
=============================================================================
