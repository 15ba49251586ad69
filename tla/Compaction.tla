----------------------------- MODULE Compaction -----------------------------
(***************************************************************************)
(* Compaction of value files, and recovery of the store after a crash.     *)
(*                                                                         *)
(* The write path (module WritePath) is reduced to what compaction and     *)
(* recovery see of it: values wait in memory, pages are written to a file  *)
(* and its TOC, and a flush also closes the open TOCs.  A value is         *)
(* [key, ts, val], val being the timestamp it was first written with.  A   *)
(* location has the id of a file, or MEM, and a place in it; id 0 is a key *)
(* that is not there.                                                      *)
(*                                                                         *)
(* Compaction is a launcher, a pass that queues files as jobs, workers     *)
(* that take them, and, under the compactionLock, a reader of the TOC that *)
(* hands batches of entries to one goroutine per channel.  A call that     *)
(* cannot open the TOC leaves its goroutines behind on the channels; the   *)
(* goroutines of the call under way are those of the last slot.  The TOC   *)
(* is read block by block; an error loses the entries of a block or of all *)
(* that is left, and a file whose TOC was read in part is removed.         *)
(***************************************************************************)
EXTENDS LocMap, Sequences, FiniteSets

CONSTANTS Keys,        \* keys, numbers
          Workers,     \* CompactionWorkers, and the workers of recovery
          BatchSize,   \* RecoveryBatchSize
          Batches,     \* batches of a channel, 3 in the code
          SmallTotal,  \* files with fewer entries are always compacted, 1000 in the code
          MaxCheck,    \* entries looked at before deciding, 1000000 in the code
          Threshold,   \* CompactionThreshold, in tenths
          Writes,      \* set of [key, ts] that clients and replication write
          MaxWrites, MaxFiles, MaxPasses, MaxStarts,
          MaxFaults    \* bound of errors of open, read and write

ASSUME CompactionAssumption ==
  /\ {Workers, BatchSize, Batches, SmallTotal, MaxCheck} \subseteq Nat \ {0}
  /\ {MaxFiles, MaxPasses, MaxStarts, MaxFaults} \subseteq Nat
  /\ Keys \subseteq Nat
  /\ \A w \in Writes : /\ w.key \in Keys /\ w.ts \in Nat \ {0}
                       /\ ~HasBit(w.ts, TSB_COMPACTION_REWRITE)

Chans   == 1..Workers
Chan(k) == (k % Workers) + 1     \* keyB % workers
Slots   == 1..(MaxFaults + 2)
MEM     == 1
FileIDs == 2..(MaxFiles + 1)
Nil     == <<[key |-> 0, ts |-> 0, id |-> 0]>>   \* no batch

VARIABLES mem,      \* values in memory, a sequence
          data,     \* file -> its values, in order
          toc,      \* file -> places of its values that the TOC has; it is read in their order
          values,   \* value files on disk
          tocs,     \* TOC files on disk
          open,     \* TOCs without their terminator
          broken,   \* TOCs of which not even the header got to the disk
          lm,       \* the location map
          flushed,  \* key -> timestampbits that the last flush has put on disk
          atRisk,   \* keys that lost their flushed copy before there was another
          older,    \* keys that got a value older than an entry of a TOC
          lost,     \* entries missed by compactFile of files that it read in part and removed
          writes

VARIABLES running,  \* "down", "recovering", "recovered", "up", "stopping", "panicked"
          replay,   \* TOC files that recovery still has to read
          queue,    \* channel -> places of the entries that recovery has read
          starts, faults

VARIABLES launcher, \* "gone", "wait", "queue", "workers", "stop"
          notify,   \* is there a notification to stop?
          names,    \* TOC files the pass still has to look at
          jobs, jobsClosed, \* jobChan
          cancel,   \* is the controlChan of the pass closed?
          worker,   \* worker -> [pc, file]
          passes

VARIABLES lock,     \* the worker that holds compactionLock, or 0
          task,     \* what it does: "none", "sample", "sampled", "compact", "rewritten", ...
          slot,     \* the slot of its goroutines
          left,     \* has a call that could not open its TOC left goroutines behind?
          todo,     \* places of the TOC still to read
          block,    \* those of them in the block that has been read
          filling,  \* channel -> the batch the reader fills, or Nil
          free,     \* channel -> how many batches freeBatchChan has
          pending,  \* channel -> sequence of batches, Nil to end a goroutine
          gor,      \* channel -> slot -> goroutine: [pc, kind, batch, val]
          checked, stale, skip, readErr, writeErr,
          tocErr,   \* has the reader met an error?
          anyRead,  \* has it read an entry?
          missed    \* entries that it did not see because of an error

store == <<mem, data, toc, values, tocs, open, broken, lm, flushed, atRisk, older, lost,
           writes>>
life  == <<running, replay, queue, starts, faults>>
pass  == <<launcher, notify, names, jobs, jobsClosed, cancel, worker, passes>>
batchVars == <<lock, task, slot, left, todo, block, filling, free, pending, gor>>
reading == <<tocErr, anyRead, missed>>
counts == <<checked, stale, skip, readErr, writeErr, tocErr, anyRead, missed>>
vars  == <<store, life, pass, batchVars, counts>>

Fault(happens) == /\ happens => faults < MaxFaults
                  /\ faults' = IF happens THEN faults + 1 ELSE faults

(***************************************************************************)
(* The store as compaction sees it                                         *)
(***************************************************************************)
Removal(ts) == HasBit(ts, TSB_LOCAL_REMOVAL)

\* The value that a location leads to.
Value(l) == IF l.id = MEM THEN mem[l.off] ELSE data[l.id][l.off]

\* Has a TOC a newer entry of k?
Behind(k, ts) == \E f \in tocs : \E i \in toc[f] : data[f][i].key = k /\ data[f][i].ts > ts

\* memWriter: a value that does not win is not kept; the bit of a compaction
\* rewrite lets it win over an equal timestamp and is taken off.  (A local
\* removal lets an older value win once the key is out of the location map.)
Write(k, ts, val) ==
  /\ mem' = IF lm[k].ts < ts
            THEN Append(mem, [key |-> k, ts |-> NoRewrite(ts), val |-> val]) ELSE mem
  /\ lm' = Set(lm, k, NoRewrite(ts), MEM, Len(mem) + 1, HasBit(ts, TSB_COMPACTION_REWRITE))
  /\ older' = IF lm[k].ts < ts /\ Behind(k, NoRewrite(ts)) THEN older \cup {k} ELSE older

\* A write, a deletion or a local removal by others.
ClientWrite(w) ==
  /\ running = "up" /\ writes < MaxWrites
  /\ writes' = writes + 1
  /\ Write(w.key, w.ts, w.ts)
  /\ flushed' = IF Removal(w.ts) THEN [flushed EXCEPT ![w.key] = 0] ELSE flushed
  /\ UNCHANGED <<data, toc, values, tocs, open, broken, atRisk, lost, life, pass, batchVars,
                 counts>>

NewFile == {f \in FileIDs : data[f] = <<>> /\ \A g \in FileIDs : g < f => data[g] # <<>>}

\* The place in memory that a memClearer sets the location of k to: the last
\* value of k that is not older than the location.
Places(k) == {i \in DOMAIN mem : mem[i].key = k /\ lm[k].ts <= mem[i].ts}
LastPlace(k) == CHOOSE i \in Places(k) : \A j \in Places(k) : j <= i
Listed(i) == ~Removal(mem[i].ts) /\ i \in Places(mem[i].key)

\* fileWriter, memClearers and tocWriter: memory goes to a file.  A local
\* removal takes its key out of the location map; its TOC entry has offset 0,
\* which is not read again.
ToFile(f) ==
  /\ data' = [data EXCEPT ![f] = mem]
  /\ toc' = [toc EXCEPT ![f] = {i \in DOMAIN mem : Listed(i)}]
  /\ values' = values \cup {f} /\ tocs' = tocs \cup {f}
  /\ lm' = [k \in Keys |->
              IF lm[k].id # MEM THEN lm[k]
              ELSE IF Removal(lm[k].ts) THEN Missing
              ELSE [ts |-> lm[k].ts, id |-> f, off |-> LastPlace(k)]]
  /\ mem' = <<>>

\* A full page: the TOC stays open.
PageOut ==
  /\ running \in {"up", "stopping"} /\ mem # <<>>
  /\ \E f \in NewFile : ToFile(f) /\ open' = open \cup {f}
  /\ UNCHANGED <<broken, flushed, atRisk, older, lost, writes, life, pass, batchVars, counts>>

\* Is the location of k one of these entries?
Lost(entries, locations, k) ==
  [key |-> k, ts |-> locations[k].ts, id |-> locations[k].id] \in entries

\* Flush, also at the end of Shutdown: open TOCs get their terminator.
Flush ==
  /\ running \in {"up", "stopping"} /\ (mem # <<>> \/ open # {})
  /\ IF mem = <<>> THEN UNCHANGED <<data, toc, values, tocs, lm, mem>>
     ELSE \E f \in NewFile : ToFile(f)
  /\ open' = {} /\ atRisk' = {}
  /\ flushed' = [k \in Keys |-> IF Lost(lost, lm', k) THEN 0 ELSE lm'[k].ts]
  /\ UNCHANGED <<broken, older, lost, writes, life, pass, batchVars, counts>>

(***************************************************************************)
(* The launcher and its pass                                               *)
(***************************************************************************)
\* Files are taken in the order of their names.
Oldest(S) == {f \in S : \A g \in S : f <= g}

NoJob == [pc |-> "next", file |-> 0]

PassFrame == UNCHANGED <<store, life, batchVars, counts>>

\* compactionLauncher: its timer begins a pass, a notification ends it.
CompactionLauncher ==
  /\ launcher = "wait"
  /\ \/ /\ ~notify /\ passes < MaxPasses
        /\ launcher' = "queue" /\ passes' = passes + 1
        /\ names' = tocs /\ jobs' = <<>> /\ jobsClosed' = FALSE /\ cancel' = FALSE
        /\ worker' = [w \in Chans |-> NoJob]
        /\ UNCHANGED notify
     \/ /\ notify /\ notify' = FALSE /\ launcher' = "gone"
        /\ UNCHANGED <<names, jobs, jobsClosed, cancel, worker, passes>>
  /\ PassFrame

\* compactionCandidate: not one of the two open TOCs, and old enough.
Candidate(f, old) == f \notin open /\ old

\* compactionPass queues the candidates as jobs.  After a file that is not old
\* enough come only younger ones.
PassQueue ==
  /\ launcher = "queue" /\ names # {} /\ ~notify
  /\ \E f \in Oldest(names), old \in BOOLEAN :
       /\ jobs' = IF Candidate(f, old) THEN Append(jobs, f) ELSE jobs
       /\ names' = IF old THEN names \ {f} ELSE {}
  /\ UNCHANGED <<launcher, notify, jobsClosed, cancel, worker, passes>> /\ PassFrame

\* On a notification it closes controlChan and waits for the workers, with
\* jobChan left open.
PassInterrupted ==
  /\ launcher = "queue" /\ names # {} /\ notify
  /\ notify' = FALSE /\ cancel' = TRUE /\ launcher' = "stop"
  /\ UNCHANGED <<names, jobs, jobsClosed, worker, passes>> /\ PassFrame

PassQueued ==
  /\ launcher = "queue" /\ names = {}
  /\ jobsClosed' = TRUE /\ launcher' = "workers"
  /\ UNCHANGED <<notify, names, jobs, cancel, worker, passes>> /\ PassFrame

WorkersGone == \A w \in Chans : worker[w].pc = "gone"

\* With all jobs queued it waits for the workers or for a notification.
PassWait ==
  /\ \/ /\ launcher = "workers" /\ notify
        /\ notify' = FALSE /\ cancel' = TRUE /\ launcher' = "stop"
     \/ /\ launcher = "workers" /\ WorkersGone
        /\ launcher' = "wait" /\ UNCHANGED <<notify, cancel>>
     \/ /\ launcher = "stop" /\ WorkersGone
        /\ launcher' = "gone" /\ UNCHANGED <<notify, cancel>>
  /\ UNCHANGED <<names, jobs, jobsClosed, worker, passes>> /\ PassFrame

CompactionPass == PassQueue \/ PassInterrupted \/ PassQueued \/ PassWait

\* compactionWorker takes a job whatever controlChan says: the break leaves
\* only the select.  A TOC that valueTOCStat cannot read is passed over; a
\* small one is always compacted.
CompactionWorker(w) ==
  /\ worker[w].pc = "next"
  /\ \/ /\ jobs # <<>> /\ jobs' = Tail(jobs)
        /\ LET f == Head(jobs)
           IN  worker' = IF f \notin tocs \/ f \in broken THEN worker
                         ELSE [worker EXCEPT ![w] =
                                 [pc |-> IF Cardinality(toc[f]) < SmallTotal THEN "compact" ELSE "sample",
                                  file |-> f]]
     \/ /\ jobs = <<>> /\ jobsClosed
        /\ worker' = [worker EXCEPT ![w].pc = "gone"] /\ UNCHANGED jobs
  /\ UNCHANGED <<launcher, notify, names, jobsClosed, cancel, passes>> /\ PassFrame

(***************************************************************************)
(* needsCompaction and compactFile: goroutines and the reader of the TOC   *)
(***************************************************************************)
Entry(f, i) == [key |-> data[f][i].key, ts |-> data[f][i].ts, id |-> f]

TaskFrame == UNCHANGED <<store, running, replay, queue, starts, launcher, notify, names,
                         jobs, jobsClosed, cancel, passes>>

ResetCounts == /\ checked' = 0 /\ stale' = 0 /\ skip' = [c \in Chans |-> FALSE]
               /\ readErr' = FALSE /\ writeErr' = FALSE
               /\ tocErr' = FALSE /\ anyRead' = FALSE /\ missed' = {}

Started(kind) == [c \in Chans |-> [gor[c] EXCEPT ![slot] =
                                     [pc |-> "wait", kind |-> kind, batch |-> <<>>, val |-> 0]]]

\* With the lock, the goroutines are started and the TOC is opened; the reader
\* takes a first batch of the first channel.  (The goroutines of a compactFile
\* that is canceled from the start do what those left by another call do.)
TaskBegin(w) ==
  /\ worker[w].pc \in {"sample", "compact"} /\ lock = 0
  /\ gor' = IF cancel /\ worker[w].pc = "compact" /\ slot > 1 THEN gor ELSE Started(worker[w].pc)
  /\ \E err \in BOOLEAN :
       /\ Fault(err)
       /\ IF err
          THEN /\ slot' = slot + 1 /\ left' = TRUE
               /\ worker' = [worker EXCEPT ![w] = NoJob]
               /\ UNCHANGED <<lock, task, todo, filling, free>>
          ELSE /\ free[1] > 0 /\ free' = [free EXCEPT ![1] = @ - 1]
               /\ lock' = w /\ task' = worker[w].pc
               /\ todo' = toc[worker[w].file]
               /\ filling' = [c \in Chans |-> IF c = 1 THEN <<>> ELSE Nil]
               /\ UNCHANGED <<slot, left, worker>>
  /\ ResetCounts /\ UNCHANGED <<block, pending>> /\ TaskFrame

File == worker[lock].file
Total == Cardinality(toc[File])
ToCheck == IF Total > MaxCheck THEN MaxCheck ELSE Total

\* Is the controlChan of the reader closed?  In compactFile it is that of the
\* pass; in needsCompaction the last entry to check closes it.
Stopped == IF task = "sample" THEN checked >= ToCheck ELSE cancel

UpTo(i) == {j \in todo : j <= i}

\* valueReadTOCEntriesBatched, which looks at controlChan before each block,
\* reads one.  An error loses entries: those of a block whose checksum is wrong,
\* or all that are left, when the disk cannot be read.  (The latter also stands
\* for a header that cannot be read.)
ReadBlock ==
  /\ task \in {"sample", "compact"} /\ block = {} /\ ~Stopped
  /\ \/ /\ \E i \in todo : block' = UpTo(i)
        /\ UNCHANGED <<todo, faults, tocErr, missed>>
     \/ /\ Fault(TRUE) /\ tocErr' = TRUE
        /\ \E i \in todo \cup {0} :
             /\ todo' = todo \ UpTo(i)
             /\ missed' = missed \cup {Entry(File, j) : j \in UpTo(i)}
        /\ UNCHANGED block
  /\ UNCHANGED <<lock, task, slot, left, filling, free, pending, gor, worker, checked, stale,
                 skip, readErr, writeErr, anyRead>> /\ TaskFrame

\* An entry of the block goes to the batch of its channel, for which a free one
\* is waited for; a full batch is handed over.
ReadEntry ==
  /\ task \in {"sample", "compact"}
  /\ \E i \in Oldest(block) :
       LET e == Entry(File, i)
           c == Chan(e.key)
           batch == IF filling[c] = Nil THEN <<e>> ELSE Append(filling[c], e)
           full  == Len(batch) >= BatchSize
       IN  /\ filling[c] = Nil => free[c] > 0
           /\ free' = [free EXCEPT ![c] = IF filling[c] = Nil THEN @ - 1 ELSE @]
           /\ filling' = [filling EXCEPT ![c] = IF full THEN Nil ELSE batch]
           /\ pending' = [pending EXCEPT ![c] = IF full THEN Append(@, batch) ELSE @]
           /\ todo' = todo \ {i} /\ block' = block \ {i}
  /\ anyRead' = TRUE
  /\ UNCHANGED <<lock, task, slot, left, gor, checked, stale, skip, readErr, writeErr, tocErr,
                 missed, faults, worker>> /\ TaskFrame

Finished == \A c \in Chans : gor[c][slot].pc = "gone"

\* What is left to hand over of channel c when the TOC is read.
Rest(c) == IF filling[c] = Nil THEN <<>> ELSE <<filling[c]>>

\* The partial batches are handed over and a nil to each goroutine.  A canceled
\* compactFile returns before the nils and leaves its goroutines behind.
ReadEnd ==
  LET canceled == task = "compact" /\ cancel
  IN  /\ task \in {"sample", "compact"} /\ block = {} /\ (todo = {} \/ Stopped)
      /\ pending' = [c \in Chans |-> pending[c] \o Rest(c) \o (IF canceled THEN <<>> ELSE <<Nil>>)]
      /\ filling' = [c \in Chans |-> Nil] /\ todo' = {}
      /\ task' = CASE canceled -> "none" [] task = "sample" -> "sampled" [] OTHER -> "rewritten"
      /\ lock' = IF canceled THEN 0 ELSE lock
      /\ worker' = IF canceled THEN [worker EXCEPT ![lock] = NoJob] ELSE worker
      /\ slot' = IF canceled /\ ~Finished THEN slot + 1 ELSE slot
      /\ UNCHANGED <<left, block, free, gor, counts, faults>> /\ TaskFrame

(***************************************************************************)
(* The goroutine of channel c started by the call of slot s                *)
(***************************************************************************)
Goroutine(c, s, to) == gor' = [gor EXCEPT ![c][s] = to]

\* A nil ends it.  Once enough is checked, or a write has failed, batches are
\* dropped, not returned.
Receive(c, s) ==
  LET g == gor[c][s]
      b == Head(pending[c])
  IN  /\ g.pc = "wait" /\ pending[c] # <<>>
      /\ pending' = [pending EXCEPT ![c] = Tail(@)]
      /\ Goroutine(c, s, IF b = Nil THEN [g EXCEPT !.pc = "gone"]
                         ELSE IF s = slot /\ (skip[c] \/ writeErr) THEN g
                         ELSE [g EXCEPT !.pc = "entry", !.batch = b])
      /\ UNCHANGED <<lock, task, slot, left, todo, block, filling, free, counts, faults, worker>>
      /\ TaskFrame

\* Faulty variant: the goroutine keeps the batch that it returns.
ReturnAndKeep(c, s) ==
  /\ gor[c][s].pc = "entry" /\ gor[c][s].batch = <<>>
  /\ free' = [free EXCEPT ![c] = @ + 1]
  /\ UNCHANGED <<lock, task, slot, left, todo, block, filling, pending, gor, counts, faults, worker>>
  /\ TaskFrame

\* The batch goes back.
Return(c, s) ==
  /\ gor[c][s].pc = "entry" /\ gor[c][s].batch = <<>>
  /\ Goroutine(c, s, [gor[c][s] EXCEPT !.pc = "wait"])
  /\ free' = [free EXCEPT ![c] = @ + 1]
  /\ UNCHANGED <<lock, task, slot, left, todo, block, filling, pending, counts, faults, worker>>
  /\ TaskFrame

\* The goroutine is through with its entry.
Done(g) == [g EXCEPT !.pc = "entry", !.batch = Tail(@), !.val = 0]

EntryFrame == UNCHANGED <<lock, task, slot, left, todo, block, filling, free, pending, reading,
                          worker>>

\* needsCompaction counts an entry; the one that makes it enough ends the batch.
Sample(c, s) ==
  LET g == gor[c][s]
      e == Head(g.batch)
      enough == checked + 1 >= ToCheck
  IN  /\ g.pc = "entry" /\ g.kind = "sample" /\ g.batch # <<>>
      /\ IF s = slot
         THEN /\ checked' = checked + 1
              /\ stale' = IF lm[e.key].ts # e.ts \/ lm[e.key].id # e.id THEN stale + 1 ELSE stale
              /\ skip' = [skip EXCEPT ![c] = enough]
              /\ Goroutine(c, s, IF enough THEN [g EXCEPT !.batch = <<>>] ELSE Done(g))
         ELSE Goroutine(c, s, Done(g)) /\ UNCHANGED <<checked, stale, skip>>
      /\ UNCHANGED <<readErr, writeErr, faults>> /\ EntryFrame /\ TaskFrame

\* A newer timestamp in the location map, or none: the entry is not kept.
IsStale(ts, e) == ts > e.ts \/ ts = 0

\* compactFile looks the entry up ...
LookUp(c, s) ==
  LET g == gor[c][s]
      e == Head(g.batch)
  IN  /\ g.pc = "entry" /\ g.kind = "compact" /\ g.batch # <<>>
      /\ Goroutine(c, s, IF IsStale(lm[e.key].ts, e) THEN Done(g) ELSE [g EXCEPT !.pc = "read"])
      /\ UNCHANGED <<counts, faults>> /\ EntryFrame /\ TaskFrame

\* Has the file of a location been removed and closed?
Closed(l) == l.id \in FileIDs \ values

\* ... reads the value that the key has by now, which a deletion has not ...
ReadValue(c, s) ==
  LET g == gor[c][s]
      e == Head(g.batch)
      l == lm[e.key]
      notFound == l.id = 0 \/ HasBit(l.ts, TSB_DELETION) \/ Removal(l.ts)
  IN  /\ g.pc = "read"
      /\ \E err \in BOOLEAN :
           /\ Fault(err /\ ~Closed(l))
           /\ IF notFound THEN ~err ELSE Closed(l) => err
           /\ readErr' = (readErr \/ (err /\ s = slot))
           /\ Goroutine(c, s, IF err \/ notFound \/ l.ts > e.ts THEN Done(g)
                              ELSE [g EXCEPT !.pc = "write", !.val = Value(l).val])
      /\ UNCHANGED <<checked, stale, skip, writeErr>> /\ EntryFrame /\ TaskFrame

RewriteTimestamp(e) == e.ts + TSB_COMPACTION_REWRITE

\* ... and writes it with the timestamp of the entry.  A failed write ends the
\* batch.
Rewrite(c, s) ==
  LET g == gor[c][s]
      e == Head(g.batch)
  IN  /\ g.pc = "write" /\ running \in {"up", "stopping"}
      /\ \E err \in BOOLEAN :
           /\ Fault(err)
           /\ writeErr' = (writeErr \/ (err /\ s = slot))
           /\ IF err THEN UNCHANGED <<mem, lm, older>> ELSE Write(e.key, RewriteTimestamp(e), g.val)
           /\ Goroutine(c, s, IF err THEN [Done(g) EXCEPT !.batch = <<>>] ELSE Done(g))
      /\ UNCHANGED <<checked, stale, skip, readErr>> /\ EntryFrame
      /\ UNCHANGED <<data, toc, values, tocs, open, broken, flushed, atRisk, lost, writes,
                     running, replay, queue, starts, launcher, notify, names, jobs,
                     jobsClosed, cancel, passes>>

Work(c, s) == \/ Receive(c, s) \/ Return(c, s) \/ Sample(c, s)
              \/ LookUp(c, s) \/ ReadValue(c, s) \/ Rewrite(c, s)

(***************************************************************************)
(* The ends of needsCompaction and compactFile                             *)
(***************************************************************************)
\* Faulty variant: the compactionLock is kept.
NoUnlock(next) ==
  /\ task' = "none" /\ UNCHANGED lock
  /\ worker' = [worker EXCEPT ![lock].pc = next]

Unlock(next) ==
  /\ lock' = 0 /\ task' = "none"
  /\ worker' = [worker EXCEPT ![lock] = IF next = "next" THEN NoJob ELSE [@ EXCEPT !.pc = next]]

\* Any error of the reader decides it.
NeedsCompaction == tocErr \/ stale > (checked * Threshold) \div 10

\* The goroutines have ended: the sample decides ...
SampleEnd ==
  /\ task = "sampled" /\ Finished
  /\ Unlock(IF NeedsCompaction THEN "compact" ELSE "next")
  /\ UNCHANGED <<slot, left, todo, block, filling, free, pending, gor, counts, faults>> /\ TaskFrame

\* Faulty variant: the goroutines are not waited for.
RemovesAtOnce == ~readErr /\ ~writeErr /\ (tocErr => anyRead)

\* Faulty variant: a file is removed though no entry of it could be read.
RemovesUnread == Finished /\ ~readErr /\ ~writeErr

\* Is the file removed?  Not when a value could not be read or written, nor when
\* the reader had errors and no entry; with errors and some entries it is.
Removes == Finished /\ ~readErr /\ ~writeErr /\ (tocErr => anyRead)

\* ... and a file with its entries rewritten goes: first the TOC, then the
\* values, which are closed.  A TOC that can be neither removed nor renamed
\* stays.  What the reader missed of a TOC that it could read in part is lost.
CompactEnd ==
  /\ task = "rewritten" /\ Finished /\ ~Removes
  /\ Unlock("next")
  /\ UNCHANGED <<slot, left, todo, block, filling, free, pending, gor, counts, faults>> /\ TaskFrame

RemoveTOC ==
  /\ task = "rewritten" /\ Removes
  /\ task' = "removing"
  /\ \E err \in BOOLEAN : Fault(err) /\ tocs' = IF err THEN tocs ELSE tocs \ {File}
  /\ atRisk' = atRisk \cup {k \in Keys : /\ lm[k].id \in {0, MEM} \cup open
                                         /\ \E i \in toc[File] : data[File][i].key = k}
  /\ lost' = IF anyRead THEN lost \cup missed ELSE lost
  /\ flushed' = [k \in Keys |-> IF Lost(lost', lm, k) THEN 0 ELSE flushed[k]]
  /\ UNCHANGED <<mem, data, toc, values, open, broken, lm, older, writes, running, replay,
                 queue, starts, pass, lock, slot, left, todo, block, filling, free, pending,
                 gor, counts>>

RemoveValues ==
  /\ task = "removing"
  /\ values' = values \ {File}
  /\ Unlock("next")
  /\ UNCHANGED <<mem, data, toc, tocs, open, broken, lm, flushed, atRisk, older, lost, writes,
                 life, launcher, notify, names, jobs, jobsClosed, cancel, passes, slot, left,
                 todo, block, filling, free, pending, gor, counts>>

TaskEnd == SampleEnd \/ CompactEnd \/ RemoveTOC \/ RemoveValues

(***************************************************************************)
(* Shutdown, crash, recovery                                               *)
(***************************************************************************)
Shutdown ==
  /\ running = "up" /\ running' = "stopping" /\ notify' = TRUE
  /\ UNCHANGED <<store, replay, queue, starts, faults, launcher, names, jobs, jobsClosed,
                 cancel, worker, passes, batchVars, counts>>

\* compactionShutdown has its answer, and the write path has flushed.
ShutdownReturns ==
  /\ running = "stopping" /\ launcher = "gone" /\ mem = <<>> /\ open = {}
  /\ running' = "down"
  /\ UNCHANGED <<store, replay, queue, starts, faults, pass, batchVars, counts>>

\* A goroutine of a canceled compactFile is not waited for; without the
\* channels of the write path its write panics.
RewriteAfterShutdown ==
  /\ running = "down" /\ \E c \in Chans, s \in Slots : gor[c][s].pc = "write"
  /\ running' = "panicked"
  /\ UNCHANGED <<store, replay, queue, starts, faults, pass, batchVars, counts>>

Idle == [c \in Chans |-> [s \in Slots |-> [pc |-> "gone", kind |-> "compact", batch |-> <<>>, val |-> 0]]]

\* The process ends.  Of an open TOC, the disk may have nothing.
Crash ==
  /\ running \in {"up", "stopping"} /\ starts < MaxStarts
  /\ running' = "down" /\ mem' = <<>> /\ notify' = FALSE
  /\ \E torn \in SUBSET open :
       /\ open' = open \ torn /\ broken' = broken \cup torn
       /\ toc' = [f \in FileIDs |-> IF f \in torn THEN {} ELSE toc[f]]
  /\ flushed' = [k \in Keys |-> IF k \in atRisk THEN 0 ELSE flushed[k]]
  /\ atRisk' = {} /\ lost' = {}
  /\ gor' = Idle /\ launcher' = "gone" /\ names' = {} /\ jobs' = <<>>
  /\ worker' = [w \in Chans |-> [pc |-> "gone", file |-> 0]]
  /\ lm' = [k \in Keys |-> Missing] /\ lock' = 0 /\ task' = "none"
  /\ slot' = 1 /\ todo' = {} /\ block' = {} /\ filling' = [c \in Chans |-> Nil]
  /\ pending' = [c \in Chans |-> <<>>] /\ free' = [c \in Chans |-> Batches]
  /\ ResetCounts /\ jobsClosed' = FALSE /\ cancel' = FALSE
  /\ UNCHANGED <<data, values, tocs, older, writes, replay, queue, starts, faults, passes,
                 left>>

\* Startup: recovery reads the TOCs in the order of their names ...
Startup ==
  /\ running = "down" /\ starts < MaxStarts /\ starts' = starts + 1
  /\ running' = "recovering"
  /\ lm' = [k \in Keys |-> Missing] /\ lost' = {}
  /\ replay' = tocs /\ queue' = [c \in Chans |-> {}]
  /\ lock' = 0 /\ task' = "none" /\ slot' = 1 /\ todo' = {} /\ block' = {}
  /\ filling' = [c \in Chans |-> Nil] /\ free' = [c \in Chans |-> Batches]
  /\ pending' = [c \in Chans |-> <<>>] /\ gor' = Idle
  /\ UNCHANGED <<mem, data, toc, values, tocs, open, broken, flushed, atRisk, older, writes,
                 faults, pass, counts, left>>

RecoveryFrame == UNCHANGED <<mem, data, toc, values, tocs, open, broken, lost, writes,
                             starts, faults, batchVars, counts>>

\* Faulty variant: it does not matter whether the value file can be opened.
AnyFile(f) == TRUE

Readable(f) == f \in values

\* ... hands the entries of each to the goroutines of their keys, unless the
\* value file cannot be opened ...
RecoverFile ==
  /\ running = "recovering"
  /\ \E f \in Oldest(replay) :
       /\ replay' = replay \ {f}
       /\ queue' = [c \in Chans |->
                      queue[c] \cup {[id |-> f, off |-> i] :
                                      i \in {i \in toc[f] : Readable(f) /\ Chan(data[f][i].key) = c}}]
  /\ UNCHANGED <<running, lm, pass, flushed, atRisk, older>> /\ RecoveryFrame

\* The order of a channel is that of the files and of their TOCs.
FirstRead(Q) == {e \in Q : \A d \in Q : e.id < d.id \/ (e.id = d.id /\ e.off <= d.off)}

Replayed(e) == LET v == data[e.id][e.off] IN Set(lm, v.key, v.ts, e.id, e.off, TRUE)

\* ... which set them in the location map.
RecoverEntry(c) ==
  /\ running = "recovering"
  /\ \E e \in FirstRead(queue[c]) :
       lm' = Replayed(e) /\ queue' = [queue EXCEPT ![c] = @ \ {e}]
  /\ UNCHANGED <<running, replay, pass, flushed, atRisk, older>> /\ RecoveryFrame

\* Files with errors, such as a missing terminator, are then compacted; but the
\* channels of compaction have not been made, and the reader panics on the
\* first of them.
RecoveryEnd ==
  /\ running = "recovering" /\ replay = {} /\ \A c \in Chans : queue[c] = {}
  /\ running' = IF open \cap values # {} THEN "panicked" ELSE "recovered"
  /\ older' = older \cup {k \in Keys : lm[k].id # 0 /\ Behind(k, lm[k].ts)}
  /\ UNCHANGED <<lm, replay, queue, pass, flushed, atRisk>> /\ RecoveryFrame

\* compactionStartup.  What recovery has found is on disk.
CompactionStartup ==
  /\ running = "recovered" /\ running' = "up"
  /\ launcher' = "wait" /\ notify' = FALSE
  /\ flushed' = [k \in Keys |-> lm[k].ts] /\ atRisk' = {}
  /\ UNCHANGED <<lm, older, replay, queue, names, jobs, jobsClosed, cancel, worker, passes>>
  /\ RecoveryFrame

Recovery == RecoverFile \/ (\E c \in Chans : RecoverEntry(c)) \/ RecoveryEnd \/ CompactionStartup

(***************************************************************************)
(* The specification                                                       *)
(***************************************************************************)
Init ==
  /\ mem = <<>> /\ values = {} /\ tocs = {} /\ open = {} /\ broken = {}
  /\ data = [f \in FileIDs |-> <<>>] /\ toc = [f \in FileIDs |-> {}]
  /\ lm = [k \in Keys |-> Missing] /\ flushed = [k \in Keys |-> 0]
  /\ atRisk = {} /\ older = {} /\ lost = {} /\ writes = 0
  /\ running = "recovered" /\ replay = {} /\ queue = [c \in Chans |-> {}]
  /\ starts = 0 /\ faults = 0
  /\ launcher = "gone" /\ notify = FALSE /\ names = {} /\ jobs = <<>>
  /\ jobsClosed = FALSE /\ cancel = FALSE /\ passes = 0
  /\ worker = [w \in Chans |-> [pc |-> "gone", file |-> 0]]
  /\ lock = 0 /\ task = "none" /\ slot = 1 /\ left = FALSE /\ todo = {} /\ block = {}
  /\ filling = [c \in Chans |-> Nil] /\ free = [c \in Chans |-> Batches]
  /\ pending = [c \in Chans |-> <<>>] /\ gor = Idle
  /\ checked = 0 /\ stale = 0 /\ skip = [c \in Chans |-> FALSE]
  /\ readErr = FALSE /\ writeErr = FALSE /\ tocErr = FALSE /\ anyRead = FALSE /\ missed = {}

Goroutines == \E c \in Chans, s \in Slots : Work(c, s)
Alive == running \in {"up", "stopping"}
Compact == /\ Alive
           /\ \/ CompactionLauncher \/ CompactionPass \/ ReadBlock \/ ReadEntry \/ ReadEnd \/ TaskEnd
              \/ Goroutines
              \/ \E w \in Chans : CompactionWorker(w) \/ TaskBegin(w)

Next ==
  \/ (\E w \in Writes : ClientWrite(w)) \/ PageOut \/ Flush
  \/ Compact \/ Shutdown \/ ShutdownReturns \/ RewriteAfterShutdown
  \/ Crash \/ Startup \/ Recovery

Spec == Init /\ [][Next]_vars

\* Goroutines go on, though no error is bound to happen, and so does the flush
\* at the end of Shutdown.
FairSpec == Spec /\ WF_vars(Compact /\ faults' = faults) /\ WF_vars(running = "stopping" /\ Flush)
                 /\ WF_vars(ShutdownReturns) /\ WF_vars(Recovery)

(***************************************************************************)
(* Properties                                                              *)
(***************************************************************************)
\* Every variable has its type; no channel has more batches than were made.
TypeOK ==
  /\ lm \in Location(Keys, 0..(MaxFiles + 1))
  /\ values \subseteq FileIDs /\ tocs \subseteq FileIDs
  /\ open \subseteq FileIDs /\ broken \subseteq FileIDs
  /\ running \in {"down", "recovering", "recovered", "up", "stopping", "panicked"}
  /\ launcher \in {"gone", "wait", "queue", "workers", "stop"}
  /\ \A c \in Chans : free[c] \in 0..Batches
  /\ lock \in 0..Workers /\ slot \in Slots /\ faults \in 0..MaxFaults

\* Did every call open its TOC?  Otherwise goroutines are left behind, which
\* take batches of other files and leave them as they are.
NoneLeftBehind == ~left

\* compactFile removes no file that a location leads to, unless the reader of its
\* TOC missed that very entry and read others: every other key that can be read
\* leads to its value, whatever was written while the file was rewritten.
LocationsLead ==
  running \in {"recovered", "up", "stopping"} /\ NoneLeftBehind =>
    \A k \in Keys : lm[k].id # 0 /\ ~HasBit(lm[k].ts, TSB_DELETION) /\ ~Lost(lost, lm, k) =>
      /\ lm[k].id \in {MEM} \cup values
      /\ Value(lm[k]).key = k /\ Value(lm[k]).ts = lm[k].ts

\* A rewritten value keeps its timestamp: what is read with a timestamp was
\* written with it, unless its key once had a value older than an entry of a
\* TOC: compactFile writes what it reads with the timestamp of the entry.
RewritesKeepTimestamps ==
  Alive /\ NoneLeftBehind =>
    \A k \in Keys \ older : lm[k].id \in {MEM} \cup values => Value(lm[k]).val = lm[k].ts

\* Whatever compaction rewrites and removes beside other writes, a key leads to
\* a value of its own, with the timestamp that it was written with.
CompactionKeepsValues == LocationsLead /\ RewritesKeepTimestamps

\* Recovery finds the newest entry of every key in the TOCs, and no other key.
RecoveryFindsNewest ==
  running = "recovered" =>
    \A k \in Keys :
      LET found == {e \in (tocs \cap values) \X UNION {toc[f] : f \in FileIDs} :
                      e[2] \in toc[e[1]] /\ data[e[1]][e[2]].key = k}
      IN  IF found = {} THEN lm[k] = Missing
          ELSE /\ <<lm[k].id, lm[k].off>> \in found
               /\ \A e \in found : data[e[1]][e[2]].ts <= lm[k].ts

\* A flushed value is there after a crash or a restart, unless compaction had
\* removed its file while the rewritten or newer value was only in memory
\* (atRisk), or after it had read only other entries of it (flushed is then 0).
FlushedValuesStay ==
  running \in {"recovered", "up"} /\ NoneLeftBehind =>
    \A k \in Keys : HasBit(flushed[k], TSB_DELETION) \/ k \in atRisk \/ lm[k].ts >= flushed[k]

\* After a deletion is flushed, no older value of its key comes back: not by
\* compaction, not by a restart.
FlushedDeletionsStay ==
  running \in {"recovered", "up"} /\ NoneLeftBehind =>
    \A k \in Keys \ atRisk : lm[k].ts >= flushed[k] \/ lm[k].ts = 0

\* Neither recovery nor a goroutine of compaction panics.
NoPanic == running # "panicked"

\* The launcher waits for workers that wait for jobs: it was notified while it
\* queued them, and leaves jobChan open.
JobsStayOpen == launcher = "stop" /\ ~jobsClosed

\* A call waits for a goroutine whose nil another one, left behind, has taken.
NilTaken == /\ task \in {"sampled", "rewritten"}
            /\ \E c \in Chans : /\ gor[c][slot].pc # "gone"
                                /\ \A i \in DOMAIN pending[c] : pending[c][i] # Nil

\* The reader waits for a batch of channel c, or for its first one.
NeedsBatch(c) ==
  \/ task \in {"sample", "compact"} /\ \E i \in Oldest(block) : Chan(Entry(File, i).key) = c
  \/ c = 1 /\ lock = 0 /\ \E w \in Chans : worker[w].pc \in {"sample", "compact"}

\* The reader waits for a batch, and all of that channel have been dropped.
BatchesDropped ==
  \E c \in Chans : /\ NeedsBatch(c) /\ free[c] = 0 /\ filling[c] = Nil
                   /\ \A i \in DOMAIN pending[c] : pending[c][i] = Nil
                   /\ \A s \in Slots : gor[c][s].pc \in {"gone", "wait"}

Stuck == JobsStayOpen \/ NilTaken \/ BatchesDropped

\* Shutdown returns, or is stuck for ever for one of these causes; whatever else
\* compaction is at when it begins, it comes to its end.
ShutdownReturnsUnlessStuck ==
  running = "stopping" ~> (running # "stopping" \/ []Stuck)

(***************************************************************************)
(* The inductive invariant of the properties above                         *)
(***************************************************************************)
ValueRec     == [key : Keys, ts : Nat, val : Nat]
EntryRec     == [key : Keys, ts : Nat, id : FileIDs]
Batch        == Seq(EntryRec) \cup {Nil}
GoroutineRec == [pc : {"gone", "wait", "entry", "read", "write"},
                 kind : {"sample", "compact"}, batch : Seq(EntryRec), val : Nat]
WorkerRec    == [pc : {"gone", "next", "sample", "compact"}, file : {0} \cup FileIDs]

StoreTypes ==
  /\ mem \in Seq(ValueRec) /\ data \in [FileIDs -> Seq(ValueRec)]
  /\ toc \in [FileIDs -> SUBSET Nat]
  /\ values \subseteq FileIDs /\ tocs \subseteq FileIDs
  /\ open \subseteq FileIDs /\ broken \subseteq FileIDs
  /\ lm \in Location(Keys, 0..(MaxFiles + 1)) /\ flushed \in [Keys -> Nat]
  /\ atRisk \subseteq Keys /\ older \subseteq Keys /\ lost \subseteq EntryRec
  /\ running \in {"down", "recovering", "recovered", "up", "stopping", "panicked"}
  /\ replay \subseteq FileIDs /\ queue \in [Chans -> SUBSET [id : FileIDs, off : Nat]]
  /\ faults \in 0..MaxFaults

TaskTypes ==
  /\ launcher \in {"gone", "wait", "queue", "workers", "stop"}
  /\ notify \in BOOLEAN /\ cancel \in BOOLEAN
  /\ names \subseteq FileIDs /\ jobs \in Seq(FileIDs)
  /\ worker \in [Chans -> WorkerRec]
  /\ lock \in 0..Workers /\ slot \in Nat \ {0} /\ left \in BOOLEAN
  /\ task \in {"none", "sample", "sampled", "compact", "rewritten", "removing"}
  /\ todo \subseteq Nat /\ block \subseteq todo /\ filling \in [Chans -> Batch]
  /\ free \in [Chans -> Nat] /\ pending \in [Chans -> Seq(Batch)]
  /\ gor \in [Chans -> [Slots -> GoroutineRec]]
  /\ skip \in [Chans -> BOOLEAN] /\ readErr \in BOOLEAN /\ writeErr \in BOOLEAN
  /\ missed \subseteq EntryRec

\* Timestamps of values: never 0, and without the bit of a rewrite.
Stamped(s) == \A i \in DOMAIN s : s[i].ts > 0 /\ ~HasBit(s[i].ts, TSB_COMPACTION_REWRITE)

\* A TOC lists values of its file, none of them a local removal.
FilesOK ==
  /\ mem # <<>> => Alive
  /\ Stamped(mem)
  /\ \A f \in FileIDs :
       /\ Stamped(data[f]) /\ toc[f] \subseteq DOMAIN data[f]
       /\ \A i \in toc[f] : ~Removal(data[f][i].ts)
  /\ \A f \in tocs : data[f] # <<>>

\* A location is that of its key's last value in memory, or of a TOC entry.
LocationOK(k) ==
  \/ lm[k] = Missing
  \/ /\ lm[k].id = MEM /\ lm[k].off \in DOMAIN mem
     /\ mem[lm[k].off].key = k /\ mem[lm[k].off].ts = lm[k].ts
  \/ /\ lm[k].id \in FileIDs /\ lm[k].off \in toc[lm[k].id]
     /\ data[lm[k].id][lm[k].off].key = k /\ data[lm[k].id][lm[k].off].ts = lm[k].ts

LocationsOK ==
  /\ \A k \in Keys : LocationOK(k)
  /\ \A i \in DOMAIN mem : LET l == lm[mem[i].key]
                           IN  l.id = MEM /\ mem[i].ts <= l.ts /\ i <= l.off

Active(w) == worker[w].pc \in {"sample", "compact"}

\* The holder of the lock is at work, and no file is given out twice.
WorkersOK ==
  /\ lock = 0 <=> task = "none"
  /\ lock # 0 => Active(lock)
  /\ launcher \in {"gone", "wait"} => WorkersGone
  /\ launcher \in {"queue", "workers"} => ~cancel
  /\ running \in {"down", "recovering", "recovered"} => launcher = "gone"
  /\ \A w \in Chans : Active(w) => worker[w].file \in FileIDs /\ data[worker[w].file] # <<>>

JobsOK ==
  /\ \A i, j \in DOMAIN jobs : i # j => jobs[i] # jobs[j]
  /\ \A i \in DOMAIN jobs : jobs[i] \notin names
  /\ \A w \in Chans : Active(w) =>
       /\ worker[w].file \notin names /\ \A i \in DOMAIN jobs : jobs[i] # worker[w].file
       /\ \A v \in Chans \ {w} : Active(v) => worker[v].file # worker[w].file
       /\ worker[w].file \in tocs \/ (w = lock /\ task = "removing")

\* A slot is used up by an error, and one more by the cancellation of a pass.
SlotsOK ==
  /\ \A c \in Chans, s \in Slots : s > slot => gor[c][s].pc = "gone"
  /\ lock = 0 \/ task = "removing" => Finished
  /\ running \in {"recovering", "recovered"} => slot = 1
  /\ \/ slot <= 1 + faults
     \/ /\ slot <= 2 + faults /\ cancel /\ launcher # "wait"
        /\ task = "compact" => Finished

Busy(g) == g.pc \in {"entry", "read", "write"}

\* Every batch is free, being filled, waiting in the channel, with a goroutine,
\* or dropped.
Waiting(c) == {i \in DOMAIN pending[c] : pending[c][i] # Nil}
Taken(c)   == {s \in Slots : Busy(gor[c][s])}
PoolOK == \A c \in Chans :
  free[c] + (IF filling[c] = Nil THEN 0 ELSE 1) + Cardinality(Waiting(c))
          + Cardinality(Taken(c)) <= Batches

\* Only a goroutine at work has entries, and it has those of TOCs.
IsEntry(e) == /\ \E i \in toc[e.id] : e = Entry(e.id, i)
              /\ ~left => e.id \in tocs

EntriesOf(b) == b # Nil => \A i \in DOMAIN b : IsEntry(b[i])

EntriesOK ==
  /\ \A c \in Chans, s \in Slots :
       /\ ~Busy(gor[c][s]) => gor[c][s].batch = <<>>
       /\ gor[c][s].pc \in {"read", "write"} => gor[c][s].batch # <<>>
       /\ EntriesOf(gor[c][s].batch)
  /\ \A c \in Chans : EntriesOf(filling[c]) /\ \A i \in DOMAIN pending[c] : EntriesOf(pending[c][i])
  /\ IF task \in {"sample", "compact"} THEN todo \subseteq toc[File]
     ELSE todo = {} /\ \A c \in Chans : filling[c] = Nil

\* Nothing of an earlier call is in the channels, unless goroutines of one that
\* could not open its TOC or of a canceled one are left.
Orderly ==
  /\ ~left
  /\ \/ ~cancel \/ launcher = "wait"
     \/ running \in {"recovering", "recovered"}
     \/ task \in {"rewritten", "removing"}

\* The goroutine of channel c before, at and after the nil that ends it.
Reading(c, kind) == /\ gor[c][1].pc # "gone" /\ gor[c][1].kind = kind
                    /\ \A i \in DOMAIN pending[c] : pending[c][i] # Nil
Ending(c, kind)  == /\ gor[c][1].pc # "gone" /\ gor[c][1].kind = kind
                    /\ pending[c] # <<>> /\ pending[c][Len(pending[c])] = Nil
                    /\ \A i \in DOMAIN pending[c] : i < Len(pending[c]) => pending[c][i] # Nil
Ended(c)         == gor[c][1].pc = "gone" /\ pending[c] = <<>>

ChannelOK(c) ==
  CASE task \in {"none", "removing"} -> Ended(c)
    [] task = "sample"    -> Reading(c, "sample")
    [] task = "compact"   -> Reading(c, "compact") /\ ~skip[c]
    [] task = "sampled"   -> Ended(c) \/ Ending(c, "sample")
    [] task = "rewritten" -> Ended(c) \/ (Ending(c, "compact") /\ ~skip[c])

ChannelsOK == Orderly => slot = 1 /\ \A c \in Chans : ChannelOK(c)

\* Can the key of location l be read?
Live(l) == l.id # 0 /\ ~HasBit(l.ts, TSB_DELETION)

\* The entry of location l is still to be read, to be rewritten or to be skipped.
Matches(e, k) == e.key = k /\ e.ts = lm[k].ts
Has(b, k) == b # Nil /\ \E i \in DOMAIN b : Matches(b[i], k)
InFlight(k) ==
  \/ \E i \in todo : Matches(Entry(File, i), k)
  \/ \E c \in Chans : \/ Has(filling[c], k)
                      \/ \E i \in DOMAIN pending[c] : Has(pending[c][i], k)
                      \/ Has(gor[c][1].batch, k)

RewritesOK ==
  Orderly /\ task \in {"compact", "rewritten"} /\ ~readErr /\ ~writeErr =>
    \A k \in Keys : Live(lm[k]) /\ lm[k].id = File => InFlight(k) \/ Lost(missed, lm, k)

\* Entries that were missed are those of TOCs.  After recovery none is lost.
LostOK ==
  /\ \A e \in lost \cup missed : \E i \in toc[e.id] : e = Entry(e.id, i)
  /\ missed # {} => tocErr
  /\ running \in {"recovering", "recovered"} => lost = {}

\* Files that stay: no location that can be read leads to another one.
Kept == (tocs \cap values) \ (IF task = "removing" THEN {File} ELSE {})

LocationsKept ==
  ~left => \A k \in Keys : Live(lm[k]) /\ ~Lost(lost, lm, k) => lm[k].id \in {MEM} \cup Kept

\* Values of a key that was never behind have the timestamps they were written with.
OwnTimestamps(s) == \A i \in DOMAIN s : s[i].key \notin older => s[i].val = s[i].ts

TimestampsOK == ~left =>
  /\ OwnTimestamps(mem) /\ \A f \in FileIDs : OwnTimestamps(data[f])
  /\ running \in {"recovered", "up", "stopping"} =>
       \A k \in Keys \ older : lm[k].id = 0 \/ ~Behind(k, lm[k].ts)
  /\ \A c \in Chans, s \in Slots :
       LET g == gor[c][s]
       IN  g.pc = "write" /\ Head(g.batch).key \notin older => g.val = Head(g.batch).ts

\* What the last flush has written is in a closed TOC that stays.
Durable(k) == \E f \in Kept \ open : \E i \in toc[f] :
                data[f][i].key = k /\ data[f][i].ts >= flushed[k]

Excused(k) == flushed[k] = 0 \/ HasBit(flushed[k], TSB_DELETION) \/ k \in atRisk

FlushedOK ==
  /\ \A k \in Keys : Removal(lm[k].ts) => flushed[k] = 0
  /\ \A k \in Keys : Lost(lost, lm, k) => flushed[k] = 0
  /\ Alive => \A k \in Keys : lm[k].id \in FileIDs \ open => flushed[k] \in {0, lm[k].ts}
  /\ Alive => \A k \in Keys : Excused(k) \/ lm[k].ts >= flushed[k]
  /\ ~left => \A k \in Keys : Excused(k) \/ Durable(k)

\* Every entry is still to be read, is in the queue of its key, or the key has
\* a location that is not older.
RecoveryOK ==
  /\ running \in {"recovering", "recovered"} =>
       /\ replay \subseteq tocs
       /\ \A k \in Keys : lm[k].id \in {0} \cup (tocs \cap values)
       /\ \A c \in Chans : \A q \in queue[c] : q.id \in tocs \cap values /\ q.off \in toc[q.id]
       /\ \A f \in tocs \cap values : \A i \in toc[f] :
            \/ f \in replay
            \/ [id |-> f, off |-> i] \in queue[Chan(data[f][i].key)]
            \/ data[f][i].ts <= lm[data[f][i].key].ts
  /\ running = "recovered" =>
       open \cap values = {} /\ replay = {} /\ \A c \in Chans : queue[c] = {}

CompactionInv ==
  /\ StoreTypes /\ TaskTypes /\ FilesOK /\ LocationsOK /\ WorkersOK /\ JobsOK /\ SlotsOK
  /\ PoolOK /\ EntriesOK /\ ChannelsOK /\ RewritesOK /\ LostOK /\ LocationsKept
  /\ TimestampsOK /\ FlushedOK /\ RecoveryOK
=============================================================================
