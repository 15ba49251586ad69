# TLA+ verification of gholt/valuestore

The repository is a Go package with two disk backed key/value stores, the value
store (128 bit keys) and the group store (128 bit group key, 128 bit name key),
both generated from the same templates (`*.got`).  Values are buffered in memory
pages, appended to value files, indexed by table-of-contents (TOC) files, kept
apart by microsecond timestamps, replicated between nodes, compacted and audited.
The modules here are written from the generated value store (`value*_GEN_.go`).

## Inventory

### Parts, their state and operations

| part | source | state | operations |
|---|---|---|---|
| location map | package `locmap` (external) | key -> timestampbits, block id, offset, length | Get, Set, Discard, Scan, ScanCallback |
| memWriter, one per worker | valuestore 628-706 | its page, `enabled` | write requests, enable/disable, flush, shutdown |
| fileWriter | valuestore 708-799 | open file, countdowns of flush and shutdown marks | append a page, rotate files, pass marks on |
| store file | valuestorefile 1-320 | buffers in flight, index of the next memClearer | write, checksum, write out, close, read |
| memClearer, one per worker | valuestore 539-626 | partial TOC block | move locations to the file, recycle pages |
| tocWriter | valuestore 801-930 | two open TOC files, countdowns | append, rotate, close TOC files |
| Flush, Startup, Shutdown, write switch | valuestore 253-426 | `readOnly`, user's choice, running flag | the calls of the user and of the background tasks |
| Read, Lookup, Write, Delete | valuestore 428-516, valuememblock | none of their own | look up, follow the location, retry when it moved |
| recovery | valuestore 932-1053 | free and pending batches | replay TOC files into the location map |
| TOC reader | valuestorefile 340-545 | checksum window | parse TOC files into batches |
| compaction | valuecompaction | candidate files, batches | rewrite live values, remove old files |
| audit | valueaudit | file list | verify checksums, react to a failure |
| tombstone discard | valuetombstonediscard | local removal batches | expire deletions, discard local removals |
| push and pull replication | valuepush/pullreplication | work lists, bloom filters, message pools | send what other nodes lack, ask for what this one lacks |
| bulk set and its acknowledgement | valuebulkset, valuebulksetack | message pools, pending acks | apply remote writes, remove what others hold |
| bloom filter | valuektbloomfilter | bits, counts, salt | add, test, reset, message conversion |
| flusher, watcher | valueflusher, valuewatcher | last write count; free space state | call Flush when idle; disable writes when space is short |
| configuration | valueconfig | the resolved Config | clamp and derive sizes |
| statistics | valuestats | counters | report |

### How they interact

Everything is a goroutine, and everything between goroutines is a bounded channel,
the location map or one of a few locks.  A write goes

    Write -> memWriter -> fileMemBlockChan -> fileWriter -> store file buffers
          -> freeableMemBlockChans -> memClearer -> pendingTOCBlockChan -> tocWriter
                                          |-> freeMemBlockChan -> memWriter

and the location of its key goes from nothing to a memory page to a value file. A Flush sends one
mark per memWriter through that path; the fileWriter and the tocWriter count marks and act on the
last one of a round.  Shutdown does the same with marks that end each goroutine, after it has
stopped the background tasks.  Read works beside all this and follows the location, under the
page's `discardLock`, when the page has been recycled. Background tasks are clients of the same
path: compaction rewrites, tombstone discard and replication enter as *internal* writes that the
write switch does not stop.

### What is hard

* a page is recycled while readers and the location map may refer to it;
* memWriter and memClearer race to set the location of one key, at equal
  timestamps when compaction rewrites a value;
* flush and shutdown marks of several callers and several workers are counted by
  plain countdowns;
* a partial buffer or a partial TOC block holds entries until something pushes it;
* bounded pools and channels form a cycle (pages: memWriter -> ... -> memWriter);
* TOC blocks of one file reach the tocWriter from several memClearers, in any order;
* crash and restart between a value file, its TOC and the removal of an older file;
* late, lost and repeated replication messages while the ring changes;
* background tasks that stop each other and the store.

`PROJECT.json` lists these with their lines as `hazards`, each with the properties
that cover it, or with a note on what they leave out.

### What makes the parts correct

* location map and write path: a location always leads to the value of its key with
  its timestamp; the newest timestamp stands; no page is lost or in two places;
* reading: the bytes returned are those of the timestamp returned;
* Flush and Shutdown: what was buffered is on disk afterwards, and the calls return;
* TOC: an entry names the place of its value; no TOC loses entries it had;
* recovery: what was flushed is found again; deletions and removals stay in force;
* compaction: removing a file loses no live value, whatever is written meanwhile;
* tombstone discard: nothing is removed that has been written again;
* replication: a node gives up a value only when the others hold it;
* background tasks: they stop when told to and nobody waits for a stopped one;
* configuration: the derived sizes satisfy what the other parts rely on.

## Plan and state of the work

In the order in which it was done, most important behaviour first.

1. `LocMap`, `WritePath`, `ValueStoreAPI`: the path of a write with reads, flush, shutdown
   and the discard of local removals; the refinement of the API; proofs of the type
   invariant, of location integrity and of read integrity.
2. `WriteSwitch`: users, watcher, Startup and Shutdown switch writes; proofs that memWriters
   agree and that the user's choice stands.
3. `Audit`: a background task's launcher with notifications, AuditPass, and a failing audit
   that shuts the store down.
4. `Replication`: push and pull replication, bulk set, acknowledgement and tombstone discard
   between nodes over a changing ring, with lost, late and reordered messages.
5. `Messaging`: the pools, workers, passes and launchers below it, Startup and Shutdown.
6. `Compaction`: compaction beside writes and flushes, Shutdown, crash, and recovery.
7. `KeyRanges`, `TOCFile`, `BloomFilter`, `Config`, checked together in `Algorithms`: the
   pure computations that the others rest on.

Abstract specification: `ValueStoreAPI` for the write path. What replication and recovery
promise is stated as properties (`NothingLost`, `Replicated`, `HandedOff`;
`RecoveryFindsNewest`, `FlushedValuesStay`).

Proved: every safety invariant and safety property of the runs, and the refinement of
`ValueStoreAPI`; what `FlushWritesToDiskOrNewer` and `ShutdownWritesToDisk` assume is said under
*Proofs*.  Model-checked only: liveness.

## Modules

### LocMap

Timestamp bits (`package.go`) and the location map as this code uses it: `Set` keeps
the newest timestamp, replaces an equal one only with `evenIfSame`, and takes the key
out for block id 0.  A `timestampbits` is a number, 256 times the microseconds plus the
utility bits, so comparisons are those of the code.

### WritePath

One variable per field or channel the code has, one action per step between two points
at which a goroutine can block or be observed:

| goroutine or call | actions |
|---|---|
| memWriter | `MemReceive` (write request arrives), `MemSwitch` (enable/disable), `MemReject`, `MemRotate` (page to the fileWriter), `MemTake` (page from the pool), `MemStore` (copy, Set, answer), `MemMark` |
| fileWriter | `FileReceive`, `FileClosed`, `FileCreate`, `FileWrite`, `FileMark` |
| store file buffers | `BufferWritten`; within `FileWrite`: `Attach` or `ReleaseNow` |
| memClearer | `ClearReceive`, `ClearSendTOC`, `ClearEntry`, `ClearSendFull`, `ClearFree`, `ClearMark` |
| tocWriter | `TOCBlockWritten`, `TOCMark`, `TOCFlushed` |
| Flush | `FlushCall`, `FlushSend` (per worker), `FlushReturn` |
| Shutdown | `ShutdownCall`, `ShutdownSend` (disable and shutdown per worker), `ShutdownReturn` |
| Read | `ReadGet`, `ReadMemBlock` (under the discardLock), `ReadFile`, `ReadReturn` |
| tombstone discard | `DiscardLocalRemoval` |

A value is its key and timestamp; offsets and capacities count entries.  The buffers of
a store file are the queue `unwritten` of the blocks in it, in order, with `sealed` many
of them handed to the disk writer: a full page is longer than a checksum interval, so
copying it pushes out every earlier buffer (`Seals`); a shorter page may leave its
predecessors in the current buffer.

Simplifications, all of them deliberate:

* a request in the memWriter's hand stands for the one-slot channel before it too;
* `MemSwitch` toggles one memWriter at a time, a superset of what enable and disable
  calls do;
* the pool of TOC blocks (two per worker) cannot run out, since a memClearer
  holds at most one and the queue at most one per worker; it is left out;
* Flush is not called once Shutdown has begun, nor Shutdown during a Flush: after
  its mark a memWriter has returned and a Flush would wait forever, a misuse that
  nothing in the code prevents and nothing documents as allowed;
* errors of file creation and of the disk are not modelled, except that reading bytes
  still in the buffers fails.

### ValueStoreAPI

The abstract specification of the path: a worker serves one request at a time, applies it
in one step or refuses it, and the timestamp Lookup reports is the newest applied one.
`WritePath!ImplementsAPI` is the refinement; it is checked without local removals, which
take keys out of the location map and may bring an older value back.

### WritePathProofs, WritePathFlush, AlgorithmsProofs

The proofs; see below, as for `WriteSwitchProofs`, `AuditProofs`, `ReplicationProofs`,
`MessagingProofs` and `CompactionProofs`.

### WriteSwitch, WriteSwitchProofs

`disableEnableWritesLock`, `readOnly`, `userDisabled`, the `enabled` flag of each memWriter
and the channels to them. Each caller (users, the watcher, Startup/Shutdown as `"store"`)
goes through `Lock` (take the lock, set the flags), `Send` (rendezvous with one memWriter)
and `Unlock`. `Startup` makes new channels and memWriters; `Shutdown`, `WatcherStop`,
`StopWriter`, `ShutdownDone` are the phases of Shutdown. A caller remembers which channels
it ranges over, so a call that is overtaken by Shutdown waits for a memWriter that has
returned, as in the code. `WatcherPass` is one pass; `StateAfter` its decision. The four
measurements are abstracted to the sets of conditions whose disable threshold (`short`)
and re-enable threshold (`ample`) they pass. The first pass is a minute after Startup, so
it is taken to follow Startup's own EnableWrites. `choice` serves the
properties only.

### Audit

The audit's launcher (`LauncherTake`, `LauncherPass`, `LauncherEnd`), a pass over the file
names (`PassNext`, `PassTake`, `PassChecked`, `PassCompacted`, and its ends `PassNoNames`,
`PassStopped`, `PassThrough`), AuditPass (`AuditCall`, `AuditLock`, `Notify`, `AuditReturn`),
and Startup and Shutdown as far as they concern the audit. `"restarter"` is the goroutine
that a failed audit starts. The outcome of a check is left open; a check that is to be
canceled runs to the end of its file, because the code compares a counter that it has just
incremented with zero (valueaudit 197). `seen` and `result` serve the properties only. The
launcher of tombstone discard has the same shape.

### Replication

The data of a set of stores while a partition changes hands. A store is the timestampbits it
has per key; a ring version is the set of responsible nodes, and each node learns of a new
version on its own (`NewRing`). `net` is the set of messages under way: any may be lost
(`Lose`) or taken in any order.

| code | actions |
|---|---|
| pushReplicationPass | `PushScan` (gather a batch), `PushSend` (read again, send) |
| inBulkSet | `InBulkSet` (take a message, read the ring), `InBulkSetEntry` (store one entry; with the last one the acknowledgement) |
| inBulkSetAck | `InBulkSetAck`, `InBulkSetAckEntry` (mark as local removal what this node is not responsible for) |
| outPullReplicationPass | `OutPullBegin`, `OutPullRange` (filter and range of one message) |
| inPullReplication | `InPullReplication` (scan against the filter), `InPullSend` |
| tombstone discard, memClearer | `DiscardRemoval`, `ExpireScan`, `ExpireWrite` |

Scan and send are separate steps, so that keys and rings change between them. The loop of
inBulkSet passes over a deletion at the end of a message (`PassedOver`): values are taken to be
non-empty, and an empty one is treated by the code like a deletion there. A filter's false
positive, a failed write and a lost message are faults, bounded by `MaxFaults`. A client
writes only to `ClientNodes` and with the current time.

### Messaging

One store's goroutines below replication: for bulk set, acknowledgement and incoming pulls
the pools (`inFree`, `outFree`), channels, MsgRing handlers (`NewInMsg`, `ReadFails`,
`Queue`), workers and their launcher, which on a notification sends one nil per worker; for
push, outgoing pull and tombstone discard the launcher, its timer and the pass with its
worker. Shutdown stops the parts concurrently and sets channels to nil, and whoever takes from
or sends to a nil channel waits for good. A behaviour has one of `PartSets`; parts that share
no pool do not interact and are looked at alone. `BusySets` are the sets where Shutdown may
come while messages and passes are under way, on only in the configuration that shows what goes
wrong then. `unsent` counts the messages of the pool that an empty answer to a pull
(`AnswerIsEmpty`) has lost. A pass has one
worker; more of them share nothing but the pool.

### Compaction

Files with their TOCs, memory as one buffer (`PageOut`, `Flush` stand for the write path),
and the location map. The launcher and its pass (`CompactionLauncher`, `PassQueue`,
`PassInterrupted`, `PassQueued`, `PassWait`), workers (`CompactionWorker`), and under the
compactionLock a reader of the TOC (`TaskBegin`, `ReadBlock`, `ReadEntry`, `ReadEnd`) that hands
batches to one goroutine per channel. `ReadBlock` takes any number of the next entries, or an error
loses those of a block, or all that are left: `tocErr` is the reader's errors, `anyRead` whether it
has read an entry, and `missed` what it did not see. Errors make needsCompaction true
(`NeedsCompaction`); compactFile keeps a file with errors of which it has read no entry, and removes
one of which it has read some (`Removes`), after which the entries that it missed are `lost`: their
locations lead to a file that is gone. A goroutine of needsCompaction counts (`Sample`); one of compactFile
looks up, reads and rewrites in three steps (`LookUp`, `ReadValue`, `Rewrite`); `Return` gives
the batch back, which a goroutine that skips does not. `RemoveTOC` and `RemoveValues` are the
two steps of the removal. An error of open leaves goroutines behind on the channels, which
take batches of later files: hence slots of goroutines. `Crash` ends the process and may lose
an open TOC; `Startup`, `RecoverFile`, `RecoverEntry`, `RecoveryEnd` and `CompactionStartup`
are the restart. A value carries the timestamp of its first write (`val`), so that a value
under a wrong timestamp shows. Recovery's own reading of a TOC fails by a value file that is gone,
a TOC of which nothing got to the disk, or a missing terminator; errors of the disk there are not
modelled. A TOC, and what is still to be read or replayed, is a set of
places that is gone through in their order (`Oldest`, `FirstRead`). `flushed`, `atRisk`, `older`,
`missed`, `lost`, `Behind` and `Lost` serve the properties only.

### KeyRanges, TOCFile, BloomFilter, Config, Algorithms

Operators, no state: the key range of a worker in a partition and the order of partitions
with words of `Bits` bits that wrap as the code's; the blocks of a TOC, what the batched
reader makes of them with corrupt blocks, TOC statistics, checksum verification and corrupt
ranges; the bloom filter with any hash; and `resolveValueStoreConfig`. A TOC is positions of bytes,
not their contents: an entry, header or terminator is where it begins. The hash, and the number of rounds of
a filter, are constants. `Algorithms` has one variable, an input of one of these, and
its invariants compare each result with what the callers rely on.

## Runs

| run | instance | checks | shows |
|---|---|---|---|
| Locations | 2 workers, 4 pages of one entry, files of 2, 3 writes (puts, deletion, rewrite), 1 flush | `TypeOK`, `LocationHoldsItsValue`, `EveryBlockInOnePlace`, `TOCMatchesFile`, `ImplementsAPI` | pages, files, TOCs and locations agree under every interleaving, with rotation of pages, files and TOCs; the path refines `ValueStoreAPI` |
| Reads | 1 worker, 2 pages, 1 reader, 3 writes, local removals, too long values, the switch | `ReadReturnsItsValue` | a Read that races the recycling of its page returns the right bytes |
| FlushShutdown | 2 workers, pages of 2, 3 writes (a put, and deletions, which are internal writes), 2 flushes in turn, and shutdown at any time | `FlushWritesToDiskOrNewer`, `ShutdownWritesToDisk` | what Flush does ensure; nothing the store knew is lost by Shutdown, with deletions that are stored after DisableWrites and before a memWriter's mark |
| Progress | 1 worker, 2 pages, 3 writes, flush and shutdown | `EveryWriteAnswered`, `EveryFlushReturns`, `ShutdownFinishes` | nothing gets stuck on the bounded pools and channels |
| Switch | 2 workers, 2 users, 3 calls, 2 starts, a memory threshold | `TypeOK`, `WritersAgree`, `UserChoiceStands`, `WritesComeBack` | overlapping calls never split the workers, the watcher never overrides the user and lets go when space is ample |
| AuditPasses | 2 files, 2 callers, 2 calls, 2 starts, failures | `TypeOK`, `AuditPassIsComplete`, `NothingAfterShutdown`, `EveryAuditPassReturns`, `EveryShutdownReturns` | a requested pass is complete; nothing outlives Shutdown; no notification is lost until a file fails |
| Handoff | 2 nodes, a partition that moves, 2 keys, puts and a deletion that expires, messages of 2 entries and acknowledgements of 1, 1 fault | `TypeOK`, `NothingLost` | the newest value or deletion is always on some node |
| Replication | 2 nodes, one gives a partition up, 1 key, 1 fault | `Replicated`, `HandedOff` | the responsible nodes end up with the newest value, the others with none |
| LoneDeletion | the same, a deletion instead of a value, no fault | `DeletionsReplicated` | violated, see findings |
| Messages | 5 sets of parts, 2 workers, 2 messages in and 2 out per pool, 1 empty answer to a pull, 2 arrivals, 2 passes, 2 starts | `TypeOK`, `MsgsAreFreed`, `NothingAfterShutdown`, `ShutdownFinishes`, `EveryPassReturns` | pools shrink by nothing but empty answers to a pull, Shutdown of idle parts and requested passes return |
| Compaction | 2 keys, 2 writes of puts and a removal, 1 pass, 1 worker, 1 batch, 1 restart, 2 faults | `TypeOK`, `CompactionKeepsValues` (`LocationsLead`, `RewritesKeepTimestamps`), `RecoveryFindsNewest`, `FlushedValuesStay`, `ShutdownReturnsUnlessStuck` | compaction loses and mixes up no value that was on disk, but for what `atRisk`, `older`, `lost` and `left` set apart; Shutdown returns unless one of the causes in `Stuck` holds for ever |
| Algorithms | words of few bits, up to 4 workers; TOCs of up to 9 entries at every interval from 31 to 146 bytes with at most one corrupt block; filters of 8 bits; 4320 configurations | `KeyRangesCover`, `IntactTOCReadsBack`, `OneCorruptBlockIsSkipped`, `CorruptValuesAreFound`, `FiltersHoldTheirPass`, `ConfigurationIsUsable` | ranges cover the keys, TOCs read back, filters have no false negatives, configurations are usable |

### Bounds and why they are enough

`MaxWrites`, `MaxFlushes` and `MaxSwitches` bound what callers do; `PageCap`, `FileCap`
and `TOCBlockCap` of one or two entries make every rotation happen with three or four
writes.  Two workers are the least at which marks of different workers, memClearers
serving pages of one file, and keys of different workers interleave; with one worker two
pages already compete for the pool (`PagesPerWorker >= 2` is the configuration's clamp).
Keys `"a"` and `"b"` belong to different workers where there are two.

In `WriteSwitch` two workers are needed to see them differ, and two starts to see a call
overtaken by a restart; in `Audit` two names make an interrupted pass incomplete and two
callers compete for the audit's lock.

In `Handoff` two keys make batches, acknowledgements that are too short for a message and a second
range of a pull; three microseconds suffice for a deletion to expire, and two ring versions for a
change under every job. One fault is enough for each kind of loss, and messages are reordered
freely. `Replication` has one key, because a liveness check of two is beyond TLC here. In
`Messages` two workers make the nils of a launcher countable and two starts show what is left over
from the first. In `Compaction` a batch of one entry, the only one of its channel, makes the reader
wait and makes a dropped batch a dead end, two faults make an error follow another (a TOC read in
part and a value that cannot be read, or one that cannot be opened before), `SmallTotal` and `MaxCheck` of two and one make both ways into compactFile happen; the
constants are as small as their roles allow (3 batches, 1000 and 1000000 entries in the code).
`CompactionTwoWorkers.cfg` checks the same properties with two workers, two channels and two batches
of each, without faults. In `Algorithms` sizes keep the ratios that matter: intervals from less than an entry to
several, with every rest that whole entries leave of an interval, and entries that do and do not
divide the header (value and group store).

`CHECK_DEADLOCK FALSE` stands in the liveness runs of `WritePath` and in the runs of `Audit`,
`Replication`, `Messaging` and `Compaction`, where bounded callers run out of things to do (and a
failed audit really stops for good) and the liveness properties say more than the absence of
deadlock.  The other safety runs of `WritePath` check deadlock: `Idle` is the only self-loop and
requires that every goroutine waits for its own input.  In `WriteSwitch` space may always change.

### Fairness

Weak fairness per goroutine (`Fairness`): the Go scheduler runs every runnable goroutine,
and a goroutine that can proceed on a channel stays able to until it does.  Callers of
Write, Flush, Shutdown and Read are under no fairness to call; once Flush or Shutdown has
been called its own steps are fair.  In `WriteSwitch` and `Audit` taking a mutex is strongly
fair: Go's mutexes hand over to a waiter that has waited long, so a lock that is free again
and again is obtained.  `WatcherStop` is strongly fair because `select` takes a waiting
notification with probability one half even if the timer is due at that very moment.

In `Replication` launchers begin a pass again and again on their timers, the clock goes on and
nodes learn of the last ring; messages are under no fairness beyond the bounded faults, since a
sender repeats what was not acknowledged. In `Messaging` taking a message from a pool that
others use, too, is strongly fair: Go serves the receivers that wait on a channel in turn.
In `Compaction` it is only assumed that some goroutine that can go on without an error does, that
Shutdown flushes and that recovery goes on.

## Findings

1. **A deletion at the end of a bulk-set message** (run `LoneDeletion`): inBulkSet loops while
   `len(body) > _VALUE_BULK_SET_MSG_ENTRY_HEADER_LENGTH` (valuebulkset 229). A deletion has no
   value and is exactly that long, so as the last or only entry it is neither stored nor
   acknowledged, against "Attempt to store everything received..." (valuebulkset 237). A
   deletion that is all two nodes differ in never gets across, by push or by pull.

### Observations

Configurations beside the runs that reproduce what the properties of the runs set apart. Each
ends in a violation (`tlc -config X.cfg M`):

| configuration, module | property | what happens |
|---|---|---|
| FlushThenNewerWrite, MCWritePath | `FlushWritesToDisk` | a newer write during a Flush keeps the older value out of the TOC (valuestore 593) and is itself not on disk when Flush returns (`package.go:262`) |
| ConcurrentFlush, MCWritePath | `FlushWritesToDiskOrNewer` | marks carry no owner: two of one memWriter complete a round (valuestore 721), and one of two callers returns early |
| LateTOCBlock, MCWritePath | `NoLateTOCBlock` | a slow memClearer sends a block for a TOC that has been closed after two newer ones (comment at valuestore 893-896); creating the file again truncates it. The constraint `InOrder` only removes behaviours |
| StartupHangs, MCWriteSwitch | `StartupFinishes` | EnableWrites or DisableWrites that overlaps Shutdown keeps the lock, and the next Startup waits for it |
| AuditFailure, MCAudit | `RestartIsRequested` | a failing file ends the launcher by its own notification; the Shutdown before the restart waits for an answer nobody gives (`README.md:65-67` of the repository) |
| HandoffBack, MCReplication | `NothingLost` | a node that gets a partition back has markers of what it gave up; they win over the same values sent to it, which its acknowledgement removes elsewhere |
| BusyShutdown, MCMessaging | `ShutdownFinishes` | a pass takes a message from a pool that bulkSetShutdown has set to nil |
| MessageLeak, MCMessaging | `OutMsgsAreFreed` | inPullReplication neither sends nor frees a message without entries (valuepullreplication 338) |
| LostDeletion, MCCompaction | `FlushedDeletionsStay` | compactFile reads a current deletion as not found and does not rewrite it (valuecompaction 341), whatever its age; an older value that comes late is then accepted (`README.md:40-42` of the repository) |
| FullPage, MCAlgorithms | `OneFullPageFlushes` | `minValueAlloc` is rounded such that a full TOC page may have less than a checksum interval of values, as with an interval of 262145 bytes and pages of 4 MiB (comment at valueconfig 374-376); two full pages always have it |
| RecoveryPanics, MCCompaction | `NoPanic` | recovery compacts a file with errors before compactionStartup has made the channels (valuestore 1047) |

`ConcurrentFlushProgress.cfg` (MCWritePath) passes: two concurrent callers of Flush both return.
So does `OneWorker.cfg` (MCWritePath): with one worker `NoLateTOCBlock` holds, and so does
`OneByOne`, the invariant of its proof.

Read off the code, without a configuration:

* compactFile writes what it has read with the timestamp of the TOC entry, not with the one that
  was read (valuecompaction 356-360). The two differ when the key has an older value than an
  entry that is still in a TOC: a rewrite that was overtaken by a newer write and its flushed
  local removal, or, after a restart, a TOC that could not be removed while its values were.
  The next pass then gives the older value the newer timestamp. `older` has these keys, and
  `RewritesKeepTimestamps` sets them apart;
* `enableWrites` clears `readOnly` before it looks at `userDisabled` (valuestore 390-391), so
  after DisableWrites and a watcher that disables and re-enables, Stats reports ReadOnly false
  while every write is refused (compare valuestats 151-152);
* the watcher remembers one condition: it enables writes when that one is ample again, in a
  pass that finds another one short, and disables them again at its next pass;
* `package.go:142-145` says a locally removed item stays in memory until its marker is on
  disk; the memClearer takes it out of the location map when the marker has only reached its
  partial TOC block (valuestore 593);
* without a ring, or with one partition, every worker of tombstone discard scans all keys
  (comment at valuetombstonediscard 121-123), and a ring that is nil panics there (127);
* a TOC whose last block ends close to the end of the entries has its terminator cut off, where
  a whole number of entries leaves less than 8 bytes of an interval (65536 bytes and entries of 32,
  for instance): the reader reports an error, and less than 4 bytes make it take the terminator for
  an entry. `IntactTOCReadsBack` states exactly when;
* compactFile removes a file whose TOC it could read in part (valuecompaction 449, which assumes
  that recovery had not read more): the keys of the entries that it missed still lead to it. `lost`
  has these entries;
* two corrupt TOC blocks in a row, or the first one of a group store's TOC, make the reader
  continue in the middle of an entry, and a corrupt block with less than an entry after it may
  make it panic (valuestorefile 415); a value that reaches over a whole corrupt block is not
  found by `valueInCorruptRange`.

## Proofs

Each theorem is of the form `Spec => []P` (or `Spec =>` the refinement) for every value of the
constants that the assumptions of its module admit: any number of keys, workers, nodes, pages,
files, callers, messages and errors.  The inductive invariants stand at the end of the
component's module, so that TLC can check them as it checks the properties; they were checked so
on the runs' instances before they were proved.  A proof module has one lemma per action, or
group of actions, and part of the invariant that it can disturb.

| module | theorem | states |
|---|---|---|
| WritePathProofs | `TypeCorrect` | `TypeOK` of the write path: channels within their capacity, no countdown of marks below zero |
| | `LocationsHold` | `LocationHoldsItsValue` |
| | `ReadsReturn` | `ReadReturnsItsValue` |
| | `BlocksStayInOnePlace` | `EveryBlockInOnePlace` |
| | `TOCsLeadToValues` | `TOCMatchesFile` |
| | `WritePathImplementsAPI` | the refinement of `ValueStoreAPI`, from `OnlyWrites` |
| | `ShutdownIsDurable` | `ShutdownWritesToDisk`, from `[]NoLateTOCBlock` |
| WritePathFlush | `FlushIsDurable` | `FlushWritesToDiskOrNewer`, from `OneFlusher` and `[]NoLateTOCBlock` |
| | `OneWorkerInOrder` | `NoLateTOCBlock`, with one worker |
| | `OneWorkerShutdownIsDurable`, `OneWorkerFlushIsDurable` | both, with one worker, the second from `OneFlusher` |
| WriteSwitchProofs | `SwitchTypes`, `SwitchAgrees`, `UserDecides` | `TypeOK`, `WritersAgree`, `UserChoiceStands` |
| AuditProofs | `AuditTypes`, `AuditPassCompletes`, `ShutdownEndsAudit` | `TypeOK`, `AuditPassIsComplete`, `NothingAfterShutdown` |
| ReplicationProofs | `ReplicationTypes` | `TypeOK` |
| | `HandoffLosesNothing` | `NothingLost`, from `OneReplicaMoves` |
| MessagingProofs | `MessagingTypesHold`, `StoppedPartsAreQuiet`, `PooledMessagesReturn` | `TypeOK`, `NothingAfterShutdown`, `MsgsAreFreed` |
| CompactionProofs | `CompactionTypes`, `CompactionKeepsTheValues`, `RecoveryIsComplete`, `FlushedStays` | `TypeOK`, `CompactionKeepsValues`, `RecoveryFindsNewest`, `FlushedValuesStay` |
| AlgorithmsProofs | `ConfigurationsAreUsable` | `ConfigurationIsUsable` |
| | `PassesCoverTheKeys` | `KeyRangesCover` |
| | `TOCsReadBack`, `CorruptBlocksAreSkipped` | `IntactTOCReadsBack`, `OneCorruptBlockIsSkipped` |
| | `AuditFindsCorruptValues` | `CorruptValuesAreFound` |
| | `FiltersAreTrue` | `FiltersHoldTheirPass` |

### The write path

Assumptions: at least one worker, capacities of at least one entry, every key has a worker,
requests are typed and their timestamps nonzero.

`LocationHoldsItsValue` alone is not inductive: that a page may be emptied depends on where the
page is and on which of its entries the memClearer has moved.  `IInv` adds

* `BeforeFile`, `AfterFile`: a page that is free, being filled or on its way to the
  fileWriter has no file; one that is in a buffer, queued for a memClearer or being cleared
  has one.  Thus no page is on both sides;
* `BeforeFileDistinct`, `AfterFileDistinct`: on each side no page is in two places, so a
  memWriter that appends to its page and a memClearer that empties its page disturb nobody;
* `Content`: a page with a file is in that file at its offset (`BlockInFile`); a location
  refers to its value and, in a page that is being cleared, only to entries still to be
  moved (`LocationOK`), so when the memClearer is through with the page no location
  refers to it; a memClearer waiting to send a full TOC block is at an entry
  (`AtEntry`); a Read that has a file location finds its value there, since files only
  grow (`ReadOK`).

The other results of `WritePathProofs` rest on `IInv`.  That
a page is in exactly one place is the distinctness above and `NoneLost`: no step drops a page.
`TOCEntriesOK` follows an entry from the memClearer's partial block through the channel
into the TOC.

The refinement maps a worker's request and answer to those of `ValueStoreAPI` and the
timestamps of the location map to its store.  All steps between page and file must be stutters
of it; a memClearer that sets a location again is one because no page has a newer timestamp of
a key than the location map (`NoNewerInBlocks`).  That, and the refinement, fails once a key is
taken out of the location map, hence `OnlyWrites`: no Shutdown, and no local removals among the
requests.  The run `Locations` has such constants.  What removals do is covered by the other
theorems, which do not assume it.

### What Shutdown and Flush leave on disk

A mark follows the pages through five queues, and the last one to pass closes the TOCs.  For
Shutdown, `StopInv` says that whoever has passed the mark on has nothing left and takes nothing
more: memWriters (`WritersStop`), the fileWriter and its buffers (`FileWriterStops`), memClearers
(`ClearersStop`), the tocWriter (`TOCWriterStops`); `SyncOK` says that all of a value file is on
disk but for what the open one has in its buffers.  `Tracked` has every location's entry on its
way to a TOC (`OnItsWay`) or in it.  When the last mark has arrived nothing is on its way, so it
is in a TOC, and that is closed.

Flush lets the memWriters take more pages behind the mark.  `FlushAhead` follows one mark of the
caller per worker (`OneMarkEach`) with the fileWriter's and the tocWriter's countdowns
(`FileCountdown`, `TOCCountdown`), and says of every value that was `flushed` that its page, its
entry in a memClearer's hand or its TOC block is ahead of the mark that is to push it out
(`CopyAhead`).  It is enough that the value or a newer one of its key is: the location map keeps
the newest (`NoGhosts`: without removals no key is forgotten).

Three hypotheses, each because the statement is false without it:

* `OneFlusher`, one caller of Flush at a time and no local removals: marks carry no owner
  (`ConcurrentFlush.cfg`), and a memClearer forgets a removed key;
* `[]NoLateTOCBlock`: the comment of tocWriter (valuestore 893-896) takes it for granted, and with
  two workers it fails (`LateTOCBlock.cfg`), as a memClearer may be more than a file behind the
  other.  A theorem `Spec /\ []NoLateTOCBlock => []P` says that this is the only way to lose what
  was flushed;
* or one worker, with which `OneWorkerInOrder` proves `NoLateTOCBlock`, for any capacities, keys
  and callers.  There are then five stages on the way from page to TOC (`Stages`): the open file,
  the memClearer's channel, what it clears, its TOC block and the tocWriter's channel.  `OneByOne`
  says that the items of all stages come in the order of their files (`StagesInOrder`), strictly
  so past a mark, since a mark closes the file, and that everything on its way is younger than the
  TOCs that were closed (`ClosedBefore`).

### The write switch

`SwitchInv` adds to both properties: the lock has exactly the caller that is past `Lock`
(`OneHolder`); during a call the memWriters already told agree with each other and so do the
others (`HalfAgree`); those told do as told, unless a restart has replaced them (`ToldDoSo`,
which needs that a call's channels are never newer than the last start, `Generations`);
and a watcher that must not enable tells nobody (`CallsInOrder`).

### The audit

Any set of files and callers; the names of callers differ from those of the goroutines.
`AuditInv`: at most one caller is past the audit's lock (`LockHeld`), so there is at most one
request, which is in the channel, with the launcher, or taken beside a check (`OneRequest`); a
pass has one owner, and the files it has still to do and has done are all files (`OnePass`);
`running`, `started` and the launcher go together through Startup and Shutdown (`Lifecycle`).  A
request can thus be answered only by the pass that was begun for it.

### Replication

`HandoffLosesNothing` assumes `OneReplicaMoves`: two ring versions, clients that write to
nodes of the first, and either at most one node leaves or none joins.  This is what the code relies
on, not a convenience; without it `NothingLost` is false:

* a third version may give a partition back to a node that has markers of what it gave up
  (`HandoffBack.cfg`);
* a client that writes to a node which joins but has not heard of it has its value pushed back to
  the old ring, whose nodes may have heard, and be removed;
* with two nodes that leave, one may push to a node that joins but lags behind, which pushes
  back to the other one; the acknowledgements of both are true when they are sent and the
  value goes in the end.

`ReplInv` says of every entry in a message, job or acknowledgement that it was `Written`, and of
every acknowledged one that it is `Removable`: if it is the newest, it is on a node that stays,
or on one that joins and knows it (`Safe`).  It restricts who can have data at all (`MayHold`) and who
pushes to whom (`Pushes`): a node that joins gets nothing before all those who leave know
it.  `StoreOK` says what a marker means: on a node that stays, an expired deletion; on one
that joins, that a node that stays has the value.

`ReplicationTypes` needs no ring.  The bound of its `TypeOK`, of the messages of a kind that a node
has under way, counts those of a sender: it waits for a free message before it fills one, the
last one may go to all other nodes at once, and no node sends to itself; so there are never more
than |Nodes| - 2 beyond its pool.  `PoolsAssumption` and `ClockAssumption` are the typing of pools and
clock.

### Messaging

Any `PartSets`, pool sizes, workers, passes and starts.  `MsgsAreFreed` is nearly inductive; it
needs that goroutines end before their channels are set to nil (`GoroutinesOK`), that channels are
there from Startup to the end of the part's Shutdown (`ChannelsOK`), which an OutPullReplicationPass
of a stopped part makes an exception of (`OwnPassOK`), and that only one request for a
pass is under way (`RequestsOK`).

### Compaction and recovery

Any number of keys, workers, batches, files, passes, crashes and errors; writes have timestamps
that are not zero and have no rewrite bit.  `CompactionInv` has, besides types,

* `FilesOK`, `LocationsOK`: a location leads to the last value of its key in memory, or to a TOC
  entry with its key and timestamp;
* `WorkersOK`, `JobsOK`: no file is given out twice, so nobody removes the file that another
  worker reads;
* `SlotsOK`, `PoolOK`: goroutines left behind are no more than errors and one cancellation;
  batches are free, being filled, queued, at work or dropped;
* `EntriesOK`, `ChannelsOK`: what is in the channels comes from TOCs and, if no call has left
  goroutines behind, from the call under way, whose goroutine ends only at its nil, the last of
  its channel;
* `RewritesOK`: the heart of the matter.  As long as no value has failed to be read or written, every readable
  key that still leads to its file has its entry in what is unread, queued or at work, or among
  those that the reader missed.  When the goroutines have ended there is no such key but by an entry
  that was missed, and the file may go (`LocationsKept`); if it goes, these are `lost` (`LostOK`);
* `TimestampsOK`, `FlushedOK`, `RecoveryOK`: values of keys that were never `older` have the
  timestamps they were written with; what is flushed is in a closed TOC that stays, or excused by
  a deletion, a removal, `atRisk` or `lost`; every entry is still to be replayed, queued or not newer than
  the location of its key.

The attempt to prove that rewrites keep timestamps refuted its first form, which TLC's
bounds had not: see the observation on compactFile's timestamps and the variable `older`.

### The algorithms

`Algorithms` has one variable, an input that never changes; an invariant of it is a statement
about all inputs of a kind, which a theorem proves for any set of inputs that the assumptions
admit.  The functions here are recursive.  A recursive function is a `CHOOSE` of one that satisfies
its equation, so first one is shown to exist, then that what satisfies the equation is the closed
form.  Both are inductions; the library's induction theorems take a predicate, which the provers
here cannot instantiate, but induction over the *set* of the numbers for which something holds
(`SetInduction`) follows from the library's well-foundedness of the subset ordering.

* *Configuration.*  Any integers; a checksum interval fits in the 32 bits that a file keeps it in
  (`ConfigAssumption`).  The steps of `Resolve` are taken one by one, each for the group of
  numbers it sets.  The code's sizes are parameters: two values of the maximum length, a header
  and a trailer fit in 32 bits (`SizesAssumption`).  Integers are unbounded, so that nothing
  overflows is not part of it.
* *Key ranges.*  Any number of bits of a key, any ring whose partition bit count is at most that,
  and, where there is more than one partition, no more workers than keys of one
  (`RangeAssumption`).  The arithmetic wraps at 2^Bits; what is needed of powers of two comes from
  the cardinality of power sets.  A worker's pieces are consecutive intervals, the last one up to
  the end of the partition.
* *Pull replication's scans.*  Any range and any place of the answering node among the replicas
  (`PullAssumption`).
* *TOC files.*  Entries of either length, any number of them, any interval, any set of corrupt
  blocks (`TOCAssumption`); the properties' premises are a good header, which has an interval of 32
  bytes at least, and that no block, or one, is corrupt.  The reader goes over *places* (`Pos`),
  those of entries first and filler after, with the trailer at the end; before every block it is at
  one (`AtEntry`): intact blocks add all the places that they complete, a corrupt one moves the
  reader to the first place after it that does not start where it ends (`CorruptBlock`).  What is
  left over at the end decides whether the terminator is found (`TermMissed`), and what follows the
  block whether there is a panic (`PanicsNearEnd`).  Where entries do not divide the header, the
  reader stays off the places of entries after a corrupt first block (`AsideOn`).
* *Corrupt values.*  Files of whole blocks (`ValueFileAssumption`): a value of at most an interval
  and a byte that touches a corrupt block has an end in it.
* *Filters.*  Any hash: `Filled` has the bits of its entries under its salt, whatever was there.

### Only model-checked

* everything under fairness, in all modules: liveness and `ENABLED` are out of the prover's reach;
* `NoLateTOCBlock` with several workers is no theorem but false (see above);
* a configured interval that is longer than the number of entries of a page (one page does not
  flush then, two do), several corrupt TOC blocks, and values that are longer than an interval and a
  byte are outside `FullPagesFlush` for one page, `OneCorruptBlockIsSkipped` and
  `CorruptValuesAreFound`; see *Observations*.  `Seals` of `WritePath` is written for configurations
  in which one page does.

## Not modelled

See `components` in `PROJECT.json` for each part.  Not modelled:

* statistics and logging (no decision depends on them), the generator and its templates, the
  bytes of values, the hash functions, and package `locmap` beyond its contract;
* errors of the disk below a value file or a TOC (`valueStoreFile.writer`, the fatal paths of
  fileWriter and tocWriter): after the first one the store is unusable, and what the code does
  then is to log and to wait;
* LookupGroup and ReadGroup of the group store: a scan of the location map and reads, without
  state of their own.  The group store's other parts are the value store's with longer keys;
  where the length of an entry matters (`TOCFile`, `Config`) both lengths are checked;
* one module with all background tasks at once.  They meet in the location map, the write path
  and Shutdown; each module has its own view of these, and the product is out of TLC's reach;
* compactFile called by the audit, and goroutines of the MsgRing that outlive a Shutdown.
