----------------------------- MODULE WritePath ------------------------------
(***************************************************************************)
(* The write path of a value store (src/valuestore_GEN_.go): write requests *)
(* enter one memWriter per worker, which copies values into memory blocks   *)
(* and points the location map at them; full or flushed blocks go to the    *)
(* fileWriter, which appends them to the current value file; one memClearer *)
(* per worker then points the location map at the file, queues the entries  *)
(* for the table of contents and recycles the block; the tocWriter writes   *)
(* the entries to the two active TOC files.  Every one of these is a        *)
(* goroutine and every queue below a bounded channel.  Flush and Shutdown   *)
(* send a sentinel through the whole path.                                  *)
(*                                                                          *)
(* A value is identified by its key and timestampbits, offsets count        *)
(* entries from 1 (so that 0 stays the offset that a TOC reader ignores),   *)
(* and the sizes of pages, files and TOC blocks count entries.              *)
(***************************************************************************)
EXTENDS LocMap, Sequences, FiniteSets

CONSTANTS
  Keys,
  NumWorkers,       \* cfg.Workers: memWriters, and as many memClearers
  WorkerOf,         \* the memWriter that serves a key: (keyA >> 1) % workers
  PagesPerWorker,   \* cfg.WritePagesPerWorker
  PageCap,          \* entries that fit a memory block (cfg.PageSize)
  FileCap,          \* entries that fit a value file (cfg.FileCap)
  TOCBlockCap,      \* entries that fit a TOC block (cfg.PageSize)
  Requests,         \* the write requests that may arrive
  Flushers,         \* callers of Flush: users and the flusher
  Readers,          \* callers of Read
  CanShutdown,      \* whether Shutdown is called
  MaxWrites, MaxFlushes, MaxSwitches   \* bounds on what the callers do

Workers   == 1..NumWorkers
NumBlocks == NumWorkers * PagesPerWorker
Blocks    == 1..NumBlocks

\* Memory blocks take the first location block ids; the n-th file comes after.
FileID(n) == NumBlocks + n

\* Sentinels: flushValueMemBlock, shutdownValueMemBlock and their TOC twins.
FlushMark    == -1
ShutdownMark == -2
Marks        == {FlushMark, ShutdownMark}

Request == [op : {"write"}, key : Keys, ts : Nat, internal : BOOLEAN, long : BOOLEAN]
NoReq       == [op |-> "none"]
FlushReq    == [op |-> "flush"]
ShutdownReq == [op |-> "shutdown"]
StoppedReq  == [op |-> "stopped"]   \* the memWriter has returned

Entry    == [key : Keys, ts : Nat]                  \* a value, in memory or a file
TOCEntry == [key : Keys, ts : Nat, off : Nat]
TOCBlock == [file : Nat \cup Marks, entries : Seq(TOCEntry)]
NoTB     == [file |-> 0, entries |-> <<>>]          \* tb == nil
MarkTB(m) == [file |-> m, entries |-> <<>>]

\* Faulty variant: one mark too many is awaited.
OneTooMany == NumWorkers + 1

\* The marks that make up a flush round, and a shutdown round, at the fileWriter
\* (one per memWriter) and at the tocWriter (one per memClearer).
FlushParties    == NumWorkers
ShutdownParties == NumWorkers

ASSUME WorkersAssumption == NumWorkers \in Nat \ {0}
ASSUME PagesAssumption   == PagesPerWorker \in Nat /\ PagesPerWorker >= 2
ASSUME CapsAssumption    == /\ PageCap \in Nat \ {0}
                            /\ FileCap \in Nat \ {0}
                            /\ TOCBlockCap \in Nat \ {0}
ASSUME WorkerOfAssumption == WorkerOf \in [Keys -> Workers]
ASSUME RequestsAssumption == /\ Requests \subseteq Request
                             /\ \A r \in Requests : r.ts >= TSB_UTIL
ASSUME BoundsAssumption == /\ {MaxWrites, MaxFlushes, MaxSwitches} \subseteq Nat
                           /\ CanShutdown \in BOOLEAN

VARIABLES
  locmap,                 \* the location map
  mem,                    \* block -> its entries (toc and values)
  blockFile, blockOffset, \* block -> file and offset it was written at
  freeMemBlockChan,       \* blocks ready for a memWriter
  enabled, req, memBlock, \* per memWriter: its switch, request and block
  fileMemBlockChan,       \* blocks and marks for the fileWriter
  files,                  \* every value file, with its TOC file
  fl,                     \* the fileWriter's open file, 0 if none
  inHand,                 \* what the fileWriter has received, 0 if nothing
  memWritersFlushLeft, memWritersShutdownLeft,
  markNext,               \* how many memClearers have got the mark in hand
  unwritten, sealed,      \* file buffers: blocks not yet on disk
  freeableIndex,          \* the memClearer that gets the next block
  freeableMemBlockChans,  \* blocks and marks per memClearer
  clearing, clearPos,     \* per memClearer: block or mark, next entry
  tb, tbFull,             \* per memClearer: partial TOC block; waiting to send it
  pendingTOCBlockChan,
  activeTOCA, activeTOCB, \* the files whose TOC is open
  memClearersFlushLeft, memClearersShutdownLeft,
  flushedChan, shutdownChan,
  flushPC, flushSees,     \* per Flush caller: progress, timestamps at the call
  flushed,                \* key -> newest timestamp a finished Flush covered
  shutdownPC,             \* progress of Shutdown
  read,                   \* per Read caller
  writes, flushes, switches   \* what the callers have done, for the bounds

memVars     == <<mem, freeMemBlockChan>>
writerVars  == <<enabled, req, memBlock>>
fileVars    == <<files, fl, inHand, memWritersFlushLeft, memWritersShutdownLeft,
                 markNext, unwritten, sealed, freeableIndex, blockFile, blockOffset>>
clearerVars == <<clearing, clearPos, tb, tbFull>>
tocVars     == <<activeTOCA, activeTOCB, memClearersFlushLeft,
                 memClearersShutdownLeft, flushedChan, shutdownChan>>
callerVars  == <<flushPC, flushSees, flushed, shutdownPC, read, writes, flushes, switches>>
vars == <<locmap, memVars, writerVars, fileMemBlockChan, fileVars,
          freeableMemBlockChans, clearerVars, pendingTOCBlockChan, tocVars, callerVars>>

Init ==
  /\ locmap = [k \in Keys |-> Missing]
  /\ mem = [b \in Blocks |-> <<>>]
  /\ blockFile = [b \in Blocks |-> 0]
  /\ blockOffset = [b \in Blocks |-> 0]
  /\ freeMemBlockChan = [i \in Blocks |-> i]
  /\ enabled = [w \in Workers |-> TRUE]
  /\ req = [w \in Workers |-> NoReq]
  /\ memBlock = [w \in Workers |-> 0]
  /\ fileMemBlockChan = <<>>
  /\ files = <<>>
  /\ fl = 0
  /\ inHand = 0
  /\ memWritersFlushLeft = FlushParties
  /\ memWritersShutdownLeft = ShutdownParties
  /\ markNext = 0
  /\ unwritten = <<>>
  /\ sealed = 0
  /\ freeableIndex = 1
  /\ freeableMemBlockChans = [c \in Workers |-> <<>>]
  /\ clearing = [c \in Workers |-> 0]
  /\ clearPos = [c \in Workers |-> 1]
  /\ tb = [c \in Workers |-> NoTB]
  /\ tbFull = [c \in Workers |-> FALSE]
  /\ pendingTOCBlockChan = <<>>
  /\ activeTOCA = 0
  /\ activeTOCB = 0
  /\ memClearersFlushLeft = FlushParties
  /\ memClearersShutdownLeft = ShutdownParties
  /\ flushedChan = 0
  /\ shutdownChan = 0
  /\ flushPC = [p \in Flushers |-> 0]
  /\ flushSees = [p \in Flushers |-> [k \in Keys |-> 0]]
  /\ flushed = [k \in Keys |-> 0]
  /\ shutdownPC = 0
  /\ read = [r \in Readers |-> [pc |-> "idle"]]
  /\ writes = 0
  /\ flushes = 0
  /\ switches = 0
-----------------------------------------------------------------------------
(* memWriter *)

\* A write reaches its memWriter.  A compaction rewrite repeats an entry that
\* the TOC of some file holds.
MemReceive(w, r) ==
  /\ req[w] = NoReq
  /\ WorkerOf[r.key] = w
  /\ writes < MaxWrites
  /\ HasBit(r.ts, TSB_COMPACTION_REWRITE) =>
       \E n \in DOMAIN files : \E i \in DOMAIN files[n].toc :
         files[n].toc[i].key = r.key /\ files[n].toc[i].ts = NoRewrite(r.ts)
  /\ req' = [req EXCEPT ![w] = r]
  /\ writes' = writes + 1
  /\ UNCHANGED <<locmap, memVars, enabled, memBlock, fileMemBlockChan, fileVars,
                 freeableMemBlockChans, clearerVars, pendingTOCBlockChan, tocVars,
                 flushPC, flushSees, flushed, shutdownPC, read, flushes, switches>>

\* enableWrites or disableWrites reaches the memWriter.
MemSwitch(w) ==
  /\ req[w] = NoReq
  /\ switches < MaxSwitches
  /\ enabled' = [enabled EXCEPT ![w] = ~enabled[w]]
  /\ switches' = switches + 1
  /\ UNCHANGED <<locmap, memVars, req, memBlock, fileMemBlockChan, fileVars,
                 freeableMemBlockChans, clearerVars, pendingTOCBlockChan, tocVars,
                 flushPC, flushSees, flushed, shutdownPC, read, writes, flushes>>

Rejected(w) == (~enabled[w] /\ ~req[w].internal) \/ req[w].long

\* errDisabled or a value that is longer than valueCap.
MemReject(w) ==
  /\ req[w].op = "write"
  /\ Rejected(w)
  /\ req' = [req EXCEPT ![w] = NoReq]
  /\ UNCHANGED <<locmap, memVars, enabled, memBlock, fileMemBlockChan, fileVars,
                 freeableMemBlockChans, clearerVars, pendingTOCBlockChan, tocVars,
                 callerVars>>

\* Send the block to the fileWriter: it cannot take the value, or a flush or
\* shutdown asks for it.
MemRotate(w) ==
  /\ memBlock[w] # 0
  /\ \/ req[w].op = "write" /\ ~Rejected(w) /\ Len(mem[memBlock[w]]) >= PageCap
     \/ req[w] \in {FlushReq, ShutdownReq} /\ Len(mem[memBlock[w]]) > 0
  /\ Len(fileMemBlockChan) < NumWorkers
  /\ fileMemBlockChan' = Append(fileMemBlockChan, memBlock[w])
  /\ memBlock' = [memBlock EXCEPT ![w] = 0]
  /\ UNCHANGED <<locmap, memVars, enabled, req, fileVars, freeableMemBlockChans,
                 clearerVars, pendingTOCBlockChan, tocVars, callerVars>>

MemTake(w) ==
  /\ req[w].op = "write" /\ ~Rejected(w)
  /\ memBlock[w] = 0
  /\ freeMemBlockChan # <<>>
  /\ memBlock' = [memBlock EXCEPT ![w] = Head(freeMemBlockChan)]
  /\ freeMemBlockChan' = Tail(freeMemBlockChan)
  /\ UNCHANGED <<locmap, mem, enabled, req, fileMemBlockChan, fileVars,
                 freeableMemBlockChans, clearerVars, pendingTOCBlockChan, tocVars,
                 callerVars>>

\* The value is kept in the block: with the rewrite bit, also for an equal
\* timestamp.
KeepsValue(p, ts) == p < ts

\* Copy the value, Set the location and keep the value only if the previous
\* timestamp was older; the request is answered.
MemStore(w) ==
  LET r == req[w]
      b == memBlock[w]
      p == locmap[r.key].ts
  IN /\ r.op = "write" /\ ~Rejected(w)
     /\ b # 0
     /\ Len(mem[b]) < PageCap
     /\ locmap' = Set(locmap, r.key, NoRewrite(r.ts), b, Len(mem[b]) + 1,
                      HasBit(r.ts, TSB_COMPACTION_REWRITE))
     /\ mem' = IF KeepsValue(p, r.ts)
               THEN [mem EXCEPT ![b] = Append(@, [key |-> r.key, ts |-> NoRewrite(r.ts)])]
               ELSE mem
     /\ req' = [req EXCEPT ![w] = NoReq]
     /\ UNCHANGED <<freeMemBlockChan, enabled, memBlock, fileMemBlockChan, fileVars,
                    freeableMemBlockChans, clearerVars, pendingTOCBlockChan, tocVars,
                    callerVars>>

\* Pass the sentinel on after the block.
MemMark(w) ==
  /\ req[w] \in {FlushReq, ShutdownReq}
  /\ memBlock[w] # 0 => mem[memBlock[w]] = <<>>
  /\ Len(fileMemBlockChan) < NumWorkers
  /\ \/ /\ req[w] = FlushReq
        /\ fileMemBlockChan' = Append(fileMemBlockChan, FlushMark)
        /\ req' = [req EXCEPT ![w] = NoReq]
     \/ /\ req[w] = ShutdownReq
        /\ fileMemBlockChan' = Append(fileMemBlockChan, ShutdownMark)
        /\ req' = [req EXCEPT ![w] = StoppedReq]
  /\ UNCHANGED <<locmap, memVars, enabled, memBlock, fileVars, freeableMemBlockChans,
                 clearerVars, pendingTOCBlockChan, tocVars, callerVars>>
-----------------------------------------------------------------------------
(* fileWriter and the buffers of its open file *)

\* Receive a block or a mark; only the last mark of a round is kept in hand.
FileReceive ==
  /\ inHand = 0
  /\ fileMemBlockChan # <<>>
  /\ fileMemBlockChan' = Tail(fileMemBlockChan)
  /\ LET m == Head(fileMemBlockChan) IN
     /\ memWritersFlushLeft' = IF m = FlushMark THEN memWritersFlushLeft - 1
                               ELSE memWritersFlushLeft
     /\ memWritersShutdownLeft' = IF m = ShutdownMark THEN memWritersShutdownLeft - 1
                                  ELSE memWritersShutdownLeft
     /\ inHand' = IF \/ m = FlushMark /\ memWritersFlushLeft > 1
                     \/ m = ShutdownMark /\ memWritersShutdownLeft > 1
                  THEN 0 ELSE m
  /\ UNCHANGED <<locmap, memVars, writerVars, files, fl, markNext, unwritten, sealed,
                 freeableIndex, blockFile, blockOffset, freeableMemBlockChans,
                 clearerVars, pendingTOCBlockChan, tocVars, callerVars>>

\* The open file is to be closed: a flush or shutdown, or no room for the block.
Closing ==
  /\ fl # 0
  /\ \/ inHand \in Marks
     \/ inHand \in Blocks /\ Len(files[fl].data) + Len(mem[inHand]) > FileCap

\* The end of closeWriting: every buffer is on disk and its blocks released.
FileClosed ==
  /\ Closing
  /\ unwritten = <<>>
  /\ fl' = 0
  /\ UNCHANGED <<locmap, memVars, writerVars, fileMemBlockChan, files, inHand,
                 memWritersFlushLeft, memWritersShutdownLeft, markNext, unwritten,
                 sealed, freeableIndex, blockFile, blockOffset, freeableMemBlockChans,
                 clearerVars, pendingTOCBlockChan, tocVars, callerVars>>

FileCreate ==
  /\ fl = 0
  /\ inHand \in Blocks
  /\ files' = Append(files, [data |-> <<>>, synced |-> 0, toc |-> <<>>])
  /\ fl' = Len(files) + 1
  /\ freeableIndex' = 1
  /\ UNCHANGED <<locmap, memVars, writerVars, fileMemBlockChan, inHand,
                 memWritersFlushLeft, memWritersShutdownLeft, markNext, unwritten,
                 sealed, blockFile, blockOffset, freeableMemBlockChans, clearerVars,
                 pendingTOCBlockChan, tocVars, callerVars>>

\* Faulty variant: the index does not wrap around.
NextClearerNoWrap == freeableIndex + 1

NextClearer == IF freeableIndex = NumWorkers THEN 1 ELSE freeableIndex + 1

\* Hand a block to the next memClearer in turn.
Release(b) ==
  /\ Len(freeableMemBlockChans[freeableIndex]) < NumWorkers
  /\ freeableMemBlockChans' = [freeableMemBlockChans EXCEPT ![freeableIndex] = Append(@, b)]
  /\ freeableIndex' = NextClearer

\* Faulty variant: a full page may be shorter than a buffer (no minValueAlloc).
SealsAny(b) == sealed..Len(unwritten)

\* How many buffered blocks are handed to the writer when b is copied.  A full
\* page is longer than a buffer (resolveValueStoreConfig sees to it), so it
\* pushes out the buffers of all the blocks before it; a page that a flush sent
\* early may not.
Seals(b) == IF Len(mem[b]) >= PageCap THEN {Len(unwritten)} ELSE sealed..Len(unwritten)

\* The block waits until the buffer that holds its end is written.
Attach(b, end) ==
  /\ unwritten' = Append(unwritten, [end |-> end, block |-> b])
  /\ sealed' \in Seals(b)
  /\ UNCHANGED <<freeableMemBlockChans, freeableIndex>>

\* Faulty variant: the block is released and still attached.
ReleaseAndAttach(b, end) ==
  /\ unwritten' = Append(unwritten, [end |-> end, block |-> b])
  /\ sealed' = Len(unwritten) + 1
  /\ Release(b)

\* The block's end fills a buffer exactly: it is released at once.
ReleaseNow(b, end) ==
  /\ unwritten' = Append(unwritten, [end |-> end, block |-> 0])
  /\ sealed' = Len(unwritten) + 1
  /\ Release(b)

\* Copy the block into the file's buffers.
FileWrite ==
  /\ fl # 0
  /\ inHand \in Blocks
  /\ ~Closing
  /\ LET end == Len(files[fl].data) + Len(mem[inHand]) IN
     /\ files' = [files EXCEPT ![fl].data = @ \o mem[inHand]]
     /\ Attach(inHand, end) \/ ReleaseNow(inHand, end)
  /\ blockFile' = [blockFile EXCEPT ![inHand] = fl]
  /\ blockOffset' = [blockOffset EXCEPT ![inHand] = Len(files[fl].data)]
  /\ inHand' = 0
  /\ UNCHANGED <<locmap, memVars, writerVars, fileMemBlockChan, fl,
                 memWritersFlushLeft, memWritersShutdownLeft, markNext, clearerVars,
                 pendingTOCBlockChan, tocVars, callerVars>>

\* A buffer reaches the disk: full ones by the file's writer in order, the last
\* one by closeWriting.
BufferWritten ==
  /\ unwritten # <<>>
  /\ sealed > 0 \/ Closing
  /\ files' = [files EXCEPT ![fl].synced = Head(unwritten).end]
  /\ unwritten' = Tail(unwritten)
  /\ sealed' = IF sealed > 0 THEN sealed - 1 ELSE 0
  /\ IF Head(unwritten).block = 0
     THEN UNCHANGED <<freeableMemBlockChans, freeableIndex>>
     ELSE Release(Head(unwritten).block)
  /\ UNCHANGED <<locmap, memVars, writerVars, fileMemBlockChan, fl, inHand,
                 memWritersFlushLeft, memWritersShutdownLeft, markNext, blockFile,
                 blockOffset, clearerVars, pendingTOCBlockChan, tocVars, callerVars>>

\* Send the completed mark to every memClearer: flushes count up, shutdown down.
FileMark ==
  LET c == IF inHand = FlushMark THEN markNext + 1 ELSE NumWorkers - markNext IN
  /\ fl = 0
  /\ inHand \in Marks
  /\ Len(freeableMemBlockChans[c]) < NumWorkers
  /\ freeableMemBlockChans' = [freeableMemBlockChans EXCEPT ![c] = Append(@, inHand)]
  /\ IF markNext + 1 < NumWorkers
     THEN markNext' = markNext + 1 /\ UNCHANGED <<inHand, memWritersFlushLeft>>
     ELSE /\ markNext' = 0
          /\ inHand' = 0
          /\ memWritersFlushLeft' = IF inHand = FlushMark THEN FlushParties
                                    ELSE memWritersFlushLeft
  /\ UNCHANGED <<locmap, memVars, writerVars, fileMemBlockChan, files, fl,
                 memWritersShutdownLeft, unwritten, sealed, freeableIndex, blockFile,
                 blockOffset, clearerVars, pendingTOCBlockChan, tocVars, callerVars>>
-----------------------------------------------------------------------------
(* memClearer *)

ClearReceive(c) ==
  /\ clearing[c] = 0
  /\ freeableMemBlockChans[c] # <<>>
  /\ clearing' = [clearing EXCEPT ![c] = Head(freeableMemBlockChans[c])]
  /\ clearPos' = [clearPos EXCEPT ![c] = 1]
  /\ freeableMemBlockChans' = [freeableMemBlockChans EXCEPT ![c] = Tail(@)]
  /\ UNCHANGED <<locmap, memVars, writerVars, fileMemBlockChan, fileVars, tb, tbFull,
                 pendingTOCBlockChan, tocVars, callerVars>>

\* Faulty variants: a flush, or a shutdown, leaves the partial TOC block behind.
MustSendButFlush(c) ==
  /\ tb[c] # NoTB
  /\ \/ clearing[c] = ShutdownMark
     \/ clearing[c] \in Blocks /\ blockFile[clearing[c]] # tb[c].file
MustSendButShutdown(c) ==
  /\ tb[c] # NoTB
  /\ \/ clearing[c] = FlushMark
     \/ clearing[c] \in Blocks /\ blockFile[clearing[c]] # tb[c].file

\* The partial TOC block must go first: for a mark, or a block of another file.
MustSend(c) ==
  /\ tb[c] # NoTB
  /\ \/ clearing[c] \in Marks
     \/ clearing[c] \in Blocks /\ blockFile[clearing[c]] # tb[c].file

ClearSendTOC(c) ==
  /\ MustSend(c)
  /\ Len(pendingTOCBlockChan) < NumWorkers
  /\ pendingTOCBlockChan' = Append(pendingTOCBlockChan, tb[c])
  /\ tb' = [tb EXCEPT ![c] = NoTB]
  /\ UNCHANGED <<locmap, memVars, writerVars, fileMemBlockChan, fileVars,
                 freeableMemBlockChans, clearing, clearPos, tbFull, tocVars, callerVars>>

\* Faulty variant: forgets where the block starts in the file.
TOCEntryInBlock(c) ==
  LET e == mem[clearing[c]][clearPos[c]]
  IN [key |-> e.key, ts |-> e.ts,
      off |-> IF HasBit(e.ts, TSB_LOCAL_REMOVAL) THEN 0 ELSE clearPos[c]]

\* The TOC entry for the entry that memClearer c is at; a local removal has no
\* location.
TOCEntryAt(c) ==
  LET b == clearing[c]
      e == mem[b][clearPos[c]]
  IN [key |-> e.key, ts |-> e.ts,
      off |-> IF HasBit(e.ts, TSB_LOCAL_REMOVAL) THEN 0 ELSE blockOffset[b] + clearPos[c]]

\* Move the location of the next entry from the block to the file (or remove
\* it), and add it to the TOC block unless a newer one has replaced it.
ClearEntry(c) ==
  LET b == clearing[c]
      e == TOCEntryAt(c)
      superseded == locmap[e.key].ts > e.ts
      full == tb[c] # NoTB /\ Len(tb[c].entries) >= TOCBlockCap
  IN /\ b \in Blocks
     /\ ~MustSend(c)
     /\ ~tbFull[c]
     /\ clearPos[c] <= Len(mem[b])
     /\ locmap' = Set(locmap, e.key, e.ts,
                      IF HasBit(e.ts, TSB_LOCAL_REMOVAL) THEN 0 ELSE FileID(blockFile[b]),
                      e.off, TRUE)
     /\ IF ~superseded /\ full
        THEN tbFull' = [tbFull EXCEPT ![c] = TRUE] /\ UNCHANGED <<tb, clearPos>>
        ELSE /\ clearPos' = [clearPos EXCEPT ![c] = @ + 1]
             /\ tb' = IF superseded THEN tb
                      ELSE [tb EXCEPT ![c] = [file |-> blockFile[b],
                                              entries |-> Append(@.entries, e)]]
             /\ UNCHANGED tbFull
     /\ UNCHANGED <<memVars, writerVars, fileMemBlockChan, fileVars,
                    freeableMemBlockChans, clearing, pendingTOCBlockChan, tocVars,
                    callerVars>>

\* The TOC block was full: send it and start another with the entry.
ClearSendFull(c) ==
  /\ tbFull[c]
  /\ Len(pendingTOCBlockChan) < NumWorkers
  /\ pendingTOCBlockChan' = Append(pendingTOCBlockChan, tb[c])
  /\ tb' = [tb EXCEPT ![c] = [file |-> blockFile[clearing[c]],
                              entries |-> <<TOCEntryAt(c)>>]]
  /\ tbFull' = [tbFull EXCEPT ![c] = FALSE]
  /\ clearPos' = [clearPos EXCEPT ![c] = @ + 1]
  /\ UNCHANGED <<locmap, memVars, writerVars, fileMemBlockChan, fileVars,
                 freeableMemBlockChans, clearing, tocVars, callerVars>>

\* Under the discardLock, empty the block; then return it to the pool.
ClearFree(c) ==
  LET b == clearing[c] IN
  /\ b \in Blocks
  /\ ~MustSend(c)
  /\ clearPos[c] > Len(mem[b])
  /\ mem' = [mem EXCEPT ![b] = <<>>]
  /\ blockFile' = [blockFile EXCEPT ![b] = 0]
  /\ blockOffset' = [blockOffset EXCEPT ![b] = 0]
  /\ freeMemBlockChan' = Append(freeMemBlockChan, b)
  /\ clearing' = [clearing EXCEPT ![c] = 0]
  /\ clearPos' = [clearPos EXCEPT ![c] = 1]
  /\ UNCHANGED <<locmap, writerVars, fileMemBlockChan, files, fl, inHand,
                 memWritersFlushLeft, memWritersShutdownLeft, markNext, unwritten,
                 sealed, freeableIndex, freeableMemBlockChans, tb, tbFull,
                 pendingTOCBlockChan, tocVars, callerVars>>

ClearMark(c) ==
  /\ clearing[c] \in Marks
  /\ ~MustSend(c)
  /\ Len(pendingTOCBlockChan) < NumWorkers
  /\ pendingTOCBlockChan' = Append(pendingTOCBlockChan, MarkTB(clearing[c]))
  /\ clearing' = [clearing EXCEPT ![c] = 0]
  /\ UNCHANGED <<locmap, memVars, writerVars, fileMemBlockChan, fileVars,
                 freeableMemBlockChans, clearPos, tb, tbFull, tocVars, callerVars>>
-----------------------------------------------------------------------------
(* tocWriter *)

\* A block for an open TOC is appended to it.  Any other block closes the older
\* TOC and creates the TOC file of its value file, which truncates it.
TOCBlockWritten ==
  LET t == Head(pendingTOCBlockChan)
      isOpen == t.file \in {activeTOCA, activeTOCB}
  IN /\ pendingTOCBlockChan # <<>>
     /\ memClearersFlushLeft > 0
     /\ t.file \notin Marks
     /\ pendingTOCBlockChan' = Tail(pendingTOCBlockChan)
     /\ files' = [files EXCEPT ![t.file].toc = IF isOpen THEN @ \o t.entries ELSE t.entries]
     /\ IF isOpen THEN UNCHANGED <<activeTOCA, activeTOCB>>
        ELSE activeTOCB' = activeTOCA /\ activeTOCA' = t.file
     /\ UNCHANGED <<locmap, memVars, writerVars, fileMemBlockChan, fl, inHand,
                    memWritersFlushLeft, memWritersShutdownLeft, markNext, unwritten,
                    sealed, freeableIndex, blockFile, blockOffset,
                    freeableMemBlockChans, clearerVars, memClearersFlushLeft,
                    memClearersShutdownLeft, flushedChan, shutdownChan, callerVars>>

\* The last mark of a round closes both TOC files.
TOCMark ==
  LET m == Head(pendingTOCBlockChan).file
      last == \/ m = FlushMark /\ memClearersFlushLeft = 1
              \/ m = ShutdownMark /\ memClearersShutdownLeft = 1
  IN /\ pendingTOCBlockChan # <<>>
     /\ memClearersFlushLeft > 0
     /\ m \in Marks
     /\ pendingTOCBlockChan' = Tail(pendingTOCBlockChan)
     /\ memClearersFlushLeft' = IF m = FlushMark THEN memClearersFlushLeft - 1
                                ELSE memClearersFlushLeft
     /\ memClearersShutdownLeft' = IF m = ShutdownMark THEN memClearersShutdownLeft - 1
                                   ELSE memClearersShutdownLeft
     /\ IF last THEN activeTOCA' = 0 /\ activeTOCB' = 0
        ELSE UNCHANGED <<activeTOCA, activeTOCB>>
     /\ shutdownChan' = IF last /\ m = ShutdownMark THEN 1 ELSE shutdownChan
     /\ UNCHANGED <<locmap, memVars, writerVars, fileMemBlockChan, fileVars,
                    freeableMemBlockChans, clearerVars, flushedChan, callerVars>>

\* Tell one Flush caller; flushedChan holds one message.
TOCFlushed ==
  /\ memClearersFlushLeft = 0
  /\ flushedChan = 0
  /\ flushedChan' = 1
  /\ memClearersFlushLeft' = FlushParties
  /\ UNCHANGED <<locmap, memVars, writerVars, fileMemBlockChan, fileVars,
                 freeableMemBlockChans, clearerVars, pendingTOCBlockChan, activeTOCA,
                 activeTOCB, memClearersShutdownLeft, shutdownChan, callerVars>>
-----------------------------------------------------------------------------
(* Flush, Shutdown, Read and the discard of local removals *)

\* flushPC is 0 outside Flush, the next memWriter to tell, or NumWorkers + 1
\* while waiting for flushedChan.  flushSees is for the properties only.
FlushCall(p) ==
  /\ flushPC[p] = 0
  /\ flushes < MaxFlushes
  /\ shutdownPC = 0
  /\ flushPC' = [flushPC EXCEPT ![p] = 1]
  /\ flushSees' = [flushSees EXCEPT ![p] = [k \in Keys |-> locmap[k].ts]]
  /\ flushes' = flushes + 1
  /\ UNCHANGED <<locmap, memVars, writerVars, fileMemBlockChan, fileVars,
                 freeableMemBlockChans, clearerVars, pendingTOCBlockChan, tocVars,
                 flushed, shutdownPC, read, writes, switches>>

FlushSend(p) ==
  /\ flushPC[p] \in Workers
  /\ req[flushPC[p]] = NoReq
  /\ req' = [req EXCEPT ![flushPC[p]] = FlushReq]
  /\ flushPC' = [flushPC EXCEPT ![p] = @ + 1]
  /\ UNCHANGED <<locmap, memVars, enabled, memBlock, fileMemBlockChan, fileVars,
                 freeableMemBlockChans, clearerVars, pendingTOCBlockChan, tocVars,
                 flushSees, flushed, shutdownPC, read, writes, flushes, switches>>

FlushReturn(p) ==
  /\ flushPC[p] = NumWorkers + 1
  /\ flushedChan = 1
  /\ flushedChan' = 0
  /\ flushPC' = [flushPC EXCEPT ![p] = 0]
  /\ flushed' = [k \in Keys |-> IF flushSees[p][k] > flushed[k] THEN flushSees[p][k]
                                ELSE flushed[k]]
  /\ flushSees' = [flushSees EXCEPT ![p] = [k \in Keys |-> 0]]
  /\ UNCHANGED <<locmap, memVars, writerVars, fileMemBlockChan, fileVars,
                 freeableMemBlockChans, clearerVars, pendingTOCBlockChan, activeTOCA,
                 activeTOCB, memClearersFlushLeft, memClearersShutdownLeft,
                 shutdownChan, shutdownPC, read, writes, flushes, switches>>

\* shutdownPC: 0 while running, then DisableWrites tells memWriters 1..n, the
\* shutdown request follows (n+1..2n), 2n+1 waits for shutdownChan, 2n+2 is down.
\* Shutdown is called when no Flush is under way, and no Flush follows it.
ShutdownCall ==
  /\ shutdownPC = 0
  /\ \A p \in Flushers : flushPC[p] = 0
  /\ CanShutdown
  /\ shutdownPC' = 1
  /\ UNCHANGED <<locmap, memVars, writerVars, fileMemBlockChan, fileVars,
                 freeableMemBlockChans, clearerVars, pendingTOCBlockChan, tocVars,
                 flushPC, flushSees, flushed, read, writes, flushes, switches>>

ShutdownSend ==
  /\ shutdownPC \in 1..(2 * NumWorkers)
  /\ LET w == IF shutdownPC <= NumWorkers THEN shutdownPC ELSE shutdownPC - NumWorkers IN
     /\ req[w] = NoReq
     /\ IF shutdownPC <= NumWorkers
        THEN enabled' = [enabled EXCEPT ![w] = FALSE] /\ UNCHANGED req
        ELSE req' = [req EXCEPT ![w] = ShutdownReq] /\ UNCHANGED enabled
  /\ shutdownPC' = shutdownPC + 1
  /\ UNCHANGED <<locmap, memVars, memBlock, fileMemBlockChan, fileVars,
                 freeableMemBlockChans, clearerVars, pendingTOCBlockChan, tocVars,
                 flushPC, flushSees, flushed, read, writes, flushes, switches>>

ShutdownReturn ==
  /\ shutdownPC = 2 * NumWorkers + 1
  /\ shutdownChan = 1
  /\ shutdownChan' = 0
  /\ shutdownPC' = shutdownPC + 1
  /\ locmap' = [k \in Keys |-> Missing]
  /\ UNCHANGED <<memVars, writerVars, fileMemBlockChan, fileVars,
                 freeableMemBlockChans, clearerVars, pendingTOCBlockChan, activeTOCA,
                 activeTOCB, memClearersFlushLeft, memClearersShutdownLeft, flushedChan,
                 flushPC, flushSees, flushed, read, writes, flushes, switches>>

\* tombstoneDiscardPassLocalRemovals discards the marked locations of a range.
DiscardLocalRemoval(k) ==
  /\ HasBit(locmap[k].ts, TSB_LOCAL_REMOVAL)
  /\ locmap' = [locmap EXCEPT ![k] = Missing]
  /\ UNCHANGED <<memVars, writerVars, fileMemBlockChan, fileVars,
                 freeableMemBlockChans, clearerVars, pendingTOCBlockChan, tocVars,
                 callerVars>>

NoEntry == [key |-> "garbage"]
At(s, off) == IF off \in DOMAIN s THEN s[off] ELSE NoEntry

\* read: the location is fetched first; a key that is not found returns at once.
ReadGet(r, k) ==
  /\ read[r].pc = "idle"
  /\ locmap[k].id # 0
  /\ ~HasBit(locmap[k].ts, TSB_DELETION)
  /\ ~HasBit(locmap[k].ts, TSB_LOCAL_REMOVAL)
  /\ read' = [read EXCEPT ![r] = [pc |-> "located", key |-> k, loc |-> locmap[k]]]
  /\ UNCHANGED <<locmap, memVars, writerVars, fileMemBlockChan, fileVars,
                 freeableMemBlockChans, clearerVars, pendingTOCBlockChan, tocVars,
                 flushPC, flushSees, flushed, shutdownPC, writes, flushes, switches>>

\* Faulty variant: trusts the location fetched before the lock.
StaleLocation(r) == read[r].loc

\* The location as valueMemBlock.read sees it once it holds the discardLock.
LocationNow(r) == locmap[read[r].key]

\* valueMemBlock.read: under the discardLock, fetch the location again; follow
\* it if it has left this block.
ReadMemBlock(r) ==
  LET k == read[r].key
      b == read[r].loc.id
      now == LocationNow(r)
  IN /\ read[r].pc = "located"
     /\ b \in Blocks
     /\ read' = [read EXCEPT ![r] =
          IF now.id = 0 \/ HasBit(now.ts, TSB_DELETION) THEN [pc |-> "idle"]
          ELSE IF now.id # b THEN [pc |-> "located", key |-> k, loc |-> now]
          ELSE [pc |-> "done", key |-> k, ts |-> now.ts, got |-> At(mem[b], now.off)]]
     /\ UNCHANGED <<locmap, memVars, writerVars, fileMemBlockChan, fileVars,
                    freeableMemBlockChans, clearerVars, pendingTOCBlockChan, tocVars,
                    flushPC, flushSees, flushed, shutdownPC, writes, flushes, switches>>

\* valueStoreFile.read: a deletion is not found, and bytes that are still in the
\* file's buffers are an I/O error.
ReadFile(r) ==
  LET loc == read[r].loc
      f == files[loc.id - NumBlocks]
  IN /\ read[r].pc = "located"
     /\ loc.id \notin Blocks
     /\ read' = [read EXCEPT ![r] =
          IF HasBit(loc.ts, TSB_DELETION) \/ loc.off > f.synced THEN [pc |-> "idle"]
          ELSE [pc |-> "done", key |-> read[r].key, ts |-> loc.ts, got |-> At(f.data, loc.off)]]
     /\ UNCHANGED <<locmap, memVars, writerVars, fileMemBlockChan, fileVars,
                    freeableMemBlockChans, clearerVars, pendingTOCBlockChan, tocVars,
                    flushPC, flushSees, flushed, shutdownPC, writes, flushes, switches>>

ReadReturn(r) ==
  /\ read[r].pc = "done"
  /\ read' = [read EXCEPT ![r] = [pc |-> "idle"]]
  /\ UNCHANGED <<locmap, memVars, writerVars, fileMemBlockChan, fileVars,
                 freeableMemBlockChans, clearerVars, pendingTOCBlockChan, tocVars,
                 flushPC, flushSees, flushed, shutdownPC, writes, flushes, switches>>
-----------------------------------------------------------------------------
\* Nobody has anything to do until the next call: every goroutine waits for its
\* channel.
Idle ==
  /\ \A w \in Workers : /\ req[w] \in {NoReq, StoppedReq}
                        /\ clearing[w] = 0
                        /\ freeableMemBlockChans[w] = <<>>
  /\ inHand = 0
  /\ fileMemBlockChan = <<>>
  /\ pendingTOCBlockChan = <<>>
  /\ \A p \in Flushers : flushPC[p] = 0
  /\ shutdownPC \in {0, 2 * NumWorkers + 2}
  /\ UNCHANGED vars

MemWriter(w) == MemReject(w) \/ MemRotate(w) \/ MemTake(w) \/ MemStore(w) \/ MemMark(w)
FileWriter   == FileReceive \/ FileClosed \/ FileCreate \/ FileWrite \/ FileMark
MemClearer(c) == ClearReceive(c) \/ ClearSendTOC(c) \/ ClearEntry(c) \/ ClearSendFull(c)
                 \/ ClearFree(c) \/ ClearMark(c)
TOCWriter    == TOCBlockWritten \/ TOCMark \/ TOCFlushed
FlushStep(p) == FlushSend(p) \/ FlushReturn(p)

Next ==
  \/ \E w \in Workers : \/ \E r \in Requests : MemReceive(w, r)
                        \/ MemSwitch(w)
                        \/ MemWriter(w)
                        \/ MemClearer(w)
  \/ FileWriter
  \/ BufferWritten
  \/ TOCWriter
  \/ \E p \in Flushers : FlushCall(p) \/ FlushStep(p)
  \/ ShutdownCall \/ ShutdownSend \/ ShutdownReturn
  \/ \E k \in Keys : DiscardLocalRemoval(k)
  \/ \E r \in Readers : \/ \E k \in Keys : ReadGet(r, k)
                        \/ ReadMemBlock(r) \/ ReadFile(r) \/ ReadReturn(r)
  \/ Idle

Spec == Init /\ [][Next]_vars

\* Go runs every goroutine that can proceed; nothing makes callers call.
Fairness ==
  /\ \A w \in Workers : WF_vars(MemWriter(w)) /\ WF_vars(MemClearer(w))
  /\ WF_vars(FileWriter)
  /\ WF_vars(BufferWritten)
  /\ WF_vars(TOCWriter)
  /\ \A p \in Flushers : WF_vars(FlushStep(p))
  /\ WF_vars(ShutdownSend) /\ WF_vars(ShutdownReturn)

FairSpec == Spec /\ Fairness
-----------------------------------------------------------------------------
(* Properties *)

ReadState == [pc : {"idle"}]
             \cup [pc : {"located"}, key : Keys, loc : [ts : Nat, id : Nat, off : Nat]]
             \cup [pc : {"done"}, key : Keys, ts : Nat, got : Entry \cup {NoEntry}]
FileRec == [data : Seq(Entry), synced : Nat, toc : Seq(TOCEntry)]

TypeMem ==
  /\ locmap \in Location(Keys, Nat)
  /\ mem \in [Blocks -> Seq(Entry)]
  /\ freeMemBlockChan \in Seq(Blocks)

TypeWriter ==
  /\ enabled \in [Workers -> BOOLEAN]
  /\ req \in [Workers -> Requests \cup {NoReq, FlushReq, ShutdownReq, StoppedReq}]
  /\ memBlock \in [Workers -> Blocks \cup {0}]
  /\ fileMemBlockChan \in Seq(Blocks \cup Marks)
  /\ Len(fileMemBlockChan) <= NumWorkers

TypeFile ==
  /\ files \in Seq(FileRec)
  /\ fl \in 0..Len(files)
  /\ inHand \in Blocks \cup Marks \cup {0}
  /\ memWritersFlushLeft \in 0..NumWorkers
  /\ memWritersFlushLeft = 0 <=> inHand = FlushMark
  /\ memWritersShutdownLeft \in Int
  /\ markNext \in 0..(NumWorkers - 1)
  /\ blockFile \in [Blocks -> Nat]
  /\ blockOffset \in [Blocks -> Nat]

Buffered == [end : Nat, block : Blocks \cup {0}]

TypeBuffer ==
  /\ unwritten \in Seq(Buffered)
  /\ sealed \in 0..Len(unwritten)
  /\ freeableIndex \in Workers
  /\ freeableMemBlockChans \in [Workers -> Seq(Blocks \cup Marks)]
  /\ \A c \in Workers : Len(freeableMemBlockChans[c]) <= NumWorkers

TypeClearer ==
  /\ clearing \in [Workers -> Blocks \cup Marks \cup {0}]
  /\ clearPos \in [Workers -> Nat \ {0}]
  /\ tb \in [Workers -> TOCBlock]
  /\ tbFull \in [Workers -> BOOLEAN]
  /\ pendingTOCBlockChan \in Seq(TOCBlock)
  /\ Len(pendingTOCBlockChan) <= NumWorkers

TypeTOC ==
  /\ activeTOCA \in Nat
  /\ activeTOCB \in Nat
  /\ memClearersFlushLeft \in 0..NumWorkers
  /\ memClearersShutdownLeft \in Int
  /\ flushedChan \in 0..1
  /\ shutdownChan \in 0..1

TypeCaller ==
  /\ flushPC \in [Flushers -> 0..(NumWorkers + 1)]
  /\ flushSees \in [Flushers -> [Keys -> Nat]]
  /\ flushed \in [Keys -> Nat]
  /\ shutdownPC \in 0..(2 * NumWorkers + 2)
  /\ read \in [Readers -> ReadState]
  /\ writes \in Nat
  /\ flushes \in Nat
  /\ switches \in Nat

\* Every variable has the type its declaration says; in particular no channel
\* exceeds its capacity, no countdown of flush marks goes below zero, and the
\* fileWriter's is zero exactly while it passes a flush on.
TypeOK == /\ TypeMem /\ TypeWriter /\ TypeFile /\ TypeBuffer /\ TypeClearer
          /\ TypeTOC /\ TypeCaller

\* The entry that a location refers to.
Referred(loc) == IF loc.id \in Blocks THEN At(mem[loc.id], loc.off)
                 ELSE At(files[loc.id - NumBlocks].data, loc.off)

\* Whatever the memWriters, the fileWriter and the memClearers are doing, the
\* location of a key refers to the value of that key with that timestamp: a
\* block is not emptied and reused while a location refers to it, and a file
\* location is where the fileWriter put the block.
LocationHoldsItsValue ==
  \A k \in Keys : locmap[k].id # 0 =>
    Referred(locmap[k]) = [key |-> k, ts |-> locmap[k].ts]

\* A Read that races a memClearer never returns the bytes of another key or of
\* another timestamp than the one it reports (valueMemBlock.read fetches the
\* location again under the discardLock).
ReadReturnsItsValue ==
  \A r \in Readers : read[r].pc = "done" =>
    read[r].got = [key |-> read[r].key, ts |-> read[r].ts]

\* The places a memory block is in.
Where(b, s) == {i \in DOMAIN s : s[i] = b}
Places(b) ==
  {"free"} \X Where(b, freeMemBlockChan)
  \cup {"memWriter"} \X Where(b, memBlock)
  \cup {"queued"} \X Where(b, fileMemBlockChan)
  \cup {"inHand"} \X {i \in {0} : inHand = b}
  \cup {"buffered"} \X {i \in DOMAIN unwritten : unwritten[i].block = b}
  \cup (UNION {{"released"} \X ({c} \X Where(b, freeableMemBlockChans[c])) : c \in Workers})
  \cup {"clearing"} \X Where(b, clearing)

\* Every memory block is in one place of the cycle from freeMemBlockChan through
\* a memWriter, the fileWriter, the file's buffers and a memClearer back to
\* freeMemBlockChan: none is lost, which would shrink the pool, or in two places.
EveryBlockInOnePlace == \A b \in Blocks : Cardinality(Places(b)) = 1

\* Every TOC entry that names an offset names the place of its value in the
\* value file of the same name, so recovery reads what was written.
TOCMatchesFile ==
  \A n \in DOMAIN files : \A i \in DOMAIN files[n].toc :
    LET e == files[n].toc[i] IN
    e.off # 0 => At(files[n].data, e.off) = [key |-> e.key, ts |-> e.ts]

\* What a restart would find of a key: the newest entry of a closed TOC whose
\* value is on disk (recovery ignores entries of offset 0).
Recoverable(k, ts) ==
  \E n \in DOMAIN files : \E i \in DOMAIN files[n].toc :
    LET e == files[n].toc[i] IN
    /\ n \notin {activeTOCA, activeTOCB}
    /\ e.key = k /\ e.ts >= ts /\ e.off # 0 /\ e.off <= files[n].synced

\* Flush: what was buffered when Flush was called is on disk once it returns.
FlushWritesToDisk ==
  \A k \in Keys : flushed[k] > 0 => Recoverable(k, flushed[k])

\* What Flush does ensure: the same, unless a newer write of the key came in
\* after the call.
FlushWritesToDiskOrNewer ==
  \A k \in Keys : flushed[k] > 0 =>
    Recoverable(k, flushed[k]) \/ locmap[k].ts > flushed[k]

\* Shutdown: when shutdownChan is signalled, everything the location map still
\* knows is on disk, with the internal writes (a client's Delete among them) that
\* DisableWrites does not stop and that came in before the memWriter's last mark.
ShutdownWritesToDisk ==
  shutdownChan = 1 =>
    \A k \in Keys : locmap[k].id # 0 => Recoverable(k, locmap[k].ts)

\* The tocWriter's assumption: no TOC block arrives for a TOC file that has been
\* closed (its file would be created again, and so truncated).
NoLateTOCBlock ==
  \A i \in DOMAIN pendingTOCBlockChan :
    LET n == pendingTOCBlockChan[i].file IN
    n \notin Marks /\ files[n].toc # <<>> => n \in {activeTOCA, activeTOCB}

\* What the callers of the store see: the timestamp that Lookup reports per key,
\* and the request that each memWriter is serving.
API == INSTANCE ValueStoreAPI WITH
         current <- [k \in Keys |-> locmap[k].ts],
         serving <- [w \in Workers |-> IF req[w].op = "write" THEN req[w] ELSE NoReq]

\* Moving blocks to files, clearing and recycling them and writing the TOC is
\* invisible: only a memWriter that applies a request changes what Lookup
\* reports (without local removals, which take keys out of the map).
ImplementsAPI == API!Spec

\* Every request a memWriter has received is answered, whatever the pool of
\* blocks and the channels hold.
EveryWriteAnswered == \A w \in Workers : req[w].op = "write" ~> req[w].op # "write"

\* Every Flush returns.
EveryFlushReturns == \A p \in Flushers : flushPC[p] # 0 ~> flushPC[p] = 0

\* Every Shutdown finishes.
ShutdownFinishes == shutdownPC # 0 ~> shutdownPC = 2 * NumWorkers + 2
-----------------------------------------------------------------------------
(* The inductive invariant of the proofs *)

\* Blocks before they are written to a file: free, filled by a memWriter, queued
\* for the fileWriter or in its hand.
BeforeFile ==
  /\ \A i \in DOMAIN freeMemBlockChan : /\ blockFile[freeMemBlockChan[i]] = 0
                                        /\ mem[freeMemBlockChan[i]] = <<>>
  /\ \A w \in Workers : memBlock[w] # 0 => blockFile[memBlock[w]] = 0
  /\ \A i \in DOMAIN fileMemBlockChan : fileMemBlockChan[i] \in Blocks =>
       /\ blockFile[fileMemBlockChan[i]] = 0
       /\ mem[fileMemBlockChan[i]] # <<>>
  /\ inHand \in Blocks => blockFile[inHand] = 0 /\ mem[inHand] # <<>>

\* None of them is in two places.
BeforeFileDistinct ==
  /\ \A i, j \in DOMAIN freeMemBlockChan : freeMemBlockChan[i] = freeMemBlockChan[j] => i = j
  /\ \A v, w \in Workers : memBlock[v] = memBlock[w] /\ memBlock[v] # 0 => v = w
  /\ \A i, j \in DOMAIN fileMemBlockChan :
       fileMemBlockChan[i] = fileMemBlockChan[j] /\ fileMemBlockChan[i] \in Blocks => i = j
  /\ \A w \in Workers, i \in DOMAIN freeMemBlockChan : memBlock[w] # freeMemBlockChan[i]
  /\ \A w \in Workers, i \in DOMAIN fileMemBlockChan : memBlock[w] # fileMemBlockChan[i]
  /\ \A w \in Workers : memBlock[w] # 0 => memBlock[w] # inHand
  /\ \A i \in DOMAIN fileMemBlockChan : inHand \in Blocks => fileMemBlockChan[i] # inHand

\* Blocks after they are written: attached to a buffer, queued for a memClearer
\* or being cleared.
AfterFile ==
  /\ \A i \in DOMAIN unwritten : unwritten[i].block # 0 => blockFile[unwritten[i].block] # 0
  /\ \A c \in Workers : \A i \in DOMAIN freeableMemBlockChans[c] :
       freeableMemBlockChans[c][i] \in Blocks => blockFile[freeableMemBlockChans[c][i]] # 0
  /\ \A c \in Workers : clearing[c] \in Blocks => blockFile[clearing[c]] # 0

\* None of them is in two places.
AfterFileDistinct ==
  /\ \A i, j \in DOMAIN unwritten :
       unwritten[i].block = unwritten[j].block /\ unwritten[i].block # 0 => i = j
  /\ \A c, d \in Workers : \A i \in DOMAIN freeableMemBlockChans[c],
                              j \in DOMAIN freeableMemBlockChans[d] :
       freeableMemBlockChans[c][i] = freeableMemBlockChans[d][j]
       /\ freeableMemBlockChans[c][i] \in Blocks => c = d /\ i = j
  /\ \A c, d \in Workers : clearing[c] = clearing[d] /\ clearing[c] \in Blocks => c = d
  /\ \A i \in DOMAIN unwritten, c \in Workers : unwritten[i].block # 0 =>
       /\ unwritten[i].block # clearing[c]
       /\ \A j \in DOMAIN freeableMemBlockChans[c] :
            unwritten[i].block # freeableMemBlockChans[c][j]
  /\ \A c, d \in Workers : \A i \in DOMAIN freeableMemBlockChans[c] :
       clearing[d] \in Blocks => freeableMemBlockChans[c][i] # clearing[d]

\* n is a file and its data has the entry at the offset.
FileHas(n, off, e) ==
  /\ n \in DOMAIN files
  /\ off \in DOMAIN files[n].data
  /\ files[n].data[off] = e

\* A written block is in its file at its offset.
BlockInFile ==
  \A b \in Blocks : blockFile[b] # 0 =>
    \A i \in DOMAIN mem[b] : FileHas(blockFile[b], blockOffset[b] + i, mem[b][i])

\* The location of a key refers to its value, and if the block is being cleared,
\* to an entry that is still to be moved.
LocationOK(k) ==
  LET loc == locmap[k] IN
  /\ loc.id \in Blocks =>
       /\ loc.off \in DOMAIN mem[loc.id]
       /\ mem[loc.id][loc.off] = [key |-> k, ts |-> loc.ts]
       /\ \A c \in Workers : clearing[c] = loc.id =>
            /\ loc.off >= clearPos[c]
            /\ tbFull[c] => loc.off # clearPos[c]
  /\ loc.id \notin Blocks /\ loc.id # 0 =>
       FileHas(loc.id - NumBlocks, loc.off, [key |-> k, ts |-> loc.ts])

\* A memClearer that waits to send a full TOC block is at an entry.
AtEntry ==
  \A c \in Workers : tbFull[c] => /\ clearing[c] \in Blocks
                                  /\ clearPos[c] \in DOMAIN mem[clearing[c]]

\* A Read that has located its value in a file finds it there; a finished Read
\* has it.
ReadOK(r) ==
  /\ read[r].pc = "located" /\ read[r].loc.id \notin Blocks =>
       FileHas(read[r].loc.id - NumBlocks, read[r].loc.off,
               [key |-> read[r].key, ts |-> read[r].loc.ts])
  /\ read[r].pc = "done" => read[r].got = [key |-> read[r].key, ts |-> read[r].ts]

\* What the blocks, the locations, the memClearers and the Reads refer to.
Content ==
  /\ BlockInFile
  /\ \A k \in Keys : LocationOK(k)
  /\ AtEntry
  /\ \A r \in Readers : ReadOK(r)

IInv ==
  /\ TypeOK
  /\ BeforeFile
  /\ BeforeFileDistinct
  /\ AfterFile
  /\ AfterFileDistinct
  /\ Content

\* No block is lost on the way.
Released(b) == \E c \in Workers : \E i \in DOMAIN freeableMemBlockChans[c] :
                 freeableMemBlockChans[c][i] = b
Somewhere(b) ==
  \/ \E i \in DOMAIN freeMemBlockChan : freeMemBlockChan[i] = b
  \/ \E w \in Workers : memBlock[w] = b
  \/ \E i \in DOMAIN fileMemBlockChan : fileMemBlockChan[i] = b
  \/ inHand = b
  \/ \E i \in DOMAIN unwritten : unwritten[i].block = b
  \/ Released(b)
  \/ \E c \in Workers : clearing[c] = b
NoneLost == \A b \in Blocks : Somewhere(b)

\* A TOC entry with an offset names a value of the file, in a TOC, in a TOC block
\* on its way there, and in the one that a memClearer fills.
EntryInFile(n, e) == e.off # 0 => FileHas(n, e.off, [key |-> e.key, ts |-> e.ts])
BlockOfFile(t)    == \A i \in DOMAIN t.entries : EntryInFile(t.file, t.entries[i])
TOCEntriesOK ==
  /\ \A n \in DOMAIN files : \A i \in DOMAIN files[n].toc : EntryInFile(n, files[n].toc[i])
  /\ \A c \in Workers : BlockOfFile(tb[c])
  /\ \A j \in DOMAIN pendingTOCBlockChan : BlockOfFile(pendingTOCBlockChan[j])

\* The setting of ImplementsAPI: local removals and Shutdown take keys out of the
\* location map, which the callers of ValueStoreAPI never see.
OnlyWrites ==
  /\ CanShutdown = FALSE
  /\ \A r \in Requests : ~HasBit(r.ts, TSB_LOCAL_REMOVAL)

\* There, no timestamp in a block is newer than the location map's, so that
\* clearing the block changes no timestamp there.
NoNewerInBlocks ==
  /\ shutdownPC = 0
  /\ \A k \in Keys : ~HasBit(locmap[k].ts, TSB_LOCAL_REMOVAL)
  /\ \A b \in Blocks : \A i \in DOMAIN mem[b] :
       /\ ~HasBit(mem[b][i].ts, TSB_LOCAL_REMOVAL)
       /\ mem[b][i].ts <= locmap[mem[b][i].key].ts
-----------------------------------------------------------------------------
(* The invariant of durability: where the marks of Shutdown and Flush are, and *)
(* what is ahead of them.                                                      *)

\* All that a file has is on disk, but for what the open file has in buffers.
SyncOK ==
  /\ \A n \in DOMAIN files : n # fl => files[n].synced = Len(files[n].data)
  /\ fl # 0 /\ unwritten = <<>> => files[fl].synced = Len(files[fl].data)
  /\ unwritten # <<>> => /\ fl # 0
                         /\ unwritten[Len(unwritten)].end = Len(files[fl].data)

\* The fileWriter counts the memWriters that have not stopped and the marks of
\* those that have; nothing comes after the mark of the last one.
WritersStop ==
  /\ memWritersShutdownLeft = Cardinality({w \in Workers : req[w] # StoppedReq})
                              + Cardinality(Where(ShutdownMark, fileMemBlockChan))
  /\ (\A w \in Workers : req[w] = StoppedReq) /\ fileMemBlockChan # <<>> =>
       fileMemBlockChan[Len(fileMemBlockChan)] = ShutdownMark
  /\ \A w \in Workers : req[w] = StoppedReq /\ memBlock[w] # 0 => mem[memBlock[w]] = <<>>

\* The fileWriter has sent the shutdown mark to memClearer c; it has closed its
\* file before and opens no other.
ShutdownSent(c) ==
  /\ memWritersShutdownLeft = 0
  /\ inHand = 0 \/ c > NumWorkers - markNext

FileWriterStops ==
  /\ inHand = ShutdownMark => memWritersShutdownLeft = 0
  /\ memWritersShutdownLeft = 0 => inHand \in {0, ShutdownMark}
  /\ inHand \notin Marks => markNext = 0
  /\ markNext > 0 => fl = 0
  /\ memWritersShutdownLeft = 0 /\ inHand = 0 => fl = 0

\* The mark has left memClearer c.
ShutdownPassed(c) == ShutdownSent(c) /\ freeableMemBlockChans[c] = <<>> /\ clearing[c] = 0

\* The mark is the last that a memClearer gets, and it leaves nothing behind.
ClearerStops(c) ==
  LET q == freeableMemBlockChans[c] IN
  /\ \A i \in DOMAIN q : q[i] = ShutdownMark =>
       ShutdownSent(c) /\ i = Len(q) /\ clearing[c] # ShutdownMark
  /\ clearing[c] = ShutdownMark => ShutdownSent(c) /\ q = <<>>
  /\ ShutdownSent(c) => IF q = <<>> THEN clearing[c] \in {0, ShutdownMark}
                        ELSE q[Len(q)] = ShutdownMark
  /\ ShutdownPassed(c) => tb[c] = NoTB
ClearersStop == \A c \in Workers : ClearerStops(c)

\* The TOC blocks, and marks, of a channel that are of file n.
BlocksOf(n, s) == {i \in DOMAIN s : s[i].file = n}

\* A memClearer's own TOC block is never a mark.
TBFiles == \A c \in Workers : tb[c].file \in Nat

\* The tocWriter counts in the same way.
TOCWriterStops ==
  /\ memClearersShutdownLeft = Cardinality({c \in Workers : ~ShutdownPassed(c)})
                               + Cardinality(BlocksOf(ShutdownMark, pendingTOCBlockChan))
  /\ (\A c \in Workers : ShutdownPassed(c)) /\ pendingTOCBlockChan # <<>> =>
       pendingTOCBlockChan[Len(pendingTOCBlockChan)].file = ShutdownMark
  /\ shutdownChan = 1 => /\ memClearersShutdownLeft = 0
                         /\ activeTOCA = 0 /\ activeTOCB = 0

StopInv == SyncOK /\ WritersStop /\ FileWriterStops /\ ClearersStop /\ TBFiles /\ TOCWriterStops

\* An entry of the sequence s.
Among(e, s) == \E i \in DOMAIN s : s[i] = e

\* The TOC entry of a location in a file is in the TOC or on its way there.
OnItsWay(n, e) ==
  \/ n \in DOMAIN files /\ Among(e, files[n].toc)
  \/ \E i \in DOMAIN pendingTOCBlockChan :
       pendingTOCBlockChan[i].file = n /\ Among(e, pendingTOCBlockChan[i].entries)
  \/ \E c \in Workers : \/ tb[c].file = n /\ Among(e, tb[c].entries)
                        \/ tbFull[c] /\ blockFile[clearing[c]] = n /\ TOCEntryAt(c) = e
Tracked ==
  \A k \in Keys :
    LET loc == locmap[k] IN
    loc.id # 0 /\ loc.id \notin Blocks =>
      OnItsWay(loc.id - NumBlocks, [key |-> k, ts |-> loc.ts, off |-> loc.off])

\* Flush p, with no other under way: the mark is not yet sent by memWriter w, and
\* is not yet past the fileWriter; it has gone to memClearer c; it has not yet
\* left c, and is not yet past the tocWriter.
MarkDue(p, w)     == flushPC[p] \in 1..w \/ req[w] = FlushReq
FlushAtFile(p)    == \/ \E w \in Workers : MarkDue(p, w)
                     \/ Where(FlushMark, fileMemBlockChan) # {}
                     \/ inHand = FlushMark
FlushSentTo(p, c) == ~FlushAtFile(p) \/ (inHand = FlushMark /\ c <= markNext)
ClearDue(p, c)    == \/ ~FlushSentTo(p, c)
                     \/ Where(FlushMark, freeableMemBlockChans[c]) # {}
                     \/ clearing[c] = FlushMark
FlushAtTOC(p)     == (\E c \in Workers : ClearDue(p, c)) \/ BlocksOf(FlushMark, pendingTOCBlockChan) # {}

\* Each memWriter and each memClearer has one mark to pass on.
OneMarkEach(p) ==
  /\ flushPC[p] # 0 => shutdownPC = 0
  /\ FlushAtTOC(p) => flushPC[p] # 0
  /\ \A w \in Workers : req[w] = FlushReq => flushPC[p] > w
  /\ \A c \in Workers :
       /\ clearing[c] = FlushMark =>
            FlushSentTo(p, c) /\ Where(FlushMark, freeableMemBlockChans[c]) = {}
       /\ \A i, j \in Where(FlushMark, freeableMemBlockChans[c]) : FlushSentTo(p, c) /\ i = j

\* The countdowns say how many marks are to come.
FileCountdown(p) ==
  memWritersFlushLeft = IF FlushAtFile(p)
                        THEN Cardinality({w \in Workers : MarkDue(p, w)})
                             + Cardinality(Where(FlushMark, fileMemBlockChan))
                        ELSE NumWorkers
TOCCountdown(p) ==
  IF FlushAtTOC(p)
  THEN /\ memClearersFlushLeft = Cardinality({c \in Workers : ClearDue(p, c)})
                                 + Cardinality(BlocksOf(FlushMark, pendingTOCBlockChan))
       /\ flushedChan = 0
  ELSE \/ memClearersFlushLeft = 0 /\ flushedChan = 0 /\ flushPC[p] # 0
       \/ memClearersFlushLeft = NumWorkers /\ flushedChan = IF flushPC[p] = 0 THEN 0 ELSE 1

\* Memory block b is ahead of the marks, and in a file that they will close.
BlockAhead(p, b) ==
  \/ \E w \in Workers : memBlock[w] = b /\ MarkDue(p, w)
  \/ \E i \in DOMAIN fileMemBlockChan :
       /\ fileMemBlockChan[i] = b
       /\ \/ \E w \in Workers : MarkDue(p, w)
          \/ \E j \in Where(FlushMark, fileMemBlockChan) : j > i
  \/ FlushAtFile(p) /\ (inHand = b \/ \E i \in DOMAIN unwritten : unwritten[i].block = b)
  \/ /\ blockFile[b] # fl \/ FlushAtFile(p)
     /\ \E c \in Workers :
          \/ \E i \in DOMAIN freeableMemBlockChans[c] :
               /\ freeableMemBlockChans[c][i] = b
               /\ \/ ~FlushSentTo(p, c)
                  \/ \E j \in Where(FlushMark, freeableMemBlockChans[c]) : j > i
          \/ /\ clearing[c] = b
             /\ ~FlushSentTo(p, c) \/ Where(FlushMark, freeableMemBlockChans[c]) # {}

\* The block has a value of the key, no older than ts, that is still to be cleared.
BlockHas(b, k, ts) ==
  \E i \in DOMAIN mem[b] : /\ mem[b][i].key = k /\ mem[b][i].ts >= ts
                           /\ \A c \in Workers : clearing[c] = b => i >= clearPos[c]

\* So have the entries of a TOC, or of a TOC block.
EntriesHave(s, k, ts) == \E i \in DOMAIN s : s[i].key = k /\ s[i].ts >= ts /\ s[i].off # 0

\* The same for a TOC, or a TOC block, of file n.
TOCAhead(p, n, k, ts) ==
  \/ EntriesHave(files[n].toc, k, ts)
  \/ \E i \in DOMAIN pendingTOCBlockChan :
       /\ pendingTOCBlockChan[i].file = n
       /\ EntriesHave(pendingTOCBlockChan[i].entries, k, ts)
       /\ \/ \E c \in Workers : ClearDue(p, c)
          \/ \E j \in BlocksOf(FlushMark, pendingTOCBlockChan) : j > i
  \/ \E c \in Workers : tb[c].file = n /\ EntriesHave(tb[c].entries, k, ts) /\ ClearDue(p, c)

\* What the key had when Flush was called, or something newer, is ahead of the
\* marks until they are past the tocWriter, and on disk after that.
CopyAhead(p, k, ts) ==
  \/ \E b \in Blocks : BlockAhead(p, b) /\ BlockHas(b, k, ts)
  \/ \E n \in DOMAIN files : (n # fl \/ FlushAtFile(p)) /\ TOCAhead(p, n, k, ts)
OnDisk(k, ts) ==
  \E n \in DOMAIN files : /\ n # fl /\ n \notin {activeTOCA, activeTOCB}
                          /\ EntriesHave(files[n].toc, k, ts)
FlushAhead(p) ==
  flushPC[p] # 0 => \A k \in Keys :
    LET ts == flushSees[p][k] IN
    ts > 0 => \/ locmap[k].ts > ts
              \/ IF FlushAtTOC(p) THEN CopyAhead(p, k, ts) ELSE OnDisk(k, ts)

\* After the Flush it stays there.
FlushedOnDisk == \A k \in Keys : flushed[k] > 0 => OnDisk(k, flushed[k]) \/ locmap[k].ts > flushed[k]

\* The setting of FlushWritesToDiskOrNewer: one caller of Flush at a time (another
\* one's marks count for this one's), and no local removals, which leave nothing
\* to recover.
OneFlusher ==
  /\ \A p, q \in Flushers : p = q
  /\ \A r \in Requests : ~HasBit(r.ts, TSB_LOCAL_REMOVAL)

NoRemovals ==
  /\ \A k \in Keys : ~HasBit(locmap[k].ts, TSB_LOCAL_REMOVAL)
  /\ \A b \in Blocks : \A i \in DOMAIN mem[b] : ~HasBit(mem[b][i].ts, TSB_LOCAL_REMOVAL)

\* A key without a location has no timestamp.
NoGhosts == \A k \in Keys : locmap[k].id = 0 => locmap[k].ts = 0
-----------------------------------------------------------------------------
(* The invariant of NoLateTOCBlock where there is one worker: every channel     *)
(* holds one item, and nothing overtakes on the way from the fileWriter to the  *)
(* tocWriter.                                                                   *)

\* The file of a block that the fileWriter has released; a mark is itself.
FileOf(x) == IF x \in Blocks THEN blockFile[x] ELSE x

\* What is on its way, the next at the tocWriter first: files, marks, or 0.
Stages ==
  << IF pendingTOCBlockChan = <<>> THEN 0 ELSE Head(pendingTOCBlockChan).file,
     tb[1].file,
     FileOf(clearing[1]),
     IF freeableMemBlockChans[1] = <<>> THEN 0 ELSE FileOf(Head(freeableMemBlockChans[1])),
     fl >>
Stage == 1..5

\* File n comes no later than what is at stage j, and before it where there is a
\* mark between stage i and stage j.
Precedes(n, i, j) ==
  Stages[j] > 0 => /\ n <= Stages[j]
                   /\ (\E m \in Stage : i <= m /\ m < j /\ Stages[m] \in Marks) => n < Stages[j]

\* The files are in order on their way, after those whose TOC is open or closed.
StagesInOrder == \A i, j \in Stage : i < j /\ Stages[i] > 0 => Precedes(Stages[i], i, j)
ActiveFirst   == \A n \in {activeTOCA, activeTOCB} \ {0} : \A j \in Stage : Precedes(n, 1, j)
ClosedBefore  ==
  \A n \in DOMAIN files : files[n].toc # <<>> /\ n \notin {activeTOCA, activeTOCB} =>
    \A j \in Stage : Stages[j] > 0 => n < Stages[j]

\* Every file on its way exists, and the TOC that was opened first is of the
\* earlier file.
FilesExist ==
  /\ \A j \in Stage : Stages[j] <= Len(files)
  /\ activeTOCA <= Len(files)
  /\ activeTOCB # 0 => activeTOCB < activeTOCA

\* A TOC block is of a file, and the buffers are those of the open file.
TOCBlocksNamed ==
  /\ tb[1].file \in Nat /\ (tb[1].file = 0 => tb[1] = NoTB)
  /\ tbFull[1] => tb[1].file = blockFile[clearing[1]]
  /\ \A i \in DOMAIN pendingTOCBlockChan : pendingTOCBlockChan[i].file # 0
BuffersOfOpenFile ==
  \A i \in DOMAIN unwritten :
    fl # 0 /\ (unwritten[i].block # 0 => blockFile[unwritten[i].block] = fl)

OneByOne == /\ FilesExist /\ TOCBlocksNamed /\ BuffersOfOpenFile
            /\ StagesInOrder /\ ActiveFirst /\ ClosedBefore
=============================================================================
