-------------------------- MODULE WritePathProofs ---------------------------
(* Proofs about the write path, for any number of workers, pages, keys and     *)
(* callers: its types; that the location map never refers to a recycled block  *)
(* and that a Read returns the value it reports; that no memory block is ever  *)
(* lost or in two places and that every TOC entry leads to its value; that     *)
(* the goroutines behind the memWriters are invisible to the callers; and      *)
(* that what the location map knows is on disk when Shutdown returns.          *)
EXTENDS WritePath, FiniteSetTheorems, TLAPS

(* Types *)

\* Memory blocks, marks and "nothing" (0) are told apart.
LEMMA BlockFacts ==
  /\ NumBlocks \in Nat
  /\ Blocks \subseteq Nat \ {0}
  /\ 0 \notin Marks
  /\ Marks \cap Blocks = {}
  /\ Marks \subseteq Int
  /\ FlushMark \notin Nat /\ ShutdownMark \notin Nat
  /\ FlushMark # ShutdownMark
BY WorkersAssumption, PagesAssumption DEF NumBlocks, Blocks, Marks, FlushMark, ShutdownMark

\* The rewrite bit taken out of a timestamp.
LEMMA NoRewriteFacts ==
  ASSUME NEW ts \in Nat
  PROVE  /\ NoRewrite(ts) \in Nat
         /\ NoRewrite(ts) % 2 = 0
         /\ NoRewrite(ts) <= ts
         /\ ts <= NoRewrite(ts) + 1
BY DEF NoRewrite

\* Set keeps the type of the location map.
LEMMA SetType ==
  ASSUME NEW lm \in Location(Keys, Nat), NEW k \in Keys, NEW ts \in Nat, NEW id \in Nat,
         NEW off \in Nat, NEW same
  PROVE  Set(lm, k, ts, id, off, same) \in Location(Keys, Nat)
BY DEF Set, Location, Missing

\* Facts about sequences: what Head, Tail and Append of a channel are.
LEMMA HeadTail ==
  ASSUME NEW S, NEW s \in Seq(S), s # <<>>
  PROVE  /\ Head(s) \in S
         /\ Tail(s) \in Seq(S)
         /\ Len(s) \in Nat \ {0}
         /\ Len(Tail(s)) = Len(s) - 1
OBVIOUS

\* Replacing a field of one file keeps the type of the files.
LEMMA FileUpdate ==
  ASSUME NEW n,
         files \in Seq(FileRec),
         \/ \E d \in Seq(Entry) : files' = [files EXCEPT ![n].data = d]
         \/ \E m \in Nat : files' = [files EXCEPT ![n].synced = m]
         \/ \E t \in Seq(TOCEntry) : files' = [files EXCEPT ![n].toc = t]
  PROVE  files' \in Seq(FileRec) /\ Len(files') = Len(files)
<1>1. CASE n \in DOMAIN files
  <2>1. files[n] \in FileRec
    BY <1>1
  <2>2. PICK f \in FileRec : files' = [files EXCEPT ![n] = f]
    <3>1. \A d \in Seq(Entry) : [files[n] EXCEPT !.data = d] \in FileRec
      BY <2>1 DEF FileRec
    <3>2. \A m \in Nat : [files[n] EXCEPT !.synced = m] \in FileRec
      BY <2>1 DEF FileRec
    <3>3. \A t \in Seq(TOCEntry) : [files[n] EXCEPT !.toc = t] \in FileRec
      BY <2>1 DEF FileRec
    <3> QED
      BY <3>1, <3>2, <3>3
  <2> QED
    BY <1>1, <2>2
<1>2. CASE n \notin DOMAIN files
  <2>1. files' = files
    BY <1>2
  <2> QED
    BY <2>1
<1> QED
  BY <1>1, <1>2

\* The entry that a memClearer is at makes a TOC entry.
LEMMA EntryAtType ==
  ASSUME TypeMem, TypeFile, TypeClearer, NEW c \in Workers, clearing[c] \in Blocks,
         clearPos[c] <= Len(mem[clearing[c]])
  PROVE  TOCEntryAt(c) \in TOCEntry
<1> DEFINE e == mem[clearing[c]][clearPos[c]]
<1>1. e \in Entry
  BY DEF TypeMem, TypeClearer
<1>2. blockOffset[clearing[c]] + clearPos[c] \in Nat
  BY DEF TypeFile, TypeClearer
<1> QED
  BY <1>1, <1>2 DEF TOCEntryAt, TOCEntry, Entry

\* Releasing a block keeps the channels of the memClearers within their bounds.
LEMMA ReleaseType ==
  ASSUME NEW b \in Blocks, TypeBuffer, Release(b)
  PROVE  /\ freeableIndex' \in Workers
         /\ freeableMemBlockChans' \in [Workers -> Seq(Blocks \cup Marks)]
         /\ \A c \in Workers : Len(freeableMemBlockChans'[c]) <= NumWorkers
<1>1. freeableIndex' \in Workers
  BY WorkersAssumption DEF Release, NextClearer, Workers, TypeBuffer
<1> QED
  BY <1>1, WorkersAssumption DEF Release, TypeBuffer

\* The state after Startup is typed.
LEMMA InitTypes == Init => TypeOK
<1> SUFFICES ASSUME Init PROVE TypeOK
  OBVIOUS
<1> USE DEF Init
<1>1. TypeMem
  BY BlockFacts DEF TypeMem, Location, Missing, Blocks
<1>2. TypeWriter
  BY BlockFacts, WorkersAssumption DEF TypeWriter
<1>3. TypeFile
  BY BlockFacts, WorkersAssumption DEF TypeFile, FlushParties, ShutdownParties
<1>4. TypeBuffer
  BY BlockFacts, WorkersAssumption DEF TypeBuffer, Workers
<1>5. TypeClearer
  BY BlockFacts, WorkersAssumption DEF TypeClearer, TOCBlock, NoTB
<1>6. TypeTOC
  BY WorkersAssumption DEF TypeTOC, FlushParties, ShutdownParties
<1>7. TypeCaller
  BY WorkersAssumption DEF TypeCaller, ReadState
<1> QED
  BY <1>1, <1>2, <1>3, <1>4, <1>5, <1>6, <1>7 DEF TypeOK

\* The groups of variables an action leaves alone keep their types.
LEMMA MemFrame == ASSUME TypeMem, UNCHANGED <<locmap, memVars>> PROVE TypeMem'
BY DEF TypeMem, memVars

\* Each part of the type invariant stays while its variables do.
LEMMA WriterFrame == ASSUME TypeWriter, UNCHANGED <<writerVars, fileMemBlockChan>>
                     PROVE TypeWriter'
BY DEF TypeWriter, writerVars

\* The same for the fileWriter.
LEMMA FileFrame ==
  ASSUME TypeFile,
         UNCHANGED <<files, fl, inHand, memWritersFlushLeft, memWritersShutdownLeft,
                     markNext, blockFile, blockOffset>>
  PROVE  TypeFile'
BY DEF TypeFile

\* The same for the buffers of the open file.
LEMMA BufferFrame ==
  ASSUME TypeBuffer, UNCHANGED <<unwritten, sealed, freeableIndex, freeableMemBlockChans>>
  PROVE  TypeBuffer'
BY DEF TypeBuffer

\* The same for the memClearers.
LEMMA ClearerFrame ==
  ASSUME TypeClearer, UNCHANGED <<clearerVars, pendingTOCBlockChan>>
  PROVE  TypeClearer'
BY DEF TypeClearer, clearerVars

\* The same for the tocWriter.
LEMMA TOCFrame == ASSUME TypeTOC, UNCHANGED tocVars PROVE TypeTOC'
BY DEF TypeTOC, tocVars

\* The same for the callers.
LEMMA CallerFrame == ASSUME TypeCaller, UNCHANGED callerVars PROVE TypeCaller'
BY DEF TypeCaller, callerVars

\* Every action keeps every type.
LEMMA TypeStep ==
  ASSUME TypeOK, AtEntry, \A r \in Readers : ReadOK(r), Next
  PROVE  TypeOK'
<1> USE DEF TypeOK
<1>1. ASSUME NEW w \in Workers, NEW r \in Requests, MemReceive(w, r) PROVE TypeOK'
  <2>1. TypeWriter'
    BY <1>1, BlockFacts, WorkersAssumption DEF MemReceive, TypeWriter, writerVars
  <2>2. TypeCaller'
    BY <1>1, BlockFacts, WorkersAssumption, BoundsAssumption DEF MemReceive,
       TypeCaller, callerVars
  <2> QED
    BY <1>1, <2>1, <2>2, MemFrame, FileFrame, BufferFrame, ClearerFrame, TOCFrame
    DEF MemReceive, memVars, writerVars, fileVars, clearerVars, tocVars, callerVars
<1>2. ASSUME NEW w \in Workers, MemSwitch(w) PROVE TypeOK'
  <2>1. TypeWriter'
    BY <1>2, BlockFacts, WorkersAssumption DEF MemSwitch, TypeWriter, writerVars
  <2>2. TypeCaller'
    BY <1>2, BlockFacts, WorkersAssumption DEF MemSwitch, TypeCaller, callerVars
  <2> QED
    BY <1>2, <2>1, <2>2, MemFrame, FileFrame, BufferFrame, ClearerFrame, TOCFrame
    DEF MemSwitch, memVars, writerVars, fileVars, clearerVars, tocVars, callerVars
<1>3. ASSUME NEW w \in Workers, MemReject(w) PROVE TypeOK'
  <2>1. TypeWriter'
    BY <1>3, BlockFacts, WorkersAssumption DEF MemReject, TypeWriter, writerVars
  <2> QED
    BY <1>3, <2>1, MemFrame, FileFrame, BufferFrame, ClearerFrame, TOCFrame, CallerFrame
    DEF MemReject, memVars, writerVars, fileVars, clearerVars, tocVars, callerVars
<1>4. ASSUME NEW w \in Workers, MemRotate(w) PROVE TypeOK'
  <2>1. TypeWriter'
    BY <1>4, BlockFacts, WorkersAssumption DEF MemRotate, TypeWriter, writerVars
  <2> QED
    BY <1>4, <2>1, MemFrame, FileFrame, BufferFrame, ClearerFrame, TOCFrame, CallerFrame
    DEF MemRotate, memVars, writerVars, fileVars, clearerVars, tocVars, callerVars
<1>5. ASSUME NEW w \in Workers, MemTake(w) PROVE TypeOK'
  <2>1. TypeMem'
    BY <1>5, BlockFacts, WorkersAssumption DEF MemTake, TypeMem, memVars
  <2>2. TypeWriter'
    BY <1>5, BlockFacts, WorkersAssumption, HeadTail DEF MemTake, TypeWriter,
       TypeMem, writerVars
  <2> QED
    BY <1>5, <2>1, <2>2, FileFrame, BufferFrame, ClearerFrame, TOCFrame, CallerFrame
    DEF MemTake, memVars, writerVars, fileVars, clearerVars, tocVars, callerVars
<1>6. ASSUME NEW w \in Workers, MemStore(w) PROVE TypeOK'
  <2>1. TypeMem'
    <3> DEFINE rr == req[w]
    <3>1. rr \in Requests /\ rr.key \in Keys /\ rr.ts \in Nat
      BY <1>6, RequestsAssumption
      DEF MemStore, TypeWriter, Request, NoReq, FlushReq, ShutdownReq, StoppedReq
    <3>2. NoRewrite(rr.ts) \in Nat
      BY <3>1, NoRewriteFacts
    <3>3. memBlock[w] \in Blocks
      BY <1>6 DEF MemStore, TypeWriter
    <3>4. mem[memBlock[w]] \in Seq(Entry) /\ Len(mem[memBlock[w]]) + 1 \in Nat
      BY <3>3 DEF TypeMem
    <3>5. locmap' \in Location(Keys, Nat)
      <4>1. memBlock[w] \in Nat
        BY <3>3, BlockFacts
      <4> QED
        BY <1>6, <3>1, <3>2, <3>4, <4>1, SetType DEF MemStore, TypeMem
    <3>6. [key |-> rr.key, ts |-> NoRewrite(rr.ts)] \in Entry
      BY <3>1, <3>2 DEF Entry
    <3>7. mem' \in [Blocks -> Seq(Entry)]
      BY <1>6, <3>3, <3>4, <3>6 DEF MemStore, TypeMem
    <3> QED
      BY <1>6, <3>5, <3>7 DEF MemStore, TypeMem, memVars
  <2>2. TypeWriter'
    BY <1>6, BlockFacts, WorkersAssumption DEF MemStore, TypeWriter, writerVars
  <2> QED
    BY <1>6, <2>1, <2>2, FileFrame, BufferFrame, ClearerFrame, TOCFrame, CallerFrame
    DEF MemStore, memVars, writerVars, fileVars, clearerVars, tocVars, callerVars
<1>7. ASSUME NEW w \in Workers, MemMark(w) PROVE TypeOK'
  <2>1. TypeWriter'
    <3>1. fileMemBlockChan' \in Seq(Blocks \cup Marks) /\ Len(fileMemBlockChan') <= NumWorkers
      <4>1. PICK m \in Marks : fileMemBlockChan' = Append(fileMemBlockChan, m)
        BY <1>7 DEF MemMark, Marks
      <4>2. Len(fileMemBlockChan) < NumWorkers
        BY <1>7 DEF MemMark
      <4> QED
        BY <4>1, <4>2, WorkersAssumption DEF TypeWriter
    <3>2. req' \in [Workers -> Requests \cup {NoReq, FlushReq, ShutdownReq, StoppedReq}]
      BY <1>7 DEF MemMark, TypeWriter
    <3> QED
      BY <1>7, <3>1, <3>2 DEF MemMark, TypeWriter
  <2> QED
    BY <1>7, <2>1, MemFrame, FileFrame, BufferFrame, ClearerFrame, TOCFrame, CallerFrame
    DEF MemMark, memVars, writerVars, fileVars, clearerVars, tocVars, callerVars
<1>8. ASSUME FileReceive PROVE TypeOK'
  <2>1. TypeWriter'
    BY <1>8, BlockFacts, WorkersAssumption DEF FileReceive, TypeWriter, writerVars
  <2>2. TypeFile'
    <3> DEFINE m == Head(fileMemBlockChan)
    <3>1. m \in Blocks \cup Marks
      BY <1>8, HeadTail DEF FileReceive, TypeWriter
    <3>2. memWritersFlushLeft' \in 0..NumWorkers /\ (memWritersFlushLeft' = 0 <=> inHand' = FlushMark)
      BY <1>8, <3>1, BlockFacts, WorkersAssumption DEF FileReceive, TypeFile, Marks
    <3>3. inHand' \in Blocks \cup Marks \cup {0} /\ memWritersShutdownLeft' \in Int
      BY <1>8, <3>1 DEF FileReceive, TypeFile
    <3> QED
      BY <1>8, <3>2, <3>3 DEF FileReceive, TypeFile
  <2> QED
    BY <1>8, <2>1, <2>2, MemFrame, BufferFrame, ClearerFrame, TOCFrame, CallerFrame
    DEF FileReceive, memVars, writerVars, fileVars, clearerVars, tocVars, callerVars
<1>9. ASSUME FileClosed PROVE TypeOK'
  <2>1. TypeFile'
    BY <1>9, BlockFacts, WorkersAssumption DEF FileClosed, TypeFile, fileVars
  <2> QED
    BY <1>9, <2>1, MemFrame, WriterFrame, BufferFrame, ClearerFrame, TOCFrame,
       CallerFrame
    DEF FileClosed, memVars, writerVars, fileVars, clearerVars, tocVars, callerVars
<1>10. ASSUME FileCreate PROVE TypeOK'
  <2>1. TypeFile'
    BY <1>10, BlockFacts, WorkersAssumption DEF FileCreate, TypeFile, FileRec, fileVars
  <2>2. TypeBuffer'
    BY <1>10, BlockFacts, WorkersAssumption DEF FileCreate, TypeBuffer, Workers,
       fileVars
  <2> QED
    BY <1>10, <2>1, <2>2, MemFrame, WriterFrame, ClearerFrame, TOCFrame, CallerFrame
    DEF FileCreate, memVars, writerVars, fileVars, clearerVars, tocVars, callerVars
<1>11. ASSUME FileWrite PROVE TypeOK'
  <2>1. TypeFile'
    <3>1. mem[inHand] \in Seq(Entry) /\ inHand \in Blocks /\ fl \in DOMAIN files
      BY <1>11 DEF FileWrite, TypeMem, TypeFile
    <3>2. files[fl].data \in Seq(Entry)
      <4>1. files[fl] \in FileRec
        BY <3>1 DEF TypeFile
      <4> QED
        BY <4>1 DEF FileRec
    <3>3. files' \in Seq(FileRec) /\ Len(files') = Len(files)
      <4>1. files' = [files EXCEPT ![fl].data = files[fl].data \o mem[inHand]]
        BY <1>11, <3>1 DEF FileWrite
      <4>2. files[fl].data \o mem[inHand] \in Seq(Entry)
        BY <3>1, <3>2
      <4> QED
        BY <4>1, <4>2, FileUpdate DEF TypeFile
    <3>4. blockFile' \in [Blocks -> Nat] /\ blockOffset' \in [Blocks -> Nat]
      BY <1>11, <3>1, <3>2 DEF FileWrite, TypeFile
    <3> QED
      BY <1>11, <3>1, <3>3, <3>4, BlockFacts DEF FileWrite, TypeFile
  <2>2. TypeBuffer'
    <3> DEFINE stop == Len(files[fl].data) + Len(mem[inHand])
    <3>1. inHand \in Blocks /\ mem[inHand] \in Seq(Entry) /\ files[fl] \in FileRec
      BY <1>11 DEF FileWrite, TypeMem, TypeFile
    <3>2. stop \in Nat
      <4>1. files[fl].data \in Seq(Entry)
        BY <3>1 DEF FileRec
      <4>2. Len(files[fl].data) \in Nat
        BY <4>1
      <4>3. Len(mem[inHand]) \in Nat
        BY <3>1
      <4>4. \A m, n \in Nat : m + n \in Nat
        OBVIOUS
      <4> QED
        BY <4>2, <4>3, <4>4, Zenon
    <3>3. Attach(inHand, stop) \/ ReleaseNow(inHand, stop)
      BY <1>11 DEF FileWrite
    <3> HIDE DEF stop
    <3>4. \A b \in Blocks \cup {0} : [end |-> stop, block |-> b] \in Buffered
      BY <3>2 DEF Buffered
    <3>5. CASE Attach(inHand, stop)
      <4>1. unwritten' \in Seq(Buffered) /\ Len(unwritten') = Len(unwritten) + 1
        BY <3>1, <3>4, <3>5 DEF Attach, TypeBuffer
      <4>2. sealed' \in 0..Len(unwritten')
        BY <3>5, <4>1 DEF Attach, Seals, TypeBuffer
      <4> QED
        BY <3>5, <4>1, <4>2 DEF Attach, TypeBuffer
    <3>6. CASE ReleaseNow(inHand, stop)
      <4>1. unwritten' \in Seq(Buffered) /\ Len(unwritten') = Len(unwritten) + 1
        BY <3>4, <3>6 DEF ReleaseNow, TypeBuffer
      <4>2. sealed' \in 0..Len(unwritten')
        BY <3>6, <4>1 DEF ReleaseNow, TypeBuffer
      <4> QED
        BY <3>1, <3>6, <4>1, <4>2, ReleaseType DEF ReleaseNow, TypeBuffer
    <3> QED
      BY <3>3, <3>5, <3>6
  <2> QED
    BY <1>11, <2>1, <2>2, MemFrame, WriterFrame, ClearerFrame, TOCFrame, CallerFrame
    DEF FileWrite, memVars, writerVars, fileVars, clearerVars, tocVars, callerVars
<1>12. ASSUME BufferWritten PROVE TypeOK'
  <2>1. TypeFile'
    <3>1. Head(unwritten).end \in Nat
      <4>1. Head(unwritten) \in Buffered
        BY <1>12, HeadTail DEF BufferWritten, TypeBuffer
      <4> QED
        BY <4>1 DEF Buffered
    <3>2. files' \in Seq(FileRec) /\ Len(files') = Len(files)
      BY <1>12, <3>1, FileUpdate DEF BufferWritten, TypeFile
    <3> QED
      BY <1>12, <3>2 DEF BufferWritten, TypeFile
  <2>2. TypeBuffer'
    <3>1. /\ Head(unwritten) \in Buffered
          /\ unwritten' \in Seq(Buffered)
          /\ Len(unwritten') = Len(unwritten) - 1
      BY <1>12, HeadTail DEF BufferWritten, TypeBuffer
    <3>4. sealed' \in 0..Len(unwritten')
      BY <1>12, <3>1, HeadTail DEF BufferWritten, TypeBuffer
    <3>2. CASE Head(unwritten).block = 0
      BY <1>12, <3>1, <3>2, <3>4 DEF BufferWritten, TypeBuffer
    <3>3. CASE Head(unwritten).block # 0
      <4>1. Head(unwritten).block \in Blocks
        BY <3>1, <3>3 DEF Buffered
      <4> QED
        BY <1>12, <3>1, <3>3, <3>4, <4>1, ReleaseType DEF BufferWritten, TypeBuffer
    <3> QED
      BY <3>2, <3>3
  <2> QED
    BY <1>12, <2>1, <2>2, MemFrame, WriterFrame, ClearerFrame, TOCFrame, CallerFrame
    DEF BufferWritten, memVars, writerVars, fileVars, clearerVars, tocVars, callerVars
<1>13. ASSUME FileMark PROVE TypeOK'
  <2>1. TypeFile'
    BY <1>13, BlockFacts, WorkersAssumption DEF FileMark, TypeFile, FlushParties,
       Marks, fileVars
  <2>2. TypeBuffer'
    <3> DEFINE c == IF inHand = FlushMark THEN markNext + 1 ELSE NumWorkers - markNext
    <3>1. c \in Workers
      BY WorkersAssumption DEF TypeFile, Workers
    <3>2. /\ freeableMemBlockChans[c] \in Seq(Blocks \cup Marks)
          /\ Len(freeableMemBlockChans[c]) < NumWorkers
          /\ inHand \in Marks
          /\ freeableMemBlockChans' = [freeableMemBlockChans EXCEPT
                ![c] = Append(freeableMemBlockChans[c], inHand)]
      BY <1>13, <3>1 DEF FileMark, TypeBuffer
    <3> HIDE DEF c
    <3>3. UNCHANGED <<unwritten, sealed, freeableIndex>>
      BY <1>13 DEF FileMark
    <3>4. Append(freeableMemBlockChans[c], inHand) \in Seq(Blocks \cup Marks)
      BY <3>2
    <3>5. Len(Append(freeableMemBlockChans[c], inHand)) <= NumWorkers
      BY <3>2, WorkersAssumption
    <3> QED
      BY <3>1, <3>2, <3>3, <3>4, <3>5 DEF TypeBuffer
  <2> QED
    BY <1>13, <2>1, <2>2, MemFrame, WriterFrame, ClearerFrame, TOCFrame, CallerFrame
    DEF FileMark, memVars, writerVars, fileVars, clearerVars, tocVars, callerVars
<1>14. ASSUME NEW c \in Workers, ClearReceive(c) PROVE TypeOK'
  <2>1. TypeBuffer'
    BY <1>14, BlockFacts, WorkersAssumption DEF ClearReceive, TypeBuffer, fileVars
  <2>2. TypeClearer'
    BY <1>14, BlockFacts, WorkersAssumption DEF ClearReceive, TypeClearer,
       TypeBuffer, clearerVars
  <2> QED
    BY <1>14, <2>1, <2>2, MemFrame, WriterFrame, FileFrame, TOCFrame, CallerFrame
    DEF ClearReceive, memVars, writerVars, fileVars, clearerVars, tocVars, callerVars
<1>15. ASSUME NEW c \in Workers, ClearSendTOC(c) PROVE TypeOK'
  <2>1. TypeClearer'
    BY <1>15, BlockFacts, WorkersAssumption DEF ClearSendTOC, TypeClearer,
       TOCBlock, NoTB, clearerVars
  <2> QED
    BY <1>15, <2>1, MemFrame, WriterFrame, FileFrame, BufferFrame, TOCFrame, CallerFrame
    DEF ClearSendTOC, memVars, writerVars, fileVars, clearerVars, tocVars, callerVars
<1>16. ASSUME NEW c \in Workers, ClearEntry(c) PROVE TypeOK'
  <2>1. TypeMem'
    <3> DEFINE b == clearing[c]
               e == TOCEntryAt(c)
    <3>1. e \in TOCEntry
      BY <1>16, EntryAtType DEF ClearEntry
    <3>2. blockFile[b] \in Nat /\ FileID(blockFile[b]) \in Nat
      <4>1. blockFile[b] \in Nat
        BY <1>16 DEF ClearEntry, TypeFile
      <4> QED
        BY <4>1, BlockFacts DEF FileID
    <3>3. locmap' \in Location(Keys, Nat)
      BY <1>16, <3>1, <3>2, SetType DEF ClearEntry, TypeMem, TOCEntry
    <3> QED
      BY <1>16, <3>3 DEF ClearEntry, TypeMem, memVars
  <2>2. TypeClearer'
    <3> DEFINE b == clearing[c]
               e == TOCEntryAt(c)
    <3>1. e \in TOCEntry
      BY <1>16, EntryAtType DEF ClearEntry
    <3>2. blockFile[b] \in Nat
      BY <1>16 DEF ClearEntry, TypeFile
    <3>3. [file |-> blockFile[b], entries |-> Append(tb[c].entries, e)] \in TOCBlock
      BY <3>1, <3>2 DEF TypeClearer, TOCBlock
    <3> HIDE DEF b, e
    <3>4. tb' \in [Workers -> TOCBlock]
      BY <1>16, <3>3 DEF ClearEntry, TypeClearer, b, e
    <3>5. clearPos' \in [Workers -> Nat \ {0}] /\ tbFull' \in [Workers -> BOOLEAN]
      <4>1. clearPos' = clearPos \/ clearPos' = [clearPos EXCEPT ![c] = clearPos[c] + 1]
        BY <1>16 DEF ClearEntry
      <4>2. tbFull' = tbFull \/ tbFull' = [tbFull EXCEPT ![c] = TRUE]
        BY <1>16 DEF ClearEntry
      <4>3. clearPos[c] + 1 \in Nat \ {0}
        BY DEF TypeClearer
      <4>4. clearPos' \in [Workers -> Nat \ {0}]
        BY <4>1, <4>3 DEF TypeClearer
      <4> QED
        BY <4>2, <4>4 DEF TypeClearer
    <3> QED
      BY <1>16, <3>4, <3>5 DEF ClearEntry, TypeClearer
  <2> QED
    BY <1>16, <2>1, <2>2, WriterFrame, FileFrame, BufferFrame, TOCFrame, CallerFrame
    DEF ClearEntry, memVars, writerVars, fileVars, clearerVars, tocVars, callerVars
<1>17. ASSUME NEW c \in Workers, ClearSendFull(c) PROVE TypeOK'
  <2>1. TypeClearer'
    <3>1. TOCEntryAt(c) \in TOCEntry
      BY <1>17, EntryAtType DEF ClearSendFull, AtEntry, TypeMem, TypeClearer
    <3>2. blockFile[clearing[c]] \in Nat
      BY <1>17 DEF ClearSendFull, AtEntry, TypeFile
    <3>3. [file |-> blockFile[clearing[c]], entries |-> <<TOCEntryAt(c)>>] \in TOCBlock
      BY <3>1, <3>2 DEF TOCBlock
    <3> QED
      BY <1>17, <3>3, WorkersAssumption DEF ClearSendFull, TypeClearer
  <2> QED
    BY <1>17, <2>1, MemFrame, WriterFrame, FileFrame, BufferFrame, TOCFrame, CallerFrame
    DEF ClearSendFull, memVars, writerVars, fileVars, clearerVars, tocVars, callerVars
<1>18. ASSUME NEW c \in Workers, ClearFree(c) PROVE TypeOK'
  <2>1. TypeMem'
    BY <1>18, BlockFacts, WorkersAssumption DEF ClearFree, TypeMem, memVars
  <2>2. TypeFile'
    BY <1>18, BlockFacts, WorkersAssumption DEF ClearFree, TypeFile, fileVars
  <2>3. TypeClearer'
    BY <1>18, BlockFacts, WorkersAssumption DEF ClearFree, TypeClearer, clearerVars
  <2> QED
    BY <1>18, <2>1, <2>2, <2>3, WriterFrame, BufferFrame, TOCFrame, CallerFrame
    DEF ClearFree, memVars, writerVars, fileVars, clearerVars, tocVars, callerVars
<1>19. ASSUME NEW c \in Workers, ClearMark(c) PROVE TypeOK'
  <2>1. TypeClearer'
    BY <1>19, BlockFacts, WorkersAssumption DEF ClearMark, TypeClearer, TOCBlock,
       MarkTB, clearerVars
  <2> QED
    BY <1>19, <2>1, MemFrame, WriterFrame, FileFrame, BufferFrame, TOCFrame, CallerFrame
    DEF ClearMark, memVars, writerVars, fileVars, clearerVars, tocVars, callerVars
<1>20. ASSUME TOCBlockWritten PROVE TypeOK'
  <2>1. TypeFile'
    <3> DEFINE t == Head(pendingTOCBlockChan)
    <3>1. t \in TOCBlock
      BY <1>20, HeadTail DEF TOCBlockWritten, TypeClearer
    <3>2. files' \in Seq(FileRec) /\ Len(files') = Len(files)
      <4> DEFINE x == IF t.file \in {activeTOCA, activeTOCB}
                      THEN files[t.file].toc \o t.entries ELSE t.entries
      <4>1. files' = [files EXCEPT ![t.file].toc = x]
        BY <1>20, SMTT(30) DEF TOCBlockWritten
      <4>2. CASE t.file \in DOMAIN files
        <5>1. x \in Seq(TOCEntry)
          <6>1. files[t.file] \in FileRec
            BY <4>2 DEF TypeFile
          <6>2. files[t.file].toc \in Seq(TOCEntry) /\ t.entries \in Seq(TOCEntry)
            BY <3>1, <6>1 DEF FileRec, TOCBlock
          <6> QED
            BY <6>2
        <5> QED
          BY <4>1, <5>1, FileUpdate DEF TypeFile
      <4>3. CASE t.file \notin DOMAIN files
        <5>1. files' = files
          BY <4>1, <4>3 DEF TypeFile
        <5> QED
          BY <5>1 DEF TypeFile
      <4> QED
        BY <4>2, <4>3
    <3> QED
      BY <1>20, <3>2 DEF TOCBlockWritten, TypeFile
  <2>2. TypeClearer'
    BY <1>20, BlockFacts, WorkersAssumption DEF TOCBlockWritten, TypeClearer,
       clearerVars
  <2>3. TypeTOC'
    <3>1. Head(pendingTOCBlockChan) \in TOCBlock
      BY <1>20, HeadTail DEF TOCBlockWritten, TypeClearer
    <3>2. Head(pendingTOCBlockChan).file \in Nat
      BY <1>20, <3>1 DEF TOCBlockWritten, TOCBlock
    <3> QED
      BY <1>20, <3>2 DEF TOCBlockWritten, TypeTOC
  <2> QED
    BY <1>20, <2>1, <2>2, <2>3, MemFrame, WriterFrame, BufferFrame, CallerFrame
    DEF TOCBlockWritten, memVars, writerVars, fileVars, clearerVars, tocVars, callerVars
<1>21. ASSUME TOCMark PROVE TypeOK'
  <2>1. TypeClearer'
    BY <1>21, BlockFacts, WorkersAssumption DEF TOCMark, TypeClearer, clearerVars
  <2>2. TypeTOC'
    BY <1>21, BlockFacts, WorkersAssumption DEF TOCMark, TypeTOC, tocVars
  <2> QED
    BY <1>21, <2>1, <2>2, MemFrame, WriterFrame, FileFrame, BufferFrame, CallerFrame
    DEF TOCMark, memVars, writerVars, fileVars, clearerVars, tocVars, callerVars
<1>22. ASSUME TOCFlushed PROVE TypeOK'
  <2>1. TypeTOC'
    BY <1>22, BlockFacts, WorkersAssumption DEF TOCFlushed, TypeTOC, FlushParties,
       tocVars
  <2> QED
    BY <1>22, <2>1, MemFrame, WriterFrame, FileFrame, BufferFrame, ClearerFrame,
       CallerFrame
    DEF TOCFlushed, memVars, writerVars, fileVars, clearerVars, tocVars, callerVars
<1>23. ASSUME NEW p \in Flushers, FlushCall(p) PROVE TypeOK'
  <2>1. TypeCaller'
    BY <1>23, BlockFacts, WorkersAssumption DEF FlushCall, TypeCaller, TypeMem,
       Location, callerVars
  <2> QED
    BY <1>23, <2>1, MemFrame, WriterFrame, FileFrame, BufferFrame, ClearerFrame,
       TOCFrame
    DEF FlushCall, memVars, writerVars, fileVars, clearerVars, tocVars, callerVars
<1>24. ASSUME NEW p \in Flushers, FlushSend(p) PROVE TypeOK'
  <2>1. TypeWriter'
    BY <1>24, BlockFacts, WorkersAssumption DEF FlushSend, TypeWriter, writerVars
  <2>2. TypeCaller'
    BY <1>24, BlockFacts, WorkersAssumption DEF FlushSend, TypeCaller, Workers,
       callerVars
  <2> QED
    BY <1>24, <2>1, <2>2, MemFrame, FileFrame, BufferFrame, ClearerFrame, TOCFrame
    DEF FlushSend, memVars, writerVars, fileVars, clearerVars, tocVars, callerVars
<1>25. ASSUME NEW p \in Flushers, FlushReturn(p) PROVE TypeOK'
  <2>1. TypeTOC'
    BY <1>25, BlockFacts, WorkersAssumption DEF FlushReturn, TypeTOC, tocVars
  <2>2. TypeCaller'
    BY <1>25, BlockFacts, WorkersAssumption DEF FlushReturn, TypeCaller, callerVars
  <2> QED
    BY <1>25, <2>1, <2>2, MemFrame, WriterFrame, FileFrame, BufferFrame, ClearerFrame
    DEF FlushReturn, memVars, writerVars, fileVars, clearerVars, tocVars, callerVars
<1>26. ASSUME ShutdownCall PROVE TypeOK'
  <2>1. TypeCaller'
    BY <1>26, BlockFacts, WorkersAssumption DEF ShutdownCall, TypeCaller, callerVars
  <2> QED
    BY <1>26, <2>1, MemFrame, WriterFrame, FileFrame, BufferFrame, ClearerFrame,
       TOCFrame
    DEF ShutdownCall, memVars, writerVars, fileVars, clearerVars, tocVars, callerVars
<1>27. ASSUME ShutdownSend PROVE TypeOK'
  <2>1. TypeWriter'
    BY <1>27, BlockFacts, WorkersAssumption DEF ShutdownSend, TypeWriter, writerVars
  <2>2. TypeCaller'
    BY <1>27, BlockFacts, WorkersAssumption DEF ShutdownSend, TypeCaller, callerVars
  <2> QED
    BY <1>27, <2>1, <2>2, MemFrame, FileFrame, BufferFrame, ClearerFrame, TOCFrame
    DEF ShutdownSend, memVars, writerVars, fileVars, clearerVars, tocVars, callerVars
<1>28. ASSUME ShutdownReturn PROVE TypeOK'
  <2>1. TypeMem'
    BY <1>28, BlockFacts, WorkersAssumption DEF ShutdownReturn, TypeMem, Location,
       Missing, memVars
  <2>2. TypeTOC'
    BY <1>28, BlockFacts, WorkersAssumption DEF ShutdownReturn, TypeTOC, tocVars
  <2>3. TypeCaller'
    BY <1>28, BlockFacts, WorkersAssumption DEF ShutdownReturn, TypeCaller, callerVars
  <2> QED
    BY <1>28, <2>1, <2>2, <2>3, WriterFrame, FileFrame, BufferFrame, ClearerFrame
    DEF ShutdownReturn, memVars, writerVars, fileVars, clearerVars, tocVars, callerVars
<1>29. ASSUME NEW k \in Keys, DiscardLocalRemoval(k) PROVE TypeOK'
  <2>1. TypeMem'
    BY <1>29, BlockFacts, WorkersAssumption DEF DiscardLocalRemoval, TypeMem,
       Location, Missing, memVars
  <2> QED
    BY <1>29, <2>1, WriterFrame, FileFrame, BufferFrame, ClearerFrame, TOCFrame,
       CallerFrame
    DEF DiscardLocalRemoval, memVars, writerVars, fileVars, clearerVars, tocVars,
       callerVars
<1>30. ASSUME NEW r \in Readers, NEW k \in Keys, ReadGet(r, k) PROVE TypeOK'
  <2>1. TypeCaller'
    BY <1>30, BlockFacts, WorkersAssumption DEF ReadGet, TypeCaller, TypeMem,
       Location, ReadState, callerVars
  <2> QED
    BY <1>30, <2>1, MemFrame, WriterFrame, FileFrame, BufferFrame, ClearerFrame,
       TOCFrame
    DEF ReadGet, memVars, writerVars, fileVars, clearerVars, tocVars, callerVars
<1>31. ASSUME NEW r \in Readers, ReadMemBlock(r) PROVE TypeOK'
  <2>1. TypeCaller'
    <3>1. /\ read[r] \in ReadState
          /\ read[r].pc = "located"
      BY <1>31 DEF ReadMemBlock, TypeCaller
    <3>2. read[r].key \in Keys /\ read[r].loc \in [ts : Nat, id : Nat, off : Nat]
      BY <3>1 DEF ReadState
    <3>3. locmap[read[r].key] \in [ts : Nat, id : Nat, off : Nat]
      BY <3>2 DEF TypeMem, Location
    <3>4. read[r].loc.id \in Blocks
      BY <1>31 DEF ReadMemBlock
    <3>5. \A i : At(mem[read[r].loc.id], i) \in Entry \cup {NoEntry}
      BY <3>4 DEF At, TypeMem
    <3>6. read'[r] \in ReadState /\ read' = [read EXCEPT ![r] = read'[r]]
      BY <1>31, <3>2, <3>3, <3>5 DEF ReadMemBlock, TypeCaller, ReadState, LocationNow
    <3> QED
      BY <1>31, <3>6 DEF ReadMemBlock, TypeCaller
  <2> QED
    BY <1>31, <2>1, MemFrame, WriterFrame, FileFrame, BufferFrame, ClearerFrame,
       TOCFrame
    DEF ReadMemBlock, memVars, writerVars, fileVars, clearerVars, tocVars, callerVars
<1>32. ASSUME NEW r \in Readers, ReadFile(r) PROVE TypeOK'
  <2>1. TypeCaller'
    <3>1. /\ read[r] \in ReadState
          /\ read[r].pc = "located"
      BY <1>32 DEF ReadFile, TypeCaller
    <3>2. read[r].key \in Keys /\ read[r].loc \in [ts : Nat, id : Nat, off : Nat]
      BY <3>1 DEF ReadState
    <3> DEFINE n == read[r].loc.id - NumBlocks
    <3>3. At(files[n].data, read[r].loc.off) \in Entry \cup {NoEntry}
      <4>1. FileHas(n, read[r].loc.off, [key |-> read[r].key, ts |-> read[r].loc.ts])
        BY <1>32 DEF ReadFile, ReadOK
      <4> QED
        BY <3>2, <4>1 DEF FileHas, At, Entry
    <3>4. read'[r] \in ReadState /\ read' = [read EXCEPT ![r] = read'[r]]
      BY <1>32, <3>2, <3>3 DEF ReadFile, TypeCaller, ReadState
    <3> QED
      BY <1>32, <3>4 DEF ReadFile, TypeCaller
  <2> QED
    BY <1>32, <2>1, MemFrame, WriterFrame, FileFrame, BufferFrame, ClearerFrame,
       TOCFrame
    DEF ReadFile, memVars, writerVars, fileVars, clearerVars, tocVars, callerVars
<1>33. ASSUME NEW r \in Readers, ReadReturn(r) PROVE TypeOK'
  <2>1. TypeCaller'
    BY <1>33, BlockFacts, WorkersAssumption DEF ReadReturn, TypeCaller, ReadState,
       callerVars
  <2> QED
    BY <1>33, <2>1, MemFrame, WriterFrame, FileFrame, BufferFrame, ClearerFrame,
       TOCFrame
    DEF ReadReturn, memVars, writerVars, fileVars, clearerVars, tocVars, callerVars
<1>34. CASE Idle
  BY <1>34, MemFrame, WriterFrame, FileFrame, BufferFrame, ClearerFrame, TOCFrame,
     CallerFrame
  DEF Idle, vars, memVars, writerVars, fileVars, clearerVars, tocVars, callerVars
<1> QED
  BY <1>1, <1>2, <1>3, <1>4, <1>5, <1>6, <1>7, <1>8, <1>9, <1>10, <1>11, <1>12,
     <1>13, <1>14, <1>15, <1>16, <1>17, <1>18, <1>19, <1>20, <1>21, <1>22, <1>23,
     <1>24, <1>25, <1>26, <1>27, <1>28, <1>29, <1>30, <1>31, <1>32, <1>33, <1>34
  DEF Next, MemWriter, MemClearer, FileWriter, TOCWriter, FlushStep

-----------------------------------------------------------------------------
(* The inductive invariant *)

\* The elements of a channel after a receive, after a send, and of
\* two sequences put together.
LEMMA TailElems ==
  ASSUME NEW S, NEW s \in Seq(S), s # <<>>
  PROVE  /\ 1 \in DOMAIN s /\ Head(s) = s[1]
         /\ DOMAIN Tail(s) = 1..(Len(s) - 1)
         /\ \A i \in DOMAIN Tail(s) : /\ i + 1 \in DOMAIN s
                                      /\ i # 0
                                      /\ Tail(s)[i] = s[i + 1]
OBVIOUS

\* What Append adds to a sequence, element by element.
LEMMA AppendElems ==
  ASSUME NEW S, NEW s \in Seq(S), NEW x \in S
  PROVE  /\ DOMAIN Append(s, x) = 1..(Len(s) + 1)
         /\ DOMAIN s = 1..Len(s)
         /\ \A i \in DOMAIN Append(s, x) :
              \/ i \in DOMAIN s /\ Append(s, x)[i] = s[i]
              \/ i = Len(s) + 1 /\ i \notin DOMAIN s /\ Append(s, x)[i] = x
OBVIOUS

\* The elements of a concatenation: those of the first sequence, then of the second.
LEMMA ConcatElems ==
  ASSUME NEW S, NEW s \in Seq(S), NEW t \in Seq(S)
  PROVE  /\ \A i \in DOMAIN s : i \in DOMAIN (s \o t) /\ (s \o t)[i] = s[i]
         /\ \A i \in DOMAIN t : Len(s) + i \in DOMAIN (s \o t) /\ (s \o t)[Len(s) + i] = t[i]
OBVIOUS

\* The blocks on their way to a file, when none of them moves.
LEMMA BeforeFrame ==
  ASSUME BeforeFile, BeforeFileDistinct,
         UNCHANGED <<freeMemBlockChan, memBlock, fileMemBlockChan, inHand, blockFile, mem>>
  PROVE  BeforeFile' /\ BeforeFileDistinct'
<1>1. BeforeFile'
  BY DEF BeforeFile
<1>2. BeforeFileDistinct'
  BY DEF BeforeFileDistinct
<1> QED
  BY <1>1, <1>2

\* A memWriter sends its block to the fileWriter.
LEMMA BeforeMemRotate ==
  ASSUME TypeOK, BeforeFile, BeforeFileDistinct, NEW w \in Workers, MemRotate(w)
  PROVE  BeforeFile' /\ BeforeFileDistinct'
<1> DEFINE b == memBlock[w]
<1>1. b \in Blocks /\ blockFile[b] = 0 /\ mem[b] \in Seq(Entry)
  BY DEF MemRotate, TypeOK, TypeWriter, TypeMem, BeforeFile
<1>2. mem[b] # <<>>
  BY <1>1, CapsAssumption DEF MemRotate
<1>3. fileMemBlockChan \in Seq(Blocks \cup Marks)
  BY DEF TypeOK, TypeWriter
<1>4. /\ DOMAIN fileMemBlockChan' = 1..(Len(fileMemBlockChan) + 1)
      /\ \A i \in DOMAIN fileMemBlockChan' :
           \/ i \in DOMAIN fileMemBlockChan /\ fileMemBlockChan'[i] = fileMemBlockChan[i]
           \/ i = Len(fileMemBlockChan) + 1 /\ i \notin DOMAIN fileMemBlockChan
              /\ fileMemBlockChan'[i] = b
  BY <1>1, <1>3, AppendElems DEF MemRotate
<1>5. \A v \in Workers : memBlock'[v] = IF v = w THEN 0 ELSE memBlock[v]
  BY DEF MemRotate, TypeOK, TypeWriter
<1>6. UNCHANGED <<freeMemBlockChan, inHand, blockFile, mem>>
  BY DEF MemRotate, memVars, fileVars
<1> HIDE DEF b
<1>7. 0 \notin Blocks /\ 0 \notin Marks
  BY BlockFacts
<1>8. BeforeFile'
  BY <1>1, <1>2, <1>4, <1>5, <1>6 DEF BeforeFile
<1>9. BeforeFileDistinct'
  <2>1. \A v, u \in Workers : memBlock'[v] = memBlock'[u] /\ memBlock'[v] # 0 => v = u
    BY <1>5 DEF BeforeFileDistinct
  <2>2. \A i, j \in DOMAIN fileMemBlockChan' :
          fileMemBlockChan'[i] = fileMemBlockChan'[j] /\ fileMemBlockChan'[i] \in Blocks => i = j
    BY <1>4 DEF BeforeFileDistinct, b
  <2>3. \A v \in Workers, i \in DOMAIN freeMemBlockChan : memBlock'[v] # freeMemBlockChan[i]
    BY <1>5, <1>7 DEF BeforeFileDistinct, TypeOK, TypeMem
  <2>4. \A v \in Workers, i \in DOMAIN fileMemBlockChan' : memBlock'[v] # fileMemBlockChan'[i]
    BY <1>1, <1>3, <1>4, <1>5, <1>7 DEF BeforeFileDistinct, b
  <2>5. \A v \in Workers : memBlock'[v] # 0 => memBlock'[v] # inHand
    BY <1>5 DEF BeforeFileDistinct
  <2>6. \A i \in DOMAIN fileMemBlockChan' : inHand \in Blocks => fileMemBlockChan'[i] # inHand
    BY <1>1, <1>4, <1>7 DEF BeforeFileDistinct, b
  <2> QED
    BY <1>6, <2>1, <2>2, <2>3, <2>4, <2>5, <2>6 DEF BeforeFileDistinct
<1> QED
  BY <1>8, <1>9

\* A memWriter takes a free block.
LEMMA BeforeMemTake ==
  ASSUME TypeOK, BeforeFile, BeforeFileDistinct, NEW w \in Workers, MemTake(w)
  PROVE  BeforeFile' /\ BeforeFileDistinct'
<1> DEFINE b == Head(freeMemBlockChan)
<1>1. freeMemBlockChan \in Seq(Blocks) /\ freeMemBlockChan # <<>>
  BY DEF MemTake, TypeOK, TypeMem
<1>2. /\ 1 \in DOMAIN freeMemBlockChan /\ b = freeMemBlockChan[1]
      /\ \A i \in DOMAIN freeMemBlockChan' : /\ i + 1 \in DOMAIN freeMemBlockChan
                                            /\ i + 1 # 1
                                            /\ freeMemBlockChan'[i] = freeMemBlockChan[i + 1]
  BY <1>1, TailElems DEF MemTake
<1>3. \A v \in Workers : memBlock'[v] = IF v = w THEN b ELSE memBlock[v]
  BY DEF MemTake, TypeOK, TypeWriter
<1>4. UNCHANGED <<fileMemBlockChan, inHand, blockFile, mem>>
  BY DEF MemTake, fileVars
<1>5. b \in Blocks /\ blockFile[b] = 0 /\ mem[b] = <<>>
  BY <1>1, <1>2 DEF BeforeFile
<1> HIDE DEF b
<1>6. BeforeFile'
  <2>1. \A i \in DOMAIN freeMemBlockChan' : /\ blockFile[freeMemBlockChan'[i]] = 0
                                           /\ mem[freeMemBlockChan'[i]] = <<>>
    BY <1>2 DEF BeforeFile
  <2>2. \A v \in Workers : memBlock'[v] # 0 => blockFile[memBlock'[v]] = 0
    BY <1>3, <1>5 DEF BeforeFile
  <2> QED
    BY <1>4, <2>1, <2>2 DEF BeforeFile
<1>7. BeforeFileDistinct'
  <2>1. \A i, j \in DOMAIN freeMemBlockChan' : freeMemBlockChan'[i] = freeMemBlockChan'[j] => i = j
    <3>1. \A i, j \in DOMAIN freeMemBlockChan' :
            freeMemBlockChan'[i] = freeMemBlockChan'[j] => i + 1 = j + 1
      BY <1>2 DEF BeforeFileDistinct
    <3>2. \A i \in DOMAIN freeMemBlockChan' : i \in Int
      BY <1>1, TailElems DEF MemTake
    <3> QED
      BY <3>1, <3>2
  <2>2. \A v, u \in Workers : memBlock'[v] = memBlock'[u] /\ memBlock'[v] # 0 => v = u
    BY <1>2, <1>3 DEF BeforeFileDistinct
  <2>3. \A v \in Workers, i \in DOMAIN freeMemBlockChan' : memBlock'[v] # freeMemBlockChan'[i]
    BY <1>2, <1>3 DEF BeforeFileDistinct
  <2>4. \A v \in Workers, i \in DOMAIN fileMemBlockChan : memBlock'[v] # fileMemBlockChan[i]
    BY <1>3, <1>5 DEF BeforeFileDistinct, BeforeFile
  <2>5. \A v \in Workers : memBlock'[v] # 0 => memBlock'[v] # inHand
    BY <1>3, <1>5 DEF BeforeFileDistinct, BeforeFile
  <2> QED
    BY <1>4, <2>1, <2>2, <2>3, <2>4, <2>5 DEF BeforeFileDistinct
<1> QED
  BY <1>6, <1>7

\* A memWriter stores a value in its block.
LEMMA BeforeMemStore ==
  ASSUME TypeOK, BeforeFile, BeforeFileDistinct, NEW w \in Workers, MemStore(w)
  PROVE  BeforeFile' /\ BeforeFileDistinct'
<1> DEFINE b == memBlock[w]
<1>1. UNCHANGED <<freeMemBlockChan, memBlock, fileMemBlockChan, inHand, blockFile>>
  BY DEF MemStore, fileVars
<1>2. \A d \in Blocks : d # b => mem'[d] = mem[d]
  BY DEF MemStore, TypeOK, TypeMem
<1>3. b # 0
  BY DEF MemStore
<1> HIDE DEF b
<1>4. \A i \in DOMAIN freeMemBlockChan : freeMemBlockChan[i] \in Blocks /\ freeMemBlockChan[i] # b
  BY DEF b, BeforeFileDistinct, TypeOK, TypeMem
<1>5. \A i \in DOMAIN fileMemBlockChan : fileMemBlockChan[i] # b
  BY DEF b, BeforeFileDistinct
<1>6. inHand # b
  BY <1>3 DEF b, BeforeFileDistinct
<1>7. BeforeFile'
  BY <1>1, <1>2, <1>4, <1>5, <1>6 DEF BeforeFile
<1>8. BeforeFileDistinct'
  BY <1>1 DEF BeforeFileDistinct
<1> QED
  BY <1>7, <1>8

\* A memWriter passes a mark on.
LEMMA BeforeMemMark ==
  ASSUME TypeOK, BeforeFile, BeforeFileDistinct, NEW w \in Workers, MemMark(w)
  PROVE  BeforeFile' /\ BeforeFileDistinct'
<1>1. PICK m \in Marks : fileMemBlockChan' = Append(fileMemBlockChan, m)
  BY DEF MemMark, Marks
<1>2. \A i \in DOMAIN fileMemBlockChan' :
        \/ i \in DOMAIN fileMemBlockChan /\ fileMemBlockChan'[i] = fileMemBlockChan[i]
        \/ fileMemBlockChan'[i] \in Marks
  BY <1>1, AppendElems DEF TypeOK, TypeWriter
<1>3. UNCHANGED <<freeMemBlockChan, memBlock, inHand, blockFile, mem>>
  BY DEF MemMark, memVars, fileVars
<1>4. \A x \in Marks : x \notin Blocks /\ x # 0
  BY BlockFacts
<1>5. BeforeFile'
  BY <1>2, <1>3, <1>4 DEF BeforeFile
<1>6. BeforeFileDistinct'
  <2>1. \A i, j \in DOMAIN fileMemBlockChan' :
          fileMemBlockChan'[i] = fileMemBlockChan'[j] /\ fileMemBlockChan'[i] \in Blocks => i = j
    BY <1>2, <1>4 DEF BeforeFileDistinct
  <2>2. \A v \in Workers, i \in DOMAIN fileMemBlockChan' : memBlock[v] # fileMemBlockChan'[i]
    BY <1>2, <1>4 DEF BeforeFileDistinct, TypeOK, TypeWriter
  <2>3. \A i \in DOMAIN fileMemBlockChan' : inHand \in Blocks => fileMemBlockChan'[i] # inHand
    BY <1>2, <1>4 DEF BeforeFileDistinct
  <2> QED
    BY <1>3, <2>1, <2>2, <2>3 DEF BeforeFileDistinct
<1> QED
  BY <1>5, <1>6

\* The fileWriter receives a block or a mark.
LEMMA BeforeFileReceive ==
  ASSUME TypeOK, BeforeFile, BeforeFileDistinct, FileReceive
  PROVE  BeforeFile' /\ BeforeFileDistinct'
<1> DEFINE m == Head(fileMemBlockChan)
<1>1. fileMemBlockChan \in Seq(Blocks \cup Marks) /\ fileMemBlockChan # <<>>
  BY DEF FileReceive, TypeOK, TypeWriter
<1>2. /\ 1 \in DOMAIN fileMemBlockChan /\ m = fileMemBlockChan[1]
      /\ \A i \in DOMAIN fileMemBlockChan' : /\ i + 1 \in DOMAIN fileMemBlockChan
                                            /\ i + 1 # 1
                                            /\ fileMemBlockChan'[i] = fileMemBlockChan[i + 1]
  BY <1>1, TailElems DEF FileReceive
<1>3. UNCHANGED <<freeMemBlockChan, memBlock, blockFile, mem>>
  BY DEF FileReceive, memVars, writerVars
<1>4. inHand' = 0 \/ inHand' = m
  BY DEF FileReceive
<1> HIDE DEF m
<1>5. 0 \notin Blocks
  BY BlockFacts
<1>6. BeforeFile'
  <2>1. \A i \in DOMAIN fileMemBlockChan' : fileMemBlockChan'[i] \in Blocks =>
          blockFile[fileMemBlockChan'[i]] = 0 /\ mem[fileMemBlockChan'[i]] # <<>>
    BY <1>2 DEF BeforeFile
  <2>2. inHand' \in Blocks => blockFile[inHand'] = 0 /\ mem[inHand'] # <<>>
    BY <1>2, <1>4, <1>5 DEF BeforeFile
  <2> QED
    BY <1>3, <2>1, <2>2 DEF BeforeFile
<1>7. BeforeFileDistinct'
  <2>1. \A i, j \in DOMAIN fileMemBlockChan' :
          fileMemBlockChan'[i] = fileMemBlockChan'[j] /\ fileMemBlockChan'[i] \in Blocks => i = j
    <3>1. \A i, j \in DOMAIN fileMemBlockChan' :
            fileMemBlockChan'[i] = fileMemBlockChan'[j] /\ fileMemBlockChan'[i] \in Blocks
            => i + 1 = j + 1
      BY <1>2 DEF BeforeFileDistinct
    <3>2. \A i \in DOMAIN fileMemBlockChan' : i \in Int
      BY <1>1, TailElems DEF FileReceive
    <3> QED
      BY <3>1, <3>2
  <2>2. \A v \in Workers, i \in DOMAIN fileMemBlockChan' : memBlock[v] # fileMemBlockChan'[i]
    BY <1>2 DEF BeforeFileDistinct
  <2>3. \A v \in Workers : memBlock[v] # 0 => memBlock[v] # inHand'
    BY <1>2, <1>4 DEF BeforeFileDistinct
  <2>4. \A i \in DOMAIN fileMemBlockChan' : inHand' \in Blocks => fileMemBlockChan'[i] # inHand'
    BY <1>2, <1>4, <1>5 DEF BeforeFileDistinct
  <2> QED
    BY <1>3, <2>1, <2>2, <2>3, <2>4 DEF BeforeFileDistinct
<1> QED
  BY <1>6, <1>7

\* The fileWriter copies a block into the file, or has passed on a mark.
LEMMA BeforeFileWrite ==
  ASSUME TypeOK, BeforeFile, BeforeFileDistinct, FileWrite
  PROVE  BeforeFile' /\ BeforeFileDistinct'
<1>1. UNCHANGED <<freeMemBlockChan, memBlock, fileMemBlockChan, mem>>
  BY DEF FileWrite, memVars, writerVars
<1>2. inHand' = 0 /\ inHand \in Blocks
  BY DEF FileWrite
<1>3. \A d \in Blocks : d # inHand => blockFile'[d] = blockFile[d]
  BY DEF FileWrite, TypeOK, TypeFile
<1>4. 0 \notin Blocks
  BY BlockFacts
<1>5. BeforeFile'
  <2>1. \A i \in DOMAIN freeMemBlockChan : /\ freeMemBlockChan[i] \in Blocks
                                          /\ freeMemBlockChan[i] # inHand
    BY <1>2 DEF TypeOK, TypeMem, BeforeFile
  <2>2. \A v \in Workers : memBlock[v] # 0 => memBlock[v] \in Blocks /\ memBlock[v] # inHand
    BY DEF TypeOK, TypeWriter, BeforeFileDistinct
  <2> QED
    BY <1>1, <1>2, <1>3, <1>4, <2>1, <2>2 DEF BeforeFile, BeforeFileDistinct
<1>6. BeforeFileDistinct'
  BY <1>1, <1>2, <1>4 DEF BeforeFileDistinct
<1> QED
  BY <1>5, <1>6

\* The fileWriter passes a mark on to a memClearer.
LEMMA BeforeFileMark ==
  ASSUME TypeOK, BeforeFile, BeforeFileDistinct, FileMark
  PROVE  BeforeFile' /\ BeforeFileDistinct'
<1>1. UNCHANGED <<freeMemBlockChan, memBlock, fileMemBlockChan, blockFile, mem>>
  BY DEF FileMark, memVars, writerVars
<1>2. inHand' \notin Blocks /\ (inHand' = 0 \/ inHand' = inHand)
  BY BlockFacts DEF FileMark
<1>3. BeforeFile'
  BY <1>1, <1>2 DEF BeforeFile
<1>4. BeforeFileDistinct'
  BY <1>1, <1>2 DEF BeforeFileDistinct
<1> QED
  BY <1>3, <1>4

\* A memClearer returns its block to the pool.
LEMMA BeforeClearFree ==
  ASSUME TypeOK, BeforeFile, BeforeFileDistinct, AfterFile, NEW c \in Workers, ClearFree(c)
  PROVE  BeforeFile' /\ BeforeFileDistinct'
<1> DEFINE b == clearing[c]
<1>1. b \in Blocks /\ blockFile[b] # 0
  BY DEF ClearFree, AfterFile
<1>2. \A i \in DOMAIN freeMemBlockChan' :
        \/ i \in DOMAIN freeMemBlockChan /\ freeMemBlockChan'[i] = freeMemBlockChan[i]
        \/ i = Len(freeMemBlockChan) + 1 /\ i \notin DOMAIN freeMemBlockChan
           /\ freeMemBlockChan'[i] = b
  BY <1>1, AppendElems DEF ClearFree, TypeOK, TypeMem
<1>3. UNCHANGED <<memBlock, fileMemBlockChan, inHand>>
  BY DEF ClearFree, writerVars
<1>4. /\ mem'[b] = <<>> /\ blockFile'[b] = 0
      /\ \A d \in Blocks : d # b => mem'[d] = mem[d] /\ blockFile'[d] = blockFile[d]
  BY <1>1 DEF ClearFree, TypeOK, TypeMem, TypeFile
<1> HIDE DEF b
<1>5. \A i \in DOMAIN freeMemBlockChan : freeMemBlockChan[i] \in Blocks /\ freeMemBlockChan[i] # b
  BY <1>1 DEF BeforeFile, TypeOK, TypeMem
<1>6. \A i \in DOMAIN fileMemBlockChan : fileMemBlockChan[i] # b
  BY <1>1 DEF BeforeFile
<1>7. \A v \in Workers : memBlock[v] \in Blocks \cup {0} /\ memBlock[v] # b
  BY <1>1, BlockFacts DEF BeforeFile, TypeOK, TypeWriter
<1>8. inHand # b
  BY <1>1 DEF BeforeFile
<1>9. BeforeFile'
  BY <1>2, <1>3, <1>4, <1>5, <1>6, <1>7, <1>8 DEF BeforeFile
<1>10. BeforeFileDistinct'
  BY <1>2, <1>3, <1>5, <1>6, <1>7, <1>8 DEF BeforeFileDistinct
<1> QED
  BY <1>9, <1>10

\* The blocks on their way from a file back to the pool, when none of them moves.
LEMMA AfterFrame ==
  ASSUME AfterFile, AfterFileDistinct,
         UNCHANGED <<unwritten, freeableMemBlockChans, clearing, blockFile>>
  PROVE  AfterFile' /\ AfterFileDistinct'
<1>1. AfterFile'
  BY DEF AfterFile
<1>2. AfterFileDistinct'
  BY DEF AfterFileDistinct
<1> QED
  BY <1>1, <1>2

\* The elements of the memClearers' channels after a send.
LEMMA SendElems ==
  ASSUME NEW S, NEW f \in [Workers -> Seq(S)], NEW c \in Workers, NEW x \in S, NEW g,
         g = [f EXCEPT ![c] = Append(f[c], x)]
  PROVE  \A d \in Workers : \A i \in DOMAIN g[d] :
           \/ i \in DOMAIN f[d] /\ g[d][i] = f[d][i]
           \/ d = c /\ i = Len(f[c]) + 1 /\ i \notin DOMAIN f[d] /\ g[d][i] = x
<1> SUFFICES ASSUME NEW d \in Workers, NEW i \in DOMAIN g[d]
             PROVE  \/ i \in DOMAIN f[d] /\ g[d][i] = f[d][i]
                    \/ d = c /\ i = Len(f[c]) + 1 /\ i \notin DOMAIN f[d] /\ g[d][i] = x
  OBVIOUS
<1>1. CASE d # c
  BY <1>1
<1>2. CASE d = c
  <2>1. g[d] = Append(f[c], x) /\ f[c] \in Seq(S)
    BY <1>2
  <2> QED
    BY <1>2, <2>1, AppendElems
<1> QED
  BY <1>1, <1>2

\* Sending a mark, or a block that no memClearer has, keeps the channels of the
\* memClearers distinct.
LEMMA QueueSend ==
  ASSUME TypeOK, AfterFileDistinct, NEW c \in Workers, NEW x \in Blocks \cup Marks,
         freeableMemBlockChans' = [freeableMemBlockChans EXCEPT ![c] = Append(@, x)],
         clearing' = clearing,
         x \in Blocks => \A d \in Workers :
           /\ clearing[d] # x
           /\ \A i \in DOMAIN freeableMemBlockChans[d] : freeableMemBlockChans[d][i] # x
  PROVE  /\ \A d, e \in Workers : \A i \in DOMAIN freeableMemBlockChans'[d],
                                     j \in DOMAIN freeableMemBlockChans'[e] :
              freeableMemBlockChans'[d][i] = freeableMemBlockChans'[e][j]
              /\ freeableMemBlockChans'[d][i] \in Blocks => d = e /\ i = j
         /\ \A d, e \in Workers : \A i \in DOMAIN freeableMemBlockChans'[d] :
              clearing'[e] \in Blocks => freeableMemBlockChans'[d][i] # clearing'[e]
         /\ \A d \in Workers : \A i \in DOMAIN freeableMemBlockChans'[d] :
              \/ i \in DOMAIN freeableMemBlockChans[d]
                 /\ freeableMemBlockChans'[d][i] = freeableMemBlockChans[d][i]
              \/ freeableMemBlockChans'[d][i] = x
<1>1. \A d \in Workers : \A i \in DOMAIN freeableMemBlockChans'[d] :
        \/ i \in DOMAIN freeableMemBlockChans[d]
           /\ freeableMemBlockChans'[d][i] = freeableMemBlockChans[d][i]
        \/ d = c /\ i = Len(freeableMemBlockChans[c]) + 1
           /\ i \notin DOMAIN freeableMemBlockChans[d] /\ freeableMemBlockChans'[d][i] = x
  BY SendElems DEF TypeOK, TypeBuffer
<1>2. \A m \in Marks : m \notin Blocks
  BY BlockFacts
<1> QED
  BY <1>1, <1>2 DEF AfterFileDistinct

\* What is attached to a buffer is a block or nothing.
LEMMA BufferedBlock ==
  ASSUME TypeOK
  PROVE  \A i \in DOMAIN unwritten : unwritten[i].block \in Blocks \cup {0}
<1>1. \A i \in DOMAIN unwritten : unwritten[i] \in Buffered
  BY DEF TypeOK, TypeBuffer
<1> QED
  BY <1>1 DEF Buffered

\* The fileWriter passes a mark to a memClearer.
LEMMA AfterFileMark ==
  ASSUME TypeOK, AfterFile, AfterFileDistinct, FileMark
  PROVE  AfterFile' /\ AfterFileDistinct'
<1> DEFINE c == IF inHand = FlushMark THEN markNext + 1 ELSE NumWorkers - markNext
<1>1. c \in Workers
  BY WorkersAssumption DEF TypeOK, TypeFile, Workers
<1>2. /\ inHand \in Marks
      /\ freeableMemBlockChans' = [freeableMemBlockChans EXCEPT ![c] = Append(@, inHand)]
      /\ UNCHANGED <<unwritten, clearing, blockFile>>
  BY DEF FileMark, clearerVars
<1> HIDE DEF c
<1>3. inHand \notin Blocks /\ inHand # 0
  BY <1>2, BlockFacts
<1>4. /\ \A d, e \in Workers : \A i \in DOMAIN freeableMemBlockChans'[d],
                                  j \in DOMAIN freeableMemBlockChans'[e] :
           freeableMemBlockChans'[d][i] = freeableMemBlockChans'[e][j]
           /\ freeableMemBlockChans'[d][i] \in Blocks => d = e /\ i = j
      /\ \A d, e \in Workers : \A i \in DOMAIN freeableMemBlockChans'[d] :
           clearing'[e] \in Blocks => freeableMemBlockChans'[d][i] # clearing'[e]
      /\ \A d \in Workers : \A i \in DOMAIN freeableMemBlockChans'[d] :
           \/ i \in DOMAIN freeableMemBlockChans[d]
              /\ freeableMemBlockChans'[d][i] = freeableMemBlockChans[d][i]
           \/ freeableMemBlockChans'[d][i] = inHand
  BY <1>1, <1>2, <1>3, QueueSend
<1>5. AfterFile'
  BY <1>2, <1>3, <1>4 DEF AfterFile
<1>6. \A i \in DOMAIN unwritten : unwritten[i].block # inHand
  BY <1>2, <1>3, BufferedBlock
<1>7. AfterFileDistinct'
  BY <1>2, <1>4, <1>6 DEF AfterFileDistinct
<1> QED
  BY <1>5, <1>7

\* The fileWriter copies a block into the file.
LEMMA AfterFileWrite ==
  ASSUME TypeOK, BeforeFile, AfterFile, AfterFileDistinct, FileWrite
  PROVE  AfterFile' /\ AfterFileDistinct'
<1> DEFINE b == inHand
           stop == Len(files[fl].data) + Len(mem[inHand])
<1>1. /\ b \in Blocks /\ blockFile[b] = 0 /\ b # 0
      /\ clearing' = clearing
      /\ Attach(b, stop) \/ ReleaseNow(b, stop)
  BY BlockFacts DEF FileWrite, BeforeFile, clearerVars
<1>2. /\ blockFile'[b] # 0
      /\ \A d \in Blocks : d # b => blockFile'[d] = blockFile[d]
  BY <1>1 DEF FileWrite, TypeOK, TypeFile
<1>3. PICK x \in {b, 0} : unwritten' = Append(unwritten, [end |-> stop, block |-> x])
  BY <1>1 DEF Attach, ReleaseNow
<1> HIDE DEF b, stop
<1>4. \A d \in Workers : /\ clearing[d] # b
                         /\ \A i \in DOMAIN freeableMemBlockChans[d] : freeableMemBlockChans[d][i] # b
  BY <1>1 DEF AfterFile
<1>5. \A i \in DOMAIN unwritten : unwritten[i].block # b /\ unwritten[i].block \in Blocks \cup {0}
  BY <1>1, BufferedBlock DEF AfterFile
<1>6. /\ \A i \in DOMAIN unwritten' :
           \/ i \in DOMAIN unwritten /\ unwritten'[i] = unwritten[i]
           \/ i = Len(unwritten) + 1 /\ i \notin DOMAIN unwritten /\ unwritten'[i].block = x
  <2>1. unwritten \in Seq(Buffered \cup {[end |-> stop, block |-> x]})
    BY DEF TypeOK, TypeBuffer
  <2> HIDE DEF stop
  <2> QED
    BY <1>3, <2>1, AppendElems
<1>7. CASE Attach(b, stop)
  <2>1. freeableMemBlockChans' = freeableMemBlockChans
    BY <1>7 DEF Attach
  <2>2. AfterFile'
    BY <1>1, <1>2, <1>4, <1>5, <1>6, <2>1 DEF AfterFile
  <2>3. AfterFileDistinct'
    BY <1>1, <1>4, <1>5, <1>6, <2>1 DEF AfterFileDistinct
  <2> QED
    BY <2>2, <2>3
<1>8. CASE ReleaseNow(b, stop)
  <2>1. /\ freeableMemBlockChans' = [freeableMemBlockChans EXCEPT ![freeableIndex] = Append(@, b)]
        /\ freeableIndex \in Workers
    BY <1>8 DEF ReleaseNow, Release, TypeOK, TypeBuffer
  <2>2. \A i \in DOMAIN unwritten' :
          \/ i \in DOMAIN unwritten /\ unwritten'[i] = unwritten[i]
          \/ unwritten'[i].block = 0
    <3>1. unwritten' = Append(unwritten, [end |-> stop, block |-> 0])
      BY <1>8 DEF ReleaseNow
    <3>2. unwritten \in Seq(Buffered \cup {[end |-> stop, block |-> 0]})
      BY DEF TypeOK, TypeBuffer
    <3> QED
      BY <3>1, <3>2, AppendElems
  <2>3. /\ \A d, e \in Workers : \A i \in DOMAIN freeableMemBlockChans'[d],
                                    j \in DOMAIN freeableMemBlockChans'[e] :
             freeableMemBlockChans'[d][i] = freeableMemBlockChans'[e][j]
             /\ freeableMemBlockChans'[d][i] \in Blocks => d = e /\ i = j
        /\ \A d, e \in Workers : \A i \in DOMAIN freeableMemBlockChans'[d] :
             clearing'[e] \in Blocks => freeableMemBlockChans'[d][i] # clearing'[e]
        /\ \A d \in Workers : \A i \in DOMAIN freeableMemBlockChans'[d] :
             \/ i \in DOMAIN freeableMemBlockChans[d]
                /\ freeableMemBlockChans'[d][i] = freeableMemBlockChans[d][i]
             \/ freeableMemBlockChans'[d][i] = b
    BY <1>1, <1>4, <2>1, QueueSend
  <2>4. AfterFile'
    BY <1>1, <1>2, <1>4, <1>5, <2>2, <2>3 DEF AfterFile
  <2>5. AfterFileDistinct'
    BY <1>1, <1>4, <1>5, <2>2, <2>3 DEF AfterFileDistinct
  <2> QED
    BY <2>4, <2>5
<1> QED
  BY <1>1, <1>7, <1>8

\* A buffer reaches the disk and its block goes to a memClearer.
LEMMA AfterBufferWritten ==
  ASSUME TypeOK, AfterFile, AfterFileDistinct, BufferWritten
  PROVE  AfterFile' /\ AfterFileDistinct'
<1> DEFINE b == Head(unwritten).block
<1>1. /\ unwritten \in Seq(Buffered) /\ unwritten # <<>> /\ unwritten' = Tail(unwritten)
      /\ UNCHANGED <<clearing, blockFile>>
  BY DEF BufferWritten, TypeOK, TypeBuffer, clearerVars
<1>2. /\ 1 \in DOMAIN unwritten /\ b = unwritten[1].block
      /\ \A i \in DOMAIN unwritten' : /\ i + 1 \in DOMAIN unwritten
                                      /\ i + 1 # 1
                                      /\ unwritten'[i] = unwritten[i + 1]
  BY <1>1, TailElems
<1>3. \A i, j \in DOMAIN unwritten' : i + 1 = j + 1 => i = j
  <2>1. \A i \in DOMAIN unwritten' : i \in Int
    BY <1>1, TailElems
  <2> QED
    BY <2>1
<1>4. b \in Blocks \cup {0}
  BY <1>2, BufferedBlock
<1>5. \A i, j \in DOMAIN unwritten' :
        unwritten'[i].block = unwritten'[j].block /\ unwritten'[i].block # 0 => i = j
  <2>1. \A i, j \in DOMAIN unwritten' :
          unwritten'[i].block = unwritten'[j].block /\ unwritten'[i].block # 0 => i + 1 = j + 1
    BY <1>2 DEF AfterFileDistinct
  <2> QED
    BY <1>3, <2>1
<1>6. \A i \in DOMAIN unwritten' : unwritten'[i].block # 0 =>
        /\ unwritten'[i].block # b
        /\ blockFile[unwritten'[i].block] # 0
  BY <1>2 DEF AfterFileDistinct, AfterFile
<1>7. \A i \in DOMAIN unwritten', c \in Workers : unwritten'[i].block # 0 =>
        /\ unwritten'[i].block # clearing[c]
        /\ \A j \in DOMAIN freeableMemBlockChans[c] :
             unwritten'[i].block # freeableMemBlockChans[c][j]
  BY <1>2 DEF AfterFileDistinct
<1>8. CASE b = 0
  <2>1. freeableMemBlockChans' = freeableMemBlockChans
    BY <1>8 DEF BufferWritten
  <2>2. AfterFile'
    BY <1>1, <1>6, <2>1 DEF AfterFile
  <2>3. AfterFileDistinct'
    BY <1>1, <1>5, <1>7, <2>1 DEF AfterFileDistinct
  <2> QED
    BY <2>2, <2>3
<1>9. CASE b # 0
  <2>1. /\ freeableMemBlockChans' = [freeableMemBlockChans EXCEPT ![freeableIndex] = Append(@, b)]
        /\ freeableIndex \in Workers
        /\ b \in Blocks
    BY <1>4, <1>9 DEF BufferWritten, Release, TypeOK, TypeBuffer
  <2> HIDE DEF b
  <2>2. \A d \in Workers : /\ clearing[d] # b
                           /\ \A i \in DOMAIN freeableMemBlockChans[d] : freeableMemBlockChans[d][i] # b
    BY <1>2, <1>9 DEF AfterFileDistinct
  <2>3. /\ \A d, e \in Workers : \A i \in DOMAIN freeableMemBlockChans'[d],
                                    j \in DOMAIN freeableMemBlockChans'[e] :
             freeableMemBlockChans'[d][i] = freeableMemBlockChans'[e][j]
             /\ freeableMemBlockChans'[d][i] \in Blocks => d = e /\ i = j
        /\ \A d, e \in Workers : \A i \in DOMAIN freeableMemBlockChans'[d] :
             clearing'[e] \in Blocks => freeableMemBlockChans'[d][i] # clearing'[e]
        /\ \A d \in Workers : \A i \in DOMAIN freeableMemBlockChans'[d] :
             \/ i \in DOMAIN freeableMemBlockChans[d]
                /\ freeableMemBlockChans'[d][i] = freeableMemBlockChans[d][i]
             \/ freeableMemBlockChans'[d][i] = b
    BY <1>1, <2>1, <2>2, QueueSend
  <2>4. blockFile[b] # 0
    BY <1>2, <1>9 DEF AfterFile
  <2>5. AfterFile'
    BY <1>1, <1>6, <2>3, <2>4 DEF AfterFile
  <2>6. AfterFileDistinct'
    BY <1>1, <1>5, <1>6, <1>7, <2>3 DEF AfterFileDistinct
  <2> QED
    BY <2>5, <2>6
<1> QED
  BY <1>8, <1>9

\* A memClearer receives a block or a mark.
LEMMA AfterClearReceive ==
  ASSUME TypeOK, AfterFile, AfterFileDistinct, NEW c \in Workers, ClearReceive(c)
  PROVE  AfterFile' /\ AfterFileDistinct'
<1> DEFINE q == freeableMemBlockChans[c]
           b == Head(q)
<1>1. /\ q \in Seq(Blocks \cup Marks) /\ q # <<>>
      /\ \A d \in Workers : freeableMemBlockChans'[d] = IF d = c THEN Tail(q)
                                                        ELSE freeableMemBlockChans[d]
      /\ \A d \in Workers : clearing'[d] = IF d = c THEN b ELSE clearing[d]
      /\ UNCHANGED <<unwritten, blockFile>>
  BY DEF ClearReceive, TypeOK, TypeBuffer, TypeClearer, fileVars
<1>2. /\ 1 \in DOMAIN q /\ b = q[1]
      /\ \A i \in DOMAIN Tail(q) : i + 1 \in DOMAIN q /\ i + 1 # 1 /\ Tail(q)[i] = q[i + 1]
  BY <1>1, TailElems
<1>3. \A i, j \in DOMAIN Tail(q) : i + 1 = j + 1 => i = j
  <2>1. \A i \in DOMAIN Tail(q) : i \in Int
    BY <1>1, TailElems
  <2> QED
    BY <2>1
<1> DEFINE t == Tail(q)
<1> HIDE DEF b, t
<1>4. /\ \A i \in DOMAIN t : i + 1 \in DOMAIN q /\ i + 1 # 1 /\ t[i] = q[i + 1]
      /\ freeableMemBlockChans'[c] = t
      /\ \A d \in Workers \ {c} : freeableMemBlockChans'[d] = freeableMemBlockChans[d]
      /\ clearing'[c] = b
      /\ \A d \in Workers \ {c} : clearing'[d] = clearing[d]
  BY <1>1, <1>2 DEF t
<1>5. AfterFile'
  <2>1. \A i \in DOMAIN q : q[i] \in Blocks => blockFile[q[i]] # 0
    BY DEF AfterFile
  <2>2. \A d \in Workers : \A i \in DOMAIN freeableMemBlockChans'[d] :
          freeableMemBlockChans'[d][i] \in Blocks => blockFile[freeableMemBlockChans'[d][i]] # 0
    <3> SUFFICES ASSUME NEW d \in Workers, NEW i \in DOMAIN freeableMemBlockChans'[d],
                        freeableMemBlockChans'[d][i] \in Blocks
                 PROVE  blockFile[freeableMemBlockChans'[d][i]] # 0
      OBVIOUS
    <3>1. CASE d = c
      BY <1>4, <2>1, <3>1
    <3>2. CASE d # c
      BY <1>4, <3>2 DEF AfterFile
    <3> QED
      BY <3>1, <3>2
  <2>3. \A d \in Workers : clearing'[d] \in Blocks => blockFile[clearing'[d]] # 0
    BY <1>2, <1>4, <2>1 DEF AfterFile
  <2> QED
    BY <1>1, <2>2, <2>3 DEF AfterFile
<1>6. AfterFileDistinct'
  <2>1. \A d \in Workers : \A i \in DOMAIN freeableMemBlockChans'[d] :
          \E j \in DOMAIN freeableMemBlockChans[d] :
            /\ freeableMemBlockChans'[d][i] = freeableMemBlockChans[d][j]
            /\ IF d = c THEN j = i + 1 /\ j # 1 ELSE j = i
    BY <1>4
  <2>2. \A d, e \in Workers : \A i \in DOMAIN freeableMemBlockChans'[d],
                                 j \in DOMAIN freeableMemBlockChans'[e] :
          freeableMemBlockChans'[d][i] = freeableMemBlockChans'[e][j]
          /\ freeableMemBlockChans'[d][i] \in Blocks => d = e /\ i = j
    <3> SUFFICES ASSUME NEW d \in Workers, NEW e \in Workers,
                        NEW i \in DOMAIN freeableMemBlockChans'[d],
                        NEW j \in DOMAIN freeableMemBlockChans'[e],
                        freeableMemBlockChans'[d][i] = freeableMemBlockChans'[e][j],
                        freeableMemBlockChans'[d][i] \in Blocks
                 PROVE  d = e /\ i = j
      OBVIOUS
    <3>1. d = e
      BY <2>1 DEF AfterFileDistinct
    <3>2. CASE d = c
      <4>1. i + 1 = j + 1
        BY <2>1, <3>1, <3>2 DEF AfterFileDistinct
      <4>2. i \in DOMAIN Tail(q) /\ j \in DOMAIN Tail(q)
        BY <1>4, <3>1, <3>2 DEF t
      <4> QED
        BY <1>3, <3>1, <4>1, <4>2
    <3>3. CASE d # c
      BY <2>1, <3>1, <3>3 DEF AfterFileDistinct
    <3> QED
      BY <3>1, <3>2, <3>3
  <2>3. \A d, e \in Workers : clearing'[d] = clearing'[e] /\ clearing'[d] \in Blocks => d = e
    BY <1>2, <1>4 DEF AfterFileDistinct
  <2>4. \A i \in DOMAIN unwritten, d \in Workers : unwritten[i].block # 0 =>
          /\ unwritten[i].block # clearing'[d]
          /\ \A j \in DOMAIN freeableMemBlockChans'[d] :
               unwritten[i].block # freeableMemBlockChans'[d][j]
    <3>1. \A i \in DOMAIN unwritten, d \in Workers : unwritten[i].block # 0 =>
            unwritten[i].block # clearing'[d]
      BY <1>2, <1>4 DEF AfterFileDistinct
    <3> QED
      BY <2>1, <3>1 DEF AfterFileDistinct
  <2>5. \A d, e \in Workers : \A i \in DOMAIN freeableMemBlockChans'[d] :
          clearing'[e] \in Blocks => freeableMemBlockChans'[d][i] # clearing'[e]
    <3> SUFFICES ASSUME NEW d \in Workers, NEW e \in Workers,
                        NEW i \in DOMAIN freeableMemBlockChans'[d], clearing'[e] \in Blocks,
                        freeableMemBlockChans'[d][i] = clearing'[e]
                 PROVE  FALSE
      OBVIOUS
    <3>1. CASE e = c
      BY <1>2, <1>4, <2>1, <3>1 DEF AfterFileDistinct
    <3>2. CASE e # c
      BY <1>4, <2>1, <3>2 DEF AfterFileDistinct
    <3> QED
      BY <3>1, <3>2
  <2> QED
    BY <1>1, <2>2, <2>3, <2>4, <2>5 DEF AfterFileDistinct
<1> QED
  BY <1>5, <1>6

\* A memClearer is done with its block or its mark.
LEMMA AfterClearDone ==
  ASSUME TypeOK, AfterFile, AfterFileDistinct, NEW c \in Workers,
         ClearFree(c) \/ ClearMark(c)
  PROVE  AfterFile' /\ AfterFileDistinct'
<1>1. /\ \A d \in Workers : clearing'[d] = IF d = c THEN 0 ELSE clearing[d]
      /\ UNCHANGED <<unwritten, freeableMemBlockChans>>
  BY DEF ClearFree, ClearMark, TypeOK, TypeClearer, fileVars
<1>2. \A d \in Blocks : d # clearing[c] => blockFile'[d] = blockFile[d]
  BY DEF ClearFree, ClearMark, TypeOK, TypeFile, fileVars
<1>3. 0 \notin Blocks
  BY BlockFacts
<1>4. clearing[c] \in Blocks \/ blockFile' = blockFile
  BY DEF ClearFree, ClearMark, fileVars
<1>5. AfterFile'
  <2>1. \A i \in DOMAIN unwritten : unwritten[i].block # 0 =>
          unwritten[i].block \in Blocks /\ unwritten[i].block # clearing[c]
    BY BufferedBlock DEF AfterFileDistinct
  <2>2. \A d \in Workers : \A i \in DOMAIN freeableMemBlockChans[d] :
          clearing[c] \in Blocks => freeableMemBlockChans[d][i] # clearing[c]
    BY DEF AfterFileDistinct
  <2>3. \A d \in Workers : d # c /\ clearing[c] \in Blocks => clearing[d] # clearing[c]
    BY DEF AfterFileDistinct
  <2> QED
    BY <1>1, <1>2, <1>3, <1>4, <2>1, <2>2, <2>3 DEF AfterFile
<1>6. AfterFileDistinct'
  BY <1>1, <1>3 DEF AfterFileDistinct
<1> QED
  BY <1>5, <1>6

\* Files only grow: what a file has, it keeps.
LEMMA FilesKept ==
  ASSUME TypeOK,
         FileCreate \/ FileWrite \/ BufferWritten \/ TOCBlockWritten \/ UNCHANGED files
  PROVE  \A n, off, e : FileHas(n, off, e) => FileHas(n, off, e)'
<1> SUFFICES ASSUME NEW n, NEW off, NEW e, FileHas(n, off, e)
             PROVE  /\ n \in DOMAIN files'
                    /\ off \in DOMAIN files'[n].data
                    /\ files'[n].data[off] = e
  BY DEF FileHas
<1>1. /\ n \in DOMAIN files /\ off \in DOMAIN files[n].data /\ files[n].data[off] = e
      /\ files \in Seq(FileRec)
  BY DEF FileHas, TypeOK, TypeFile
<1>2. CASE UNCHANGED files
  BY <1>1, <1>2
<1>3. CASE FileCreate
  <2> DEFINE f == [data |-> <<>>, synced |-> 0, toc |-> <<>>]
  <2>1. f \in FileRec /\ files' = Append(files, f)
    BY <1>3 DEF FileCreate, FileRec
  <2> HIDE DEF f
  <2>2. n \in DOMAIN files' /\ files'[n] = files[n]
    BY <1>1, <2>1
  <2> QED
    BY <1>1, <2>2
<1>4. CASE BufferWritten
  <2>1. n \in DOMAIN files' /\ files'[n].data = files[n].data
    <3>1. files' = [files EXCEPT ![fl].synced = Head(unwritten).end]
      BY <1>4 DEF BufferWritten
    <3>2. files[n] \in FileRec
      BY <1>1
    <3> QED
      BY <1>1, <3>1, <3>2 DEF FileRec
  <2> QED
    BY <1>1, <2>1
<1>5. CASE TOCBlockWritten
  <2>1. n \in DOMAIN files' /\ files'[n].data = files[n].data
    <3>1. PICK m, x : files' = [files EXCEPT ![m].toc = x]
      BY <1>5 DEF TOCBlockWritten
    <3>2. files[n] \in FileRec
      BY <1>1
    <3> QED
      BY <1>1, <3>1, <3>2 DEF FileRec
  <2> QED
    BY <1>1, <2>1
<1>6. CASE FileWrite
  <2>1. files' = [files EXCEPT ![fl].data = files[fl].data \o mem[inHand]]
    BY <1>6 DEF FileWrite
  <2>2. files[n] \in FileRec /\ mem[inHand] \in Seq(Entry)
    BY <1>1, <1>6 DEF FileWrite, TypeOK, TypeMem
  <2>3. files[n].data \in Seq(Entry)
    BY <2>2 DEF FileRec
  <2>4. CASE n = fl
    <3>1. n \in DOMAIN files' /\ files'[n].data = files[n].data \o mem[inHand]
      BY <1>1, <2>1, <2>2, <2>4 DEF FileRec
    <3> DEFINE d == files[n].data
               m == mem[inHand]
    <3>2. d \in Seq(Entry) /\ m \in Seq(Entry)
      BY <2>2, <2>3
    <3> HIDE DEF d, m
    <3>3. \A i \in DOMAIN d : i \in DOMAIN (d \o m) /\ (d \o m)[i] = d[i]
      BY <3>2, ConcatElems
    <3> QED
      BY <1>1, <3>1, <3>3 DEF d, m
  <2>5. CASE n # fl
    <3>1. n \in DOMAIN files' /\ files'[n] = files[n]
      BY <1>1, <2>1, <2>5
    <3> QED
      BY <1>1, <3>1
  <2> QED
    BY <2>4, <2>5
<1> QED
  BY <1>2, <1>3, <1>4, <1>5, <1>6

\* The parts of Content when what they are about stands.
LEMMA BlockInFileFrame ==
  ASSUME BlockInFile, UNCHANGED <<mem, blockFile, blockOffset>>,
         \A n, off, e : FileHas(n, off, e) => FileHas(n, off, e)'
  PROVE  BlockInFile'
BY DEF BlockInFile

\* Locations stay good while nothing they depend on changes.
LEMMA LocationFrame ==
  ASSUME NEW k \in Keys, LocationOK(k), locmap'[k] = locmap[k],
         UNCHANGED <<mem, clearing, clearPos, tbFull>>,
         \A n, off, e : FileHas(n, off, e) => FileHas(n, off, e)'
  PROVE  LocationOK(k)'
BY DEF LocationOK

\* A memClearer at an entry stays there while it does not move.
LEMMA AtEntryFrame ==
  ASSUME AtEntry, UNCHANGED <<mem, clearing, clearPos, tbFull>>
  PROVE  AtEntry'
BY DEF AtEntry

\* Reads stay good while files only grow and the Reads do not move.
LEMMA ReadFrame ==
  ASSUME NEW r \in Readers, ReadOK(r), read'[r] = read[r],
         \A n, off, e : FileHas(n, off, e) => FileHas(n, off, e)'
  PROVE  ReadOK(r)'
BY DEF ReadOK

\* Content stays while nothing it depends on changes.
LEMMA ContentFrame ==
  ASSUME Content,
         UNCHANGED <<locmap, mem, blockFile, blockOffset, clearing, clearPos, tbFull, read>>,
         \A n, off, e : FileHas(n, off, e) => FileHas(n, off, e)'
  PROVE  Content'
BY BlockInFileFrame, LocationFrame, AtEntryFrame, ReadFrame DEF Content

\* A location without a key: nothing is referred to.
LEMMA MissingOK ==
  ASSUME NEW k \in Keys, locmap'[k] = Missing
  PROVE  LocationOK(k)'
BY BlockFacts DEF LocationOK, Missing

\* Storing a value: the block keeps it exactly when the location moves to it.
LEMMA KeepsIffWins ==
  ASSUME NEW cur, cur.ts \in Nat, NEW ts \in Nat
  PROVE  Wins(cur, NoRewrite(ts), HasBit(ts, TSB_COMPACTION_REWRITE)) <=> KeepsValue(cur.ts, ts)
<1>1. ts \div 1 = ts /\ ts % 2 \in {0, 1}
  OBVIOUS
<1> QED
  BY <1>1 DEF Wins, NoRewrite, HasBit, TSB_COMPACTION_REWRITE, KeepsValue

\* A memWriter stores a value: the new location refers to the entry it appends.
LEMMA ContentMemStore ==
  ASSUME TypeOK, BeforeFile, AfterFile, Content, NEW w \in Workers, MemStore(w)
  PROVE  Content'
<1> DEFINE r == req[w]
           b == memBlock[w]
           e == [key |-> r.key, ts |-> NoRewrite(r.ts)]
<1>1. /\ r \in Requests /\ r.key \in Keys /\ r.ts \in Nat
  BY RequestsAssumption
  DEF MemStore, TypeOK, TypeWriter, Request, NoReq, FlushReq, ShutdownReq, StoppedReq
<1>2. /\ b \in Blocks /\ blockFile[b] = 0 /\ b # 0
      /\ \A c \in Workers : clearing[c] # b
      /\ mem[b] \in Seq(Entry)
  BY DEF MemStore, TypeOK, TypeWriter, TypeMem, BeforeFile, AfterFile
<1>3. e \in Entry
  BY <1>1, NoRewriteFacts DEF Entry
<1>4. locmap[r.key].ts \in Nat
  BY <1>1 DEF TypeOK, TypeMem, Location
<1>5. UNCHANGED <<blockFile, blockOffset, clearing, clearPos, tbFull, read, files>>
  BY DEF MemStore, fileVars, clearerVars, callerVars
<1>6. \/ mem' = mem /\ locmap' = locmap
      \/ /\ mem' = [mem EXCEPT ![b] = Append(mem[b], e)]
         /\ locmap' = [locmap EXCEPT ![r.key] = [ts |-> e.ts, id |-> b, off |-> Len(mem[b]) + 1]]
  <2>1. Wins(locmap[r.key], NoRewrite(r.ts), HasBit(r.ts, TSB_COMPACTION_REWRITE))
        <=> KeepsValue(locmap[r.key].ts, r.ts)
    BY <1>1, <1>4, KeepsIffWins
  <2> QED
    BY <1>2, <2>1 DEF MemStore, Set
<1> HIDE DEF b, e
<1>7. \A n, off, x : FileHas(n, off, x) => FileHas(n, off, x)'
  BY <1>5, FilesKept
<1>8. CASE mem' = mem /\ locmap' = locmap
  BY <1>5, <1>7, <1>8, ContentFrame
<1>9. CASE /\ mem' = [mem EXCEPT ![b] = Append(mem[b], e)]
           /\ locmap' = [locmap EXCEPT ![r.key] = [ts |-> e.ts, id |-> b, off |-> Len(mem[b]) + 1]]
  <2>1. /\ \A d \in Blocks : d # b => mem'[d] = mem[d]
        /\ mem'[b] = Append(mem[b], e)
    BY <1>2, <1>9 DEF TypeOK, TypeMem
  <2>2. /\ \A i \in DOMAIN mem[b] : i \in DOMAIN mem'[b] /\ mem'[b][i] = mem[b][i]
        /\ \A i \in DOMAIN mem'[b] : i \in DOMAIN mem[b] \/ mem'[b][i] = e
        /\ Len(mem[b]) + 1 \in DOMAIN mem'[b] /\ mem'[b][Len(mem[b]) + 1] = e
    BY <1>2, <1>3, <2>1
  <2>3. BlockInFile'
    BY <1>2, <1>5, <1>7, <2>1 DEF Content, BlockInFile
  <2>4. \A k \in Keys : LocationOK(k)'
    <3> SUFFICES ASSUME NEW k \in Keys PROVE LocationOK(k)'
      OBVIOUS
    <3>1. CASE k = r.key
      <4>1. locmap'[k] = [ts |-> e.ts, id |-> b, off |-> Len(mem[b]) + 1]
        BY <1>9, <3>1 DEF TypeOK, TypeMem, Location
      <4>2. e = [key |-> k, ts |-> e.ts]
        BY <3>1 DEF e
      <4> QED
        BY <1>2, <1>5, <2>2, <4>1, <4>2 DEF LocationOK
    <3>2. CASE k # r.key
      <4>1. locmap'[k] = locmap[k]
        BY <1>9, <3>2 DEF TypeOK, TypeMem, Location
      <4>2. LocationOK(k)
        BY DEF Content
      <4>3. locmap[k].id \in Blocks =>
              /\ locmap[k].off \in DOMAIN mem'[locmap[k].id]
              /\ mem'[locmap[k].id][locmap[k].off] = mem[locmap[k].id][locmap[k].off]
        BY <2>1, <2>2, <4>2 DEF LocationOK
      <4> QED
        BY <1>5, <1>7, <4>1, <4>2, <4>3 DEF LocationOK
    <3> QED
      BY <3>1, <3>2
  <2>5. AtEntry'
    BY <1>2, <1>5, <2>1 DEF Content, AtEntry
  <2>6. \A q \in Readers : ReadOK(q)'
    BY <1>5, <1>7, ReadFrame DEF Content
  <2> QED
    BY <2>3, <2>4, <2>5, <2>6 DEF Content
<1> QED
  BY <1>6, <1>8, <1>9

\* The fileWriter copies a block: it is in the file at the offset it records.
LEMMA ContentFileWrite ==
  ASSUME TypeOK, Content, FileWrite
  PROVE  Content'
<1> DEFINE b == inHand
           d == files[fl].data
           m == mem[b]
<1>1. b \in Blocks /\ fl \in DOMAIN files /\ m \in Seq(Entry)
  BY DEF FileWrite, TypeOK, TypeMem, TypeFile
<1>2. files[fl] \in FileRec
  BY <1>1 DEF TypeOK, TypeFile
<1>3. d \in Seq(Entry)
  BY <1>2 DEF FileRec
<1>4. fl \in DOMAIN files' /\ files'[fl].data = d \o m
  BY <1>1, <1>2 DEF FileWrite, FileRec
<1>5. /\ UNCHANGED <<locmap, mem, clearing, clearPos, tbFull, read>>
      /\ blockFile'[b] = fl /\ blockOffset'[b] = Len(d)
      /\ \A a \in Blocks : a # b => blockFile'[a] = blockFile[a] /\ blockOffset'[a] = blockOffset[a]
  BY <1>1 DEF FileWrite, memVars, clearerVars, callerVars, TypeOK, TypeFile
<1>6. \A n, off, e : FileHas(n, off, e) => FileHas(n, off, e)'
  BY FilesKept
<1> HIDE DEF b, d, m
<1>7. \A i \in DOMAIN m : Len(d) + i \in DOMAIN (d \o m) /\ (d \o m)[Len(d) + i] = m[i]
  BY <1>1, <1>3, ConcatElems
<1>8. BlockInFile'
  <2> SUFFICES ASSUME NEW a \in Blocks, blockFile'[a] # 0, NEW i \in DOMAIN mem[a],
                      NEW n, NEW off, NEW e,
                      n = blockFile'[a], off = blockOffset'[a] + i, e = mem[a][i]
               PROVE  FileHas(n, off, e)'
    BY <1>5 DEF BlockInFile, FileHas
  <2>1. CASE a = b
    BY <1>4, <1>5, <1>7, <2>1 DEF FileHas, m
  <2>2. CASE a # b
    BY <1>5, <1>6, <2>2 DEF Content, BlockInFile
  <2> QED
    BY <2>1, <2>2
<1> QED
  BY <1>5, <1>6, <1>8, LocationFrame, AtEntryFrame, ReadFrame DEF Content

\* A memClearer begins with a block: all entries are still to be moved.
LEMMA ContentClearReceive ==
  ASSUME TypeOK, Content, NEW c \in Workers, ClearReceive(c)
  PROVE  Content'
<1>1. /\ UNCHANGED <<locmap, mem, blockFile, blockOffset, tbFull, read, files>>
      /\ \A d \in Workers : d # c => clearing'[d] = clearing[d] /\ clearPos'[d] = clearPos[d]
      /\ clearPos'[c] = 1
  BY DEF ClearReceive, memVars, fileVars, callerVars, TypeOK, TypeClearer
<1>2. ~tbFull[c]
  BY BlockFacts DEF ClearReceive, Content, AtEntry
<1>3. \A n, off, e : FileHas(n, off, e) => FileHas(n, off, e)'
  BY <1>1, FilesKept
<1>4. \A k \in Keys : LocationOK(k)'
  <2> SUFFICES ASSUME NEW k \in Keys PROVE LocationOK(k)'
    OBVIOUS
  <2>1. LocationOK(k)
    BY DEF Content
  <2>2. locmap[k].id \in Blocks => locmap[k].off >= 1
    <3>1. locmap[k].id \in Blocks => mem[locmap[k].id] \in Seq(Entry)
      BY DEF TypeOK, TypeMem
    <3> QED
      BY <2>1, <3>1 DEF LocationOK
  <2> QED
    BY <1>1, <1>2, <1>3, <2>1, <2>2 DEF LocationOK
<1>5. AtEntry'
  BY <1>1, <1>2 DEF Content, AtEntry
<1> QED
  BY <1>1, <1>3, <1>4, <1>5, BlockInFileFrame, ReadFrame DEF Content

\* The location of an entry that a memClearer has just moved is not in a block.
LEMMA ContentClearEntry ==
  ASSUME TypeOK, AfterFile, Content, NEW c \in Workers, ClearEntry(c)
  PROVE  Content'
<1> DEFINE b == clearing[c]
           p == clearPos[c]
           m == mem[b][p]
           e == TOCEntryAt(c)
           id == IF HasBit(e.ts, TSB_LOCAL_REMOVAL) THEN 0 ELSE FileID(blockFile[b])
<1>1. /\ b \in Blocks /\ blockFile[b] # 0 /\ blockFile[b] \in Nat
      /\ mem[b] \in Seq(Entry) /\ p \in Nat \ {0} /\ p <= Len(mem[b])
      /\ ~tbFull[c]
  BY DEF ClearEntry, AfterFile, TypeOK, TypeFile, TypeMem, TypeClearer
<1>2. p \in DOMAIN mem[b] /\ m \in Entry
  BY <1>1
<1>3. m.key \in Keys /\ m.ts \in Nat /\ m = [key |-> m.key, ts |-> m.ts]
  BY <1>2 DEF Entry
<1>4. e.key = m.key /\ e.ts = m.ts /\ (id # 0 => e.off = blockOffset[b] + p)
  BY DEF TOCEntryAt
<1>5. FileHas(blockFile[b], blockOffset[b] + p, m)
  BY <1>1, <1>2 DEF Content, BlockInFile
<1>6. id # 0 => id \notin Blocks /\ id - NumBlocks = blockFile[b]
  BY <1>1, BlockFacts DEF FileID, Blocks
<1>7. /\ UNCHANGED <<mem, blockFile, blockOffset, clearing, files, read>>
      /\ locmap' = Set(locmap, e.key, e.ts, id, e.off, TRUE)
  BY DEF ClearEntry, memVars, fileVars, callerVars
<1>8. \A n, off, x : FileHas(n, off, x) => FileHas(n, off, x)'
  BY <1>7, FilesKept
<1>9. /\ \A d \in Workers : d # c => clearPos'[d] = clearPos[d] /\ tbFull'[d] = tbFull[d]
      /\ \/ clearPos'[c] = p /\ locmap[e.key].ts <= e.ts /\ tbFull'[c]
         \/ clearPos'[c] = p + 1 /\ ~tbFull'[c]
  <2>1. locmap[e.key].ts \in Nat
    BY <1>3, <1>4 DEF TypeOK, TypeMem, Location
  <2>2. \/ clearPos' = clearPos /\ tbFull' = [tbFull EXCEPT ![c] = TRUE] /\ ~(locmap[e.key].ts > e.ts)
        \/ clearPos' = [clearPos EXCEPT ![c] = p + 1] /\ tbFull' = tbFull
    BY DEF ClearEntry
  <2> HIDE DEF e
  <2> QED
    BY <1>1, <1>3, <1>4, <2>1, <2>2 DEF TypeOK, TypeClearer
<1> HIDE DEF b, p, m, e, id
<1>10. \A k \in Keys : LocationOK(k)'
  <2> SUFFICES ASSUME NEW k \in Keys PROVE LocationOK(k)'
    OBVIOUS
  <2>1. LocationOK(k) /\ locmap[k].ts \in Nat /\ locmap[k].off \in Nat
    BY DEF Content, TypeOK, TypeMem, Location
  <2>2. CASE k = m.key /\ locmap[k].ts <= m.ts
    <3>1. locmap'[k] = IF id = 0 THEN Missing ELSE [ts |-> m.ts, id |-> id, off |-> e.off]
      <4>1. Wins(locmap[k], m.ts, TRUE)
        BY <1>3, <2>1, <2>2 DEF Wins
      <4> QED
        BY <1>3, <1>4, <1>7, <2>2, <4>1 DEF Set, TypeOK, TypeMem, Location
    <3>2. CASE id = 0
      BY <3>1, <3>2, MissingOK
    <3>3. CASE id # 0
      <4>1. locmap'[k] = [ts |-> m.ts, id |-> id, off |-> blockOffset[b] + p]
        BY <1>4, <3>1, <3>3
      <4>2. /\ id - NumBlocks \in DOMAIN files
            /\ blockOffset[b] + p \in DOMAIN files[id - NumBlocks].data
            /\ files[id - NumBlocks].data[blockOffset[b] + p] = [key |-> k, ts |-> m.ts]
        BY <1>3, <1>5, <1>6, <2>2, <3>3 DEF FileHas
      <4>3. locmap'[k].id = id /\ locmap'[k].off = blockOffset[b] + p /\ locmap'[k].ts = m.ts
        BY <4>1
      <4>4. locmap'[k].id \notin Blocks
        BY <1>6, <3>3, <4>3
      <4>5. FileHas(locmap[k].id - NumBlocks, locmap[k].off, [key |-> k, ts |-> locmap[k].ts])'
        BY <1>7, <4>2, <4>3 DEF FileHas
      <4> QED
        BY <4>4, <4>5 DEF LocationOK
    <3> QED
      BY <3>2, <3>3
  <2>3. CASE ~(k = m.key /\ locmap[k].ts <= m.ts)
    <3>1. locmap'[k] = locmap[k]
      <4>1. k = m.key => ~Wins(locmap[k], m.ts, TRUE)
        BY <1>3, <2>1, <2>3 DEF Wins
      <4> QED
        BY <1>3, <1>4, <1>7, <4>1 DEF Set, TypeOK, TypeMem, Location
    <3>2. locmap[k].id = b => locmap[k].off # p
      <4> SUFFICES ASSUME locmap[k].id = b, locmap[k].off = p PROVE FALSE
        OBVIOUS
      <4>1. m = [key |-> k, ts |-> locmap[k].ts]
        BY <1>1, <2>1 DEF LocationOK, m
      <4>2. m.key = k /\ m.ts = locmap[k].ts
        BY <4>1
      <4> QED
        BY <1>3, <2>3, <4>2
    <3>3. \A d \in Workers : clearing[d] = locmap[k].id /\ locmap[k].id \in Blocks =>
            /\ locmap[k].off >= clearPos'[d]
            /\ tbFull'[d] => locmap[k].off # clearPos'[d]
      <4> SUFFICES ASSUME NEW d \in Workers, clearing[d] = locmap[k].id, locmap[k].id \in Blocks
                   PROVE  /\ locmap[k].off >= clearPos'[d]
                          /\ tbFull'[d] => locmap[k].off # clearPos'[d]
        OBVIOUS
      <4>1. CASE d = c
        <5>1. locmap[k].off >= p /\ locmap[k].off # p
          BY <2>1, <3>2, <4>1 DEF LocationOK, b, p
        <5> QED
          BY <1>1, <1>9, <2>1, <4>1, <5>1
      <4>2. CASE d # c
        BY <1>9, <2>1, <4>2 DEF LocationOK
      <4> QED
        BY <4>1, <4>2
    <3> QED
      BY <1>7, <1>8, <2>1, <3>1, <3>3 DEF LocationOK
  <2> QED
    BY <2>2, <2>3
<1>11. AtEntry'
  BY <1>1, <1>2, <1>7, <1>9 DEF Content, AtEntry, b, p
<1> QED
  BY <1>7, <1>8, <1>10, <1>11, BlockInFileFrame, ReadFrame DEF Content

\* A memClearer sends a full TOC block and goes on after an entry it has moved.
LEMMA ContentClearSendFull ==
  ASSUME TypeOK, Content, NEW c \in Workers, ClearSendFull(c)
  PROVE  Content'
<1>1. /\ UNCHANGED <<locmap, mem, blockFile, blockOffset, clearing, read, files>>
      /\ \A d \in Workers : d # c => clearPos'[d] = clearPos[d] /\ tbFull'[d] = tbFull[d]
      /\ clearPos'[c] = clearPos[c] + 1 /\ clearPos[c] \in Nat
      /\ tbFull[c] /\ ~tbFull'[c]
  BY DEF ClearSendFull, memVars, fileVars, callerVars, TypeOK, TypeClearer
<1>2. \A n, off, e : FileHas(n, off, e) => FileHas(n, off, e)'
  BY <1>1, FilesKept
<1>3. \A k \in Keys : LocationOK(k)'
  <2> SUFFICES ASSUME NEW k \in Keys PROVE LocationOK(k)'
    OBVIOUS
  <2>1. LocationOK(k) /\ locmap[k].off \in Nat
    BY DEF Content, TypeOK, TypeMem, Location
  <2>2. locmap[k].id \in Blocks /\ clearing[c] = locmap[k].id => locmap[k].off >= clearPos[c] + 1
    BY <1>1, <2>1 DEF LocationOK
  <2> QED
    BY <1>1, <1>2, <2>1, <2>2 DEF LocationOK
<1>4. AtEntry'
  BY <1>1 DEF Content, AtEntry
<1> QED
  BY <1>1, <1>2, <1>3, <1>4, BlockInFileFrame, ReadFrame DEF Content

\* No location refers to a block that is emptied.
LEMMA ContentClearFree ==
  ASSUME TypeOK, AfterFileDistinct, Content, NEW c \in Workers, ClearFree(c)
  PROVE  Content'
<1> DEFINE b == clearing[c]
<1>1. /\ UNCHANGED <<locmap, tbFull, read, files>>
      /\ b \in Blocks /\ mem[b] \in Seq(Entry) /\ clearPos[c] > Len(mem[b]) /\ clearPos[c] \in Nat
      /\ \A d \in Blocks : d # b => /\ mem'[d] = mem[d]
                                    /\ blockFile'[d] = blockFile[d]
                                    /\ blockOffset'[d] = blockOffset[d]
      /\ blockFile'[b] = 0
      /\ \A d \in Workers : d # c => clearing'[d] = clearing[d] /\ clearPos'[d] = clearPos[d]
      /\ clearing'[c] = 0
  BY DEF ClearFree, callerVars, TypeOK, TypeMem, TypeFile, TypeClearer
<1>2. \A n, off, e : FileHas(n, off, e) => FileHas(n, off, e)'
  BY <1>1, FilesKept
<1>3. ~tbFull[c]
  BY <1>1 DEF Content, AtEntry
<1>4. \A d \in Workers : d # c => clearing[d] # b
  BY <1>1 DEF AfterFileDistinct
<1> HIDE DEF b
<1>5. BlockInFile'
  BY <1>1, <1>2 DEF Content, BlockInFile
<1>6. \A k \in Keys : LocationOK(k)'
  <2> SUFFICES ASSUME NEW k \in Keys PROVE LocationOK(k)'
    OBVIOUS
  <2>1. LocationOK(k)
    BY DEF Content
  <2>2. locmap[k].id # b
    BY <1>1, <2>1 DEF LocationOK, b
  <2>3. 0 \notin Blocks
    BY BlockFacts
  <2> QED
    BY <1>1, <1>2, <2>1, <2>2, <2>3 DEF LocationOK
<1>7. AtEntry'
  BY <1>1, <1>3, <1>4 DEF Content, AtEntry
<1> QED
  BY <1>1, <1>2, <1>5, <1>6, <1>7, ReadFrame DEF Content

\* A memClearer passes a mark on to the tocWriter.
LEMMA ContentClearMark ==
  ASSUME TypeOK, Content, NEW c \in Workers, ClearMark(c)
  PROVE  Content'
<1>1. /\ UNCHANGED <<locmap, mem, blockFile, blockOffset, clearPos, tbFull, read, files>>
      /\ \A d \in Workers : d # c => clearing'[d] = clearing[d]
      /\ clearing'[c] = 0 /\ clearing[c] \in Marks
  BY DEF ClearMark, memVars, fileVars, callerVars, TypeOK, TypeClearer
<1>2. \A n, off, e : FileHas(n, off, e) => FileHas(n, off, e)'
  BY <1>1, FilesKept
<1>3. 0 \notin Blocks /\ clearing[c] \notin Blocks
  BY <1>1, BlockFacts
<1>4. \A k \in Keys : LocationOK(k)'
  BY <1>1, <1>2, <1>3 DEF Content, LocationOK
<1>5. AtEntry'
  BY <1>1, <1>3 DEF Content, AtEntry
<1> QED
  BY <1>1, <1>2, <1>4, <1>5, BlockInFileFrame, ReadFrame DEF Content

\* Locations may be forgotten.
LEMMA ContentForget ==
  ASSUME TypeOK, Content,
         \A k \in Keys : locmap'[k] = locmap[k] \/ locmap'[k] = Missing,
         UNCHANGED <<mem, blockFile, blockOffset, clearing, clearPos, tbFull, read, files>>
  PROVE  Content'
<1>1. \A n, off, e : FileHas(n, off, e) => FileHas(n, off, e)'
  BY FilesKept
<1>2. \A k \in Keys : LocationOK(k)'
  BY <1>1, LocationFrame, MissingOK DEF Content
<1> QED
  BY <1>1, <1>2, BlockInFileFrame, AtEntryFrame, ReadFrame DEF Content

\* A Read makes a step.
LEMMA ContentRead ==
  ASSUME TypeOK, Content, NEW r \in Readers,
         (\E k \in Keys : ReadGet(r, k)) \/ ReadMemBlock(r) \/ ReadFile(r) \/ ReadReturn(r)
  PROVE  Content'
<1>1. /\ UNCHANGED <<locmap, mem, blockFile, blockOffset, clearing, clearPos, tbFull, files>>
      /\ \A q \in Readers : q # r => read'[q] = read[q]
  BY DEF ReadGet, ReadMemBlock, ReadFile, ReadReturn, memVars, fileVars, clearerVars,
         TypeOK, TypeCaller
<1>2. \A n, off, e : FileHas(n, off, e) => FileHas(n, off, e)'
  BY <1>1, FilesKept
<1>3. ReadOK(r)'
  <2>1. \A k \in Keys : locmap[k].id \notin Blocks /\ locmap[k].id # 0 =>
          FileHas(locmap[k].id - NumBlocks, locmap[k].off, [key |-> k, ts |-> locmap[k].ts])'
    BY <1>1, <1>2 DEF Content, LocationOK, FileHas
  <2>2. ASSUME NEW k \in Keys, ReadGet(r, k) PROVE ReadOK(r)'
    <3>1. /\ read'[r] = [pc |-> "located", key |-> k, loc |-> locmap[k]]
          /\ locmap[k].id # 0
      BY <2>2 DEF ReadGet, TypeOK, TypeCaller
    <3> QED
      BY <1>1, <2>1, <3>1 DEF ReadOK, FileHas
  <2>3. CASE ReadMemBlock(r)
    <3> DEFINE k == read[r].key
               b == read[r].loc.id
    <3>1. k \in Keys /\ b \in Blocks
      BY <2>3 DEF ReadMemBlock, TypeOK, TypeCaller, ReadState
    <3>2. \/ read'[r] = [pc |-> "idle"]
          \/ /\ read'[r] = [pc |-> "located", key |-> k, loc |-> locmap[k]]
             /\ locmap[k].id # 0
          \/ /\ read'[r] = [pc |-> "done", key |-> k, ts |-> locmap[k].ts,
                            got |-> At(mem[b], locmap[k].off)]
             /\ locmap[k].id = b
      BY <2>3 DEF ReadMemBlock, LocationNow, TypeOK, TypeCaller
    <3> HIDE DEF k, b
    <3>3. locmap[k].id = b => At(mem[b], locmap[k].off) = [key |-> k, ts |-> locmap[k].ts]
      BY <3>1 DEF Content, LocationOK, At
    <3> QED
      BY <1>1, <2>1, <3>1, <3>2, <3>3 DEF ReadOK, FileHas
  <2>4. CASE ReadFile(r)
    <3> DEFINE k == read[r].key
               loc == read[r].loc
    <3>1. \/ read'[r] = [pc |-> "idle"]
          \/ read'[r] = [pc |-> "done", key |-> k, ts |-> loc.ts,
                         got |-> At(files[loc.id - NumBlocks].data, loc.off)]
      BY <2>4 DEF ReadFile, TypeOK, TypeCaller
    <3>2. At(files[loc.id - NumBlocks].data, loc.off) = [key |-> k, ts |-> loc.ts]
      BY <2>4 DEF ReadFile, Content, ReadOK, FileHas, At
    <3> HIDE DEF k, loc
    <3> QED
      BY <3>1, <3>2 DEF ReadOK
  <2>5. CASE ReadReturn(r)
    <3>1. read'[r] = [pc |-> "idle"]
      BY <2>5 DEF ReadReturn, TypeOK, TypeCaller
    <3> QED
      BY <3>1 DEF ReadOK
  <2> QED
    BY <2>2, <2>3, <2>4, <2>5
<1>4. \A q \in Readers : ReadOK(q)'
  BY <1>1, <1>2, <1>3, ReadFrame DEF Content
<1> QED
  BY <1>1, <1>2, <1>4, BlockInFileFrame, LocationFrame, AtEntryFrame DEF Content

\* The invariant holds initially.
LEMMA InitInv == Init => IInv
<1> SUFFICES ASSUME Init PROVE IInv
  OBVIOUS
<1>1. TypeOK
  BY InitTypes
<1>2. BeforeFile /\ BeforeFileDistinct
  BY BlockFacts DEF Init, BeforeFile, BeforeFileDistinct
<1>3. AfterFile /\ AfterFileDistinct
  BY BlockFacts DEF Init, AfterFile, AfterFileDistinct
<1>4. Content
  BY BlockFacts DEF Init, Content, BlockInFile, LocationOK, AtEntry, ReadOK, Missing
<1> QED
  BY <1>1, <1>2, <1>3, <1>4 DEF IInv

\* Every action keeps the parts of the invariant; those it does not disturb by
\* BeforeFrame, AfterFrame and ContentFrame.
LEMMA InvStep ==
  ASSUME IInv, Next
  PROVE  IInv'
<1>1. TypeOK /\ BeforeFile /\ BeforeFileDistinct /\ AfterFile /\ AfterFileDistinct /\ Content
  BY DEF IInv
<1>2. TypeOK'
  BY <1>1, TypeStep DEF Content
<1> DEFINE Rest == /\ BeforeFile /\ BeforeFileDistinct
                   /\ AfterFile /\ AfterFileDistinct
                   /\ Content
<1>3. ASSUME NEW w \in Workers, NEW r \in Requests, MemReceive(w, r) PROVE Rest'
  BY <1>3, <1>1, BeforeFrame, AfterFrame, ContentFrame, FilesKept
  DEF MemReceive, memVars, writerVars, fileVars, clearerVars, callerVars
<1>4. ASSUME NEW w \in Workers, MemSwitch(w) PROVE Rest'
  BY <1>4, <1>1, BeforeFrame, AfterFrame, ContentFrame, FilesKept
  DEF MemSwitch, memVars, writerVars, fileVars, clearerVars, callerVars
<1>5. ASSUME NEW w \in Workers, MemReject(w) PROVE Rest'
  BY <1>5, <1>1, BeforeFrame, AfterFrame, ContentFrame, FilesKept
  DEF MemReject, memVars, writerVars, fileVars, clearerVars, callerVars
<1>6. ASSUME NEW w \in Workers, MemRotate(w) PROVE Rest'
  BY <1>6, <1>1, BeforeMemRotate, AfterFrame, ContentFrame, FilesKept
  DEF MemRotate, memVars, writerVars, fileVars, clearerVars, callerVars
<1>7. ASSUME NEW w \in Workers, MemTake(w) PROVE Rest'
  BY <1>7, <1>1, BeforeMemTake, AfterFrame, ContentFrame, FilesKept
  DEF MemTake, memVars, writerVars, fileVars, clearerVars, callerVars
<1>8. ASSUME NEW w \in Workers, MemStore(w) PROVE Rest'
  BY <1>8, <1>1, BeforeMemStore, AfterFrame, ContentMemStore
  DEF MemStore, memVars, writerVars, fileVars, clearerVars, callerVars
<1>9. ASSUME NEW w \in Workers, MemMark(w) PROVE Rest'
  BY <1>9, <1>1, BeforeMemMark, AfterFrame, ContentFrame, FilesKept
  DEF MemMark, memVars, writerVars, fileVars, clearerVars, callerVars
<1>10. ASSUME FileReceive PROVE Rest'
  BY <1>10, <1>1, BeforeFileReceive, AfterFrame, ContentFrame, FilesKept
  DEF FileReceive, memVars, writerVars, fileVars, clearerVars, callerVars
<1>11. ASSUME FileClosed PROVE Rest'
  BY <1>11, <1>1, BeforeFrame, AfterFrame, ContentFrame, FilesKept
  DEF FileClosed, memVars, writerVars, fileVars, clearerVars, callerVars
<1>12. ASSUME FileCreate PROVE Rest'
  BY <1>12, <1>1, BeforeFrame, AfterFrame, ContentFrame, FilesKept
  DEF FileCreate, memVars, writerVars, fileVars, clearerVars, callerVars
<1>13. ASSUME FileWrite PROVE Rest'
  BY <1>13, <1>1, BeforeFileWrite, AfterFileWrite, ContentFileWrite
<1>14. ASSUME BufferWritten PROVE Rest'
  BY <1>14, <1>1, BeforeFrame, AfterBufferWritten, ContentFrame, FilesKept
  DEF BufferWritten, memVars, writerVars, fileVars, clearerVars, callerVars
<1>15. ASSUME FileMark PROVE Rest'
  BY <1>15, <1>1, BeforeFileMark, AfterFileMark, ContentFrame, FilesKept
  DEF FileMark, memVars, writerVars, fileVars, clearerVars, callerVars
<1>16. ASSUME NEW c \in Workers, ClearReceive(c) PROVE Rest'
  BY <1>16, <1>1, BeforeFrame, AfterClearReceive, ContentClearReceive
  DEF ClearReceive, memVars, writerVars, fileVars, clearerVars, callerVars
<1>17. ASSUME NEW c \in Workers, ClearSendTOC(c) PROVE Rest'
  BY <1>17, <1>1, BeforeFrame, AfterFrame, ContentFrame, FilesKept
  DEF ClearSendTOC, memVars, writerVars, fileVars, clearerVars, callerVars
<1>18. ASSUME NEW c \in Workers, ClearEntry(c) PROVE Rest'
  BY <1>18, <1>1, BeforeFrame, AfterFrame, ContentClearEntry
  DEF ClearEntry, memVars, writerVars, fileVars, clearerVars, callerVars
<1>19. ASSUME NEW c \in Workers, ClearSendFull(c) PROVE Rest'
  BY <1>19, <1>1, BeforeFrame, AfterFrame, ContentClearSendFull
  DEF ClearSendFull, memVars, writerVars, fileVars, clearerVars, callerVars
<1>20. ASSUME NEW c \in Workers, ClearFree(c) PROVE Rest'
  BY <1>20, <1>1, BeforeClearFree, AfterClearDone, ContentClearFree
<1>21. ASSUME NEW c \in Workers, ClearMark(c) PROVE Rest'
  BY <1>21, <1>1, BeforeFrame, AfterClearDone, ContentClearMark
  DEF ClearMark, memVars, writerVars, fileVars, clearerVars, callerVars
<1>22. ASSUME TOCBlockWritten PROVE Rest'
  BY <1>22, <1>1, BeforeFrame, AfterFrame, ContentFrame, FilesKept
  DEF TOCBlockWritten, memVars, writerVars, fileVars, clearerVars, callerVars
<1>23. ASSUME TOCMark PROVE Rest'
  BY <1>23, <1>1, BeforeFrame, AfterFrame, ContentFrame, FilesKept
  DEF TOCMark, memVars, writerVars, fileVars, clearerVars, callerVars
<1>24. ASSUME TOCFlushed PROVE Rest'
  BY <1>24, <1>1, BeforeFrame, AfterFrame, ContentFrame, FilesKept
  DEF TOCFlushed, memVars, writerVars, fileVars, clearerVars, callerVars
<1>25. ASSUME NEW p \in Flushers, FlushCall(p) PROVE Rest'
  BY <1>25, <1>1, BeforeFrame, AfterFrame, ContentFrame, FilesKept
  DEF FlushCall, memVars, writerVars, fileVars, clearerVars, callerVars
<1>26. ASSUME NEW p \in Flushers, FlushSend(p) PROVE Rest'
  BY <1>26, <1>1, BeforeFrame, AfterFrame, ContentFrame, FilesKept
  DEF FlushSend, memVars, writerVars, fileVars, clearerVars, callerVars
<1>27. ASSUME NEW p \in Flushers, FlushReturn(p) PROVE Rest'
  BY <1>27, <1>1, BeforeFrame, AfterFrame, ContentFrame, FilesKept
  DEF FlushReturn, memVars, writerVars, fileVars, clearerVars, callerVars
<1>28. ASSUME ShutdownCall PROVE Rest'
  BY <1>28, <1>1, BeforeFrame, AfterFrame, ContentFrame, FilesKept
  DEF ShutdownCall, memVars, writerVars, fileVars, clearerVars, callerVars
<1>29. ASSUME ShutdownSend PROVE Rest'
  BY <1>29, <1>1, BeforeFrame, AfterFrame, ContentFrame, FilesKept
  DEF ShutdownSend, memVars, writerVars, fileVars, clearerVars, callerVars
<1>30. ASSUME ShutdownReturn PROVE Rest'
  <2>1. Content'
    BY <1>30, <1>1, ContentForget
    DEF ShutdownReturn, memVars, writerVars, fileVars, clearerVars, callerVars, TypeOK, TypeMem, Location
  <2> QED
    BY <1>30, <1>1, <2>1, BeforeFrame, AfterFrame
    DEF ShutdownReturn, memVars, writerVars, fileVars, clearerVars, callerVars
<1>31. ASSUME NEW k \in Keys, DiscardLocalRemoval(k) PROVE Rest'
  <2>1. Content'
    BY <1>31, <1>1, ContentForget
    DEF DiscardLocalRemoval, memVars, writerVars, fileVars, clearerVars, callerVars, TypeOK, TypeMem, Location
  <2> QED
    BY <1>31, <1>1, <2>1, BeforeFrame, AfterFrame
    DEF DiscardLocalRemoval, memVars, writerVars, fileVars, clearerVars, callerVars
<1>32. ASSUME NEW r \in Readers,
             (\E k \in Keys : ReadGet(r, k)) \/ ReadMemBlock(r) \/ ReadFile(r) \/ ReadReturn(r)
      PROVE  Rest'
  <2>1. Content'
    BY <1>32, <1>1, ContentRead
  <2> QED
    BY <1>32, <1>1, <2>1, BeforeFrame, AfterFrame
    DEF ReadGet, ReadMemBlock, ReadFile, ReadReturn, memVars, writerVars, fileVars, clearerVars, callerVars
<1>33. ASSUME Idle PROVE Rest'
  BY <1>33, <1>1, BeforeFrame, AfterFrame, ContentFrame, FilesKept
  DEF Idle, vars, memVars, writerVars, fileVars, clearerVars, callerVars
<1>34. Rest'
  <2> HIDE DEF Rest
  <2> QED
    BY <1>3, <1>4, <1>5, <1>6, <1>7, <1>8, <1>9, <1>10, <1>11, <1>12, <1>13,
       <1>14, <1>15, <1>16, <1>17, <1>18, <1>19, <1>20, <1>21, <1>22, <1>23, <1>24,
       <1>25, <1>26, <1>27, <1>28, <1>29, <1>30, <1>31, <1>32, <1>33
    DEF Next, MemWriter, MemClearer, FileWriter, TOCWriter, FlushStep
<1> QED
  BY <1>2, <1>34 DEF IInv

\* A step that leaves every variable alone keeps the invariant.
LEMMA InvStutter ==
  ASSUME IInv, UNCHANGED vars
  PROVE  IInv'
<1>1. TypeOK'
  BY MemFrame, WriterFrame, FileFrame, BufferFrame, ClearerFrame, TOCFrame, CallerFrame
  DEF IInv, TypeOK, vars, memVars, writerVars, fileVars, clearerVars, tocVars, callerVars
<1>2. BeforeFile' /\ BeforeFileDistinct' /\ AfterFile' /\ AfterFileDistinct' /\ Content'
  BY BeforeFrame, AfterFrame, ContentFrame, FilesKept
  DEF IInv, vars, memVars, writerVars, fileVars, clearerVars, callerVars
<1> QED
  BY <1>1, <1>2 DEF IInv

\* The inductive invariant holds in every state of the write path.
LEMMA InvAlways == Spec => []IInv
<1>1. IInv /\ [Next]_vars => IInv'
  BY InvStep, InvStutter
<1> QED
  BY <1>1, InitInv, PTL DEF Spec

\* Every variable keeps its type: no channel of the write path exceeds its
\* capacity and no countdown of flush marks goes below zero, for any number of
\* workers, blocks and concurrent Flush callers.
THEOREM TypeCorrect == Spec => []TypeOK
<1>1. IInv => TypeOK
  BY DEF IInv
<1> QED
  BY <1>1, InvAlways, PTL

\* The location map never refers to a recycled block or to another value: at
\* every step of memWriters, fileWriter and memClearers the location of a key
\* leads to the value of that key with that timestamp.
THEOREM LocationsHold == Spec => []LocationHoldsItsValue
<1>1. IInv => LocationHoldsItsValue
  BY DEF IInv, Content, LocationOK, LocationHoldsItsValue, Referred, At, FileHas
<1> QED
  BY <1>1, InvAlways, PTL

\* However a Read interleaves with memClearers that move its value to a file and
\* recycle the block, it returns the value with the timestamp it reports.
THEOREM ReadsReturn == Spec => []ReadReturnsItsValue
<1>1. IInv => ReadReturnsItsValue
  BY DEF IInv, Content, ReadOK, ReadReturnsItsValue
<1> QED
  BY <1>1, InvAlways, PTL

-----------------------------------------------------------------------------
(* Results that rest on it *)

\* What a send keeps and adds, seen from the old elements.
LEMMA AppendKeeps ==
  ASSUME NEW S, NEW s \in Seq(S), NEW x \in S
  PROVE  /\ \A i \in DOMAIN s : i \in DOMAIN Append(s, x) /\ Append(s, x)[i] = s[i]
         /\ Len(s) + 1 \in DOMAIN Append(s, x) /\ Append(s, x)[Len(s) + 1] = x
OBVIOUS

\* What a receive keeps: every element but the one received.
LEMMA TailKeeps ==
  ASSUME NEW S, NEW s \in Seq(S), s # <<>>
  PROVE  \A i \in DOMAIN s : \/ s[i] = Head(s)
                             \/ i - 1 \in DOMAIN Tail(s) /\ Tail(s)[i - 1] = s[i]
<1> SUFFICES ASSUME NEW i \in DOMAIN s, i # 1
             PROVE  i - 1 \in DOMAIN Tail(s) /\ Tail(s)[i - 1] = s[i]
  OBVIOUS
<1> QED
  OBVIOUS

-----------------------------------------------------------------------------
(* Blocks *)

\* A block stays where it is while the queues do not change.
LEMMA SomewhereFrame ==
  ASSUME NoneLost,
         UNCHANGED <<freeMemBlockChan, memBlock, fileMemBlockChan, inHand, unwritten,
                     freeableMemBlockChans, clearing>>
  PROVE  NoneLost'
BY DEF NoneLost, Somewhere, Released

\* A block that is in the channels of the memClearers stays there when something
\* is sent to one of them, and what is sent is there.
LEMMA SentIsThere ==
  ASSUME TypeOK, NEW c \in Workers, NEW x \in Blocks \cup Marks,
         freeableMemBlockChans' = [freeableMemBlockChans EXCEPT ![c] = Append(@, x)]
  PROVE  /\ \E i \in DOMAIN freeableMemBlockChans'[c] : freeableMemBlockChans'[c][i] = x
         /\ \A b \in Blocks : \A d \in Workers :
              (\E i \in DOMAIN freeableMemBlockChans[d] : freeableMemBlockChans[d][i] = b)
              => \E i \in DOMAIN freeableMemBlockChans'[d] : freeableMemBlockChans'[d][i] = b
<1>1. freeableMemBlockChans[c] \in Seq(Blocks \cup Marks)
  BY DEF TypeOK, TypeBuffer
<1>2. /\ freeableMemBlockChans'[c] = Append(freeableMemBlockChans[c], x)
      /\ \A d \in Workers \ {c} : freeableMemBlockChans'[d] = freeableMemBlockChans[d]
  BY DEF TypeOK, TypeBuffer
<1>3. \A i \in DOMAIN freeableMemBlockChans[c] :
        /\ i \in DOMAIN freeableMemBlockChans'[c]
        /\ freeableMemBlockChans'[c][i] = freeableMemBlockChans[c][i]
  BY <1>1, <1>2, AppendKeeps
<1>4. \E i \in DOMAIN freeableMemBlockChans'[c] : freeableMemBlockChans'[c][i] = x
  BY <1>1, <1>2, AppendKeeps
<1> QED
  BY <1>2, <1>3, <1>4

\* Every action that takes a block out of one place puts it into another.
LEMMA NoneLostStep ==
  ASSUME IInv, NoneLost, Next
  PROVE  NoneLost'
<1>1. TypeOK
  BY DEF IInv
<1>2. 0 \notin Blocks /\ \A m \in Marks : m \notin Blocks
  BY BlockFacts
<1>3. ASSUME NEW w \in Workers, NEW r \in Requests, MemReceive(w, r) PROVE NoneLost'
  BY <1>3, SomewhereFrame DEF MemReceive, memVars, fileVars, clearerVars
<1>4. ASSUME NEW w \in Workers, MemSwitch(w) PROVE NoneLost'
  BY <1>4, SomewhereFrame DEF MemSwitch, memVars, fileVars, clearerVars
<1>5. ASSUME NEW w \in Workers, MemReject(w) PROVE NoneLost'
  BY <1>5, SomewhereFrame DEF MemReject, memVars, fileVars, clearerVars
<1>6. ASSUME NEW w \in Workers, MemRotate(w) PROVE NoneLost'
  <2> SUFFICES ASSUME NEW b \in Blocks PROVE Somewhere(b)'
    BY DEF NoneLost
  <2>1. /\ fileMemBlockChan' = Append(fileMemBlockChan, memBlock[w])
        /\ \A v \in Workers \ {w} : memBlock'[v] = memBlock[v]
        /\ UNCHANGED <<freeMemBlockChan, inHand, unwritten, freeableMemBlockChans, clearing>>
    BY <1>1, <1>6 DEF MemRotate, memVars, fileVars, clearerVars, TypeOK, TypeWriter
  <2>2. fileMemBlockChan \in Seq(Blocks \cup Marks) /\ memBlock[w] \in Blocks \cup Marks
    BY <1>1, <1>6 DEF MemRotate, TypeOK, TypeWriter
  <2>3. /\ \A i \in DOMAIN fileMemBlockChan :
             i \in DOMAIN fileMemBlockChan' /\ fileMemBlockChan'[i] = fileMemBlockChan[i]
        /\ \E i \in DOMAIN fileMemBlockChan' : fileMemBlockChan'[i] = memBlock[w]
    BY <2>1, <2>2, AppendKeeps
  <2>4. Somewhere(b)
    BY DEF NoneLost
  <2> QED
    BY <2>1, <2>3, <2>4 DEF Somewhere, Released
<1>7. ASSUME NEW w \in Workers, MemTake(w) PROVE NoneLost'
  <2> SUFFICES ASSUME NEW b \in Blocks PROVE Somewhere(b)'
    BY DEF NoneLost
  <2>1. /\ freeMemBlockChan' = Tail(freeMemBlockChan) /\ freeMemBlockChan # <<>>
        /\ freeMemBlockChan \in Seq(Blocks)
        /\ memBlock[w] = 0 /\ memBlock'[w] = Head(freeMemBlockChan)
        /\ \A v \in Workers \ {w} : memBlock'[v] = memBlock[v]
        /\ UNCHANGED <<fileMemBlockChan, inHand, unwritten, freeableMemBlockChans, clearing>>
    BY <1>1, <1>7 DEF MemTake, fileVars, clearerVars, TypeOK, TypeMem, TypeWriter
  <2>2. \A i \in DOMAIN freeMemBlockChan :
          \/ freeMemBlockChan[i] = memBlock'[w]
          \/ i - 1 \in DOMAIN freeMemBlockChan' /\ freeMemBlockChan'[i - 1] = freeMemBlockChan[i]
    BY <2>1, TailKeeps
  <2>3. Somewhere(b)
    BY DEF NoneLost
  <2> QED
    BY <1>2, <2>1, <2>2, <2>3 DEF Somewhere, Released
<1>8. ASSUME NEW w \in Workers, MemStore(w) PROVE NoneLost'
  BY <1>8, SomewhereFrame DEF MemStore, memVars, fileVars, clearerVars
<1>9. ASSUME NEW w \in Workers, MemMark(w) PROVE NoneLost'
  <2> SUFFICES ASSUME NEW b \in Blocks PROVE Somewhere(b)'
    BY DEF NoneLost
  <2>1. PICK m \in Marks : fileMemBlockChan' = Append(fileMemBlockChan, m)
    BY <1>9 DEF MemMark, Marks
  <2>2. \A i \in DOMAIN fileMemBlockChan :
          i \in DOMAIN fileMemBlockChan' /\ fileMemBlockChan'[i] = fileMemBlockChan[i]
    BY <1>1, <2>1, AppendKeeps DEF TypeOK, TypeWriter
  <2>3. Somewhere(b)
    BY DEF NoneLost
  <2>4. UNCHANGED <<freeMemBlockChan, memBlock, inHand, unwritten, freeableMemBlockChans, clearing>>
    BY <1>9 DEF MemMark, memVars, fileVars, clearerVars
  <2> QED
    BY <2>2, <2>3, <2>4 DEF Somewhere, Released
<1>10. ASSUME FileReceive PROVE NoneLost'
  <2> SUFFICES ASSUME NEW b \in Blocks PROVE Somewhere(b)'
    BY DEF NoneLost
  <2>1. /\ fileMemBlockChan' = Tail(fileMemBlockChan) /\ fileMemBlockChan # <<>>
        /\ fileMemBlockChan \in Seq(Blocks \cup Marks)
        /\ inHand = 0
        /\ inHand' = Head(fileMemBlockChan) \/ Head(fileMemBlockChan) \in Marks
        /\ UNCHANGED <<freeMemBlockChan, memBlock, unwritten, freeableMemBlockChans, clearing>>
    BY <1>1, <1>10 DEF FileReceive, memVars, writerVars, clearerVars, TypeOK, TypeWriter, Marks
  <2>2. \A i \in DOMAIN fileMemBlockChan :
          \/ fileMemBlockChan[i] = Head(fileMemBlockChan)
          \/ /\ i - 1 \in DOMAIN fileMemBlockChan'
             /\ fileMemBlockChan'[i - 1] = fileMemBlockChan[i]
    BY <2>1, TailKeeps
  <2>3. Somewhere(b)
    BY DEF NoneLost
  <2> QED
    BY <1>2, <2>1, <2>2, <2>3 DEF Somewhere, Released
<1>11. ASSUME FileClosed PROVE NoneLost'
  BY <1>11, SomewhereFrame DEF FileClosed, memVars, writerVars, clearerVars
<1>12. ASSUME FileCreate PROVE NoneLost'
  BY <1>12, SomewhereFrame DEF FileCreate, memVars, writerVars, clearerVars
<1>13. ASSUME FileWrite PROVE NoneLost'
  <2> SUFFICES ASSUME NEW b \in Blocks PROVE Somewhere(b)'
    BY DEF NoneLost
  <2> DEFINE stop == Len(files[fl].data) + Len(mem[inHand])
  <2>1. /\ inHand \in Blocks
        /\ Attach(inHand, stop) \/ ReleaseNow(inHand, stop)
        /\ UNCHANGED <<freeMemBlockChan, memBlock, fileMemBlockChan, clearing>>
    BY <1>13 DEF FileWrite, memVars, writerVars, clearerVars
  <2> HIDE DEF stop
  <2>2. Somewhere(b)
    BY DEF NoneLost
  <2>3. PICK x \in Blocks \cup {0} : unwritten' = Append(unwritten, [end |-> stop, block |-> x])
    BY <2>1 DEF Attach, ReleaseNow
  <2>4. unwritten \in Seq(Buffered \cup {[end |-> stop, block |-> x]})
    BY <1>1 DEF TypeOK, TypeBuffer
  <2>5. /\ \A i \in DOMAIN unwritten : i \in DOMAIN unwritten' /\ unwritten'[i] = unwritten[i]
        /\ \E i \in DOMAIN unwritten' : unwritten'[i].block = x
    BY <2>3, <2>4, AppendKeeps
  <2>6. CASE Attach(inHand, stop)
    <3>1. UNCHANGED freeableMemBlockChans
      BY <2>6 DEF Attach
    <3>2. \E i \in DOMAIN unwritten' : unwritten'[i].block = inHand
      <4>1. unwritten \in Seq(Buffered \cup {[end |-> stop, block |-> inHand]})
        BY <1>1 DEF TypeOK, TypeBuffer
      <4>2. unwritten' = Append(unwritten, [end |-> stop, block |-> inHand])
        BY <2>6 DEF Attach
      <4> QED
        BY <4>1, <4>2, AppendKeeps
    <3> QED
      BY <2>1, <2>2, <2>5, <3>1, <3>2 DEF Somewhere, Released
  <2>7. CASE ReleaseNow(inHand, stop)
    <3>1. /\ freeableIndex \in Workers
          /\ freeableMemBlockChans' = [freeableMemBlockChans EXCEPT ![freeableIndex] = Append(@, inHand)]
      BY <1>1, <2>7 DEF ReleaseNow, Release, TypeOK, TypeBuffer
    <3>2. /\ \E i \in DOMAIN freeableMemBlockChans'[freeableIndex] :
               freeableMemBlockChans'[freeableIndex][i] = inHand
          /\ \A d \in Workers :
               (\E i \in DOMAIN freeableMemBlockChans[d] : freeableMemBlockChans[d][i] = b)
               => \E i \in DOMAIN freeableMemBlockChans'[d] : freeableMemBlockChans'[d][i] = b
      BY <1>1, <2>1, <3>1, SentIsThere
    <3>3. Released(b) \/ inHand = b => Released(b)'
      BY <3>1, <3>2 DEF Released
    <3>4. (\E i \in DOMAIN unwritten : unwritten[i].block = b)
          => \E i \in DOMAIN unwritten' : unwritten'[i].block = b
      BY <2>5
    <3> QED
      BY <2>1, <2>2, <3>3, <3>4 DEF Somewhere
  <2> QED
    BY <2>1, <2>6, <2>7
<1>14. ASSUME BufferWritten PROVE NoneLost'
  <2> SUFFICES ASSUME NEW b \in Blocks PROVE Somewhere(b)'
    BY DEF NoneLost
  <2> DEFINE x == Head(unwritten).block
  <2>1. /\ unwritten \in Seq(Buffered) /\ unwritten # <<>> /\ unwritten' = Tail(unwritten)
        /\ UNCHANGED <<freeMemBlockChan, memBlock, fileMemBlockChan, inHand, clearing>>
    BY <1>1, <1>14 DEF BufferWritten, memVars, writerVars, clearerVars, TypeOK, TypeBuffer
  <2>2. \A i \in DOMAIN unwritten :
          \/ unwritten[i].block = x
          \/ i - 1 \in DOMAIN unwritten' /\ unwritten'[i - 1] = unwritten[i]
    BY <2>1, TailKeeps
  <2>3. Somewhere(b)
    BY DEF NoneLost
  <2>4. CASE x = 0
    <3>1. UNCHANGED freeableMemBlockChans
      BY <1>14, <2>4 DEF BufferWritten
    <3> QED
      BY <1>2, <2>1, <2>2, <2>3, <2>4, <3>1 DEF Somewhere, Released
  <2>5. CASE x # 0
    <3>1. /\ freeableIndex \in Workers
          /\ freeableMemBlockChans' = [freeableMemBlockChans EXCEPT ![freeableIndex] = Append(@, x)]
      BY <1>1, <1>14, <2>5 DEF BufferWritten, Release, TypeOK, TypeBuffer
    <3>2. x \in Blocks
      BY <1>1, <2>1, <2>5, BufferedBlock, HeadTail DEF Buffered
    <3> HIDE DEF x
    <3>3. /\ \E i \in DOMAIN freeableMemBlockChans'[freeableIndex] :
               freeableMemBlockChans'[freeableIndex][i] = x
          /\ \A d \in Workers :
               (\E i \in DOMAIN freeableMemBlockChans[d] : freeableMemBlockChans[d][i] = b)
               => \E i \in DOMAIN freeableMemBlockChans'[d] : freeableMemBlockChans'[d][i] = b
      BY <1>1, <3>1, <3>2, SentIsThere
    <3>4. Released(b) \/ x = b => Released(b)'
      BY <3>1, <3>3 DEF Released
    <3>5. (\E i \in DOMAIN unwritten : unwritten[i].block = b)
          => x = b \/ \E i \in DOMAIN unwritten' : unwritten'[i].block = b
      BY <2>2 DEF x
    <3> QED
      BY <2>1, <2>3, <3>4, <3>5 DEF Somewhere
  <2> QED
    BY <2>4, <2>5
<1>15. ASSUME FileMark PROVE NoneLost'
  <2> SUFFICES ASSUME NEW b \in Blocks PROVE Somewhere(b)'
    BY DEF NoneLost
  <2>1. PICK c \in Workers :
          freeableMemBlockChans' = [freeableMemBlockChans EXCEPT ![c] = Append(@, inHand)]
    <3>1. (IF inHand = FlushMark THEN markNext + 1 ELSE NumWorkers - markNext) \in Workers
      BY <1>1, WorkersAssumption DEF TypeOK, TypeFile, Workers
    <3> QED
      BY <1>15, <3>1 DEF FileMark
  <2>2. /\ inHand \in Marks
        /\ UNCHANGED <<freeMemBlockChan, memBlock, fileMemBlockChan, unwritten, clearing>>
    BY <1>15 DEF FileMark, memVars, writerVars, clearerVars
  <2>3. \A d \in Workers :
          (\E i \in DOMAIN freeableMemBlockChans[d] : freeableMemBlockChans[d][i] = b)
          => \E i \in DOMAIN freeableMemBlockChans'[d] : freeableMemBlockChans'[d][i] = b
    BY <1>1, <2>1, <2>2, SentIsThere
  <2>4. Somewhere(b)
    BY DEF NoneLost
  <2> QED
    BY <1>2, <2>2, <2>3, <2>4 DEF Somewhere, Released
<1>16. ASSUME NEW c \in Workers, ClearReceive(c) PROVE NoneLost'
  <2> SUFFICES ASSUME NEW b \in Blocks PROVE Somewhere(b)'
    BY DEF NoneLost
  <2>1. /\ freeableMemBlockChans[c] \in Seq(Blocks \cup Marks) /\ freeableMemBlockChans[c] # <<>>
        /\ freeableMemBlockChans'[c] = Tail(freeableMemBlockChans[c])
        /\ \A d \in Workers \ {c} : /\ freeableMemBlockChans'[d] = freeableMemBlockChans[d]
                                    /\ clearing'[d] = clearing[d]
        /\ clearing[c] = 0 /\ clearing'[c] = Head(freeableMemBlockChans[c])
        /\ UNCHANGED <<freeMemBlockChan, memBlock, fileMemBlockChan, inHand, unwritten>>
    BY <1>1, <1>16 DEF ClearReceive, memVars, writerVars, fileVars, TypeOK, TypeBuffer, TypeClearer
  <2>2. \A i \in DOMAIN freeableMemBlockChans[c] :
          \/ freeableMemBlockChans[c][i] = clearing'[c]
          \/ /\ i - 1 \in DOMAIN freeableMemBlockChans'[c]
             /\ freeableMemBlockChans'[c][i - 1] = freeableMemBlockChans[c][i]
    BY <2>1, TailKeeps
  <2>3. Released(b)
        => \/ clearing'[c] = b
           \/ Released(b)'
    <3> SUFFICES ASSUME NEW d \in Workers, NEW i \in DOMAIN freeableMemBlockChans[d],
                        freeableMemBlockChans[d][i] = b, clearing'[c] # b
                 PROVE  Released(b)'
      BY DEF Released
    <3>1. CASE d = c
      <4>1. i - 1 \in DOMAIN freeableMemBlockChans'[c] /\ freeableMemBlockChans'[c][i - 1] = b
        BY <2>2, <3>1
      <4> QED BY <4>1 DEF Released
    <3>2. CASE d # c
      <4>1. freeableMemBlockChans'[d] = freeableMemBlockChans[d]
        BY <2>1, <3>2
      <4> QED BY <4>1 DEF Released
    <3> QED BY <3>1, <3>2
  <2>4. (\E d \in Workers : clearing[d] = b) => \E d \in Workers : clearing'[d] = b
    BY <1>2, <2>1
  <2>5. Somewhere(b)
    BY DEF NoneLost
  <2> QED
    BY <2>1, <2>3, <2>4, <2>5 DEF Somewhere
<1>17. ASSUME NEW c \in Workers, ClearSendTOC(c) PROVE NoneLost'
  BY <1>17, SomewhereFrame DEF ClearSendTOC, memVars, writerVars, fileVars
<1>18. ASSUME NEW c \in Workers, ClearEntry(c) PROVE NoneLost'
  BY <1>18, SomewhereFrame DEF ClearEntry, memVars, writerVars, fileVars
<1>19. ASSUME NEW c \in Workers, ClearSendFull(c) PROVE NoneLost'
  BY <1>19, SomewhereFrame DEF ClearSendFull, memVars, writerVars, fileVars
<1>20. ASSUME NEW c \in Workers, ClearFree(c) PROVE NoneLost'
  <2> SUFFICES ASSUME NEW b \in Blocks PROVE Somewhere(b)'
    BY DEF NoneLost
  <2>1. /\ clearing[c] \in Blocks /\ freeMemBlockChan \in Seq(Blocks)
        /\ freeMemBlockChan' = Append(freeMemBlockChan, clearing[c])
        /\ \A d \in Workers \ {c} : clearing'[d] = clearing[d]
        /\ UNCHANGED <<memBlock, fileMemBlockChan, inHand, unwritten, freeableMemBlockChans>>
    BY <1>1, <1>20 DEF ClearFree, writerVars, TypeOK, TypeMem, TypeClearer
  <2>2. /\ \A i \in DOMAIN freeMemBlockChan :
             i \in DOMAIN freeMemBlockChan' /\ freeMemBlockChan'[i] = freeMemBlockChan[i]
        /\ \E i \in DOMAIN freeMemBlockChan' : freeMemBlockChan'[i] = clearing[c]
    BY <2>1, AppendKeeps
  <2>3. Somewhere(b)
    BY DEF NoneLost
  <2> QED
    BY <2>1, <2>2, <2>3 DEF Somewhere, Released
<1>21. ASSUME NEW c \in Workers, ClearMark(c) PROVE NoneLost'
  <2> SUFFICES ASSUME NEW b \in Blocks PROVE Somewhere(b)'
    BY DEF NoneLost
  <2>1. /\ clearing[c] \in Marks
        /\ \A d \in Workers \ {c} : clearing'[d] = clearing[d]
        /\ UNCHANGED <<freeMemBlockChan, memBlock, fileMemBlockChan, inHand, unwritten,
                       freeableMemBlockChans>>
    BY <1>1, <1>21 DEF ClearMark, memVars, writerVars, fileVars, TypeOK, TypeClearer
  <2>2. Somewhere(b)
    BY DEF NoneLost
  <2> QED
    BY <1>2, <2>1, <2>2 DEF Somewhere, Released
<1>22. ASSUME TOCWriter PROVE NoneLost'
  BY <1>22, SomewhereFrame
  DEF TOCWriter, TOCBlockWritten, TOCMark, TOCFlushed, memVars, writerVars, fileVars, clearerVars
<1>23. ASSUME NEW p \in Flushers, FlushCall(p) \/ FlushStep(p) PROVE NoneLost'
  BY <1>23, SomewhereFrame
  DEF FlushStep, FlushCall, FlushSend, FlushReturn, memVars, writerVars, fileVars, clearerVars
<1>24. ASSUME ShutdownCall \/ ShutdownSend \/ ShutdownReturn PROVE NoneLost'
  BY <1>24, SomewhereFrame
  DEF ShutdownCall, ShutdownSend, ShutdownReturn, memVars, writerVars, fileVars, clearerVars
<1>25. ASSUME NEW k \in Keys, DiscardLocalRemoval(k) PROVE NoneLost'
  BY <1>25, SomewhereFrame DEF DiscardLocalRemoval, memVars, writerVars, fileVars, clearerVars
<1>26. ASSUME NEW r \in Readers,
              (\E k \in Keys : ReadGet(r, k)) \/ ReadMemBlock(r) \/ ReadFile(r) \/ ReadReturn(r)
       PROVE  NoneLost'
  BY <1>26, SomewhereFrame
  DEF ReadGet, ReadMemBlock, ReadFile, ReadReturn, memVars, writerVars, fileVars, clearerVars
<1>27. ASSUME Idle PROVE NoneLost'
  BY <1>27, SomewhereFrame DEF Idle, vars, memVars, writerVars, fileVars, clearerVars
<1> QED
  BY <1>3, <1>4, <1>5, <1>6, <1>7, <1>8, <1>9, <1>10, <1>11, <1>12, <1>13, <1>14,
     <1>15, <1>16, <1>17, <1>18, <1>19, <1>20, <1>21, <1>22, <1>23, <1>24, <1>25,
     <1>26, <1>27
  DEF Next, MemWriter, MemClearer, FileWriter

\* No block is ever lost.
LEMMA NoneLostAlways == Spec => []NoneLost
<1>1. Init => NoneLost
  <2> SUFFICES ASSUME Init, NEW b \in Blocks PROVE Somewhere(b)
    BY DEF NoneLost
  <2>1. b \in DOMAIN freeMemBlockChan /\ freeMemBlockChan[b] = b
    BY DEF Init
  <2> QED
    BY <2>1 DEF Somewhere, Released
<1>2. IInv /\ NoneLost /\ [Next]_vars => NoneLost'
  <2>1. ASSUME NoneLost, UNCHANGED vars PROVE NoneLost'
    BY <2>1, SomewhereFrame DEF vars, memVars, writerVars, fileVars, clearerVars
  <2> QED
    BY <2>1, NoneLostStep
<1> QED
  BY <1>1, <1>2, InvAlways, PTL DEF Spec

\* The places of a block, one stage at a time.
LEMMA PlacesOf ==
  ASSUME TypeOK, NEW b, NEW p
  PROVE  p \in Places(b) <=>
           \/ \E i \in DOMAIN freeMemBlockChan : freeMemBlockChan[i] = b /\ p = <<"free", i>>
           \/ \E w \in Workers : memBlock[w] = b /\ p = <<"memWriter", w>>
           \/ \E i \in DOMAIN fileMemBlockChan : fileMemBlockChan[i] = b /\ p = <<"queued", i>>
           \/ inHand = b /\ p = <<"inHand", 0>>
           \/ \E i \in DOMAIN unwritten : unwritten[i].block = b /\ p = <<"buffered", i>>
           \/ \E c \in Workers : \E i \in DOMAIN freeableMemBlockChans[c] :
                freeableMemBlockChans[c][i] = b /\ p = <<"released", <<c, i>> >>
           \/ \E c \in Workers : clearing[c] = b /\ p = <<"clearing", c>>
<1>1. DOMAIN memBlock = Workers /\ DOMAIN clearing = Workers
  BY DEF TypeOK, TypeWriter, TypeClearer
<1>2. p \in {"free"} \X Where(b, freeMemBlockChan) <=>
      \E i \in DOMAIN freeMemBlockChan : freeMemBlockChan[i] = b /\ p = <<"free", i>>
  BY <1>1 DEF Where
<1>3. p \in {"memWriter"} \X Where(b, memBlock) <=>
      \E w \in Workers : memBlock[w] = b /\ p = <<"memWriter", w>>
  BY <1>1 DEF Where
<1>4. p \in {"queued"} \X Where(b, fileMemBlockChan) <=>
      \E i \in DOMAIN fileMemBlockChan : fileMemBlockChan[i] = b /\ p = <<"queued", i>>
  BY <1>1 DEF Where
<1>5. p \in {"inHand"} \X {i \in {0} : inHand = b} <=>
      inHand = b /\ p = <<"inHand", 0>>
  BY <1>1 DEF Where
<1>6. p \in {"buffered"} \X {i \in DOMAIN unwritten : unwritten[i].block = b} <=>
      \E i \in DOMAIN unwritten : unwritten[i].block = b /\ p = <<"buffered", i>>
  BY <1>1 DEF Where
<1>7. p \in (UNION {{"released"} \X ({c} \X Where(b, freeableMemBlockChans[c])) : c \in Workers}) <=>
      \E c \in Workers : \E i \in DOMAIN freeableMemBlockChans[c] :
        freeableMemBlockChans[c][i] = b /\ p = <<"released", <<c, i>> >>
  BY <1>1 DEF Where
<1>8. p \in {"clearing"} \X Where(b, clearing) <=>
      \E c \in Workers : clearing[c] = b /\ p = <<"clearing", c>>
  BY <1>1 DEF Where
<1> QED
  BY <1>2, <1>3, <1>4, <1>5, <1>6, <1>7, <1>8 DEF Places

\* A block is in no two places: within a queue and between those before the file
\* and those behind it the invariant says so; between the others the block's file
\* and its content tell them apart.
LEMMA NoTwoPlaces ==
  ASSUME IInv, NEW b \in Blocks, NEW p \in Places(b), NEW q \in Places(b)
  PROVE  p = q
<1>1. TypeOK /\ BeforeFile /\ BeforeFileDistinct /\ AfterFile /\ AfterFileDistinct
  BY DEF IInv
<1>2. b # 0
  BY BlockFacts
<1>3. CASE blockFile[b] = 0
  <2>1. \A x \in Places(b) :
           \/ \E i \in DOMAIN freeMemBlockChan : freeMemBlockChan[i] = b /\ x = <<"free", i>>
           \/ \E w \in Workers : memBlock[w] = b /\ x = <<"memWriter", w>>
           \/ \E i \in DOMAIN fileMemBlockChan : fileMemBlockChan[i] = b /\ x = <<"queued", i>>
           \/ inHand = b /\ x = <<"inHand", 0>>
    BY <1>1, <1>2, <1>3, PlacesOf DEF AfterFile
  <2> QED
    BY <1>1, <1>2, <2>1 DEF BeforeFile, BeforeFileDistinct
<1>4. CASE blockFile[b] # 0
  <2>1. \A x \in Places(b) :
           \/ \E i \in DOMAIN unwritten : unwritten[i].block = b /\ x = <<"buffered", i>>
           \/ \E c \in Workers : \E i \in DOMAIN freeableMemBlockChans[c] :
                freeableMemBlockChans[c][i] = b /\ x = <<"released", <<c, i>> >>
           \/ \E c \in Workers : clearing[c] = b /\ x = <<"clearing", c>>
    BY <1>1, <1>2, <1>4, PlacesOf DEF BeforeFile
  <2> QED
    BY <1>1, <1>2, <2>1 DEF AfterFileDistinct
<1> QED
  BY <1>3, <1>4

\* Every memory block is in exactly one place of the cycle at all times: none is
\* lost, which would shrink the pool, and none is in two places.
THEOREM BlocksStayInOnePlace == Spec => []EveryBlockInOnePlace
<1>1. IInv /\ NoneLost => EveryBlockInOnePlace
  <2> SUFFICES ASSUME IInv, NoneLost, NEW b \in Blocks PROVE Cardinality(Places(b)) = 1
    BY DEF EveryBlockInOnePlace
  <2>1. Places(b) # {}
    <3>1. Somewhere(b)
      BY DEF NoneLost
    <3>2. TypeOK
      BY DEF IInv
    <3>3. \A i \in DOMAIN freeMemBlockChan : freeMemBlockChan[i] = b => <<"free", i>> \in Places(b)
      BY <3>2, PlacesOf
    <3>4. \A w \in Workers : memBlock[w] = b => <<"memWriter", w>> \in Places(b)
      BY <3>2, PlacesOf
    <3>5. \A i \in DOMAIN fileMemBlockChan : fileMemBlockChan[i] = b => <<"queued", i>> \in Places(b)
      BY <3>2, PlacesOf
    <3>6. inHand = b => <<"inHand", 0>> \in Places(b)
      BY <3>2, PlacesOf
    <3>7. \A i \in DOMAIN unwritten : unwritten[i].block = b => <<"buffered", i>> \in Places(b)
      BY <3>2, PlacesOf
    <3>8. \A c \in Workers : \A i \in DOMAIN freeableMemBlockChans[c] :
            freeableMemBlockChans[c][i] = b => <<"released", <<c, i>> >> \in Places(b)
      BY <3>2, PlacesOf
    <3>9. \A c \in Workers : clearing[c] = b => <<"clearing", c>> \in Places(b)
      BY <3>2, PlacesOf
    <3> QED
      BY <3>1, <3>3, <3>4, <3>5, <3>6, <3>7, <3>8, <3>9 DEF Somewhere, Released
  <2>2. PICK p : Places(b) = {p}
    BY <2>1, NoTwoPlaces
  <2> QED
    BY <2>2, FS_Singleton
<1> QED
  BY <1>1, InvAlways, NoneLostAlways, PTL
-----------------------------------------------------------------------------
(* TOC entries *)

\* What is in a file stays there, so an entry that is good stays good, and so
\* does a TOC block.
LEMMA GoodBlocksStay ==
  ASSUME \A n, off, e : FileHas(n, off, e) => FileHas(n, off, e)'
  PROVE  /\ \A n, e : EntryInFile(n, e) => EntryInFile(n, e)'
         /\ \A t : BlockOfFile(t) => BlockOfFile(t)'
<1>1. \A n, e : EntryInFile(n, e) => EntryInFile(n, e)'
  BY DEF EntryInFile
<1> QED
  BY <1>1 DEF BlockOfFile

\* Only the tocWriter changes the TOC of a file that there is.
LEMMA OnlyTOCWriterWrites ==
  ASSUME TypeOK, FileCreate \/ FileWrite \/ BufferWritten \/ UNCHANGED files
  PROVE  \A n \in DOMAIN files' :
           \/ files'[n].toc = <<>>
           \/ n \in DOMAIN files /\ files'[n].toc = files[n].toc
<1>1. files \in Seq(FileRec)
  BY DEF TypeOK, TypeFile
<1>2. CASE UNCHANGED files
  BY <1>2
<1>3. CASE FileCreate
  <2> DEFINE f == [data |-> <<>>, synced |-> 0, toc |-> <<>>]
  <2>1. f \in FileRec /\ files' = Append(files, f) /\ f.toc = <<>>
    BY <1>3 DEF FileCreate, FileRec
  <2> HIDE DEF f
  <2> QED
    BY <1>1, <2>1, AppendElems
<1>4. CASE FileWrite \/ BufferWritten
  <2>1. \/ \E x : files' = [files EXCEPT ![fl].data = x]
        \/ \E x : files' = [files EXCEPT ![fl].synced = x]
    BY <1>4 DEF FileWrite, BufferWritten
  <2>2. \A n \in DOMAIN files : files[n] \in FileRec
    BY <1>1
  <2>3. ASSUME NEW x, files' = [files EXCEPT ![fl].data = x]
        PROVE  DOMAIN files' = DOMAIN files /\ \A n \in DOMAIN files : files'[n].toc = files[n].toc
    BY <2>2, <2>3 DEF FileRec
  <2>4. ASSUME NEW x, files' = [files EXCEPT ![fl].synced = x]
        PROVE  DOMAIN files' = DOMAIN files /\ \A n \in DOMAIN files : files'[n].toc = files[n].toc
    BY <2>2, <2>4 DEF FileRec
  <2>5. DOMAIN files' = DOMAIN files /\ \A n \in DOMAIN files : files'[n].toc = files[n].toc
    BY <2>1, <2>3, <2>4
  <2> QED
    BY <2>5
<1> QED
  BY <1>2, <1>3, <1>4

\* Nothing is written to a TOC and no TOC block moves.
LEMMA TOCEntriesFrame ==
  ASSUME TypeOK, TOCEntriesOK, UNCHANGED <<tb, pendingTOCBlockChan>>,
         FileCreate \/ FileWrite \/ BufferWritten \/ UNCHANGED files
  PROVE  TOCEntriesOK'
<1>1. \A n, off, e : FileHas(n, off, e) => FileHas(n, off, e)'
  BY FilesKept
<1>2. /\ \A n, e : EntryInFile(n, e) => EntryInFile(n, e)'
      /\ \A t : BlockOfFile(t) => BlockOfFile(t)'
  BY <1>1, GoodBlocksStay
<1>3. \A n \in DOMAIN files' :
        \/ files'[n].toc = <<>>
        \/ n \in DOMAIN files /\ files'[n].toc = files[n].toc
  BY OnlyTOCWriterWrites
<1>4. \A n \in DOMAIN files' : \A i \in DOMAIN files'[n].toc : EntryInFile(n, files[n].toc[i])'
  BY <1>2, <1>3 DEF TOCEntriesOK
<1>5. \A c \in Workers : BlockOfFile(tb[c])'
  BY <1>2 DEF TOCEntriesOK
<1>6. \A j \in DOMAIN pendingTOCBlockChan' : BlockOfFile(pendingTOCBlockChan[j])'
  BY <1>2 DEF TOCEntriesOK
<1> QED
  BY <1>4, <1>5, <1>6 DEF TOCEntriesOK

\* The TOC entry of the entry that a memClearer is at names its place in the file.
LEMMA EntryAtIsGood ==
  ASSUME TypeOK, Content, NEW c \in Workers, clearing[c] \in Blocks,
         clearPos[c] \in DOMAIN mem[clearing[c]], blockFile[clearing[c]] # 0
  PROVE  EntryInFile(blockFile[clearing[c]], TOCEntryAt(c))
<1> DEFINE b == clearing[c]
           m == mem[b][clearPos[c]]
<1>1. FileHas(blockFile[b], blockOffset[b] + clearPos[c], m)
  BY DEF Content, BlockInFile
<1>2. m \in Entry
  BY DEF TypeOK, TypeMem
<1>3. m = [key |-> m.key, ts |-> m.ts]
  BY <1>2 DEF Entry
<1> QED
  BY <1>1, <1>3 DEF EntryInFile, TOCEntryAt

\* What a memClearer sends and what it starts or extends is good, so all is.
LEMMA TOCBlockMoves ==
  ASSUME TypeOK, TOCEntriesOK, UNCHANGED files, NEW c \in Workers, NEW t,
         tb' = [tb EXCEPT ![c] = t], BlockOfFile(t),
         \/ UNCHANGED pendingTOCBlockChan
         \/ \E x \in TOCBlock : /\ pendingTOCBlockChan' = Append(pendingTOCBlockChan, x)
                                /\ BlockOfFile(x)
  PROVE  TOCEntriesOK'
<1>1. \A x : BlockOfFile(x) => BlockOfFile(x)'
  BY FilesKept, GoodBlocksStay
<1>2. \A n, e : EntryInFile(n, e) => EntryInFile(n, e)'
  BY FilesKept, GoodBlocksStay
<1>3. \A d \in Workers : BlockOfFile(tb'[d])
  BY DEF TOCEntriesOK, TypeOK, TypeClearer
<1>4. \A j \in DOMAIN pendingTOCBlockChan' : BlockOfFile(pendingTOCBlockChan'[j])
  <2>1. CASE UNCHANGED pendingTOCBlockChan
    BY <2>1 DEF TOCEntriesOK
  <2>2. ASSUME NEW x \in TOCBlock, pendingTOCBlockChan' = Append(pendingTOCBlockChan, x),
               BlockOfFile(x)
        PROVE  \A j \in DOMAIN pendingTOCBlockChan' : BlockOfFile(pendingTOCBlockChan'[j])
    <3>1. pendingTOCBlockChan \in Seq(TOCBlock)
      BY DEF TypeOK, TypeClearer
    <3>2. \A j \in DOMAIN pendingTOCBlockChan' :
            \/ j \in DOMAIN pendingTOCBlockChan /\ pendingTOCBlockChan'[j] = pendingTOCBlockChan[j]
            \/ pendingTOCBlockChan'[j] = x
      BY <2>2, <3>1, AppendElems
    <3> QED
      BY <2>2, <3>2 DEF TOCEntriesOK
  <2> QED
    BY <2>1, <2>2
<1>5. \A n \in DOMAIN files : \A i \in DOMAIN files[n].toc : EntryInFile(n, files[n].toc[i])'
  BY <1>2 DEF TOCEntriesOK
<1>6. \A d \in Workers : BlockOfFile(tb[d])'
  BY <1>1, <1>3
<1>7. \A j \in DOMAIN pendingTOCBlockChan' : BlockOfFile(pendingTOCBlockChan[j])'
  BY <1>1, <1>4
<1> QED
  BY <1>5, <1>6, <1>7 DEF TOCEntriesOK

\* The empty TOC block and the marks have no entries.
LEMMA EmptyBlocks == BlockOfFile(NoTB) /\ \A m : BlockOfFile(MarkTB(m))
BY DEF BlockOfFile, NoTB, MarkTB
\* The tocWriter appends a TOC block to the TOC of its file, or starts it anew.
LEMMA TOCBlockWrittenKeeps ==
  ASSUME TypeOK, TOCEntriesOK, TOCBlockWritten
  PROVE  TOCEntriesOK'
<1> DEFINE t == Head(pendingTOCBlockChan)
<1>1. /\ pendingTOCBlockChan \in Seq(TOCBlock) /\ pendingTOCBlockChan # <<>>
      /\ pendingTOCBlockChan' = Tail(pendingTOCBlockChan)
      /\ files' = [files EXCEPT ![t.file].toc =
                     IF t.file \in {activeTOCA, activeTOCB} THEN files[t.file].toc \o t.entries
                     ELSE t.entries]
      /\ UNCHANGED tb
  BY DEF TOCBlockWritten, clearerVars, TypeOK, TypeClearer
<1>2. /\ t = pendingTOCBlockChan[1] /\ 1 \in DOMAIN pendingTOCBlockChan
      /\ \A j \in DOMAIN pendingTOCBlockChan' :
           /\ j + 1 \in DOMAIN pendingTOCBlockChan
           /\ pendingTOCBlockChan'[j] = pendingTOCBlockChan[j + 1]
  BY <1>1, TailElems
<1>3. t \in TOCBlock /\ BlockOfFile(t)
  BY <1>1, <1>2 DEF TOCEntriesOK
<1>4. t.entries \in Seq(TOCEntry)
  BY <1>3 DEF TOCBlock
<1>5. /\ \A n, e : EntryInFile(n, e) => EntryInFile(n, e)'
      /\ \A x : BlockOfFile(x) => BlockOfFile(x)'
  BY FilesKept, GoodBlocksStay
<1>6. files \in Seq(FileRec) /\ \A n \in DOMAIN files : files[n].toc \in Seq(TOCEntry)
  <2>1. files \in Seq(FileRec)
    BY DEF TypeOK, TypeFile
  <2>2. \A n \in DOMAIN files : files[n] \in FileRec
    BY <2>1
  <2> QED
    BY <2>1, <2>2 DEF FileRec
<1> HIDE DEF t
<1>7. DOMAIN files' = DOMAIN files
  BY <1>1
<1>8. \A n \in DOMAIN files : n # t.file => files'[n].toc = files[n].toc
  BY <1>1
<1>9. t.file \in DOMAIN files => \/ files'[t.file].toc = t.entries
                               \/ files'[t.file].toc = files[t.file].toc \o t.entries
  <2>1. \A n \in DOMAIN files : files[n] \in FileRec
    BY <1>6
  <2> QED
    BY <1>1, <2>1 DEF FileRec
<1>10. \A n \in DOMAIN files : \A i \in DOMAIN files'[n].toc : EntryInFile(n, files'[n].toc[i])
  <2> SUFFICES ASSUME NEW n \in DOMAIN files, n = t.file, NEW i \in DOMAIN files'[n].toc
               PROVE  EntryInFile(n, files'[n].toc[i])
    BY <1>8 DEF TOCEntriesOK
  <2>1. CASE files'[n].toc = t.entries
    BY <1>3, <2>1 DEF BlockOfFile
  <2>2. CASE files'[n].toc = files[n].toc \o t.entries
    <3> DEFINE d == files[n].toc
    <3>1. d \in Seq(TOCEntry)
      BY <1>6
    <3>2. \A j \in DOMAIN d : EntryInFile(n, d[j])
      BY DEF TOCEntriesOK
    <3> HIDE DEF d
    <3>3. \/ i \in DOMAIN d /\ (d \o t.entries)[i] = d[i]
          \/ i - Len(d) \in DOMAIN t.entries /\ (d \o t.entries)[i] = t.entries[i - Len(d)]
      <4>1. i \in DOMAIN (d \o t.entries)
        BY <2>2 DEF d
      <4> QED
        BY <1>4, <3>1, <4>1
    <3>4. files'[n].toc[i] = (d \o t.entries)[i]
      BY <2>2 DEF d
    <3> QED
      BY <1>3, <3>2, <3>3, <3>4 DEF BlockOfFile
  <2> QED
    BY <1>9, <2>1, <2>2
<1>11. \A n \in DOMAIN files' : \A i \in DOMAIN files'[n].toc : EntryInFile(n, files[n].toc[i])'
  BY <1>5, <1>7, <1>10
<1>12. \A c \in Workers : BlockOfFile(tb[c])'
  BY <1>1, <1>5 DEF TOCEntriesOK
<1>13. \A j \in DOMAIN pendingTOCBlockChan' : BlockOfFile(pendingTOCBlockChan[j])'
  BY <1>2, <1>5 DEF TOCEntriesOK
<1> QED
  BY <1>11, <1>12, <1>13 DEF TOCEntriesOK

\* Every action keeps the TOC entries good.
LEMMA TOCEntriesStep ==
  ASSUME IInv, TOCEntriesOK, Next
  PROVE  TOCEntriesOK'
<1>1. TypeOK /\ AfterFile /\ Content
  BY DEF IInv
<1>2. ASSUME NEW w \in Workers, NEW r \in Requests, MemReceive(w, r) PROVE TOCEntriesOK'
  BY <1>1, <1>2, TOCEntriesFrame DEF MemReceive, fileVars, clearerVars
<1>3. ASSUME NEW w \in Workers, MemSwitch(w) \/ MemWriter(w) PROVE TOCEntriesOK'
  BY <1>1, <1>3, TOCEntriesFrame
  DEF MemSwitch, MemWriter, MemReject, MemRotate, MemTake, MemStore, MemMark, fileVars, clearerVars
<1>4. CASE FileReceive \/ FileClosed \/ FileMark
  BY <1>1, <1>4, TOCEntriesFrame DEF FileReceive, FileClosed, FileMark, clearerVars
<1>5. CASE FileCreate \/ FileWrite \/ BufferWritten
  BY <1>1, <1>5, TOCEntriesFrame DEF FileCreate, FileWrite, BufferWritten, clearerVars
<1>6. ASSUME NEW c \in Workers, ClearReceive(c) \/ ClearFree(c) PROVE TOCEntriesOK'
  BY <1>1, <1>6, TOCEntriesFrame DEF ClearReceive, ClearFree, fileVars
<1>7. ASSUME NEW c \in Workers, ClearSendTOC(c) PROVE TOCEntriesOK'
  <2>1. tb[c] \in TOCBlock /\ BlockOfFile(tb[c])
    BY <1>1 DEF TOCEntriesOK, TypeOK, TypeClearer
  <2> QED
    BY <1>1, <1>7, <2>1, TOCBlockMoves, EmptyBlocks DEF ClearSendTOC, fileVars
<1>8. ASSUME NEW c \in Workers, ClearEntry(c) PROVE TOCEntriesOK'
  <2> DEFINE b == clearing[c]
             e == TOCEntryAt(c)
             x == [file |-> blockFile[b], entries |-> Append(tb[c].entries, e)]
  <2>1. /\ b \in Blocks /\ blockFile[b] # 0
        /\ clearPos[c] <= Len(mem[b]) /\ clearPos[c] \in DOMAIN mem[b]
    BY <1>1, <1>8 DEF ClearEntry, AfterFile, TypeOK, TypeMem, TypeClearer
  <2>2. EntryInFile(blockFile[b], e)
    BY <1>1, <2>1, EntryAtIsGood
  <2>3. e \in TOCEntry
    BY <1>1, <2>1, EntryAtType DEF TypeOK
  <2>4. tb[c] \in TOCBlock /\ BlockOfFile(tb[c]) /\ (tb[c] = NoTB \/ tb[c].file = blockFile[b])
    BY <1>1, <1>8, <2>1 DEF ClearEntry, MustSend, TOCEntriesOK, TypeOK, TypeClearer
  <2>5. UNCHANGED <<files, pendingTOCBlockChan>> /\ (tb' = tb \/ tb' = [tb EXCEPT ![c] = x])
    BY <1>8 DEF ClearEntry, fileVars
  <2> HIDE DEF e
  <2>6. tb[c].entries \in Seq(TOCEntry)
    BY <2>4 DEF TOCBlock
  <2>7. \A i \in DOMAIN tb[c].entries : EntryInFile(blockFile[b], tb[c].entries[i])
    BY <2>4 DEF BlockOfFile, NoTB
  <2>8. \A i \in DOMAIN Append(tb[c].entries, e) :
          EntryInFile(blockFile[b], Append(tb[c].entries, e)[i])
    BY <2>2, <2>3, <2>6, <2>7, AppendElems
  <2>9. BlockOfFile(x)
    BY <2>8 DEF BlockOfFile
  <2> HIDE DEF x
  <2>10. CASE tb' = tb
    BY <1>1, <2>5, <2>10, TOCEntriesFrame
  <2>11. CASE tb' = [tb EXCEPT ![c] = x]
    BY <1>1, <2>5, <2>9, <2>11, TOCBlockMoves
  <2> QED
    BY <2>5, <2>10, <2>11
<1>9. ASSUME NEW c \in Workers, ClearSendFull(c) PROVE TOCEntriesOK'
  <2> DEFINE b == clearing[c]
             x == [file |-> blockFile[b], entries |-> <<TOCEntryAt(c)>>]
  <2>1. b \in Blocks /\ blockFile[b] # 0 /\ clearPos[c] \in DOMAIN mem[b]
    BY <1>1, <1>9 DEF ClearSendFull, AfterFile, Content, AtEntry
  <2>2. EntryInFile(blockFile[b], TOCEntryAt(c))
    BY <1>1, <2>1, EntryAtIsGood
  <2>3. BlockOfFile(x)
    BY <2>2 DEF BlockOfFile
  <2>4. tb[c] \in TOCBlock /\ BlockOfFile(tb[c])
    BY <1>1 DEF TOCEntriesOK, TypeOK, TypeClearer
  <2>5. /\ tb' = [tb EXCEPT ![c] = x] /\ UNCHANGED files
        /\ pendingTOCBlockChan' = Append(pendingTOCBlockChan, tb[c])
    BY <1>9 DEF ClearSendFull, fileVars
  <2> HIDE DEF x
  <2> QED
    BY <1>1, <2>3, <2>4, <2>5, TOCBlockMoves
<1>10. ASSUME NEW c \in Workers, ClearMark(c) PROVE TOCEntriesOK'
  <2>1. MarkTB(clearing[c]) \in TOCBlock
    BY <1>10 DEF ClearMark, MarkTB, TOCBlock
  <2>2. /\ pendingTOCBlockChan' = Append(pendingTOCBlockChan, MarkTB(clearing[c]))
        /\ UNCHANGED <<files, tb>>
    BY <1>10 DEF ClearMark, fileVars
  <2>3. tb' = [tb EXCEPT ![c] = tb[c]] /\ BlockOfFile(tb[c])
    BY <1>1, <2>2 DEF TOCEntriesOK, TypeOK, TypeClearer
  <2> QED
    BY <1>1, <2>1, <2>2, <2>3, TOCBlockMoves, EmptyBlocks
<1>11. CASE TOCBlockWritten
  BY <1>1, <1>11, TOCBlockWrittenKeeps
<1>12. CASE TOCMark
  <2>1. /\ pendingTOCBlockChan \in Seq(TOCBlock) /\ pendingTOCBlockChan # <<>>
        /\ pendingTOCBlockChan' = Tail(pendingTOCBlockChan)
        /\ UNCHANGED <<files, tb>>
    BY <1>1, <1>12 DEF TOCMark, fileVars, clearerVars, TypeOK, TypeClearer
  <2>2. \A j \in DOMAIN pendingTOCBlockChan' :
          /\ j + 1 \in DOMAIN pendingTOCBlockChan
          /\ pendingTOCBlockChan'[j] = pendingTOCBlockChan[j + 1]
    BY <2>1, TailElems
  <2>3. /\ \A n, e : EntryInFile(n, e) => EntryInFile(n, e)'
        /\ \A x : BlockOfFile(x) => BlockOfFile(x)'
    BY <1>1, <2>1, FilesKept, GoodBlocksStay
  <2>4. \A n \in DOMAIN files : \A i \in DOMAIN files[n].toc : EntryInFile(n, files[n].toc[i])'
    BY <2>1, <2>3 DEF TOCEntriesOK
  <2>5. \A c \in Workers : BlockOfFile(tb[c])'
    BY <2>1, <2>3 DEF TOCEntriesOK
  <2>6. \A j \in DOMAIN pendingTOCBlockChan' : BlockOfFile(pendingTOCBlockChan[j])'
    BY <2>2, <2>3 DEF TOCEntriesOK
  <2> QED
    BY <2>1, <2>4, <2>5, <2>6 DEF TOCEntriesOK
<1>13. CASE TOCFlushed
  BY <1>1, <1>13, TOCEntriesFrame DEF TOCFlushed, fileVars, clearerVars
<1>14. ASSUME NEW p \in Flushers, FlushCall(p) \/ FlushStep(p) PROVE TOCEntriesOK'
  BY <1>1, <1>14, TOCEntriesFrame
  DEF FlushStep, FlushCall, FlushSend, FlushReturn, fileVars, clearerVars
<1>15. CASE ShutdownCall \/ ShutdownSend \/ ShutdownReturn
  BY <1>1, <1>15, TOCEntriesFrame
  DEF ShutdownCall, ShutdownSend, ShutdownReturn, fileVars, clearerVars
<1>16. ASSUME NEW k \in Keys, DiscardLocalRemoval(k) PROVE TOCEntriesOK'
  BY <1>1, <1>16, TOCEntriesFrame DEF DiscardLocalRemoval, fileVars, clearerVars
<1>17. ASSUME NEW r \in Readers,
              (\E k \in Keys : ReadGet(r, k)) \/ ReadMemBlock(r) \/ ReadFile(r) \/ ReadReturn(r)
       PROVE  TOCEntriesOK'
  BY <1>1, <1>17, TOCEntriesFrame
  DEF ReadGet, ReadMemBlock, ReadFile, ReadReturn, fileVars, clearerVars
<1>18. CASE Idle
  BY <1>1, <1>18, TOCEntriesFrame DEF Idle, vars, fileVars, clearerVars
<1> QED
  BY <1>2, <1>3, <1>4, <1>5, <1>6, <1>7, <1>8, <1>9, <1>10, <1>11, <1>12, <1>13, <1>14,
     <1>15, <1>16, <1>17, <1>18
  DEF Next, MemClearer, FileWriter, TOCWriter

\* Every TOC entry, also one still on its way to the TOC, names a value of its file.
LEMMA TOCEntriesAlways == Spec => []TOCEntriesOK
<1>1. Init => TOCEntriesOK
  BY EmptyBlocks DEF Init, TOCEntriesOK
<1>2. IInv /\ TOCEntriesOK /\ [Next]_vars => TOCEntriesOK'
  <2>1. ASSUME IInv, TOCEntriesOK, UNCHANGED vars PROVE TOCEntriesOK'
    BY <2>1, TOCEntriesFrame DEF IInv, vars, fileVars, clearerVars
  <2> QED
    BY <2>1, TOCEntriesStep
<1> QED
  BY <1>1, <1>2, InvAlways, PTL DEF Spec

\* Whatever is in a TOC file with an offset leads, in the value file of the same
\* name, to the value of that key and timestamp: recovery reads what was written.
THEOREM TOCsLeadToValues == Spec => []TOCMatchesFile
<1>1. TOCEntriesOK => TOCMatchesFile
  BY DEF TOCEntriesOK, EntryInFile, FileHas, TOCMatchesFile, At
<1> QED
  BY <1>1, TOCEntriesAlways, PTL
-----------------------------------------------------------------------------
(* The write path implements ValueStoreAPI *)

\* The removal bit is neither in 0 nor added by NoRewrite.
LEMMA RemovalBit ==
  /\ ~HasBit(0, TSB_LOCAL_REMOVAL)
  /\ \A ts \in Nat : ~HasBit(ts, TSB_LOCAL_REMOVAL) => ~HasBit(NoRewrite(ts), TSB_LOCAL_REMOVAL)
<1>1. ASSUME NEW ts \in Nat PROVE (ts - (ts % 2)) \div 2 = ts \div 2
  OBVIOUS
<1> QED
  BY <1>1 DEF HasBit, NoRewrite, TSB_LOCAL_REMOVAL

\* What MemStore does to the timestamps: the newest stands.
LEMMA StoreKeepsNewest ==
  ASSUME TypeOK, NEW w \in Workers, MemStore(w)
  PROVE  /\ req[w] \in Requests /\ req[w].key \in Keys /\ req[w].ts \in Nat
         /\ \A k \in Keys : locmap'[k].ts =
              IF k = req[w].key /\ NoRewrite(req[w].ts) > locmap[k].ts
              THEN NoRewrite(req[w].ts) ELSE locmap[k].ts
<1> DEFINE r == req[w]
<1>1. r \in Requests /\ r.key \in Keys /\ r.ts \in Nat
  BY RequestsAssumption
  DEF MemStore, TypeOK, TypeWriter, Request, NoReq, FlushReq, ShutdownReq, StoppedReq
<1>2. NoRewrite(r.ts) \in Nat
  BY <1>1, NoRewriteFacts
<1> DEFINE b == memBlock[w]
           off == Len(mem[b]) + 1
           same == HasBit(r.ts, TSB_COMPACTION_REWRITE)
<1>3. locmap' = Set(locmap, r.key, NoRewrite(r.ts), b, off, same)
  BY DEF MemStore
<1>4. b # 0
  BY DEF MemStore
<1>5. locmap \in [Keys -> [ts : Nat, id : Nat, off : Nat]]
  BY DEF TypeOK, TypeMem, Location
<1> DEFINE n == NoRewrite(r.ts)
<1> HIDE DEF r, n, b, off, same
<1>6. \A k \in Keys : locmap'[k].ts = IF k = r.key /\ n > locmap[k].ts THEN n ELSE locmap[k].ts
  <2>1. CASE Wins(locmap[r.key], n, same)
    <3>1. locmap' = [locmap EXCEPT ![r.key] = [ts |-> n, id |-> b, off |-> off]]
      BY <1>3, <1>4, <2>1 DEF Set, n
    <3> QED
      BY <1>1, <1>2, <1>5, <2>1, <3>1 DEF Wins, n
  <2>2. CASE ~Wins(locmap[r.key], n, same)
    <3>1. locmap' = locmap
      BY <1>3, <2>2 DEF Set, n
    <3> QED
      BY <1>1, <1>2, <1>5, <2>2, <3>1 DEF Wins, n
  <2> QED
    BY <2>1, <2>2
<1> QED
  BY <1>1, <1>6 DEF r, n

\* Clearing an entry changes no timestamp of the location map.
LEMMA ClearingIsInvisible ==
  ASSUME IInv, NoNewerInBlocks, NEW c \in Workers, ClearEntry(c)
  PROVE  \A k \in Keys : locmap'[k].ts = locmap[k].ts
<1> DEFINE b == clearing[c]
           m == mem[b][clearPos[c]]
           e == TOCEntryAt(c)
<1>1. /\ b \in Blocks /\ blockFile[b] # 0 /\ blockFile[b] \in Nat
      /\ clearPos[c] \in DOMAIN mem[b]
      /\ mem[b] \in Seq(Entry)
  BY DEF ClearEntry, IInv, AfterFile, TypeOK, TypeFile, TypeMem, TypeClearer
<1>2. m.key \in Keys /\ m.ts \in Nat
  <2>1. m \in Entry
    BY <1>1
  <2> QED
    BY <2>1 DEF Entry
<1>3. ~HasBit(m.ts, TSB_LOCAL_REMOVAL) /\ m.ts <= locmap[m.key].ts
  BY <1>1 DEF NoNewerInBlocks
<1>4. e.key = m.key /\ e.ts = m.ts
  BY DEF TOCEntryAt
<1>5. FileID(blockFile[b]) # 0
  BY <1>1, BlockFacts, SMTT(30) DEF FileID
<1>6. locmap' = Set(locmap, m.key, m.ts, FileID(blockFile[b]), e.off, TRUE)
  BY <1>3, <1>4 DEF ClearEntry
<1>7. locmap \in [Keys -> [ts : Nat, id : Nat, off : Nat]]
  BY DEF IInv, TypeOK, TypeMem, Location
<1> HIDE DEF b, m, e
<1>8. locmap' = locmap \/ (locmap[m.key].ts = m.ts /\ locmap' = [locmap EXCEPT ![m.key] =
                            [ts |-> m.ts, id |-> FileID(blockFile[b]), off |-> e.off]])
  BY <1>2, <1>3, <1>5, <1>6, <1>7 DEF Set, Wins
<1> QED
  BY <1>2, <1>7, <1>8

\* NoNewerInBlocks stays while neither the blocks nor the timestamps change.
LEMMA NoNewerFrame ==
  ASSUME NoNewerInBlocks, UNCHANGED <<mem, shutdownPC>>,
         \A b \in Blocks : mem[b] \in Seq(Entry),
         \A k \in Keys : locmap'[k].ts = locmap[k].ts
  PROVE  NoNewerInBlocks'
<1>1. \A b \in Blocks : \A i \in DOMAIN mem[b] : mem[b][i].key \in Keys
  <2>1. \A b \in Blocks : \A i \in DOMAIN mem[b] : mem[b][i] \in Entry
    OBVIOUS
  <2> QED
    BY <2>1 DEF Entry
<1> QED
  BY <1>1 DEF NoNewerInBlocks

\* A stored value is not newer than the location map.
LEMMA NoNewerMemStore ==
  ASSUME OnlyWrites, IInv, NoNewerInBlocks, NEW w \in Workers, MemStore(w)
  PROVE  NoNewerInBlocks'
<1> DEFINE r == req[w]
           b == memBlock[w]
           e == [key |-> r.key, ts |-> NoRewrite(r.ts)]
<1>1. TypeOK
  BY DEF IInv
<1>2. /\ r \in Requests /\ r.key \in Keys /\ r.ts \in Nat
      /\ \A k \in Keys : locmap'[k].ts =
           IF k = r.key /\ NoRewrite(r.ts) > locmap[k].ts THEN NoRewrite(r.ts) ELSE locmap[k].ts
  BY <1>1, StoreKeepsNewest
<1>3. /\ b \in Blocks /\ mem \in [Blocks -> Seq(Entry)]
      /\ mem' = mem \/ mem' = [mem EXCEPT ![b] = Append(mem[b], e)]
      /\ UNCHANGED shutdownPC
  BY <1>1 DEF MemStore, callerVars, TypeOK, TypeMem, TypeWriter
<1>4. \A k \in Keys : locmap[k].ts \in Nat
  BY <1>1 DEF TypeOK, TypeMem, Location
<1>5. NoRewrite(r.ts) \in Nat /\ ~HasBit(NoRewrite(r.ts), TSB_LOCAL_REMOVAL)
  BY <1>2, NoRewriteFacts, RemovalBit DEF OnlyWrites
<1>6. \A k \in Keys : ~HasBit(locmap'[k].ts, TSB_LOCAL_REMOVAL) /\ locmap'[k].ts >= locmap[k].ts
  BY <1>2, <1>4, <1>5 DEF NoNewerInBlocks
<1>7. e \in Entry /\ e.ts = NoRewrite(r.ts) /\ e.ts <= locmap'[e.key].ts /\ locmap'[r.key].ts \in Nat
  BY <1>2, <1>4, <1>5 DEF Entry
<1> HIDE DEF r, b, e
<1>8. \A a \in Blocks : \A i \in DOMAIN mem[a] :
        /\ mem[a][i] \in Entry
        /\ ~HasBit(mem[a][i].ts, TSB_LOCAL_REMOVAL)
        /\ mem[a][i].ts <= locmap'[mem[a][i].key].ts
  <2> SUFFICES ASSUME NEW a \in Blocks, NEW i \in DOMAIN mem[a]
               PROVE  /\ mem[a][i] \in Entry
                      /\ ~HasBit(mem[a][i].ts, TSB_LOCAL_REMOVAL)
                      /\ mem[a][i].ts <= locmap'[mem[a][i].key].ts
    OBVIOUS
  <2>1. mem[a][i] \in Entry
    BY <1>3
  <2>2. mem[a][i].key \in Keys /\ mem[a][i].ts \in Nat
    BY <2>1 DEF Entry
  <2>3. ~HasBit(mem[a][i].ts, TSB_LOCAL_REMOVAL) /\ mem[a][i].ts <= locmap[mem[a][i].key].ts
    BY DEF NoNewerInBlocks
  <2>4. locmap'[mem[a][i].key].ts >= locmap[mem[a][i].key].ts
        /\ locmap'[mem[a][i].key].ts \in Nat /\ locmap[mem[a][i].key].ts \in Nat
    BY <1>2, <1>4, <1>5, <1>6, <2>2
  <2> QED
    BY <2>1, <2>2, <2>3, <2>4
<1>9. \A a \in Blocks : \A i \in DOMAIN mem'[a] :
        \/ i \in DOMAIN mem[a] /\ mem'[a][i] = mem[a][i]
        \/ mem'[a][i] = e
  <2>1. CASE mem' = mem
    BY <2>1
  <2>2. CASE mem' = [mem EXCEPT ![b] = Append(mem[b], e)]
    <3>1. /\ \A a \in Blocks : a # b => mem'[a] = mem[a]
          /\ mem'[b] = Append(mem[b], e) /\ mem[b] \in Seq(Entry)
      BY <1>3, <2>2
    <3>2. \A i \in DOMAIN mem'[b] :
            \/ i \in DOMAIN mem[b] /\ mem'[b][i] = mem[b][i]
            \/ mem'[b][i] = e
      BY <1>7, <3>1, AppendElems
    <3> QED
      BY <3>1, <3>2
  <2> QED
    BY <1>3, <2>1, <2>2
<1>10. \A a \in Blocks : \A i \in DOMAIN mem'[a] :
         /\ ~HasBit(mem'[a][i].ts, TSB_LOCAL_REMOVAL)
         /\ mem'[a][i].ts <= locmap'[mem'[a][i].key].ts
  BY <1>5, <1>7, <1>8, <1>9
<1> QED
  BY <1>3, <1>6, <1>10 DEF NoNewerInBlocks
\* Every action keeps NoNewerInBlocks.
LEMMA NoNewerStep ==
  ASSUME OnlyWrites, IInv, NoNewerInBlocks, Next
  PROVE  NoNewerInBlocks'
<1>1. TypeOK /\ \A b \in Blocks : mem[b] \in Seq(Entry)
  BY DEF IInv, TypeOK, TypeMem
<1>2. shutdownPC = 0 /\ CanShutdown = FALSE
  BY DEF NoNewerInBlocks, OnlyWrites
<1>3. ASSUME NEW w \in Workers, NEW r \in Requests, MemReceive(w, r) PROVE NoNewerInBlocks'
  BY <1>1, <1>3, NoNewerFrame DEF MemReceive, memVars
<1>4. ASSUME NEW w \in Workers, MemSwitch(w) PROVE NoNewerInBlocks'
  BY <1>1, <1>4, NoNewerFrame DEF MemSwitch, memVars
<1>5. ASSUME NEW w \in Workers, MemReject(w) \/ MemRotate(w) \/ MemTake(w) \/ MemMark(w)
      PROVE  NoNewerInBlocks'
  BY <1>1, <1>5, NoNewerFrame DEF MemReject, MemRotate, MemTake, MemMark, memVars, callerVars
<1>6. ASSUME NEW w \in Workers, MemStore(w) PROVE NoNewerInBlocks'
  BY <1>6, NoNewerMemStore
<1>7. CASE FileWriter \/ BufferWritten
  BY <1>1, <1>7, NoNewerFrame
  DEF FileWriter, FileReceive, FileClosed, FileCreate, FileWrite, FileMark, BufferWritten,
      memVars, callerVars
<1>8. ASSUME NEW c \in Workers,
             ClearReceive(c) \/ ClearSendTOC(c) \/ ClearSendFull(c) \/ ClearMark(c)
      PROVE  NoNewerInBlocks'
  BY <1>1, <1>8, NoNewerFrame
  DEF ClearReceive, ClearSendTOC, ClearSendFull, ClearMark, memVars, callerVars
<1>9. ASSUME NEW c \in Workers, ClearEntry(c) PROVE NoNewerInBlocks'
  <2>1. \A k \in Keys : locmap'[k].ts = locmap[k].ts
    BY <1>9, ClearingIsInvisible
  <2> QED
    BY <1>1, <1>9, <2>1, NoNewerFrame DEF ClearEntry, memVars, callerVars
<1>10. ASSUME NEW c \in Workers, ClearFree(c) PROVE NoNewerInBlocks'
  <2>1. \A b \in Blocks : mem'[b] = mem[b] \/ mem'[b] = <<>>
    BY <1>1, <1>10 DEF ClearFree, TypeOK, TypeMem
  <2>2. UNCHANGED <<locmap, shutdownPC>>
    BY <1>10 DEF ClearFree, callerVars
  <2> QED
    BY <2>1, <2>2 DEF NoNewerInBlocks
<1>11. CASE TOCWriter
  BY <1>1, <1>11, NoNewerFrame
  DEF TOCWriter, TOCBlockWritten, TOCMark, TOCFlushed, memVars, callerVars
<1>12. ASSUME NEW p \in Flushers, FlushCall(p) \/ FlushStep(p) PROVE NoNewerInBlocks'
  BY <1>1, <1>12, NoNewerFrame DEF FlushCall, FlushStep, FlushSend, FlushReturn, memVars
<1>13. ~ShutdownCall /\ ~ShutdownSend /\ ~ShutdownReturn
  BY <1>2, WorkersAssumption DEF ShutdownCall, ShutdownSend, ShutdownReturn
<1>14. \A k \in Keys : ~DiscardLocalRemoval(k)
  BY DEF DiscardLocalRemoval, NoNewerInBlocks
<1>15. ASSUME NEW r \in Readers,
              (\E k \in Keys : ReadGet(r, k)) \/ ReadMemBlock(r) \/ ReadFile(r) \/ ReadReturn(r)
       PROVE  NoNewerInBlocks'
  BY <1>1, <1>15, NoNewerFrame DEF ReadGet, ReadMemBlock, ReadFile, ReadReturn, memVars
<1>16. CASE Idle
  BY <1>1, <1>16, NoNewerFrame DEF Idle, vars, memVars, callerVars
<1> QED
  BY <1>3, <1>4, <1>5, <1>6, <1>7, <1>8, <1>9, <1>10, <1>11, <1>12, <1>13, <1>14, <1>15, <1>16
  DEF Next, MemWriter, MemClearer
\* A step that changes neither a timestamp nor a request that is served is a
\* stuttering step of ValueStoreAPI.
LEMMA Invisible ==
  ASSUME \A k \in Keys : locmap'[k].ts = locmap[k].ts,
         \A w \in Workers : req'[w] = req[w] \/ (req'[w].op # "write" /\ req[w].op # "write")
  PROVE  UNCHANGED <<[k \in Keys |-> locmap[k].ts],
                     [w \in Workers |-> IF req[w].op = "write" THEN req[w] ELSE NoReq]>>
<1>1. [k \in Keys |-> locmap[k].ts]' = [k \in Keys |-> locmap[k].ts]
  OBVIOUS
<1>2. [w \in Workers |-> IF req[w].op = "write" THEN req[w] ELSE NoReq]'
      = [w \in Workers |-> IF req[w].op = "write" THEN req[w] ELSE NoReq]
  OBVIOUS
<1> QED
  BY <1>1, <1>2

\* Every step of the write path is a step of ValueStoreAPI or stutters there.
LEMMA StepImplementsAPI ==
  ASSUME OnlyWrites, IInv, NoNewerInBlocks, Next
  PROVE  \/ API!Next
         \/ UNCHANGED <<[k \in Keys |-> locmap[k].ts],
                        [w \in Workers |-> IF req[w].op = "write" THEN req[w] ELSE NoReq]>>
<1> DEFINE current == [k \in Keys |-> locmap[k].ts]
           serving == [w \in Workers |-> IF req[w].op = "write" THEN req[w] ELSE NoReq]
           Stutter == UNCHANGED <<current, serving>>
<1>1. TypeOK
  BY DEF IInv
<1>2. /\ NoReq.op # "write" /\ FlushReq.op # "write" /\ ShutdownReq.op # "write"
      /\ StoppedReq.op # "write"
      /\ \A r \in Requests : r.op = "write" /\ r # NoReq /\ r.key \in Keys
  BY RequestsAssumption DEF Request, NoReq, FlushReq, ShutdownReq, StoppedReq
<1>3. req \in [Workers -> Requests \cup {NoReq, FlushReq, ShutdownReq, StoppedReq}]
  BY <1>1 DEF TypeOK, TypeWriter
<1>4. ASSUME NEW w \in Workers, NEW r \in Requests, MemReceive(w, r) PROVE API!Next
  <2>1. /\ req[w] = NoReq /\ WorkerOf[r.key] = w
        /\ req' = [req EXCEPT ![w] = r]
        /\ UNCHANGED locmap
    BY <1>4 DEF MemReceive
  <2>2. serving[w] = NoReq /\ serving' = [serving EXCEPT ![w] = r] /\ current' = current
    BY <1>2, <1>3, <2>1
  <2>3. API!Receive(w, r)
    BY <2>1, <2>2 DEF API!Receive
  <2> QED
    BY <2>3 DEF API!Next
<1>5. ASSUME NEW w \in Workers, MemReject(w) PROVE API!Next
  <2>1. /\ req[w].op = "write" /\ Rejected(w)
        /\ req' = [req EXCEPT ![w] = NoReq]
        /\ UNCHANGED locmap
    BY <1>5 DEF MemReject
  <2>2. /\ serving[w] = req[w] /\ serving[w] # NoReq
        /\ serving' = [serving EXCEPT ![w] = NoReq] /\ current' = current
    BY <1>2, <1>3, <2>1
  <2>3. serving[w].long \/ ~serving[w].internal
    BY <2>1, <2>2 DEF Rejected
  <2>4. API!Refuse(w)
    BY <2>2, <2>3 DEF API!Refuse
  <2> QED
    BY <2>4 DEF API!Next
<1>6. ASSUME NEW w \in Workers, MemStore(w) PROVE API!Next
  <2> DEFINE r == req[w]
  <2>1. /\ r \in Requests /\ r.key \in Keys
        /\ \A k \in Keys : locmap'[k].ts =
             IF k = r.key /\ NoRewrite(r.ts) > locmap[k].ts THEN NoRewrite(r.ts) ELSE locmap[k].ts
    BY <1>1, <1>6, StoreKeepsNewest
  <2>2. r.op = "write" /\ ~r.long /\ req' = [req EXCEPT ![w] = NoReq]
    BY <1>6 DEF MemStore, Rejected
  <2>3. /\ serving[w] = r /\ r # NoReq
        /\ serving' = [serving EXCEPT ![w] = NoReq]
    BY <1>2, <1>3, <2>1, <2>2
  <2>4. current' = [current EXCEPT ![r.key] =
                      IF NoRewrite(r.ts) > current[r.key] THEN NoRewrite(r.ts) ELSE current[r.key]]
    BY <2>1
  <2>5. API!Apply(w)
    BY <2>2, <2>3, <2>4 DEF API!Apply, API!NoRewrite, NoRewrite
  <2> QED
    BY <2>5 DEF API!Next
<1>7. ASSUME NEW w \in Workers, MemSwitch(w) \/ MemRotate(w) \/ MemTake(w) PROVE Stutter
  BY <1>7, Invisible DEF MemSwitch, MemRotate, MemTake
<1>8. ASSUME NEW w \in Workers, MemMark(w) PROVE Stutter
  BY <1>2, <1>3, <1>8, Invisible DEF MemMark
<1>9. ASSUME FileWriter \/ BufferWritten PROVE Stutter
  BY <1>9, Invisible
  DEF FileWriter, FileReceive, FileClosed, FileCreate, FileWrite, FileMark, BufferWritten, writerVars
<1>10. ASSUME NEW c \in Workers, MemClearer(c) PROVE Stutter
  <2>1. \A k \in Keys : locmap'[k].ts = locmap[k].ts
    BY <1>10, ClearingIsInvisible
    DEF MemClearer, ClearReceive, ClearSendTOC, ClearSendFull, ClearFree, ClearMark
  <2>2. req' = req
    BY <1>10
    DEF MemClearer, ClearReceive, ClearSendTOC, ClearEntry, ClearSendFull, ClearFree, ClearMark,
        writerVars
  <2> QED
    BY <2>1, <2>2, Invisible
<1>11. ASSUME TOCWriter PROVE Stutter
  BY <1>11, Invisible DEF TOCWriter, TOCBlockWritten, TOCMark, TOCFlushed, writerVars
<1>12. ASSUME NEW p \in Flushers, FlushCall(p) \/ FlushReturn(p) PROVE Stutter
  BY <1>12, Invisible DEF FlushCall, FlushReturn, writerVars
<1>13. ASSUME NEW p \in Flushers, FlushSend(p) PROVE Stutter
  BY <1>2, <1>3, <1>13, Invisible DEF FlushSend
<1>14. ~ShutdownCall /\ ~ShutdownSend /\ ~ShutdownReturn
  BY WorkersAssumption DEF ShutdownCall, ShutdownSend, ShutdownReturn, OnlyWrites, NoNewerInBlocks
<1>15. \A k \in Keys : ~DiscardLocalRemoval(k)
  BY DEF DiscardLocalRemoval, NoNewerInBlocks
<1>16. ASSUME NEW r \in Readers,
              (\E k \in Keys : ReadGet(r, k)) \/ ReadMemBlock(r) \/ ReadFile(r) \/ ReadReturn(r)
       PROVE  Stutter
  BY <1>16, Invisible DEF ReadGet, ReadMemBlock, ReadFile, ReadReturn, writerVars
<1>17. ASSUME Idle PROVE Stutter
  BY <1>17, Invisible DEF Idle, vars, writerVars
<1>18. API!Next \/ Stutter
  <2> HIDE DEF Stutter
  <2>1. ASSUME NEW w \in Workers,
               (\E r \in Requests : MemReceive(w, r)) \/ MemSwitch(w) \/ MemWriter(w) \/ MemClearer(w)
        PROVE  API!Next \/ Stutter
    BY <2>1, <1>4, <1>5, <1>6, <1>7, <1>8, <1>10 DEF MemWriter
  <2>2. ASSUME NEW p \in Flushers, FlushCall(p) \/ FlushStep(p) PROVE Stutter
    BY <2>2, <1>12, <1>13 DEF FlushStep
  <2> QED
    BY <1>9, <1>11, <1>14, <1>15, <1>16, <1>17, <2>1, <2>2 DEF Next
<1> QED
  BY <1>18

\* Moving values to files, recycling blocks, flushing and reading are invisible to
\* the callers: the write path behaves as a store in which a worker applies or
\* refuses one request at a time and the newest timestamp of a key stands.
THEOREM WritePathImplementsAPI ==
  ASSUME OnlyWrites
  PROVE  Spec => ImplementsAPI
<1>1. Init => API!Init
  BY DEF Init, API!Init, Missing, NoReq
<1>2. Init => NoNewerInBlocks
  BY RemovalBit DEF Init, NoNewerInBlocks, Missing
<1>3. IInv /\ NoNewerInBlocks /\ [Next]_vars => NoNewerInBlocks'
  <2>1. ASSUME NoNewerInBlocks, UNCHANGED vars PROVE NoNewerInBlocks'
    BY <2>1 DEF vars, memVars, callerVars, NoNewerInBlocks
  <2> QED
    BY <2>1, NoNewerStep
<1>4. IInv /\ NoNewerInBlocks /\ [Next]_vars =>
        [API!Next]_<<[k \in Keys |-> locmap[k].ts],
                     [w \in Workers |-> IF req[w].op = "write" THEN req[w] ELSE NoReq]>>
  <2>1. ASSUME UNCHANGED vars
        PROVE  UNCHANGED <<[k \in Keys |-> locmap[k].ts],
                           [w \in Workers |-> IF req[w].op = "write" THEN req[w] ELSE NoReq]>>
    BY <2>1, Invisible DEF vars, writerVars
  <2> QED
    BY <2>1, StepImplementsAPI
<1> QED
  BY <1>1, <1>2, <1>3, <1>4, InvAlways, PTL DEF Spec, ImplementsAPI, API!Spec

-----------------------------------------------------------------------------
(* Durability: what Shutdown waits for is on disk when it is told that it is   *)
(* done, for any number of workers, pages, keys and writes, as long as no TOC  *)
(* block comes for a TOC that is closed (NoLateTOCBlock).                      *)

\* What the callers of the store do, and nothing.
Callers ==
  \/ \E p \in Flushers : FlushCall(p) \/ FlushStep(p)
  \/ ShutdownCall \/ ShutdownSend \/ ShutdownReturn
  \/ \E k \in Keys : DiscardLocalRemoval(k)
  \/ \E r \in Readers : \/ \E k \in Keys : ReadGet(r, k)
                        \/ ReadMemBlock(r) \/ ReadFile(r) \/ ReadReturn(r)
  \/ Idle

-----------------------------------------------------------------------------
(* Counting *)

\* Positions of a sequence: one more at its end, and all after the first shifted.
LEMMA PositionsCount ==
  ASSUME NEW n \in Nat, NEW A \in SUBSET (1..n)
  PROVE  /\ IsFiniteSet(A) /\ Cardinality(A) \in Nat
         /\ Cardinality(A) = 0 <=> A = {}
         /\ Cardinality(A \cup {n + 1}) = Cardinality(A) + 1
<1>1. IsFiniteSet(A)
  <2>1. IsFiniteSet(1..n)
    BY FS_Interval
  <2> QED
    BY <2>1, FS_Subset
<1>2. n + 1 \notin A
  OBVIOUS
<1> QED
  BY <1>1, <1>2, FS_CardinalityType, FS_EmptySet, FS_AddElement

LEMMA ShiftCount ==
  ASSUME NEW n \in Nat, NEW A \in SUBSET (1..n),
         NEW B, B = {i \in 1..(n - 1) : i + 1 \in A}
  PROVE  Cardinality(B) = Cardinality(A) - (IF 1 \in A THEN 1 ELSE 0)
<1>1. IsFiniteSet(A) /\ Cardinality(A) \in Nat
  BY PositionsCount
<1>2. /\ IsFiniteSet(A \ {1})
      /\ Cardinality(A \ {1}) = Cardinality(A) - (IF 1 \in A THEN 1 ELSE 0)
  BY <1>1, FS_RemoveElement
<1>3. PICK f : f = [i \in B |-> i + 1]
  OBVIOUS
<1>4. f \in Bijection(B, A \ {1})
  <2>1. \A i \in B : i \in Nat /\ f[i] = i + 1 /\ i + 1 \in A \ {1}
    BY <1>3
  <2>2. f \in [B -> A \ {1}]
    BY <1>3, <2>1
  <2>3. \A i, j \in B : f[i] = f[j] => i = j
    BY <2>1
  <2>4. \A a \in A \ {1} : a - 1 \in B /\ f[a - 1] = a
    BY <2>1
  <2> QED
    BY <2>2, <2>3, <2>4 DEF Bijection, Injection, Surjection, IsInjective
<1>5. IsFiniteSet(B) /\ Cardinality(B) = Cardinality(A \ {1})
  <2>1. IsFiniteSet(B)
    <3>1. IsFiniteSet(1..(n - 1)) /\ B \in SUBSET (1..(n - 1))
      BY FS_Interval
    <3> QED
      BY <3>1, FS_Subset
  <2> QED
    BY <1>2, <1>4, <2>1, FS_Bijection DEF ExistsBijection
<1> QED
  BY <1>2, <1>5

\* Sets of workers.
LEMMA WorkersCount ==
  ASSUME NEW A \in SUBSET Workers
  PROVE  /\ IsFiniteSet(A) /\ Cardinality(A) \in Nat
         /\ Cardinality(A) = 0 <=> A = {}
         /\ \A w : w \in A => Cardinality(A \ {w}) = Cardinality(A) - 1
<1>1. IsFiniteSet(A)
  <2>1. IsFiniteSet(Workers)
    BY WorkersAssumption, FS_Interval DEF Workers
  <2> QED
    BY <2>1, FS_Subset
<1> QED
  BY <1>1, FS_CardinalityType, FS_EmptySet, FS_RemoveElement

LEMMA AllWorkersCount == Cardinality(Workers) = NumWorkers
BY WorkersAssumption, FS_Interval DEF Workers

\* How often m is in a channel, after a send and after a receive.
LEMMA WhereFinite ==
  ASSUME NEW S, NEW s \in Seq(S), NEW m
  PROVE  /\ Cardinality(Where(m, s)) \in Nat
         /\ Cardinality(Where(m, s)) = 0 <=> Where(m, s) = {}
<1>1. Len(s) \in Nat /\ Where(m, s) \in SUBSET (1..Len(s))
  BY DEF Where
<1> QED
  BY <1>1, PositionsCount

LEMMA WhereAppend ==
  ASSUME NEW S, NEW s \in Seq(S), NEW x \in S, NEW m
  PROVE  Cardinality(Where(m, Append(s, x)))
           = Cardinality(Where(m, s)) + (IF x = m THEN 1 ELSE 0)
<1>1. Len(s) \in Nat /\ Where(m, s) \in SUBSET (1..Len(s))
  BY DEF Where
<1>2. Where(m, Append(s, x)) = IF x = m THEN Where(m, s) \cup {Len(s) + 1} ELSE Where(m, s)
  BY AppendElems, AppendKeeps DEF Where
<1>3. Cardinality(Where(m, s) \cup {Len(s) + 1}) = Cardinality(Where(m, s)) + 1
  BY <1>1, PositionsCount
<1>4. Cardinality(Where(m, s)) \in Nat
  BY <1>1, PositionsCount
<1> QED
  BY <1>2, <1>3, <1>4

LEMMA WhereTail ==
  ASSUME NEW S, NEW s \in Seq(S), s # <<>>, NEW m
  PROVE  Cardinality(Where(m, Tail(s)))
           = Cardinality(Where(m, s)) - (IF Head(s) = m THEN 1 ELSE 0)
<1>1. Len(s) \in Nat /\ Where(m, s) \in SUBSET (1..Len(s)) /\ DOMAIN s = 1..Len(s)
  BY DEF Where
<1>2. 1 \in Where(m, s) <=> Head(s) = m
  BY TailElems DEF Where
<1>3. Where(m, Tail(s)) = {i \in 1..(Len(s) - 1) : i + 1 \in Where(m, s)}
  BY <1>1, TailElems DEF Where
<1> QED
  BY <1>1, <1>2, <1>3, ShiftCount

\* The same for the TOC blocks of a file.
LEMMA BlocksOfFinite ==
  ASSUME NEW s \in Seq(TOCBlock), NEW m
  PROVE  /\ Cardinality(BlocksOf(m, s)) \in Nat
         /\ Cardinality(BlocksOf(m, s)) = 0 <=> BlocksOf(m, s) = {}
<1>1. Len(s) \in Nat /\ BlocksOf(m, s) \in SUBSET (1..Len(s))
  BY DEF BlocksOf
<1> QED
  BY <1>1, PositionsCount

LEMMA BlocksOfAppend ==
  ASSUME NEW s \in Seq(TOCBlock), NEW x \in TOCBlock, NEW m
  PROVE  Cardinality(BlocksOf(m, Append(s, x)))
           = Cardinality(BlocksOf(m, s)) + (IF x.file = m THEN 1 ELSE 0)
<1>1. Len(s) \in Nat /\ BlocksOf(m, s) \in SUBSET (1..Len(s))
  BY DEF BlocksOf
<1>2. BlocksOf(m, Append(s, x)) = IF x.file = m THEN BlocksOf(m, s) \cup {Len(s) + 1} ELSE BlocksOf(m, s)
  BY AppendElems, AppendKeeps DEF BlocksOf
<1>3. Cardinality(BlocksOf(m, s) \cup {Len(s) + 1}) = Cardinality(BlocksOf(m, s)) + 1
  BY <1>1, PositionsCount
<1>4. Cardinality(BlocksOf(m, s)) \in Nat
  BY <1>1, PositionsCount
<1> QED
  BY <1>2, <1>3, <1>4

LEMMA BlocksOfTail ==
  ASSUME NEW s \in Seq(TOCBlock), s # <<>>, NEW m
  PROVE  Cardinality(BlocksOf(m, Tail(s)))
           = Cardinality(BlocksOf(m, s)) - (IF Head(s).file = m THEN 1 ELSE 0)
<1>1. Len(s) \in Nat /\ BlocksOf(m, s) \in SUBSET (1..Len(s)) /\ DOMAIN s = 1..Len(s)
  BY DEF BlocksOf
<1>2. 1 \in BlocksOf(m, s) <=> Head(s).file = m
  BY TailElems DEF BlocksOf
<1>3. BlocksOf(m, Tail(s)) = {i \in 1..(Len(s) - 1) : i + 1 \in BlocksOf(m, s)}
  BY <1>1, TailElems DEF BlocksOf
<1> QED
  BY <1>1, <1>2, <1>3, ShiftCount

-----------------------------------------------------------------------------
(* Files on disk *)

\* What a step does to the data and the synced length of the files.
LEMMA SyncFrame ==
  ASSUME SyncOK, UNCHANGED <<files, fl, unwritten>>
  PROVE  SyncOK'
BY DEF SyncOK

\* Lengths.
LEMMA EmptySeq ==
  ASSUME NEW S, NEW s \in Seq(S)
  PROVE  s = <<>> <=> Len(s) = 0
OBVIOUS

LEMMA ConcatLen ==
  ASSUME NEW S, NEW s \in Seq(S), NEW t \in Seq(S)
  PROVE  Len(s \o t) = Len(s) + Len(t) /\ Len(s) + Len(t) \in Nat
OBVIOUS

\* The first and the last of a channel that has one element or more.
LEMMA LastOfTail ==
  ASSUME NEW S, NEW s \in Seq(S), s # <<>>
  PROVE  /\ Len(s) \in DOMAIN s
         /\ Tail(s) \in Seq(S)
         /\ Tail(s) = <<>> <=> Len(s) = 1
         /\ Tail(s) = <<>> => Head(s) = s[Len(s)]
         /\ Tail(s) # <<>> => Tail(s)[Len(Tail(s))] = s[Len(s)]
<1>1. Len(s) \in Nat \ {0} /\ Tail(s) \in Seq(S) /\ Len(Tail(s)) = Len(s) - 1 /\ DOMAIN s = 1..Len(s)
  BY HeadTail
<1>2. Tail(s) = <<>> <=> Len(Tail(s)) = 0
  BY <1>1, EmptySeq
<1>3. /\ Head(s) = s[1]
      /\ \A i \in 1..(Len(s) - 1) : Tail(s)[i] = s[i + 1]
  BY TailElems
<1>4. Tail(s) # <<>> => Tail(s)[Len(s) - 1] = s[Len(s)]
  BY <1>1, <1>2, <1>3
<1> QED
  BY <1>1, <1>2, <1>3, <1>4

LEMMA LastOfAppend ==
  ASSUME NEW S, NEW s \in Seq(S), NEW x \in S
  PROVE  /\ Append(s, x) \in Seq(S)
         /\ Append(s, x) # <<>>
         /\ Len(Append(s, x)) = Len(s) + 1
         /\ Append(s, x)[Len(Append(s, x))] = x
OBVIOUS

\* Buffers reach the disk in the order in which they were filled, and a file is
\* closed when the last has.
LEMMA SyncStep ==
  ASSUME TypeOK, SyncOK, Next
  PROVE  SyncOK'
<1>1. files \in Seq(FileRec) /\ fl \in 0..Len(files) /\ unwritten \in Seq(Buffered)
  BY DEF TypeOK, TypeFile, TypeBuffer
<1>2. \A n \in DOMAIN files : files[n] \in FileRec
  BY <1>1
<1>3. CASE FileClosed
  BY <1>1, <1>3 DEF FileClosed, Closing, SyncOK
<1>4. CASE FileCreate
  <2> DEFINE f == [data |-> <<>>, synced |-> 0, toc |-> <<>>]
  <2>1. /\ f \in FileRec /\ f.synced = Len(f.data)
        /\ files' = Append(files, f) /\ fl = 0 /\ fl' = Len(files) + 1 /\ UNCHANGED unwritten
    BY <1>4 DEF FileCreate, FileRec
  <2> HIDE DEF f
  <2>2. \A n \in DOMAIN files' : \/ n \in DOMAIN files /\ files'[n] = files[n]
                                 \/ n = fl' /\ files'[n] = f
    BY <1>1, <2>1, AppendElems
  <2>3. fl' \in DOMAIN files' /\ files'[fl'] = f
    BY <1>1, <2>1, AppendKeeps
  <2>4. unwritten = <<>>
    BY <2>1 DEF SyncOK
  <2>5. \A n \in DOMAIN files : n # 0
    BY <1>1
  <2> QED
    BY <1>1, <2>1, <2>2, <2>3, <2>4, <2>5 DEF SyncOK
<1>5. CASE FileWrite
  <2> DEFINE end == Len(files[fl].data) + Len(mem[inHand])
  <2>1. /\ fl \in DOMAIN files /\ inHand \in Blocks /\ fl # 0
        /\ files' = [files EXCEPT ![fl].data = files[fl].data \o mem[inHand]]
        /\ UNCHANGED fl
    BY <1>1, <1>5 DEF FileWrite
  <2>2. mem[inHand] \in Seq(Entry) /\ files[fl].data \in Seq(Entry)
    BY <1>2, <2>1 DEF TypeOK, TypeMem, FileRec
  <2>3. Len(files[fl].data \o mem[inHand]) = end /\ end \in Nat
    BY <2>2, ConcatLen
  <2>4. /\ DOMAIN files' = DOMAIN files
        /\ \A n \in DOMAIN files : n # fl => files'[n] = files[n]
        /\ files'[fl].data = files[fl].data \o mem[inHand]
    BY <1>1, <1>2, <2>1 DEF FileRec
  <2>5. PICK b \in Blocks \cup {0} : unwritten' = Append(unwritten, [end |-> end, block |-> b])
    BY <1>5, <2>1 DEF FileWrite, Attach, ReleaseNow
  <2>6. [end |-> end, block |-> b] \in Buffered /\ [end |-> end, block |-> b].end = end
    BY <2>3 DEF Buffered
  <2> HIDE DEF end
  <2>7. unwritten' # <<>> /\ unwritten'[Len(unwritten')].end = end
    BY <1>1, <2>5, <2>6, LastOfAppend
  <2> QED
    BY <2>1, <2>3, <2>4, <2>7 DEF SyncOK
<1>6. CASE BufferWritten
  <2> DEFINE h == Head(unwritten)
  <2>1. /\ unwritten # <<>> /\ unwritten' = Tail(unwritten)
        /\ files' = [files EXCEPT ![fl].synced = h.end] /\ UNCHANGED fl
    BY <1>6 DEF BufferWritten
  <2>2. fl # 0 /\ fl \in DOMAIN files /\ unwritten[Len(unwritten)].end = Len(files[fl].data)
    BY <1>1, <2>1 DEF SyncOK
  <2>3. /\ DOMAIN files' = DOMAIN files
        /\ \A n \in DOMAIN files : n # fl => files'[n] = files[n]
        /\ files'[fl].data = files[fl].data /\ files'[fl].synced = h.end
    BY <1>1, <1>2, <2>1, <2>2 DEF FileRec
  <2>4. /\ unwritten' = <<>> => h = unwritten[Len(unwritten)]
        /\ unwritten' # <<>> => unwritten'[Len(unwritten')] = unwritten[Len(unwritten)]
    BY <1>1, <2>1, LastOfTail
  <2> HIDE DEF h
  <2> QED
    BY <2>1, <2>2, <2>3, <2>4 DEF SyncOK
<1>7. CASE TOCBlockWritten
  <2>1. PICK m, x : files' = [files EXCEPT ![m].toc = x]
    BY <1>7 DEF TOCBlockWritten
  <2>2. /\ DOMAIN files' = DOMAIN files
        /\ \A n \in DOMAIN files : /\ files'[n].data = files[n].data
                                   /\ files'[n].synced = files[n].synced
    BY <1>1, <1>2, <2>1 DEF FileRec
  <2>3. UNCHANGED <<fl, unwritten>>
    BY <1>7 DEF TOCBlockWritten
  <2>4. fl # 0 => fl \in DOMAIN files
    BY <1>1
  <2> QED
    BY <2>2, <2>3, <2>4 DEF SyncOK
<1>8. ASSUME NEW w \in Workers,
             (\E r \in Requests : MemReceive(w, r)) \/ MemSwitch(w) \/ MemWriter(w) \/ MemClearer(w)
      PROVE  SyncOK'
  BY <1>8, SyncFrame
  DEF MemReceive, MemSwitch, MemWriter, MemReject, MemRotate, MemTake, MemStore, MemMark, MemClearer,
      ClearReceive, ClearSendTOC, ClearEntry, ClearSendFull, ClearFree, ClearMark, fileVars
<1>9. CASE FileReceive \/ FileMark
  BY <1>9, SyncFrame DEF FileReceive, FileMark
<1>10. CASE TOCMark \/ TOCFlushed
  BY <1>10, SyncFrame DEF TOCMark, TOCFlushed, fileVars
<1>11. CASE Callers
  BY <1>11, SyncFrame DEF Callers, FlushStep, FlushCall, FlushSend, FlushReturn,
     ShutdownCall, ShutdownSend, ShutdownReturn, DiscardLocalRemoval, ReadGet, ReadMemBlock, ReadFile,
     ReadReturn, Idle, vars, fileVars
<1> QED
  BY <1>3, <1>4, <1>5, <1>6, <1>7, <1>8, <1>9, <1>10, <1>11
  DEF Next, FileWriter, TOCWriter, Callers

LEMMA SyncAlways == Spec => []SyncOK
<1>1. Init => SyncOK
  BY DEF Init, SyncOK
<1>2. TypeOK /\ SyncOK /\ [Next]_vars => SyncOK'
  <2>1. ASSUME SyncOK, UNCHANGED vars PROVE SyncOK'
    BY <2>1, SyncFrame DEF vars, fileVars
  <2> QED
    BY <2>1, SyncStep
<1> QED
  BY <1>1, <1>2, TypeCorrect, PTL DEF Spec

-----------------------------------------------------------------------------
(* Shutdown: the memWriters *)

\* The requests are told apart by what they ask for.
LEMMA RequestFacts ==
  ASSUME TypeOK, NEW w \in Workers
  PROVE  /\ NoReq # StoppedReq /\ FlushReq # StoppedReq /\ ShutdownReq # StoppedReq
         /\ NoReq # FlushReq /\ ShutdownReq # FlushReq
         /\ req[w].op = "write" => req[w] \notin {NoReq, FlushReq, ShutdownReq, StoppedReq}
         /\ \A r \in Requests : r \notin {NoReq, FlushReq, ShutdownReq, StoppedReq}
<1>1. /\ NoReq.op = "none" /\ FlushReq.op = "flush" /\ ShutdownReq.op = "shutdown"
      /\ StoppedReq.op = "stopped"
  BY DEF NoReq, FlushReq, ShutdownReq, StoppedReq
<1>2. \A r \in Requests : r.op = "write"
  BY RequestsAssumption DEF Request
<1> QED
  BY <1>1, <1>2

\* No memWriter stops, and none that has stopped gets or fills a block.
LEMMA WritersStopFrame ==
  ASSUME WritersStop, UNCHANGED <<fileMemBlockChan, memWritersShutdownLeft>>,
         \A w \in Workers : /\ req'[w] = StoppedReq <=> req[w] = StoppedReq
                            /\ req[w] = StoppedReq => memBlock'[w] = memBlock[w]
                            /\ req[w] = StoppedReq /\ memBlock[w] # 0 =>
                                 mem'[memBlock[w]] \in {mem[memBlock[w]], <<>>}
  PROVE  WritersStop'
<1>1. {w \in Workers : req'[w] # StoppedReq} = {w \in Workers : req[w] # StoppedReq}
  OBVIOUS
<1>2. /\ memWritersShutdownLeft' = Cardinality({w \in Workers : req'[w] # StoppedReq})
                                   + Cardinality(Where(ShutdownMark, fileMemBlockChan'))
      /\ (\A w \in Workers : req'[w] = StoppedReq) /\ fileMemBlockChan' # <<>> =>
           fileMemBlockChan'[Len(fileMemBlockChan')] = ShutdownMark
  BY <1>1 DEF WritersStop
<1>3. \A w \in Workers : req'[w] = StoppedReq /\ memBlock'[w] # 0 => mem'[memBlock'[w]] = <<>>
  BY DEF WritersStop
<1> QED
  BY <1>2, <1>3 DEF WritersStop, Where

\* The same when nothing of it changes.
LEMMA WritersStopStays ==
  ASSUME WritersStop,
         UNCHANGED <<fileMemBlockChan, memWritersShutdownLeft, req, memBlock, mem>>
  PROVE  WritersStop'
BY WritersStopFrame

\* A memWriter sends a block, and is not one that has stopped.
LEMMA WritersStopRotate ==
  ASSUME IInv, WritersStop, NEW w \in Workers, MemRotate(w)
  PROVE  WritersStop'
<1>1. TypeOK
  BY DEF IInv
<1>2. /\ fileMemBlockChan \in Seq(Blocks \cup Marks) /\ memBlock[w] \in Blocks
      /\ fileMemBlockChan' = Append(fileMemBlockChan, memBlock[w])
      /\ \A v \in Workers \ {w} : memBlock'[v] = memBlock[v]
      /\ memBlock'[w] = 0
      /\ UNCHANGED <<req, mem, memWritersShutdownLeft>>
  BY <1>1 DEF MemRotate, memVars, fileVars, TypeOK, TypeWriter
<1>3. req[w] # StoppedReq
  BY <1>1, RequestFacts DEF MemRotate
<1>4. memBlock[w] # ShutdownMark
  BY <1>2, BlockFacts DEF Marks
<1>5. Cardinality(Where(ShutdownMark, fileMemBlockChan'))
        = Cardinality(Where(ShutdownMark, fileMemBlockChan))
  <2>1. Cardinality(Where(ShutdownMark, fileMemBlockChan)) \in Nat
    BY <1>2, WhereFinite
  <2> QED
    BY <1>2, <1>4, <2>1, WhereAppend
<1>6. \A v \in Workers : req'[v] = StoppedReq /\ memBlock'[v] # 0 => mem'[memBlock'[v]] = <<>>
  BY <1>2, <1>3 DEF WritersStop
<1>7. memWritersShutdownLeft' = Cardinality({v \in Workers : req'[v] # StoppedReq})
                                + Cardinality(Where(ShutdownMark, fileMemBlockChan'))
  BY <1>2, <1>5 DEF WritersStop
<1>8. ~ \A v \in Workers : req'[v] = StoppedReq
  BY <1>2, <1>3
<1> QED
  BY <1>6, <1>7, <1>8 DEF WritersStop, Where

\* A memWriter passes a mark on; with a shutdown mark it stops.
LEMMA WritersStopMark ==
  ASSUME IInv, WritersStop, NEW w \in Workers, MemMark(w)
  PROVE  WritersStop'
<1>1. TypeOK
  BY DEF IInv
<1>2. /\ fileMemBlockChan \in Seq(Blocks \cup Marks)
      /\ UNCHANGED <<memBlock, mem, memWritersShutdownLeft>>
      /\ memBlock[w] # 0 => mem[memBlock[w]] = <<>>
      /\ req \in [Workers -> Requests \cup {NoReq, FlushReq, ShutdownReq, StoppedReq}]
  BY <1>1 DEF MemMark, memVars, fileVars, TypeOK, TypeWriter
<1>3. req[w] # StoppedReq
  BY <1>1, RequestFacts DEF MemMark
<1>4. Cardinality(Where(ShutdownMark, fileMemBlockChan)) \in Nat
  BY <1>2, WhereFinite
<1> DEFINE A == {v \in Workers : req[v] # StoppedReq}
           B == {v \in Workers : req'[v] # StoppedReq}
<1>5. Cardinality(A) \in Nat /\ Cardinality(A \ {w}) = Cardinality(A) - 1
  BY <1>3, WorkersCount
<1>6. \A v \in Workers : req'[v] = StoppedReq /\ memBlock'[v] # 0 => mem'[memBlock'[v]] = <<>>
  BY <1>2 DEF WritersStop, MemMark
<1>7. CASE req[w] = FlushReq
  <2>1. /\ fileMemBlockChan' = Append(fileMemBlockChan, FlushMark)
        /\ req' = [req EXCEPT ![w] = NoReq]
    BY <1>1, <1>7, RequestFacts DEF MemMark
  <2>2. B = A
    BY <1>1, <1>2, <1>3, <2>1, RequestFacts
  <2>3. FlushMark # ShutdownMark /\ FlushMark \in Blocks \cup Marks
    BY BlockFacts DEF Marks
  <2>4. Cardinality(Where(ShutdownMark, fileMemBlockChan'))
          = Cardinality(Where(ShutdownMark, fileMemBlockChan))
    BY <1>2, <1>4, <2>1, <2>3, WhereAppend
  <2>5. memWritersShutdownLeft' = Cardinality(B) + Cardinality(Where(ShutdownMark, fileMemBlockChan'))
    BY <1>2, <2>2, <2>4 DEF WritersStop
  <2>6. ~ \A v \in Workers : req'[v] = StoppedReq
    BY <1>1, <1>2, <2>1, RequestFacts
  <2> QED
    BY <1>6, <2>5, <2>6 DEF WritersStop, Where
<1>8. CASE req[w] = ShutdownReq
  <2>1. /\ fileMemBlockChan' = Append(fileMemBlockChan, ShutdownMark)
        /\ req' = [req EXCEPT ![w] = StoppedReq]
    BY <1>1, <1>8, RequestFacts DEF MemMark
  <2>2. B = A \ {w}
    BY <1>2, <2>1
  <2>3. ShutdownMark \in Blocks \cup Marks
    BY DEF Marks
  <2>4. Cardinality(Where(ShutdownMark, fileMemBlockChan'))
          = Cardinality(Where(ShutdownMark, fileMemBlockChan)) + 1
    BY <1>2, <1>4, <2>1, <2>3, WhereAppend
  <2>5. memWritersShutdownLeft' = Cardinality(B) + Cardinality(Where(ShutdownMark, fileMemBlockChan'))
    <3>1. memWritersShutdownLeft = Cardinality(A) + Cardinality(Where(ShutdownMark, fileMemBlockChan))
      BY DEF WritersStop
    <3> HIDE DEF A, B
    <3> QED
      BY <1>2, <1>4, <1>5, <2>2, <2>4, <3>1
  <2>6. fileMemBlockChan'[Len(fileMemBlockChan')] = ShutdownMark
    BY <1>2, <2>1, <2>3, LastOfAppend
  <2> QED
    BY <1>6, <2>5, <2>6 DEF WritersStop, Where
<1> QED
  BY <1>7, <1>8 DEF MemMark

\* The fileWriter receives a block or a mark.
LEMMA WritersStopReceive ==
  ASSUME IInv, WritersStop, FileReceive
  PROVE  WritersStop'
<1>1. TypeOK
  BY DEF IInv
<1> DEFINE m == Head(fileMemBlockChan)
<1>2. /\ fileMemBlockChan \in Seq(Blocks \cup Marks) /\ fileMemBlockChan # <<>>
      /\ fileMemBlockChan' = Tail(fileMemBlockChan)
      /\ memWritersShutdownLeft' = memWritersShutdownLeft - (IF m = ShutdownMark THEN 1 ELSE 0)
      /\ UNCHANGED <<req, memBlock, mem>>
  BY <1>1 DEF FileReceive, memVars, writerVars, TypeOK, TypeWriter, TypeFile
<1>3. Cardinality(Where(ShutdownMark, fileMemBlockChan'))
        = Cardinality(Where(ShutdownMark, fileMemBlockChan)) - (IF m = ShutdownMark THEN 1 ELSE 0)
  BY <1>2, WhereTail
<1>4. /\ Cardinality(Where(ShutdownMark, fileMemBlockChan)) \in Nat
      /\ Cardinality({v \in Workers : req[v] # StoppedReq}) \in Nat
  BY <1>2, WhereFinite, WorkersCount
<1>5. memWritersShutdownLeft' = Cardinality({v \in Workers : req'[v] # StoppedReq})
                                + Cardinality(Where(ShutdownMark, fileMemBlockChan'))
  BY <1>2, <1>3, <1>4 DEF WritersStop
<1>6. fileMemBlockChan' # <<>> =>
        fileMemBlockChan'[Len(fileMemBlockChan')] = fileMemBlockChan[Len(fileMemBlockChan)]
  BY <1>2, LastOfTail
<1> QED
  BY <1>2, <1>5, <1>6 DEF WritersStop, Where

LEMMA WritersStopStep ==
  ASSUME IInv, WritersStop, Next
  PROVE  WritersStop'
<1>1. TypeOK /\ BeforeFileDistinct
  BY DEF IInv
<1>2. /\ req \in [Workers -> Requests \cup {NoReq, FlushReq, ShutdownReq, StoppedReq}]
      /\ memBlock \in [Workers -> Blocks \cup {0}] /\ mem \in [Blocks -> Seq(Entry)]
  BY <1>1 DEF TypeOK, TypeWriter, TypeMem
<1>3. ASSUME NEW w \in Workers, NEW x, x # StoppedReq, req[w] # StoppedReq,
             req' = [req EXCEPT ![w] = x],
             UNCHANGED <<fileMemBlockChan, memWritersShutdownLeft, memBlock, mem>>
      PROVE  WritersStop'
  BY <1>2, <1>3, WritersStopFrame
<1>4. ASSUME NEW w \in Workers, NEW r \in Requests, MemReceive(w, r) PROVE WritersStop'
  BY <1>1, <1>3, <1>4, RequestFacts DEF MemReceive, memVars, fileVars
<1>5. ASSUME NEW w \in Workers, MemReject(w) PROVE WritersStop'
  BY <1>1, <1>3, <1>5, RequestFacts DEF MemReject, memVars, fileVars
<1>6. ASSUME NEW w \in Workers, MemSwitch(w) PROVE WritersStop'
  BY <1>6, WritersStopStays DEF MemSwitch, memVars, fileVars
<1>7. ASSUME NEW w \in Workers, MemTake(w) PROVE WritersStop'
  <2>1. /\ req[w] # StoppedReq
        /\ \A v \in Workers \ {w} : memBlock'[v] = memBlock[v]
        /\ UNCHANGED <<fileMemBlockChan, memWritersShutdownLeft, req, mem>>
    BY <1>1, <1>2, <1>7, RequestFacts DEF MemTake, fileVars
  <2> QED
    BY <2>1, WritersStopFrame
<1>8. ASSUME NEW w \in Workers, MemStore(w) PROVE WritersStop'
  <2>1. /\ req[w] # StoppedReq /\ req'[w] # StoppedReq /\ memBlock[w] # 0
        /\ \A v \in Workers \ {w} : req'[v] = req[v]
        /\ UNCHANGED <<fileMemBlockChan, memWritersShutdownLeft, memBlock>>
    BY <1>1, <1>2, <1>8, RequestFacts DEF MemStore, fileVars
  <2>2. \A b \in Blocks : b # memBlock[w] => mem'[b] = mem[b]
    BY <1>2, <1>8 DEF MemStore
  <2>3. \A v \in Workers \ {w} : memBlock[v] # 0 => mem'[memBlock[v]] = mem[memBlock[v]]
    BY <1>1, <1>2, <2>1, <2>2 DEF BeforeFileDistinct
  <2> QED
    BY <2>1, <2>3, WritersStopFrame
<1>9. ASSUME NEW c \in Workers, ClearFree(c) PROVE WritersStop'
  <2>1. /\ UNCHANGED <<fileMemBlockChan, memWritersShutdownLeft, req, memBlock>>
        /\ mem' = [mem EXCEPT ![clearing[c]] = <<>>]
    BY <1>9 DEF ClearFree, writerVars
  <2> QED
    BY <1>2, <2>1, WritersStopFrame
<1>10. ASSUME NEW c \in Workers,
              ClearReceive(c) \/ ClearSendTOC(c) \/ ClearEntry(c) \/ ClearSendFull(c) \/ ClearMark(c)
       PROVE  WritersStop'
  BY <1>10, WritersStopStays
  DEF ClearReceive, ClearSendTOC, ClearEntry, ClearSendFull, ClearMark, memVars, writerVars, fileVars
<1>11. CASE FileClosed \/ FileCreate \/ FileWrite \/ FileMark \/ BufferWritten
  BY <1>11, WritersStopStays
  DEF FileClosed, FileCreate, FileWrite, FileMark, BufferWritten, memVars, writerVars
<1>12. CASE TOCWriter
  BY <1>12, WritersStopStays
  DEF TOCWriter, TOCBlockWritten, TOCMark, TOCFlushed, memVars, writerVars, fileVars
<1>13. ASSUME NEW p \in Flushers, FlushSend(p) PROVE WritersStop'
  BY <1>1, <1>3, <1>13, RequestFacts DEF FlushSend, memVars, fileVars
<1>14. CASE ShutdownSend
  <2> DEFINE w == IF shutdownPC <= NumWorkers THEN shutdownPC ELSE shutdownPC - NumWorkers
  <2>1. w \in Workers
    BY <1>14, WorkersAssumption DEF ShutdownSend, Workers
  <2>2. /\ req[w] = NoReq /\ (UNCHANGED req \/ req' = [req EXCEPT ![w] = ShutdownReq])
        /\ UNCHANGED <<fileMemBlockChan, memWritersShutdownLeft, memBlock, mem>>
    BY <1>14 DEF ShutdownSend, memVars, fileVars
  <2> HIDE DEF w
  <2> QED
    BY <1>1, <1>3, <2>1, <2>2, RequestFacts, WritersStopStays
<1>15. CASE Callers /\ UNCHANGED req
  BY <1>15, WritersStopStays DEF Callers, FlushStep, FlushCall, FlushSend, FlushReturn,
     ShutdownCall, ShutdownSend, ShutdownReturn, DiscardLocalRemoval, ReadGet, ReadMemBlock, ReadFile,
     ReadReturn, Idle, vars, memVars, writerVars, fileVars
<1>16. Callers => UNCHANGED req \/ ShutdownSend \/ \E p \in Flushers : FlushSend(p)
  BY DEF Callers, FlushStep, FlushCall, FlushReturn, ShutdownCall, ShutdownReturn, DiscardLocalRemoval,
     ReadGet, ReadMemBlock, ReadFile, ReadReturn, Idle, vars, writerVars
<1> QED
  BY <1>4, <1>5, <1>6, <1>7, <1>8, <1>9, <1>10, <1>11, <1>12, <1>13, <1>14, <1>15, <1>16,
     WritersStopRotate, WritersStopMark, WritersStopReceive
  DEF Next, MemWriter, MemClearer, FileWriter, Callers

-----------------------------------------------------------------------------
(* Shutdown: the fileWriter *)

\* The countdown is right: at zero all memWriters have stopped and nothing waits
\* for the fileWriter.
LEMMA ShutdownLeftFacts ==
  ASSUME TypeOK, WritersStop
  PROVE  /\ memWritersShutdownLeft \in Nat
         /\ memWritersShutdownLeft = 0 =>
              /\ \A w \in Workers : req[w] = StoppedReq
              /\ fileMemBlockChan = <<>>
         /\ fileMemBlockChan # <<>> /\ Head(fileMemBlockChan) = ShutdownMark =>
              memWritersShutdownLeft # 0
<1> DEFINE A == {w \in Workers : req[w] # StoppedReq}
           W == Where(ShutdownMark, fileMemBlockChan)
<1>1. fileMemBlockChan \in Seq(Blocks \cup Marks)
  BY DEF TypeOK, TypeWriter
<1>2. /\ Cardinality(A) \in Nat /\ Cardinality(W) \in Nat
      /\ Cardinality(A) = 0 <=> A = {}
      /\ Cardinality(W) = 0 <=> W = {}
  BY <1>1, WhereFinite, WorkersCount
<1>3. memWritersShutdownLeft = Cardinality(A) + Cardinality(W)
  BY DEF WritersStop
<1>4. A = {} => \A w \in Workers : req[w] = StoppedReq
  OBVIOUS
<1>5. fileMemBlockChan # <<>> => /\ Len(fileMemBlockChan) \in DOMAIN fileMemBlockChan
                                 /\ 1 \in DOMAIN fileMemBlockChan
                                 /\ Head(fileMemBlockChan) = fileMemBlockChan[1]
  BY <1>1, LastOfTail, TailElems
<1>6. A = {} /\ W = {} => fileMemBlockChan = <<>>
  BY <1>4, <1>5 DEF WritersStop, Where
<1>7. fileMemBlockChan # <<>> /\ Head(fileMemBlockChan) = ShutdownMark => W # {}
  BY <1>5 DEF Where
<1> HIDE DEF A, W
<1> QED
  BY <1>2, <1>3, <1>4, <1>6, <1>7

LEMMA FileWriterStopsFrame ==
  ASSUME FileWriterStops, UNCHANGED <<inHand, memWritersShutdownLeft, markNext, fl>>
  PROVE  FileWriterStops'
BY DEF FileWriterStops

LEMMA FileWriterStopsStep ==
  ASSUME IInv, WritersStop, FileWriterStops, Next
  PROVE  FileWriterStops'
<1>1. TypeOK
  BY DEF IInv
<1>2. /\ memWritersShutdownLeft \in Nat /\ markNext \in 0..(NumWorkers - 1)
      /\ fl \in Nat /\ inHand \in Blocks \cup Marks \cup {0}
  BY <1>1, ShutdownLeftFacts DEF TypeOK, TypeFile
<1>3. /\ 0 \notin Marks /\ 0 \notin Blocks /\ ShutdownMark \in Marks /\ FlushMark \in Marks
      /\ ShutdownMark # FlushMark /\ ShutdownMark \notin Blocks /\ FlushMark \notin Blocks
      /\ ShutdownMark # 0
  BY BlockFacts DEF Marks
<1>4. CASE FileReceive
  <2> DEFINE m == Head(fileMemBlockChan)
  <2>1. /\ inHand = 0 /\ markNext = 0 /\ fileMemBlockChan # <<>>
        /\ memWritersShutdownLeft' = IF m = ShutdownMark THEN memWritersShutdownLeft - 1
                                     ELSE memWritersShutdownLeft
        /\ inHand' = IF \/ m = FlushMark /\ memWritersFlushLeft > 1
                        \/ m = ShutdownMark /\ memWritersShutdownLeft > 1
                     THEN 0 ELSE m
        /\ UNCHANGED <<markNext, fl>>
    BY <1>3, <1>4 DEF FileReceive, FileWriterStops
  <2>2. memWritersShutdownLeft > 0
    BY <1>1, <1>2, <2>1, ShutdownLeftFacts
  <2> HIDE DEF m
  <2>3. CASE m = ShutdownMark
    BY <1>2, <1>3, <2>1, <2>2, <2>3 DEF FileWriterStops
  <2>4. CASE m # ShutdownMark
    BY <1>2, <1>3, <2>1, <2>2, <2>4 DEF FileWriterStops
  <2> QED
    BY <2>3, <2>4
<1>5. CASE FileClosed
  BY <1>2, <1>3, <1>5 DEF FileClosed, FileWriterStops
<1>6. CASE FileCreate
  BY <1>2, <1>3, <1>6, BlockFacts DEF FileCreate, FileWriterStops
<1>7. CASE FileWrite
  BY <1>2, <1>3, <1>7, BlockFacts DEF FileWrite, FileWriterStops
<1>8. CASE FileMark
  <2>1. /\ fl = 0 /\ inHand \in Marks /\ UNCHANGED <<fl, memWritersShutdownLeft>>
        /\ \/ UNCHANGED inHand
           \/ inHand' = 0 /\ markNext' = 0
        /\ markNext' \in Nat
    BY <1>2, <1>8 DEF FileMark
  <2> QED
    BY <1>2, <1>3, <2>1 DEF FileWriterStops
<1>9. ASSUME NEW w \in Workers,
             (\E r \in Requests : MemReceive(w, r)) \/ MemSwitch(w) \/ MemWriter(w) \/ MemClearer(w)
      PROVE  FileWriterStops'
  BY <1>9, FileWriterStopsFrame
  DEF MemReceive, MemSwitch, MemWriter, MemReject, MemRotate, MemTake, MemStore, MemMark, MemClearer,
      ClearReceive, ClearSendTOC, ClearEntry, ClearSendFull, ClearFree, ClearMark, fileVars
<1>10. CASE BufferWritten \/ TOCWriter
  BY <1>10, FileWriterStopsFrame
  DEF BufferWritten, TOCWriter, TOCBlockWritten, TOCMark, TOCFlushed, fileVars
<1>11. CASE Callers
  BY <1>11, FileWriterStopsFrame DEF Callers, FlushStep, FlushCall, FlushSend, FlushReturn,
     ShutdownCall, ShutdownSend, ShutdownReturn, DiscardLocalRemoval, ReadGet, ReadMemBlock, ReadFile,
     ReadReturn, Idle, vars, fileVars
<1> QED
  BY <1>4, <1>5, <1>6, <1>7, <1>8, <1>9, <1>10, <1>11
  DEF Next, FileWriter, Callers

-----------------------------------------------------------------------------
(* Shutdown: the memClearers *)

\* Until the fileWriter sends the mark on, no memClearer has it.
LEMMA SentUnchanged ==
  ASSUME IInv, WritersStop, FileWriterStops, Next,
         ~(FileMark /\ inHand = ShutdownMark)
  PROVE  \A c \in Workers : ShutdownSent(c)' <=> ShutdownSent(c)
<1>1. TypeOK
  BY DEF IInv
<1>2. /\ memWritersShutdownLeft \in Nat
      /\ memWritersShutdownLeft = 0 => fileMemBlockChan = <<>>
  BY <1>1, ShutdownLeftFacts
<1>3. markNext \in Nat /\ NumWorkers \in Nat /\ \A c \in Workers : c <= NumWorkers /\ c \in Nat
  BY <1>1, WorkersAssumption DEF TypeOK, TypeFile, Workers
<1>4. /\ FileWriterStops'
      /\ 0 \notin Marks /\ 0 \notin Blocks /\ ShutdownMark \in Marks /\ FlushMark \in Marks
      /\ ShutdownMark # FlushMark /\ ShutdownMark \notin Blocks
      /\ ShutdownMark # 0
  BY FileWriterStopsStep, BlockFacts DEF Marks
<1>5. CASE FileReceive
  <2>1. /\ memWritersShutdownLeft # 0 /\ inHand = 0 /\ markNext = 0 /\ UNCHANGED markNext
        /\ memWritersShutdownLeft' = 0 => /\ Head(fileMemBlockChan) = ShutdownMark
                                          /\ memWritersShutdownLeft = 1
    BY <1>2, <1>4, <1>5 DEF FileReceive, FileWriterStops
  <2>2. memWritersShutdownLeft' = 0 => inHand' = ShutdownMark
    BY <1>4, <1>5, <2>1 DEF FileReceive
  <2> QED
    BY <1>3, <1>4, <2>1, <2>2 DEF ShutdownSent
<1>6. CASE FileCreate \/ FileWrite
  <2>1. memWritersShutdownLeft # 0 /\ UNCHANGED memWritersShutdownLeft
    BY <1>4, <1>6 DEF FileCreate, FileWrite, FileWriterStops
  <2> QED
    BY <2>1 DEF ShutdownSent
<1>7. CASE FileMark
  <2>1. memWritersShutdownLeft # 0 /\ UNCHANGED memWritersShutdownLeft
    BY <1>4, <1>7 DEF FileMark, FileWriterStops
  <2> QED
    BY <2>1 DEF ShutdownSent
<1>8. CASE UNCHANGED <<memWritersShutdownLeft, inHand, markNext>>
  BY <1>8 DEF ShutdownSent
<1>9. ASSUME NEW w \in Workers,
             (\E r \in Requests : MemReceive(w, r)) \/ MemSwitch(w) \/ MemWriter(w) \/ MemClearer(w)
      PROVE  UNCHANGED <<memWritersShutdownLeft, inHand, markNext>>
  BY <1>9
  DEF MemReceive, MemSwitch, MemWriter, MemReject, MemRotate, MemTake, MemStore, MemMark, MemClearer,
      ClearReceive, ClearSendTOC, ClearEntry, ClearSendFull, ClearFree, ClearMark, fileVars
<1>10. CASE FileClosed \/ BufferWritten \/ TOCWriter
  BY <1>8, <1>10
  DEF FileClosed, BufferWritten, TOCWriter, TOCBlockWritten, TOCMark, TOCFlushed, fileVars
<1>11. Callers => UNCHANGED <<memWritersShutdownLeft, inHand, markNext>>
  BY DEF Callers, FlushStep, FlushCall, FlushSend, FlushReturn,
     ShutdownCall, ShutdownSend, ShutdownReturn, DiscardLocalRemoval, ReadGet, ReadMemBlock, ReadFile,
     ReadReturn, Idle, vars, fileVars
<1> QED
  BY <1>5, <1>6, <1>7, <1>8, <1>9, <1>10, <1>11
  DEF Next, FileWriter, Callers

\* The fileWriter sends the shutdown mark to the memClearers in turn.
LEMMA SentByMark ==
  ASSUME IInv, FileWriterStops, FileMark, inHand = ShutdownMark
  PROVE  LET d == NumWorkers - markNext IN
         /\ d \in Workers
         /\ ~ShutdownSent(d)
         /\ \A c \in Workers : ShutdownSent(c)' <=> (ShutdownSent(c) \/ c = d)
         /\ freeableMemBlockChans' = [freeableMemBlockChans EXCEPT ![d] = Append(@, ShutdownMark)]
<1> DEFINE d == NumWorkers - markNext
<1>1. TypeOK
  BY DEF IInv
<1>2. /\ markNext \in 0..(NumWorkers - 1) /\ NumWorkers \in Nat \ {0}
      /\ ShutdownMark # FlushMark /\ ShutdownMark # 0
  BY <1>1, WorkersAssumption, BlockFacts DEF TypeOK, TypeFile, Marks
<1>3. d \in Workers /\ \A c \in Workers : c \in 1..NumWorkers
  BY <1>2 DEF Workers
<1>4. memWritersShutdownLeft = 0 /\ UNCHANGED memWritersShutdownLeft
  BY DEF FileWriterStops, FileMark
<1>5. freeableMemBlockChans' = [freeableMemBlockChans EXCEPT ![d] = Append(@, ShutdownMark)]
  BY <1>2 DEF FileMark
<1>6. \/ markNext + 1 < NumWorkers /\ markNext' = markNext + 1 /\ inHand' = inHand
      \/ markNext + 1 = NumWorkers /\ inHand' = 0
  BY <1>2 DEF FileMark
<1>7. ~ShutdownSent(d)
  BY <1>2 DEF ShutdownSent
<1>8. \A c \in Workers : ShutdownSent(c)' <=> (ShutdownSent(c) \/ c = d)
  BY <1>2, <1>3, <1>4, <1>6 DEF ShutdownSent
<1> QED
  BY <1>3, <1>5, <1>7, <1>8

\* A memClearer that nothing happens to.
LEMMA ClearerStopsFrame ==
  ASSUME NEW c \in Workers, ClearerStops(c), ShutdownSent(c)' <=> ShutdownSent(c),
         freeableMemBlockChans'[c] = freeableMemBlockChans[c],
         clearing'[c] = clearing[c], tb'[c] = tb[c]
  PROVE  ClearerStops(c)'
BY DEF ClearerStops, ShutdownPassed

\* A memClearer that gets something else than the mark, which it has not got.
LEMMA ClearerGets ==
  ASSUME TypeOK, NEW c \in Workers, ClearerStops(c), ~ShutdownSent(c), ~ShutdownSent(c)',
         NEW x \in Blocks \cup Marks, x # ShutdownMark,
         freeableMemBlockChans'[c] = Append(freeableMemBlockChans[c], x),
         clearing'[c] = clearing[c], tb'[c] = tb[c]
  PROVE  ClearerStops(c)'
<1>1. freeableMemBlockChans[c] \in Seq(Blocks \cup Marks)
  BY DEF TypeOK, TypeBuffer
<1>2. \A i \in DOMAIN freeableMemBlockChans[c] : freeableMemBlockChans[c][i] # ShutdownMark
  BY DEF ClearerStops
<1>3. \A i \in DOMAIN freeableMemBlockChans'[c] : freeableMemBlockChans'[c][i] # ShutdownMark
  BY <1>1, <1>2, AppendElems
<1>4. clearing'[c] # ShutdownMark
  BY DEF ClearerStops
<1> QED
  BY <1>3, <1>4 DEF ClearerStops, ShutdownPassed

\* A block is released to a memClearer that has not got the mark.
LEMMA ClearersGet ==
  ASSUME IInv, ClearersStop, \A c \in Workers : ~ShutdownSent(c) /\ ~ShutdownSent(c)',
         NEW d \in Workers, NEW x \in Blocks \cup Marks, x # ShutdownMark,
         freeableMemBlockChans' = [freeableMemBlockChans EXCEPT ![d] = Append(@, x)],
         UNCHANGED <<clearing, tb>>
  PROVE  ClearersStop'
<1>1. TypeOK
  BY DEF IInv
<1>2. freeableMemBlockChans \in [Workers -> Seq(Blocks \cup Marks)]
  BY <1>1 DEF TypeOK, TypeBuffer
<1>3. ASSUME NEW c \in Workers PROVE ClearerStops(c)'
  <2>1. ClearerStops(c)
    BY DEF ClearersStop
  <2>2. CASE c = d
    <3>1. freeableMemBlockChans'[c] = Append(freeableMemBlockChans[c], x)
      BY <1>2, <2>2
    <3> QED
      BY <1>1, <2>1, <3>1, ClearerGets
  <2>3. CASE c # d
    BY <1>2, <2>1, <2>3, ClearerStopsFrame
  <2> QED
    BY <2>2, <2>3
<1> QED
  BY <1>3 DEF ClearersStop

\* A memClearer that moves on, the others standing still.
LEMMA OneClearerMoves ==
  ASSUME IInv, ClearersStop, NEW c \in Workers, ClearerStops(c)',
         \A d \in Workers : ShutdownSent(d)' <=> ShutdownSent(d),
         \A d \in Workers \ {c} : /\ freeableMemBlockChans'[d] = freeableMemBlockChans[d]
                                  /\ clearing'[d] = clearing[d]
                                  /\ tb'[d] = tb[d]
  PROVE  ClearersStop'
<1>1. ASSUME NEW d \in Workers, d # c PROVE ClearerStops(d)'
  <2>1. ClearerStops(d)
    BY DEF ClearersStop
  <2> QED
    BY <1>1, <2>1, ClearerStopsFrame
<1> QED
  BY <1>1 DEF ClearersStop

\* The mark goes to the memClearers last, and they pass it on last.
LEMMA ClearersStopStep ==
  ASSUME IInv, SyncOK, WritersStop, FileWriterStops, ClearersStop, Next
  PROVE  ClearersStop'
<1>1. /\ TypeOK /\ Content
      /\ freeableMemBlockChans \in [Workers -> Seq(Blocks \cup Marks)]
      /\ clearing \in [Workers -> Blocks \cup Marks \cup {0}]
      /\ tb \in [Workers -> TOCBlock]
  BY DEF IInv, TypeOK, TypeBuffer, TypeClearer
<1>2. /\ 0 \notin Marks /\ 0 \notin Blocks /\ ShutdownMark \in Marks /\ FlushMark \in Marks
      /\ ShutdownMark # FlushMark /\ ShutdownMark \notin Blocks /\ FlushMark \notin Blocks
      /\ ShutdownMark # 0 /\ Marks = {FlushMark, ShutdownMark}
  BY BlockFacts DEF Marks
<1>3. \A c \in Workers : ClearerStops(c)
  BY DEF ClearersStop
<1>4. ASSUME UNCHANGED <<freeableMemBlockChans, clearing, tb>>, ~(FileMark /\ inHand = ShutdownMark)
      PROVE  ClearersStop'
  <2>1. \A c \in Workers : ShutdownSent(c)' <=> ShutdownSent(c)
    BY <1>4, SentUnchanged
  <2> QED
    BY <1>3, <1>4, <2>1, ClearerStopsFrame DEF ClearersStop
<1>5. CASE FileWrite
  <2>1. memWritersShutdownLeft # 0 /\ UNCHANGED memWritersShutdownLeft
    BY <1>2, <1>5 DEF FileWrite, FileWriterStops
  <2>2. \A c \in Workers : ~ShutdownSent(c) /\ ~ShutdownSent(c)'
    BY <2>1 DEF ShutdownSent
  <2>3. /\ inHand \in Blocks /\ inHand # ShutdownMark /\ freeableIndex \in Workers
        /\ UNCHANGED <<clearing, tb>>
        /\ \/ UNCHANGED freeableMemBlockChans
           \/ freeableMemBlockChans'
                = [freeableMemBlockChans EXCEPT ![freeableIndex] = Append(@, inHand)]
    BY <1>1, <1>2, <1>5 DEF FileWrite, Attach, ReleaseNow, Release, clearerVars, TypeOK, TypeBuffer
  <2>4. ~(FileMark /\ inHand = ShutdownMark)
    BY <2>3
  <2>5. CASE UNCHANGED freeableMemBlockChans
    BY <1>4, <2>3, <2>4, <2>5
  <2>6. CASE freeableMemBlockChans'
               = [freeableMemBlockChans EXCEPT ![freeableIndex] = Append(@, inHand)]
    BY <2>2, <2>3, <2>6, ClearersGet
  <2> QED
    BY <2>3, <2>5, <2>6
<1>6. CASE BufferWritten
  <2>1. unwritten # <<>> /\ fl # 0 /\ UNCHANGED <<memWritersShutdownLeft, inHand, markNext, clearing, tb>>
    BY <1>6 DEF BufferWritten, SyncOK, clearerVars
  <2>2. \A c \in Workers : c <= NumWorkers /\ c \in Nat /\ NumWorkers \in Nat /\ markNext \in Nat
    BY <1>1, WorkersAssumption DEF Workers, TypeOK, TypeFile
  <2>3. \A c \in Workers : ~ShutdownSent(c) /\ ~ShutdownSent(c)'
    BY <2>1, <2>2 DEF ShutdownSent, FileWriterStops
  <2>4. Head(unwritten) \in Buffered
    BY <1>1, <2>1, HeadTail DEF TypeOK, TypeBuffer
  <2>5. Head(unwritten).block \in Blocks \cup {0}
    BY <2>4 DEF Buffered
  <2>6. /\ freeableIndex \in Workers
        /\ \/ UNCHANGED freeableMemBlockChans
           \/ /\ Head(unwritten).block \in Blocks
              /\ freeableMemBlockChans'
                   = [freeableMemBlockChans EXCEPT ![freeableIndex] = Append(@, Head(unwritten).block)]
    BY <1>1, <1>6, <2>5 DEF BufferWritten, Release, TypeOK, TypeBuffer
  <2>7. ASSUME UNCHANGED freeableMemBlockChans PROVE ClearersStop'
    BY <1>3, <2>1, <2>3, <2>7, ClearerStopsFrame DEF ClearersStop
  <2>8. ASSUME Head(unwritten).block \in Blocks,
               freeableMemBlockChans'
                 = [freeableMemBlockChans EXCEPT ![freeableIndex] = Append(@, Head(unwritten).block)]
        PROVE  ClearersStop'
    BY <1>2, <2>1, <2>3, <2>6, <2>8, ClearersGet
  <2> QED
    BY <2>6, <2>7, <2>8
<1>7. CASE FileMark /\ inHand # ShutdownMark
  <2>1. inHand = FlushMark /\ memWritersShutdownLeft # 0 /\ UNCHANGED <<memWritersShutdownLeft, clearing, tb>>
    BY <1>2, <1>7 DEF FileMark, FileWriterStops, clearerVars
  <2>2. \A c \in Workers : ~ShutdownSent(c) /\ ~ShutdownSent(c)'
    BY <2>1 DEF ShutdownSent
  <2>3. /\ markNext + 1 \in Workers
        /\ freeableMemBlockChans'
             = [freeableMemBlockChans EXCEPT ![markNext + 1] = Append(@, FlushMark)]
    BY <1>1, <1>7, <2>1, WorkersAssumption DEF FileMark, TypeOK, TypeFile, Workers
  <2> QED
    BY <1>2, <2>1, <2>2, <2>3, ClearersGet
<1>8. CASE FileMark /\ inHand = ShutdownMark
  <2>1. PICK d \in Workers :
        /\ ~ShutdownSent(d)
        /\ \A c \in Workers : ShutdownSent(c)' <=> (ShutdownSent(c) \/ c = d)
        /\ freeableMemBlockChans' = [freeableMemBlockChans EXCEPT ![d] = Append(@, ShutdownMark)]
    BY <1>8, SentByMark
  <2>2. UNCHANGED <<clearing, tb>>
    BY <1>8 DEF FileMark, clearerVars
  <2>3. ClearerStops(d)'
    <3> DEFINE q == freeableMemBlockChans[d]
    <3>1. /\ q \in Seq(Blocks \cup Marks) /\ freeableMemBlockChans'[d] = Append(q, ShutdownMark)
          /\ \A i \in DOMAIN q : q[i] # ShutdownMark
          /\ clearing[d] # ShutdownMark
      BY <1>1, <1>3, <2>1 DEF ClearerStops
    <3> HIDE DEF q
    <3>2. /\ Append(q, ShutdownMark) # <<>>
          /\ Append(q, ShutdownMark)[Len(Append(q, ShutdownMark))] = ShutdownMark
          /\ \A i \in DOMAIN Append(q, ShutdownMark) : Append(q, ShutdownMark)[i] = ShutdownMark =>
               i = Len(Append(q, ShutdownMark))
      BY <1>2, <3>1, LastOfAppend, AppendElems
    <3> QED
      BY <2>1, <2>2, <3>1, <3>2 DEF ClearerStops, ShutdownPassed
  <2>4. ASSUME NEW c \in Workers, c # d PROVE ClearerStops(c)'
    BY <1>1, <1>3, <2>1, <2>2, <2>4, ClearerStopsFrame
  <2> QED
    BY <2>3, <2>4 DEF ClearersStop
<1>9. ASSUME NEW c \in Workers, MemClearer(c) PROVE ClearersStop'
  <2>1. \A d \in Workers : ShutdownSent(d)' <=> ShutdownSent(d)
    BY <1>9 DEF MemClearer, ClearReceive, ClearSendTOC, ClearEntry, ClearSendFull, ClearFree, ClearMark,
       fileVars, ShutdownSent
  <2>2. \A d \in Workers \ {c} : /\ freeableMemBlockChans'[d] = freeableMemBlockChans[d]
                                 /\ clearing'[d] = clearing[d]
                                 /\ tb'[d] = tb[d]
    BY <1>1, <1>9 DEF MemClearer, ClearReceive, ClearSendTOC, ClearEntry, ClearSendFull, ClearFree, ClearMark
  <2>3. ClearerStops(c)
    BY <1>3
  <2>4. CASE ClearReceive(c)
    <3> DEFINE q == freeableMemBlockChans[c]
    <3>1. /\ q \in Seq(Blocks \cup Marks) /\ q # <<>> /\ freeableMemBlockChans'[c] = Tail(q)
          /\ clearing'[c] = Head(q) /\ clearing[c] = 0 /\ tb'[c] = tb[c]
      BY <1>1, <2>4 DEF ClearReceive
    <3>2. /\ \A i \in DOMAIN q : q[i] = ShutdownMark => ShutdownSent(c) /\ i = Len(q)
          /\ ShutdownSent(c) => q[Len(q)] = ShutdownMark
      BY <2>3, <3>1 DEF ClearerStops
    <3> HIDE DEF q
    <3>3. /\ 1 \in DOMAIN q /\ Head(q) = q[1] /\ Len(q) \in Nat /\ Len(Tail(q)) = Len(q) - 1
          /\ \A i \in DOMAIN Tail(q) : i + 1 \in DOMAIN q /\ Tail(q)[i] = q[i + 1] /\ i \in Nat
          /\ Head(q) \in Blocks \cup Marks
      BY <3>1, TailElems, HeadTail
    <3>4. /\ Tail(q) = <<>> <=> Len(q) = 1
          /\ Tail(q) = <<>> => Head(q) = q[Len(q)]
          /\ Tail(q) # <<>> => Tail(q)[Len(Tail(q))] = q[Len(q)]
      BY <3>1, LastOfTail
    <3>5. \A i \in DOMAIN Tail(q) : Tail(q)[i] = ShutdownMark =>
            ShutdownSent(c) /\ i = Len(Tail(q)) /\ Head(q) # ShutdownMark
      <4> SUFFICES ASSUME NEW i \in DOMAIN Tail(q), Tail(q)[i] = ShutdownMark
                   PROVE  ShutdownSent(c) /\ i = Len(Tail(q)) /\ Head(q) # ShutdownMark
        OBVIOUS
      <4>1. i + 1 \in DOMAIN q /\ q[i + 1] = ShutdownMark /\ i \in Nat /\ i # 0
        BY <3>1, <3>3, TailElems
      <4>2. ShutdownSent(c) /\ i + 1 = Len(q)
        BY <3>2, <4>1
      <4>3. q[1] # ShutdownMark
        BY <3>2, <3>3, <4>1, <4>2
      <4> QED
        BY <3>3, <4>1, <4>2, <4>3
    <3>6. Head(q) = ShutdownMark => ShutdownSent(c) /\ Tail(q) = <<>>
      BY <3>2, <3>3, <3>4
    <3>7. ShutdownSent(c) => IF Tail(q) = <<>> THEN Head(q) = ShutdownMark
                             ELSE Tail(q)[Len(Tail(q))] = ShutdownMark
      BY <3>2, <3>4
    <3>8. ClearerStops(c)'
      BY <1>2, <2>1, <3>1, <3>3, <3>5, <3>6, <3>7 DEF ClearerStops, ShutdownPassed
    <3> QED
      BY <2>1, <2>2, <3>8, OneClearerMoves
  <2>5. CASE ClearSendTOC(c)
    <3>1. tb'[c] = NoTB /\ UNCHANGED <<freeableMemBlockChans, clearing>>
      BY <1>1, <2>5 DEF ClearSendTOC
    <3>2. ClearerStops(c)'
      BY <2>1, <2>3, <3>1 DEF ClearerStops, ShutdownPassed
    <3> QED
      BY <2>1, <2>2, <3>2, OneClearerMoves
  <2>6. CASE ClearEntry(c) \/ ClearSendFull(c)
    <3>1. clearing[c] # 0 /\ UNCHANGED <<freeableMemBlockChans, clearing>>
      BY <1>1, <1>2, <2>6 DEF ClearEntry, ClearSendFull, Content, AtEntry
    <3>2. ClearerStops(c)'
      BY <2>1, <2>3, <3>1 DEF ClearerStops, ShutdownPassed
    <3> QED
      BY <2>1, <2>2, <3>2, OneClearerMoves
  <2>7. CASE ClearFree(c)
    <3>1. clearing[c] \in Blocks /\ clearing'[c] = 0 /\ UNCHANGED <<freeableMemBlockChans, tb>>
      BY <1>1, <2>7 DEF ClearFree
    <3>2. ClearerStops(c)'
      BY <1>2, <2>1, <2>3, <3>1 DEF ClearerStops, ShutdownPassed
    <3> QED
      BY <2>1, <2>2, <3>2, OneClearerMoves
  <2>8. CASE ClearMark(c)
    <3>1. /\ clearing[c] \in Marks /\ clearing'[c] = 0 /\ tb[c] = NoTB
          /\ UNCHANGED <<freeableMemBlockChans, tb>>
      BY <1>1, <2>8 DEF ClearMark, MustSend
    <3>2. ClearerStops(c)'
      BY <1>2, <2>1, <2>3, <3>1 DEF ClearerStops, ShutdownPassed
    <3> QED
      BY <2>1, <2>2, <3>2, OneClearerMoves
  <2> QED
    BY <1>9, <2>4, <2>5, <2>6, <2>7, <2>8 DEF MemClearer
<1>10. ASSUME NEW w \in Workers,
              (\E r \in Requests : MemReceive(w, r)) \/ MemSwitch(w) \/ MemWriter(w)
       PROVE  UNCHANGED <<freeableMemBlockChans, clearing, tb, markNext>>
  BY <1>10
  DEF MemReceive, MemSwitch, MemWriter, MemReject, MemRotate, MemTake, MemStore, MemMark, clearerVars, fileVars
<1>11. FileReceive \/ FileClosed \/ FileCreate \/ TOCWriter \/ Callers =>
         UNCHANGED <<freeableMemBlockChans, clearing, tb, markNext>>
  BY DEF FileReceive, FileClosed, FileCreate, TOCWriter, TOCBlockWritten, TOCMark, TOCFlushed, clearerVars,
     fileVars, Callers, FlushStep, FlushCall, FlushSend, FlushReturn, ShutdownCall, ShutdownSend,
     ShutdownReturn, DiscardLocalRemoval, ReadGet, ReadMemBlock, ReadFile, ReadReturn, Idle, vars
<1>12. CASE UNCHANGED <<freeableMemBlockChans, clearing, tb, markNext>>
  <2>1. CASE FileMark /\ inHand = ShutdownMark
    BY <1>8, <2>1
  <2> QED
    BY <1>4, <1>12, <2>1
<1> QED
  BY <1>5, <1>6, <1>7, <1>8, <1>9, <1>10, <1>11, <1>12
  DEF Next, FileWriter, Callers

-----------------------------------------------------------------------------
(* Shutdown: the tocWriter *)

\* The TOC block that a memClearer fills is of a value file.
LEMMA TBFilesStep ==
  ASSUME IInv, TBFiles, Next
  PROVE  TBFiles'
<1>1. /\ tb \in [Workers -> TOCBlock] /\ blockFile \in [Blocks -> Nat]
      /\ clearing \in [Workers -> Blocks \cup Marks \cup {0}]
      /\ Content
  BY DEF IInv, TypeOK, TypeClearer, TypeFile
<1>2. UNCHANGED tb => TBFiles'
  BY DEF TBFiles
<1>3. ASSUME NEW c \in Workers, tb'[c].file \in Nat, \A d \in Workers \ {c} : tb'[d] = tb[d]
      PROVE  TBFiles'
  BY <1>3 DEF TBFiles
<1>4. ASSUME NEW c \in Workers, ClearSendTOC(c) PROVE TBFiles'
  <2>1. tb'[c].file \in Nat /\ \A d \in Workers \ {c} : tb'[d] = tb[d]
    BY <1>1, <1>4 DEF ClearSendTOC, NoTB
  <2> QED
    BY <1>3, <2>1
<1>5. ASSUME NEW c \in Workers, ClearEntry(c) PROVE TBFiles'
  <2>1. blockFile[clearing[c]] \in Nat
    BY <1>1, <1>5 DEF ClearEntry
  <2>2. CASE UNCHANGED tb
    BY <1>2, <2>2
  <2>3. CASE \E s : tb' = [tb EXCEPT ![c] = [file |-> blockFile[clearing[c]], entries |-> s]]
    <3>1. PICK s : tb' = [tb EXCEPT ![c] = [file |-> blockFile[clearing[c]], entries |-> s]]
      BY <2>3
    <3>2. tb'[c].file \in Nat /\ \A d \in Workers \ {c} : tb'[d] = tb[d]
      BY <1>1, <2>1, <3>1
    <3> QED
      BY <1>3, <3>2
  <2> QED
    BY <1>5, <2>2, <2>3 DEF ClearEntry
<1>6. ASSUME NEW c \in Workers, ClearSendFull(c) PROVE TBFiles'
  <2>1. blockFile[clearing[c]] \in Nat
    BY <1>1, <1>6 DEF ClearSendFull, Content, AtEntry
  <2>2. tb' = [tb EXCEPT ![c] = [file |-> blockFile[clearing[c]], entries |-> <<TOCEntryAt(c)>>]]
    BY <1>6 DEF ClearSendFull
  <2>3. tb'[c].file \in Nat /\ \A d \in Workers \ {c} : tb'[d] = tb[d]
    BY <1>1, <2>1, <2>2
  <2> QED
    BY <1>3, <2>3
<1>7. ASSUME NEW c \in Workers, ClearReceive(c) \/ ClearFree(c) \/ ClearMark(c) PROVE TBFiles'
  BY <1>2, <1>7 DEF ClearReceive, ClearFree, ClearMark
<1>8. ASSUME NEW w \in Workers,
             (\E r \in Requests : MemReceive(w, r)) \/ MemSwitch(w) \/ MemWriter(w)
      PROVE  TBFiles'
  BY <1>2, <1>8
  DEF MemReceive, MemSwitch, MemWriter, MemReject, MemRotate, MemTake, MemStore, MemMark, clearerVars
<1>9. FileWriter \/ BufferWritten \/ TOCWriter \/ Callers => UNCHANGED tb
  BY DEF FileWriter, FileReceive, FileClosed, FileCreate, FileWrite, FileMark, BufferWritten, TOCWriter,
     TOCBlockWritten, TOCMark, TOCFlushed, clearerVars, Callers, FlushStep, FlushCall, FlushSend,
     FlushReturn, ShutdownCall, ShutdownSend, ShutdownReturn, DiscardLocalRemoval, ReadGet, ReadMemBlock,
     ReadFile, ReadReturn, Idle, vars
<1> QED
  BY <1>2, <1>4, <1>5, <1>6, <1>7, <1>8, <1>9 DEF Next, MemClearer, Callers

\* A memClearer has passed the mark on exactly when it has sent it.
LEMMA PassedStep ==
  ASSUME IInv, SyncOK, WritersStop, FileWriterStops, ClearersStop, Next
  PROVE  \/ \A d \in Workers : ShutdownPassed(d)' <=> ShutdownPassed(d)
         \/ \E c \in Workers : /\ ClearMark(c) /\ clearing[c] = ShutdownMark
                               /\ ~ShutdownPassed(c) /\ ShutdownPassed(c)'
                               /\ \A d \in Workers \ {c} : ShutdownPassed(d)' <=> ShutdownPassed(d)
<1>1. /\ TypeOK /\ Content
      /\ freeableMemBlockChans \in [Workers -> Seq(Blocks \cup Marks)]
      /\ clearing \in [Workers -> Blocks \cup Marks \cup {0}]
  BY DEF IInv, TypeOK, TypeBuffer, TypeClearer
<1>2. /\ 0 \notin Marks /\ 0 \notin Blocks /\ ShutdownMark # 0 /\ Marks = {FlushMark, ShutdownMark}
      /\ ShutdownMark \notin Blocks /\ FlushMark # ShutdownMark
  BY BlockFacts DEF Marks
<1>3. \A c \in Workers : ClearerStops(c)
  BY DEF ClearersStop
<1>4. ASSUME NEW c \in Workers, MemClearer(c),
             ~(ClearMark(c) /\ clearing[c] = ShutdownMark)
      PROVE  \A d \in Workers : ShutdownPassed(d)' <=> ShutdownPassed(d)
  <2>1. \A d \in Workers : ShutdownSent(d)' <=> ShutdownSent(d)
    BY <1>4 DEF MemClearer, ClearReceive, ClearSendTOC, ClearEntry, ClearSendFull, ClearFree, ClearMark,
       fileVars, ShutdownSent
  <2>2. \A d \in Workers \ {c} : /\ freeableMemBlockChans'[d] = freeableMemBlockChans[d]
                                 /\ clearing'[d] = clearing[d]
    BY <1>1, <1>4 DEF MemClearer, ClearReceive, ClearSendTOC, ClearEntry, ClearSendFull, ClearFree, ClearMark
  <2>3. ShutdownPassed(c)' <=> ShutdownPassed(c)
    <3>1. CASE ClearReceive(c)
      <4>1. Head(freeableMemBlockChans[c]) \in Blocks \cup Marks
        BY <1>1, <3>1, HeadTail DEF ClearReceive
      <4>2. clearing'[c] # 0 /\ freeableMemBlockChans[c] # <<>>
        BY <1>1, <1>2, <3>1, <4>1 DEF ClearReceive
      <4> QED
        BY <4>2 DEF ShutdownPassed
    <3>2. CASE ClearSendTOC(c) \/ ClearEntry(c) \/ ClearSendFull(c)
      BY <2>1, <3>2 DEF ClearSendTOC, ClearEntry, ClearSendFull, ShutdownPassed
    <3>3. CASE ClearFree(c) \/ ClearMark(c)
      <4>1. /\ clearing[c] \in Blocks \/ clearing[c] = FlushMark
            /\ UNCHANGED freeableMemBlockChans
        BY <1>1, <1>2, <1>4, <3>3 DEF ClearFree, ClearMark
      <4>2. ShutdownSent(c) => freeableMemBlockChans[c] # <<>>
        BY <1>2, <1>3, <4>1, BlockFacts DEF ClearerStops
      <4> QED
        BY <2>1, <4>1, <4>2 DEF ShutdownPassed
    <3> QED
      BY <1>4, <3>1, <3>2, <3>3 DEF MemClearer
  <2> QED
    BY <2>1, <2>2, <2>3 DEF ShutdownPassed
<1>5. ASSUME NEW c \in Workers, ClearMark(c), clearing[c] = ShutdownMark
      PROVE  /\ ~ShutdownPassed(c) /\ ShutdownPassed(c)'
             /\ \A d \in Workers \ {c} : ShutdownPassed(d)' <=> ShutdownPassed(d)
  <2>1. \A d \in Workers : ShutdownSent(d)' <=> ShutdownSent(d)
    BY <1>5 DEF ClearMark, fileVars, ShutdownSent
  <2>2. /\ \A d \in Workers \ {c} : clearing'[d] = clearing[d]
        /\ clearing'[c] = 0 /\ UNCHANGED freeableMemBlockChans
    BY <1>1, <1>5 DEF ClearMark
  <2>3. ShutdownSent(c) /\ freeableMemBlockChans[c] = <<>>
    BY <1>3, <1>5 DEF ClearerStops
  <2> QED
    BY <1>2, <1>5, <2>1, <2>2, <2>3 DEF ShutdownPassed
<1>6. ASSUME UNCHANGED <<freeableMemBlockChans, clearing>>, ~(FileMark /\ inHand = ShutdownMark)
      PROVE  \A d \in Workers : ShutdownPassed(d)' <=> ShutdownPassed(d)
  BY <1>6, SentUnchanged DEF ShutdownPassed
<1>7. CASE FileMark /\ inHand = ShutdownMark
  <2>1. PICK d \in Workers :
        /\ ~ShutdownSent(d)
        /\ \A c \in Workers : ShutdownSent(c)' <=> (ShutdownSent(c) \/ c = d)
        /\ freeableMemBlockChans' = [freeableMemBlockChans EXCEPT ![d] = Append(@, ShutdownMark)]
    BY <1>7, SentByMark
  <2>2. UNCHANGED clearing
    BY <1>7 DEF FileMark, clearerVars
  <2>3. freeableMemBlockChans'[d] # <<>>
    BY <1>1, <1>2, <2>1, LastOfAppend
  <2> QED
    BY <1>1, <2>1, <2>2, <2>3 DEF ShutdownPassed
<1>8. CASE FileWrite \/ BufferWritten \/ (FileMark /\ inHand # ShutdownMark)
  <2>1. \A d \in Workers : ShutdownSent(d)' <=> ShutdownSent(d)
    <3>1. CASE FileMark /\ inHand # ShutdownMark
      BY <3>1, SentUnchanged
    <3>2. CASE FileWrite
      BY <1>2, <3>2, SentUnchanged DEF FileWrite
    <3>3. CASE BufferWritten
      BY <3>3 DEF BufferWritten, ShutdownSent
    <3> QED
      BY <1>8, <3>1, <3>2, <3>3
  <2>2. \A d \in Workers : ~ShutdownSent(d)
    <3>1. CASE FileWrite \/ (FileMark /\ inHand # ShutdownMark)
      BY <1>2, <3>1 DEF FileWrite, FileMark, FileWriterStops, ShutdownSent
    <3>2. CASE BufferWritten
      <4>1. unwritten # <<>> /\ fl # 0
        BY <3>2 DEF BufferWritten, SyncOK
      <4>2. \A c \in Workers : c <= NumWorkers /\ c \in Nat /\ NumWorkers \in Nat /\ markNext \in Nat
        BY <1>1, WorkersAssumption DEF Workers, TypeOK, TypeFile
      <4> QED
        BY <4>1, <4>2 DEF ShutdownSent, FileWriterStops
    <3> QED
      BY <1>8, <3>1, <3>2
  <2> QED
    BY <2>1, <2>2 DEF ShutdownPassed
<1>9. ASSUME NEW w \in Workers,
             (\E r \in Requests : MemReceive(w, r)) \/ MemSwitch(w) \/ MemWriter(w)
      PROVE  UNCHANGED <<freeableMemBlockChans, clearing, tb>>
  BY <1>9
  DEF MemReceive, MemSwitch, MemWriter, MemReject, MemRotate, MemTake, MemStore, MemMark, clearerVars
<1>10. FileReceive \/ FileClosed \/ FileCreate \/ TOCWriter \/ Callers =>
         UNCHANGED <<freeableMemBlockChans, clearing>>
  BY DEF FileReceive, FileClosed, FileCreate, TOCWriter, TOCBlockWritten, TOCMark, TOCFlushed, clearerVars,
     Callers, FlushStep, FlushCall, FlushSend, FlushReturn, ShutdownCall, ShutdownSend,
     ShutdownReturn, DiscardLocalRemoval, ReadGet, ReadMemBlock, ReadFile, ReadReturn, Idle, vars
<1> QED
  BY <1>4, <1>5, <1>6, <1>7, <1>8, <1>9, <1>10 DEF Next, FileWriter, MemClearer, Callers

\* The countdown is right: at zero all memClearers have passed the mark on and
\* nothing waits for the tocWriter.
LEMMA ClearersLeftFacts ==
  ASSUME TypeOK, TOCWriterStops
  PROVE  /\ memClearersShutdownLeft \in Nat
         /\ memClearersShutdownLeft = 0 =>
              (\A c \in Workers : ShutdownPassed(c)) /\ pendingTOCBlockChan = <<>>
<1> DEFINE A == {c \in Workers : ~ShutdownPassed(c)}
           W == BlocksOf(ShutdownMark, pendingTOCBlockChan)
<1>1. pendingTOCBlockChan \in Seq(TOCBlock)
  BY DEF TypeOK, TypeClearer
<1>2. /\ Cardinality(A) \in Nat /\ Cardinality(W) \in Nat
      /\ Cardinality(A) = 0 <=> A = {}
      /\ Cardinality(W) = 0 <=> W = {}
  BY <1>1, BlocksOfFinite, WorkersCount
<1>3. memClearersShutdownLeft = Cardinality(A) + Cardinality(W)
  BY DEF TOCWriterStops
<1>4. A = {} => \A c \in Workers : ShutdownPassed(c)
  OBVIOUS
<1>5. pendingTOCBlockChan # <<>> => Len(pendingTOCBlockChan) \in DOMAIN pendingTOCBlockChan
  BY <1>1, LastOfTail
<1>6. A = {} /\ W = {} => pendingTOCBlockChan = <<>>
  BY <1>4, <1>5 DEF TOCWriterStops, BlocksOf
<1> HIDE DEF A, W
<1> QED
  BY <1>2, <1>3, <1>4, <1>6

\* The tocWriter, when neither its channel nor its countdown changes.
LEMMA TOCStopsFrame ==
  ASSUME TOCWriterStops, \A d \in Workers : ShutdownPassed(d)' <=> ShutdownPassed(d),
         UNCHANGED <<pendingTOCBlockChan, memClearersShutdownLeft>>,
         shutdownChan' = 1 => /\ memClearersShutdownLeft = 0
                              /\ activeTOCA' = 0 /\ activeTOCB' = 0
  PROVE  TOCWriterStops'
<1>1. {d \in Workers : ~ShutdownPassed(d)'} = {d \in Workers : ~ShutdownPassed(d)}
  OBVIOUS
<1>2. BlocksOf(ShutdownMark, pendingTOCBlockChan)' = BlocksOf(ShutdownMark, pendingTOCBlockChan)
  BY DEF BlocksOf
<1> QED
  BY <1>1, <1>2 DEF TOCWriterStops

\* A memClearer sends something else than the shutdown mark, before that.
LEMMA TOCStopsSend ==
  ASSUME TypeOK, TOCWriterStops, \A d \in Workers : ShutdownPassed(d)' <=> ShutdownPassed(d),
         NEW x \in TOCBlock, x.file # ShutdownMark,
         pendingTOCBlockChan' = Append(pendingTOCBlockChan, x),
         NEW c \in Workers, ~ShutdownPassed(c),
         UNCHANGED <<memClearersShutdownLeft, shutdownChan, activeTOCA, activeTOCB>>
  PROVE  TOCWriterStops'
<1>1. pendingTOCBlockChan \in Seq(TOCBlock)
  BY DEF TypeOK, TypeClearer
<1>2. {d \in Workers : ~ShutdownPassed(d)'} = {d \in Workers : ~ShutdownPassed(d)}
  OBVIOUS
<1>3. Cardinality(BlocksOf(ShutdownMark, pendingTOCBlockChan'))
        = Cardinality(BlocksOf(ShutdownMark, pendingTOCBlockChan))
  <2>1. Cardinality(BlocksOf(ShutdownMark, pendingTOCBlockChan)) \in Nat
    BY <1>1, BlocksOfFinite
  <2> QED
    BY <1>1, <2>1, BlocksOfAppend
<1>4. ~ShutdownPassed(c)'
  OBVIOUS
<1>5. memClearersShutdownLeft' = Cardinality({d \in Workers : ~ShutdownPassed(d)'})
                                 + Cardinality(BlocksOf(ShutdownMark, pendingTOCBlockChan'))
  BY <1>2, <1>3 DEF TOCWriterStops
<1> QED
  BY <1>4, <1>5 DEF TOCWriterStops, BlocksOf

\* The tocWriter receives something: the countdown counts the marks.
LEMMA TOCStopsReceive ==
  ASSUME TypeOK, TOCWriterStops, \A d \in Workers : ShutdownPassed(d)' <=> ShutdownPassed(d),
         pendingTOCBlockChan # <<>>, pendingTOCBlockChan' = Tail(pendingTOCBlockChan),
         memClearersShutdownLeft'
           = memClearersShutdownLeft - (IF Head(pendingTOCBlockChan).file = ShutdownMark THEN 1 ELSE 0),
         shutdownChan' = shutdownChan
           \/ (memClearersShutdownLeft' = 0 /\ activeTOCA' = 0 /\ activeTOCB' = 0)
  PROVE  TOCWriterStops'
<1>1. pendingTOCBlockChan \in Seq(TOCBlock)
  BY DEF TypeOK, TypeClearer
<1>2. {d \in Workers : ~ShutdownPassed(d)'} = {d \in Workers : ~ShutdownPassed(d)}
  OBVIOUS
<1> DEFINE n == Cardinality({d \in Workers : ~ShutdownPassed(d)})
           m == Cardinality(BlocksOf(ShutdownMark, pendingTOCBlockChan))
<1>3. n \in Nat /\ m \in Nat /\ memClearersShutdownLeft = n + m
  <2>1. n \in Nat
    BY WorkersCount
  <2> QED
    BY <1>1, <2>1, BlocksOfFinite DEF TOCWriterStops
<1>4. Cardinality(BlocksOf(ShutdownMark, pendingTOCBlockChan'))
        = m - (IF Head(pendingTOCBlockChan).file = ShutdownMark THEN 1 ELSE 0)
  BY <1>1, BlocksOfTail
<1> HIDE DEF n, m
<1>5. memClearersShutdownLeft' = n + Cardinality(BlocksOf(ShutdownMark, pendingTOCBlockChan'))
  BY <1>3, <1>4
<1>6. memClearersShutdownLeft' = Cardinality({d \in Workers : ~ShutdownPassed(d)'})
                                 + Cardinality(BlocksOf(ShutdownMark, pendingTOCBlockChan'))
  BY <1>2, <1>5 DEF n
<1>7. (\A d \in Workers : ShutdownPassed(d)') /\ pendingTOCBlockChan' # <<>> =>
        pendingTOCBlockChan'[Len(pendingTOCBlockChan')].file = ShutdownMark
  BY <1>1, LastOfTail DEF TOCWriterStops
<1>8. shutdownChan # 1
  BY ClearersLeftFacts DEF TOCWriterStops
<1> QED
  BY <1>6, <1>7, <1>8 DEF TOCWriterStops, BlocksOf

LEMMA TOCWriterStopsStep ==
  ASSUME IInv, SyncOK, WritersStop, FileWriterStops, ClearersStop, TBFiles, TOCWriterStops, Next
  PROVE  TOCWriterStops'
<1>1. /\ TypeOK /\ Content /\ pendingTOCBlockChan \in Seq(TOCBlock) /\ tb \in [Workers -> TOCBlock]
      /\ memClearersShutdownLeft \in Nat
  BY ClearersLeftFacts DEF IInv, TypeOK, TypeClearer
<1>2. /\ 0 \notin Marks /\ 0 \notin Blocks /\ Marks = {FlushMark, ShutdownMark}
      /\ FlushMark # ShutdownMark /\ ShutdownMark \notin Nat
  BY BlockFacts DEF Marks
<1>3. \A m \in Marks : MarkTB(m) \in TOCBlock /\ MarkTB(m).file = m
  BY DEF MarkTB, TOCBlock
<1>4. ASSUME NEW c \in Workers, ClearMark(c), clearing[c] = ShutdownMark, ~ShutdownPassed(c),
             ShutdownPassed(c)', \A d \in Workers \ {c} : ShutdownPassed(d)' <=> ShutdownPassed(d)
      PROVE  TOCWriterStops'
  <2>1. /\ pendingTOCBlockChan' = Append(pendingTOCBlockChan, MarkTB(ShutdownMark))
        /\ UNCHANGED <<memClearersShutdownLeft, shutdownChan, activeTOCA, activeTOCB>>
    BY <1>4 DEF ClearMark, tocVars
  <2> DEFINE A == {d \in Workers : ~ShutdownPassed(d)}
             B == {d \in Workers : ~ShutdownPassed(d)'}
             m == Cardinality(BlocksOf(ShutdownMark, pendingTOCBlockChan))
  <2>2. B = A \ {c} /\ c \in A /\ A \in SUBSET Workers
    BY <1>4
  <2>3. Cardinality(A) \in Nat /\ Cardinality(B) = Cardinality(A) - 1
    BY <2>2, WorkersCount
  <2>4. Cardinality(BlocksOf(ShutdownMark, pendingTOCBlockChan')) = m + 1 /\ m \in Nat
    BY <1>1, <1>2, <1>3, <2>1, BlocksOfAppend, BlocksOfFinite
  <2>5. memClearersShutdownLeft = Cardinality(A) + m
    BY DEF TOCWriterStops
  <2>6. pendingTOCBlockChan'[Len(pendingTOCBlockChan')].file = ShutdownMark
    BY <1>1, <1>2, <1>3, <2>1, LastOfAppend
  <2> HIDE DEF A, B, m
  <2>7. memClearersShutdownLeft' = Cardinality(B)
                                   + Cardinality(BlocksOf(ShutdownMark, pendingTOCBlockChan'))
    BY <2>1, <2>3, <2>4, <2>5
  <2> QED
    BY <2>1, <2>6, <2>7 DEF TOCWriterStops, BlocksOf, B
<1>5. ASSUME \A d \in Workers : ShutdownPassed(d)' <=> ShutdownPassed(d)
      PROVE  TOCWriterStops'
  <2>1. ASSUME NEW c \in Workers, ClearSendTOC(c) \/ ClearSendFull(c) PROVE TOCWriterStops'
    <3>1. /\ pendingTOCBlockChan' = Append(pendingTOCBlockChan, tb[c])
          /\ UNCHANGED <<memClearersShutdownLeft, shutdownChan, activeTOCA, activeTOCB>>
      BY <2>1 DEF ClearSendTOC, ClearSendFull, tocVars
    <3>2. clearing[c] # 0
      BY <1>1, <1>2, <2>1 DEF ClearSendTOC, ClearSendFull, MustSend, Content, AtEntry
    <3>3. ~ShutdownPassed(c)
      BY <3>2 DEF ShutdownPassed
    <3>4. tb[c] \in TOCBlock /\ tb[c].file # ShutdownMark
      BY <1>1, <1>2 DEF TBFiles
    <3> QED
      BY <1>1, <1>5, <3>1, <3>3, <3>4, TOCStopsSend
  <2>2. ASSUME NEW c \in Workers, ClearMark(c) PROVE TOCWriterStops'
    <3>1. /\ pendingTOCBlockChan' = Append(pendingTOCBlockChan, MarkTB(clearing[c]))
          /\ UNCHANGED <<memClearersShutdownLeft, shutdownChan, activeTOCA, activeTOCB>>
          /\ clearing[c] \in Marks /\ clearing'[c] = 0
          /\ freeableMemBlockChans' = freeableMemBlockChans
      BY <1>1, <2>2 DEF ClearMark, tocVars, TypeOK, TypeClearer
    <3>2. ~ShutdownPassed(c)
      BY <1>2, <3>1 DEF ShutdownPassed
    <3>3. clearing[c] # ShutdownMark
      <4>1. SUFFICES ASSUME clearing[c] = ShutdownMark PROVE FALSE
        OBVIOUS
      <4>2. ShutdownSent(c) /\ freeableMemBlockChans[c] = <<>>
        BY <4>1 DEF ClearersStop, ClearerStops
      <4>3. ShutdownSent(c)'
        BY <2>2, <4>2 DEF ClearMark, fileVars, ShutdownSent
      <4> QED
        BY <1>5, <3>1, <3>2, <4>2, <4>3 DEF ShutdownPassed
    <3>4. PICK x : x = MarkTB(clearing[c])
      OBVIOUS
    <3>5. x \in TOCBlock /\ x.file # ShutdownMark
      BY <1>3, <3>1, <3>3, <3>4
    <3> QED
      BY <1>1, <1>5, <3>1, <3>2, <3>4, <3>5, TOCStopsSend
  <2>3. CASE TOCBlockWritten
    <3>1. Head(pendingTOCBlockChan).file # ShutdownMark
      BY <1>2, <2>3 DEF TOCBlockWritten
    <3>2. /\ pendingTOCBlockChan # <<>> /\ pendingTOCBlockChan' = Tail(pendingTOCBlockChan)
          /\ UNCHANGED <<memClearersShutdownLeft, shutdownChan>>
      BY <2>3 DEF TOCBlockWritten
    <3> QED
      BY <1>1, <1>5, <3>1, <3>2, TOCStopsReceive
  <2>4. CASE TOCMark
    <3> DEFINE m == Head(pendingTOCBlockChan).file
    <3>1. /\ pendingTOCBlockChan # <<>> /\ pendingTOCBlockChan' = Tail(pendingTOCBlockChan)
          /\ memClearersShutdownLeft' = IF m = ShutdownMark THEN memClearersShutdownLeft - 1
                                        ELSE memClearersShutdownLeft
          /\ \/ shutdownChan' = shutdownChan
             \/ /\ m = ShutdownMark /\ memClearersShutdownLeft = 1
                /\ activeTOCA' = 0 /\ activeTOCB' = 0
      BY <1>2, <2>4 DEF TOCMark
    <3>2. memClearersShutdownLeft' = memClearersShutdownLeft - (IF m = ShutdownMark THEN 1 ELSE 0)
      BY <1>1, <3>1
    <3>3. shutdownChan' = shutdownChan
          \/ (memClearersShutdownLeft' = 0 /\ activeTOCA' = 0 /\ activeTOCB' = 0)
      BY <3>1
    <3> HIDE DEF m
    <3> QED
      BY <1>1, <1>5, <3>1, <3>2, <3>3, TOCStopsReceive DEF m
  <2>5. CASE ShutdownReturn
    <3>1. shutdownChan' # 1 /\ UNCHANGED <<pendingTOCBlockChan, memClearersShutdownLeft>>
      BY <2>5 DEF ShutdownReturn
    <3> QED
      BY <1>5, <3>1, TOCStopsFrame
  <2>6. ASSUME UNCHANGED <<pendingTOCBlockChan, memClearersShutdownLeft, shutdownChan, activeTOCA,
                           activeTOCB>>
        PROVE  TOCWriterStops'
    <3>1. shutdownChan' = 1 => memClearersShutdownLeft = 0 /\ activeTOCA' = 0 /\ activeTOCB' = 0
      BY <2>6 DEF TOCWriterStops
    <3> QED
      BY <1>5, <2>6, <3>1, TOCStopsFrame
  <2>7. ASSUME NEW w \in Workers,
               \/ (\E r \in Requests : MemReceive(w, r)) \/ MemSwitch(w) \/ MemWriter(w)
               \/ ClearReceive(w) \/ ClearEntry(w) \/ ClearFree(w)
        PROVE  TOCWriterStops'
    BY <2>6, <2>7
    DEF MemReceive, MemSwitch, MemWriter, MemReject, MemRotate, MemTake, MemStore, MemMark,
        ClearReceive, ClearEntry, ClearFree, tocVars
  <2>8. CASE FileWriter \/ BufferWritten \/ TOCFlushed
    BY <2>6, <2>8 DEF FileWriter, FileReceive, FileClosed, FileCreate, FileWrite, FileMark, BufferWritten,
       TOCFlushed, tocVars
  <2>9. CASE Callers /\ ~ShutdownReturn
    BY <2>6, <2>9 DEF Callers, FlushStep, FlushCall, FlushSend, FlushReturn, ShutdownCall, ShutdownSend,
       DiscardLocalRemoval, ReadGet, ReadMemBlock, ReadFile, ReadReturn, Idle, vars, tocVars
  <2> QED
    BY <2>1, <2>2, <2>3, <2>4, <2>5, <2>7, <2>8, <2>9 DEF Next, MemClearer, TOCWriter, Callers
<1> QED
  BY <1>4, <1>5, PassedStep

-----------------------------------------------------------------------------
(* TOC entries on their way *)

\* The entries of a concatenation, and of a sequence after a send.
LEMMA AmongConcat ==
  ASSUME NEW S, NEW s \in Seq(S), NEW t \in Seq(S), NEW e, Among(e, s) \/ Among(e, t)
  PROVE  Among(e, s \o t)
<1>1. ASSUME NEW i \in DOMAIN s, s[i] = e PROVE Among(e, s \o t)
  BY <1>1, ConcatElems DEF Among
<1>2. ASSUME NEW i \in DOMAIN t, t[i] = e PROVE Among(e, s \o t)
  <2>1. Len(s) + i \in DOMAIN (s \o t) /\ (s \o t)[Len(s) + i] = t[i]
    BY ConcatElems
  <2> QED
    BY <1>2, <2>1 DEF Among
<1> QED
  BY <1>1, <1>2 DEF Among

LEMMA AmongAppend ==
  ASSUME NEW S, NEW s \in Seq(S), NEW x \in S, NEW e, Among(e, s) \/ e = x
  PROVE  Among(e, Append(s, x))
BY AppendKeeps DEF Among

\* What is on its way stays so while it does not move.
LEMMA OnItsWayFrame ==
  ASSUME NEW n, NEW e, OnItsWay(n, e), UNCHANGED <<pendingTOCBlockChan, tb>>,
         n \in DOMAIN files => n \in DOMAIN files' /\ files'[n].toc = files[n].toc,
         \A c \in Workers : tbFull[c] => /\ tbFull'[c]
                                         /\ blockFile'[clearing'[c]] = blockFile[clearing[c]]
                                         /\ TOCEntryAt(c)' = TOCEntryAt(c)
  PROVE  OnItsWay(n, e)'
<1>1. CASE n \in DOMAIN files /\ Among(e, files[n].toc)
  BY <1>1 DEF OnItsWay, Among
<1>2. CASE \E i \in DOMAIN pendingTOCBlockChan :
             pendingTOCBlockChan[i].file = n /\ Among(e, pendingTOCBlockChan[i].entries)
  BY <1>2 DEF OnItsWay, Among
<1>3. CASE \E c \in Workers : tb[c].file = n /\ Among(e, tb[c].entries)
  BY <1>3 DEF OnItsWay, Among
<1>4. CASE \E c \in Workers : tbFull[c] /\ blockFile[clearing[c]] = n /\ TOCEntryAt(c) = e
  BY <1>4 DEF OnItsWay
<1> QED
  BY <1>1, <1>2, <1>3, <1>4 DEF OnItsWay

\* What a memClearer that waits to send its TOC block is at does not change while
\* it waits.
LEMMA FullEntryStays ==
  ASSUME IInv, Next, NEW c \in Workers, tbFull[c], ~ClearSendFull(c)
  PROVE  /\ tbFull'[c]
         /\ blockFile'[clearing'[c]] = blockFile[clearing[c]]
         /\ TOCEntryAt(c)' = TOCEntryAt(c)
<1>1. /\ TypeOK /\ BeforeFile /\ BeforeFileDistinct /\ AfterFile /\ AfterFileDistinct /\ Content
  BY DEF IInv
<1>2. /\ clearing \in [Workers -> Blocks \cup Marks \cup {0}] /\ clearPos \in [Workers -> Nat \ {0}]
      /\ tbFull \in [Workers -> BOOLEAN] /\ blockFile \in [Blocks -> Nat]
      /\ blockOffset \in [Blocks -> Nat] /\ mem \in [Blocks -> Seq(Entry)]
  BY <1>1 DEF TypeOK, TypeClearer, TypeFile, TypeMem
<1>3. /\ clearing[c] \in Blocks /\ clearPos[c] \in DOMAIN mem[clearing[c]]
      /\ blockFile[clearing[c]] # 0
  BY <1>1 DEF Content, AtEntry, AfterFile
<1>4. PICK b \in Blocks : b = clearing[c]
  BY <1>3
<1>5. ASSUME tbFull'[c] = tbFull[c], clearing'[c] = b, clearPos'[c] = clearPos[c],
             mem'[b] = mem[b], blockFile'[b] = blockFile[b], blockOffset'[b] = blockOffset[b]
      PROVE  /\ tbFull'[c]
             /\ blockFile'[clearing'[c]] = blockFile[clearing[c]]
             /\ TOCEntryAt(c)' = TOCEntryAt(c)
  BY <1>4, <1>5 DEF TOCEntryAt
<1>6. ASSUME UNCHANGED <<clearing, clearPos, tbFull, mem, blockFile, blockOffset>>
      PROVE  /\ tbFull'[c]
             /\ blockFile'[clearing'[c]] = blockFile[clearing[c]]
             /\ TOCEntryAt(c)' = TOCEntryAt(c)
  BY <1>4, <1>5, <1>6
<1>7. ASSUME NEW w \in Workers, MemStore(w)
      PROVE  /\ tbFull'[c]
             /\ blockFile'[clearing'[c]] = blockFile[clearing[c]]
             /\ TOCEntryAt(c)' = TOCEntryAt(c)
  <2>1. memBlock[w] # 0 /\ memBlock[w] # b
    BY <1>1, <1>3, <1>4, <1>7 DEF MemStore, BeforeFile
  <2>2. mem'[b] = mem[b]
    BY <1>2, <1>7, <2>1 DEF MemStore
  <2>3. UNCHANGED <<clearing, clearPos, tbFull, blockFile, blockOffset>>
    BY <1>7 DEF MemStore, clearerVars, fileVars
  <2> QED
    BY <1>4, <1>5, <2>2, <2>3
<1>8. CASE FileWrite
  <2>1. inHand # b /\ inHand \in Blocks
    BY <1>1, <1>3, <1>4, <1>8 DEF FileWrite, BeforeFile
  <2>2. blockFile'[b] = blockFile[b] /\ blockOffset'[b] = blockOffset[b]
    BY <1>2, <1>8, <2>1 DEF FileWrite
  <2>3. UNCHANGED <<clearing, clearPos, tbFull, mem>>
    BY <1>8 DEF FileWrite, clearerVars, memVars
  <2> QED
    BY <1>4, <1>5, <2>2, <2>3
<1>9. ASSUME NEW d \in Workers, MemClearer(d)
      PROVE  /\ tbFull'[c]
             /\ blockFile'[clearing'[c]] = blockFile[clearing[c]]
             /\ TOCEntryAt(c)' = TOCEntryAt(c)
  <2>1. d = c => ClearSendTOC(d)
    <3>1. clearing[c] # 0 /\ clearing[c] \notin Marks
      BY <1>3, BlockFacts
    <3>2. ~(clearPos[c] > Len(mem[clearing[c]]))
      BY <1>2, <1>3
    <3> QED
      BY <1>9, <3>1, <3>2 DEF MemClearer, ClearReceive, ClearEntry, ClearFree, ClearMark
  <2>2. CASE ClearSendTOC(d)
    BY <1>6, <2>2 DEF ClearSendTOC, memVars, fileVars
  <2>3. CASE d # c
    <3>1. clearing'[c] = b /\ clearPos'[c] = clearPos[c] /\ tbFull'[c] = tbFull[c]
      BY <1>2, <1>4, <1>9, <2>3
      DEF MemClearer, ClearReceive, ClearSendTOC, ClearEntry, ClearSendFull, ClearFree, ClearMark
    <3>2. CASE ClearFree(d)
      <4>1. clearing[d] # b
        BY <1>1, <1>4, <2>3 DEF AfterFileDistinct
      <4>2. mem'[b] = mem[b] /\ blockFile'[b] = blockFile[b] /\ blockOffset'[b] = blockOffset[b]
        BY <1>2, <3>2, <4>1 DEF ClearFree
      <4> QED
        BY <1>5, <3>1, <4>2
    <3>3. CASE ~ClearFree(d)
      <4>1. UNCHANGED <<mem, blockFile, blockOffset>>
        BY <1>9, <3>3
        DEF MemClearer, ClearReceive, ClearSendTOC, ClearEntry, ClearSendFull, ClearMark, memVars, fileVars
      <4> QED
        BY <1>5, <3>1, <4>1
    <3> QED
      BY <3>2, <3>3
  <2> QED
    BY <2>1, <2>2, <2>3
<1>10. ASSUME NEW w \in Workers,
             \/ (\E r \in Requests : MemReceive(w, r)) \/ MemSwitch(w) \/ MemReject(w) \/ MemRotate(w)
             \/ MemTake(w) \/ MemMark(w)
      PROVE  UNCHANGED <<clearing, clearPos, tbFull, mem, blockFile, blockOffset>>
  BY <1>10 DEF MemReceive, MemSwitch, MemReject, MemRotate, MemTake, MemMark, memVars, fileVars, clearerVars
<1>11. FileReceive \/ FileClosed \/ FileCreate \/ FileMark \/ BufferWritten \/ TOCWriter \/ Callers =>
         UNCHANGED <<clearing, clearPos, tbFull, mem, blockFile, blockOffset>>
  BY DEF FileReceive, FileClosed, FileCreate, FileMark, BufferWritten, TOCWriter, TOCBlockWritten, TOCMark,
     TOCFlushed, Callers, FlushStep, FlushCall, FlushSend, FlushReturn, ShutdownCall, ShutdownSend,
     ShutdownReturn, DiscardLocalRemoval, ReadGet, ReadMemBlock, ReadFile, ReadReturn, Idle, vars, memVars,
     fileVars, clearerVars
<1> QED
  BY <1>6, <1>7, <1>8, <1>9, <1>10, <1>11 DEF Next, MemWriter, FileWriter, Callers

\* The tocWriter's step for a TOC block that is not late: its entries are added
\* to the TOC, and none is lost.
LEMMA TOCGrows ==
  ASSUME IInv, NoLateTOCBlock, TOCBlockWritten, Head(pendingTOCBlockChan).file \in DOMAIN files
  PROVE  LET t == Head(pendingTOCBlockChan) IN
         /\ t \in TOCBlock /\ pendingTOCBlockChan[1] = t /\ DOMAIN files' = DOMAIN files
         /\ \A n \in DOMAIN files \ {t.file} : files'[n] = files[n]
         /\ \A n \in DOMAIN files : files'[n].synced = files[n].synced
         /\ files'[t.file].toc = files[t.file].toc \o t.entries
         /\ files[t.file].toc \in Seq(TOCEntry) /\ t.entries \in Seq(TOCEntry)
<1> DEFINE t == Head(pendingTOCBlockChan)
<1>1. /\ pendingTOCBlockChan \in Seq(TOCBlock) /\ pendingTOCBlockChan # <<>> /\ files \in Seq(FileRec)
      /\ files' = [files EXCEPT ![t.file].toc = IF t.file \in {activeTOCA, activeTOCB}
                                                THEN files[t.file].toc \o t.entries ELSE t.entries]
      /\ t.file \notin Marks
  BY DEF TOCBlockWritten, IInv, TypeOK, TypeClearer, TypeFile
<1>2. t \in TOCBlock /\ 1 \in DOMAIN pendingTOCBlockChan /\ pendingTOCBlockChan[1] = t
  BY <1>1, HeadTail, TailElems
<1>3. files[t.file].toc # <<>> => t.file \in {activeTOCA, activeTOCB}
  BY <1>1, <1>2 DEF NoLateTOCBlock
<1>4. \A n \in DOMAIN files : files[n] \in FileRec
  BY <1>1
<1>5. t.entries \in Seq(TOCEntry) /\ files[t.file].toc \in Seq(TOCEntry)
  BY <1>2, <1>4 DEF TOCBlock, FileRec
<1> HIDE DEF t
<1>6. /\ DOMAIN files' = DOMAIN files
      /\ \A n \in DOMAIN files \ {t.file} : files'[n] = files[n]
      /\ \A n \in DOMAIN files : files'[n].synced = files[n].synced
      /\ files'[t.file].toc = IF t.file \in {activeTOCA, activeTOCB}
                              THEN files[t.file].toc \o t.entries ELSE t.entries
  BY <1>1, <1>4 DEF t, FileRec
<1>7. files'[t.file].toc = files[t.file].toc \o t.entries
  <2>1. CASE t.file \in {activeTOCA, activeTOCB}
    BY <1>6, <2>1
  <2>2. CASE files[t.file].toc = <<>>
    <3>1. <<>> \o t.entries = t.entries
      BY <1>5
    <3> QED
      BY <1>6, <2>1, <2>2, <3>1
  <2> QED
    BY <1>3, <2>1, <2>2
<1> QED
  BY <1>2, <1>5, <1>6, <1>7 DEF t

\* A TOC block with an entry that has an offset is of a file.
LEMMA BlockIsOfFile ==
  ASSUME NEW t, NEW e, BlockOfFile(t), Among(e, t.entries), e.off # 0
  PROVE  t.file \in DOMAIN files
BY DEF BlockOfFile, EntryInFile, Among, FileHas

\* A TOC entry is not lost on its way from a memClearer to the TOC.
LEMMA OnItsWayKept ==
  ASSUME IInv, TOCEntriesOK, NoLateTOCBlock, Next, NEW n, NEW e, e.off # 0, OnItsWay(n, e)
  PROVE  OnItsWay(n, e)'
<1>1. /\ TypeOK /\ Content /\ pendingTOCBlockChan \in Seq(TOCBlock) /\ files \in Seq(FileRec)
      /\ tb \in [Workers -> TOCBlock] /\ tbFull \in [Workers -> BOOLEAN]
      /\ clearing \in [Workers -> Blocks \cup Marks \cup {0}]
  BY DEF IInv, TypeOK, TypeClearer, TypeFile
<1>2. \A m \in DOMAIN files : files[m] \in FileRec
  BY <1>1
<1>3. ASSUME UNCHANGED <<pendingTOCBlockChan, tb>>, ~\E c \in Workers : ClearSendFull(c),
             \A m \in DOMAIN files : m \in DOMAIN files' /\ files'[m].toc = files[m].toc
      PROVE  OnItsWay(n, e)'
  BY <1>3, OnItsWayFrame, FullEntryStays
<1>4. ASSUME NEW c \in Workers, NEW x \in TOCBlock,
             pendingTOCBlockChan' = Append(pendingTOCBlockChan, x),
             UNCHANGED files, \A d \in Workers \ {c} : tb'[d] = tb[d] /\ ~ClearSendFull(d),
             x = tb[c] \/ tb'[c] = tb[c],
             tbFull[c] /\ blockFile[clearing[c]] = n /\ TOCEntryAt(c) = e => OnItsWay(n, e)'
      PROVE  OnItsWay(n, e)'
  <2>1. /\ \A i \in DOMAIN pendingTOCBlockChan : i \in DOMAIN pendingTOCBlockChan'
             /\ pendingTOCBlockChan'[i] = pendingTOCBlockChan[i]
        /\ \E i \in DOMAIN pendingTOCBlockChan' : pendingTOCBlockChan'[i] = x
    BY <1>1, <1>4, AppendKeeps
  <2>2. CASE n \in DOMAIN files /\ Among(e, files[n].toc)
    BY <1>4, <2>2 DEF OnItsWay, Among
  <2>3. CASE \E i \in DOMAIN pendingTOCBlockChan :
               pendingTOCBlockChan[i].file = n /\ Among(e, pendingTOCBlockChan[i].entries)
    BY <2>1, <2>3 DEF OnItsWay, Among
  <2>4. CASE \E d \in Workers : tb[d].file = n /\ Among(e, tb[d].entries)
    <3>1. PICK d \in Workers : tb[d].file = n /\ Among(e, tb[d].entries)
      BY <2>4
    <3>2. CASE tb'[d] = tb[d]
      BY <3>1, <3>2 DEF OnItsWay, Among
    <3>3. CASE x = tb[d]
      BY <2>1, <3>1, <3>3 DEF OnItsWay, Among
    <3> QED
      BY <1>4, <3>2, <3>3
  <2>5. CASE \E d \in Workers : tbFull[d] /\ blockFile[clearing[d]] = n /\ TOCEntryAt(d) = e
    <3>1. PICK d \in Workers : tbFull[d] /\ blockFile[clearing[d]] = n /\ TOCEntryAt(d) = e
      BY <2>5
    <3>2. CASE d = c
      BY <1>4, <3>1, <3>2
    <3>3. CASE d # c
      BY <1>4, <3>1, <3>3, FullEntryStays DEF OnItsWay
    <3> QED
      BY <3>2, <3>3
  <2> QED
    BY <2>2, <2>3, <2>4, <2>5 DEF OnItsWay
<1>5. ASSUME NEW c \in Workers, ClearSendTOC(c) PROVE OnItsWay(n, e)'
  <2>1. PICK x : x = tb[c]
    OBVIOUS
  <2>2. /\ pendingTOCBlockChan' = Append(pendingTOCBlockChan, x) /\ UNCHANGED <<files, tbFull>>
        /\ \A d \in Workers \ {c} : tb'[d] = tb[d]
    BY <1>1, <1>5, <2>1 DEF ClearSendTOC, fileVars
  <2>3. \A d \in Workers : ~ClearSendFull(d)
    BY <1>1, <2>2 DEF ClearSendFull
  <2>4. tbFull[c] /\ blockFile[clearing[c]] = n /\ TOCEntryAt(c) = e => OnItsWay(n, e)'
    BY <2>3, FullEntryStays DEF OnItsWay
  <2>5. x \in TOCBlock
    BY <1>1, <2>1
  <2> QED
    BY <1>4, <2>1, <2>2, <2>3, <2>4, <2>5
<1>6. ASSUME NEW c \in Workers, ClearSendFull(c) PROVE OnItsWay(n, e)'
  <2>1. PICK x : x = tb[c]
    OBVIOUS
  <2>2. /\ pendingTOCBlockChan' = Append(pendingTOCBlockChan, x) /\ UNCHANGED files
        /\ \A d \in Workers \ {c} : tb'[d] = tb[d]
        /\ tb'[c] = [file |-> blockFile[clearing[c]], entries |-> <<TOCEntryAt(c)>>]
        /\ tbFull' = [tbFull EXCEPT ![c] = FALSE]
        /\ tbFull[c]
    BY <1>1, <1>6, <2>1 DEF ClearSendFull, fileVars
  <2>3. \A d \in Workers \ {c} : ~ClearSendFull(d)
    BY <1>1, <2>2 DEF ClearSendFull
  <2>4. ASSUME blockFile[clearing[c]] = n, TOCEntryAt(c) = e PROVE OnItsWay(n, e)'
    <3>1. tb'[c].file = n /\ tb'[c].entries = <<e>>
      BY <2>2, <2>4
    <3>2. 1 \in DOMAIN <<e>> /\ <<e>>[1] = e
      OBVIOUS
    <3> QED
      BY <3>1, <3>2 DEF OnItsWay, Among
  <2>5. x \in TOCBlock
    BY <1>1, <2>1
  <2> QED
    BY <1>4, <2>1, <2>2, <2>3, <2>4, <2>5
<1>7. ASSUME NEW c \in Workers, ClearMark(c) PROVE OnItsWay(n, e)'
  <2>1. PICK x : x = MarkTB(clearing[c])
    OBVIOUS
  <2>2. /\ pendingTOCBlockChan' = Append(pendingTOCBlockChan, x) /\ UNCHANGED <<files, tb, tbFull>>
        /\ clearing[c] \in Marks
    BY <1>1, <1>7, <2>1 DEF ClearMark, fileVars
  <2>3. \A d \in Workers : ~ClearSendFull(d)
    BY <1>1, <2>2 DEF ClearSendFull
  <2>4. x \in TOCBlock
    BY <2>1, <2>2 DEF MarkTB, TOCBlock
  <2>5. ~tbFull[c]
    BY <1>1, <2>2, BlockFacts DEF Content, AtEntry
  <2> QED
    BY <1>4, <2>2, <2>3, <2>4, <2>5
<1>8. ASSUME NEW c \in Workers, ClearEntry(c) PROVE OnItsWay(n, e)'
  <2> DEFINE b == clearing[c]
  <2>1. /\ b \in Blocks /\ UNCHANGED <<pendingTOCBlockChan, files>>
        /\ ~MustSend(c) /\ ~tbFull[c]
        /\ \/ UNCHANGED tb
           \/ tb' = [tb EXCEPT ![c] = [file |-> blockFile[b],
                                       entries |-> Append(tb[c].entries, TOCEntryAt(c))]]
    BY <1>8 DEF ClearEntry, fileVars
  <2>2. \A d \in Workers : ~ClearSendFull(d)
    <3>1. ASSUME NEW d \in Workers, ClearSendFull(d) PROVE FALSE
      <4>1. pendingTOCBlockChan' = Append(pendingTOCBlockChan, tb[d])
        BY <3>1 DEF ClearSendFull
      <4>2. Len(pendingTOCBlockChan') = Len(pendingTOCBlockChan) + 1 /\ Len(pendingTOCBlockChan) \in Nat
        BY <1>1, <4>1, LastOfAppend
      <4> QED
        BY <2>1, <4>2
    <3> QED
      BY <3>1
  <2>3. CASE UNCHANGED tb
    BY <1>3, <2>1, <2>2, <2>3
  <2>4. CASE tb' = [tb EXCEPT ![c] = [file |-> blockFile[b],
                                      entries |-> Append(tb[c].entries, TOCEntryAt(c))]]
    <3>1. /\ tb'[c].file = blockFile[b] /\ tb'[c].entries = Append(tb[c].entries, TOCEntryAt(c))
          /\ \A d \in Workers \ {c} : tb'[d] = tb[d]
      BY <1>1, <2>4
    <3>2. tb[c].entries \in Seq(TOCEntry)
      BY <1>1 DEF TOCBlock
    <3>3. TOCEntryAt(c) \in TOCEntry
      BY <1>1, <1>8, EntryAtType DEF ClearEntry, TypeOK
    <3>4. CASE n \in DOMAIN files /\ Among(e, files[n].toc)
      BY <2>1, <3>4 DEF OnItsWay, Among
    <3>5. CASE \E i \in DOMAIN pendingTOCBlockChan :
                 pendingTOCBlockChan[i].file = n /\ Among(e, pendingTOCBlockChan[i].entries)
      BY <2>1, <3>5 DEF OnItsWay, Among
    <3>6. CASE \E d \in Workers : tb[d].file = n /\ Among(e, tb[d].entries)
      <4>1. PICK d \in Workers : tb[d].file = n /\ Among(e, tb[d].entries)
        BY <3>6
      <4>2. CASE d # c
        BY <3>1, <4>1, <4>2 DEF OnItsWay, Among
      <4>3. CASE d = c
        <5>1. tb[c] # NoTB
          BY <4>1, <4>3 DEF NoTB, Among
        <5>2. blockFile[b] = n
          BY <2>1, <4>1, <4>3, <5>1 DEF MustSend
        <5>3. \E i \in DOMAIN tb'[c].entries : tb'[c].entries[i] = e
          BY <3>1, <3>2, <3>3, <4>1, <4>3, AppendKeeps DEF Among
        <5> QED
          BY <3>1, <5>2, <5>3 DEF OnItsWay, Among
      <4> QED
        BY <4>2, <4>3
    <3>7. CASE \E d \in Workers : tbFull[d] /\ blockFile[clearing[d]] = n /\ TOCEntryAt(d) = e
      BY <2>2, <3>7, FullEntryStays DEF OnItsWay
    <3> QED
      BY <3>4, <3>5, <3>6, <3>7 DEF OnItsWay
  <2> QED
    BY <2>1, <2>3, <2>4
<1>9. CASE TOCBlockWritten \/ TOCMark
  <2> DEFINE t == Head(pendingTOCBlockChan)
  <2>1. /\ pendingTOCBlockChan # <<>> /\ pendingTOCBlockChan' = Tail(pendingTOCBlockChan)
        /\ UNCHANGED <<tb, clearing, tbFull>>
    BY <1>9 DEF TOCBlockWritten, TOCMark, clearerVars
  <2>2. \A d \in Workers : ~ClearSendFull(d)
    BY <1>1, <2>1 DEF ClearSendFull
  <2>3. 1 \in DOMAIN pendingTOCBlockChan /\ t = pendingTOCBlockChan[1]
    BY <1>1, <2>1, TailElems
  <2>4. CASE n \in DOMAIN files /\ Among(e, files[n].toc)
    <3>1. CASE TOCMark
      BY <2>4, <3>1 DEF TOCMark, fileVars, OnItsWay, Among
    <3>2. CASE TOCBlockWritten /\ t.file = n
      <4>1. /\ files'[n].toc = files[n].toc \o t.entries /\ DOMAIN files' = DOMAIN files
            /\ files[n].toc \in Seq(TOCEntry) /\ t.entries \in Seq(TOCEntry)
        BY <2>4, <3>2, TOCGrows
      <4>2. Among(e, files'[n].toc)
        BY <2>4, <4>1, AmongConcat
      <4> QED
        BY <2>4, <4>1, <4>2 DEF OnItsWay, Among
    <3>3. CASE TOCBlockWritten /\ t.file # n
      <4>1. n \in DOMAIN files' /\ files'[n] = files[n]
        BY <1>1, <2>4, <3>3 DEF TOCBlockWritten
      <4> QED
        BY <2>4, <4>1 DEF OnItsWay, Among
    <3> QED
      BY <1>9, <3>1, <3>2, <3>3
  <2>5. CASE \E i \in DOMAIN pendingTOCBlockChan :
               pendingTOCBlockChan[i].file = n /\ Among(e, pendingTOCBlockChan[i].entries)
    <3>1. PICK i \in DOMAIN pendingTOCBlockChan :
               pendingTOCBlockChan[i].file = n /\ Among(e, pendingTOCBlockChan[i].entries)
      BY <2>5
    <3>2. CASE i - 1 \in DOMAIN pendingTOCBlockChan' /\ pendingTOCBlockChan'[i - 1] = pendingTOCBlockChan[i]
      BY <3>1, <3>2 DEF OnItsWay, Among
    <3>3. CASE pendingTOCBlockChan[i] = t
      <4>1. n \in DOMAIN files /\ t.file = n /\ Among(e, t.entries)
        BY <2>3, <3>1, <3>3, BlockIsOfFile DEF TOCEntriesOK
      <4>2. n \notin Marks
        BY <1>1, <4>1, BlockFacts DEF Marks
      <4>3. TOCBlockWritten
        BY <1>9, <4>1, <4>2 DEF TOCMark
      <4>4. /\ files'[n].toc = files[n].toc \o t.entries /\ DOMAIN files' = DOMAIN files
            /\ files[n].toc \in Seq(TOCEntry) /\ t.entries \in Seq(TOCEntry)
        BY <4>1, <4>3, TOCGrows
      <4>5. Among(e, files'[n].toc)
        BY <4>1, <4>4, AmongConcat
      <4> QED
        BY <4>1, <4>4, <4>5 DEF OnItsWay, Among
    <3> QED
      BY <1>1, <2>1, <3>2, <3>3, TailKeeps
  <2>6. CASE \E d \in Workers : tb[d].file = n /\ Among(e, tb[d].entries)
    BY <2>1, <2>6 DEF OnItsWay, Among
  <2>7. CASE \E d \in Workers : tbFull[d] /\ blockFile[clearing[d]] = n /\ TOCEntryAt(d) = e
    BY <2>2, <2>7, FullEntryStays DEF OnItsWay
  <2> QED
    BY <2>4, <2>5, <2>6, <2>7 DEF OnItsWay
<1>10. CASE FileCreate
  <2>1. UNCHANGED <<pendingTOCBlockChan, tb, tbFull>>
    BY <1>10 DEF FileCreate, clearerVars
  <2>2. \A m \in DOMAIN files : m \in DOMAIN files' /\ files'[m].toc = files[m].toc
    <3> DEFINE f == [data |-> <<>>, synced |-> 0, toc |-> <<>>]
    <3>1. f \in FileRec /\ files' = Append(files, f)
      BY <1>10 DEF FileCreate, FileRec
    <3> HIDE DEF f
    <3> QED
      BY <1>1, <3>1, AppendKeeps
  <2>3. ~\E c \in Workers : ClearSendFull(c)
    BY <1>1, <2>1 DEF ClearSendFull
  <2> QED
    BY <1>3, <2>1, <2>2, <2>3
<1>11. CASE FileWrite \/ BufferWritten
  <2>1. UNCHANGED <<pendingTOCBlockChan, tb, tbFull>>
    BY <1>11 DEF FileWrite, BufferWritten, clearerVars
  <2>2. \A m \in DOMAIN files : m \in DOMAIN files' /\ files'[m].toc = files[m].toc
    <3>1. ASSUME NEW x, files' = [files EXCEPT ![fl].data = x]
          PROVE  \A m \in DOMAIN files : m \in DOMAIN files' /\ files'[m].toc = files[m].toc
      BY <1>1, <1>2, <3>1 DEF FileRec
    <3>2. ASSUME NEW x, files' = [files EXCEPT ![fl].synced = x]
          PROVE  \A m \in DOMAIN files : m \in DOMAIN files' /\ files'[m].toc = files[m].toc
      BY <1>1, <1>2, <3>2 DEF FileRec
    <3> QED
      BY <1>11, <3>1, <3>2 DEF FileWrite, BufferWritten
  <2>3. ~\E c \in Workers : ClearSendFull(c)
    BY <1>1, <2>1 DEF ClearSendFull
  <2> QED
    BY <1>3, <2>1, <2>2, <2>3
<1>12. ASSUME UNCHANGED <<pendingTOCBlockChan, tb, tbFull, files>> PROVE OnItsWay(n, e)'
  <2>1. ~\E c \in Workers : ClearSendFull(c)
    BY <1>1, <1>12 DEF ClearSendFull
  <2> QED
    BY <1>3, <1>12, <2>1
<1>13. ASSUME NEW w \in Workers,
             \/ (\E r \in Requests : MemReceive(w, r)) \/ MemSwitch(w) \/ MemWriter(w)
             \/ ClearReceive(w) \/ ClearFree(w)
       PROVE  OnItsWay(n, e)'
  BY <1>12, <1>13 DEF MemReceive, MemSwitch, MemWriter, MemReject, MemRotate, MemTake, MemStore, MemMark,
     ClearReceive, ClearFree, fileVars, clearerVars
<1>14. FileReceive \/ FileClosed \/ FileMark \/ TOCFlushed \/ Callers =>
         UNCHANGED <<pendingTOCBlockChan, tb, tbFull, files>>
  BY DEF FileReceive, FileClosed, FileMark, TOCFlushed, Callers, FlushStep, FlushCall, FlushSend,
     FlushReturn, ShutdownCall, ShutdownSend, ShutdownReturn, DiscardLocalRemoval, ReadGet, ReadMemBlock,
     ReadFile, ReadReturn, Idle, vars, fileVars, clearerVars
<1> QED
  BY <1>5, <1>6, <1>7, <1>8, <1>9, <1>10, <1>11, <1>12, <1>13, <1>14
  DEF Next, MemClearer, FileWriter, TOCWriter, Callers

\* The TOC entry of a key's location.
TOCEntryOf(k) == [key |-> k, ts |-> locmap[k].ts, off |-> locmap[k].off]

\* Tracked, with the file and the entry of each location given.
LEMMA TrackedWhen ==
  ASSUME \A k \in Keys : locmap'[k].id # 0 /\ locmap'[k].id \notin Blocks =>
           \E n, x : n = locmap'[k].id - NumBlocks /\ x = TOCEntryOf(k)' /\ OnItsWay(n, x)'
  PROVE  Tracked'
<1>1. SUFFICES ASSUME NEW k \in Keys, locmap'[k].id # 0, locmap'[k].id \notin Blocks
               PROVE  OnItsWay(locmap[k].id - NumBlocks, TOCEntryOf(k))'
  BY DEF Tracked, TOCEntryOf
<1>2. PICK n, x : n = locmap'[k].id - NumBlocks /\ x = TOCEntryOf(k)' /\ OnItsWay(n, x)'
  BY <1>1
<1> QED
  BY <1>2 DEF OnItsWay

\* A location that does not change stays tracked.
LEMMA StaysTracked ==
  ASSUME IInv, TOCEntriesOK, NoLateTOCBlock, Next, Tracked, NEW k \in Keys,
         locmap[k].id # 0, locmap[k].id \notin Blocks, locmap'[k] = locmap[k]
  PROVE  \E n, x : n = locmap'[k].id - NumBlocks /\ x = TOCEntryOf(k)' /\ OnItsWay(n, x)'
<1>1. PICK n, x : n = locmap[k].id - NumBlocks /\ x = TOCEntryOf(k)
  OBVIOUS
<1>2. OnItsWay(n, x)
  BY <1>1 DEF Tracked, TOCEntryOf
<1>3. x.off # 0
  <2>1. FileHas(n, locmap[k].off, [key |-> k, ts |-> locmap[k].ts])
    BY <1>1 DEF IInv, Content, LocationOK
  <2>2. n \in DOMAIN files /\ files \in Seq(FileRec)
    BY <2>1 DEF FileHas, IInv, TypeOK, TypeFile
  <2>3. files[n] \in FileRec
    BY <2>2
  <2>4. files[n].data \in Seq(Entry)
    BY <2>3 DEF FileRec
  <2> QED
    BY <1>1, <2>1, <2>4 DEF FileHas, TOCEntryOf
<1>4. OnItsWay(n, x)'
  BY <1>2, <1>3, OnItsWayKept
<1> QED
  BY <1>1, <1>4 DEF TOCEntryOf

\* A memClearer that moves a location to a file has the TOC entry in its TOC block
\* or at hand.
LEMMA TrackedByClearer ==
  ASSUME IInv, TOCEntriesOK, NoLateTOCBlock, Next, Tracked, NEW c \in Workers, ClearEntry(c)
  PROVE  Tracked'
<1> DEFINE b == clearing[c]
           e == TOCEntryAt(c)
           id == IF HasBit(e.ts, TSB_LOCAL_REMOVAL) THEN 0 ELSE FileID(blockFile[b])
<1>1. /\ TypeOK /\ tb \in [Workers -> TOCBlock] /\ tbFull \in [Workers -> BOOLEAN]
      /\ blockFile \in [Blocks -> Nat] /\ locmap \in Location(Keys, Nat)
  BY DEF IInv, TypeOK, TypeClearer, TypeFile, TypeMem
<1>2. e \in TOCEntry /\ b \in Blocks /\ blockFile[b] \in Nat /\ NumBlocks \in Nat
  BY <1>1, EntryAtType, BlockFacts DEF ClearEntry, TypeOK
<1>3. e.key \in Keys /\ e.ts \in Nat /\ e.off \in Nat
  BY <1>2 DEF TOCEntry
<1>4. locmap' = Set(locmap, e.key, e.ts, id, e.off, TRUE)
  BY DEF ClearEntry
<1>5. ASSUME locmap' # locmap, id # 0
      PROVE  /\ locmap'[e.key] = [ts |-> e.ts, id |-> FileID(blockFile[b]), off |-> e.off]
             /\ \E n, x : n = blockFile[b] /\ x = e /\ OnItsWay(n, x)'
  <2>1. locmap[e.key].ts <= e.ts /\ locmap' = [locmap EXCEPT ![e.key] = [ts |-> e.ts, id |-> id, off |-> e.off]]
    <3>1. locmap[e.key].ts \in Nat
      BY <1>1, <1>3 DEF Location
    <3>2. Wins(locmap[e.key], e.ts, TRUE)
      BY <1>4, <1>5 DEF Set
    <3>3. locmap[e.key].ts <= e.ts
      BY <1>3, <3>1, <3>2 DEF Wins
    <3> HIDE DEF e, id
    <3> QED
      BY <1>4, <1>5, <3>2, <3>3 DEF Set
  <2>2. ~(locmap[e.key].ts > e.ts)
    <3>1. locmap[e.key].ts \in Nat
      BY <1>1, <1>3 DEF Location
    <3> HIDE DEF e
    <3> QED
      BY <1>3, <2>1, <3>1
  <2>3. locmap'[e.key] = [ts |-> e.ts, id |-> FileID(blockFile[b]), off |-> e.off]
    <3> HIDE DEF e
    <3>1. locmap'[e.key] = [ts |-> e.ts, id |-> id, off |-> e.off]
      BY <1>1, <1>3, <2>1 DEF Location
    <3> QED
      BY <1>5, <3>1
  <2>4. \/ tbFull' = [tbFull EXCEPT ![c] = TRUE] /\ clearPos' = clearPos
        \/ tb' = [tb EXCEPT ![c] = [file |-> blockFile[b], entries |-> Append(tb[c].entries, e)]]
    BY <2>2 DEF ClearEntry
  <2>5. UNCHANGED <<mem, blockFile, blockOffset, clearing>>
    BY DEF ClearEntry, memVars, fileVars
  <2>6. PICK n, x : n = blockFile[b] /\ x = e
    OBVIOUS
  <2>7. CASE tbFull' = [tbFull EXCEPT ![c] = TRUE] /\ clearPos' = clearPos
    <3>1. tbFull'[c] /\ blockFile'[clearing'[c]] = n /\ TOCEntryAt(c)' = x
      BY <1>1, <2>5, <2>6, <2>7 DEF TOCEntryAt
    <3>2. OnItsWay(n, x)'
      BY <3>1 DEF OnItsWay
    <3> QED
      BY <2>3, <2>6, <3>2
  <2>8. CASE tb' = [tb EXCEPT ![c] = [file |-> blockFile[b], entries |-> Append(tb[c].entries, e)]]
    <3>1. tb'[c].file = n /\ tb'[c].entries = Append(tb[c].entries, x)
      BY <1>1, <2>6, <2>8
    <3>2. tb[c].entries \in Seq(TOCEntry)
      BY <1>1 DEF TOCBlock
    <3>3. Among(x, tb'[c].entries)
      BY <1>2, <2>6, <3>1, <3>2, AmongAppend
    <3>4. OnItsWay(n, x)'
      BY <3>1, <3>3 DEF OnItsWay, Among
    <3> QED
      BY <2>3, <2>6, <3>4
  <2> QED
    BY <2>4, <2>7, <2>8
<1>6. ASSUME NEW k \in Keys, locmap'[k].id # 0, locmap'[k].id \notin Blocks, locmap'[k] # locmap[k]
      PROVE  \E n, x : n = locmap'[k].id - NumBlocks /\ x = TOCEntryOf(k)' /\ OnItsWay(n, x)'
  <2>1. k = e.key /\ id # 0
    <3> HIDE DEF e, id
    <3> QED
      BY <1>1, <1>3, <1>4, <1>6 DEF Set, Location, Missing
  <2>2. locmap' # locmap
    BY <1>6
  <2>3. /\ locmap'[k] = [ts |-> e.ts, id |-> FileID(blockFile[b]), off |-> e.off]
        /\ \E n, x : n = blockFile[b] /\ x = e /\ OnItsWay(n, x)'
    BY <1>5, <2>1, <2>2
  <2>4. locmap'[k].id - NumBlocks = blockFile[b]
    BY <1>2, <2>3 DEF FileID
  <2>5. TOCEntryOf(k)' = e
    BY <1>2, <2>1, <2>3 DEF TOCEntryOf, TOCEntry
  <2> HIDE DEF b, e
  <2> QED
    BY <2>3, <2>4, <2>5
<1> QED
  BY <1>6, TrackedWhen, StaysTracked

\* Only a memClearer moves a location to a file.
LEMMA TrackedStep ==
  ASSUME IInv, TOCEntriesOK, NoLateTOCBlock, Next, Tracked
  PROVE  Tracked'
<1>1. locmap \in Location(Keys, Nat)
  BY DEF IInv, TypeOK, TypeMem
<1>2. ASSUME \A k \in Keys : locmap'[k] = locmap[k] \/ locmap'[k].id = 0 \/ locmap'[k].id \in Blocks
      PROVE  Tracked'
  BY <1>2, TrackedWhen, StaysTracked
<1>3. ASSUME NEW w \in Workers, MemStore(w) PROVE Tracked'
  <2>1. req[w].key \in Keys /\ memBlock[w] \in Blocks
    BY <1>3, RequestsAssumption
    DEF IInv, TypeOK, TypeWriter, MemStore, Request, NoReq, FlushReq, ShutdownReq, StoppedReq
  <2>2. \E ts, off, same : locmap' = Set(locmap, req[w].key, ts, memBlock[w], off, same)
    BY <1>3 DEF MemStore
  <2>3. \A k \in Keys : locmap'[k] = locmap[k] \/ locmap'[k].id = 0 \/ locmap'[k].id \in Blocks
    BY <1>1, <2>1, <2>2 DEF Set, Location, Missing
  <2> QED
    BY <1>2, <2>3
<1>4. CASE ShutdownReturn
  BY <1>2, <1>4 DEF ShutdownReturn, Missing
<1>5. CASE \E k \in Keys : DiscardLocalRemoval(k)
  BY <1>1, <1>2, <1>5 DEF DiscardLocalRemoval, Missing, Location
<1>6. CASE UNCHANGED locmap
  BY <1>2, <1>6
<1>7. ASSUME NEW w \in Workers,
             \/ (\E r \in Requests : MemReceive(w, r)) \/ MemSwitch(w) \/ MemReject(w) \/ MemRotate(w)
             \/ MemTake(w) \/ MemMark(w) \/ ClearReceive(w) \/ ClearSendTOC(w) \/ ClearSendFull(w)
             \/ ClearFree(w) \/ ClearMark(w)
      PROVE  UNCHANGED locmap
  BY <1>7 DEF MemReceive, MemSwitch, MemReject, MemRotate, MemTake, MemMark, ClearReceive, ClearSendTOC,
     ClearSendFull, ClearFree, ClearMark
<1>8. FileWriter \/ BufferWritten \/ TOCWriter => UNCHANGED locmap
  BY DEF FileWriter, FileReceive, FileClosed, FileCreate, FileWrite, FileMark, BufferWritten, TOCWriter,
     TOCBlockWritten, TOCMark, TOCFlushed
<1>9. Callers /\ ~ShutdownReturn /\ ~(\E k \in Keys : DiscardLocalRemoval(k)) => UNCHANGED locmap
  BY DEF Callers, FlushStep, FlushCall, FlushSend, FlushReturn, ShutdownCall, ShutdownSend, ReadGet,
     ReadMemBlock, ReadFile, ReadReturn, Idle, vars
<1> QED
  BY <1>3, <1>4, <1>5, <1>6, <1>7, <1>8, <1>9, TrackedByClearer
  DEF Next, MemWriter, MemClearer, Callers

-----------------------------------------------------------------------------
(* Shutdown is durable *)

LEMMA StopInit == Init => StopInv
<1> SUFFICES ASSUME Init PROVE StopInv
  OBVIOUS
<1>1. NumWorkers \in Nat \ {0} /\ \A w \in Workers : w \in Nat /\ w <= NumWorkers
  BY WorkersAssumption DEF Workers
<1>2. /\ \A m : Where(m, fileMemBlockChan) = {} /\ BlocksOf(m, pendingTOCBlockChan) = {}
      /\ Cardinality({}) = 0
  BY FS_EmptySet DEF Init, Where, BlocksOf
<1>3. /\ 0 \notin Marks /\ ShutdownMark # 0 /\ ShutdownMark \in Marks /\ NoReq # StoppedReq
  BY BlockFacts DEF Marks, NoReq, StoppedReq
<1>4. SyncOK
  BY DEF Init, SyncOK
<1>5. WritersStop
  <2>1. {w \in Workers : req[w] # StoppedReq} = Workers
    BY <1>3 DEF Init
  <2>2. memWritersShutdownLeft = NumWorkers
    BY DEF Init, ShutdownParties
  <2>3. memWritersShutdownLeft = Cardinality({w \in Workers : req[w] # StoppedReq})
                                 + Cardinality(Where(ShutdownMark, fileMemBlockChan))
    BY <1>1, <1>2, <2>1, <2>2, AllWorkersCount
  <2> QED
    BY <1>3, <2>3 DEF Init, WritersStop
<1>6. memWritersShutdownLeft # 0 /\ \A c \in Workers : ~ShutdownSent(c)
  BY <1>1 DEF Init, ShutdownParties, ShutdownSent
<1>7. FileWriterStops
  BY <1>3, <1>6 DEF Init, FileWriterStops
<1>8. ClearersStop
  BY <1>3, <1>6 DEF Init, ClearersStop, ClearerStops, ShutdownPassed
<1>9. TBFiles
  BY DEF Init, TBFiles, NoTB
<1>10. TOCWriterStops
  <2>1. {c \in Workers : ~ShutdownPassed(c)} = Workers
    BY <1>6 DEF ShutdownPassed
  <2>2. memClearersShutdownLeft = NumWorkers
    BY DEF Init, ShutdownParties
  <2>3. memClearersShutdownLeft = Cardinality({c \in Workers : ~ShutdownPassed(c)})
                                  + Cardinality(BlocksOf(ShutdownMark, pendingTOCBlockChan))
    BY <1>1, <1>2, <2>1, <2>2, AllWorkersCount
  <2> QED
    BY <2>3 DEF Init, TOCWriterStops
<1> QED
  BY <1>4, <1>5, <1>7, <1>8, <1>9, <1>10 DEF StopInv

LEMMA StopStutter == ASSUME StopInv, UNCHANGED vars PROVE StopInv'
<1>1. UNCHANGED <<memVars, writerVars, fileMemBlockChan, fileVars, freeableMemBlockChans, clearerVars,
                  pendingTOCBlockChan, tocVars>>
  BY DEF vars
<1>2. SyncOK'
  BY <1>1, SyncFrame DEF StopInv, fileVars
<1>3. WritersStop'
  BY <1>1, WritersStopStays DEF StopInv, fileVars, memVars, writerVars
<1>4. FileWriterStops'
  BY <1>1, FileWriterStopsFrame DEF StopInv, fileVars
<1>5. \A c \in Workers : ShutdownSent(c)' <=> ShutdownSent(c)
  BY <1>1 DEF ShutdownSent, fileVars
<1>6. ClearersStop'
  BY <1>1, <1>5, ClearerStopsFrame DEF StopInv, ClearersStop, clearerVars
<1>7. TBFiles'
  BY <1>1 DEF StopInv, TBFiles, clearerVars
<1>8. \A c \in Workers : ShutdownPassed(c)' <=> ShutdownPassed(c)
  BY <1>1, <1>5 DEF ShutdownPassed, clearerVars
<1>9. TOCWriterStops'
  <2>1. /\ UNCHANGED <<pendingTOCBlockChan, memClearersShutdownLeft>>
        /\ shutdownChan' = 1 => memClearersShutdownLeft = 0 /\ activeTOCA' = 0 /\ activeTOCB' = 0
    BY <1>1 DEF StopInv, TOCWriterStops, tocVars
  <2> QED
    BY <1>8, <2>1, TOCStopsFrame DEF StopInv
<1> QED
  BY <1>2, <1>3, <1>4, <1>6, <1>7, <1>9 DEF StopInv

\* The marks of Shutdown go through the write path in order.
LEMMA StopAlways == Spec => []StopInv
<1>1. IInv /\ StopInv /\ Next => StopInv'
  BY SyncStep, WritersStopStep, FileWriterStopsStep, ClearersStopStep, TBFilesStep, TOCWriterStopsStep
  DEF StopInv, IInv
<1>2. IInv /\ StopInv /\ [Next]_vars => StopInv'
  BY <1>1, StopStutter
<1> QED
  BY <1>2, StopInit, InvAlways, PTL DEF Spec

LEMMA TrackedAlways == Spec /\ []NoLateTOCBlock => []Tracked
<1>1. Init => Tracked
  BY DEF Init, Tracked, Missing
<1>2. ASSUME Tracked, UNCHANGED vars PROVE Tracked'
  <2>1. UNCHANGED <<locmap, files, pendingTOCBlockChan, tb, tbFull, clearing, clearPos, mem, blockFile,
                    blockOffset>>
    BY <1>2 DEF vars, memVars, fileVars, clearerVars
  <2>2. ASSUME NEW k \in Keys, locmap'[k].id # 0, locmap'[k].id \notin Blocks
        PROVE  \E n, x : n = locmap'[k].id - NumBlocks /\ x = TOCEntryOf(k)' /\ OnItsWay(n, x)'
    <3>1. PICK n, x : n = locmap[k].id - NumBlocks /\ x = TOCEntryOf(k)
      OBVIOUS
    <3>2. OnItsWay(n, x)
      BY <1>2, <2>1, <2>2, <3>1 DEF Tracked, TOCEntryOf
    <3>3. \A c \in Workers : TOCEntryAt(c)' = TOCEntryAt(c)
      BY <2>1 DEF TOCEntryAt
    <3>4. OnItsWay(n, x)'
      BY <2>1, <3>2, <3>3, OnItsWayFrame
    <3> QED
      BY <2>1, <3>1, <3>4 DEF TOCEntryOf
  <2> QED
    BY <2>2, TrackedWhen
<1>3. IInv /\ TOCEntriesOK /\ NoLateTOCBlock /\ Tracked /\ [Next]_vars => Tracked'
  BY <1>2, TrackedStep
<1> QED
  BY <1>1, <1>3, InvAlways, TOCEntriesAlways, PTL DEF Spec

\* When shutdownChan is signalled the write path is empty.
LEMMA NothingLeft ==
  ASSUME IInv, StopInv, shutdownChan = 1
  PROVE  /\ \A w \in Workers : /\ req[w] = StoppedReq
                               /\ memBlock[w] # 0 => mem[memBlock[w]] = <<>>
                               /\ freeableMemBlockChans[w] = <<>> /\ clearing[w] = 0
                               /\ tb[w] = NoTB
         /\ fileMemBlockChan = <<>> /\ inHand = 0 /\ fl = 0 /\ unwritten = <<>>
         /\ pendingTOCBlockChan = <<>> /\ activeTOCA = 0 /\ activeTOCB = 0
<1>1. TypeOK /\ SyncOK /\ WritersStop /\ FileWriterStops /\ ClearersStop /\ TOCWriterStops
  BY DEF IInv, StopInv
<1>2. memClearersShutdownLeft = 0 /\ activeTOCA = 0 /\ activeTOCB = 0
  BY <1>1 DEF TOCWriterStops
<1>3. (\A c \in Workers : ShutdownPassed(c)) /\ pendingTOCBlockChan = <<>>
  BY <1>1, <1>2, ClearersLeftFacts
<1>4. 1 \in Workers /\ NumWorkers \in Nat /\ markNext \in Nat /\ markNext < NumWorkers
  BY <1>1, WorkersAssumption DEF Workers, TypeOK, TypeFile
<1>5. memWritersShutdownLeft = 0 /\ inHand = 0
  BY <1>3, <1>4 DEF ShutdownPassed, ShutdownSent
<1>6. (\A w \in Workers : req[w] = StoppedReq) /\ fileMemBlockChan = <<>>
  BY <1>1, <1>5, ShutdownLeftFacts
<1>7. fl = 0 /\ unwritten = <<>>
  BY <1>1, <1>5 DEF FileWriterStops, SyncOK
<1>8. \A w \in Workers : memBlock[w] # 0 => mem[memBlock[w]] = <<>>
  BY <1>1, <1>6 DEF WritersStop
<1>9. \A c \in Workers : freeableMemBlockChans[c] = <<>> /\ clearing[c] = 0 /\ tb[c] = NoTB
  BY <1>1, <1>3 DEF ShutdownPassed, ClearersStop, ClearerStops
<1> QED
  BY <1>2, <1>3, <1>5, <1>6, <1>7, <1>8, <1>9

LEMMA ShutdownLeavesAll ==
  ASSUME IInv, StopInv, Tracked, NoneLost
  PROVE  ShutdownWritesToDisk
<1> SUFFICES ASSUME shutdownChan = 1, NEW k \in Keys, locmap[k].id # 0
             PROVE  Recoverable(k, locmap[k].ts)
  BY DEF ShutdownWritesToDisk
<1>1. /\ LocationOK(k) /\ AtEntry /\ BeforeFile /\ files \in Seq(FileRec) /\ locmap \in Location(Keys, Nat)
      /\ freeMemBlockChan \in Seq(Blocks)
  BY DEF IInv, Content, TypeOK, TypeFile, TypeMem
<1>2. locmap[k].id \notin Blocks
  <2>1. SUFFICES ASSUME locmap[k].id \in Blocks PROVE FALSE
    OBVIOUS
  <2>2. PICK b \in Blocks : b = locmap[k].id
    BY <2>1
  <2>3. mem[b] # <<>> /\ b # 0
    BY <1>1, <2>2, BlockFacts DEF LocationOK
  <2>4. Somewhere(b)
    BY DEF NoneLost
  <2>5. ~\E i \in DOMAIN freeMemBlockChan : freeMemBlockChan[i] = b
    BY <1>1, <2>3 DEF BeforeFile
  <2> QED
    BY <2>3, <2>4, <2>5, NothingLeft DEF Somewhere, Released
<1>3. PICK n, e : n = locmap[k].id - NumBlocks /\ e = TOCEntryOf(k)
  OBVIOUS
<1>4. FileHas(n, locmap[k].off, [key |-> k, ts |-> locmap[k].ts])
  BY <1>1, <1>2, <1>3 DEF LocationOK
<1>5. OnItsWay(n, e)
  BY <1>2, <1>3 DEF Tracked, TOCEntryOf
<1>6. n \in DOMAIN files /\ Among(e, files[n].toc)
  <2>1. \A c \in Workers : ~Among(e, tb[c].entries)
    BY NothingLeft DEF NoTB, Among
  <2>2. \A c \in Workers : ~tbFull[c]
    BY <1>1, NothingLeft, BlockFacts DEF AtEntry
  <2> QED
    BY <1>5, <2>1, <2>2, NothingLeft DEF OnItsWay
<1>7. files[n].data \in Seq(Entry) /\ n # 0 /\ n \in Nat
  <2>1. files[n] \in FileRec /\ n # 0 /\ n \in Nat
    BY <1>1, <1>6
  <2> QED
    BY <2>1 DEF FileRec
<1>8. locmap[k].off # 0 /\ locmap[k].off <= files[n].synced
  <2>1. files[n].synced = Len(files[n].data)
    BY <1>6, <1>7, NothingLeft DEF StopInv, SyncOK
  <2> QED
    BY <1>4, <1>7, <2>1 DEF FileHas
<1>9. e.key = k /\ e.ts = locmap[k].ts /\ e.off = locmap[k].off /\ e.ts \in Nat
  BY <1>1, <1>3 DEF TOCEntryOf, Location
<1>10. n \notin {activeTOCA, activeTOCB}
  BY <1>7, NothingLeft
<1>11. PICK i \in DOMAIN files[n].toc : files[n].toc[i] = e
  BY <1>6 DEF Among
<1>12. locmap[k].ts >= locmap[k].ts
  BY <1>9
<1> QED
  BY <1>6, <1>8, <1>9, <1>10, <1>11, <1>12 DEF Recoverable

\* When Shutdown is told that it is done, everything that the location map knows
\* is in a closed TOC and on disk, the values that compaction and replication
\* wrote while it waited included: every goroutine has stopped behind the mark,
\* and the TOC entry of each location has arrived.  The tocWriter's assumption,
\* that no TOC block comes for a closed TOC (valuestore 893-896), is a hypothesis.
THEOREM ShutdownIsDurable == Spec /\ []NoLateTOCBlock => []ShutdownWritesToDisk
BY ShutdownLeavesAll, InvAlways, StopAlways, TrackedAlways, NoneLostAlways, PTL
=============================================================================
