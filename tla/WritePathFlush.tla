--------------------------- MODULE WritePathFlush ---------------------------
(* Proof that what the location map knows when Flush is called is on disk when *)
(* Flush returns, or something newer of the key has come since, for any number *)
(* of workers, pages, keys and writes; one caller of Flush at a time.  And     *)
(* that with one worker no TOC block comes after the TOC of its file has been  *)
(* closed, which both durability theorems have as a hypothesis.                *)
EXTENDS WritePathProofs

-----------------------------------------------------------------------------
(* Where the marks of the Flush are *)

\* A mark is in a channel after a send, or a receive.
LEMMA WhereSend ==
  ASSUME NEW S, NEW s \in Seq(S), NEW x \in S, NEW m
  PROVE  /\ Where(m, Append(s, x)) = IF x = m THEN Where(m, s) \cup {Len(s) + 1} ELSE Where(m, s)
         /\ \A i \in Where(m, s) : i \in Nat /\ i <= Len(s)
BY AppendElems, AppendKeeps DEF Where

LEMMA WhereReceive ==
  ASSUME NEW S, NEW s \in Seq(S), s # <<>>, NEW m
  PROVE  /\ \A i : i \in Where(m, Tail(s)) <=> i \in 1..(Len(s) - 1) /\ i + 1 \in Where(m, s)
         /\ 1 \in Where(m, s) <=> Head(s) = m
         /\ \A i \in Where(m, s) : i \in 1..Len(s) /\ (i = 1 \/ i - 1 \in Where(m, Tail(s)))
<1>1. Len(s) \in Nat /\ DOMAIN s = 1..Len(s) /\ DOMAIN Tail(s) = 1..(Len(s) - 1)
  BY TailElems
<1>2. \A i : i \in Where(m, Tail(s)) <=> i \in 1..(Len(s) - 1) /\ i + 1 \in Where(m, s)
  BY <1>1, TailElems DEF Where
<1>3. 1 \in Where(m, s) <=> Head(s) = m
  BY TailElems DEF Where
<1>4. \A i \in Where(m, s) : i \in 1..Len(s)
  BY <1>1 DEF Where
<1> QED
  BY <1>1, <1>2, <1>3, <1>4

\* The same for the channel of the tocWriter.
LEMMA BlocksOfSend ==
  ASSUME NEW s \in Seq(TOCBlock), NEW x \in TOCBlock, NEW m
  PROVE  /\ BlocksOf(m, Append(s, x))
              = IF x.file = m THEN BlocksOf(m, s) \cup {Len(s) + 1} ELSE BlocksOf(m, s)
         /\ \A i \in BlocksOf(m, s) : i \in Nat /\ i <= Len(s)
BY AppendElems, AppendKeeps DEF BlocksOf

LEMMA BlocksOfReceive ==
  ASSUME NEW s \in Seq(TOCBlock), s # <<>>, NEW m
  PROVE  /\ \A i : i \in BlocksOf(m, Tail(s)) <=> i \in 1..(Len(s) - 1) /\ i + 1 \in BlocksOf(m, s)
         /\ 1 \in BlocksOf(m, s) <=> Head(s).file = m
         /\ \A i \in BlocksOf(m, s) : i \in 1..Len(s) /\ (i = 1 \/ i - 1 \in BlocksOf(m, Tail(s)))
<1>1. Len(s) \in Nat /\ DOMAIN s = 1..Len(s) /\ DOMAIN Tail(s) = 1..(Len(s) - 1)
  BY TailElems
<1>2. \A i : i \in BlocksOf(m, Tail(s)) <=> i \in 1..(Len(s) - 1) /\ i + 1 \in BlocksOf(m, s)
  BY <1>1, TailElems DEF BlocksOf
<1>3. 1 \in BlocksOf(m, s) <=> Head(s).file = m
  BY TailElems DEF BlocksOf
<1>4. \A i \in BlocksOf(m, s) : i \in 1..Len(s)
  BY <1>1 DEF BlocksOf
<1> QED
  BY <1>1, <1>2, <1>3, <1>4

\* The invariant of the marks.
FlushMarks(p) == OneMarkEach(p) /\ FileCountdown(p) /\ TOCCountdown(p)

\* The facts about one Flush that the steps below start from.
FlushState(p) == /\ OneFlusher
                 /\ IInv
                 /\ StopInv
                 /\ FlushMarks(p)

\* Which requests a memWriter may go from and to.
LEMMA ReqStep ==
  ASSUME TypeOK, Next, NEW w \in Workers
  PROVE  \/ req'[w] = FlushReq <=> req[w] = FlushReq
         \/ MemMark(w) /\ req[w] = FlushReq /\ req'[w] = NoReq
         \/ \E q \in Flushers : FlushSend(q) /\ flushPC[q] = w /\ req[w] = NoReq /\ req'[w] = FlushReq
<1>1. req \in [Workers -> Requests \cup {NoReq, FlushReq, ShutdownReq, StoppedReq}]
  BY DEF TypeOK, TypeWriter
<1>2. /\ NoReq # FlushReq /\ ShutdownReq # FlushReq /\ StoppedReq # FlushReq
      /\ req[w].op = "write" => req[w] # FlushReq
      /\ \A r \in Requests : r # FlushReq
  BY RequestFacts
<1>3. ASSUME NEW v \in Workers, NEW r \in Requests, MemReceive(v, r)
      PROVE  req'[w] = FlushReq <=> req[w] = FlushReq
  BY <1>1, <1>2, <1>3 DEF MemReceive
<1>4. ASSUME NEW v \in Workers, MemReject(v) \/ MemStore(v)
      PROVE  req'[w] = FlushReq <=> req[w] = FlushReq
  BY <1>1, <1>2, <1>4 DEF MemReject, MemStore
<1>5. ASSUME NEW v \in Workers, MemMark(v)
      PROVE  \/ req'[w] = FlushReq <=> req[w] = FlushReq
             \/ MemMark(w) /\ req[w] = FlushReq /\ req'[w] = NoReq
  BY <1>1, <1>2, <1>5 DEF MemMark
<1>6. ASSUME NEW q \in Flushers, FlushSend(q)
      PROVE  \/ req'[w] = FlushReq <=> req[w] = FlushReq
             \/ FlushSend(q) /\ flushPC[q] = w /\ req[w] = NoReq /\ req'[w] = FlushReq
  BY <1>1, <1>2, <1>6 DEF FlushSend
<1>7. CASE ShutdownSend
  <2>1. \/ UNCHANGED req
        \/ \E v : req[v] = NoReq /\ req' = [req EXCEPT ![v] = ShutdownReq]
    BY <1>7 DEF ShutdownSend
  <2> QED
    BY <1>1, <1>2, <2>1
<1>8. ASSUME NEW v \in Workers, MemSwitch(v) \/ MemRotate(v) \/ MemTake(v) \/ MemClearer(v)
      PROVE  UNCHANGED req
  BY <1>8 DEF MemSwitch, MemRotate, MemTake, MemClearer, ClearReceive, ClearSendTOC, ClearEntry,
     ClearSendFull, ClearFree, ClearMark, writerVars
<1>9. FileWriter \/ BufferWritten \/ TOCWriter => UNCHANGED req
  BY DEF FileWriter, FileReceive, FileClosed, FileCreate, FileWrite, FileMark, BufferWritten, TOCWriter,
     TOCBlockWritten, TOCMark, TOCFlushed, writerVars
<1>10. Callers /\ ~ShutdownSend /\ ~(\E q \in Flushers : FlushSend(q)) => UNCHANGED req
  BY DEF Callers, FlushStep, FlushCall, FlushReturn, ShutdownCall, ShutdownReturn, DiscardLocalRemoval,
     ReadGet, ReadMemBlock, ReadFile, ReadReturn, Idle, vars, writerVars
<1> QED
  BY <1>3, <1>4, <1>5, <1>6, <1>7, <1>8, <1>9, <1>10 DEF Next, MemWriter, Callers

\* How a Flush proceeds.
LEMMA FlushPCStep ==
  ASSUME TypeOK, OneFlusher, NEW p \in Flushers, Next
  PROVE  \/ FlushCall(p)
         \/ FlushSend(p) /\ flushPC'[p] = flushPC[p] + 1
         \/ FlushReturn(p) /\ flushPC'[p] = 0
         \/ flushPC' = flushPC
<1>1. flushPC \in [Flushers -> 0..(NumWorkers + 1)]
  BY DEF TypeOK, TypeCaller
<1>2. \A q \in Flushers : q = p
  BY DEF OneFlusher
<1>3. FlushSend(p) => flushPC'[p] = flushPC[p] + 1
  BY <1>1 DEF FlushSend
<1>4. FlushReturn(p) => flushPC'[p] = 0
  BY <1>1 DEF FlushReturn
<1>5. ASSUME NEW v \in Workers,
             (\E r \in Requests : MemReceive(v, r)) \/ MemSwitch(v) \/ MemWriter(v) \/ MemClearer(v)
      PROVE  UNCHANGED flushPC
  BY <1>5 DEF MemReceive, MemSwitch, MemWriter, MemReject, MemRotate, MemTake, MemStore, MemMark, MemClearer,
     ClearReceive, ClearSendTOC, ClearEntry, ClearSendFull, ClearFree, ClearMark, callerVars
<1>6. FileWriter \/ BufferWritten \/ TOCWriter => UNCHANGED flushPC
  BY DEF FileWriter, FileReceive, FileClosed, FileCreate, FileWrite, FileMark, BufferWritten, TOCWriter,
     TOCBlockWritten, TOCMark, TOCFlushed, callerVars
<1>7. Callers /\ ~(\E q \in Flushers : FlushCall(q) \/ FlushStep(q)) => UNCHANGED flushPC
  BY DEF Callers, ShutdownCall, ShutdownSend, ShutdownReturn, DiscardLocalRemoval,
     ReadGet, ReadMemBlock, ReadFile, ReadReturn, Idle, vars, callerVars
<1>8. \A q \in Flushers : FlushCall(q) \/ FlushStep(q) => FlushCall(p) \/ FlushSend(p) \/ FlushReturn(p)
  BY <1>2 DEF FlushStep
<1> QED
  BY <1>3, <1>4, <1>5, <1>6, <1>7, <1>8 DEF Next, Callers

\* A memWriter has its mark to pass on until it does.
LEMMA MarkDueStep ==
  ASSUME NEW p \in Flushers, FlushState(p), Next, ~FlushCall(p), NEW w \in Workers,
         ~(MemMark(w) /\ req[w] = FlushReq)
  PROVE  MarkDue(p, w)' <=> MarkDue(p, w)
<1>1. TypeOK /\ OneFlusher
  BY DEF FlushState, IInv
<1>2. flushPC \in [Flushers -> 0..(NumWorkers + 1)] /\ NumWorkers \in Nat
      /\ w \in Nat /\ w >= 1 /\ w <= NumWorkers
  BY <1>1, WorkersAssumption DEF TypeOK, TypeCaller, Workers
<1>3. CASE FlushSend(p) /\ flushPC'[p] = flushPC[p] + 1
  <2>1. req' = [req EXCEPT ![flushPC[p]] = FlushReq] /\ flushPC[p] \in Workers
        /\ req \in [Workers -> Requests \cup {NoReq, FlushReq, ShutdownReq, StoppedReq}]
    BY <1>1, <1>3 DEF FlushSend, TypeOK, TypeWriter
  <2>2. CASE w = flushPC[p]
    <3>1. req'[w] = FlushReq /\ flushPC[p] \in 1..w
      BY <1>2, <2>1, <2>2
    <3> QED
      BY <3>1 DEF MarkDue
  <2>3. CASE w # flushPC[p]
    <3>1. req'[w] = req[w]
      BY <2>1, <2>3
    <3>2. flushPC'[p] \in 1..w <=> flushPC[p] \in 1..w
      BY <1>2, <1>3, <2>1, <2>3 DEF Workers
    <3> QED
      BY <3>1, <3>2 DEF MarkDue
  <2> QED
    BY <2>2, <2>3
<1>4. CASE ~FlushSend(p)
  <2>1. req'[w] = FlushReq <=> req[w] = FlushReq
    BY <1>1, <1>4, ReqStep DEF OneFlusher
  <2>2. flushPC'[p] \in 1..w <=> flushPC[p] \in 1..w
    <3>1. CASE FlushReturn(p) /\ flushPC'[p] = 0
      BY <1>2, <3>1 DEF FlushReturn
    <3>2. CASE flushPC' = flushPC
      BY <3>2
    <3> QED
      BY <1>1, <1>4, <3>1, <3>2, FlushPCStep
  <2> QED
    BY <2>1, <2>2 DEF MarkDue
<1>5. ~FlushSend(p) \/ flushPC'[p] = flushPC[p] + 1
  BY <1>2 DEF FlushSend
<1> QED
  BY <1>3, <1>4, <1>5

\* And then no longer.
LEMMA MarkDueSent ==
  ASSUME NEW p \in Flushers, FlushState(p), Next, NEW w \in Workers, MemMark(w), req[w] = FlushReq
  PROVE  MarkDue(p, w) /\ ~MarkDue(p, w)'
<1>1. TypeOK
  BY DEF FlushState, IInv
<1>2. flushPC[p] > w /\ w \in Nat /\ flushPC[p] \in Nat
  BY <1>1, WorkersAssumption DEF FlushState, FlushMarks, OneMarkEach, TypeOK, TypeCaller, Workers
<1>3. UNCHANGED flushPC
  BY DEF MemMark, callerVars
<1>4. req'[w] # FlushReq
  BY <1>1, RequestFacts DEF MemMark, TypeOK, TypeWriter
<1> QED
  BY <1>2, <1>3, <1>4 DEF MarkDue

\* What is sent to the fileWriter.
LEMMA QueueStep ==
  ASSUME TypeOK, Next
  PROVE  \/ UNCHANGED fileMemBlockChan
         \/ FileReceive
         \/ \E w \in Workers, x \in Blocks \cup Marks :
              /\ fileMemBlockChan' = Append(fileMemBlockChan, x)
              /\ \/ MemRotate(w) /\ x = memBlock[w] /\ x # FlushMark
                 \/ MemMark(w) /\ req[w] = FlushReq /\ x = FlushMark
                 \/ MemMark(w) /\ req[w] # FlushReq /\ x = ShutdownMark
<1>1. ASSUME NEW w \in Workers, MemRotate(w)
      PROVE  \E x \in Blocks \cup Marks : /\ fileMemBlockChan' = Append(fileMemBlockChan, x)
                                          /\ x = memBlock[w] /\ x # FlushMark
  BY <1>1, BlockFacts DEF MemRotate, TypeOK, TypeWriter, Marks
<1>2. ASSUME NEW w \in Workers, MemMark(w)
      PROVE  \E x \in Blocks \cup Marks : /\ fileMemBlockChan' = Append(fileMemBlockChan, x)
                                          /\ \/ req[w] = FlushReq /\ x = FlushMark
                                             \/ req[w] # FlushReq /\ x = ShutdownMark
  <2>1. CASE req[w] = FlushReq
    BY <1>2, <2>1, RequestFacts DEF MemMark, Marks
  <2>2. CASE req[w] # FlushReq
    BY <1>2, <2>2 DEF MemMark, Marks
  <2> QED
    BY <2>1, <2>2
<1>3. ASSUME NEW w \in Workers,
             \/ (\E r \in Requests : MemReceive(w, r)) \/ MemSwitch(w) \/ MemReject(w) \/ MemTake(w)
             \/ MemStore(w) \/ MemClearer(w)
      PROVE  UNCHANGED fileMemBlockChan
  BY <1>3 DEF MemReceive, MemSwitch, MemReject, MemTake, MemStore, MemClearer, ClearReceive, ClearSendTOC,
     ClearEntry, ClearSendFull, ClearFree, ClearMark
<1>4. FileClosed \/ FileCreate \/ FileWrite \/ FileMark \/ BufferWritten \/ TOCWriter \/ Callers =>
        UNCHANGED fileMemBlockChan
  BY DEF FileClosed, FileCreate, FileWrite, FileMark, BufferWritten, TOCWriter, TOCBlockWritten, TOCMark,
     TOCFlushed, Callers, FlushStep, FlushCall, FlushSend, FlushReturn, ShutdownCall, ShutdownSend,
     ShutdownReturn, DiscardLocalRemoval, ReadGet, ReadMemBlock, ReadFile, ReadReturn, Idle, vars
<1> QED
  BY <1>1, <1>2, <1>3, <1>4 DEF Next, MemWriter, FileWriter, Callers

\* What the fileWriter has in hand.
LEMMA InHandStep ==
  ASSUME Next
  PROVE  UNCHANGED <<inHand, markNext, memWritersFlushLeft>> \/ FileReceive \/ FileWrite \/ FileMark
<1>1. ASSUME NEW w \in Workers,
             (\E r \in Requests : MemReceive(w, r)) \/ MemSwitch(w) \/ MemWriter(w) \/ MemClearer(w)
      PROVE  UNCHANGED <<inHand, markNext, memWritersFlushLeft>>
  BY <1>1 DEF MemReceive, MemSwitch, MemWriter, MemReject, MemRotate, MemTake, MemStore, MemMark, MemClearer,
     ClearReceive, ClearSendTOC, ClearEntry, ClearSendFull, ClearFree, ClearMark, fileVars
<1>2. FileClosed \/ FileCreate \/ BufferWritten \/ TOCWriter \/ Callers =>
        UNCHANGED <<inHand, markNext, memWritersFlushLeft>>
  BY DEF FileClosed, FileCreate, BufferWritten, TOCWriter, TOCBlockWritten, TOCMark, TOCFlushed, Callers,
     FlushStep, FlushCall, FlushSend, FlushReturn, ShutdownCall, ShutdownSend, ShutdownReturn,
     DiscardLocalRemoval, ReadGet, ReadMemBlock, ReadFile, ReadReturn, Idle, vars, fileVars
<1> QED
  BY <1>1, <1>2 DEF Next, FileWriter, Callers

\* The marks that the countdown of the fileWriter is about.
LEMMA FileCount ==
  ASSUME NEW p \in Flushers, FlushState(p)
  PROVE  LET D == {w \in Workers : MarkDue(p, w)}
             W == Where(FlushMark, fileMemBlockChan) IN
         /\ Cardinality(D) \in Nat /\ Cardinality(W) \in Nat
         /\ Cardinality(D) = 0 <=> \A w \in Workers : ~MarkDue(p, w)
         /\ Cardinality(W) = 0 <=> W = {}
         /\ FlushAtFile(p) => memWritersFlushLeft = Cardinality(D) + Cardinality(W)
         /\ ~FlushAtFile(p) => /\ memWritersFlushLeft = NumWorkers
                               /\ \A w \in Workers : ~MarkDue(p, w)
                               /\ W = {}
         /\ inHand = FlushMark => (\A w \in Workers : ~MarkDue(p, w)) /\ W = {}
<1> DEFINE D == {w \in Workers : MarkDue(p, w)}
           W == Where(FlushMark, fileMemBlockChan)
<1>1. TypeOK /\ fileMemBlockChan \in Seq(Blocks \cup Marks)
  BY DEF FlushState, IInv, TypeOK, TypeWriter
<1>2. Cardinality(W) \in Nat /\ (Cardinality(W) = 0 <=> W = {})
  BY <1>1, WhereFinite
<1>3. Cardinality(D) \in Nat /\ (Cardinality(D) = 0 <=> D = {})
  BY WorkersCount
<1>4. D = {} <=> \A w \in Workers : ~MarkDue(p, w)
  OBVIOUS
<1>5. /\ FlushAtFile(p) => memWritersFlushLeft = Cardinality(D) + Cardinality(W)
      /\ ~FlushAtFile(p) => memWritersFlushLeft = NumWorkers
  BY DEF FlushState, FlushMarks, FileCountdown
<1>6. ~FlushAtFile(p) => (\A w \in Workers : ~MarkDue(p, w)) /\ W = {}
  BY DEF FlushAtFile
<1>7. inHand = FlushMark => memWritersFlushLeft = 0 /\ FlushAtFile(p)
  BY <1>1 DEF TypeOK, TypeFile, FlushAtFile
<1> HIDE DEF D, W
<1>8. inHand = FlushMark => D = {} /\ W = {}
  BY <1>2, <1>3, <1>5, <1>7
<1> QED
  BY <1>2, <1>3, <1>4, <1>5, <1>6, <1>8 DEF D, W

\* Unless all memWriters have passed it on, the mark is still before the last
\* memClearer.
LEMMA AtFileStep ==
  ASSUME NEW p \in Flushers, FlushState(p), Next, ~FlushCall(p), ~(FileMark /\ inHand = FlushMark)
  PROVE  /\ FlushAtFile(p)' <=> FlushAtFile(p)
         /\ \A c \in Workers : FlushSentTo(p, c)' <=> FlushSentTo(p, c)
<1>1. TypeOK /\ FileWriterStops /\ fileMemBlockChan \in Seq(Blocks \cup Marks)
  BY DEF FlushState, IInv, StopInv, TypeOK, TypeWriter
<1>2. /\ 0 \notin Marks /\ FlushMark \in Marks /\ FlushMark # ShutdownMark /\ FlushMark \notin Blocks
      /\ FlushMark # 0 /\ ShutdownMark # 0
      /\ \A c \in Workers : c \in Nat /\ c >= 1
  BY BlockFacts DEF Marks, Workers
<1>3. CASE FileReceive
  <2> DEFINE D == {w \in Workers : MarkDue(p, w)}
             W == Where(FlushMark, fileMemBlockChan)
             m == Head(fileMemBlockChan)
  <2>1. /\ inHand = 0 /\ fileMemBlockChan # <<>> /\ fileMemBlockChan' = Tail(fileMemBlockChan)
        /\ UNCHANGED markNext
        /\ inHand' = IF \/ m = FlushMark /\ memWritersFlushLeft > 1
                        \/ m = ShutdownMark /\ memWritersShutdownLeft > 1
                     THEN 0 ELSE m
    BY <1>3 DEF FileReceive
  <2>2. \A w \in Workers : MarkDue(p, w)' <=> MarkDue(p, w)
    <3>1. \A w \in Workers : ~MemMark(w)
      <4>1. ASSUME NEW w \in Workers, MemMark(w) PROVE FALSE
        <5>1. /\ memWritersFlushLeft' = memWritersFlushLeft
              /\ \E x \in Blocks \cup Marks : fileMemBlockChan' = Append(fileMemBlockChan, x)
          BY <4>1 DEF MemMark, fileVars, Marks
        <5>2. Len(fileMemBlockChan') = Len(fileMemBlockChan) + 1
          BY <1>1, <5>1, LastOfAppend
        <5>3. Len(fileMemBlockChan') = Len(fileMemBlockChan) - 1 /\ Len(fileMemBlockChan) \in Nat
          BY <1>1, <2>1, HeadTail
        <5> QED
          BY <5>2, <5>3
      <4> QED
        BY <4>1
    <3> QED
      BY <3>1, MarkDueStep
  <2>3. CASE m = FlushMark
    <3>1. FlushAtFile(p)
      <4>1. 1 \in W
        BY <1>1, <2>1, <2>3, WhereReceive
      <4> QED
        BY <4>1 DEF FlushAtFile
    <3>2. /\ Cardinality(D) \in Nat /\ Cardinality(W) \in Nat
          /\ memWritersFlushLeft = Cardinality(D) + Cardinality(W)
          /\ Cardinality(D) = 0 <=> \A w \in Workers : ~MarkDue(p, w)
      BY <3>1, FileCount
    <3>3. Cardinality(Where(FlushMark, fileMemBlockChan')) = Cardinality(W) - 1
      BY <1>1, <2>1, <2>3, WhereTail
    <3>4. /\ Cardinality(Where(FlushMark, fileMemBlockChan')) = 0
               <=> Where(FlushMark, fileMemBlockChan') = {}
      <4>1. Tail(fileMemBlockChan) \in Seq(Blocks \cup Marks)
        BY <1>1, <2>1, HeadTail
      <4> QED
        BY <2>1, <4>1, WhereFinite
    <3> HIDE DEF D, W
    <3>5. \/ inHand' = FlushMark
          \/ \E w \in Workers : MarkDue(p, w)
          \/ Where(FlushMark, fileMemBlockChan') # {}
      <4>1. CASE memWritersFlushLeft > 1
        <5>1. Cardinality(D) # 0 \/ Cardinality(Where(FlushMark, fileMemBlockChan')) # 0
          BY <3>2, <3>3, <4>1
        <5> QED
          BY <3>2, <3>4, <5>1
      <4>2. CASE ~(memWritersFlushLeft > 1)
        BY <1>2, <2>1, <2>3, <4>2
      <4> QED
        BY <4>1, <4>2
    <3>6. FlushAtFile(p)'
      BY <2>2, <3>5 DEF FlushAtFile, Where
    <3>7. markNext = 0
      BY <1>1, <1>2, <2>1 DEF FileWriterStops
    <3> QED
      BY <1>2, <2>1, <3>1, <3>6, <3>7 DEF FlushSentTo
  <2>4. CASE m # FlushMark
    <3>1. Where(FlushMark, fileMemBlockChan') # {} <=> W # {}
      <4>1. /\ \A i : i \in Where(FlushMark, fileMemBlockChan') => i + 1 \in W
            /\ \A i \in W : i = 1 \/ i - 1 \in Where(FlushMark, fileMemBlockChan')
            /\ 1 \notin W
        BY <1>1, <2>1, <2>4, WhereReceive
      <4> HIDE DEF W
      <4> QED
        BY <4>1
    <3>2. inHand # FlushMark /\ inHand' # FlushMark
      BY <1>2, <2>1, <2>4
    <3>3. FlushAtFile(p)' <=> FlushAtFile(p)
      BY <2>2, <3>1, <3>2 DEF FlushAtFile, Where
    <3> QED
      BY <3>2, <3>3 DEF FlushSentTo
  <2> QED
    BY <2>3, <2>4
<1>4. ASSUME NEW w \in Workers, MemMark(w), req[w] = FlushReq
      PROVE  FlushAtFile(p)' <=> FlushAtFile(p)
  <2>1. FlushAtFile(p)
    BY <1>4, MarkDueSent DEF FlushAtFile
  <2>2. fileMemBlockChan' = Append(fileMemBlockChan, FlushMark)
    BY <1>1, <1>4, RequestFacts DEF MemMark
  <2>3. Len(fileMemBlockChan) + 1 \in Where(FlushMark, fileMemBlockChan')
    BY <1>1, <1>2, <2>2, WhereSend
  <2> QED
    BY <2>1, <2>3 DEF FlushAtFile, Where
<1>5. ASSUME ~FileReceive, \A w \in Workers : ~(MemMark(w) /\ req[w] = FlushReq)
      PROVE  FlushAtFile(p)' <=> FlushAtFile(p)
  <2>1. \A w \in Workers : MarkDue(p, w)' <=> MarkDue(p, w)
    BY <1>5, MarkDueStep
  <2>2. Where(FlushMark, fileMemBlockChan') = Where(FlushMark, fileMemBlockChan)
    <3>1. CASE UNCHANGED fileMemBlockChan
      BY <3>1
    <3>2. ASSUME NEW x \in Blocks \cup Marks, fileMemBlockChan' = Append(fileMemBlockChan, x), x # FlushMark
          PROVE  Where(FlushMark, fileMemBlockChan') = Where(FlushMark, fileMemBlockChan)
      BY <1>1, <3>2, WhereSend
    <3> QED
      BY <1>1, <1>2, <1>5, <3>1, <3>2, QueueStep
  <2>3. inHand' = FlushMark <=> inHand = FlushMark
    <3>1. CASE FileWrite
      BY <1>2, <3>1 DEF FileWrite
    <3>2. CASE FileMark
      BY <1>2, <3>2 DEF FileMark, Marks
    <3>3. CASE UNCHANGED <<inHand, markNext, memWritersFlushLeft>>
      BY <3>3
    <3> QED
      BY <1>5, <3>1, <3>2, <3>3, InHandStep
  <2> QED
    BY <2>1, <2>2, <2>3 DEF FlushAtFile, Where
<1>6. ASSUME ~FileReceive, FlushAtFile(p)' <=> FlushAtFile(p)
      PROVE  \A c \in Workers : FlushSentTo(p, c)' <=> FlushSentTo(p, c)
  <2>1. CASE UNCHANGED <<inHand, markNext, memWritersFlushLeft>>
    BY <1>6, <2>1 DEF FlushSentTo
  <2>2. CASE FileWrite \/ FileMark
    <3>1. inHand # FlushMark /\ inHand' # FlushMark
      BY <1>2, <2>2 DEF FileWrite, FileMark, Marks
    <3> QED
      BY <1>6, <3>1 DEF FlushSentTo
  <2> QED
    BY <1>6, <2>1, <2>2, InHandStep
<1> QED
  BY <1>3, <1>4, <1>5, <1>6

\* The fileWriter passes the mark of the Flush to the next memClearer.
LEMMA FlushFileMark ==
  ASSUME NEW p \in Flushers, FlushState(p), FileMark, inHand = FlushMark
  PROVE  LET d == markNext + 1 IN
         /\ d \in Workers /\ FlushAtFile(p) /\ ~FlushSentTo(p, d)
         /\ \A w \in Workers : ~MarkDue(p, w) /\ ~MarkDue(p, w)'
         /\ Where(FlushMark, fileMemBlockChan) = {} /\ UNCHANGED fileMemBlockChan
         /\ FlushAtFile(p)' <=> d < NumWorkers
         /\ \A c \in Workers : FlushSentTo(p, c)' <=> (FlushSentTo(p, c) \/ c = d)
         /\ freeableMemBlockChans' = [freeableMemBlockChans EXCEPT ![d] = Append(@, FlushMark)]
         /\ fl = 0 /\ fl' = 0 /\ UNCHANGED <<clearing, tb, pendingTOCBlockChan>>
<1> DEFINE d == markNext + 1
<1>1. TypeOK /\ FileWriterStops
  BY DEF FlushState, IInv, StopInv
<1>2. /\ markNext \in 0..(NumWorkers - 1) /\ NumWorkers \in Nat
      /\ \A c \in Workers : c \in Nat /\ c >= 1 /\ c <= NumWorkers
  BY <1>1, WorkersAssumption DEF TypeOK, TypeFile, Workers
<1>3. d \in Workers
  BY <1>2 DEF Workers
<1>4. FlushAtFile(p) /\ ~FlushSentTo(p, d)
  BY <1>2 DEF FlushAtFile, FlushSentTo
<1>5. (\A w \in Workers : ~MarkDue(p, w)) /\ Where(FlushMark, fileMemBlockChan) = {}
  BY FileCount
<1>6. /\ UNCHANGED <<fileMemBlockChan, req, flushPC, fl, clearing, tb, pendingTOCBlockChan>> /\ fl = 0
      /\ freeableMemBlockChans' = [freeableMemBlockChans EXCEPT ![d] = Append(@, FlushMark)]
      /\ IF d < NumWorkers THEN markNext' = d /\ inHand' = inHand
         ELSE markNext' = 0 /\ inHand' = 0
  BY DEF FileMark, writerVars, callerVars, clearerVars
<1>7. \A w \in Workers : ~MarkDue(p, w)'
  BY <1>5, <1>6 DEF MarkDue
<1>8. Where(FlushMark, fileMemBlockChan') = {}
  BY <1>5, <1>6
<1>9. FlushMark # 0
  BY BlockFacts DEF Marks
<1>10. FlushAtFile(p)' <=> d < NumWorkers
  BY <1>6, <1>7, <1>8, <1>9 DEF FlushAtFile, Where
<1>11. ASSUME NEW c \in Workers PROVE FlushSentTo(p, c)' <=> (FlushSentTo(p, c) \/ c = d)
  <2>1. FlushSentTo(p, c) <=> c <= markNext
    BY <1>4 DEF FlushSentTo
  <2>2. CASE d < NumWorkers
    <3>1. FlushSentTo(p, c)' <=> c <= d
      BY <1>6, <1>10, <2>2 DEF FlushSentTo
    <3> QED
      BY <1>2, <2>1, <3>1
  <2>3. CASE ~(d < NumWorkers)
    <3>1. FlushSentTo(p, c)'
      BY <1>10, <2>3 DEF FlushSentTo
    <3>2. c <= markNext \/ c = d
      BY <1>2, <2>3
    <3> QED
      BY <2>1, <3>1, <3>2
  <2> QED
    BY <2>2, <2>3
<1> QED
  BY <1>3, <1>4, <1>5, <1>6, <1>7, <1>10, <1>11

\* What a memClearer gets and has in hand.
LEMMA ClearerStep ==
  ASSUME TypeOK, Next, NEW c \in Workers
  PROVE  \/ freeableMemBlockChans'[c] = freeableMemBlockChans[c] /\ clearing'[c] = clearing[c]
         \/ /\ clearing'[c] = clearing[c]
            /\ \E x \in Blocks \cup Marks :
                 /\ freeableMemBlockChans'[c] = Append(freeableMemBlockChans[c], x)
                 /\ \/ x \in Blocks /\ (FileWrite \/ BufferWritten)
                    \/ x = inHand /\ FileMark
         \/ ClearReceive(c) /\ clearing'[c] = Head(freeableMemBlockChans[c])
            /\ freeableMemBlockChans'[c] = Tail(freeableMemBlockChans[c])
         \/ /\ ClearFree(c) \/ ClearMark(c)
            /\ clearing'[c] = 0 /\ freeableMemBlockChans'[c] = freeableMemBlockChans[c]
<1>1. /\ freeableMemBlockChans \in [Workers -> Seq(Blocks \cup Marks)]
      /\ clearing \in [Workers -> Blocks \cup Marks \cup {0}]
      /\ unwritten \in Seq(Buffered) /\ inHand \in Blocks \cup Marks \cup {0}
  BY DEF TypeOK, TypeBuffer, TypeClearer, TypeFile
<1> DEFINE Same == freeableMemBlockChans'[c] = freeableMemBlockChans[c] /\ clearing'[c] = clearing[c]
           Gets == /\ clearing'[c] = clearing[c]
                   /\ \E x \in Blocks \cup Marks :
                        /\ freeableMemBlockChans'[c] = Append(freeableMemBlockChans[c], x)
                        /\ \/ x \in Blocks /\ (FileWrite \/ BufferWritten)
                           \/ x = inHand /\ FileMark
<1>2. ASSUME NEW b \in Blocks, Release(b), FileWrite \/ BufferWritten PROVE Same \/ Gets
  <2>1. clearing'[c] = clearing[c]
    BY <1>2 DEF FileWrite, BufferWritten, clearerVars
  <2>2. \/ freeableMemBlockChans'[c] = freeableMemBlockChans[c]
        \/ freeableMemBlockChans'[c] = Append(freeableMemBlockChans[c], b)
    BY <1>1, <1>2 DEF Release
  <2> QED
    BY <1>2, <2>1, <2>2
<1>3. CASE FileWrite
  <2>1. \/ UNCHANGED freeableMemBlockChans
        \/ inHand \in Blocks /\ Release(inHand)
    BY <1>3 DEF FileWrite, Attach, ReleaseNow
  <2>2. UNCHANGED freeableMemBlockChans => Same
    BY <1>3 DEF FileWrite, clearerVars
  <2> QED
    BY <1>2, <1>3, <2>1, <2>2
<1>4. CASE BufferWritten
  <2>1. PICK b : b = Head(unwritten).block
    OBVIOUS
  <2>2. b \in Blocks \cup {0}
    <3>1. Head(unwritten) \in Buffered
      BY <1>1, <1>4, HeadTail DEF BufferWritten
    <3> QED
      BY <2>1, <3>1 DEF Buffered
  <2>3. UNCHANGED freeableMemBlockChans \/ (b # 0 /\ Release(b))
    BY <1>4, <2>1 DEF BufferWritten
  <2>4. UNCHANGED freeableMemBlockChans => Same
    BY <1>4 DEF BufferWritten, clearerVars
  <2> QED
    BY <1>2, <1>4, <2>2, <2>3, <2>4
<1>5. CASE FileMark
  <2>1. PICK d : freeableMemBlockChans' = [freeableMemBlockChans EXCEPT ![d] = Append(freeableMemBlockChans[d], inHand)]
    BY <1>5 DEF FileMark
  <2>2. inHand \in Marks /\ clearing' = clearing
    BY <1>5 DEF FileMark, clearerVars
  <2>3. CASE d = c
    <3>1. freeableMemBlockChans'[c] = Append(freeableMemBlockChans[c], inHand)
      BY <1>1, <2>1, <2>3
    <3> QED
      BY <1>5, <2>2, <3>1
  <2>4. CASE d # c
    BY <1>1, <2>1, <2>2, <2>4
  <2> QED
    BY <2>3, <2>4
<1>6. ASSUME NEW d \in Workers, MemClearer(d), d # c PROVE Same
  BY <1>1, <1>6
  DEF MemClearer, ClearReceive, ClearSendTOC, ClearEntry, ClearSendFull, ClearFree, ClearMark
<1>7. /\ ClearReceive(c) => /\ clearing'[c] = Head(freeableMemBlockChans[c])
                            /\ freeableMemBlockChans'[c] = Tail(freeableMemBlockChans[c])
      /\ ClearFree(c) \/ ClearMark(c) => /\ clearing'[c] = 0
                                         /\ freeableMemBlockChans'[c] = freeableMemBlockChans[c]
      /\ ClearSendTOC(c) \/ ClearEntry(c) \/ ClearSendFull(c) => Same
  BY <1>1 DEF ClearReceive, ClearSendTOC, ClearEntry, ClearSendFull, ClearFree, ClearMark
<1>8. ASSUME NEW w \in Workers,
             (\E r \in Requests : MemReceive(w, r)) \/ MemSwitch(w) \/ MemWriter(w)
      PROVE  Same
  BY <1>8
  DEF MemReceive, MemSwitch, MemWriter, MemReject, MemRotate, MemTake, MemStore, MemMark, clearerVars
<1>9. FileReceive \/ FileClosed \/ FileCreate \/ TOCWriter \/ Callers => Same
  BY DEF FileReceive, FileClosed, FileCreate, TOCWriter, TOCBlockWritten, TOCMark, TOCFlushed, clearerVars,
     Callers, FlushStep, FlushCall, FlushSend, FlushReturn, ShutdownCall, ShutdownSend,
     ShutdownReturn, DiscardLocalRemoval, ReadGet, ReadMemBlock, ReadFile, ReadReturn, Idle, vars
<1> HIDE DEF Same, Gets
<1>10. MemClearer(c) => Same \/ ClearReceive(c) \/ ClearFree(c) \/ ClearMark(c)
  BY <1>7 DEF MemClearer
<1>11. \A d \in Workers : MemClearer(d) => Same \/ MemClearer(c)
  BY <1>6
<1>12. ASSUME ~FileWrite, ~BufferWritten, ~FileMark
       PROVE  Same \/ ClearReceive(c) \/ ClearFree(c) \/ ClearMark(c)
  BY <1>8, <1>9, <1>10, <1>11, <1>12 DEF Next, FileWriter, Callers
<1> QED
  BY <1>3, <1>4, <1>5, <1>7, <1>12 DEF Same

\* A memClearer has its mark to pass on until it does.
LEMMA ClearDueStep ==
  ASSUME NEW p \in Flushers, FlushState(p), Next, ~FlushCall(p), NEW c \in Workers,
         ~(ClearMark(c) /\ clearing[c] = FlushMark)
  PROVE  ClearDue(p, c)' <=> ClearDue(p, c)
<1>1. /\ TypeOK /\ freeableMemBlockChans[c] \in Seq(Blocks \cup Marks)
      /\ freeableMemBlockChans \in [Workers -> Seq(Blocks \cup Marks)]
  BY DEF FlushState, IInv, TypeOK, TypeBuffer
<1>2. FlushMark # 0 /\ FlushMark \notin Blocks /\ FlushMark \in Marks
  BY BlockFacts DEF Marks
<1>3. CASE FileMark /\ inHand = FlushMark
  <2> DEFINE d == markNext + 1
  <2>1. /\ d \in Workers /\ ~FlushSentTo(p, d)
        /\ FlushSentTo(p, c)' <=> (FlushSentTo(p, c) \/ c = d)
        /\ freeableMemBlockChans' = [freeableMemBlockChans EXCEPT ![d] = Append(@, FlushMark)]
        /\ UNCHANGED clearing
    BY <1>3, FlushFileMark
  <2> HIDE DEF d
  <2>2. CASE c = d
    <3>1. freeableMemBlockChans'[c] = Append(freeableMemBlockChans[c], FlushMark)
      BY <1>1, <2>1, <2>2
    <3>2. Len(freeableMemBlockChans[c]) + 1 \in Where(FlushMark, freeableMemBlockChans'[c])
      BY <1>1, <1>2, <3>1, WhereSend
    <3> QED
      BY <2>1, <2>2, <3>2 DEF ClearDue, Where
  <2>3. CASE c # d
    <3>1. freeableMemBlockChans'[c] = freeableMemBlockChans[c]
      BY <1>1, <2>1, <2>3
    <3> QED
      BY <2>1, <2>3, <3>1 DEF ClearDue, Where
  <2> QED
    BY <2>2, <2>3
<1>4. CASE ~(FileMark /\ inHand = FlushMark)
  <2>1. FlushSentTo(p, c)' <=> FlushSentTo(p, c)
    BY <1>4, AtFileStep
  <2>2. CASE freeableMemBlockChans'[c] = freeableMemBlockChans[c] /\ clearing'[c] = clearing[c]
    BY <2>1, <2>2 DEF ClearDue, Where
  <2>3. ASSUME NEW x \in Blocks \cup Marks, x # FlushMark, clearing'[c] = clearing[c],
               freeableMemBlockChans'[c] = Append(freeableMemBlockChans[c], x)
        PROVE  ClearDue(p, c)' <=> ClearDue(p, c)
    <3>1. Where(FlushMark, freeableMemBlockChans'[c]) = Where(FlushMark, freeableMemBlockChans[c])
      BY <1>1, <2>3, WhereSend
    <3> QED
      BY <2>1, <2>3, <3>1 DEF ClearDue, Where
  <2>4. CASE ClearReceive(c) /\ clearing'[c] = Head(freeableMemBlockChans[c])
             /\ freeableMemBlockChans'[c] = Tail(freeableMemBlockChans[c])
    <3>1. clearing[c] = 0 /\ freeableMemBlockChans[c] # <<>>
      BY <2>4 DEF ClearReceive
    <3>2. /\ \A i : i \in Where(FlushMark, freeableMemBlockChans'[c]) =>
                 i + 1 \in Where(FlushMark, freeableMemBlockChans[c])
          /\ 1 \in Where(FlushMark, freeableMemBlockChans[c]) <=> clearing'[c] = FlushMark
          /\ \A i \in Where(FlushMark, freeableMemBlockChans[c]) :
               i = 1 \/ i - 1 \in Where(FlushMark, freeableMemBlockChans'[c])
      BY <1>1, <2>4, <3>1, WhereReceive
    <3> QED
      BY <1>2, <2>1, <3>1, <3>2 DEF ClearDue, Where
  <2>5. CASE /\ ClearFree(c) \/ ClearMark(c)
             /\ clearing'[c] = 0 /\ freeableMemBlockChans'[c] = freeableMemBlockChans[c]
    <3>1. clearing[c] # FlushMark
      BY <1>2, <2>5 DEF ClearFree
    <3> QED
      BY <1>2, <2>1, <2>5, <3>1 DEF ClearDue, Where
  <2> QED
    BY <1>1, <1>2, <1>4, <2>2, <2>3, <2>4, <2>5, ClearerStep
<1> QED
  BY <1>3, <1>4

\* And then no longer.
LEMMA ClearDueSent ==
  ASSUME NEW p \in Flushers, FlushState(p), Next, NEW c \in Workers, ClearMark(c), clearing[c] = FlushMark
  PROVE  ClearDue(p, c) /\ ~ClearDue(p, c)'
<1>1. TypeOK /\ clearing \in [Workers -> Blocks \cup Marks \cup {0}]
  BY DEF FlushState, IInv, TypeOK, TypeClearer
<1>2. FlushSentTo(p, c) /\ Where(FlushMark, freeableMemBlockChans[c]) = {}
  BY DEF FlushState, FlushMarks, OneMarkEach
<1>3. UNCHANGED <<freeableMemBlockChans, req, flushPC, fileMemBlockChan, inHand, markNext>> /\ clearing'[c] = 0
  BY <1>1 DEF ClearMark, writerVars, fileVars, callerVars
<1>4. FlushSentTo(p, c)'
  BY <1>2, <1>3 DEF FlushSentTo, FlushAtFile, MarkDue, Where
<1>5. FlushMark # 0
  BY BlockFacts DEF Marks
<1> QED
  BY <1>2, <1>3, <1>4, <1>5 DEF ClearDue, Where

\* What is sent to the tocWriter.
LEMMA PendingStep ==
  ASSUME TypeOK, Next
  PROVE  \/ UNCHANGED pendingTOCBlockChan
         \/ /\ TOCBlockWritten \/ TOCMark
            /\ pendingTOCBlockChan # <<>> /\ pendingTOCBlockChan' = Tail(pendingTOCBlockChan)
         \/ \E c \in Workers, x \in TOCBlock :
              /\ pendingTOCBlockChan' = Append(pendingTOCBlockChan, x)
              /\ \/ x = tb[c] /\ (ClearSendTOC(c) \/ ClearSendFull(c))
                 \/ x = MarkTB(clearing[c]) /\ x.file = clearing[c] /\ ClearMark(c)
<1>1. tb \in [Workers -> TOCBlock]
  BY DEF TypeOK, TypeClearer
<1>2. ASSUME NEW c \in Workers, ClearSendTOC(c) \/ ClearSendFull(c)
      PROVE  \E x \in TOCBlock : pendingTOCBlockChan' = Append(pendingTOCBlockChan, x) /\ x = tb[c]
  BY <1>1, <1>2 DEF ClearSendTOC, ClearSendFull
<1>3. ASSUME NEW c \in Workers, ClearMark(c)
      PROVE  \E x \in TOCBlock : /\ pendingTOCBlockChan' = Append(pendingTOCBlockChan, x)
                                 /\ x = MarkTB(clearing[c]) /\ x.file = clearing[c]
  <2>1. MarkTB(clearing[c]) \in TOCBlock /\ MarkTB(clearing[c]).file = clearing[c]
    BY <1>3 DEF ClearMark, MarkTB, TOCBlock
  <2> QED
    BY <1>3, <2>1 DEF ClearMark
<1>4. TOCBlockWritten \/ TOCMark =>
        pendingTOCBlockChan # <<>> /\ pendingTOCBlockChan' = Tail(pendingTOCBlockChan)
  BY DEF TOCBlockWritten, TOCMark
<1>5. ASSUME NEW w \in Workers,
             \/ (\E r \in Requests : MemReceive(w, r)) \/ MemSwitch(w) \/ MemWriter(w)
             \/ ClearReceive(w) \/ ClearEntry(w) \/ ClearFree(w)
      PROVE  UNCHANGED pendingTOCBlockChan
  BY <1>5 DEF MemReceive, MemSwitch, MemWriter, MemReject, MemRotate, MemTake, MemStore, MemMark,
     ClearReceive, ClearEntry, ClearFree
<1>6. FileWriter \/ BufferWritten \/ TOCFlushed \/ Callers => UNCHANGED pendingTOCBlockChan
  BY DEF FileWriter, FileReceive, FileClosed, FileCreate, FileWrite, FileMark, BufferWritten, TOCFlushed,
     Callers, FlushStep, FlushCall, FlushSend, FlushReturn, ShutdownCall, ShutdownSend,
     ShutdownReturn, DiscardLocalRemoval, ReadGet, ReadMemBlock, ReadFile, ReadReturn, Idle, vars
<1> QED
  BY <1>2, <1>3, <1>4, <1>5, <1>6 DEF Next, MemClearer, TOCWriter, Callers

\* The countdown of the tocWriter.
LEMMA TOCLeftStep ==
  ASSUME Next
  PROVE  \/ UNCHANGED <<memClearersFlushLeft, flushedChan>>
         \/ TOCMark \/ TOCFlushed \/ \E q \in Flushers : FlushReturn(q)
<1>1. ASSUME NEW w \in Workers,
             (\E r \in Requests : MemReceive(w, r)) \/ MemSwitch(w) \/ MemWriter(w) \/ MemClearer(w)
      PROVE  UNCHANGED <<memClearersFlushLeft, flushedChan>>
  BY <1>1 DEF MemReceive, MemSwitch, MemWriter, MemReject, MemRotate, MemTake, MemStore, MemMark, MemClearer,
     ClearReceive, ClearSendTOC, ClearEntry, ClearSendFull, ClearFree, ClearMark, tocVars
<1>2. FileWriter \/ BufferWritten \/ TOCBlockWritten => UNCHANGED <<memClearersFlushLeft, flushedChan>>
  BY DEF FileWriter, FileReceive, FileClosed, FileCreate, FileWrite, FileMark, BufferWritten,
     TOCBlockWritten, tocVars
<1>3. Callers /\ ~(\E q \in Flushers : FlushReturn(q)) => UNCHANGED <<memClearersFlushLeft, flushedChan>>
  BY DEF Callers, FlushStep, FlushCall, FlushSend, ShutdownCall, ShutdownSend, ShutdownReturn,
     DiscardLocalRemoval, ReadGet, ReadMemBlock, ReadFile, ReadReturn, Idle, vars, tocVars
<1> QED
  BY <1>1, <1>2, <1>3 DEF Next, TOCWriter, Callers

\* A mark that is not past the fileWriter is not past the tocWriter.
LEMMA AtFileIsDue ==
  ASSUME NEW p \in Flushers, TypeOK, FlushAtFile(p)
  PROVE  (\E c \in Workers : ClearDue(p, c)) /\ FlushAtTOC(p)
<1>1. NumWorkers \in Workers /\ markNext < NumWorkers /\ markNext \in Nat /\ NumWorkers \in Nat
  BY WorkersAssumption DEF Workers, TypeOK, TypeFile
<1>2. ~FlushSentTo(p, NumWorkers)
  BY <1>1 DEF FlushSentTo
<1> QED
  BY <1>1, <1>2 DEF ClearDue, FlushAtTOC

\* The marks that the countdown of the tocWriter is about.
LEMMA TOCCount ==
  ASSUME NEW p \in Flushers, FlushState(p)
  PROVE  LET C == {c \in Workers : ClearDue(p, c)}
             B == BlocksOf(FlushMark, pendingTOCBlockChan) IN
         /\ Cardinality(C) \in Nat /\ Cardinality(B) \in Nat
         /\ Cardinality(C) = 0 <=> \A c \in Workers : ~ClearDue(p, c)
         /\ Cardinality(B) = 0 <=> B = {}
         /\ FlushAtTOC(p) => /\ memClearersFlushLeft = Cardinality(C) + Cardinality(B)
                             /\ memClearersFlushLeft > 0
                             /\ flushedChan = 0 /\ flushPC[p] # 0
         /\ ~FlushAtTOC(p) => ~FlushAtFile(p) /\ (\A c \in Workers : ~ClearDue(p, c)) /\ B = {}
         /\ flushedChan = 1 => ~FlushAtTOC(p)
<1> DEFINE C == {c \in Workers : ClearDue(p, c)}
           B == BlocksOf(FlushMark, pendingTOCBlockChan)
<1>1. TypeOK /\ pendingTOCBlockChan \in Seq(TOCBlock)
  BY DEF FlushState, IInv, TypeOK, TypeClearer
<1>2. Cardinality(B) \in Nat /\ (Cardinality(B) = 0 <=> B = {})
  BY <1>1, BlocksOfFinite
<1>3. Cardinality(C) \in Nat /\ (Cardinality(C) = 0 <=> C = {})
  BY WorkersCount
<1>4. C = {} <=> \A c \in Workers : ~ClearDue(p, c)
  OBVIOUS
<1>5. FlushAtTOC(p) => /\ memClearersFlushLeft = Cardinality(C) + Cardinality(B)
                       /\ flushedChan = 0 /\ flushPC[p] # 0
  BY DEF FlushState, FlushMarks, TOCCountdown, OneMarkEach
<1>6. FlushAtTOC(p) <=> C # {} \/ B # {}
  BY <1>4 DEF FlushAtTOC
<1>7. ~FlushAtTOC(p) => ~FlushAtFile(p)
  BY <1>1, AtFileIsDue
<1> HIDE DEF C, B
<1>8. FlushAtTOC(p) => memClearersFlushLeft > 0
  BY <1>2, <1>3, <1>5, <1>6
<1> QED
  BY <1>2, <1>3, <1>4, <1>5, <1>6, <1>7, <1>8 DEF C, B

\* When Flush is called there are no marks, and after that all are to come.
LEMMA FlushCallMarks ==
  ASSUME NEW p \in Flushers, FlushState(p), FlushCall(p)
  PROVE  /\ ~FlushAtTOC(p) /\ ~FlushAtFile(p)
         /\ flushPC[p] = 0 /\ flushPC'[p] = 1
         /\ \A w \in Workers : MarkDue(p, w)'
         /\ FlushAtFile(p)' /\ FlushAtTOC(p)'
         /\ \A c \in Workers : ~FlushSentTo(p, c)' /\ ClearDue(p, c)'
         /\ \A w \in Workers : req[w] # FlushReq
         /\ Where(FlushMark, fileMemBlockChan) = {} /\ inHand # FlushMark
         /\ \A c \in Workers : Where(FlushMark, freeableMemBlockChans[c]) = {} /\ clearing[c] # FlushMark
         /\ BlocksOf(FlushMark, pendingTOCBlockChan) = {}
         /\ UNCHANGED <<req, fileMemBlockChan, inHand, freeableMemBlockChans, clearing, pendingTOCBlockChan,
                        memWritersFlushLeft, memClearersFlushLeft, flushedChan, shutdownPC>>
<1>1. TypeOK /\ flushPC[p] = 0 /\ flushPC'[p] = 1
  BY DEF FlushState, IInv, FlushCall, TypeOK, TypeCaller
<1>2. ~FlushAtTOC(p)
  BY <1>1 DEF FlushState, FlushMarks, OneMarkEach
<1>3. ~FlushAtFile(p) /\ (\A c \in Workers : ~ClearDue(p, c)) /\ BlocksOf(FlushMark, pendingTOCBlockChan) = {}
  BY <1>2, TOCCount
<1>4. /\ \A w \in Workers : req[w] # FlushReq
      /\ Where(FlushMark, fileMemBlockChan) = {} /\ inHand # FlushMark
  BY <1>3 DEF FlushAtFile, MarkDue
<1>5. \A c \in Workers : Where(FlushMark, freeableMemBlockChans[c]) = {} /\ clearing[c] # FlushMark
  BY <1>3 DEF ClearDue
<1>6. UNCHANGED <<req, fileMemBlockChan, inHand, freeableMemBlockChans, clearing, pendingTOCBlockChan,
                  memWritersFlushLeft, memClearersFlushLeft, flushedChan, shutdownPC>>
  BY DEF FlushCall, writerVars, fileVars, clearerVars, tocVars
<1>7. \A w \in Workers : MarkDue(p, w)'
  BY <1>1 DEF MarkDue, Workers
<1>8. 1 \in Workers
  BY WorkersAssumption DEF Workers
<1>9. FlushAtFile(p)'
  BY <1>7, <1>8 DEF FlushAtFile
<1>10. \A c \in Workers : ~FlushSentTo(p, c)' /\ ClearDue(p, c)'
  BY <1>4, <1>6, <1>9 DEF FlushSentTo, ClearDue
<1>11. FlushAtTOC(p)'
  BY <1>8, <1>10 DEF FlushAtTOC
<1> QED
  BY <1>1, <1>2, <1>3, <1>4, <1>5, <1>6, <1>7, <1>9, <1>10, <1>11

\* The tocWriter receives something: the marks in its channel.
LEMMA TOCReceives ==
  ASSUME NEW p \in Flushers, FlushState(p), Next, TOCBlockWritten \/ TOCMark
  PROVE  LET B == BlocksOf(FlushMark, pendingTOCBlockChan) IN
         /\ \A c \in Workers : ClearDue(p, c)' <=> ClearDue(p, c)
         /\ FlushAtFile(p)' <=> FlushAtFile(p)
         /\ Cardinality(BlocksOf(FlushMark, pendingTOCBlockChan'))
              = Cardinality(B) - (IF Head(pendingTOCBlockChan).file = FlushMark THEN 1 ELSE 0)
         /\ Cardinality(BlocksOf(FlushMark, pendingTOCBlockChan')) \in Nat
         /\ Cardinality(BlocksOf(FlushMark, pendingTOCBlockChan')) = 0
              <=> BlocksOf(FlushMark, pendingTOCBlockChan') = {}
         /\ Head(pendingTOCBlockChan).file = FlushMark => 1 \in B /\ FlushAtTOC(p)
<1>1. TypeOK /\ pendingTOCBlockChan \in Seq(TOCBlock)
  BY DEF FlushState, IInv, TypeOK, TypeClearer
<1>2. /\ pendingTOCBlockChan # <<>> /\ pendingTOCBlockChan' = Tail(pendingTOCBlockChan)
      /\ UNCHANGED <<req, flushPC, fileMemBlockChan, inHand, markNext, freeableMemBlockChans, clearing>>
  BY DEF TOCBlockWritten, TOCMark, writerVars, fileVars, clearerVars, callerVars
<1>3. FlushAtFile(p)' <=> FlushAtFile(p)
  BY <1>2 DEF FlushAtFile, MarkDue, Where
<1>4. \A c \in Workers : ClearDue(p, c)' <=> ClearDue(p, c)
  BY <1>2, <1>3 DEF ClearDue, FlushSentTo, Where
<1>5. pendingTOCBlockChan' \in Seq(TOCBlock)
  BY <1>1, <1>2, HeadTail
<1>6. Head(pendingTOCBlockChan).file = FlushMark => 1 \in BlocksOf(FlushMark, pendingTOCBlockChan)
  BY <1>1, <1>2, BlocksOfReceive
<1> QED
  BY <1>1, <1>2, <1>3, <1>4, <1>5, <1>6, BlocksOfTail, BlocksOfFinite DEF FlushAtTOC

\* The marks are at the tocWriter until it has got the last.
LEMMA AtTOCStep ==
  ASSUME NEW p \in Flushers, FlushState(p), Next, ~FlushCall(p)
  PROVE  \/ FlushAtTOC(p)' <=> FlushAtTOC(p)
         \/ /\ TOCMark /\ Head(pendingTOCBlockChan).file = FlushMark /\ memClearersFlushLeft = 1
            /\ FlushAtTOC(p) /\ ~FlushAtTOC(p)'
<1>1. TypeOK /\ pendingTOCBlockChan \in Seq(TOCBlock)
  BY DEF FlushState, IInv, TypeOK, TypeClearer
<1> DEFINE C == {c \in Workers : ClearDue(p, c)}
           B == BlocksOf(FlushMark, pendingTOCBlockChan)
<1>2. ASSUME NEW c \in Workers, ClearMark(c), clearing[c] = FlushMark
      PROVE  FlushAtTOC(p)' /\ FlushAtTOC(p)
  <2>1. FlushAtTOC(p)
    BY <1>2, ClearDueSent DEF FlushAtTOC
  <2>2. MarkTB(FlushMark) \in TOCBlock /\ MarkTB(FlushMark).file = FlushMark
    BY DEF MarkTB, TOCBlock, Marks
  <2>3. pendingTOCBlockChan' = Append(pendingTOCBlockChan, MarkTB(FlushMark))
    BY <1>2 DEF ClearMark
  <2>4. Len(pendingTOCBlockChan) + 1 \in BlocksOf(FlushMark, pendingTOCBlockChan')
    BY <1>1, <2>2, <2>3, BlocksOfSend
  <2> QED
    BY <2>1, <2>4 DEF FlushAtTOC, BlocksOf
<1>3. ASSUME \A c \in Workers : ~(ClearMark(c) /\ clearing[c] = FlushMark), ~TOCBlockWritten, ~TOCMark
      PROVE  FlushAtTOC(p)' <=> FlushAtTOC(p)
  <2>1. \A c \in Workers : ClearDue(p, c)' <=> ClearDue(p, c)
    BY <1>3, ClearDueStep
  <2>2. BlocksOf(FlushMark, pendingTOCBlockChan') = BlocksOf(FlushMark, pendingTOCBlockChan)
    <3>1. ASSUME NEW x \in TOCBlock, pendingTOCBlockChan' = Append(pendingTOCBlockChan, x), x.file # FlushMark
          PROVE  BlocksOf(FlushMark, pendingTOCBlockChan') = BlocksOf(FlushMark, pendingTOCBlockChan)
      BY <1>1, <3>1, BlocksOfSend
    <3>2. \A c \in Workers : tb[c].file # FlushMark
      BY BlockFacts DEF FlushState, StopInv, TBFiles
    <3> QED
      BY <1>1, <1>3, <3>1, <3>2, PendingStep
  <2> QED
    BY <2>1, <2>2 DEF FlushAtTOC, BlocksOf
<1>4. CASE TOCBlockWritten \/ TOCMark
  <2>1. /\ \A c \in Workers : ClearDue(p, c)' <=> ClearDue(p, c)
        /\ Cardinality(BlocksOf(FlushMark, pendingTOCBlockChan'))
              = Cardinality(B) - (IF Head(pendingTOCBlockChan).file = FlushMark THEN 1 ELSE 0)
        /\ Cardinality(BlocksOf(FlushMark, pendingTOCBlockChan')) \in Nat
        /\ Cardinality(BlocksOf(FlushMark, pendingTOCBlockChan')) = 0
              <=> BlocksOf(FlushMark, pendingTOCBlockChan') = {}
        /\ Head(pendingTOCBlockChan).file = FlushMark => FlushAtTOC(p)
    BY <1>4, TOCReceives
  <2>2. FlushAtTOC(p)' <=> (\E c \in Workers : ClearDue(p, c)) \/ BlocksOf(FlushMark, pendingTOCBlockChan') # {}
    BY <2>1 DEF FlushAtTOC, BlocksOf
  <2>3. /\ Cardinality(C) \in Nat /\ Cardinality(B) \in Nat
        /\ Cardinality(C) = 0 <=> \A c \in Workers : ~ClearDue(p, c)
        /\ Cardinality(B) = 0 <=> B = {}
        /\ FlushAtTOC(p) => memClearersFlushLeft = Cardinality(C) + Cardinality(B)
    BY TOCCount
  <2>4. FlushAtTOC(p) <=> (\E c \in Workers : ClearDue(p, c)) \/ B # {}
    BY DEF FlushAtTOC
  <2> HIDE DEF C, B
  <2>5. CASE Head(pendingTOCBlockChan).file # FlushMark
    BY <2>1, <2>2, <2>3, <2>4, <2>5
  <2>6. CASE Head(pendingTOCBlockChan).file = FlushMark
    <3>1. TOCMark
      BY <1>4, <2>6 DEF TOCBlockWritten, Marks
    <3>2. FlushAtTOC(p) /\ memClearersFlushLeft = Cardinality(C) + Cardinality(B)
          /\ Cardinality(BlocksOf(FlushMark, pendingTOCBlockChan')) = Cardinality(B) - 1
      BY <2>1, <2>3, <2>6
    <3>3. ~FlushAtTOC(p)' => Cardinality(C) = 0 /\ Cardinality(BlocksOf(FlushMark, pendingTOCBlockChan')) = 0
      BY <2>1, <2>2, <2>3
    <3> QED
      BY <2>3, <2>6, <3>1, <3>2, <3>3
  <2> QED
    BY <2>5, <2>6
<1> QED
  BY <1>2, <1>3, <1>4

\* Shutdown is not called while a Flush is under way.
LEMMA ShutdownPCStep ==
  ASSUME NEW p \in Flushers, FlushState(p), Next
  PROVE  UNCHANGED shutdownPC \/ (UNCHANGED flushPC /\ flushPC[p] = 0)
<1>1. flushPC[p] # 0 => shutdownPC = 0
  BY DEF FlushState, FlushMarks, OneMarkEach
<1>2. ASSUME NEW w \in Workers,
             (\E r \in Requests : MemReceive(w, r)) \/ MemSwitch(w) \/ MemWriter(w) \/ MemClearer(w)
      PROVE  UNCHANGED shutdownPC
  BY <1>2 DEF MemReceive, MemSwitch, MemWriter, MemReject, MemRotate, MemTake, MemStore, MemMark, MemClearer,
     ClearReceive, ClearSendTOC, ClearEntry, ClearSendFull, ClearFree, ClearMark, callerVars
<1>3. FileWriter \/ BufferWritten \/ TOCWriter => UNCHANGED shutdownPC
  BY DEF FileWriter, FileReceive, FileClosed, FileCreate, FileWrite, FileMark, BufferWritten, TOCWriter,
     TOCBlockWritten, TOCMark, TOCFlushed, callerVars
<1>4. ShutdownCall => UNCHANGED flushPC /\ flushPC[p] = 0
  BY DEF ShutdownCall
<1>5. ShutdownSend \/ ShutdownReturn => UNCHANGED flushPC /\ shutdownPC # 0
  BY WorkersAssumption DEF ShutdownSend, ShutdownReturn
<1>6. Callers /\ ~(ShutdownCall \/ ShutdownSend \/ ShutdownReturn) => UNCHANGED shutdownPC
  BY DEF Callers, FlushStep, FlushCall, FlushSend, FlushReturn, DiscardLocalRemoval,
     ReadGet, ReadMemBlock, ReadFile, ReadReturn, Idle, vars, callerVars
<1> QED
  BY <1>1, <1>2, <1>3, <1>4, <1>5, <1>6 DEF Next, Callers

\* Each memClearer has one mark of the Flush at most.
LEMMA OneMarkStep ==
  ASSUME NEW p \in Flushers, FlushState(p), Next, NEW c \in Workers
  PROVE  /\ clearing'[c] = FlushMark =>
              FlushSentTo(p, c)' /\ Where(FlushMark, freeableMemBlockChans'[c]) = {}
         /\ \A i, j \in Where(FlushMark, freeableMemBlockChans'[c]) : FlushSentTo(p, c)' /\ i = j
<1> DEFINE q == freeableMemBlockChans[c]
           r == freeableMemBlockChans'[c]
<1>1. TypeOK /\ q \in Seq(Blocks \cup Marks) /\ freeableMemBlockChans \in [Workers -> Seq(Blocks \cup Marks)]
  BY DEF FlushState, IInv, TypeOK, TypeBuffer
<1>2. FlushMark # 0 /\ FlushMark \notin Blocks /\ FlushMark \in Marks
  BY BlockFacts DEF Marks
<1>3. /\ clearing[c] = FlushMark => FlushSentTo(p, c) /\ Where(FlushMark, q) = {}
      /\ \A i, j \in Where(FlushMark, q) : FlushSentTo(p, c) /\ i = j
  BY DEF FlushState, FlushMarks, OneMarkEach
<1>4. CASE FlushCall(p)
  <2>1. Where(FlushMark, q) = {} /\ clearing[c] # FlushMark /\ UNCHANGED <<freeableMemBlockChans, clearing>>
    BY <1>4, FlushCallMarks
  <2> QED
    BY <2>1
<1>5. CASE FileMark /\ inHand = FlushMark
  <2>1. PICK d : d = markNext + 1
    OBVIOUS
  <2>2. /\ d \in Workers /\ ~FlushSentTo(p, d)
        /\ FlushSentTo(p, c)' <=> (FlushSentTo(p, c) \/ c = d)
        /\ freeableMemBlockChans' = [freeableMemBlockChans EXCEPT ![d] = Append(@, FlushMark)]
        /\ UNCHANGED clearing
    BY <1>5, <2>1, FlushFileMark
  <2>3. CASE c = d
    <3>1. Where(FlushMark, q) = {} /\ clearing'[c] # FlushMark /\ FlushSentTo(p, c)'
      BY <1>3, <2>2, <2>3
    <3>2. r = Append(q, FlushMark)
      BY <1>1, <2>2, <2>3
    <3>3. Where(FlushMark, r) = Where(FlushMark, q) \cup {Len(q) + 1}
      BY <1>1, <1>2, <3>2, WhereSend
    <3> QED
      BY <3>1, <3>3
  <2>4. CASE c # d
    <3>1. r = q
      BY <1>1, <2>2, <2>4
    <3> QED
      BY <1>3, <2>2, <3>1
  <2> QED
    BY <2>3, <2>4
<1>6. CASE ~FlushCall(p) /\ ~(FileMark /\ inHand = FlushMark)
  <2>1. FlushSentTo(p, c)' <=> FlushSentTo(p, c)
    BY <1>6, AtFileStep
  <2>2. CASE r = q /\ clearing'[c] = clearing[c]
    BY <1>3, <2>1, <2>2
  <2>3. ASSUME NEW x \in Blocks \cup Marks, r = Append(q, x), x # FlushMark, clearing'[c] = clearing[c]
        PROVE  /\ clearing'[c] = FlushMark => FlushSentTo(p, c)' /\ Where(FlushMark, r) = {}
               /\ \A i, j \in Where(FlushMark, r) : FlushSentTo(p, c)' /\ i = j
    <3>1. Where(FlushMark, r) = Where(FlushMark, q)
      BY <1>1, <2>3, WhereSend
    <3> QED
      BY <1>3, <2>1, <2>3, <3>1
  <2>4. CASE ClearReceive(c) /\ clearing'[c] = Head(q) /\ r = Tail(q)
    <3>1. q # <<>>
      BY <2>4 DEF ClearReceive
    <3>2. /\ \A i \in Where(FlushMark, r) : i \in Nat /\ i >= 1 /\ i + 1 \in Where(FlushMark, q)
          /\ clearing'[c] = FlushMark <=> 1 \in Where(FlushMark, q)
      BY <1>1, <2>4, <3>1, WhereReceive
    <3>3. \A i \in Where(FlushMark, r) : FlushSentTo(p, c) /\ clearing'[c] # FlushMark
      <4> SUFFICES ASSUME NEW i \in Where(FlushMark, r) PROVE FlushSentTo(p, c) /\ clearing'[c] # FlushMark
        OBVIOUS
      <4>1. i \in Nat /\ i >= 1 /\ i + 1 \in Where(FlushMark, q)
        BY <3>2
      <4>2. 1 \in Where(FlushMark, q) => 1 = i + 1
        BY <1>3, <4>1
      <4> QED
        BY <1>3, <3>2, <4>1, <4>2
    <3>4. \A i, j \in Where(FlushMark, r) : i = j
      <4> SUFFICES ASSUME NEW i \in Where(FlushMark, r), NEW j \in Where(FlushMark, r) PROVE i = j
        OBVIOUS
      <4>1. i \in Nat /\ j \in Nat /\ i + 1 = j + 1
        BY <1>3, <3>2
      <4> QED
        BY <4>1
    <3>5. clearing'[c] = FlushMark => FlushSentTo(p, c)
      BY <1>3, <3>2
    <3> QED
      BY <2>1, <3>3, <3>4, <3>5
  <2>5. CASE clearing'[c] = 0 /\ r = q
    BY <1>2, <1>3, <2>1, <2>5
  <2> HIDE DEF q, r
  <2>6. \/ r = q /\ clearing'[c] = clearing[c]
        \/ clearing'[c] = clearing[c] /\ \E x \in Blocks \cup Marks : r = Append(q, x) /\ x # FlushMark
        \/ ClearReceive(c) /\ clearing'[c] = Head(q) /\ r = Tail(q)
        \/ clearing'[c] = 0 /\ r = q
    BY <1>1, <1>2, <1>6, ClearerStep DEF q, r
  <2> QED
    BY <2>2, <2>3, <2>4, <2>5, <2>6 DEF q, r
<1> QED
  BY <1>4, <1>5, <1>6

\* Each memWriter and each memClearer has one mark to pass on, after every step.
LEMMA OneMarkEachStep ==
  ASSUME NEW p \in Flushers, FlushState(p), Next
  PROVE  OneMarkEach(p)'
<1>1. TypeOK /\ OneFlusher /\ \A q \in Flushers : q = p
  BY DEF FlushState, IInv, OneFlusher
<1>2. /\ flushPC \in [Flushers -> 0..(NumWorkers + 1)] /\ NumWorkers \in Nat /\ NumWorkers > 0
      /\ \A w \in Workers : w \in Nat /\ w >= 1 /\ w <= NumWorkers
  BY <1>1, WorkersAssumption DEF TypeOK, TypeCaller, Workers
<1>3. /\ flushPC[p] # 0 => shutdownPC = 0
      /\ FlushAtTOC(p) => flushPC[p] # 0
      /\ \A w \in Workers : req[w] = FlushReq => flushPC[p] > w
  BY DEF FlushState, FlushMarks, OneMarkEach
<1>4. flushedChan = 1 => ~FlushAtTOC(p) /\ ~FlushAtFile(p)
  BY TOCCount
<1>5. FlushReturn(p) => ~FlushAtTOC(p) /\ \A w \in Workers : req[w] # FlushReq
  BY <1>4 DEF FlushReturn, FlushAtFile, MarkDue
<1>6. FlushCall(p) => shutdownPC' = 0
  BY DEF FlushCall
<1>7. FlushSend(p) => flushPC[p] # 0
  BY <1>2 DEF FlushSend
<1>8. flushPC'[p] # 0 => shutdownPC' = 0
  BY <1>1, <1>3, <1>6, <1>7, FlushPCStep, ShutdownPCStep
<1>9. FlushAtTOC(p)' => flushPC'[p] # 0
  <2>1. FlushCall(p) => flushPC'[p] = 1
    BY FlushCallMarks
  <2>2. ~FlushCall(p) /\ FlushAtTOC(p)' => FlushAtTOC(p)
    BY AtTOCStep
  <2>3. FlushSend(p) /\ flushPC'[p] = flushPC[p] + 1 => flushPC'[p] # 0
    BY <1>2
  <2> QED
    BY <1>1, <1>3, <1>5, <2>1, <2>2, <2>3, FlushPCStep
<1>10. ASSUME NEW w \in Workers, req'[w] = FlushReq PROVE flushPC'[p] > w
  <2>1. CASE FlushSend(p) /\ flushPC[p] = w
    BY <1>2, <2>1 DEF FlushSend
  <2>2. CASE req[w] = FlushReq
    <3>1. flushPC[p] > w /\ ~FlushReturn(p)
      BY <1>3, <1>5, <2>2
    <3>2. ~FlushCall(p)
      BY <2>2, FlushCallMarks
    <3> QED
      BY <1>1, <1>2, <3>1, <3>2, FlushPCStep
  <2> QED
    BY <1>1, <1>10, <2>1, <2>2, ReqStep, RequestFacts
<1>11. ASSUME NEW c \in Workers
       PROVE  /\ clearing'[c] = FlushMark =>
                   FlushSentTo(p, c)' /\ Where(FlushMark, freeableMemBlockChans'[c]) = {}
              /\ \A i, j \in Where(FlushMark, freeableMemBlockChans'[c]) : FlushSentTo(p, c)' /\ i = j
  BY OneMarkStep
<1> QED
  BY <1>8, <1>9, <1>10, <1>11 DEF OneMarkEach, Where

\* The countdown of the fileWriter counts the marks to come, after every step.
LEMMA FileCountdownStep ==
  ASSUME NEW p \in Flushers, FlushState(p), Next
  PROVE  FileCountdown(p)'
<1> DEFINE D == {w \in Workers : MarkDue(p, w)}
           W == Where(FlushMark, fileMemBlockChan)
           D1 == {w \in Workers : MarkDue(p, w)'}
           W1 == Where(FlushMark, fileMemBlockChan')
<1>1. TypeOK /\ fileMemBlockChan \in Seq(Blocks \cup Marks) /\ NumWorkers \in Nat
  BY WorkersAssumption DEF FlushState, IInv, TypeOK, TypeWriter
<1>2. /\ FlushMark # 0 /\ FlushMark \notin Blocks /\ FlushMark \in Marks /\ FlushMark # ShutdownMark
      /\ FlushMark \in Blocks \cup Marks
  BY BlockFacts DEF Marks
<1>3. /\ Cardinality(D) \in Nat /\ Cardinality(W) \in Nat
      /\ Cardinality(D) = 0 <=> \A w \in Workers : ~MarkDue(p, w)
      /\ Cardinality(W) = 0 <=> W = {}
      /\ FlushAtFile(p) => memWritersFlushLeft = Cardinality(D) + Cardinality(W)
      /\ ~FlushAtFile(p) => /\ memWritersFlushLeft = NumWorkers
                            /\ \A w \in Workers : ~MarkDue(p, w)
                            /\ W = {}
  BY FileCount
<1>4. Cardinality(Workers) = NumWorkers /\ Cardinality({}) = 0
  BY AllWorkersCount, FS_EmptySet
<1>5. SUFFICES /\ FlushAtFile(p)' => memWritersFlushLeft' = Cardinality(D1) + Cardinality(W1)
               /\ ~FlushAtFile(p)' => memWritersFlushLeft' = NumWorkers
  BY DEF FileCountdown, Where
<1>6. CASE FlushCall(p)
  <2>1. /\ ~FlushAtFile(p) /\ FlushAtFile(p)' /\ memWritersFlushLeft' = memWritersFlushLeft
        /\ W = {} /\ W1 = W
        /\ \A w \in Workers : MarkDue(p, w)'
    BY <1>6, FlushCallMarks
  <2>2. D1 = Workers
    BY <2>1
  <2> HIDE DEF D, W, D1, W1
  <2> QED
    BY <1>1, <1>3, <1>4, <2>1, <2>2
<1>7. CASE FileMark /\ inHand = FlushMark
  <2>1. /\ FlushAtFile(p)' <=> markNext + 1 < NumWorkers
        /\ \A w \in Workers : ~MarkDue(p, w) /\ ~MarkDue(p, w)'
        /\ W = {} /\ W1 = W /\ FlushAtFile(p)
    BY <1>7, FlushFileMark
  <2>2. D = {} /\ D1 = {}
    BY <2>1
  <2>3. memWritersFlushLeft' = IF markNext + 1 < NumWorkers THEN memWritersFlushLeft ELSE NumWorkers
    BY <1>7 DEF FileMark, FlushParties
  <2> HIDE DEF D, W, D1, W1
  <2> QED
    BY <1>1, <1>3, <1>4, <2>1, <2>2, <2>3
<1>8. ASSUME NEW v \in Workers, MemMark(v), req[v] = FlushReq
      PROVE  FileCountdown(p)'
  <2>1. /\ fileMemBlockChan' = Append(fileMemBlockChan, FlushMark)
        /\ UNCHANGED <<memWritersFlushLeft, inHand, flushPC>> /\ Len(fileMemBlockChan) \in Nat
    BY <1>1, <1>2, <1>8, RequestFacts DEF MemMark, fileVars, callerVars
  <2>2. Cardinality(W1) = Cardinality(W) + 1
    BY <1>1, <1>2, <2>1, WhereAppend
  <2>3. MarkDue(p, v) /\ ~MarkDue(p, v)' /\ FlushAtFile(p)
    BY <1>8, MarkDueSent DEF FlushAtFile
  <2>4. ~FlushCall(p) /\ ~FileMark
    <3>1. FlushCall(p) \/ FileMark => fileMemBlockChan' = fileMemBlockChan
      BY DEF FlushCall, FileMark
    <3>2. Len(fileMemBlockChan') = Len(fileMemBlockChan) + 1
      BY <1>1, <1>2, <2>1, AppendElems
    <3> QED
      BY <2>1, <3>1, <3>2
  <2>5. FlushAtFile(p)'
    BY <2>3, <2>4, AtFileStep
  <2>6. ASSUME NEW w \in Workers, w # v PROVE MarkDue(p, w)' <=> MarkDue(p, w)
    <3>1. req'[w] = req[w]
      BY <1>1, <1>8, <2>6 DEF MemMark, TypeOK, TypeWriter
    <3> QED
      BY <2>1, <3>1 DEF MarkDue
  <2>7. D1 = D \ {v} /\ v \in D
    BY <2>3, <2>6
  <2>8. Cardinality(D1) = Cardinality(D) - 1
    <3>1. D \in SUBSET Workers
      OBVIOUS
    <3> QED
      BY <2>7, <3>1, WorkersCount
  <2> HIDE DEF D, W, D1, W1
  <2>9. memWritersFlushLeft' = Cardinality(D1) + Cardinality(W1)
    BY <1>3, <2>1, <2>2, <2>3, <2>8
  <2> QED
    BY <2>5, <2>9 DEF FileCountdown, Where, D1, W1
<1>9. CASE FileReceive
  <2>1. /\ fileMemBlockChan # <<>> /\ fileMemBlockChan' = Tail(fileMemBlockChan)
        /\ memWritersFlushLeft' = memWritersFlushLeft - (IF Head(fileMemBlockChan) = FlushMark THEN 1 ELSE 0)
        /\ UNCHANGED <<req, flushPC>>
    BY <1>1, <1>9 DEF FileReceive, writerVars, callerVars, TypeOK, TypeFile
  <2>2. D1 = D
    BY <2>1 DEF MarkDue
  <2>3. Cardinality(W1) = Cardinality(W) - (IF Head(fileMemBlockChan) = FlushMark THEN 1 ELSE 0)
    BY <1>1, <2>1, WhereTail
  <2>4. Head(fileMemBlockChan) = FlushMark => 1 \in W
    BY <1>1, <2>1, WhereReceive
  <2>5. ~FlushCall(p) /\ ~FileMark
    <3>1. FileMark => inHand \in Marks
      BY DEF FileMark
    <3>2. inHand = 0 /\ UNCHANGED flushPC
      BY <1>9, <2>1 DEF FileReceive
    <3>3. FlushCall(p) => flushPC'[p] # flushPC[p]
      <4>1. FlushCall(p) => flushPC[p] = 0 /\ flushPC'[p] = 1
        BY FlushCallMarks
      <4> QED
        BY <4>1
    <3>4. 0 \notin Marks
      BY BlockFacts DEF Marks
    <3> QED
      BY <3>1, <3>2, <3>3, <3>4
  <2>6. FlushAtFile(p)' <=> FlushAtFile(p)
    BY <2>5, AtFileStep
  <2>7. memWritersFlushLeft \in Nat
    BY <1>1 DEF TypeOK, TypeFile
  <2> HIDE DEF D, W, D1, W1
  <2>8. ~FlushAtFile(p) => Head(fileMemBlockChan) # FlushMark
    BY <1>3, <2>4
  <2>9. CASE Head(fileMemBlockChan) = FlushMark
    BY <1>3, <2>1, <2>2, <2>3, <2>6, <2>7, <2>8, <2>9
  <2>10. CASE Head(fileMemBlockChan) # FlushMark
    BY <1>3, <2>1, <2>2, <2>3, <2>6, <2>7, <2>8, <2>10
  <2> QED
    BY <2>9, <2>10
<1>10. CASE /\ ~FlushCall(p) /\ ~(FileMark /\ inHand = FlushMark) /\ ~FileReceive
            /\ \A v \in Workers : ~(MemMark(v) /\ req[v] = FlushReq)
  <2>1. \A w \in Workers : MarkDue(p, w)' <=> MarkDue(p, w)
    BY <1>10, MarkDueStep
  <2>2. D1 = D
    BY <2>1
  <2>3. W1 = W
    <3>1. ASSUME NEW x \in Blocks \cup Marks, fileMemBlockChan' = Append(fileMemBlockChan, x), x # FlushMark
          PROVE  W1 = W
      BY <1>1, <3>1, WhereSend
    <3> QED
      BY <1>1, <1>2, <1>10, <3>1, QueueStep
  <2>4. FlushAtFile(p)' <=> FlushAtFile(p)
    BY <1>10, AtFileStep
  <2>5. memWritersFlushLeft' = memWritersFlushLeft
    <3>1. FileWrite => memWritersFlushLeft' = memWritersFlushLeft
      BY DEF FileWrite
    <3>2. FileMark => memWritersFlushLeft' = memWritersFlushLeft
      BY <1>10 DEF FileMark
    <3> QED
      BY <1>10, <3>1, <3>2, InHandStep
  <2> HIDE DEF D, W, D1, W1
  <2> QED
    BY <1>3, <2>2, <2>3, <2>4, <2>5
<1> QED
  BY <1>6, <1>7, <1>8, <1>9, <1>10 DEF FileCountdown, Where

\* So does the countdown of the tocWriter.
LEMMA TOCCountdownStep ==
  ASSUME NEW p \in Flushers, FlushState(p), Next
  PROVE  TOCCountdown(p)'
<1> DEFINE C == {c \in Workers : ClearDue(p, c)}
           B == BlocksOf(FlushMark, pendingTOCBlockChan)
           C1 == {c \in Workers : ClearDue(p, c)'}
           B1 == BlocksOf(FlushMark, pendingTOCBlockChan')
<1>1. /\ TypeOK /\ OneFlusher /\ pendingTOCBlockChan \in Seq(TOCBlock) /\ NumWorkers \in Nat /\ NumWorkers > 0
      /\ flushPC \in [Flushers -> 0..(NumWorkers + 1)] /\ (\A q \in Flushers : q = p)
      /\ memClearersFlushLeft \in Nat /\ flushedChan \in 0..1
  BY WorkersAssumption DEF FlushState, IInv, TypeOK, TypeClearer, TypeCaller, TypeTOC, OneFlusher
<1>2. FlushMark # 0 /\ FlushMark \in Marks /\ \A c \in Workers : tb[c].file # FlushMark
  BY BlockFacts DEF Marks, FlushState, StopInv, TBFiles
<1>3. /\ Cardinality(C) \in Nat /\ Cardinality(B) \in Nat
      /\ Cardinality(C) = 0 <=> \A c \in Workers : ~ClearDue(p, c)
      /\ Cardinality(B) = 0 <=> B = {}
      /\ FlushAtTOC(p) => /\ memClearersFlushLeft = Cardinality(C) + Cardinality(B)
                          /\ memClearersFlushLeft > 0
                          /\ flushedChan = 0 /\ flushPC[p] # 0
      /\ ~FlushAtTOC(p) => B = {}
  BY TOCCount
<1>4. ~FlushAtTOC(p) =>
        \/ memClearersFlushLeft = 0 /\ flushedChan = 0 /\ flushPC[p] # 0
        \/ memClearersFlushLeft = NumWorkers /\ flushedChan = IF flushPC[p] = 0 THEN 0 ELSE 1
  BY DEF FlushState, FlushMarks, TOCCountdown
<1>5. Cardinality(Workers) = NumWorkers /\ Cardinality({}) = 0
  BY AllWorkersCount, FS_EmptySet
<1>6. SUFFICES
        /\ FlushAtTOC(p)' => memClearersFlushLeft' = Cardinality(C1) + Cardinality(B1) /\ flushedChan' = 0
        /\ ~FlushAtTOC(p)' =>
             \/ memClearersFlushLeft' = 0 /\ flushedChan' = 0 /\ flushPC'[p] # 0
             \/ memClearersFlushLeft' = NumWorkers /\ flushedChan' = IF flushPC'[p] = 0 THEN 0 ELSE 1
  BY DEF TOCCountdown, BlocksOf
<1>7. CASE FlushCall(p)
  <2>1. /\ ~FlushAtTOC(p) /\ flushPC[p] = 0 /\ FlushAtTOC(p)' /\ (\A c \in Workers : ClearDue(p, c)')
        /\ B = {} /\ B1 = B /\ UNCHANGED <<memClearersFlushLeft, flushedChan>>
    BY <1>7, FlushCallMarks
  <2>2. C1 = Workers
    BY <2>1
  <2> HIDE DEF C, B, C1, B1
  <2> QED
    BY <1>1, <1>4, <1>5, <2>1, <2>2
<1>8. ASSUME NEW d \in Workers, ClearMark(d), clearing[d] = FlushMark
      PROVE  TOCCountdown(p)'
  <2>1. /\ pendingTOCBlockChan' = Append(pendingTOCBlockChan, MarkTB(FlushMark))
        /\ UNCHANGED <<memClearersFlushLeft, flushedChan, flushPC, req, fileMemBlockChan, inHand, markNext,
                       freeableMemBlockChans>>
    BY <1>8 DEF ClearMark, tocVars, callerVars, writerVars, fileVars
  <2>2. MarkTB(FlushMark) \in TOCBlock /\ MarkTB(FlushMark).file = FlushMark
    BY DEF MarkTB, TOCBlock, Marks
  <2>3. Cardinality(B1) = Cardinality(B) + 1 /\ Len(pendingTOCBlockChan) + 1 \in B1
    BY <1>1, <2>1, <2>2, BlocksOfAppend, BlocksOfSend
  <2>4. FlushAtTOC(p)'
    BY <2>3 DEF FlushAtTOC, BlocksOf
  <2>5. ClearDue(p, d) /\ ~ClearDue(p, d)'
    BY <1>8, ClearDueSent
  <2>6. ASSUME NEW c \in Workers, c # d PROVE ClearDue(p, c)' <=> ClearDue(p, c)
    <3>1. clearing'[c] = clearing[c]
      BY <1>1, <1>8, <2>6 DEF ClearMark, TypeOK, TypeClearer
    <3>2. FlushSentTo(p, c)' <=> FlushSentTo(p, c)
      BY <2>1 DEF FlushSentTo, FlushAtFile, MarkDue, Where
    <3> QED
      BY <2>1, <3>1, <3>2 DEF ClearDue, Where
  <2>7. C1 = C \ {d} /\ d \in C /\ FlushAtTOC(p)
    BY <2>5, <2>6 DEF FlushAtTOC
  <2>8. Cardinality(C1) = Cardinality(C) - 1
    <3>1. C \in SUBSET Workers
      OBVIOUS
    <3> QED
      BY <2>7, <3>1, WorkersCount
  <2> HIDE DEF C, B, C1, B1
  <2>9. memClearersFlushLeft' = Cardinality(C1) + Cardinality(B1) /\ flushedChan' = 0
    BY <1>3, <2>1, <2>3, <2>7, <2>8
  <2> QED
    BY <2>4, <2>9 DEF TOCCountdown, BlocksOf, C1, B1
<1>9. CASE TOCBlockWritten \/ TOCMark
  <2> DEFINE flush == Head(pendingTOCBlockChan).file = FlushMark
  <2>1. /\ \A c \in Workers : ClearDue(p, c)' <=> ClearDue(p, c)
        /\ Cardinality(B1) = Cardinality(B) - (IF flush THEN 1 ELSE 0)
        /\ Cardinality(B1) \in Nat
        /\ flush => FlushAtTOC(p)
    BY <1>9, TOCReceives
  <2>2. C1 = C
    BY <2>1
  <2>3. /\ UNCHANGED <<flushedChan, flushPC>>
        /\ memClearersFlushLeft' = memClearersFlushLeft - (IF flush THEN 1 ELSE 0)
    BY <1>1, <1>2, <1>9 DEF TOCBlockWritten, TOCMark, callerVars
  <2>4. ~FlushCall(p)
    <3>1. FlushCall(p) => flushPC[p] = 0 /\ flushPC'[p] = 1
      BY FlushCallMarks
    <3> QED
      BY <2>3, <3>1
  <2>5. \/ FlushAtTOC(p)' <=> FlushAtTOC(p)
        \/ flush /\ memClearersFlushLeft = 1 /\ FlushAtTOC(p) /\ ~FlushAtTOC(p)'
    BY <2>4, AtTOCStep
  <2> HIDE DEF C, B, C1, B1
  <2>6. CASE flush
    <3>1. memClearersFlushLeft' = memClearersFlushLeft - 1 /\ Cardinality(B1) = Cardinality(B) - 1 /\ FlushAtTOC(p)
      BY <2>1, <2>3, <2>6
    <3> QED
      BY <1>1, <1>3, <2>2, <2>3, <2>5, <3>1
  <2>7. CASE ~flush
    <3>1. memClearersFlushLeft' = memClearersFlushLeft /\ Cardinality(B1) = Cardinality(B)
      BY <1>1, <1>3, <2>1, <2>3, <2>7
    <3> QED
      BY <1>3, <1>4, <2>2, <2>3, <2>5, <2>7, <3>1
  <2> QED
    BY <2>6, <2>7
<1>10. CASE /\ ~FlushCall(p) /\ ~TOCBlockWritten /\ ~TOCMark
            /\ \A d \in Workers : ~(ClearMark(d) /\ clearing[d] = FlushMark)
  <2>1. \A c \in Workers : ClearDue(p, c)' <=> ClearDue(p, c)
    BY <1>10, ClearDueStep
  <2>2. C1 = C
    BY <2>1
  <2>3. B1 = B
    <3>1. ASSUME NEW x \in TOCBlock, pendingTOCBlockChan' = Append(pendingTOCBlockChan, x), x.file # FlushMark
          PROVE  B1 = B
      BY <1>1, <3>1, BlocksOfSend
    <3> QED
      BY <1>1, <1>2, <1>10, <3>1, PendingStep
  <2>4. FlushAtTOC(p)' <=> FlushAtTOC(p)
    BY <1>10, AtTOCStep
  <2> HIDE DEF C, B, C1, B1
  <2>5. CASE TOCFlushed
    <3>1. /\ memClearersFlushLeft = 0 /\ flushedChan' = 1 /\ memClearersFlushLeft' = NumWorkers
          /\ flushPC' = flushPC
      BY <2>5 DEF TOCFlushed, FlushParties, callerVars
    <3> QED
      BY <1>1, <1>3, <1>4, <2>4, <3>1
  <2>6. CASE FlushReturn(p)
    <3>1. flushedChan = 1 /\ flushedChan' = 0 /\ flushPC'[p] = 0 /\ memClearersFlushLeft' = memClearersFlushLeft
      BY <1>1, <2>6 DEF FlushReturn
    <3> QED
      BY <1>1, <1>3, <1>4, <2>4, <3>1
  <2>7. CASE ~TOCFlushed /\ ~FlushReturn(p)
    <3>1. UNCHANGED <<memClearersFlushLeft, flushedChan>>
      BY <1>1, <1>10, <2>7, TOCLeftStep
    <3>2. FlushSend(p) => flushPC[p] \in 1..NumWorkers
      BY DEF FlushSend, Workers
    <3>3. flushPC[p] = 0 <=> flushPC'[p] = 0
      BY <1>1, <1>10, <2>7, <3>2, FlushPCStep
    <3> QED
      BY <1>3, <1>4, <2>2, <2>3, <2>4, <3>1, <3>3
  <2> QED
    BY <2>5, <2>6, <2>7
<1> QED
  BY <1>7, <1>8, <1>9, <1>10 DEF TOCCountdown, BlocksOf

\* No mark is anywhere before the first Flush.
LEMMA FlushMarksInit == ASSUME NEW p \in Flushers, Init PROVE FlushMarks(p)
<1>1. /\ flushPC[p] = 0 /\ (\A w \in Workers : req[w] = NoReq) /\ fileMemBlockChan = <<>> /\ inHand = 0
      /\ (\A c \in Workers : freeableMemBlockChans[c] = <<>> /\ clearing[c] = 0)
      /\ pendingTOCBlockChan = <<>> /\ memWritersFlushLeft = NumWorkers
      /\ memClearersFlushLeft = NumWorkers /\ flushedChan = 0
  BY DEF Init, FlushParties
<1>2. FlushMark # 0 /\ NoReq # FlushReq
  BY BlockFacts DEF Marks, NoReq, FlushReq
<1>3. Where(FlushMark, <<>>) = {} /\ BlocksOf(FlushMark, <<>>) = {}
  BY EmptySeq DEF Where, BlocksOf
<1>4. \A w \in Workers : ~MarkDue(p, w)
  BY <1>1, <1>2 DEF MarkDue
<1>5. ~FlushAtFile(p)
  BY <1>1, <1>2, <1>3, <1>4 DEF FlushAtFile
<1>6. \A c \in Workers : FlushSentTo(p, c) /\ ~ClearDue(p, c)
  BY <1>1, <1>2, <1>3, <1>5 DEF FlushSentTo, ClearDue
<1>7. ~FlushAtTOC(p)
  BY <1>1, <1>3, <1>6 DEF FlushAtTOC
<1>8. OneMarkEach(p)
  BY <1>1, <1>2, <1>3, <1>7 DEF OneMarkEach
<1>9. FileCountdown(p) /\ TOCCountdown(p)
  BY <1>1, <1>5, <1>7 DEF FileCountdown, TOCCountdown
<1> QED
  BY <1>8, <1>9 DEF FlushMarks

-----------------------------------------------------------------------------
(* The location map and the blocks while a Flush is under way *)

\* What a memWriter that stores a value does to its block and to the location map.
LEMMA StoreDoes ==
  ASSUME IInv, NEW w \in Workers, MemStore(w)
  PROVE  LET b == memBlock[w]
             ts == NoRewrite(req[w].ts) IN
         /\ req[w] \in Requests /\ req[w].ts \in Nat /\ ts \in Nat /\ b \in Blocks /\ blockFile[b] = 0
         /\ \A d \in Blocks : d # b => mem'[d] = mem[d]
         /\ \A i \in DOMAIN mem[b] : i \in DOMAIN mem'[b] /\ mem'[b][i] = mem[b][i]
         /\ \A i \in DOMAIN mem'[b] : \/ i \in DOMAIN mem[b] /\ mem'[b][i] = mem[b][i]
                                      \/ mem'[b][i].ts = ts
         /\ \A k \in Keys : \/ locmap'[k] = locmap[k]
                            \/ locmap'[k].id = b /\ locmap'[k].ts = ts /\ ts >= locmap[k].ts
<1> DEFINE r == req[w]
           b == memBlock[w]
           e == [key |-> r.key, ts |-> NoRewrite(r.ts)]
           off == Len(mem[b]) + 1
           same == HasBit(r.ts, TSB_COMPACTION_REWRITE)
<1>1. TypeOK /\ BeforeFile
  BY DEF IInv
<1>2. r \in Requests /\ r.key \in Keys /\ r.ts \in Nat
  BY <1>1, StoreKeepsNewest
<1>3. /\ b \in Blocks /\ b # 0 /\ blockFile[b] = 0
      /\ mem \in [Blocks -> Seq(Entry)] /\ locmap \in [Keys -> [ts : Nat, id : Nat, off : Nat]]
  BY <1>1 DEF MemStore, TypeOK, TypeWriter, TypeMem, BeforeFile, Location
<1>4. e \in Entry /\ e.ts = NoRewrite(r.ts) /\ NoRewrite(r.ts) \in Nat
  BY <1>2, NoRewriteFacts DEF Entry
<1>5. mem' = mem \/ mem' = [mem EXCEPT ![b] = Append(mem[b], e)]
  BY DEF MemStore
<1>6. locmap' = Set(locmap, r.key, e.ts, b, off, same)
  BY DEF MemStore
<1> HIDE DEF r, b, e, off, same
<1>7. \A k \in Keys : locmap'[k] = locmap[k] \/ (locmap'[k].id = b /\ locmap'[k].ts = e.ts /\ e.ts >= locmap[k].ts)
  <2>1. CASE Wins(locmap[r.key], e.ts, same)
    <3>1. locmap' = [locmap EXCEPT ![r.key] = [ts |-> e.ts, id |-> b, off |-> off]]
      BY <1>3, <1>6, <2>1 DEF Set
    <3>2. e.ts >= locmap[r.key].ts
      BY <1>2, <1>3, <1>4, <2>1 DEF Wins
    <3> QED
      BY <1>2, <1>3, <3>1, <3>2
  <2>2. CASE ~Wins(locmap[r.key], e.ts, same)
    BY <1>6, <2>2 DEF Set
  <2> QED
    BY <2>1, <2>2
<1>8. /\ \A d \in Blocks : d # b => mem'[d] = mem[d]
      /\ \A i \in DOMAIN mem[b] : i \in DOMAIN mem'[b] /\ mem'[b][i] = mem[b][i]
      /\ \A i \in DOMAIN mem'[b] : (i \in DOMAIN mem[b] /\ mem'[b][i] = mem[b][i]) \/ mem'[b][i] = e
  <2>1. CASE mem' = mem
    BY <2>1
  <2>2. CASE mem' = [mem EXCEPT ![b] = Append(mem[b], e)]
    <3>1. /\ \A d \in Blocks : d # b => mem'[d] = mem[d]
          /\ mem'[b] = Append(mem[b], e) /\ mem[b] \in Seq(Entry)
      BY <1>3, <2>2
    <3>2. /\ \A i \in DOMAIN mem[b] : i \in DOMAIN mem'[b] /\ mem'[b][i] = mem[b][i]
          /\ \A i \in DOMAIN mem'[b] : (i \in DOMAIN mem[b] /\ mem'[b][i] = mem[b][i]) \/ mem'[b][i] = e
      BY <1>4, <3>1, AppendElems
    <3> QED
      BY <3>1, <3>2
  <2> QED
    BY <1>5, <2>1, <2>2
<1>9. \A i \in DOMAIN mem'[b] : (i \in DOMAIN mem[b] /\ mem'[b][i] = mem[b][i]) \/ mem'[b][i].ts = e.ts
  BY <1>8
<1> QED
  BY <1>2, <1>3, <1>4, <1>7, <1>8, <1>9 DEF r, b

\* The entry that a memClearer is at, where there are no local removals.
LEMMA ClearEntryIs ==
  ASSUME IInv, NoRemovals, NEW c \in Workers, clearing[c] \in Blocks, clearPos[c] <= Len(mem[clearing[c]])
  PROVE  LET b == clearing[c]
             m == mem[b][clearPos[c]]
             e == TOCEntryAt(c) IN
         /\ blockFile[b] \in Nat \ {0} /\ clearPos[c] \in DOMAIN mem[b]
         /\ m.key \in Keys /\ m.ts \in Nat /\ ~HasBit(m.ts, TSB_LOCAL_REMOVAL)
         /\ e.key = m.key /\ e.ts = m.ts /\ e.off # 0 /\ e \in TOCEntry
         /\ FileID(blockFile[b]) # 0
<1> DEFINE b == clearing[c]
           m == mem[b][clearPos[c]]
           e == TOCEntryAt(c)
<1>1. /\ blockFile[b] \in Nat \ {0} /\ clearPos[c] \in DOMAIN mem[b] /\ mem[b] \in Seq(Entry)
      /\ blockOffset[b] \in Nat /\ clearPos[c] \in Nat \ {0}
  BY DEF IInv, AfterFile, TypeOK, TypeFile, TypeMem, TypeClearer
<1>2. m.key \in Keys /\ m.ts \in Nat
  <2>1. m \in Entry
    BY <1>1
  <2> QED
    BY <2>1 DEF Entry
<1>3. ~HasBit(m.ts, TSB_LOCAL_REMOVAL)
  BY <1>1 DEF NoRemovals
<1>4. e.key = m.key /\ e.ts = m.ts /\ e.off = blockOffset[b] + clearPos[c]
  BY <1>3 DEF TOCEntryAt
<1>5. FileID(blockFile[b]) # 0
  BY <1>1, BlockFacts, SMTT(30) DEF FileID
<1>6. e \in TOCEntry
  BY EntryAtType DEF IInv, TypeOK
<1>7. e.off # 0
  <2> HIDE DEF e, b
  <2> QED
    BY <1>1, <1>4
<1> QED
  BY <1>1, <1>2, <1>3, <1>4, <1>5, <1>6, <1>7

\* What a memClearer does to the location map then.
LEMMA ClearEntryMoves ==
  ASSUME IInv, NoRemovals, NEW c \in Workers, ClearEntry(c)
  PROVE  \A k \in Keys : \/ locmap'[k] = locmap[k]
                         \/ /\ locmap'[k].id # 0 /\ locmap'[k].ts >= locmap[k].ts
                            /\ ~HasBit(locmap'[k].ts, TSB_LOCAL_REMOVAL)
<1> DEFINE b == clearing[c]
           e == TOCEntryAt(c)
<1>1. clearing[c] \in Blocks /\ clearPos[c] <= Len(mem[clearing[c]])
  BY DEF ClearEntry
<1>2. /\ e.key \in Keys /\ e.ts \in Nat /\ ~HasBit(e.ts, TSB_LOCAL_REMOVAL)
      /\ FileID(blockFile[b]) # 0
  BY <1>1, ClearEntryIs
<1>3. locmap' = Set(locmap, e.key, e.ts, FileID(blockFile[b]), e.off, TRUE)
  BY <1>2 DEF ClearEntry
<1>4. locmap \in [Keys -> [ts : Nat, id : Nat, off : Nat]]
  BY DEF IInv, TypeOK, TypeMem, Location
<1> HIDE DEF b, e
<1>5. \/ locmap' = locmap
      \/ /\ locmap[e.key].ts <= e.ts
         /\ locmap' = [locmap EXCEPT ![e.key] = [ts |-> e.ts, id |-> FileID(blockFile[b]), off |-> e.off]]
  BY <1>2, <1>3, <1>4 DEF Set, Wins
<1>6. CASE locmap' = locmap
  BY <1>6
<1>7. CASE /\ locmap[e.key].ts <= e.ts
           /\ locmap' = [locmap EXCEPT ![e.key] = [ts |-> e.ts, id |-> FileID(blockFile[b]), off |-> e.off]]
  <2>1. \A k \in Keys : k # e.key => locmap'[k] = locmap[k]
    BY <1>4, <1>7
  <2>2. locmap'[e.key].id # 0 /\ locmap'[e.key].ts = e.ts
    BY <1>2, <1>4, <1>7
  <2>3. e.ts >= locmap[e.key].ts
    BY <1>2, <1>4, <1>7
  <2> QED
    BY <1>2, <2>1, <2>2, <2>3
<1> QED
  BY <1>5, <1>6, <1>7

\* The location map has no local removals and no key without a location, and
\* only Shutdown makes it forget.
LEMMA LocationsStep ==
  ASSUME OneFlusher, IInv, NoRemovals, NoGhosts, Next
  PROVE  /\ NoRemovals'
         /\ NoGhosts'
         /\ \A k \in Keys : locmap'[k].ts >= locmap[k].ts \/ ShutdownReturn
<1>1. /\ mem \in [Blocks -> Seq(Entry)] /\ locmap \in [Keys -> [ts : Nat, id : Nat, off : Nat]]
  BY DEF IInv, TypeOK, TypeMem, Location
<1>2. \A k \in Keys : locmap[k].ts >= locmap[k].ts
  BY <1>1
<1>3. ~HasBit(0, TSB_LOCAL_REMOVAL)
  BY RemovalBit
<1>4. ASSUME UNCHANGED <<locmap, mem>>
      PROVE  /\ NoRemovals' /\ NoGhosts'
             /\ \A k \in Keys : locmap'[k].ts >= locmap[k].ts \/ ShutdownReturn
  BY <1>2, <1>4 DEF NoRemovals, NoGhosts
<1>5. ASSUME NEW w \in Workers, MemStore(w)
      PROVE  /\ NoRemovals' /\ NoGhosts'
             /\ \A k \in Keys : locmap'[k].ts >= locmap[k].ts \/ ShutdownReturn
  <2> DEFINE b == memBlock[w]
             ts == NoRewrite(req[w].ts)
  <2>1. /\ req[w] \in Requests /\ req[w].ts \in Nat /\ b \in Blocks /\ ts \in Nat
        /\ \A d \in Blocks : d # b => mem'[d] = mem[d]
        /\ \A i \in DOMAIN mem'[b] : (i \in DOMAIN mem[b] /\ mem'[b][i] = mem[b][i]) \/ mem'[b][i].ts = ts
        /\ \A k \in Keys : \/ locmap'[k] = locmap[k]
                           \/ locmap'[k].id = b /\ locmap'[k].ts = ts /\ ts >= locmap[k].ts
    BY <1>5, StoreDoes
  <2>2. ~HasBit(ts, TSB_LOCAL_REMOVAL) /\ b # 0
    BY <2>1, RemovalBit, BlockFacts DEF OneFlusher
  <2> HIDE DEF b, ts
  <2> QED
    BY <1>2, <2>1, <2>2 DEF NoRemovals, NoGhosts
<1>6. ASSUME NEW c \in Workers, ClearEntry(c)
      PROVE  /\ NoRemovals' /\ NoGhosts'
             /\ \A k \in Keys : locmap'[k].ts >= locmap[k].ts \/ ShutdownReturn
  <2>1. UNCHANGED mem
    BY <1>6 DEF ClearEntry, memVars
  <2> QED
    BY <1>2, <1>6, <2>1, ClearEntryMoves DEF NoRemovals, NoGhosts
<1>7. ASSUME NEW c \in Workers, ClearFree(c)
      PROVE  /\ NoRemovals' /\ NoGhosts'
             /\ \A k \in Keys : locmap'[k].ts >= locmap[k].ts \/ ShutdownReturn
  <2>1. UNCHANGED locmap /\ mem' = [mem EXCEPT ![clearing[c]] = <<>>]
    BY <1>7 DEF ClearFree
  <2>2. \A b \in Blocks : mem'[b] = mem[b] \/ mem'[b] = <<>>
    BY <1>1, <2>1
  <2> QED
    BY <1>2, <2>1, <2>2 DEF NoRemovals, NoGhosts
<1>8. CASE ShutdownReturn
  <2>1. UNCHANGED mem /\ \A k \in Keys : locmap'[k].ts = 0 /\ locmap'[k].id = 0
    BY <1>8 DEF ShutdownReturn, memVars, Missing
  <2> QED
    BY <1>3, <1>8, <2>1 DEF NoRemovals, NoGhosts
<1>9. \A k \in Keys : ~DiscardLocalRemoval(k)
  BY DEF DiscardLocalRemoval, NoRemovals
<1>10. ASSUME NEW w \in Workers,
             \/ (\E r \in Requests : MemReceive(w, r)) \/ MemSwitch(w) \/ MemReject(w) \/ MemRotate(w)
             \/ MemTake(w) \/ MemMark(w) \/ ClearReceive(w) \/ ClearSendTOC(w) \/ ClearSendFull(w)
             \/ ClearMark(w)
      PROVE  UNCHANGED <<locmap, mem>>
  BY <1>10 DEF MemReceive, MemSwitch, MemReject, MemRotate, MemTake, MemMark, ClearReceive, ClearSendTOC,
     ClearSendFull, ClearMark, memVars
<1>11. FileWriter \/ BufferWritten \/ TOCWriter => UNCHANGED <<locmap, mem>>
  BY DEF FileWriter, FileReceive, FileClosed, FileCreate, FileWrite, FileMark, BufferWritten, TOCWriter,
     TOCBlockWritten, TOCMark, TOCFlushed, memVars
<1>12. Callers /\ ~ShutdownReturn /\ ~(\E k \in Keys : DiscardLocalRemoval(k)) => UNCHANGED <<locmap, mem>>
  BY DEF Callers, FlushStep, FlushCall, FlushSend, FlushReturn, ShutdownCall, ShutdownSend, ReadGet,
     ReadMemBlock, ReadFile, ReadReturn, Idle, vars, memVars
<1> QED
  BY <1>4, <1>5, <1>6, <1>7, <1>8, <1>9, <1>10, <1>11, <1>12 DEF Next, MemWriter, MemClearer, Callers

\* Entries that a TOC, or a TOC block, has, it has when others are added.
LEMMA EntriesAdded ==
  ASSUME NEW s \in Seq(TOCEntry), NEW t \in Seq(TOCEntry), NEW k, NEW ts,
         EntriesHave(s, k, ts) \/ EntriesHave(t, k, ts)
  PROVE  EntriesHave(s \o t, k, ts)
<1>1. ASSUME NEW i \in DOMAIN s, s[i].key = k, s[i].ts >= ts, s[i].off # 0 PROVE EntriesHave(s \o t, k, ts)
  BY <1>1, ConcatElems DEF EntriesHave
<1>2. ASSUME NEW i \in DOMAIN t, t[i].key = k, t[i].ts >= ts, t[i].off # 0 PROVE EntriesHave(s \o t, k, ts)
  <2>1. Len(s) + i \in DOMAIN (s \o t) /\ (s \o t)[Len(s) + i] = t[i]
    BY ConcatElems
  <2> QED
    BY <1>2, <2>1 DEF EntriesHave
<1> QED
  BY <1>1, <1>2 DEF EntriesHave

LEMMA EntryAdded ==
  ASSUME NEW s \in Seq(TOCEntry), NEW e \in TOCEntry, NEW k, NEW ts,
         EntriesHave(s, k, ts) \/ (e.key = k /\ e.ts >= ts /\ e.off # 0)
  PROVE  EntriesHave(Append(s, e), k, ts)
BY AppendKeeps DEF EntriesHave

LEMMA NoEntries == ASSUME NEW k, NEW ts PROVE ~EntriesHave(<<>>, k, ts)
BY EmptySeq DEF EntriesHave

\* A TOC block with such an entry is of a file.
LEMMA EntriesOfFile ==
  ASSUME NEW t, BlockOfFile(t), NEW k, NEW ts, EntriesHave(t.entries, k, ts)
  PROVE  t.file \in DOMAIN files
BY DEF BlockOfFile, EntryInFile, EntriesHave, FileHas

\* No TOC loses an entry, and a file that is closed is not opened again; a TOC
\* that is closed neither.
LEMMA TOCsKept ==
  ASSUME IInv, NoLateTOCBlock, Next, NEW n \in DOMAIN files, NEW k, NEW ts
  PROVE  /\ n \in DOMAIN files'
         /\ n # fl => n # fl'
         /\ EntriesHave(files[n].toc, k, ts) =>
              /\ EntriesHave(files'[n].toc, k, ts)
              /\ n \notin {activeTOCA, activeTOCB} => n \notin {activeTOCA', activeTOCB'}
<1>1. /\ TypeOK /\ files \in Seq(FileRec) /\ fl \in 0..Len(files)
      /\ pendingTOCBlockChan \in Seq(TOCBlock)
  BY DEF IInv, TypeOK, TypeFile, TypeClearer
<1>2. n \in Nat /\ n # 0 /\ n <= Len(files) /\ \A m \in DOMAIN files : files[m] \in FileRec
  BY <1>1
<1>3. CASE UNCHANGED <<files, fl>> /\ (UNCHANGED <<activeTOCA, activeTOCB>> \/ (activeTOCA' = 0 /\ activeTOCB' = 0))
  BY <1>2, <1>3
<1>4. CASE FileCreate
  <2> DEFINE f == [data |-> <<>>, synced |-> 0, toc |-> <<>>]
  <2>1. f \in FileRec /\ files' = Append(files, f) /\ fl' = Len(files) + 1 /\ UNCHANGED <<activeTOCA, activeTOCB>>
    BY <1>4 DEF FileCreate, FileRec, tocVars
  <2> HIDE DEF f
  <2>2. n \in DOMAIN files' /\ files'[n] = files[n]
    BY <1>1, <2>1
  <2> QED
    BY <1>1, <1>2, <2>1, <2>2
<1>5. CASE FileWrite \/ BufferWritten
  <2>1. /\ (\E x : files' = [files EXCEPT ![fl].data = x]) \/ (\E x : files' = [files EXCEPT ![fl].synced = x])
        /\ UNCHANGED <<fl, activeTOCA, activeTOCB>>
    BY <1>5 DEF FileWrite, BufferWritten, tocVars
  <2>2. ASSUME NEW x, files' = [files EXCEPT ![fl].data = x]
        PROVE  DOMAIN files' = DOMAIN files /\ files'[n].toc = files[n].toc
    BY <1>2, <2>2 DEF FileRec
  <2>3. ASSUME NEW x, files' = [files EXCEPT ![fl].synced = x]
        PROVE  DOMAIN files' = DOMAIN files /\ files'[n].toc = files[n].toc
    BY <1>2, <2>3 DEF FileRec
  <2>4. n \in DOMAIN files' /\ files'[n].toc = files[n].toc
    BY <2>1, <2>2, <2>3
  <2> QED
    BY <2>1, <2>4
<1>6. CASE FileClosed
  <2>1. fl' = 0 /\ UNCHANGED <<files, activeTOCA, activeTOCB>>
    BY <1>6 DEF FileClosed, tocVars
  <2> QED
    BY <1>2, <2>1
<1>7. CASE TOCBlockWritten
  <2> DEFINE t == Head(pendingTOCBlockChan)
  <2>1. /\ UNCHANGED fl /\ pendingTOCBlockChan # <<>> /\ t.file \notin Marks
        /\ UNCHANGED <<activeTOCA, activeTOCB>> \/ (activeTOCB' = activeTOCA /\ activeTOCA' = t.file)
    BY <1>7 DEF TOCBlockWritten
  <2>2. 1 \in DOMAIN pendingTOCBlockChan /\ pendingTOCBlockChan[1] = t
    BY <1>1, <2>1, TailElems
  <2>3. files[t.file].toc # <<>> => t.file \in {activeTOCA, activeTOCB}
    BY <2>1, <2>2 DEF NoLateTOCBlock
  <2>4. EntriesHave(files[n].toc, k, ts) => files[n].toc # <<>>
    BY NoEntries
  <2>5. EntriesHave(files[n].toc, k, ts) /\ n \notin {activeTOCA, activeTOCB} => n \notin {activeTOCA', activeTOCB'}
    BY <2>1, <2>3, <2>4
  <2>6. CASE t.file \in DOMAIN files
    <3>1. /\ DOMAIN files' = DOMAIN files
          /\ \A m \in DOMAIN files \ {t.file} : files'[m] = files[m]
          /\ files'[t.file].toc = files[t.file].toc \o t.entries
          /\ files[t.file].toc \in Seq(TOCEntry) /\ t.entries \in Seq(TOCEntry)
      BY <1>7, <2>6, TOCGrows
    <3>2. CASE n = t.file
      BY <2>1, <2>5, <3>1, <3>2, EntriesAdded
    <3>3. CASE n # t.file
      BY <2>1, <2>5, <3>1, <3>3
    <3> QED
      BY <3>2, <3>3
  <2>7. CASE t.file \notin DOMAIN files
    <3>1. PICK x : files' = [files EXCEPT ![t.file].toc = x]
      BY <1>7 DEF TOCBlockWritten
    <3>2. files' = files
      BY <1>1, <2>7, <3>1
    <3> QED
      BY <2>1, <2>5, <3>2
  <2> QED
    BY <2>6, <2>7
<1>8. TOCMark => /\ UNCHANGED <<files, fl>>
                 /\ UNCHANGED <<activeTOCA, activeTOCB>> \/ (activeTOCA' = 0 /\ activeTOCB' = 0)
  BY DEF TOCMark, fileVars
<1>9. ASSUME NEW w \in Workers,
             (\E r \in Requests : MemReceive(w, r)) \/ MemSwitch(w) \/ MemWriter(w) \/ MemClearer(w)
      PROVE  UNCHANGED <<files, fl, activeTOCA, activeTOCB>>
  BY <1>9 DEF MemReceive, MemSwitch, MemWriter, MemReject, MemRotate, MemTake, MemStore, MemMark, MemClearer,
     ClearReceive, ClearSendTOC, ClearEntry, ClearSendFull, ClearFree, ClearMark, fileVars, tocVars
<1>10. FileReceive \/ FileMark \/ TOCFlushed \/ Callers => UNCHANGED <<files, fl, activeTOCA, activeTOCB>>
  BY DEF FileReceive, FileMark, TOCFlushed, Callers, FlushStep, FlushCall, FlushSend, FlushReturn, ShutdownCall,
     ShutdownSend, ShutdownReturn, DiscardLocalRemoval, ReadGet, ReadMemBlock, ReadFile, ReadReturn, Idle, vars,
     fileVars, tocVars
<1> QED
  BY <1>3, <1>4, <1>5, <1>6, <1>7, <1>8, <1>9, <1>10 DEF Next, FileWriter, TOCWriter, Callers

\* What is on disk stays there, and a restart finds it.
LEMMA OnDiskStays ==
  ASSUME IInv, NoLateTOCBlock, Next, NEW k, NEW ts, OnDisk(k, ts)
  PROVE  OnDisk(k, ts)'
<1>1. PICK n \in DOMAIN files : n # fl /\ n \notin {activeTOCA, activeTOCB} /\ EntriesHave(files[n].toc, k, ts)
  BY DEF OnDisk
<1>2. /\ n \in DOMAIN files' /\ n # fl' /\ n \notin {activeTOCA', activeTOCB'}
      /\ EntriesHave(files'[n].toc, k, ts)
  BY <1>1, TOCsKept
<1> QED
  BY <1>2 DEF OnDisk, EntriesHave

LEMMA OnDiskIsRecoverable ==
  ASSUME IInv, SyncOK, TOCEntriesOK, NEW k, NEW ts, OnDisk(k, ts)
  PROVE  Recoverable(k, ts)
<1>1. PICK n \in DOMAIN files : n # fl /\ n \notin {activeTOCA, activeTOCB} /\ EntriesHave(files[n].toc, k, ts)
  BY DEF OnDisk
<1>2. PICK i \in DOMAIN files[n].toc : /\ files[n].toc[i].key = k /\ files[n].toc[i].ts >= ts
                                       /\ files[n].toc[i].off # 0
  BY <1>1 DEF EntriesHave
<1>3. files[n] \in FileRec
  BY DEF IInv, TypeOK, TypeFile
<1>4. files[n].data \in Seq(Entry)
  BY <1>3 DEF FileRec
<1>5. files[n].toc[i].off \in DOMAIN files[n].data
  BY <1>2 DEF TOCEntriesOK, EntryInFile, FileHas
<1>6. files[n].synced = Len(files[n].data)
  BY <1>1 DEF SyncOK
<1>7. files[n].toc[i].off <= files[n].synced
  BY <1>4, <1>5, <1>6
<1> QED
  BY <1>1, <1>2, <1>7 DEF Recoverable

\* What a block has still to be cleared, it keeps, unless its memClearer goes on.
LEMMA BlockHasStays ==
  ASSUME IInv, Next, NEW b \in Blocks, NEW k, NEW ts, BlockHas(b, k, ts),
         \A c \in Workers : clearing[c] = b => ~ClearEntry(c) /\ ~ClearSendFull(c)
  PROVE  /\ BlockHas(b, k, ts)'
         /\ \A c \in Workers : clearing[c] = b => ~ClearFree(c)
<1>1. /\ TypeOK /\ clearing \in [Workers -> Blocks \cup Marks \cup {0}] /\ clearPos \in [Workers -> Nat \ {0}]
      /\ mem \in [Blocks -> Seq(Entry)]
  BY DEF IInv, TypeOK, TypeClearer, TypeMem
<1>2. b # 0 /\ b \notin Marks
  BY BlockFacts
<1>3. PICK i \in DOMAIN mem[b] : /\ mem[b][i].key = k /\ mem[b][i].ts >= ts
                                 /\ \A c \in Workers : clearing[c] = b => i >= clearPos[c]
  BY DEF BlockHas
<1>4. i \in Nat /\ i >= 1 /\ i <= Len(mem[b])
  BY <1>1
<1>5. ASSUME NEW c \in Workers, clearing[c] = b PROVE ~ClearFree(c)
  <2>1. clearPos[c] \in Nat /\ i >= clearPos[c] /\ Len(mem[b]) \in Nat
    BY <1>1, <1>3, <1>5
  <2> QED
    BY <1>4, <1>5, <2>1 DEF ClearFree
<1>6. ASSUME i \in DOMAIN mem'[b], mem'[b][i] = mem[b][i],
             \A c \in Workers : clearing'[c] = b => i >= clearPos'[c]
      PROVE  BlockHas(b, k, ts)'
  BY <1>3, <1>6 DEF BlockHas
<1>7. ASSUME UNCHANGED <<mem, clearing, clearPos>> PROVE BlockHas(b, k, ts)'
  BY <1>3, <1>6, <1>7
<1>8. ASSUME NEW w \in Workers, MemStore(w) PROVE BlockHas(b, k, ts)'
  <2>1. UNCHANGED <<clearing, clearPos>>
    BY <1>8 DEF MemStore, clearerVars
  <2>2. i \in DOMAIN mem'[b] /\ mem'[b][i] = mem[b][i]
    BY <1>8, StoreDoes
  <2> QED
    BY <1>3, <1>6, <2>1, <2>2
<1>9. ASSUME NEW c \in Workers, ClearReceive(c) PROVE BlockHas(b, k, ts)'
  <2>1. /\ UNCHANGED mem /\ clearPos'[c] = 1
        /\ \A d \in Workers \ {c} : clearing'[d] = clearing[d] /\ clearPos'[d] = clearPos[d]
    BY <1>1, <1>9 DEF ClearReceive, memVars
  <2>2. \A d \in Workers : clearing'[d] = b => i >= clearPos'[d]
    BY <1>3, <1>4, <2>1
  <2> QED
    BY <1>6, <2>1, <2>2
<1>10. ASSUME NEW c \in Workers, ClearEntry(c) \/ ClearSendFull(c) PROVE BlockHas(b, k, ts)'
  <2>1. UNCHANGED <<mem, clearing>> /\ \A d \in Workers \ {c} : clearPos'[d] = clearPos[d]
    BY <1>1, <1>10 DEF ClearEntry, ClearSendFull, memVars
  <2>2. \A d \in Workers : clearing'[d] = b => i >= clearPos'[d]
    BY <1>3, <1>10, <2>1
  <2> QED
    BY <1>6, <2>1, <2>2
<1>11. ASSUME NEW c \in Workers, ClearFree(c) PROVE BlockHas(b, k, ts)'
  <2>1. clearing[c] # b /\ clearing'[c] = 0 /\ mem' = [mem EXCEPT ![clearing[c]] = <<>>]
        /\ \A d \in Workers \ {c} : clearing'[d] = clearing[d] /\ clearPos'[d] = clearPos[d]
    BY <1>1, <1>5, <1>11 DEF ClearFree
  <2>2. mem'[b] = mem[b]
    BY <1>1, <2>1
  <2>3. \A d \in Workers : clearing'[d] = b => i >= clearPos'[d]
    BY <1>2, <1>3, <2>1
  <2> QED
    BY <1>6, <2>2, <2>3
<1>12. ASSUME NEW c \in Workers, ClearMark(c) PROVE BlockHas(b, k, ts)'
  <2>1. /\ clearing'[c] = 0 /\ UNCHANGED <<mem, clearPos>>
        /\ \A d \in Workers \ {c} : clearing'[d] = clearing[d]
    BY <1>1, <1>12 DEF ClearMark, memVars
  <2>2. \A d \in Workers : clearing'[d] = b => i >= clearPos'[d]
    BY <1>2, <1>3, <2>1
  <2> QED
    BY <1>6, <2>1, <2>2
<1>13. ASSUME NEW w \in Workers,
             \/ (\E r \in Requests : MemReceive(w, r)) \/ MemSwitch(w) \/ MemReject(w) \/ MemRotate(w)
             \/ MemTake(w) \/ MemMark(w) \/ ClearSendTOC(w)
      PROVE  UNCHANGED <<mem, clearing, clearPos>>
  BY <1>13 DEF MemReceive, MemSwitch, MemReject, MemRotate, MemTake, MemMark, ClearSendTOC, memVars, clearerVars
<1>14. FileWriter \/ BufferWritten \/ TOCWriter \/ Callers => UNCHANGED <<mem, clearing, clearPos>>
  BY DEF FileWriter, FileReceive, FileClosed, FileCreate, FileWrite, FileMark, BufferWritten, TOCWriter,
     TOCBlockWritten, TOCMark, TOCFlushed, Callers, FlushStep, FlushCall, FlushSend, FlushReturn, ShutdownCall,
     ShutdownSend, ShutdownReturn, DiscardLocalRemoval, ReadGet, ReadMemBlock, ReadFile, ReadReturn, Idle, vars,
     memVars, clearerVars
<1> QED
  BY <1>5, <1>7, <1>8, <1>9, <1>10, <1>11, <1>12, <1>13, <1>14 DEF Next, MemWriter, MemClearer, Callers

-----------------------------------------------------------------------------
(* A block that is ahead of the marks stays ahead of them *)

\* A block that a memWriter fills.
LEMMA AheadAtWriter ==
  ASSUME NEW p \in Flushers, FlushState(p), Next, ~FlushCall(p), NEW b \in Blocks, mem[b] # <<>>,
         NEW w \in Workers, memBlock[w] = b, MarkDue(p, w)
  PROVE  BlockAhead(p, b)'
<1>1. /\ TypeOK /\ memBlock \in [Workers -> Blocks \cup {0}] /\ b # 0
      /\ fileMemBlockChan \in Seq(Blocks \cup Marks)
  BY BlockFacts DEF FlushState, IInv, TypeOK, TypeWriter
<1>2. MarkDue(p, w)'
  <2>1. ~(MemMark(w) /\ req[w] = FlushReq)
    BY <1>1 DEF MemMark
  <2> QED
    BY <2>1, MarkDueStep
<1>3. CASE MemRotate(w)
  <2>1. fileMemBlockChan' = Append(fileMemBlockChan, b)
    BY <1>3 DEF MemRotate
  <2>2. \E i \in DOMAIN fileMemBlockChan' : fileMemBlockChan'[i] = b
    BY <1>1, <2>1, AppendKeeps
  <2> QED
    BY <1>2, <2>2 DEF BlockAhead
<1>4. CASE memBlock'[w] = b
  BY <1>2, <1>4 DEF BlockAhead
<1>5. ASSUME NEW v \in Workers, MemRotate(v) \/ MemTake(v), ~MemRotate(w) PROVE memBlock'[w] = b
  BY <1>1, <1>5 DEF MemRotate, MemTake
<1>6. ASSUME NEW v \in Workers,
             \/ (\E r \in Requests : MemReceive(v, r)) \/ MemSwitch(v) \/ MemReject(v) \/ MemStore(v)
             \/ MemMark(v) \/ MemClearer(v)
      PROVE  UNCHANGED memBlock
  BY <1>6 DEF MemReceive, MemSwitch, MemReject, MemStore, MemMark, MemClearer, ClearReceive, ClearSendTOC,
     ClearEntry, ClearSendFull, ClearFree, ClearMark, writerVars
<1>7. FileWriter \/ BufferWritten \/ TOCWriter \/ Callers => UNCHANGED memBlock
  BY DEF FileWriter, FileReceive, FileClosed, FileCreate, FileWrite, FileMark, BufferWritten, TOCWriter,
     TOCBlockWritten, TOCMark, TOCFlushed, Callers, FlushStep, FlushCall, FlushSend, FlushReturn, ShutdownCall,
     ShutdownSend, ShutdownReturn, DiscardLocalRemoval, ReadGet, ReadMemBlock, ReadFile, ReadReturn, Idle, vars,
     writerVars
<1> QED
  BY <1>3, <1>4, <1>5, <1>6, <1>7 DEF Next, MemWriter, Callers

\* A block that is queued for the fileWriter.
LEMMA AheadAtQueue ==
  ASSUME NEW p \in Flushers, FlushState(p), Next, ~FlushCall(p), NEW b \in Blocks,
         NEW i \in DOMAIN fileMemBlockChan, fileMemBlockChan[i] = b,
         (\E w \in Workers : MarkDue(p, w)) \/ (\E j \in Where(FlushMark, fileMemBlockChan) : j > i)
  PROVE  BlockAhead(p, b)'
<1> DEFINE q == fileMemBlockChan
           q1 == fileMemBlockChan'
           Later(s, n) == (\E w \in Workers : MarkDue(p, w)') \/ (\E j \in Where(FlushMark, s) : j > n)
<1>1. TypeOK /\ q \in Seq(Blocks \cup Marks) /\ i \in Nat /\ i >= 1 /\ i <= Len(q)
  BY DEF FlushState, IInv, TypeOK, TypeWriter
<1>2. /\ FlushMark # 0 /\ FlushMark \notin Blocks /\ FlushMark \in Marks /\ FlushMark # ShutdownMark
      /\ b \notin Marks /\ FlushMark \in Blocks \cup Marks /\ ShutdownMark \notin Blocks
  BY BlockFacts DEF Marks
<1>3. ASSUME NEW n \in DOMAIN q1, q1[n] = b, Later(q1, n) PROVE BlockAhead(p, b)'
  BY <1>3 DEF BlockAhead, Where
<1>4. ASSUME NEW v \in Workers, MemMark(v), req[v] = FlushReq PROVE BlockAhead(p, b)'
  <2>1. q1 = Append(q, FlushMark)
    BY <1>4, RequestFacts, <1>1 DEF MemMark
  <2>2. i \in DOMAIN q1 /\ q1[i] = b
    BY <1>1, <1>2, <2>1, AppendKeeps
  <2>3. Len(q) + 1 \in Where(FlushMark, q1) /\ Len(q) + 1 > i
    BY <1>1, <1>2, <2>1, WhereSend
  <2> QED
    BY <1>3, <2>2, <2>3
<1>5. ASSUME \A v \in Workers : ~(MemMark(v) /\ req[v] = FlushReq)
      PROVE  \A w \in Workers : MarkDue(p, w)' <=> MarkDue(p, w)
  BY <1>5, MarkDueStep
<1>6. CASE FileReceive
  <2>1. /\ q # <<>> /\ q1 = Tail(q) /\ UNCHANGED <<req, flushPC>>
        /\ inHand' = IF \/ Head(q) = FlushMark /\ memWritersFlushLeft > 1
                        \/ Head(q) = ShutdownMark /\ memWritersShutdownLeft > 1
                     THEN 0 ELSE Head(q)
    BY <1>6 DEF FileReceive, writerVars, callerVars
  <2>2. \A w \in Workers : MarkDue(p, w)' <=> MarkDue(p, w)
    BY <2>1 DEF MarkDue
  <2>3. CASE i = 1
    <3>1. Head(q) = b
      BY <1>1, <2>1, <2>3
    <3>2. inHand' = b
      BY <1>2, <2>1, <3>1
    <3>3. FlushAtFile(p)
      BY DEF FlushAtFile
    <3>4. ~(FileMark /\ inHand = FlushMark)
      BY <1>2, <1>6 DEF FileReceive
    <3>5. FlushAtFile(p)'
      BY <3>3, <3>4, AtFileStep
    <3> QED
      BY <3>2, <3>5 DEF BlockAhead
  <2>4. CASE i # 1
    <3>1. i - 1 \in DOMAIN q1 /\ q1[i - 1] = b
      <4>1. DOMAIN q1 = 1..(Len(q) - 1) /\ \A n \in 1..(Len(q) - 1) : q1[n] = q[n + 1]
        BY <1>1, <2>1, TailElems
      <4> QED
        BY <1>1, <2>4, <4>1
    <3>2. ASSUME NEW j \in Where(FlushMark, q), j > i PROVE j - 1 \in Where(FlushMark, q1) /\ j - 1 > i - 1
      <4>1. j \in 1..Len(q) /\ (j = 1 \/ j - 1 \in Where(FlushMark, q1))
        BY <1>1, <2>1, WhereReceive
      <4> QED
        BY <1>1, <3>2, <4>1
    <3>3. Later(q1, i - 1)
      BY <2>2, <3>2
    <3> QED
      BY <1>3, <3>1, <3>3
  <2> QED
    BY <2>3, <2>4
<1>7. ASSUME NEW x \in Blocks \cup Marks, q1 = Append(q, x), \A v \in Workers : ~(MemMark(v) /\ req[v] = FlushReq)
      PROVE  BlockAhead(p, b)'
  <2>1. i \in DOMAIN q1 /\ q1[i] = b
    BY <1>1, <1>7, AppendKeeps
  <2>2. \A j \in Where(FlushMark, q) : j \in Where(FlushMark, q1)
    BY <1>1, <1>7, WhereSend
  <2> QED
    BY <1>3, <1>5, <1>7, <2>1, <2>2
<1>8. ASSUME q1 = q, \A v \in Workers : ~(MemMark(v) /\ req[v] = FlushReq)
      PROVE  BlockAhead(p, b)'
  BY <1>3, <1>5, <1>8
<1> HIDE DEF q, q1
<1>9. q1 = q \/ FileReceive \/ \E x \in Blocks \cup Marks : q1 = Append(q, x)
  BY <1>1, QueueStep DEF q, q1
<1> QED
  BY <1>4, <1>6, <1>7, <1>8, <1>9

\* A block is released while the mark is not yet past the fileWriter.
LEMMA AheadReleased ==
  ASSUME NEW p \in Flushers, FlushState(p), NEW b \in Blocks, Release(b), FlushAtFile(p)',
         \A c \in Workers : ~FlushSentTo(p, c)'
  PROVE  BlockAhead(p, b)'
<1>1. /\ freeableMemBlockChans \in [Workers -> Seq(Blocks \cup Marks)] /\ freeableIndex \in Workers
  BY DEF FlushState, IInv, TypeOK, TypeBuffer
<1>2. PICK c \in Workers : c = freeableIndex
  BY <1>1
<1>3. /\ freeableMemBlockChans'[c] = Append(freeableMemBlockChans[c], b)
      /\ freeableMemBlockChans[c] \in Seq(Blocks \cup Marks)
  BY <1>1, <1>2 DEF Release
<1>4. \E i \in DOMAIN freeableMemBlockChans'[c] : freeableMemBlockChans'[c][i] = b
  BY <1>3, AppendKeeps
<1> QED
  BY <1>4 DEF BlockAhead

\* A block that the fileWriter has in hand, or that is attached to a buffer.
LEMMA AheadAtFile ==
  ASSUME NEW p \in Flushers, FlushState(p), Next, ~FlushCall(p), NEW b \in Blocks, FlushAtFile(p),
         inHand = b \/ \E i \in DOMAIN unwritten : unwritten[i].block = b
  PROVE  BlockAhead(p, b)'
<1>1. /\ TypeOK /\ SyncOK /\ FileWriterStops /\ unwritten \in Seq(Buffered)
      /\ markNext \in Nat /\ \A c \in Workers : c \in Nat /\ c >= 1
  BY DEF FlushState, IInv, StopInv, TypeOK, TypeBuffer, TypeFile, Workers
<1>2. /\ FlushMark # 0 /\ FlushMark \notin Blocks /\ b \notin Marks /\ b # 0
  BY BlockFacts DEF Marks
<1>3. ~(FileMark /\ inHand = FlushMark) /\ (inHand = FlushMark => markNext = 0) /\ ~FileMark
  <2>1. CASE inHand = b
    BY <1>2, <2>1 DEF FileMark
  <2>2. CASE \E i \in DOMAIN unwritten : unwritten[i].block = b
    <3>1. unwritten # <<>>
      BY <2>2, EmptySeq
    <3>2. fl # 0
      BY <1>1, <3>1 DEF SyncOK
    <3> QED
      BY <1>1, <3>2 DEF FileMark, FileWriterStops
  <2> QED
    BY <2>1, <2>2
<1>4. FlushAtFile(p)' /\ \A c \in Workers : FlushSentTo(p, c)' <=> FlushSentTo(p, c)
  BY <1>3, AtFileStep
<1>5. \A c \in Workers : ~FlushSentTo(p, c)'
  BY <1>1, <1>3, <1>4 DEF FlushSentTo
<1>6. ASSUME inHand' = b \/ \E i \in DOMAIN unwritten' : unwritten'[i].block = b
      PROVE  BlockAhead(p, b)'
  BY <1>4, <1>6 DEF BlockAhead
<1>7. CASE FileWrite
  <2>1. \E x \in Nat : \/ unwritten' = Append(unwritten, [end |-> x, block |-> inHand])
                       \/ unwritten' = Append(unwritten, [end |-> x, block |-> 0]) /\ Release(inHand)
    <3>1. PICK x : x = Len(files[fl].data) + Len(mem[inHand])
      OBVIOUS
    <3>2. x \in Nat
      <4>1. fl \in DOMAIN files /\ files \in Seq(FileRec) /\ mem[inHand] \in Seq(Entry)
        BY <1>1, <1>7 DEF FileWrite, TypeOK, TypeFile, TypeMem
      <4>2. files[fl] \in FileRec
        BY <4>1
      <4>3. files[fl].data \in Seq(Entry)
        BY <4>2 DEF FileRec
      <4>4. Len(files[fl].data) \in Nat /\ Len(mem[inHand]) \in Nat
        BY <4>1, <4>3
      <4>5. \A m, n \in Nat : m + n \in Nat
        OBVIOUS
      <4> QED
        BY <3>1, <4>4, <4>5, Zenon
    <3> QED
      BY <1>7, <3>1, <3>2 DEF FileWrite, Attach, ReleaseNow
  <2>2. PICK x \in Nat : \/ unwritten' = Append(unwritten, [end |-> x, block |-> inHand])
                         \/ unwritten' = Append(unwritten, [end |-> x, block |-> 0]) /\ Release(inHand)
    BY <2>1
  <2>3. [end |-> x, block |-> inHand] \in Buffered /\ [end |-> x, block |-> 0] \in Buffered
    BY <1>7 DEF FileWrite, Buffered
  <2>4. CASE \E i \in DOMAIN unwritten : unwritten[i].block = b
    <3>1. \A y \in Buffered : unwritten' = Append(unwritten, y) =>
            \A i \in DOMAIN unwritten : i \in DOMAIN unwritten' /\ unwritten'[i] = unwritten[i]
      BY <1>1, AppendKeeps
    <3>2. \A i \in DOMAIN unwritten : i \in DOMAIN unwritten' /\ unwritten'[i] = unwritten[i]
      BY <2>2, <2>3, <3>1
    <3> QED
      BY <1>6, <2>4, <3>2
  <2>5. CASE inHand = b /\ unwritten' = Append(unwritten, [end |-> x, block |-> inHand])
    <3>1. \E i \in DOMAIN unwritten' : unwritten'[i] = [end |-> x, block |-> inHand]
      BY <1>1, <2>3, <2>5, AppendKeeps
    <3> QED
      BY <1>6, <2>5, <3>1
  <2>6. CASE inHand = b /\ Release(inHand)
    BY <1>4, <1>5, <2>6, AheadReleased
  <2> QED
    BY <2>2, <2>4, <2>5, <2>6
<1>8. CASE BufferWritten
  <2>1. /\ unwritten # <<>> /\ unwritten' = Tail(unwritten) /\ UNCHANGED inHand
        /\ Head(unwritten).block # 0 => Release(Head(unwritten).block)
    BY <1>8 DEF BufferWritten
  <2>2. CASE inHand = b
    BY <1>6, <2>1, <2>2
  <2>3. ASSUME NEW i \in DOMAIN unwritten, unwritten[i].block = b PROVE BlockAhead(p, b)'
    <3>1. CASE i = 1
      <4>1. Release(b)
        BY <1>1, <1>2, <2>1, <2>3, <3>1
      <4> QED
        BY <1>4, <1>5, <4>1, AheadReleased
    <3>2. CASE i # 1
      <4>1. /\ DOMAIN unwritten' = 1..(Len(unwritten) - 1) /\ DOMAIN unwritten = 1..Len(unwritten)
            /\ Len(unwritten) \in Nat
            /\ \A n \in 1..(Len(unwritten) - 1) : unwritten'[n] = unwritten[n + 1]
        BY <1>1, <2>1, TailElems
      <4>2. i - 1 \in DOMAIN unwritten' /\ unwritten'[i - 1] = unwritten[i]
        BY <3>2, <4>1
      <4> QED
        BY <1>6, <2>3, <4>2
    <3> QED
      BY <3>1, <3>2
  <2> QED
    BY <2>2, <2>3
<1>9. CASE FileReceive
  <2>1. UNCHANGED unwritten /\ inHand = 0
    BY <1>9 DEF FileReceive
  <2> QED
    BY <1>2, <1>6, <2>1
<1>10. CASE UNCHANGED <<inHand, unwritten>>
  BY <1>6, <1>10
<1>11. ASSUME NEW w \in Workers,
             (\E r \in Requests : MemReceive(w, r)) \/ MemSwitch(w) \/ MemWriter(w) \/ MemClearer(w)
      PROVE  UNCHANGED <<inHand, unwritten>>
  BY <1>11 DEF MemReceive, MemSwitch, MemWriter, MemReject, MemRotate, MemTake, MemStore, MemMark, MemClearer,
     ClearReceive, ClearSendTOC, ClearEntry, ClearSendFull, ClearFree, ClearMark, fileVars
<1>12. FileClosed \/ FileCreate \/ TOCWriter \/ Callers => UNCHANGED <<inHand, unwritten>>
  BY DEF FileClosed, FileCreate, TOCWriter, TOCBlockWritten, TOCMark, TOCFlushed, Callers,
     FlushStep, FlushCall, FlushSend, FlushReturn, ShutdownCall, ShutdownSend, ShutdownReturn,
     DiscardLocalRemoval, ReadGet, ReadMemBlock, ReadFile, ReadReturn, Idle, vars, fileVars
<1> QED
  BY <1>3, <1>7, <1>8, <1>9, <1>10, <1>11, <1>12 DEF Next, FileWriter, Callers

\* A written block stays written, in a file that the marks close, until it is freed.
LEMMA AheadInFile ==
  ASSUME NEW p \in Flushers, FlushState(p), NoLateTOCBlock, Next, ~FlushCall(p), NEW b \in Blocks,
         mem[b] # <<>>, blockFile[b] # 0, \A c \in Workers : clearing[c] = b => ~ClearFree(c),
         blockFile[b] # fl \/ FlushAtFile(p)
  PROVE  blockFile'[b] # fl' \/ FlushAtFile(p)'
<1>1. /\ TypeOK /\ IInv /\ BeforeFile /\ BlockInFile /\ blockFile \in [Blocks -> Nat]
      /\ files \in Seq(FileRec) /\ mem[b] \in Seq(Entry)
  BY DEF FlushState, IInv, TypeOK, TypeFile, TypeMem, Content
<1>2. blockFile[b] \in DOMAIN files
  <2>1. 1 \in DOMAIN mem[b]
    BY <1>1
  <2> QED
    BY <1>1, <2>1 DEF BlockInFile, FileHas
<1>3. blockFile'[b] = blockFile[b]
  <2>1. FileWrite => blockFile'[b] = blockFile[b]
    BY <1>1 DEF FileWrite, BeforeFile
  <2>2. ASSUME NEW c \in Workers, ClearFree(c) PROVE blockFile'[b] = blockFile[b]
    <3>1. clearing[c] # b /\ blockFile' = [blockFile EXCEPT ![clearing[c]] = 0]
      BY <2>2 DEF ClearFree
    <3> QED
      BY <1>1, <3>1
  <2>3. ASSUME NEW w \in Workers,
               \/ (\E r \in Requests : MemReceive(w, r)) \/ MemSwitch(w) \/ MemWriter(w)
               \/ ClearReceive(w) \/ ClearSendTOC(w) \/ ClearEntry(w) \/ ClearSendFull(w) \/ ClearMark(w)
        PROVE  UNCHANGED blockFile
    BY <2>3 DEF MemReceive, MemSwitch, MemWriter, MemReject, MemRotate, MemTake, MemStore, MemMark,
       ClearReceive, ClearSendTOC, ClearEntry, ClearSendFull, ClearMark, fileVars
  <2>4. FileReceive \/ FileClosed \/ FileCreate \/ FileMark \/ BufferWritten \/ TOCWriter \/ Callers =>
          UNCHANGED blockFile
    BY DEF FileReceive, FileClosed, FileCreate, FileMark, BufferWritten, TOCWriter, TOCBlockWritten, TOCMark,
       TOCFlushed, Callers, FlushStep, FlushCall, FlushSend, FlushReturn, ShutdownCall, ShutdownSend,
       ShutdownReturn, DiscardLocalRemoval, ReadGet, ReadMemBlock, ReadFile, ReadReturn, Idle, vars, fileVars
  <2> QED
    BY <2>1, <2>2, <2>3, <2>4 DEF Next, MemClearer, FileWriter, Callers
<1>4. blockFile[b] # fl => blockFile'[b] # fl'
  BY <1>1, <1>2, <1>3, TOCsKept
<1>5. CASE FileMark /\ inHand = FlushMark
  BY <1>3, <1>5, FlushFileMark
<1>6. CASE ~(FileMark /\ inHand = FlushMark)
  BY <1>4, <1>6, AtFileStep
<1> QED
  BY <1>5, <1>6

\* The mark comes to a memClearer behind what it has.
LEMMA MarkBehind ==
  ASSUME NEW p \in Flushers, FlushState(p), Next, ~FlushCall(p), NEW c \in Workers
  PROVE  \/ /\ FlushSentTo(p, c)' <=> FlushSentTo(p, c)
            /\ ~(FileMark /\ inHand = FlushMark /\ c = markNext + 1)
         \/ /\ ~FlushSentTo(p, c) /\ FlushSentTo(p, c)' /\ UNCHANGED clearing
            /\ freeableMemBlockChans'[c] = Append(freeableMemBlockChans[c], FlushMark)
<1>1. freeableMemBlockChans \in [Workers -> Seq(Blocks \cup Marks)]
  BY DEF FlushState, IInv, TypeOK, TypeBuffer
<1>2. CASE FileMark /\ inHand = FlushMark
  <2>1. PICK d : d = markNext + 1
    OBVIOUS
  <2>2. /\ d \in Workers /\ ~FlushSentTo(p, d)
        /\ FlushSentTo(p, c)' <=> (FlushSentTo(p, c) \/ c = d)
        /\ freeableMemBlockChans' = [freeableMemBlockChans EXCEPT ![d] = Append(@, FlushMark)]
        /\ UNCHANGED clearing
    BY <1>2, <2>1, FlushFileMark
  <2>3. CASE c = d
    BY <1>1, <2>2, <2>3
  <2>4. CASE c # d
    BY <2>1, <2>2, <2>4
  <2> QED
    BY <2>3, <2>4
<1>3. CASE ~(FileMark /\ inHand = FlushMark)
  BY <1>3, AtFileStep
<1> QED
  BY <1>2, <1>3

\* A block that is queued for a memClearer.
LEMMA AheadAtClearer ==
  ASSUME NEW p \in Flushers, FlushState(p), Next, ~FlushCall(p), NEW b \in Blocks,
         blockFile'[b] # fl' \/ FlushAtFile(p)',
         NEW c \in Workers, NEW i \in DOMAIN freeableMemBlockChans[c], freeableMemBlockChans[c][i] = b,
         ~FlushSentTo(p, c) \/ \E j \in Where(FlushMark, freeableMemBlockChans[c]) : j > i
  PROVE  BlockAhead(p, b)'
<1> DEFINE q == freeableMemBlockChans[c]
           q1 == freeableMemBlockChans'[c]
<1>1. TypeOK /\ q \in Seq(Blocks \cup Marks) /\ i \in Nat /\ i >= 1 /\ i <= Len(q) /\ Len(q) \in Nat
  BY DEF FlushState, IInv, TypeOK, TypeBuffer
<1>2. FlushMark \in Blocks \cup Marks
  BY DEF Marks
<1>3. ASSUME NEW n \in DOMAIN q1, q1[n] = b,
             ~FlushSentTo(p, c)' \/ \E j \in Where(FlushMark, q1) : j > n
      PROVE  BlockAhead(p, b)'
  BY <1>3 DEF BlockAhead, Where
<1>4. ASSUME clearing'[c] = b, ~FlushSentTo(p, c)' \/ Where(FlushMark, q1) # {}
      PROVE  BlockAhead(p, b)'
  BY <1>4 DEF BlockAhead, Where
<1>5. CASE /\ ~FlushSentTo(p, c) /\ FlushSentTo(p, c)' /\ UNCHANGED clearing
           /\ q1 = Append(q, FlushMark)
  <2>1. i \in DOMAIN q1 /\ q1[i] = b
    BY <1>1, <1>2, <1>5, AppendKeeps
  <2>2. Len(q) + 1 \in Where(FlushMark, q1) /\ Len(q) + 1 > i
    BY <1>1, <1>2, <1>5, WhereSend
  <2> QED
    BY <1>3, <2>1, <2>2
<1>6. CASE FlushSentTo(p, c)' <=> FlushSentTo(p, c)
  <2>1. CASE q1 = q
    BY <1>3, <1>6, <2>1
  <2>2. ASSUME NEW x \in Blocks \cup Marks, q1 = Append(q, x) PROVE BlockAhead(p, b)'
    <3>1. i \in DOMAIN q1 /\ q1[i] = b
      BY <1>1, <2>2, AppendKeeps
    <3>2. \A j \in Where(FlushMark, q) : j \in Where(FlushMark, q1)
      BY <1>1, <2>2, WhereSend
    <3> QED
      BY <1>3, <1>6, <3>1, <3>2
  <2>3. CASE ClearReceive(c) /\ clearing'[c] = Head(q) /\ q1 = Tail(q)
    <3>1. q # <<>>
      BY <2>3 DEF ClearReceive
    <3>2. \A j \in Where(FlushMark, q) : j \in 1..Len(q) /\ (j = 1 \/ j - 1 \in Where(FlushMark, q1))
      BY <1>1, <2>3, <3>1, WhereReceive
    <3>3. CASE i = 1
      <4>1. clearing'[c] = b
        BY <1>1, <2>3, <3>3
      <4>2. ASSUME NEW j \in Where(FlushMark, q), j > i PROVE Where(FlushMark, q1) # {}
        <5>1. j # 1
          BY <1>1, <3>3, <4>2
        <5> QED
          BY <3>2, <5>1
      <4> QED
        BY <1>4, <1>6, <4>1, <4>2
    <3>4. CASE i # 1
      <4>1. DOMAIN q1 = 1..(Len(q) - 1) /\ \A n \in 1..(Len(q) - 1) : q1[n] = q[n + 1]
        BY <1>1, <2>3, <3>1, TailElems
      <4>2. i - 1 \in DOMAIN q1 /\ q1[i - 1] = b
        BY <1>1, <3>4, <4>1
      <4>3. ASSUME NEW j \in Where(FlushMark, q), j > i PROVE j - 1 \in Where(FlushMark, q1) /\ j - 1 > i - 1
        <5>1. j \in 1..Len(q) /\ (j = 1 \/ j - 1 \in Where(FlushMark, q1))
          BY <3>2
        <5> QED
          BY <1>1, <4>3, <5>1
      <4> QED
        BY <1>3, <1>6, <4>2, <4>3
    <3> QED
      BY <3>3, <3>4
  <2> HIDE DEF q, q1
  <2>4. \/ q1 = q
        \/ \E x \in Blocks \cup Marks : q1 = Append(q, x)
        \/ ClearReceive(c) /\ clearing'[c] = Head(q) /\ q1 = Tail(q)
    BY <1>1, ClearerStep DEF q, q1
  <2> QED
    BY <2>1, <2>2, <2>3, <2>4
<1> QED
  BY <1>5, <1>6, MarkBehind

\* A block that is being cleared.
LEMMA AheadInClearing ==
  ASSUME NEW p \in Flushers, FlushState(p), Next, ~FlushCall(p), NEW b \in Blocks,
         blockFile'[b] # fl' \/ FlushAtFile(p)',
         NEW c \in Workers, clearing[c] = b, ~ClearFree(c),
         ~FlushSentTo(p, c) \/ Where(FlushMark, freeableMemBlockChans[c]) # {}
  PROVE  BlockAhead(p, b)'
<1> DEFINE q == freeableMemBlockChans[c]
           q1 == freeableMemBlockChans'[c]
<1>1. TypeOK /\ q \in Seq(Blocks \cup Marks)
  BY DEF FlushState, IInv, TypeOK, TypeBuffer
<1>2. FlushMark \in Blocks \cup Marks /\ b # 0 /\ b \notin Marks
  BY BlockFacts DEF Marks
<1>3. ASSUME clearing'[c] = b, ~FlushSentTo(p, c)' \/ Where(FlushMark, q1) # {}
      PROVE  BlockAhead(p, b)'
  BY <1>3 DEF BlockAhead, Where
<1>4. CASE /\ ~FlushSentTo(p, c) /\ FlushSentTo(p, c)' /\ UNCHANGED clearing
           /\ q1 = Append(q, FlushMark)
  <2>1. Len(q) + 1 \in Where(FlushMark, q1)
    BY <1>1, <1>2, <1>4, WhereSend
  <2> QED
    BY <1>3, <1>4, <2>1
<1>5. CASE FlushSentTo(p, c)' <=> FlushSentTo(p, c)
  <2>1. CASE q1 = q /\ clearing'[c] = clearing[c]
    BY <1>3, <1>5, <2>1
  <2>2. ASSUME NEW x \in Blocks \cup Marks, q1 = Append(q, x), clearing'[c] = clearing[c] PROVE BlockAhead(p, b)'
    <3>1. \A j \in Where(FlushMark, q) : j \in Where(FlushMark, q1)
      BY <1>1, <2>2, WhereSend
    <3> QED
      BY <1>3, <1>5, <2>2, <3>1
  <2>3. ~ClearReceive(c) /\ ~ClearMark(c)
    BY <1>2 DEF ClearReceive, ClearMark
  <2> HIDE DEF q, q1
  <2>4. \/ q1 = q /\ clearing'[c] = clearing[c]
        \/ \E x \in Blocks \cup Marks : q1 = Append(q, x) /\ clearing'[c] = clearing[c]
    BY <1>1, <2>3, ClearerStep DEF q, q1
  <2> QED
    BY <2>1, <2>2, <2>4
<1> QED
  BY <1>4, <1>5, MarkBehind

\* A block stays ahead of the marks until it is freed.
LEMMA BlockAheadStays ==
  ASSUME NEW p \in Flushers, FlushState(p), NoLateTOCBlock, Next, ~FlushCall(p), NEW b \in Blocks,
         mem[b] # <<>>, BlockAhead(p, b), \A c \in Workers : clearing[c] = b => ~ClearFree(c)
  PROVE  BlockAhead(p, b)'
<1>1. CASE \E w \in Workers : memBlock[w] = b /\ MarkDue(p, w)
  BY <1>1, AheadAtWriter
<1>2. CASE \E i \in DOMAIN fileMemBlockChan :
             /\ fileMemBlockChan[i] = b
             /\ \/ \E w \in Workers : MarkDue(p, w)
                \/ \E j \in Where(FlushMark, fileMemBlockChan) : j > i
  BY <1>2, AheadAtQueue
<1>3. CASE FlushAtFile(p) /\ (inHand = b \/ \E i \in DOMAIN unwritten : unwritten[i].block = b)
  BY <1>3, AheadAtFile
<1>4. ASSUME blockFile[b] # fl \/ FlushAtFile(p), NEW c \in Workers,
             \/ \E i \in DOMAIN freeableMemBlockChans[c] :
                  /\ freeableMemBlockChans[c][i] = b
                  /\ \/ ~FlushSentTo(p, c)
                     \/ \E j \in Where(FlushMark, freeableMemBlockChans[c]) : j > i
             \/ /\ clearing[c] = b
                /\ ~FlushSentTo(p, c) \/ Where(FlushMark, freeableMemBlockChans[c]) # {}
      PROVE  BlockAhead(p, b)'
  <2>1. blockFile[b] # 0
    BY <1>4 DEF FlushState, IInv, AfterFile
  <2>2. blockFile'[b] # fl' \/ FlushAtFile(p)'
    BY <1>4, <2>1, AheadInFile
  <2> QED
    BY <1>4, <2>2, AheadAtClearer, AheadInClearing
<1> QED
  BY <1>1, <1>2, <1>3, <1>4 DEF BlockAhead

\* What happens to the TOC block that a memClearer fills.
LEMMA TBStep ==
  ASSUME IInv, Next, NEW c \in Workers
  PROVE  \/ tb'[c] = tb[c]
         \/ /\ ClearSendTOC(c) \/ ClearSendFull(c)
            /\ tb[c] \in TOCBlock /\ pendingTOCBlockChan' = Append(pendingTOCBlockChan, tb[c])
         \/ /\ ClearEntry(c) /\ clearing[c] \in Blocks
            /\ tb[c] = NoTB \/ tb[c].file = blockFile[clearing[c]]
            /\ tb'[c].file = blockFile[clearing[c]]
            /\ tb'[c].entries = Append(tb[c].entries, TOCEntryAt(c))
            /\ tb[c].entries \in Seq(TOCEntry) /\ TOCEntryAt(c) \in TOCEntry
<1>1. TypeOK /\ tb \in [Workers -> TOCBlock]
  BY DEF IInv, TypeOK, TypeClearer
<1>2. ASSUME NEW d \in Workers, ClearSendTOC(d) \/ ClearSendFull(d)
      PROVE  /\ d # c => tb'[c] = tb[c]
             /\ tb[d] \in TOCBlock /\ pendingTOCBlockChan' = Append(pendingTOCBlockChan, tb[d])
  BY <1>1, <1>2 DEF ClearSendTOC, ClearSendFull
<1>3. ASSUME NEW d \in Workers, ClearEntry(d)
      PROVE  \/ tb'[c] = tb[c]
             \/ /\ d = c /\ clearing[c] \in Blocks
                /\ tb[c] = NoTB \/ tb[c].file = blockFile[clearing[c]]
                /\ tb'[c].file = blockFile[clearing[c]]
                /\ tb'[c].entries = Append(tb[c].entries, TOCEntryAt(c))
                /\ tb[c].entries \in Seq(TOCEntry) /\ TOCEntryAt(c) \in TOCEntry
  <2>1. /\ clearing[d] \in Blocks /\ ~MustSend(d) /\ clearPos[d] <= Len(mem[clearing[d]])
        /\ \/ UNCHANGED tb
           \/ tb' = [tb EXCEPT ![d] = [file |-> blockFile[clearing[d]],
                                       entries |-> Append(tb[d].entries, TOCEntryAt(d))]]
    BY <1>3 DEF ClearEntry
  <2>2. TOCEntryAt(d) \in TOCEntry
    BY <1>1, <2>1, EntryAtType DEF TypeOK
  <2>3. tb[d] = NoTB \/ tb[d].file = blockFile[clearing[d]]
    BY <2>1 DEF MustSend
  <2>4. tb[d].entries \in Seq(TOCEntry)
    BY <1>1 DEF TOCBlock
  <2>5. CASE UNCHANGED tb
    BY <2>5
  <2>6. CASE tb' = [tb EXCEPT ![d] = [file |-> blockFile[clearing[d]],
                                      entries |-> Append(tb[d].entries, TOCEntryAt(d))]]
    <3>1. /\ d # c => tb'[c] = tb[c]
          /\ tb'[d].file = blockFile[clearing[d]] /\ tb'[d].entries = Append(tb[d].entries, TOCEntryAt(d))
      BY <1>1, <2>6
    <3> QED
      BY <2>1, <2>2, <2>3, <2>4, <3>1
  <2> QED
    BY <2>1, <2>5, <2>6
<1>4. ASSUME NEW w \in Workers,
             \/ (\E r \in Requests : MemReceive(w, r)) \/ MemSwitch(w) \/ MemWriter(w)
             \/ ClearReceive(w) \/ ClearFree(w) \/ ClearMark(w)
      PROVE  UNCHANGED tb
  BY <1>4 DEF MemReceive, MemSwitch, MemWriter, MemReject, MemRotate, MemTake, MemStore, MemMark,
     ClearReceive, ClearFree, ClearMark, clearerVars
<1>5. FileWriter \/ BufferWritten \/ TOCWriter \/ Callers => UNCHANGED tb
  BY DEF FileWriter, FileReceive, FileClosed, FileCreate, FileWrite, FileMark, BufferWritten, TOCWriter,
     TOCBlockWritten, TOCMark, TOCFlushed, Callers, FlushStep, FlushCall, FlushSend, FlushReturn, ShutdownCall,
     ShutdownSend, ShutdownReturn, DiscardLocalRemoval, ReadGet, ReadMemBlock, ReadFile, ReadReturn, Idle, vars,
     clearerVars
<1> QED
  BY <1>2, <1>3, <1>4, <1>5 DEF Next, MemClearer, Callers

\* A TOC block that a memClearer has sent before its mark is ahead of the mark.
LEMMA SentAhead ==
  ASSUME NEW p \in Flushers, NEW n, NEW k, NEW ts, NEW c \in Workers, ClearDue(p, c)',
         NEW x \in TOCBlock, x.file = n, EntriesHave(x.entries, k, ts),
         pendingTOCBlockChan \in Seq(TOCBlock), pendingTOCBlockChan' = Append(pendingTOCBlockChan, x)
  PROVE  TOCAhead(p, n, k, ts)'
<1>1. \E i \in DOMAIN pendingTOCBlockChan' : pendingTOCBlockChan'[i] = x
  BY AppendKeeps
<1> QED
  BY <1>1 DEF TOCAhead, EntriesHave

\* A TOC block that is queued for the tocWriter.
LEMMA AheadInPending ==
  ASSUME NEW p \in Flushers, FlushState(p), NoLateTOCBlock, Next, ~FlushCall(p),
         NEW n \in DOMAIN files, NEW k, NEW ts, NEW i \in DOMAIN pendingTOCBlockChan,
         pendingTOCBlockChan[i].file = n, EntriesHave(pendingTOCBlockChan[i].entries, k, ts),
         \/ \E c \in Workers : ClearDue(p, c)
         \/ \E j \in BlocksOf(FlushMark, pendingTOCBlockChan) : j > i
  PROVE  TOCAhead(p, n, k, ts)'
<1> DEFINE q == pendingTOCBlockChan
           q1 == pendingTOCBlockChan'
<1>1. /\ TypeOK /\ IInv /\ q \in Seq(TOCBlock) /\ i \in Nat /\ i >= 1 /\ i <= Len(q) /\ Len(q) \in Nat
      /\ files \in Seq(FileRec)
  BY DEF FlushState, IInv, TypeOK, TypeClearer, TypeFile
<1>2. n \notin Marks
  BY <1>1, BlockFacts DEF Marks
<1>3. ASSUME NEW m \in DOMAIN q1, q1[m] = q[i],
             (\E c \in Workers : ClearDue(p, c)') \/ (\E j \in BlocksOf(FlushMark, q1) : j > m)
      PROVE  TOCAhead(p, n, k, ts)'
  BY <1>3 DEF TOCAhead, BlocksOf, EntriesHave
<1>4. ASSUME NEW c \in Workers, ClearMark(c), clearing[c] = FlushMark PROVE TOCAhead(p, n, k, ts)'
  <2>1. MarkTB(FlushMark) \in TOCBlock /\ MarkTB(FlushMark).file = FlushMark
    BY DEF MarkTB, TOCBlock, Marks
  <2>2. q1 = Append(q, MarkTB(FlushMark))
    BY <1>4 DEF ClearMark
  <2>3. Len(q) + 1 \in BlocksOf(FlushMark, q1) /\ Len(q) + 1 > i
    BY <1>1, <2>1, <2>2, BlocksOfSend
  <2>4. i \in DOMAIN q1 /\ q1[i] = q[i]
    BY <1>1, <2>1, <2>2, AppendKeeps
  <2> QED
    BY <1>3, <2>3, <2>4
<1>5. ASSUME \A c \in Workers : ~(ClearMark(c) /\ clearing[c] = FlushMark) PROVE TOCAhead(p, n, k, ts)'
  <2>1. \A c \in Workers : ClearDue(p, c)' <=> ClearDue(p, c)
    BY <1>5, ClearDueStep
  <2>2. CASE q1 = q
    BY <1>3, <2>1, <2>2
  <2>3. ASSUME NEW x \in TOCBlock, q1 = Append(q, x) PROVE TOCAhead(p, n, k, ts)'
    <3>1. i \in DOMAIN q1 /\ q1[i] = q[i]
      BY <1>1, <2>3, AppendKeeps
    <3>2. \A j \in BlocksOf(FlushMark, q) : j \in BlocksOf(FlushMark, q1)
      BY <1>1, <2>3, BlocksOfSend
    <3> QED
      BY <1>3, <2>1, <3>1, <3>2
  <2>4. CASE (TOCBlockWritten \/ TOCMark) /\ q # <<>> /\ q1 = Tail(q)
    <3>1. CASE i = 1
      <4>1. Head(q) = q[1]
        BY <1>1, <2>4, TailElems
      <4>2. TOCBlockWritten
        BY <1>2, <2>4, <3>1, <4>1 DEF TOCMark
      <4>3. /\ files'[n].toc = files[n].toc \o q[1].entries
            /\ files[n].toc \in Seq(TOCEntry) /\ q[1].entries \in Seq(TOCEntry)
        BY <1>1, <3>1, <4>1, <4>2, TOCGrows
      <4>4. EntriesHave(files'[n].toc, k, ts)
        BY <3>1, <4>3, EntriesAdded
      <4> QED
        BY <4>4 DEF TOCAhead, EntriesHave
    <3>2. CASE i # 1
      <4>1. DOMAIN q1 = 1..(Len(q) - 1) /\ \A m \in 1..(Len(q) - 1) : q1[m] = q[m + 1]
        BY <1>1, <2>4, TailElems
      <4>2. i - 1 \in DOMAIN q1 /\ q1[i - 1] = q[i]
        BY <1>1, <3>2, <4>1
      <4>3. ASSUME NEW j \in BlocksOf(FlushMark, q), j > i PROVE j - 1 \in BlocksOf(FlushMark, q1) /\ j - 1 > i - 1
        <5>1. j \in 1..Len(q) /\ (j = 1 \/ j - 1 \in BlocksOf(FlushMark, q1))
          BY <1>1, <2>4, BlocksOfReceive
        <5> QED
          BY <1>1, <4>3, <5>1
      <4> QED
        BY <1>3, <2>1, <4>2, <4>3
    <3> QED
      BY <3>1, <3>2
  <2> HIDE DEF q, q1
  <2>5. \/ q1 = q
        \/ (TOCBlockWritten \/ TOCMark) /\ q # <<>> /\ q1 = Tail(q)
        \/ \E x \in TOCBlock : q1 = Append(q, x)
    BY <1>1, PendingStep DEF q, q1
  <2> QED
    BY <2>2, <2>3, <2>4, <2>5
<1> QED
  BY <1>4, <1>5

\* A TOC block that a memClearer fills.
LEMMA AheadInTB ==
  ASSUME NEW p \in Flushers, FlushState(p), Next, ~FlushCall(p),
         NEW n \in DOMAIN files, NEW k, NEW ts, NEW c \in Workers,
         tb[c].file = n, EntriesHave(tb[c].entries, k, ts), ClearDue(p, c)
  PROVE  TOCAhead(p, n, k, ts)'
<1>1. /\ TypeOK /\ IInv /\ pendingTOCBlockChan \in Seq(TOCBlock)
  BY DEF FlushState, IInv, TypeOK, TypeClearer
<1>2. tb[c] # NoTB
  BY NoEntries DEF NoTB
<1>3. ~(ClearMark(c) /\ clearing[c] = FlushMark)
  BY <1>2 DEF ClearMark, MustSend, Marks
<1>4. ClearDue(p, c)'
  BY <1>3, ClearDueStep
<1>5. ASSUME tb'[c].file = n, EntriesHave(tb'[c].entries, k, ts) PROVE TOCAhead(p, n, k, ts)'
  BY <1>4, <1>5 DEF TOCAhead, EntriesHave
<1>6. CASE tb'[c] = tb[c]
  BY <1>5, <1>6
<1>7. ASSUME tb[c] \in TOCBlock, pendingTOCBlockChan' = Append(pendingTOCBlockChan, tb[c])
      PROVE  TOCAhead(p, n, k, ts)'
  BY <1>1, <1>4, <1>7, SentAhead
<1>8. ASSUME tb[c].file = blockFile[clearing[c]], tb'[c].file = blockFile[clearing[c]],
             tb'[c].entries = Append(tb[c].entries, TOCEntryAt(c)),
             tb[c].entries \in Seq(TOCEntry), TOCEntryAt(c) \in TOCEntry
      PROVE  TOCAhead(p, n, k, ts)'
  <2>1. EntriesHave(tb'[c].entries, k, ts)
    BY <1>8, EntryAdded
  <2> QED
    BY <1>5, <1>8, <2>1
<1> QED
  BY <1>1, <1>2, <1>6, <1>7, <1>8, TBStep

\* An entry that is ahead of the marks, in a file that they close, stays so.
LEMMA TOCAheadStays ==
  ASSUME NEW p \in Flushers, FlushState(p), NoLateTOCBlock, Next, ~FlushCall(p),
         NEW n \in DOMAIN files, NEW k, NEW ts, n # fl \/ FlushAtFile(p), TOCAhead(p, n, k, ts)
  PROVE  /\ n \in DOMAIN files' /\ (n # fl' \/ FlushAtFile(p)')
         /\ TOCAhead(p, n, k, ts)'
<1>1. IInv /\ files \in Seq(FileRec)
  BY DEF FlushState, IInv, TypeOK, TypeFile
<1>2. /\ n \in DOMAIN files' /\ n # 0
      /\ n # fl => n # fl'
      /\ EntriesHave(files[n].toc, k, ts) => EntriesHave(files'[n].toc, k, ts)
  BY <1>1, TOCsKept
<1>3. n # fl' \/ FlushAtFile(p)'
  <2>1. CASE FileMark /\ inHand = FlushMark
    BY <1>2, <2>1, FlushFileMark
  <2>2. CASE ~(FileMark /\ inHand = FlushMark)
    BY <1>2, <2>2, AtFileStep
  <2> QED
    BY <2>1, <2>2
<1>4. CASE EntriesHave(files[n].toc, k, ts)
  <2>1. EntriesHave(files'[n].toc, k, ts)
    BY <1>2, <1>4
  <2>2. TOCAhead(p, n, k, ts)'
    BY <2>1 DEF TOCAhead, EntriesHave
  <2> QED
    BY <1>2, <1>3, <2>2
<1>5. ASSUME NEW i \in DOMAIN pendingTOCBlockChan, pendingTOCBlockChan[i].file = n,
             EntriesHave(pendingTOCBlockChan[i].entries, k, ts),
             \/ \E c \in Workers : ClearDue(p, c)
             \/ \E j \in BlocksOf(FlushMark, pendingTOCBlockChan) : j > i
      PROVE  TOCAhead(p, n, k, ts)'
  BY <1>5, AheadInPending
<1>6. ASSUME NEW c \in Workers, tb[c].file = n, EntriesHave(tb[c].entries, k, ts), ClearDue(p, c)
      PROVE  TOCAhead(p, n, k, ts)'
  BY <1>6, AheadInTB
<1>7. EntriesHave(files[n].toc, k, ts) \/ TOCAhead(p, n, k, ts)'
  BY <1>5, <1>6 DEF TOCAhead
<1> QED
  BY <1>2, <1>3, <1>4, <1>7

\* A block that is being cleared and is ahead of the marks: so is its memClearer.
LEMMA ClearerAhead ==
  ASSUME NEW p \in Flushers, FlushState(p), NEW b \in Blocks, BlockAhead(p, b), NEW c \in Workers, clearing[c] = b
  PROVE  ClearDue(p, c) /\ (blockFile[b] # fl \/ FlushAtFile(p))
<1>1. /\ BeforeFile /\ AfterFile /\ AfterFileDistinct
      /\ blockFile[b] # 0 /\ b # 0
  BY BlockFacts DEF FlushState, IInv, AfterFile
<1>2. ~\E w \in Workers : memBlock[w] = b
  BY <1>1 DEF BeforeFile
<1>3. ~\E i \in DOMAIN fileMemBlockChan : fileMemBlockChan[i] = b
  BY <1>1 DEF BeforeFile
<1>4. inHand # b /\ ~\E i \in DOMAIN unwritten : unwritten[i].block = b
  BY <1>1 DEF BeforeFile, AfterFileDistinct
<1>5. /\ ~\E d \in Workers : \E i \in DOMAIN freeableMemBlockChans[d] : freeableMemBlockChans[d][i] = b
      /\ \A d \in Workers : clearing[d] = b => d = c
  BY <1>1 DEF AfterFileDistinct
<1>6. /\ blockFile[b] # fl \/ FlushAtFile(p)
      /\ ~FlushSentTo(p, c) \/ Where(FlushMark, freeableMemBlockChans[c]) # {}
  BY <1>2, <1>3, <1>4, <1>5 DEF BlockAhead
<1> QED
  BY <1>6 DEF ClearDue

\* When its memClearer goes on, an entry of a block that is ahead of the marks
\* is still there, has gone to a TOC block that is ahead of them, or has been
\* superseded.
LEMMA BlockCleared ==
  ASSUME NEW p \in Flushers, FlushState(p), NoLateTOCBlock, NoRemovals, Next, ~FlushCall(p),
         NEW b \in Blocks, NEW k \in Keys, NEW ts \in Nat, BlockAhead(p, b), BlockHas(b, k, ts),
         NEW c \in Workers, clearing[c] = b, ClearEntry(c) \/ ClearSendFull(c)
  PROVE  locmap[k].ts > ts \/ CopyAhead(p, k, ts)'
<1>1. /\ IInv /\ TypeOK /\ AfterFileDistinct /\ Content /\ tb \in [Workers -> TOCBlock]
      /\ clearPos \in [Workers -> Nat \ {0}] /\ mem \in [Blocks -> Seq(Entry)]
      /\ locmap \in [Keys -> [ts : Nat, id : Nat, off : Nat]]
  BY DEF FlushState, IInv, TypeOK, TypeClearer, TypeMem, Location
<1>2. PICK i \in DOMAIN mem[b] : mem[b][i].key = k /\ mem[b][i].ts >= ts /\ i >= clearPos[c]
  BY DEF BlockHas
<1>3. UNCHANGED <<mem, clearing, blockFile, files>>
  BY DEF ClearEntry, ClearSendFull, memVars, fileVars
<1>4. \A d \in Workers : clearing[d] = b => d = c
  BY <1>1 DEF AfterFileDistinct
<1>5. clearPos[c] <= Len(mem[b]) /\ clearPos[c] \in DOMAIN mem[b]
  <2>1. mem[b] \in Seq(Entry) /\ clearPos[c] \in Nat \ {0}
    BY <1>1
  <2>2. ClearEntry(c) => clearPos[c] <= Len(mem[b])
    BY DEF ClearEntry
  <2>3. ClearSendFull(c) => clearPos[c] \in DOMAIN mem[b]
    BY <1>1 DEF ClearSendFull, Content, AtEntry
  <2> QED
    BY <2>1, <2>2, <2>3
<1>6. ~ClearFree(c)
  <2>1. Len(mem[b]) \in Nat /\ clearPos[c] \in Nat
    BY <1>1
  <2> QED
    BY <1>5, <2>1 DEF ClearFree
<1>7. BlockAhead(p, b)'
  <2>1. mem[b] # <<>>
    BY <1>2, EmptySeq
  <2> QED
    BY <1>4, <1>6, <2>1, BlockAheadStays
<1>8. clearPos'[c] = clearPos[c] \/ clearPos'[c] = clearPos[c] + 1
  BY <1>1 DEF ClearEntry, ClearSendFull
<1>9. CASE i >= clearPos'[c]
  <2>1. BlockHas(b, k, ts)'
    BY <1>2, <1>3, <1>4, <1>9 DEF BlockHas
  <2> QED
    BY <1>7, <2>1 DEF CopyAhead
<1>10. CASE ~(i >= clearPos'[c])
  <2>1. i = clearPos[c] /\ clearPos'[c] = clearPos[c] + 1
    <3>1. i \in Nat /\ clearPos[c] \in Nat
      BY <1>1
    <3> QED
      BY <1>2, <1>8, <1>10, <3>1
  <2>2. PICK e : e = TOCEntryAt(c)
    OBVIOUS
  <2>3. e.key = k /\ e.ts = mem[b][i].ts /\ e.ts \in Nat /\ e.off # 0 /\ e \in TOCEntry
    <3>1. clearing[c] \in Blocks /\ clearPos[c] <= Len(mem[clearing[c]])
      BY <1>5
    <3>2. /\ TOCEntryAt(c).key = mem[clearing[c]][clearPos[c]].key
          /\ TOCEntryAt(c).ts = mem[clearing[c]][clearPos[c]].ts /\ mem[clearing[c]][clearPos[c]].ts \in Nat
          /\ TOCEntryAt(c).off # 0 /\ TOCEntryAt(c) \in TOCEntry
      BY <1>1, <3>1, ClearEntryIs
    <3> QED
      BY <1>2, <2>1, <2>2, <3>2
  <2>4. PICK n : n = blockFile[b]
    OBVIOUS
  <2>5. ClearDue(p, c) /\ (blockFile[b] # fl \/ FlushAtFile(p))
    BY ClearerAhead
  <2>6. ClearDue(p, c)'
    <3>1. clearing[c] # FlushMark
      BY BlockFacts DEF Marks
    <3> QED
      BY <2>5, <3>1, ClearDueStep
  <2>7. n \in DOMAIN files /\ n # 0
    BY <1>1, <1>2, <2>4 DEF IInv, AfterFile, Content, BlockInFile, FileHas
  <2>8. n # fl' \/ FlushAtFile(p)'
    <3>1. mem[b] # <<>>
      BY <1>2, EmptySeq
    <3>2. blockFile'[b] # fl' \/ FlushAtFile(p)'
      BY <1>4, <1>6, <2>4, <2>5, <2>7, <3>1, AheadInFile
    <3> QED
      BY <1>3, <2>4, <3>2
  <2>9. ASSUME tb'[c].file = n, EntriesHave(tb'[c].entries, k, ts) PROVE CopyAhead(p, k, ts)'
    <3>1. TOCAhead(p, n, k, ts)'
      BY <2>6, <2>9 DEF TOCAhead, EntriesHave
    <3>2. n \in DOMAIN files'
      BY <1>3, <2>7
    <3> QED
      BY <2>8, <3>1, <3>2 DEF CopyAhead
  <2>10. e.ts >= ts
    BY <1>2, <2>3
  <2>11. CASE ClearSendFull(c)
    <3>1. tb'[c].file = n /\ tb'[c].entries = <<e>>
      BY <1>1, <2>2, <2>4, <2>11 DEF ClearSendFull
    <3>2. 1 \in DOMAIN <<e>> /\ <<e>>[1] = e
      OBVIOUS
    <3>3. EntriesHave(tb'[c].entries, k, ts)
      BY <2>3, <2>10, <3>1, <3>2 DEF EntriesHave
    <3> QED
      BY <2>9, <3>1, <3>3
  <2>12. CASE ClearEntry(c)
    <3>1. CASE locmap[e.key].ts > e.ts
      <4>1. locmap[k].ts \in Nat
        BY <1>1
      <4> QED
        BY <2>3, <2>10, <3>1, <4>1
    <3>2. CASE ~(locmap[e.key].ts > e.ts)
      <4>1. clearPos' # clearPos
        BY <1>1, <2>1
      <4>2. tb' = [tb EXCEPT ![c] = [file |-> blockFile[b], entries |-> Append(tb[c].entries, e)]]
        BY <2>2, <2>12, <3>2, <4>1 DEF ClearEntry
      <4>3. tb'[c].file = n /\ tb'[c].entries = Append(tb[c].entries, e)
        BY <1>1, <2>4, <4>2
      <4>4. tb[c].entries \in Seq(TOCEntry)
        BY <1>1 DEF TOCBlock
      <4>5. EntriesHave(tb'[c].entries, k, ts)
        BY <2>3, <2>10, <4>3, <4>4, EntryAdded
      <4> QED
        BY <2>9, <4>3, <4>5
    <3> QED
      BY <3>1, <3>2
  <2> QED
    BY <2>11, <2>12
<1> QED
  BY <1>9, <1>10

\* When Flush is called, all that the location map has is ahead of the marks.
LEMMA CallAhead ==
  ASSUME NEW p \in Flushers, FlushState(p), NoRemovals, NoGhosts, NoneLost, Tracked, FlushCall(p),
         NEW k \in Keys, NEW ts, ts = locmap[k].ts, ts > 0
  PROVE  CopyAhead(p, k, ts)'
<1>1. /\ IInv /\ TypeOK /\ BeforeFile /\ Content /\ LocationOK(k) /\ AtEntry
      /\ clearPos \in [Workers -> Nat \ {0}] /\ mem \in [Blocks -> Seq(Entry)]
      /\ locmap \in [Keys -> [ts : Nat, id : Nat, off : Nat]] /\ files \in Seq(FileRec)
  BY DEF FlushState, IInv, TypeOK, TypeClearer, TypeMem, TypeFile, Location, Content
<1>2. /\ \A w \in Workers : MarkDue(p, w)'
      /\ FlushAtFile(p)'
      /\ \A c \in Workers : ~FlushSentTo(p, c)' /\ ClearDue(p, c)'
  BY FlushCallMarks
<1>3. UNCHANGED <<mem, memBlock, fileMemBlockChan, inHand, unwritten, blockFile, fl, files, freeableMemBlockChans,
                  clearing, clearPos, tb, pendingTOCBlockChan>>
  BY DEF FlushCall, memVars, writerVars, fileVars, clearerVars
<1>4. 1 \in Workers
  BY WorkersAssumption DEF Workers
<1>5. ts \in Nat /\ locmap[k].id # 0 /\ locmap[k].off \in Nat
  <2>1. locmap[k].ts \in Nat /\ locmap[k].off \in Nat
    BY <1>1
  <2> QED
    BY <2>1 DEF NoGhosts
<1>6. ASSUME NEW b \in Blocks, BlockHas(b, k, ts) PROVE CopyAhead(p, k, ts)'
  <2>1. BlockHas(b, k, ts)'
    BY <1>3, <1>6 DEF BlockHas
  <2>2. mem[b] # <<>>
    BY <1>6, EmptySeq DEF BlockHas
  <2>3. CASE \E i \in DOMAIN freeMemBlockChan : freeMemBlockChan[i] = b
    BY <1>1, <2>2, <2>3 DEF BeforeFile
  <2>4. CASE \E w \in Workers : memBlock[w] = b
    <3>1. BlockAhead(p, b)'
      BY <1>2, <1>3, <2>4 DEF BlockAhead
    <3> QED
      BY <2>1, <3>1 DEF CopyAhead
  <2>5. CASE \E i \in DOMAIN fileMemBlockChan : fileMemBlockChan[i] = b
    <3>1. BlockAhead(p, b)'
      BY <1>2, <1>3, <1>4, <2>5 DEF BlockAhead
    <3> QED
      BY <2>1, <3>1 DEF CopyAhead
  <2>6. CASE inHand = b \/ \E i \in DOMAIN unwritten : unwritten[i].block = b
    <3>1. BlockAhead(p, b)'
      BY <1>2, <1>3, <2>6 DEF BlockAhead
    <3> QED
      BY <2>1, <3>1 DEF CopyAhead
  <2>7. CASE Released(b) \/ \E c \in Workers : clearing[c] = b
    <3>1. BlockAhead(p, b)'
      BY <1>2, <1>3, <2>7 DEF BlockAhead, Released
    <3> QED
      BY <2>1, <3>1 DEF CopyAhead
  <2> QED
    BY <2>3, <2>4, <2>5, <2>6, <2>7 DEF NoneLost, Somewhere
<1>7. CASE locmap[k].id \in Blocks
  <2>1. PICK b \in Blocks : b = locmap[k].id
    BY <1>7
  <2>2. PICK i : i = locmap[k].off
    OBVIOUS
  <2>3. /\ i \in DOMAIN mem[b] /\ mem[b][i].key = k /\ mem[b][i].ts = ts
        /\ \A c \in Workers : clearing[c] = b => i >= clearPos[c]
    BY <1>1, <2>1, <2>2 DEF LocationOK
  <2>4. BlockHas(b, k, ts)
    BY <1>5, <2>3 DEF BlockHas
  <2> QED
    BY <1>6, <2>4
<1>8. CASE locmap[k].id \notin Blocks
  <2>1. PICK n : n = locmap[k].id - NumBlocks
    OBVIOUS
  <2>2. PICK e : e = [key |-> k, ts |-> ts, off |-> locmap[k].off]
    OBVIOUS
  <2>3. n \in DOMAIN files /\ locmap[k].off \in DOMAIN files[n].data
    BY <1>1, <1>5, <1>8, <2>1 DEF LocationOK, FileHas
  <2>4. e.off # 0 /\ e.key = k /\ e.ts = ts
    <3>1. files[n] \in FileRec
      BY <1>1, <2>3
    <3>2. files[n].data \in Seq(Entry)
      BY <3>1 DEF FileRec
    <3> QED
      BY <2>2, <2>3, <3>2
  <2>5. OnItsWay(n, e)
    BY <1>5, <1>8, <2>1, <2>2 DEF Tracked
  <2>6. ASSUME NEW s, Among(e, s) PROVE EntriesHave(s, k, ts)
    BY <1>5, <2>4, <2>6 DEF Among, EntriesHave
  <2>7. ASSUME TOCAhead(p, n, k, ts)' PROVE CopyAhead(p, k, ts)'
    BY <1>2, <1>3, <2>3, <2>7 DEF CopyAhead
  <2>8. CASE Among(e, files[n].toc)
    <3>1. EntriesHave(files[n].toc, k, ts)
      BY <2>6, <2>8
    <3>2. TOCAhead(p, n, k, ts)'
      BY <1>3, <3>1 DEF TOCAhead, EntriesHave
    <3> QED
      BY <2>7, <3>2
  <2>9. ASSUME NEW i \in DOMAIN pendingTOCBlockChan, pendingTOCBlockChan[i].file = n,
               Among(e, pendingTOCBlockChan[i].entries)
        PROVE  CopyAhead(p, k, ts)'
    <3>1. EntriesHave(pendingTOCBlockChan[i].entries, k, ts)
      BY <2>6, <2>9
    <3>2. TOCAhead(p, n, k, ts)'
      BY <1>2, <1>3, <1>4, <2>9, <3>1 DEF TOCAhead, EntriesHave
    <3> QED
      BY <2>7, <3>2
  <2>10. ASSUME NEW c \in Workers, tb[c].file = n, Among(e, tb[c].entries) PROVE CopyAhead(p, k, ts)'
    <3>1. EntriesHave(tb[c].entries, k, ts)
      BY <2>6, <2>10
    <3>2. TOCAhead(p, n, k, ts)'
      BY <1>2, <1>3, <2>10, <3>1 DEF TOCAhead, EntriesHave
    <3> QED
      BY <2>7, <3>2
  <2>11. ASSUME NEW c \in Workers, tbFull[c], TOCEntryAt(c) = e PROVE CopyAhead(p, k, ts)'
    <3>1. PICK b \in Blocks : b = clearing[c]
      BY <1>1, <2>11 DEF AtEntry
    <3>2. PICK i \in DOMAIN mem[b] : i = clearPos[c]
      BY <1>1, <2>11, <3>1 DEF AtEntry
    <3>3. mem[b][i].key = k /\ mem[b][i].ts = ts
      BY <2>4, <2>11, <3>1, <3>2 DEF TOCEntryAt
    <3>4. \A d \in Workers : clearing[d] = b => d = c
      BY <3>1 DEF FlushState, IInv, AfterFileDistinct
    <3>5. i \in Nat /\ i >= i /\ ts >= ts
      BY <1>1, <1>5, <3>2
    <3>6. BlockHas(b, k, ts)
      BY <3>2, <3>3, <3>4, <3>5 DEF BlockHas
    <3> QED
      BY <1>6, <3>6
  <2> QED
    BY <2>5, <2>8, <2>9, <2>10, <2>11 DEF OnItsWay
<1> QED
  BY <1>7, <1>8

\* When the tocWriter has got the last mark, what was ahead of the marks is on disk.
LEMMA LastMarkOnDisk ==
  ASSUME NEW p \in Flushers, FlushState(p), Next, TOCMark, Head(pendingTOCBlockChan).file = FlushMark,
         memClearersFlushLeft = 1, ~FlushAtTOC(p)', NEW k, NEW ts, CopyAhead(p, k, ts)
  PROVE  OnDisk(k, ts)'
<1>1. TypeOK /\ pendingTOCBlockChan \in Seq(TOCBlock) /\ files \in Seq(FileRec)
  BY DEF FlushState, IInv, TypeOK, TypeClearer, TypeFile
<1>2. /\ pendingTOCBlockChan # <<>> /\ pendingTOCBlockChan' = Tail(pendingTOCBlockChan)
      /\ UNCHANGED <<files, fl>> /\ activeTOCA' = 0 /\ activeTOCB' = 0
  BY DEF TOCMark, fileVars
<1>3. (\A c \in Workers : ~ClearDue(p, c)) /\ BlocksOf(FlushMark, pendingTOCBlockChan') = {}
  <2>1. \A c \in Workers : ClearDue(p, c)' <=> ClearDue(p, c)
    BY TOCReceives
  <2> QED
    BY <2>1 DEF FlushAtTOC, BlocksOf
<1>4. ~FlushAtFile(p)
  BY <1>1, <1>3, AtFileIsDue
<1>5. ASSUME NEW b \in Blocks PROVE ~BlockAhead(p, b)
  BY <1>3, <1>4 DEF BlockAhead, ClearDue, FlushAtFile
<1>6. PICK n \in DOMAIN files : n # fl /\ TOCAhead(p, n, k, ts)
  BY <1>4, <1>5 DEF CopyAhead
<1>7. ASSUME NEW i \in DOMAIN pendingTOCBlockChan, NEW j \in BlocksOf(FlushMark, pendingTOCBlockChan), j > i
      PROVE  FALSE
  <2>1. j \in 1..Len(pendingTOCBlockChan) /\ (j = 1 \/ j - 1 \in BlocksOf(FlushMark, pendingTOCBlockChan'))
    BY <1>1, <1>2, BlocksOfReceive
  <2>2. j = 1
    BY <1>3, <2>1
  <2>3. i \in Nat /\ i >= 1
    BY <1>1
  <2> QED
    BY <1>7, <2>2, <2>3
<1>8. EntriesHave(files[n].toc, k, ts)
  BY <1>3, <1>6, <1>7 DEF TOCAhead
<1>9. n # 0
  BY <1>1
<1> QED
  BY <1>2, <1>6, <1>8, <1>9 DEF OnDisk, EntriesHave

-----------------------------------------------------------------------------
(* What Flush promises *)

\* FlushAhead and FlushedOnDisk, with the timestamps given.
LEMMA FlushAheadWhen ==
  ASSUME NEW p \in Flushers,
         \A k \in Keys : flushPC'[p] # 0 /\ flushSees'[p][k] > 0 =>
           \E ts : /\ ts = flushSees'[p][k]
                   /\ locmap'[k].ts > ts \/ IF FlushAtTOC(p)' THEN CopyAhead(p, k, ts)' ELSE OnDisk(k, ts)'
  PROVE  FlushAhead(p)'
<1>1. SUFFICES ASSUME NEW k \in Keys, flushPC'[p] # 0, flushSees'[p][k] > 0, NEW ts, ts = flushSees'[p][k],
                      locmap'[k].ts > ts \/ IF FlushAtTOC(p)' THEN CopyAhead(p, k, ts)' ELSE OnDisk(k, ts)'
               PROVE  (\/ locmap[k].ts > flushSees[p][k]
                       \/ IF FlushAtTOC(p) THEN CopyAhead(p, k, flushSees[p][k]) ELSE OnDisk(k, flushSees[p][k]))'
  BY DEF FlushAhead
<1>2. CASE locmap'[k].ts > ts
  BY <1>1, <1>2
<1>3. CASE FlushAtTOC(p)' /\ CopyAhead(p, k, ts)'
  <2>1. CopyAhead(p, k, flushSees[p][k])'
    BY <1>1, <1>3 DEF CopyAhead, BlockHas, TOCAhead, EntriesHave
  <2> QED
    BY <1>3, <2>1
<1>4. CASE ~FlushAtTOC(p)' /\ OnDisk(k, ts)'
  <2>1. OnDisk(k, flushSees[p][k])'
    BY <1>1, <1>4 DEF OnDisk, EntriesHave
  <2> QED
    BY <1>4, <2>1
<1> QED
  BY <1>1, <1>2, <1>3, <1>4

LEMMA FlushedWhen ==
  ASSUME \A k \in Keys : flushed'[k] > 0 => \E ts : ts = flushed'[k] /\ (OnDisk(k, ts)' \/ locmap'[k].ts > ts)
  PROVE  FlushedOnDisk'
<1>1. SUFFICES ASSUME NEW k \in Keys, flushed'[k] > 0, NEW ts, ts = flushed'[k],
                      OnDisk(k, ts)' \/ locmap'[k].ts > ts
               PROVE  (OnDisk(k, flushed[k]) \/ locmap[k].ts > flushed[k])'
  BY DEF FlushedOnDisk
<1>2. OnDisk(k, ts)' => OnDisk(k, flushed[k])'
  BY <1>1 DEF OnDisk, EntriesHave
<1> QED
  BY <1>1, <1>2

\* Only Flush changes what it has seen and what it has flushed.
LEMMA FlushSeesStep ==
  ASSUME Next
  PROVE  \/ UNCHANGED <<flushSees, flushed>>
         \/ \E q \in Flushers : FlushReturn(q) \/ (FlushCall(q) /\ UNCHANGED flushed)
<1>1. ASSUME NEW w \in Workers,
             (\E r \in Requests : MemReceive(w, r)) \/ MemSwitch(w) \/ MemWriter(w) \/ MemClearer(w)
      PROVE  UNCHANGED <<flushSees, flushed>>
  BY <1>1 DEF MemReceive, MemSwitch, MemWriter, MemReject, MemRotate, MemTake, MemStore, MemMark, MemClearer,
     ClearReceive, ClearSendTOC, ClearEntry, ClearSendFull, ClearFree, ClearMark, callerVars
<1>2. FileWriter \/ BufferWritten \/ TOCWriter => UNCHANGED <<flushSees, flushed>>
  BY DEF FileWriter, FileReceive, FileClosed, FileCreate, FileWrite, FileMark, BufferWritten, TOCWriter,
     TOCBlockWritten, TOCMark, TOCFlushed, callerVars
<1>3. \A q \in Flushers : FlushCall(q) => UNCHANGED flushed
  BY DEF FlushCall
<1>4. Callers /\ ~(\E q \in Flushers : FlushCall(q) \/ FlushReturn(q)) => UNCHANGED <<flushSees, flushed>>
  BY DEF Callers, FlushStep, FlushSend, ShutdownCall, ShutdownSend, ShutdownReturn, DiscardLocalRemoval,
     ReadGet, ReadMemBlock, ReadFile, ReadReturn, Idle, vars, callerVars
<1> QED
  BY <1>1, <1>2, <1>3, <1>4 DEF Next, Callers

\* What is ahead of the marks stays so, or is superseded, while there are marks.
LEMMA CopyAheadStays ==
  ASSUME NEW p \in Flushers, FlushState(p), NoLateTOCBlock, NoRemovals, Next, ~FlushCall(p),
         NEW k \in Keys, NEW ts \in Nat, CopyAhead(p, k, ts)
  PROVE  locmap[k].ts > ts \/ CopyAhead(p, k, ts)'
<1>1. ASSUME NEW n \in DOMAIN files, n # fl \/ FlushAtFile(p), TOCAhead(p, n, k, ts)
      PROVE  CopyAhead(p, k, ts)'
  <2>1. n \in DOMAIN files' /\ (n # fl' \/ FlushAtFile(p)') /\ TOCAhead(p, n, k, ts)'
    BY <1>1, TOCAheadStays
  <2> QED
    BY <2>1 DEF CopyAhead
<1>2. ASSUME NEW b \in Blocks, BlockAhead(p, b), BlockHas(b, k, ts)
      PROVE  locmap[k].ts > ts \/ CopyAhead(p, k, ts)'
  <2>1. CASE \E c \in Workers : clearing[c] = b /\ (ClearEntry(c) \/ ClearSendFull(c))
    BY <1>2, <2>1, BlockCleared
  <2>2. CASE \A c \in Workers : clearing[c] = b => ~ClearEntry(c) /\ ~ClearSendFull(c)
    <3>1. BlockHas(b, k, ts)' /\ \A c \in Workers : clearing[c] = b => ~ClearFree(c)
      BY <1>2, <2>2, BlockHasStays DEF FlushState
    <3>2. mem[b] # <<>>
      BY <1>2, EmptySeq DEF BlockHas
    <3>3. BlockAhead(p, b)'
      BY <1>2, <3>1, <3>2, BlockAheadStays
    <3> QED
      BY <3>1, <3>3 DEF CopyAhead
  <2> QED
    BY <2>1, <2>2
<1>3. \/ \E b \in Blocks : BlockAhead(p, b) /\ BlockHas(b, k, ts)
      \/ \E n \in DOMAIN files : (n # fl \/ FlushAtFile(p)) /\ TOCAhead(p, n, k, ts)
  BY DEF CopyAhead
<1> QED
  BY <1>1, <1>2, <1>3

\* What the location map had when Flush was called is ahead of its marks until
\* they are past the tocWriter, and on disk after that, or is superseded.
LEMMA FlushAheadStep ==
  ASSUME NEW p \in Flushers, FlushState(p), NoLateTOCBlock, NoneLost, Tracked, NoRemovals, NoGhosts,
         FlushAhead(p), Next
  PROVE  FlushAhead(p)'
<1>1. /\ TypeOK /\ IInv /\ OneFlusher /\ \A q \in Flushers : q = p
      /\ flushPC \in [Flushers -> 0..(NumWorkers + 1)] /\ flushSees \in [Flushers -> [Keys -> Nat]]
      /\ locmap \in [Keys -> [ts : Nat, id : Nat, off : Nat]]
  BY DEF FlushState, IInv, OneFlusher, TypeOK, TypeCaller, TypeMem, Location
<1>2. (IInv /\ TypeOK)'
  BY <1>1, InvStep DEF IInv
<1>3. locmap' \in [Keys -> [ts : Nat, id : Nat, off : Nat]]
  BY <1>2 DEF TypeOK, TypeMem, Location
<1>4. CASE FlushCall(p)
  <2>1. ASSUME NEW k \in Keys, flushSees'[p][k] > 0
        PROVE  \E ts : /\ ts = flushSees'[p][k]
                       /\ locmap'[k].ts > ts \/ IF FlushAtTOC(p)' THEN CopyAhead(p, k, ts)' ELSE OnDisk(k, ts)'
    <3>1. PICK ts : ts = locmap[k].ts
      OBVIOUS
    <3>2. flushSees'[p][k] = ts
      BY <1>1, <1>4, <3>1 DEF FlushCall
    <3>3. CopyAhead(p, k, ts)'
      BY <1>4, <2>1, <3>1, <3>2, CallAhead
    <3>4. FlushAtTOC(p)'
      BY <1>4, FlushCallMarks
    <3> QED
      BY <3>2, <3>3, <3>4
  <2> QED
    BY <2>1, FlushAheadWhen
<1>5. CASE ~FlushCall(p)
  <2>1. ASSUME NEW k \in Keys, flushPC'[p] # 0, flushSees'[p][k] > 0
        PROVE  \E ts : /\ ts = flushSees'[p][k]
                       /\ locmap'[k].ts > ts \/ IF FlushAtTOC(p)' THEN CopyAhead(p, k, ts)' ELSE OnDisk(k, ts)'
    <3>1. PICK ts \in Nat : ts = flushSees[p][k]
      BY <1>1
    <3>2. ~FlushReturn(p) /\ flushPC[p] # 0
      <4>1. ~FlushReturn(p)
        BY <1>1, <2>1 DEF FlushReturn
      <4>2. FlushSend(p) => flushPC[p] # 0
        BY DEF FlushSend, Workers
      <4> QED
        BY <1>1, <1>5, <2>1, <4>1, <4>2, FlushPCStep
    <3>3. flushSees'[p][k] = ts
      BY <1>1, <1>5, <3>1, <3>2, FlushSeesStep
    <3>4. ~ShutdownReturn
      <4>1. shutdownPC = 0
        BY <3>2 DEF FlushState, FlushMarks, OneMarkEach
      <4> QED
        BY <4>1, WorkersAssumption DEF ShutdownReturn
    <3>5. locmap'[k].ts >= locmap[k].ts /\ locmap[k].ts \in Nat /\ locmap'[k].ts \in Nat
      BY <1>1, <1>3, <3>4, LocationsStep
    <3>6. locmap[k].ts > ts => locmap'[k].ts > ts
      BY <3>5
    <3>7. locmap[k].ts > ts \/ IF FlushAtTOC(p) THEN CopyAhead(p, k, ts) ELSE OnDisk(k, ts)
      <4>1. flushSees[p][k] > 0
        BY <2>1, <3>1, <3>3
      <4> QED
        BY <3>1, <3>2, <4>1 DEF FlushAhead
    <3>8. CASE FlushAtTOC(p) /\ CopyAhead(p, k, ts)
      <4>1. CASE FlushAtTOC(p)'
        <5>1. locmap[k].ts > ts \/ CopyAhead(p, k, ts)'
          BY <1>5, <3>8, CopyAheadStays
        <5> QED
          BY <3>3, <3>6, <4>1, <5>1
      <4>2. CASE ~FlushAtTOC(p)'
        <5>1. TOCMark /\ Head(pendingTOCBlockChan).file = FlushMark /\ memClearersFlushLeft = 1
          BY <1>5, <3>8, <4>2, AtTOCStep
        <5>2. OnDisk(k, ts)'
          BY <3>8, <4>2, <5>1, LastMarkOnDisk
        <5> QED
          BY <3>3, <4>2, <5>2
      <4> QED
        BY <4>1, <4>2
    <3>9. CASE ~FlushAtTOC(p) /\ OnDisk(k, ts)
      <4>1. ~FlushAtTOC(p)'
        BY <1>5, <3>9, AtTOCStep
      <4>2. OnDisk(k, ts)'
        BY <1>1, <3>9, OnDiskStays
      <4> QED
        BY <3>3, <4>1, <4>2
    <3>10. CASE locmap[k].ts > ts
      BY <3>3, <3>6, <3>10
    <3> QED
      BY <3>7, <3>8, <3>9, <3>10
  <2> QED
    BY <2>1, FlushAheadWhen
<1> QED
  BY <1>4, <1>5

\* A key that is on disk, or has something newer, stays so: Shutdown, which
\* clears the location map, has written the newer value to disk.
LEMMA FlushedStays ==
  ASSUME OneFlusher, IInv, StopInv, NoLateTOCBlock, NoneLost, Tracked, NoRemovals, NoGhosts, Next,
         NEW k \in Keys, NEW ts \in Nat, OnDisk(k, ts) \/ locmap[k].ts > ts
  PROVE  OnDisk(k, ts)' \/ locmap'[k].ts > ts
<1>1. /\ TypeOK /\ locmap \in [Keys -> [ts : Nat, id : Nat, off : Nat]] /\ files \in Seq(FileRec)
  BY DEF IInv, TypeOK, TypeMem, TypeFile, Location
<1>2. (IInv /\ TypeOK)'
  BY InvStep DEF IInv
<1>3. locmap' \in [Keys -> [ts : Nat, id : Nat, off : Nat]]
  BY <1>2 DEF TypeOK, TypeMem, Location
<1>4. locmap[k].ts \in Nat /\ locmap'[k].ts \in Nat
  BY <1>1, <1>3
<1>5. CASE OnDisk(k, ts)
  BY <1>5, OnDiskStays
<1>6. CASE locmap[k].ts > ts /\ ~ShutdownReturn
  BY <1>4, <1>6, LocationsStep
<1>7. CASE locmap[k].ts > ts /\ ShutdownReturn
  <2>1. shutdownChan = 1
    BY <1>7 DEF ShutdownReturn
  <2>2. locmap[k].id # 0
    BY <1>4, <1>7 DEF NoGhosts
  <2>3. Recoverable(k, locmap[k].ts)
    BY <2>1, <2>2, ShutdownLeavesAll DEF ShutdownWritesToDisk
  <2>4. fl = 0
    BY <2>1, NothingLeft
  <2>5. PICK n \in DOMAIN files : \E i \in DOMAIN files[n].toc :
               /\ n \notin {activeTOCA, activeTOCB} /\ files[n].toc[i].key = k
               /\ files[n].toc[i].ts >= locmap[k].ts /\ files[n].toc[i].off # 0
    BY <2>3 DEF Recoverable
  <2>6. PICK i \in DOMAIN files[n].toc :
               /\ n \notin {activeTOCA, activeTOCB} /\ files[n].toc[i].key = k
               /\ files[n].toc[i].ts >= locmap[k].ts /\ files[n].toc[i].off # 0
    BY <2>5
  <2>7. files[n].toc[i].ts \in Nat
    <3>1. files[n] \in FileRec
      BY <1>1
    <3>2. files[n].toc \in Seq(TOCEntry)
      BY <3>1 DEF FileRec
    <3>3. files[n].toc[i] \in TOCEntry
      BY <3>2
    <3> QED
      BY <3>3 DEF TOCEntry
  <2>8. files[n].toc[i].ts >= ts
    BY <1>4, <1>7, <2>6, <2>7
  <2>9. n # fl
    BY <1>1, <2>4
  <2>10. OnDisk(k, ts)
    BY <2>6, <2>8, <2>9 DEF OnDisk, EntriesHave
  <2> QED
    BY <2>10, OnDiskStays
<1> QED
  BY <1>5, <1>6, <1>7

\* What Flush has flushed is on disk from when it returns.
LEMMA FlushedStep ==
  ASSUME OneFlusher, IInv, StopInv, NoLateTOCBlock, NoneLost, Tracked, NoRemovals, NoGhosts, Next,
         \A p \in Flushers : FlushMarks(p) /\ FlushAhead(p), FlushedOnDisk
  PROVE  FlushedOnDisk'
<1>1. /\ TypeOK /\ flushed \in [Keys -> Nat] /\ flushSees \in [Flushers -> [Keys -> Nat]] /\ NumWorkers \in Nat
  BY WorkersAssumption DEF IInv, TypeOK, TypeCaller
<1>2. ASSUME NEW k \in Keys, flushed[k] > 0, flushed'[k] = flushed[k]
      PROVE  \E ts : ts = flushed'[k] /\ (OnDisk(k, ts)' \/ locmap'[k].ts > ts)
  <2>1. PICK ts \in Nat : ts = flushed[k]
    BY <1>1
  <2>2. OnDisk(k, ts) \/ locmap[k].ts > ts
    BY <1>2, <2>1 DEF FlushedOnDisk
  <2>3. OnDisk(k, ts)' \/ locmap'[k].ts > ts
    BY <2>2, FlushedStays
  <2> QED
    BY <1>2, <2>1, <2>3
<1>3. ASSUME NEW q \in Flushers, FlushReturn(q), NEW k \in Keys, flushed'[k] > 0, flushed'[k] = flushSees[q][k]
      PROVE  \E ts : ts = flushed'[k] /\ (OnDisk(k, ts)' \/ locmap'[k].ts > ts)
  <2>1. PICK ts \in Nat : ts = flushSees[q][k]
    BY <1>1
  <2>2. FlushState(q) /\ flushPC[q] # 0 /\ flushedChan = 1
    BY <1>1, <1>3 DEF FlushState, FlushReturn
  <2>3. ~FlushAtTOC(q)
    BY <2>2, TOCCount
  <2>4. FlushAhead(q) /\ flushSees[q][k] > 0
    BY <1>3
  <2>5. OnDisk(k, ts) \/ locmap[k].ts > ts
    BY <2>1, <2>2, <2>3, <2>4 DEF FlushAhead
  <2>6. OnDisk(k, ts)' \/ locmap'[k].ts > ts
    BY <2>5, FlushedStays
  <2> QED
    BY <1>3, <2>1, <2>6
<1>4. ASSUME NEW k \in Keys
      PROVE  flushed'[k] = flushed[k] \/ \E q \in Flushers : FlushReturn(q) /\ flushed'[k] = flushSees[q][k]
  <2>1. ASSUME NEW q \in Flushers, FlushReturn(q) PROVE flushed'[k] = flushed[k] \/ flushed'[k] = flushSees[q][k]
    BY <2>1 DEF FlushReturn
  <2> QED
    BY <2>1, FlushSeesStep
<1>5. \A k \in Keys : flushed'[k] > 0 => \E ts : ts = flushed'[k] /\ (OnDisk(k, ts)' \/ locmap'[k].ts > ts)
  BY <1>2, <1>3, <1>4
<1> QED
  BY <1>5, FlushedWhen

\* The invariant of Flush.
FlushInv == /\ NoRemovals /\ NoGhosts /\ FlushedOnDisk
            /\ \A p \in Flushers : FlushMarks(p) /\ FlushAhead(p)

LEMMA FlushInvInit == Init => FlushInv
<1> SUFFICES ASSUME Init PROVE FlushInv
  OBVIOUS
<1>1. NoRemovals /\ NoGhosts
  BY RemovalBit DEF Init, NoRemovals, NoGhosts, Missing
<1>2. FlushedOnDisk
  BY DEF Init, FlushedOnDisk
<1>3. \A p \in Flushers : FlushAhead(p)
  BY DEF Init, FlushAhead
<1> QED
  BY <1>1, <1>2, <1>3, FlushMarksInit DEF FlushInv

LEMMA FlushInvStutter == ASSUME FlushInv, UNCHANGED vars PROVE FlushInv'
<1>1. UNCHANGED <<locmap, mem, flushPC, flushSees, flushed, req, memBlock, fileMemBlockChan, inHand, markNext,
                  unwritten, blockFile, fl, files, freeableMemBlockChans, clearing, clearPos, tb,
                  pendingTOCBlockChan, activeTOCA, activeTOCB, memWritersFlushLeft, memClearersFlushLeft,
                  flushedChan, shutdownPC>>
  BY DEF vars, memVars, writerVars, fileVars, clearerVars, tocVars, callerVars
<1>2. NoRemovals' /\ NoGhosts'
  BY <1>1 DEF FlushInv, NoRemovals, NoGhosts
<1>3. \A k \in Keys : \A ts : OnDisk(k, ts)' <=> OnDisk(k, ts)
  BY <1>1 DEF OnDisk, EntriesHave
<1>4. FlushedOnDisk'
  <2>1. ASSUME NEW k \in Keys, flushed'[k] > 0
        PROVE  \E ts : ts = flushed'[k] /\ (OnDisk(k, ts)' \/ locmap'[k].ts > ts)
    <3>1. PICK ts : ts = flushed[k]
      OBVIOUS
    <3>2. OnDisk(k, ts) \/ locmap[k].ts > ts
      BY <1>1, <2>1, <3>1 DEF FlushInv, FlushedOnDisk
    <3> QED
      BY <1>1, <1>3, <3>1, <3>2
  <2> QED
    BY <2>1, FlushedWhen
<1>5. ASSUME NEW p \in Flushers PROVE FlushMarks(p)' /\ FlushAhead(p)'
  <2>1. FlushMarks(p) /\ FlushAhead(p)
    BY DEF FlushInv
  <2>2. FlushAtFile(p)' <=> FlushAtFile(p)
    BY <1>1 DEF FlushAtFile, MarkDue, Where
  <2>3. \A c \in Workers : FlushSentTo(p, c)' <=> FlushSentTo(p, c)
    BY <1>1, <2>2 DEF FlushSentTo
  <2>4. \A c \in Workers : ClearDue(p, c)' <=> ClearDue(p, c)
    BY <1>1, <2>3 DEF ClearDue, Where
  <2>5. FlushAtTOC(p)' <=> FlushAtTOC(p)
    BY <1>1, <2>4 DEF FlushAtTOC, BlocksOf
  <2>6. FlushMarks(p)'
    BY <1>1, <2>1 DEF FlushMarks, OneMarkEach, FileCountdown, TOCCountdown, FlushAtTOC, ClearDue, FlushSentTo,
       FlushAtFile, MarkDue, Where, BlocksOf
  <2>7. \A b \in Blocks : BlockAhead(p, b)' <=> BlockAhead(p, b)
    BY <1>1, <2>2, <2>3 DEF BlockAhead, MarkDue, Where
  <2>8. \A b \in Blocks, k \in Keys : \A ts : BlockHas(b, k, ts)' <=> BlockHas(b, k, ts)
    BY <1>1 DEF BlockHas
  <2>9. \A n \in DOMAIN files, k \in Keys : \A ts : TOCAhead(p, n, k, ts)' <=> TOCAhead(p, n, k, ts)
    BY <1>1, <2>4 DEF TOCAhead, EntriesHave, BlocksOf
  <2>10. \A k \in Keys : \A ts : CopyAhead(p, k, ts) => CopyAhead(p, k, ts)'
    BY <1>1, <2>2, <2>7, <2>8, <2>9 DEF CopyAhead
  <2>11. ASSUME NEW k \in Keys, flushPC'[p] # 0, flushSees'[p][k] > 0
         PROVE  \E ts : /\ ts = flushSees'[p][k]
                        /\ locmap'[k].ts > ts \/ IF FlushAtTOC(p)' THEN CopyAhead(p, k, ts)' ELSE OnDisk(k, ts)'
    <3>1. PICK ts : ts = flushSees[p][k]
      OBVIOUS
    <3>2. locmap[k].ts > ts \/ IF FlushAtTOC(p) THEN CopyAhead(p, k, ts) ELSE OnDisk(k, ts)
      BY <1>1, <2>1, <2>11, <3>1 DEF FlushAhead
    <3> QED
      BY <1>1, <1>3, <2>5, <2>10, <3>1, <3>2
  <2>12. FlushAhead(p)'
    BY <2>11, FlushAheadWhen
  <2> QED
    BY <2>6, <2>12
<1> QED
  BY <1>2, <1>4, <1>5 DEF FlushInv

LEMMA FlushInvStep ==
  ASSUME OneFlusher, IInv, StopInv, NoLateTOCBlock, NoneLost, Tracked, FlushInv, Next
  PROVE  FlushInv'
<1>1. NoRemovals /\ NoGhosts /\ FlushedOnDisk /\ \A p \in Flushers : FlushMarks(p) /\ FlushAhead(p)
  BY DEF FlushInv
<1>2. NoRemovals' /\ NoGhosts'
  BY <1>1, LocationsStep
<1>3. FlushedOnDisk'
  BY <1>1, FlushedStep
<1>4. ASSUME NEW p \in Flushers PROVE FlushMarks(p)' /\ FlushAhead(p)'
  <2>1. FlushState(p)
    BY <1>1 DEF FlushState
  <2>2. FlushMarks(p)'
    BY <2>1, OneMarkEachStep, FileCountdownStep, TOCCountdownStep DEF FlushMarks
  <2> QED
    BY <1>1, <2>1, <2>2, FlushAheadStep
<1> QED
  BY <1>2, <1>3, <1>4 DEF FlushInv

LEMMA FlushInvAlways == ASSUME OneFlusher PROVE Spec /\ []NoLateTOCBlock => []FlushInv
<1>1. IInv /\ StopInv /\ NoLateTOCBlock /\ NoneLost /\ Tracked /\ FlushInv /\ [Next]_vars => FlushInv'
  BY FlushInvStep, FlushInvStutter
<1> QED
  BY <1>1, FlushInvInit, InvAlways, StopAlways, NoneLostAlways, TrackedAlways, PTL DEF Spec

\* When Flush returns, every value that the location map knew when it was called
\* is in a closed TOC and on disk, unless something newer of the key has come
\* since: the marks stay behind the memory blocks, the buffers and the TOC blocks
\* that have the values, whatever the memWriters take and the memClearers move in
\* between, and the last one closes the TOCs.  One caller of Flush at a time and
\* no local removals, as FlushWritesToDiskOrNewer says; that no TOC block comes
\* for a closed TOC is the tocWriter's own assumption (valuestore 893-896).
THEOREM FlushIsDurable ==
  ASSUME OneFlusher
  PROVE  Spec /\ []NoLateTOCBlock => []FlushWritesToDiskOrNewer
<1>1. ASSUME IInv, StopInv, TOCEntriesOK, FlushInv PROVE FlushWritesToDiskOrNewer
  <2>1. ASSUME NEW k \in Keys, flushed[k] > 0 PROVE Recoverable(k, flushed[k]) \/ locmap[k].ts > flushed[k]
    <3>1. OnDisk(k, flushed[k]) \/ locmap[k].ts > flushed[k]
      BY <1>1, <2>1 DEF FlushInv, FlushedOnDisk
    <3>2. SyncOK
      BY <1>1 DEF StopInv
    <3> QED
      BY <1>1, <3>1, <3>2, OnDiskIsRecoverable
  <2> QED
    BY <2>1 DEF FlushWritesToDiskOrNewer
<1> QED
  BY <1>1, FlushInvAlways, InvAlways, StopAlways, TOCEntriesAlways, PTL

-----------------------------------------------------------------------------
(* One worker: no TOC block comes for a TOC that is closed *)

LEMMA MarkFacts == \A m \in Marks : m \in Int /\ m < 0
BY DEF Marks, FlushMark, ShutdownMark

\* What is at each stage is a number.
LEMMA StageTypes ==
  ASSUME IInv, NumWorkers = 1
  PROVE  /\ Stages \in [Stage -> Int]
         /\ Stages[1] = IF pendingTOCBlockChan = <<>> THEN 0 ELSE Head(pendingTOCBlockChan).file
         /\ Stages[2] = tb[1].file
         /\ Stages[3] = FileOf(clearing[1])
         /\ Stages[4] = IF freeableMemBlockChans[1] = <<>> THEN 0
                        ELSE FileOf(Head(freeableMemBlockChans[1]))
         /\ Stages[5] = fl
<1>1. /\ pendingTOCBlockChan \in Seq(TOCBlock) /\ tb[1] \in TOCBlock
      /\ clearing[1] \in Blocks \cup Marks \cup {0}
      /\ freeableMemBlockChans[1] \in Seq(Blocks \cup Marks)
      /\ blockFile \in [Blocks -> Nat] /\ fl \in Nat
  BY DEF IInv, TypeOK, TypeClearer, TypeBuffer, TypeFile, Workers
<1>2. \A x \in Blocks \cup Marks \cup {0} : FileOf(x) \in Int
  BY <1>1, MarkFacts DEF FileOf
<1>3. \A t \in TOCBlock : t.file \in Int
  BY MarkFacts DEF TOCBlock
<1>4. /\ pendingTOCBlockChan # <<>> => Head(pendingTOCBlockChan) \in TOCBlock
      /\ freeableMemBlockChans[1] # <<>> => Head(freeableMemBlockChans[1]) \in Blocks \cup Marks
  BY <1>1
<1> QED
  BY <1>1, <1>2, <1>3, <1>4 DEF Stages, Stage

\* Nothing overtakes: each stage gets what a later one had, or becomes empty.
Moved(g) ==
  /\ g \in [Stage -> 0..5]
  /\ \A j \in Stage : Stages'[j] = IF g[j] = 0 THEN 0 ELSE Stages[g[j]]
  /\ \A i, j \in Stage : i < j /\ g[i] # 0 /\ g[j] # 0 => g[i] <= g[j]

\* A file that precedes a stage precedes the one its item moves to.
LEMMA MovedPrecedes ==
  ASSUME NEW g, Moved(g), Stages \in [Stage -> Int], NEW n \in Int,
         NEW h \in Stage, NEW i \in Stage, NEW j \in Stage,
         g[j] # 0 => Precedes(n, h, g[j]),
         \A m \in Stage : i <= m /\ m < j /\ g[m] # 0 => h <= g[m]
  PROVE  Stages'[j] > 0 => /\ n <= Stages'[j]
                           /\ (\E m \in Stage : i <= m /\ m < j /\ Stages'[m] \in Marks) => n < Stages'[j]
<1>1. SUFFICES ASSUME Stages'[j] > 0
               PROVE  /\ n <= Stages'[j]
                      /\ \A m \in Stage : i <= m /\ m < j /\ Stages'[m] \in Marks => n < Stages'[j]
  OBVIOUS
<1>2. g[j] # 0 /\ g[j] \in Stage /\ Stages'[j] = Stages[g[j]] /\ Stages[g[j]] > 0 /\ Precedes(n, h, g[j])
  BY <1>1 DEF Moved, Stage
<1>3. n <= Stages'[j]
  BY <1>2 DEF Precedes
<1>4. ASSUME NEW m \in Stage, i <= m, m < j, Stages'[m] \in Marks
      PROVE  n < Stages'[j]
  <2>1. g[m] # 0 /\ g[m] \in Stage /\ Stages[g[m]] \in Marks
    BY <1>4, BlockFacts DEF Moved, Stage
  <2>2. h <= g[m] /\ g[m] <= g[j] /\ g[m] # g[j]
    BY <1>4, <1>2, <2>1, MarkFacts DEF Moved
  <2>3. g[m] < g[j]
    BY <1>2, <2>1, <2>2 DEF Stage
  <2> QED
    BY <1>2, <2>1, <2>2, <2>3 DEF Precedes
<1> QED
  BY <1>3, <1>4

LEMMA MovedInOrder ==
  ASSUME NEW g, Moved(g), Stages \in [Stage -> Int], StagesInOrder
  PROVE  StagesInOrder'
<1>1. SUFFICES ASSUME NEW i \in Stage, NEW j \in Stage, i < j, Stages'[i] > 0
               PROVE  Precedes(Stages[i], i, j)'
  BY DEF StagesInOrder
<1>2. g[i] # 0 /\ g[i] \in Stage /\ Stages'[i] = Stages[g[i]] /\ Stages[g[i]] \in Int /\ Stages[g[i]] > 0
  BY <1>1 DEF Moved, Stage
<1>3. \A m \in Stage : i <= m /\ m < j /\ g[m] # 0 => g[i] <= g[m]
  <2>1. \A m \in Stage : g[i] <= g[i] /\ (i <= m => i = m \/ i < m)
    BY <1>2 DEF Stage
  <2> QED
    BY <1>2, <2>1 DEF Moved
<1>4. g[j] # 0 => Precedes(Stages[g[i]], g[i], g[j])
  <2>1. SUFFICES ASSUME g[j] # 0 PROVE Precedes(Stages[g[i]], g[i], g[j])
    OBVIOUS
  <2>2. g[j] \in Stage /\ g[i] <= g[j]
    BY <1>1, <1>2, <2>1 DEF Moved, Stage
  <2>3. CASE g[i] = g[j]
    <3>1. \A m \in Stage : ~(g[i] <= m /\ m < g[i])
      BY <1>2 DEF Stage
    <3> QED
      BY <1>2, <2>3, <3>1 DEF Precedes
  <2>4. CASE g[i] < g[j]
    BY <1>2, <2>2, <2>4 DEF StagesInOrder
  <2> QED
    BY <1>2, <2>2, <2>3, <2>4 DEF Stage
<1>5. PICK n \in Int : n = Stages[g[i]]
  BY <1>2
<1>8. PICK h \in Stage : h = g[i]
  BY <1>2
<1>9. \A m \in Stage : i <= m /\ m < j /\ g[m] # 0 => h <= g[m]
  BY <1>3, <1>8
<1>6. g[j] # 0 => Precedes(n, h, g[j])
  BY <1>4, <1>5, <1>8
<1>7. Stages'[j] > 0 => /\ n <= Stages'[j]
                        /\ (\E m \in Stage : i <= m /\ m < j /\ Stages'[m] \in Marks) => n < Stages'[j]
  BY <1>9, <1>6, MovedPrecedes
<1> QED
  BY <1>2, <1>5, <1>7 DEF Precedes

LEMMA MovedActive ==
  ASSUME NEW g, Moved(g), Stages \in [Stage -> Int], ActiveFirst, TypeTOC, UNCHANGED <<activeTOCA, activeTOCB>>
  PROVE  ActiveFirst'
<1>1. SUFFICES ASSUME NEW n \in {activeTOCA, activeTOCB} \ {0}, NEW j \in Stage
               PROVE  Precedes(n, 1, j)'
  <2>1. ASSUME NEW n \in ({activeTOCA, activeTOCB} \ {0})', NEW j \in Stage
        PROVE  n \in {activeTOCA, activeTOCB} \ {0}
    OBVIOUS
  <2> QED
    BY <1>1, <2>1 DEF ActiveFirst
<1>2. n \in Int /\ 1 \in Stage
  BY DEF TypeTOC, Stage
<1>3. g[j] # 0 => Precedes(n, 1, g[j])
  BY DEF ActiveFirst, Moved, Stage
<1>4. \A m \in Stage : 1 <= m /\ m < j /\ g[m] # 0 => 1 <= g[m]
  BY DEF Moved, Stage
<1>5. Stages'[j] > 0 => /\ n <= Stages'[j]
                        /\ (\E m \in Stage : 1 <= m /\ m < j /\ Stages'[m] \in Marks) => n < Stages'[j]
  BY <1>2, <1>3, <1>4, MovedPrecedes
<1> QED
  BY <1>5 DEF Precedes

LEMMA MovedClosed ==
  ASSUME NEW g, Moved(g), ClosedBefore, UNCHANGED <<activeTOCA, activeTOCB>>,
         \A n \in DOMAIN files' : \/ files'[n].toc = <<>>
                                  \/ n \in DOMAIN files /\ files'[n].toc = files[n].toc
  PROVE  ClosedBefore'
<1>1. SUFFICES ASSUME NEW n \in DOMAIN files', files'[n].toc # <<>>, n \notin {activeTOCA, activeTOCB},
                      NEW j \in Stage, Stages'[j] > 0
               PROVE  n < Stages'[j]
  BY DEF ClosedBefore
<1>2. g[j] \in Stage /\ Stages'[j] = Stages[g[j]]
  BY <1>1 DEF Moved, Stage
<1> QED
  BY <1>1, <1>2 DEF ClosedBefore

\* A step that opens and closes no file or TOC.
LEMMA MovedOn ==
  ASSUME NEW g, Moved(g), Stages \in [Stage -> Int], OneByOne, TypeTOC, UNCHANGED <<activeTOCA, activeTOCB>>,
         Len(files) \in Nat, Len(files') = Len(files),
         \A n \in DOMAIN files' : \/ files'[n].toc = <<>>
                                  \/ n \in DOMAIN files /\ files'[n].toc = files[n].toc,
         TOCBlocksNamed', BuffersOfOpenFile'
  PROVE  OneByOne'
<1>1. StagesInOrder' /\ ActiveFirst' /\ ClosedBefore'
  BY MovedInOrder, MovedActive, MovedClosed DEF OneByOne
<1>2. \A j \in Stage : Stages'[j] <= Len(files)
  <2>1. \A j \in Stage : Stages[j] <= Len(files)
    BY DEF OneByOne, FilesExist
  <2>2. ASSUME NEW j \in Stage PROVE Stages'[j] <= Len(files)
    <3>1. CASE g[j] = 0
      BY <3>1 DEF Moved
    <3>2. CASE g[j] # 0
      <4>1. g[j] \in Stage
        BY <3>2 DEF Moved, Stage
      <4> QED
        BY <2>1, <3>2, <4>1 DEF Moved
    <3> QED
      BY <3>1, <3>2
  <2> QED
    BY <2>2
<1>3. FilesExist'
  BY <1>2 DEF OneByOne, FilesExist
<1> QED
  BY <1>1, <1>3 DEF OneByOne

\* What is at each stage.
LEMMA StageItems ==
  /\ Stages[1] = IF pendingTOCBlockChan = <<>> THEN 0 ELSE Head(pendingTOCBlockChan).file
  /\ Stages[2] = tb[1].file
  /\ Stages[3] = FileOf(clearing[1])
  /\ Stages[4] = IF freeableMemBlockChans[1] = <<>> THEN 0 ELSE FileOf(Head(freeableMemBlockChans[1]))
  /\ Stages[5] = fl
  /\ Stages'[1] = IF pendingTOCBlockChan' = <<>> THEN 0 ELSE Head(pendingTOCBlockChan').file
  /\ Stages'[2] = tb'[1].file
  /\ Stages'[3] = FileOf(clearing[1])'
  /\ Stages'[4] = IF freeableMemBlockChans'[1] = <<>> THEN 0 ELSE FileOf(Head(freeableMemBlockChans[1]))'
  /\ Stages'[5] = fl'
BY DEF Stages

\* A channel of capacity one.
LEMMA ShortChannel ==
  ASSUME NEW S, NEW s \in Seq(S), Len(s) <= 1
  PROVE  /\ s # <<>> => Tail(s) = <<>> /\ Len(s) = 1 /\ s[1] = Head(s) /\ Head(s) \in S
         /\ Len(s) < 1 => s = <<>>
<1>1. ASSUME s # <<>>
      PROVE  Tail(s) = <<>> /\ Len(s) = 1 /\ s[1] = Head(s) /\ Head(s) \in S
  <2>1. Len(s) \in Nat \ {0} /\ Head(s) \in S
    BY <1>1, HeadTail
  <2>2. \A n \in Nat \ {0} : n <= 1 => n = 1
    OBVIOUS
  <2>3. Len(s) = 1
    BY <2>1, <2>2, Zenon
  <2> QED
    BY <1>1, <2>1, <2>3, LastOfTail, TailElems
<1>2. Len(s) \in Nat /\ (Len(s) = 0 => s = <<>>)
  BY EmptySeq
<1> QED
  BY <1>1, <1>2

LEMMA FirstItem ==
  ASSUME NEW x
  PROVE  /\ Append(<<>>, x) # <<>>
         /\ Head(Append(<<>>, x)) = x
         /\ Len(Append(<<>>, x)) = 1
         /\ DOMAIN Append(<<>>, x) = {1}
         /\ Append(<<>>, x)[1] = x
OBVIOUS

LEMMA OneWorkerFacts ==
  ASSUME IInv, NumWorkers = 1
  PROVE  /\ Workers = {1}
         /\ pendingTOCBlockChan \in Seq(TOCBlock) /\ Len(pendingTOCBlockChan) <= 1
         /\ freeableMemBlockChans \in [{1} -> Seq(Blocks \cup Marks)] /\ Len(freeableMemBlockChans[1]) <= 1
         /\ clearing \in [{1} -> Blocks \cup Marks \cup {0}]
         /\ tb \in [{1} -> TOCBlock] /\ tbFull \in [{1} -> BOOLEAN]
         /\ unwritten \in Seq(Buffered)
         /\ blockFile \in [Blocks -> Nat] /\ fl \in Nat
         /\ files \in Seq(FileRec) /\ Len(files) \in Nat
         /\ Stages \in [Stage -> Int]
         /\ TypeTOC /\ TypeOK
<1>1. Workers = {1}
  BY DEF Workers
<1>2. files \in Seq(FileRec) /\ fl \in 0..Len(files)
  BY DEF IInv, TypeOK, TypeFile
<1>3. Len(files) \in Nat /\ fl \in Nat
  BY <1>2
<1> QED
  BY <1>1, <1>2, <1>3, StageTypes DEF IInv, TypeOK, TypeClearer, TypeBuffer, TypeFile

\* A released block has a file, and is not the one in the fileWriter's hand.
LEMMA ReleasedFiles ==
  ASSUME IInv, NumWorkers = 1
  PROVE  /\ clearing[1] \in Blocks => blockFile[clearing[1]] # 0 /\ clearing[1] # inHand
         /\ freeableMemBlockChans[1] # <<>> /\ Head(freeableMemBlockChans[1]) \in Blocks =>
              /\ blockFile[Head(freeableMemBlockChans[1])] # 0
              /\ Head(freeableMemBlockChans[1]) # inHand
              /\ Head(freeableMemBlockChans[1]) # clearing[1]
         /\ \A i \in DOMAIN unwritten : unwritten[i].block # 0 =>
              /\ unwritten[i].block # clearing[1] /\ unwritten[i].block # inHand
              /\ unwritten[i].block \in Blocks
<1>1. BeforeFile /\ AfterFile /\ AfterFileDistinct
  BY DEF IInv
<1>2. ASSUME freeableMemBlockChans[1] # <<>>
      PROVE  1 \in DOMAIN freeableMemBlockChans[1] /\ freeableMemBlockChans[1][1] = Head(freeableMemBlockChans[1])
  <2>1. freeableMemBlockChans[1] \in Seq(Blocks \cup Marks)
    BY OneWorkerFacts
  <2> QED
    BY <1>2, <2>1, TailElems, HeadTail
<1>3. \A i \in DOMAIN unwritten : unwritten[i].block \in Blocks \cup {0}
  <2>1. unwritten \in Seq(Buffered)
    BY OneWorkerFacts
  <2>2. \A i \in DOMAIN unwritten : unwritten[i] \in Buffered
    BY <2>1
  <2> QED
    BY <2>2 DEF Buffered
<1>4. \A b \in Blocks : blockFile[b] # 0 => b # inHand
  BY <1>1 DEF BeforeFile
<1>5. 1 \in Workers
  BY OneWorkerFacts
<1>6. /\ clearing[1] \in Blocks => blockFile[clearing[1]] # 0
      /\ freeableMemBlockChans[1] # <<>> /\ Head(freeableMemBlockChans[1]) \in Blocks =>
           blockFile[Head(freeableMemBlockChans[1])] # 0
      /\ \A i \in DOMAIN unwritten : unwritten[i].block # 0 => blockFile[unwritten[i].block] # 0
  BY <1>1, <1>2, <1>5 DEF AfterFile
<1>7. /\ freeableMemBlockChans[1] # <<>> /\ Head(freeableMemBlockChans[1]) \in Blocks =>
           Head(freeableMemBlockChans[1]) # clearing[1]
      /\ \A i \in DOMAIN unwritten : unwritten[i].block # 0 => unwritten[i].block # clearing[1]
  BY <1>1, <1>2, <1>5 DEF AfterFileDistinct
<1> QED
  BY <1>3, <1>4, <1>6, <1>7

\* The steps of a memClearer.
LEMMA OneByOneClearReceive ==
  ASSUME IInv, NumWorkers = 1, OneByOne, ClearReceive(1)
  PROVE  OneByOne'
<1>1. /\ clearing[1] = 0 /\ freeableMemBlockChans[1] # <<>>
      /\ clearing'[1] = Head(freeableMemBlockChans[1])
      /\ freeableMemBlockChans'[1] = <<>>
      /\ UNCHANGED <<pendingTOCBlockChan, tb, tbFull, fl, files, blockFile, unwritten, activeTOCA, activeTOCB>>
  BY OneWorkerFacts, ShortChannel DEF ClearReceive, fileVars, tocVars
<1>5. ~tbFull[1]
  BY <1>1, OneWorkerFacts, BlockFacts DEF IInv, Content, AtEntry
<1> DEFINE g == [j \in Stage |-> IF j = 3 THEN 4 ELSE IF j = 4 THEN 0 ELSE j]
<1>2. /\ Stages'[1] = Stages[1] /\ Stages'[2] = Stages[2] /\ Stages'[3] = Stages[4] /\ Stages'[4] = 0
      /\ Stages'[5] = Stages[5]
  BY <1>1, StageItems DEF FileOf
<1>3. Moved(g)
  BY <1>2 DEF Moved, Stage
<1>4. TOCBlocksNamed' /\ BuffersOfOpenFile'
  BY <1>1, <1>5 DEF OneByOne, TOCBlocksNamed, BuffersOfOpenFile
<1> HIDE DEF g
<1> QED
  BY <1>1, <1>3, <1>4, OneWorkerFacts, MovedOn

LEMMA OneByOneClearSendTOC ==
  ASSUME IInv, NumWorkers = 1, OneByOne, ClearSendTOC(1)
  PROVE  OneByOne'
<1>1. /\ pendingTOCBlockChan = <<>> /\ pendingTOCBlockChan' = Append(<<>>, tb[1])
      /\ tb[1] # NoTB /\ tb'[1] = NoTB /\ MustSend(1)
      /\ UNCHANGED <<tbFull, clearing, freeableMemBlockChans, fl, files, blockFile, unwritten,
                     activeTOCA, activeTOCB>>
  BY OneWorkerFacts, ShortChannel DEF ClearSendTOC, MustSend, fileVars, tocVars
<1> DEFINE g == [j \in Stage |-> IF j = 1 THEN 2 ELSE IF j = 2 THEN 0 ELSE j]
<1>2. /\ Stages'[1] = Stages[2] /\ Stages'[2] = 0 /\ Stages'[3] = Stages[3] /\ Stages'[4] = Stages[4]
      /\ Stages'[5] = Stages[5]
  BY <1>1, StageItems, FirstItem DEF FileOf, NoTB
<1>3. Moved(g)
  BY <1>2 DEF Moved, Stage
<1>5. ~tbFull[1]
  <2>1. tbFull[1] => clearing[1] \in Blocks /\ tb[1].file = blockFile[clearing[1]]
    BY OneWorkerFacts DEF IInv, Content, AtEntry, OneByOne, TOCBlocksNamed
  <2> QED
    BY <1>1, <2>1, BlockFacts DEF MustSend
<1>4. TOCBlocksNamed' /\ BuffersOfOpenFile'
  BY <1>1, <1>5, FirstItem DEF OneByOne, TOCBlocksNamed, BuffersOfOpenFile, NoTB
<1> HIDE DEF g
<1> QED
  BY <1>1, <1>3, <1>4, OneWorkerFacts, MovedOn

LEMMA OneByOneClearEntry ==
  ASSUME IInv, NumWorkers = 1, OneByOne, ClearEntry(1)
  PROVE  OneByOne'
<1>1. /\ clearing[1] \in Blocks
      /\ UNCHANGED <<pendingTOCBlockChan, clearing, freeableMemBlockChans, fl, files, blockFile, unwritten,
                     activeTOCA, activeTOCB>>
      /\ \/ tb'[1] = tb[1] /\ (tbFull'[1] => tb[1] # NoTB /\ ~MustSend(1))
         \/ tb'[1].file = blockFile[clearing[1]] /\ ~tbFull'[1]
  BY OneWorkerFacts DEF ClearEntry, fileVars, tocVars
<1>2. blockFile[clearing[1]] \in Nat \ {0}
  BY <1>1, ReleasedFiles, OneWorkerFacts
<1>3. /\ Stages'[1] = Stages[1] /\ Stages'[3] = Stages[3] /\ Stages'[4] = Stages[4] /\ Stages'[5] = Stages[5]
      /\ Stages'[2] = Stages[2] \/ Stages'[2] = Stages[3]
  BY <1>1, StageItems DEF FileOf
<1>4. \E g : Moved(g)
  <2>1. CASE Stages'[2] = Stages[2]
    <3> DEFINE g == [j \in Stage |-> j]
    <3>1. Moved(g)
      BY <1>3, <2>1 DEF Moved, Stage
    <3> QED
      BY <3>1
  <2>2. CASE Stages'[2] = Stages[3]
    <3> DEFINE g == [j \in Stage |-> IF j = 2 THEN 3 ELSE j]
    <3>1. Moved(g)
      BY <1>3, <2>2 DEF Moved, Stage
    <3> QED
      BY <3>1
  <2> QED
    BY <1>3, <2>1, <2>2
<1>6. tbFull'[1] => tb'[1].file = blockFile[clearing[1]]
  BY <1>1 DEF MustSend
<1>5. TOCBlocksNamed' /\ BuffersOfOpenFile'
  BY <1>1, <1>2, <1>6 DEF OneByOne, TOCBlocksNamed, BuffersOfOpenFile
<1> QED
  BY <1>1, <1>4, <1>5, OneWorkerFacts, MovedOn

LEMMA OneByOneClearSendFull ==
  ASSUME IInv, NumWorkers = 1, OneByOne, ClearSendFull(1)
  PROVE  OneByOne'
<1>1. /\ pendingTOCBlockChan = <<>> /\ pendingTOCBlockChan' = Append(<<>>, tb[1])
      /\ tbFull[1] /\ tb'[1].file = blockFile[clearing[1]] /\ ~tbFull'[1]
      /\ UNCHANGED <<clearing, freeableMemBlockChans, fl, files, blockFile, unwritten, activeTOCA, activeTOCB>>
  BY OneWorkerFacts, ShortChannel DEF ClearSendFull, fileVars, tocVars
<1>2. clearing[1] \in Blocks
  BY <1>1, OneWorkerFacts DEF IInv, Content, AtEntry
<1> DEFINE g == [j \in Stage |-> IF j = 1 THEN 2 ELSE IF j = 2 THEN 3 ELSE j]
<1>3. /\ Stages'[1] = Stages[2] /\ Stages'[2] = Stages[3] /\ Stages'[3] = Stages[3] /\ Stages'[4] = Stages[4]
      /\ Stages'[5] = Stages[5]
  BY <1>1, <1>2, StageItems, FirstItem DEF FileOf
<1>4. Moved(g)
  BY <1>3 DEF Moved, Stage
<1>5. TOCBlocksNamed' /\ BuffersOfOpenFile'
  <2>1. blockFile[clearing[1]] \in Nat \ {0}
    BY <1>2, ReleasedFiles, OneWorkerFacts
  <2>2. tb[1].file # 0
    BY <1>1, <2>1 DEF OneByOne, TOCBlocksNamed
  <2> QED
    BY <1>1, <2>1, <2>2, FirstItem DEF OneByOne, TOCBlocksNamed, BuffersOfOpenFile
<1> HIDE DEF g
<1> QED
  BY <1>1, <1>4, <1>5, OneWorkerFacts, MovedOn

LEMMA OneByOneClearFree ==
  ASSUME IInv, NumWorkers = 1, OneByOne, ClearFree(1)
  PROVE  OneByOne'
<1>1. /\ clearing[1] \in Blocks /\ clearing'[1] = 0
      /\ blockFile' = [blockFile EXCEPT ![clearing[1]] = 0]
      /\ clearPos[1] > Len(mem[clearing[1]])
      /\ UNCHANGED <<pendingTOCBlockChan, tb, tbFull, freeableMemBlockChans, fl, files, unwritten,
                     activeTOCA, activeTOCB>>
  BY OneWorkerFacts DEF ClearFree, tocVars
<1>2. \A b \in Blocks \ {clearing[1]} : blockFile'[b] = blockFile[b]
  BY <1>1, OneWorkerFacts
<1>3. ~tbFull[1]
  <2>1. tbFull[1] => clearPos[1] \in DOMAIN mem[clearing[1]]
    BY OneWorkerFacts DEF IInv, Content, AtEntry
  <2>2. mem[clearing[1]] \in Seq(Entry)
    BY <1>1 DEF IInv, TypeOK, TypeMem
  <2> QED
    BY <1>1, <2>1, <2>2
<1> DEFINE g == [j \in Stage |-> IF j = 3 THEN 0 ELSE j]
<1>4. Stages'[3] = 0 /\ Stages'[1] = Stages[1] /\ Stages'[2] = Stages[2] /\ Stages'[5] = Stages[5]
  BY <1>1, StageItems, BlockFacts DEF FileOf
<1>5. Stages'[4] = Stages[4]
  <2>1. freeableMemBlockChans[1] # <<>> =>
          FileOf(Head(freeableMemBlockChans[1]))' = FileOf(Head(freeableMemBlockChans[1]))
    BY <1>1, <1>2, ReleasedFiles DEF FileOf
  <2> QED
    BY <1>1, <2>1, StageItems
<1>6. Moved(g)
  BY <1>4, <1>5 DEF Moved, Stage
<1>7. TOCBlocksNamed' /\ BuffersOfOpenFile'
  BY <1>1, <1>2, <1>3, ReleasedFiles DEF OneByOne, TOCBlocksNamed, BuffersOfOpenFile
<1> HIDE DEF g
<1> QED
  BY <1>1, <1>6, <1>7, OneWorkerFacts, MovedOn

LEMMA OneByOneClearMark ==
  ASSUME IInv, NumWorkers = 1, OneByOne, ClearMark(1)
  PROVE  OneByOne'
<1>1. /\ clearing[1] \in Marks /\ clearing'[1] = 0 /\ tb[1] = NoTB
      /\ pendingTOCBlockChan = <<>> /\ pendingTOCBlockChan' = Append(<<>>, MarkTB(clearing[1]))
      /\ UNCHANGED <<tb, tbFull, freeableMemBlockChans, fl, files, unwritten, blockFile, activeTOCA, activeTOCB>>
  BY OneWorkerFacts, ShortChannel DEF ClearMark, MustSend, fileVars, tocVars
<1>2. ~tbFull[1]
  BY <1>1, OneWorkerFacts, BlockFacts DEF IInv, Content, AtEntry
<1> DEFINE g == [j \in Stage |-> IF j = 1 THEN 3 ELSE IF j = 2 \/ j = 3 THEN 0 ELSE j]
<1>3. /\ Stages'[1] = Stages[3] /\ Stages'[2] = 0 /\ Stages'[3] = 0 /\ Stages'[4] = Stages[4]
      /\ Stages'[5] = Stages[5]
  <2>1. FileOf(clearing[1]) = clearing[1] /\ FileOf(clearing[1])' = 0 /\ MarkTB(clearing[1]).file = clearing[1]
    BY <1>1, BlockFacts DEF FileOf, MarkTB
  <2>2. /\ pendingTOCBlockChan' # <<>> /\ Head(pendingTOCBlockChan').file = clearing[1]
        /\ FileOf(Head(freeableMemBlockChans[1]))' = FileOf(Head(freeableMemBlockChans[1]))
        /\ tb'[1].file = 0
    BY <1>1, <2>1, FirstItem DEF FileOf, NoTB
  <2> QED
    BY <1>1, <2>1, <2>2, StageItems
<1>4. Moved(g)
  BY <1>3 DEF Moved, Stage
<1>5. TOCBlocksNamed' /\ BuffersOfOpenFile'
  BY <1>1, <1>2, FirstItem, BlockFacts DEF OneByOne, TOCBlocksNamed, BuffersOfOpenFile, MarkTB
<1> HIDE DEF g
<1> QED
  BY <1>1, <1>4, <1>5, OneWorkerFacts, MovedOn

\* The steps of the fileWriter.
LEMMA OneByOneFileClosed ==
  ASSUME IInv, NumWorkers = 1, OneByOne, FileClosed
  PROVE  OneByOne'
<1>1. /\ fl' = 0 /\ unwritten' = <<>>
      /\ UNCHANGED <<pendingTOCBlockChan, tb, tbFull, clearing, freeableMemBlockChans, files, blockFile,
                     activeTOCA, activeTOCB>>
  BY DEF FileClosed, clearerVars, tocVars
<1> DEFINE g == [j \in Stage |-> IF j = 5 THEN 0 ELSE j]
<1>2. /\ Stages'[1] = Stages[1] /\ Stages'[2] = Stages[2] /\ Stages'[3] = Stages[3] /\ Stages'[4] = Stages[4]
      /\ Stages'[5] = 0
  BY <1>1, StageItems DEF FileOf
<1>3. Moved(g)
  BY <1>2 DEF Moved, Stage
<1>4. TOCBlocksNamed' /\ BuffersOfOpenFile'
  BY <1>1 DEF OneByOne, TOCBlocksNamed, BuffersOfOpenFile
<1> HIDE DEF g
<1> QED
  BY <1>1, <1>3, <1>4, OneWorkerFacts, MovedOn

\* The blocks that the fileWriter has released keep their file.
LEMMA OneByOneFileWrite ==
  ASSUME IInv, NumWorkers = 1, OneByOne, FileWrite
  PROVE  OneByOne'
<1>1. /\ fl # 0 /\ inHand \in Blocks
      /\ blockFile' = [blockFile EXCEPT ![inHand] = fl]
      /\ files' = [files EXCEPT ![fl].data = @ \o mem[inHand]]
      /\ UNCHANGED <<pendingTOCBlockChan, tb, tbFull, clearing, fl, activeTOCA, activeTOCB>>
      /\ \/ /\ \E e \in Nat : unwritten' = Append(unwritten, [end |-> e, block |-> inHand])
            /\ UNCHANGED freeableMemBlockChans
         \/ /\ \E e \in Nat : unwritten' = Append(unwritten, [end |-> e, block |-> 0])
            /\ Release(inHand)
  <2>1. fl # 0 /\ inHand \in Blocks
    BY DEF FileWrite
  <2>2. files[fl] \in FileRec
    BY <2>1 DEF IInv, TypeOK, TypeFile
  <2>3. files[fl].data \in Seq(Entry) /\ mem[inHand] \in Seq(Entry)
    BY <2>1, <2>2 DEF FileRec, IInv, TypeOK, TypeMem
  <2>4. Len(files[fl].data) + Len(mem[inHand]) \in Nat
    BY <2>3, ConcatLen, Zenon
  <2>5. PICK e \in Nat : Attach(inHand, e) \/ ReleaseNow(inHand, e)
    BY <2>4 DEF FileWrite
  <2>6. \/ unwritten' = Append(unwritten, [end |-> e, block |-> inHand]) /\ UNCHANGED freeableMemBlockChans
        \/ unwritten' = Append(unwritten, [end |-> e, block |-> 0]) /\ Release(inHand)
    BY <2>5 DEF Attach, ReleaseNow
  <2>7. /\ blockFile' = [blockFile EXCEPT ![inHand] = fl]
        /\ files' = [files EXCEPT ![fl].data = @ \o mem[inHand]]
        /\ UNCHANGED <<pendingTOCBlockChan, tb, tbFull, clearing, fl, activeTOCA, activeTOCB>>
    BY DEF FileWrite, clearerVars, tocVars
  <2> QED
    BY <2>1, <2>6, <2>7
<1>2. blockFile'[inHand] = fl /\ \A b \in Blocks \ {inHand} : blockFile'[b] = blockFile[b]
  BY <1>1, OneWorkerFacts
<1>3. /\ Len(files') = Len(files)
      /\ \A n \in DOMAIN files' : \/ files'[n].toc = <<>>
                                  \/ n \in DOMAIN files /\ files'[n].toc = files[n].toc
  <2>1. Len(files') = Len(files)
    <3>1. files \in Seq(FileRec)
      BY OneWorkerFacts
    <3>2. \E f : files' = [files EXCEPT ![fl] = f]
      BY <1>1
    <3> QED
      BY <3>1, <3>2
  <2>2. \A n \in DOMAIN files' : \/ files'[n].toc = <<>>
                                 \/ n \in DOMAIN files /\ files'[n].toc = files[n].toc
    BY OnlyTOCWriterWrites DEF IInv
  <2> QED
    BY <2>1, <2>2
<1>4. FileOf(clearing[1])' = FileOf(clearing[1])
  BY <1>1, <1>2, ReleasedFiles DEF FileOf
<1>5. \E g : Moved(g)
  <2>1. CASE UNCHANGED freeableMemBlockChans
    <3> DEFINE g == [j \in Stage |-> j]
    <3>1. /\ Stages'[1] = Stages[1] /\ Stages'[2] = Stages[2] /\ Stages'[3] = Stages[3]
          /\ Stages'[5] = Stages[5]
      BY <1>1, <1>4, StageItems
    <3>2. Stages'[4] = Stages[4]
      BY <1>2, <2>1, ReleasedFiles, StageItems DEF FileOf
    <3>3. Moved(g)
      BY <3>1, <3>2 DEF Moved, Stage
    <3> QED
      BY <3>3
  <2>2. CASE Release(inHand)
    <3> DEFINE g == [j \in Stage |-> IF j = 4 THEN 5 ELSE j]
    <3>1. /\ Stages'[1] = Stages[1] /\ Stages'[2] = Stages[2] /\ Stages'[3] = Stages[3]
          /\ Stages'[5] = Stages[5]
      BY <1>1, <1>4, StageItems
    <3>2. freeableMemBlockChans'[1] = Append(<<>>, inHand)
      <4>1. freeableIndex = 1
        BY OneWorkerFacts DEF TypeOK, TypeBuffer
      <4> QED
        BY <2>2, <4>1, OneWorkerFacts, ShortChannel DEF Release
    <3>3. Stages'[4] = Stages[5]
      BY <1>1, <1>2, <3>2, StageItems, FirstItem DEF FileOf
    <3>4. Moved(g)
      BY <3>1, <3>3 DEF Moved, Stage
    <3> QED
      BY <3>4
  <2> QED
    BY <1>1, <2>1, <2>2
<1>6. TOCBlocksNamed'
  BY <1>1, <1>4, OneWorkerFacts DEF OneByOne, TOCBlocksNamed, FileOf, IInv, Content, AtEntry
<1>7. BuffersOfOpenFile'
  <2>1. PICK e \in Nat, b \in {0, inHand} : unwritten' = Append(unwritten, [end |-> e, block |-> b])
    BY <1>1
  <2>2. PICK r : r = [end |-> e, block |-> b]
    OBVIOUS
  <2>3. r \in Buffered /\ r.block = b
    BY <1>1, <2>2 DEF Buffered
  <2>4. \A i \in DOMAIN unwritten' : unwritten'[i] = r \/ (i \in DOMAIN unwritten /\ unwritten'[i] = unwritten[i])
    BY <2>1, <2>2, <2>3, OneWorkerFacts, AppendElems
  <2> QED
    BY <1>1, <1>2, <2>3, <2>4, ReleasedFiles DEF OneByOne, BuffersOfOpenFile
<1> QED
  BY <1>1, <1>3, <1>5, <1>6, <1>7, OneWorkerFacts, MovedOn

LEMMA OneByOneBufferWritten ==
  ASSUME IInv, NumWorkers = 1, OneByOne, BufferWritten
  PROVE  OneByOne'
<1>1. /\ unwritten # <<>> /\ unwritten' = Tail(unwritten)
      /\ UNCHANGED <<pendingTOCBlockChan, tb, tbFull, clearing, fl, blockFile, activeTOCA, activeTOCB>>
      /\ \/ UNCHANGED freeableMemBlockChans
         \/ Head(unwritten).block # 0 /\ Release(Head(unwritten).block)
      /\ \E x : files' = [files EXCEPT ![fl].synced = x]
  BY DEF BufferWritten, clearerVars, tocVars
<1>2. /\ Len(files') = Len(files)
      /\ \A n \in DOMAIN files' : \/ files'[n].toc = <<>>
                                  \/ n \in DOMAIN files /\ files'[n].toc = files[n].toc
  <2>1. Len(files') = Len(files)
    <3>1. files \in Seq(FileRec)
      BY OneWorkerFacts
    <3>2. \E f : files' = [files EXCEPT ![fl] = f]
      BY <1>1
    <3> QED
      BY <3>1, <3>2
  <2>2. \A n \in DOMAIN files' : \/ files'[n].toc = <<>>
                                 \/ n \in DOMAIN files /\ files'[n].toc = files[n].toc
    BY OnlyTOCWriterWrites DEF IInv
  <2> QED
    BY <2>1, <2>2
<1>3. \E g : Moved(g)
  <2>1. CASE UNCHANGED freeableMemBlockChans
    <3> DEFINE g == [j \in Stage |-> j]
    <3>1. /\ Stages'[1] = Stages[1] /\ Stages'[2] = Stages[2] /\ Stages'[3] = Stages[3]
          /\ Stages'[4] = Stages[4] /\ Stages'[5] = Stages[5]
      BY <1>1, <2>1, StageItems DEF FileOf
    <3>2. Moved(g)
      BY <3>1 DEF Moved, Stage
    <3> QED
      BY <3>2
  <2>2. CASE Head(unwritten).block # 0 /\ Release(Head(unwritten).block)
    <3> DEFINE g == [j \in Stage |-> IF j = 4 THEN 5 ELSE j]
    <3>1. PICK b : b = Head(unwritten).block
      OBVIOUS
    <3>2. b \in Blocks /\ blockFile[b] = fl
      <4>1. 1 \in DOMAIN unwritten /\ unwritten[1] = Head(unwritten)
        <5>1. unwritten \in Seq(Buffered)
          BY OneWorkerFacts
        <5> QED
          BY <1>1, <5>1, HeadTail, TailElems
      <4> QED
        BY <2>2, <3>1, <4>1, ReleasedFiles DEF OneByOne, BuffersOfOpenFile
    <3>3. /\ Stages'[1] = Stages[1] /\ Stages'[2] = Stages[2] /\ Stages'[3] = Stages[3]
          /\ Stages'[5] = Stages[5]
      BY <1>1, StageItems DEF FileOf
    <3>4. freeableMemBlockChans'[1] = Append(<<>>, b)
      <4>1. freeableIndex = 1
        BY OneWorkerFacts DEF TypeOK, TypeBuffer
      <4> QED
        BY <2>2, <3>1, <4>1, OneWorkerFacts, ShortChannel DEF Release
    <3>5. Stages'[4] = Stages[5]
      BY <1>1, <3>2, <3>4, StageItems, FirstItem DEF FileOf
    <3>6. Moved(g)
      BY <3>3, <3>5 DEF Moved, Stage
    <3> QED
      BY <3>6
  <2> QED
    BY <1>1, <2>1, <2>2
<1>4. TOCBlocksNamed'
  BY <1>1 DEF OneByOne, TOCBlocksNamed
<1>5. BuffersOfOpenFile'
  <2>1. unwritten \in Seq(Buffered)
    BY OneWorkerFacts
  <2>2. \A i \in DOMAIN unwritten' : i + 1 \in DOMAIN unwritten /\ unwritten'[i] = unwritten[i + 1]
    BY <1>1, <2>1, TailElems
  <2> QED
    BY <1>1, <2>2 DEF OneByOne, BuffersOfOpenFile
<1> QED
  BY <1>1, <1>2, <1>3, <1>4, <1>5, OneWorkerFacts, MovedOn

\* A mark is sent when no file is open.
LEMMA OneByOneFileMark ==
  ASSUME IInv, NumWorkers = 1, OneByOne, FileMark
  PROVE  OneByOne'
<1>1. /\ fl = 0 /\ inHand \in Marks
      /\ UNCHANGED <<pendingTOCBlockChan, tb, tbFull, clearing, fl, files, blockFile, unwritten,
                     activeTOCA, activeTOCB>>
  BY DEF FileMark, clearerVars, tocVars
<1>2. /\ freeableMemBlockChans[1] = <<>>
      /\ freeableMemBlockChans'[1] = Append(<<>>, inHand)
  <2>1. markNext = 0
    BY DEF IInv, TypeOK, TypeFile
  <2>2. 1 = IF inHand = FlushMark THEN markNext + 1 ELSE NumWorkers - markNext
    BY <2>1
  <2>3. /\ Len(freeableMemBlockChans[1]) < 1
        /\ freeableMemBlockChans' = [freeableMemBlockChans EXCEPT ![1] = Append(@, inHand)]
    BY <2>2 DEF FileMark
  <2> QED
    BY <2>3, OneWorkerFacts, ShortChannel
<1>3. /\ Stages'[1] = Stages[1] /\ Stages'[2] = Stages[2] /\ Stages'[3] = Stages[3] /\ Stages'[5] = 0
      /\ Stages[4] = 0 /\ Stages[5] = 0
  BY <1>1, <1>2, StageItems DEF FileOf
<1>4. Stages'[4] = inHand /\ inHand < 0
  BY <1>1, <1>2, StageItems, FirstItem, MarkFacts, BlockFacts DEF FileOf
<1>5. \A j \in Stage : Stages'[j] > 0 => j < 4 /\ Stages'[j] = Stages[j]
  BY <1>1, <1>3, <1>4, MarkFacts DEF Stage
<1>6. \A m \in Stage : m < 4 => Stages'[m] = Stages[m]
  BY <1>3 DEF Stage
<1>7. ASSUME NEW n, NEW i \in Stage, NEW j \in Stage, Precedes(n, i, j)
      PROVE  Stages'[j] > 0 => /\ n <= Stages'[j]
                               /\ (\E m \in Stage : i <= m /\ m < j /\ Stages'[m] \in Marks) => n < Stages'[j]
  <2>1. SUFFICES ASSUME Stages'[j] > 0
                 PROVE  /\ n <= Stages'[j]
                        /\ \A m \in Stage : i <= m /\ m < j /\ Stages'[m] \in Marks => n < Stages'[j]
    OBVIOUS
  <2>2. j < 4 /\ Stages'[j] = Stages[j] /\ \A m \in Stage : m < j => m < 4
    BY <1>5, <2>1 DEF Stage
  <2>3. \A m \in Stage : m < j => Stages'[m] = Stages[m]
    BY <1>6, <2>2
  <2> QED
    BY <1>7, <2>1, <2>2, <2>3 DEF Precedes
<1>8. StagesInOrder'
  <2>1. SUFFICES ASSUME NEW i \in Stage, NEW j \in Stage, i < j, Stages'[i] > 0
                 PROVE  Precedes(Stages[i], i, j)'
    BY DEF StagesInOrder
  <2>2. PICK n : n = Stages[i]
    OBVIOUS
  <2>3. Stages'[i] = n /\ Precedes(n, i, j)
    BY <1>5, <2>1, <2>2 DEF OneByOne, StagesInOrder
  <2> QED
    BY <1>7, <2>3 DEF Precedes
<1>9. ActiveFirst'
  <2>1. SUFFICES ASSUME NEW n \in {activeTOCA, activeTOCB} \ {0}, NEW j \in Stage
                 PROVE  Precedes(n, 1, j)'
    <3>1. ASSUME NEW n \in ({activeTOCA, activeTOCB} \ {0})', NEW j \in Stage
          PROVE  n \in {activeTOCA, activeTOCB} \ {0}
      BY <1>1
    <3> QED
      BY <2>1, <3>1 DEF ActiveFirst
  <2>2. Precedes(n, 1, j) /\ 1 \in Stage
    BY DEF OneByOne, ActiveFirst, Stage
  <2> QED
    BY <1>7, <2>2 DEF Precedes
<1>10. ClosedBefore'
  BY <1>1, <1>5 DEF OneByOne, ClosedBefore
<1>11. FilesExist'
  <2>1. \A j \in Stage : Stages'[j] <= Len(files)
    BY <1>1, <1>3, <1>4, OneWorkerFacts, MarkFacts DEF OneByOne, FilesExist, Stage
  <2> QED
    BY <1>1, <2>1 DEF OneByOne, FilesExist
<1>12. TOCBlocksNamed' /\ BuffersOfOpenFile'
  BY <1>1 DEF OneByOne, TOCBlocksNamed, BuffersOfOpenFile
<1> QED
  BY <1>8, <1>9, <1>10, <1>11, <1>12 DEF OneByOne

\* A new file comes after all that are on their way.
LEMMA OneByOneFileCreate ==
  ASSUME IInv, NumWorkers = 1, OneByOne, FileCreate
  PROVE  OneByOne'
<1> DEFINE f == [data |-> <<>>, synced |-> 0, toc |-> <<>>]
<1>1. /\ fl = 0 /\ files' = Append(files, f) /\ fl' = Len(files) + 1
      /\ UNCHANGED <<pendingTOCBlockChan, tb, tbFull, clearing, freeableMemBlockChans, blockFile, unwritten,
                     activeTOCA, activeTOCB>>
  BY DEF FileCreate, clearerVars, tocVars
<1>2. f \in FileRec /\ f.toc = <<>>
  BY DEF FileRec
<1> HIDE DEF f
<1>3. /\ DOMAIN files' = 1..(Len(files) + 1) /\ DOMAIN files = 1..Len(files) /\ Len(files') = Len(files) + 1
      /\ \A n \in DOMAIN files' : \/ files'[n].toc = <<>>
                                  \/ n \in DOMAIN files /\ files'[n].toc = files[n].toc
  <2>1. files \in Seq(FileRec)
    BY OneWorkerFacts
  <2> QED
    BY <1>1, <1>2, <2>1, AppendElems
<1>4. /\ Stages'[1] = Stages[1] /\ Stages'[2] = Stages[2] /\ Stages'[3] = Stages[3] /\ Stages'[4] = Stages[4]
      /\ Stages'[5] = Len(files) + 1
      /\ Stages[5] = 0
  BY <1>1, StageItems DEF FileOf
<1>5. \A j \in Stage : j # 5 => Stages'[j] = Stages[j]
  BY <1>4 DEF Stage
<1>6. /\ \A j \in Stage : Stages[j] <= Len(files) /\ Stages[j] \in Int
      /\ Len(files) \in Nat
  BY OneWorkerFacts DEF OneByOne, FilesExist
<1>7. ASSUME NEW n \in Int, n <= Len(files), NEW i \in Stage, NEW j \in Stage, Precedes(n, i, j)
      PROVE  Stages'[j] > 0 => /\ n <= Stages'[j]
                               /\ (\E m \in Stage : i <= m /\ m < j /\ Stages'[m] \in Marks) => n < Stages'[j]
  <2>1. CASE j = 5
    BY <1>4, <1>6, <1>7, <2>1
  <2>2. CASE j # 5
    <3>1. \A m \in Stage : m < j => m # 5
      BY DEF Stage
    <3>2. Stages'[j] = Stages[j] /\ \A m \in Stage : m < j => Stages'[m] = Stages[m]
      BY <1>5, <2>2, <3>1
    <3> QED
      BY <1>7, <3>2 DEF Precedes
  <2> QED
    BY <2>1, <2>2
<1>8. StagesInOrder'
  <2>1. SUFFICES ASSUME NEW i \in Stage, NEW j \in Stage, i < j, Stages'[i] > 0
                 PROVE  Precedes(Stages[i], i, j)'
    BY DEF StagesInOrder
  <2>2. i # 5
    BY <2>1 DEF Stage
  <2>3. PICK n \in Int : n = Stages[i] /\ n <= Len(files)
    BY <1>6
  <2>4. Stages'[i] = n /\ Precedes(n, i, j)
    BY <1>5, <2>1, <2>2, <2>3 DEF OneByOne, StagesInOrder
  <2> QED
    BY <1>7, <2>3, <2>4 DEF Precedes
<1>9. /\ activeTOCA \in Int /\ activeTOCB \in Int
      /\ activeTOCA <= Len(files) /\ activeTOCB <= Len(files)
  BY <1>6, OneWorkerFacts DEF OneByOne, FilesExist, TypeTOC
<1>10. ActiveFirst'
  <2>1. SUFFICES ASSUME NEW n \in {activeTOCA, activeTOCB} \ {0}, NEW j \in Stage
                 PROVE  Precedes(n, 1, j)'
    <3>1. ASSUME NEW n \in ({activeTOCA, activeTOCB} \ {0})', NEW j \in Stage
          PROVE  n \in {activeTOCA, activeTOCB} \ {0}
      BY <1>1
    <3> QED
      BY <2>1, <3>1 DEF ActiveFirst
  <2>2. Precedes(n, 1, j) /\ 1 \in Stage /\ n \in Int /\ n <= Len(files)
    BY <1>9 DEF OneByOne, ActiveFirst, Stage
  <2> QED
    BY <1>7, <2>2 DEF Precedes
<1>11. ClosedBefore'
  <2>1. SUFFICES ASSUME NEW n \in DOMAIN files', files'[n].toc # <<>>, n \notin {activeTOCA, activeTOCB},
                        NEW j \in Stage, Stages'[j] > 0
                 PROVE  n < Stages'[j]
    BY <1>1 DEF ClosedBefore
  <2>2. n \in DOMAIN files /\ files[n].toc # <<>> /\ n <= Len(files) /\ n \in Int
    BY <1>3, <1>6, <2>1
  <2>3. CASE j = 5
    BY <1>4, <1>6, <2>2, <2>3
  <2>4. CASE j # 5
    BY <1>5, <2>1, <2>2, <2>4 DEF OneByOne, ClosedBefore
  <2> QED
    BY <2>3, <2>4
<1>12. FilesExist'
  <2>1. \A j \in Stage : Stages'[j] <= Len(files) + 1
    BY <1>4, <1>5, <1>6
  <2> QED
    BY <1>1, <1>3, <1>6, <1>9, <2>1 DEF OneByOne, FilesExist
<1>13. BuffersOfOpenFile' /\ TOCBlocksNamed'
  <2>1. \A i \in DOMAIN unwritten : FALSE
    BY <1>1 DEF OneByOne, BuffersOfOpenFile
  <2> QED
    BY <1>1, <2>1 DEF OneByOne, BuffersOfOpenFile, TOCBlocksNamed
<1> QED
  BY <1>8, <1>10, <1>11, <1>12, <1>13 DEF OneByOne

\* The steps of the tocWriter.
LEMMA OneByOneTOCBlockWritten ==
  ASSUME IInv, NumWorkers = 1, OneByOne, TOCBlockWritten
  PROVE  OneByOne'
<1>1. PICK t : t = Head(pendingTOCBlockChan).file
  OBVIOUS
<1>2. /\ pendingTOCBlockChan # <<>> /\ t \notin Marks /\ pendingTOCBlockChan' = <<>>
      /\ \E x : files' = [files EXCEPT ![t].toc = x]
      /\ \/ t \in {activeTOCA, activeTOCB} /\ UNCHANGED <<activeTOCA, activeTOCB>>
         \/ t \notin {activeTOCA, activeTOCB} /\ activeTOCB' = activeTOCA /\ activeTOCA' = t
      /\ UNCHANGED <<tb, tbFull, clearing, freeableMemBlockChans, blockFile, unwritten, fl>>
  BY <1>1, OneWorkerFacts, ShortChannel DEF TOCBlockWritten, clearerVars
<1>3. /\ Stages'[1] = 0 /\ Stages'[2] = Stages[2] /\ Stages'[3] = Stages[3] /\ Stages'[4] = Stages[4]
      /\ Stages'[5] = Stages[5]
  BY <1>2, StageItems DEF FileOf
<1>4. Stages[1] = t /\ t \in Nat /\ t > 0
  <2>1. Stages[1] = t
    BY <1>1, <1>2, StageItems
  <2>2. pendingTOCBlockChan[1] = Head(pendingTOCBlockChan) /\ 1 \in DOMAIN pendingTOCBlockChan
        /\ Head(pendingTOCBlockChan) \in TOCBlock
    <3>1. pendingTOCBlockChan \in Seq(TOCBlock)
      BY OneWorkerFacts
    <3> QED
      BY <1>2, <3>1, HeadTail, TailElems
  <2>3. t # 0
    BY <1>1, <2>2 DEF OneByOne, TOCBlocksNamed
  <2>4. t \in Nat
    BY <1>1, <1>2, <2>2 DEF TOCBlock
  <2> QED
    BY <2>1, <2>3, <2>4
<1> DEFINE g == [j \in Stage |-> IF j = 1 THEN 0 ELSE j]
<1>5. Moved(g)
  BY <1>3 DEF Moved, Stage
<1> HIDE DEF g
<1>6. /\ Stages \in [Stage -> Int] /\ StagesInOrder' /\ \A j \in Stage : Stages'[j] = Stages[j] \/ Stages'[j] = 0
  BY <1>3, <1>5, OneWorkerFacts, MovedInOrder DEF OneByOne, Stage
<1>7. /\ DOMAIN files' = DOMAIN files /\ Len(files') = Len(files)
      /\ \A n \in DOMAIN files \ {t} : files'[n] = files[n]
  <2>1. files \in Seq(FileRec)
    BY OneWorkerFacts
  <2>2. \E f : files' = [files EXCEPT ![t] = f]
    BY <1>2
  <2> QED
    BY <2>1, <2>2
<1>8. activeTOCA \in Nat /\ activeTOCB \in Nat /\ t <= Len(files) /\ Len(files) \in Nat /\ 1 \in Stage
  BY <1>4, OneWorkerFacts DEF OneByOne, FilesExist, TypeTOC, Stage
<1>9. \A n \in {activeTOCA, activeTOCB} \ {0} : n <= t
  BY <1>4, <1>8 DEF OneByOne, ActiveFirst, Precedes
<1>10. ASSUME NEW j \in Stage, Stages'[j] > 0
       PROVE  /\ 1 < j /\ Stages'[j] = Stages[j] /\ t <= Stages'[j]
              /\ (\E m \in Stage : 1 <= m /\ m < j /\ Stages'[m] \in Marks) => t < Stages'[j]
  <2>1. j # 1 /\ Stages'[j] = Stages[j] /\ 1 < j
    BY <1>3, <1>6, <1>10 DEF Stage
  <2>2. Precedes(t, 1, j)
    BY <1>4, <1>8, <2>1 DEF OneByOne, StagesInOrder
  <2>3. \A m \in Stage : Stages'[m] \in Marks => Stages'[m] = Stages[m]
    BY <1>6, BlockFacts
  <2> QED
    BY <1>10, <2>1, <2>2, <2>3 DEF Precedes
<1>11. FilesExist'
  <2>1. \A j \in Stage : Stages'[j] <= Len(files)
    BY <1>6, <1>8 DEF OneByOne, FilesExist
  <2>2. activeTOCA' <= Len(files) /\ (activeTOCB' # 0 => activeTOCB' < activeTOCA')
    <3>1. CASE UNCHANGED <<activeTOCA, activeTOCB>>
      BY <3>1 DEF OneByOne, FilesExist
    <3>2. CASE t \notin {activeTOCA, activeTOCB} /\ activeTOCB' = activeTOCA /\ activeTOCA' = t
      BY <1>4, <1>8, <1>9, <3>2
    <3> QED
      BY <1>2, <3>1, <3>2
  <2> QED
    BY <1>7, <2>1, <2>2 DEF FilesExist
<1>12. ActiveFirst'
  <2>1. CASE UNCHANGED <<activeTOCA, activeTOCB>>
    BY <1>5, <1>6, <2>1, OneWorkerFacts, MovedActive DEF OneByOne
  <2>2. CASE t \notin {activeTOCA, activeTOCB} /\ activeTOCB' = activeTOCA /\ activeTOCA' = t
    <3>1. SUFFICES ASSUME NEW n \in {activeTOCA, t} \ {0}, NEW j \in Stage
                   PROVE  Precedes(n, 1, j)'
      <4>1. ASSUME NEW n \in ({activeTOCA, activeTOCB} \ {0})', NEW j \in Stage
            PROVE  n \in {activeTOCA, t} \ {0}
        BY <2>2
      <4> QED
        BY <3>1, <4>1 DEF ActiveFirst
    <3>2. n \in Nat /\ n <= t
      BY <1>4, <1>8, <1>9
    <3>3. Stages'[j] > 0 => /\ n <= Stages'[j]
                            /\ (\E m \in Stage : 1 <= m /\ m < j /\ Stages'[m] \in Marks) => n < Stages'[j]
      BY <1>4, <1>6, <1>10, <3>2
    <3> QED
      BY <3>3 DEF Precedes
  <2> QED
    BY <1>2, <2>1, <2>2
<1>13. ClosedBefore'
  <2>1. SUFFICES ASSUME NEW n \in DOMAIN files, files'[n].toc # <<>>, n \notin {activeTOCA', activeTOCB'},
                        NEW j \in Stage, Stages'[j] > 0
                 PROVE  n < Stages'[j]
    BY <1>7 DEF ClosedBefore
  <2>2. n # t /\ files[n].toc # <<>>
    BY <1>2, <1>7, <2>1
  <2>3. Stages'[j] = Stages[j] /\ Stages[j] \in Int /\ t <= Stages[j]
    BY <1>6, <1>10, <2>1
  <2>4. CASE n \in {activeTOCA, activeTOCB}
    <3>1. n \in Nat /\ n # 0
      BY <1>8, <2>1, <2>4, OneWorkerFacts
    <3>2. n < t
      BY <1>4, <1>9, <2>2, <2>4, <3>1
    <3> QED
      BY <1>4, <2>3, <3>1, <3>2
  <2>5. CASE n \notin {activeTOCA, activeTOCB}
    BY <2>1, <2>2, <2>3, <2>5 DEF OneByOne, ClosedBefore
  <2> QED
    BY <2>4, <2>5
<1>14. TOCBlocksNamed' /\ BuffersOfOpenFile'
  BY <1>2 DEF OneByOne, TOCBlocksNamed, BuffersOfOpenFile
<1> QED
  BY <1>6, <1>11, <1>12, <1>13, <1>14 DEF OneByOne

LEMMA OneByOneTOCMark ==
  ASSUME IInv, NumWorkers = 1, OneByOne, TOCMark
  PROVE  OneByOne'
<1>1. /\ pendingTOCBlockChan # <<>> /\ Head(pendingTOCBlockChan).file \in Marks /\ pendingTOCBlockChan' = <<>>
      /\ \/ UNCHANGED <<activeTOCA, activeTOCB>>
         \/ activeTOCA' = 0 /\ activeTOCB' = 0
      /\ UNCHANGED <<tb, tbFull, clearing, freeableMemBlockChans, blockFile, unwritten, fl, files>>
  BY OneWorkerFacts, ShortChannel DEF TOCMark, clearerVars, fileVars
<1>2. /\ Stages'[1] = 0 /\ Stages'[2] = Stages[2] /\ Stages'[3] = Stages[3] /\ Stages'[4] = Stages[4]
      /\ Stages'[5] = Stages[5]
      /\ Stages[1] \in Marks
  BY <1>1, StageItems DEF FileOf
<1> DEFINE g == [j \in Stage |-> IF j = 1 THEN 0 ELSE j]
<1>3. Moved(g)
  BY <1>2 DEF Moved, Stage
<1> HIDE DEF g
<1>4. TOCBlocksNamed' /\ BuffersOfOpenFile'
  BY <1>1 DEF OneByOne, TOCBlocksNamed, BuffersOfOpenFile
<1>5. CASE UNCHANGED <<activeTOCA, activeTOCB>>
  BY <1>1, <1>3, <1>4, <1>5, OneWorkerFacts, MovedOn
<1>6. CASE activeTOCA' = 0 /\ activeTOCB' = 0
  <2>1. Stages \in [Stage -> Int] /\ Len(files) \in Nat
    BY OneWorkerFacts
  <2>2. StagesInOrder'
    BY <1>3, <2>1, MovedInOrder DEF OneByOne
  <2>3. \A j \in Stage : Stages'[j] = Stages[j] \/ Stages'[j] = 0
    BY <1>2 DEF Stage
  <2>4. FilesExist'
    BY <1>1, <1>6, <2>1, <2>3 DEF OneByOne, FilesExist
  <2>5. ActiveFirst'
    BY <1>6 DEF ActiveFirst
  <2>6. ClosedBefore'
    <3>1. SUFFICES ASSUME NEW n \in DOMAIN files, files[n].toc # <<>>, NEW j \in Stage, Stages'[j] > 0
                   PROVE  n < Stages'[j]
      BY <1>1 DEF ClosedBefore
    <3>2. Stages'[j] = Stages[j] /\ Stages[j] > 0
      BY <2>3, <3>1
    <3>3. CASE n \notin {activeTOCA, activeTOCB}
      BY <3>1, <3>2, <3>3 DEF OneByOne, ClosedBefore
    <3>4. CASE n \in {activeTOCA, activeTOCB}
      <4>1. n # 0
        <5>1. files \in Seq(FileRec)
          BY OneWorkerFacts
        <5> QED
          BY <3>1, <5>1
      <4>2. Precedes(n, 1, j)
        BY <3>4, <4>1 DEF OneByOne, ActiveFirst
      <4>3. 1 \in Stage /\ 1 <= 1 /\ 1 < j
        BY <1>2, <3>1 DEF Stage
      <4> QED
        BY <1>2, <3>2, <4>2, <4>3 DEF Precedes
    <3> QED
      BY <3>3, <3>4
  <2> QED
    BY <1>4, <2>2, <2>4, <2>5, <2>6 DEF OneByOne
<1> QED
  BY <1>1, <1>5, <1>6

\* The other steps move nothing on its way.
LEMMA OneByOneFrame ==
  ASSUME OneByOne,
         UNCHANGED <<pendingTOCBlockChan, tb, tbFull, clearing, freeableMemBlockChans, fl, files, blockFile,
                     unwritten, activeTOCA, activeTOCB>>
  PROVE  OneByOne'
<1>1. Stages' = Stages
  BY DEF Stages, FileOf
<1>2. StagesInOrder' /\ ActiveFirst' /\ ClosedBefore'
  BY <1>1 DEF OneByOne, StagesInOrder, ActiveFirst, ClosedBefore, Precedes
<1>3. FilesExist' /\ TOCBlocksNamed' /\ BuffersOfOpenFile'
  BY <1>1 DEF OneByOne, FilesExist, TOCBlocksNamed, BuffersOfOpenFile
<1> QED
  BY <1>2, <1>3 DEF OneByOne

LEMMA OneByOneStep ==
  ASSUME IInv, NumWorkers = 1, OneByOne, [Next]_vars
  PROVE  OneByOne'
<1>1. Workers = {1}
  BY DEF Workers
<1> DEFINE Same == UNCHANGED <<pendingTOCBlockChan, tb, tbFull, clearing, freeableMemBlockChans, fl, files,
                               blockFile, unwritten, activeTOCA, activeTOCB>>
<1>2. UNCHANGED vars \/ Idle => Same
  BY DEF Idle, vars, fileVars, clearerVars, tocVars
<1>3. ASSUME NEW w \in Workers, MemWriter(w) \/ MemSwitch(w) \/ \E r \in Requests : MemReceive(w, r)
      PROVE  Same
  BY <1>3 DEF MemWriter, MemSwitch, MemReceive, MemReject, MemRotate, MemTake, MemStore, MemMark,
              fileVars, clearerVars, tocVars
<1>4. FileReceive \/ TOCFlushed => Same
  BY DEF FileReceive, TOCFlushed, fileVars, clearerVars, tocVars
<1>5. Callers => Same
  BY DEF Callers, FlushCall, FlushStep, FlushSend, FlushReturn, ShutdownCall, ShutdownSend, ShutdownReturn,
         DiscardLocalRemoval, ReadGet, ReadMemBlock, ReadFile, ReadReturn, Idle, vars, fileVars, clearerVars,
         tocVars
<1>6. Same => OneByOne'
  BY OneByOneFrame
<1>7. ASSUME NEW c \in Workers, MemClearer(c)
      PROVE  OneByOne'
  BY <1>1, <1>7, OneByOneClearReceive, OneByOneClearSendTOC, OneByOneClearEntry, OneByOneClearSendFull,
     OneByOneClearFree, OneByOneClearMark DEF MemClearer
<1>8. FileClosed \/ FileCreate \/ FileWrite \/ FileMark \/ BufferWritten => OneByOne'
  BY OneByOneFileClosed, OneByOneFileCreate, OneByOneFileWrite, OneByOneFileMark, OneByOneBufferWritten
<1>9. TOCBlockWritten \/ TOCMark => OneByOne'
  BY OneByOneTOCBlockWritten, OneByOneTOCMark
<1> HIDE DEF Same
<1>10. Next => \/ \E w \in Workers : \/ MemWriter(w) \/ MemSwitch(w) \/ \E r \in Requests : MemReceive(w, r)
                                     \/ MemClearer(w)
               \/ FileWriter \/ BufferWritten \/ TOCWriter \/ Callers
  BY DEF Next, Callers
<1> QED
  BY <1>2, <1>3, <1>4, <1>5, <1>6, <1>7, <1>8, <1>9, <1>10 DEF FileWriter, TOCWriter

LEMMA OneByOneInit == ASSUME Init, NumWorkers = 1 PROVE OneByOne
<1>1. /\ pendingTOCBlockChan = <<>> /\ tb[1] = NoTB /\ clearing[1] = 0 /\ freeableMemBlockChans[1] = <<>>
      /\ fl = 0 /\ files = <<>> /\ unwritten = <<>> /\ activeTOCA = 0 /\ activeTOCB = 0 /\ ~tbFull[1]
  BY DEF Init, Workers
<1>2. \A j \in Stage : Stages[j] = 0
  BY <1>1, StageItems, BlockFacts DEF FileOf, NoTB, Stage
<1>3. StagesInOrder /\ ActiveFirst /\ ClosedBefore
  BY <1>1, <1>2 DEF StagesInOrder, ActiveFirst, ClosedBefore
<1>4. FilesExist /\ TOCBlocksNamed /\ BuffersOfOpenFile
  BY <1>1, <1>2 DEF FilesExist, TOCBlocksNamed, BuffersOfOpenFile, NoTB
<1> QED
  BY <1>3, <1>4 DEF OneByOne

\* A TOC block that comes next is not of a closed TOC.
LEMMA NoneLate ==
  ASSUME IInv, NumWorkers = 1, OneByOne
  PROVE  NoLateTOCBlock
<1>1. SUFFICES ASSUME NEW i \in DOMAIN pendingTOCBlockChan, pendingTOCBlockChan[i].file \notin Marks,
                      files[pendingTOCBlockChan[i].file].toc # <<>>,
                      pendingTOCBlockChan[i].file \notin {activeTOCA, activeTOCB}
               PROVE  FALSE
  BY DEF NoLateTOCBlock
<1>2. pendingTOCBlockChan \in Seq(TOCBlock) /\ Len(pendingTOCBlockChan) <= 1
  BY OneWorkerFacts
<1>3. pendingTOCBlockChan # <<>> /\ pendingTOCBlockChan[i] = Head(pendingTOCBlockChan)
      /\ pendingTOCBlockChan[i] \in TOCBlock
  BY <1>1, <1>2
<1>4. PICK n : n = pendingTOCBlockChan[i].file
  OBVIOUS
<1>5. n \in Nat /\ n # 0 /\ Stages[1] = n
  BY <1>1, <1>3, <1>4, StageItems DEF TOCBlock, OneByOne, TOCBlocksNamed
<1>6. n \in DOMAIN files
  BY <1>5, OneWorkerFacts DEF OneByOne, FilesExist, Stage
<1>7. n < n
  BY <1>1, <1>4, <1>5, <1>6 DEF OneByOne, ClosedBefore, Stage
<1> QED
  BY <1>5, <1>7

\* With one worker, no TOC block comes for a TOC that has been closed: what the
\* comment of tocWriter (valuestore 893-896) takes for granted.  The open TOCs
\* are those of the last two files, the items on their way come in the order of
\* their files, and a file opened after a mark is a new one.  With two workers a
\* memClearer may fall behind the other by more than one file.
THEOREM OneWorkerInOrder ==
  ASSUME NumWorkers = 1
  PROVE  Spec => []NoLateTOCBlock
<1>1. Init => OneByOne
  BY OneByOneInit
<1>2. IInv /\ OneByOne /\ [Next]_vars => OneByOne'
  BY OneByOneStep
<1>3. IInv /\ OneByOne => NoLateTOCBlock
  BY NoneLate
<1> QED
  BY <1>1, <1>2, <1>3, InvAlways, PTL DEF Spec

\* With one worker, then, Shutdown leaves everything on disk whatever is written,
\* read and cleared.
THEOREM OneWorkerShutdownIsDurable ==
  ASSUME NumWorkers = 1
  PROVE  Spec => []ShutdownWritesToDisk
BY OneWorkerInOrder, ShutdownIsDurable, PTL

\* So does Flush, or something newer of the key has come since (OneFlusher: one
\* caller of Flush at a time, no local removals).
THEOREM OneWorkerFlushIsDurable ==
  ASSUME NumWorkers = 1, OneFlusher
  PROVE  Spec => []FlushWritesToDiskOrNewer
BY OneWorkerInOrder, FlushIsDurable, PTL
=============================================================================
