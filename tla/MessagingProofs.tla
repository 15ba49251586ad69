-------------------------- MODULE MessagingProofs ---------------------------
(***************************************************************************)
(* Theorems about module Messaging, for every number of workers, messages, *)
(* partitions, passes and starts, and whichever parts run.  MessagingInv   *)
(* is inductive: where goroutines and channels are (LifeInv), and that     *)
(* every pooled message is somewhere (MsgsAreFreed).                       *)
(***************************************************************************)
EXTENDS Messaging, FiniteSetTheorems, FunctionTheorems, TLAPS

LifeInv == /\ MessagingTypes /\ QueuesBounded /\ ChannelsOK /\ GoroutinesOK
           /\ OwnPassOK /\ RequestsOK

(***************************************************************************)
(* The steps                                                               *)
(***************************************************************************)
\* What a worker can do: receive, take or send a message, put one back.
FirstSteps == {"takeAck", "putBack", "putBackAndSend"}

ReceiveStep(r, w) == \E first \in FirstSteps : Receive(r, w, first)
PutBackStep(r, w) == PutBack(r, w, "putBack", "wait") \/ PutBack(r, w, "putBackAndSend", "takeSet")
TakeStep(w) == \/ WorkerTakes("bulkSet", w, "takeAck", "sendAck", "bulkSetAck")
               \/ WorkerTakes("inPull", w, "takeSet", "sendSet", "bulkSet")
SendStep(w) == \/ WorkerSends("bulkSet", w, "sendAck", "putBack", "bulkSetAck")
               \/ WorkerSends("inPull", w, "sendSet", "wait", "bulkSet")

\* The actions of the specification, each part's as those of any part.
LEMMA Steps ==
  ASSUME Next
  PROVE  \/ Startup \/ Shutdown \/ ShutdownReturns
         \/ \E p \in Receivers \cup Launchers : ShutdownPart(p)
         \/ \E r \in Receivers : NewInMsg(r) \/ ReadFails(r) \/ Queue(r) \/ WorkersLauncher(r)
         \/ \E r \in Receivers, w \in Workers : ReceiveStep(r, w) \/ PutBackStep(r, w)
         \/ \E w \in Workers : TakeStep(w) \/ SendStep(w) \/ AnswerIsEmpty(w)
         \/ \E s \in Senders : Free(s)
         \/ \E l \in Launchers : \/ PassPartition(l) \/ Timer(l) \/ Notified(l)
                                 \/ Interrupted(l) \/ PassEnds(l)
         \/ PassSend("push", "bulkSet") \/ PassSend("outPull", "outPull")
         \/ OutPullReplicationPass
<1> DEFINE RW == \E r \in Receivers, w \in Workers : ReceiveStep(r, w) \/ PutBackStep(r, w)
           WW == \E w \in Workers : TakeStep(w) \/ SendStep(w) \/ AnswerIsEmpty(w)
<1>0. /\ "bulkSet" \in Receivers /\ "bulkSetAck" \in Receivers /\ "inPull" \in Receivers
      /\ "push" \in Launchers /\ "outPull" \in Launchers /\ "tombstone" \in Launchers
  BY DEF Receivers, Launchers
<1>1. ASSUME NEW w \in Workers, Work(w) PROVE RW \/ WW
  <2>1. CASE InBulkSet(w)
    BY <2>1, <1>0 DEF InBulkSet, ReceiveStep, PutBackStep, TakeStep, SendStep, FirstSteps
  <2>2. CASE InBulkSetAck(w)
    BY <2>2, <1>0 DEF InBulkSetAck, ReceiveStep, PutBackStep, FirstSteps
  <2>3. CASE InPullReplication(w)
    BY <2>3, <1>0 DEF InPullReplication, ReceiveStep, PutBackStep, TakeStep, SendStep, FirstSteps
  <2> QED BY <1>1, <2>1, <2>2, <2>3 DEF Work
<1>2. CASE Handlers
  BY <1>2, <1>0 DEF Handlers, NewInBulkSetMsg, NewInBulkSetAckMsg, NewInPullReplicationMsg
<1>3. CASE Passes
  BY <1>3, <1>0 DEF Passes, PushReplicationPass, OutPullPassWorker, TombstoneDiscardPass
<1>4. CASE Launches
  BY <1>4, <1>0 DEF Launches, PushReplicationLauncher, OutPullReplicationLauncher,
       TombstoneDiscardLauncher, InBulkSetLauncher, InBulkSetAckLauncher,
       InPullReplicationLauncher, Launcher
<1>5. CASE Shutdowns
  BY <1>5, <1>0 DEF Shutdowns, BulkSetShutdown, BulkSetAckShutdown, InPullReplicationShutdown,
       PushReplicationShutdown, OutPullReplicationShutdown, TombstoneDiscardShutdown
<1> HIDE DEF RW, WW
<1>6. CASE \E w \in Workers : Work(w)
  <2>1. RW \/ WW BY <1>6, <1>1
  <2> QED BY <2>1 DEF RW, WW
<1> QED BY <1>2, <1>3, <1>4, <1>5, <1>6 DEF Next

(***************************************************************************)
(* Goroutines and channels                                                 *)
(***************************************************************************)
LEMMA InitLife == Init => LifeInv
<1> SUFFICES ASSUME Init PROVE LifeInv OBVIOUS
<1>1. MessagingTypes
  BY BoundsAssumption DEF Init, MessagingTypes, Workers
<1>2. QueuesBounded
  BY BoundsAssumption DEF Init, QueuesBounded
<1> QED BY <1>1, <1>2 DEF Init, LifeInv, ChannelsOK, GoroutinesOK, OwnPassOK, RequestsOK,
          WorkersEnded, OwnPassOf, Receivers, Launchers

Items == {"msg", "nil"}

LEMMA AppendItem ==
  ASSUME NEW q \in Seq(Items), NEW e \in Items
  PROVE  /\ Append(q, e) \in Seq(Items) /\ Len(Append(q, e)) = Len(q) + 1
         /\ \A i \in 1..Len(q) : Append(q, e)[i] = q[i]
         /\ Append(q, e)[Len(q) + 1] = e
OBVIOUS

LEMMA TailItems ==
  ASSUME NEW q \in Seq(Items), q # <<>>
  PROVE  /\ Tail(q) \in Seq(Items) /\ Len(Tail(q)) = Len(q) - 1 /\ Len(q) \in Nat \ {0}
         /\ \A i \in 1..(Len(q) - 1) : Tail(q)[i] = q[i + 1]
         /\ Head(q) = q[1] /\ Head(q) \in Items
OBVIOUS

\* Channels of messages take an item at the end or lose their first.
LEMMA AppendToQueue ==
  ASSUME LifeInv, NEW r \in Receivers, NEW e \in Items, Len(inMsgChan[r]) < InMsgs,
         inMsgChan' = [inMsgChan EXCEPT ![r] = Append(@, e)]
  PROVE  inMsgChan' \in [Receivers -> Seq(Items)] /\ QueuesBounded'
<1>1. inMsgChan \in [Receivers -> Seq(Items)] /\ inMsgChan[r] \in Seq(Items)
  BY DEF LifeInv, MessagingTypes, Items
<1>2. Append(inMsgChan[r], e) \in Seq(Items) /\ Len(Append(inMsgChan[r], e)) = Len(inMsgChan[r]) + 1
  BY <1>1, AppendItem
<1>3. Len(inMsgChan[r]) + 1 <= InMsgs
  BY <1>1, BoundsAssumption
<1>4. \A q \in Receivers : inMsgChan'[q] = IF q = r THEN Append(inMsgChan[r], e) ELSE inMsgChan[q]
  BY <1>1
<1>5. QueuesBounded'
  BY <1>2, <1>3, <1>4 DEF LifeInv, QueuesBounded
<1> QED BY <1>1, <1>2, <1>4, <1>5

LEMMA TailOfQueue ==
  ASSUME LifeInv, NEW r \in Receivers, inMsgChan[r] # <<>>,
         inMsgChan' = [inMsgChan EXCEPT ![r] = Tail(@)]
  PROVE  inMsgChan' \in [Receivers -> Seq(Items)] /\ QueuesBounded'
<1>1. inMsgChan \in [Receivers -> Seq(Items)] /\ inMsgChan[r] \in Seq(Items)
  BY DEF LifeInv, MessagingTypes, Items
<1>2. Tail(inMsgChan[r]) \in Seq(Items) /\ Len(Tail(inMsgChan[r])) = Len(inMsgChan[r]) - 1
  BY <1>1, TailItems
<1>3. Len(inMsgChan[r]) - 1 <= InMsgs
  BY <1>1, BoundsAssumption DEF LifeInv, QueuesBounded
<1>4. \A q \in Receivers : inMsgChan'[q] = IF q = r THEN Tail(inMsgChan[r]) ELSE inMsgChan[q]
  BY <1>1
<1>5. QueuesBounded'
  BY <1>2, <1>3, <1>4 DEF LifeInv, QueuesBounded
<1> QED BY <1>1, <1>2, <1>4, <1>5

\* Reading a message leaves launchers, workers and channels alone.
LEMMA HandlerLife ==
  ASSUME LifeInv, NEW r \in Receivers, NewInMsg(r) \/ ReadFails(r) \/ Queue(r)
  PROVE  LifeInv'
<1>1. UNCHANGED <<worker, lifeVars, passVars, outVars, unsent>>
  BY DEF NewInMsg, ReadFails, Queue, countVars
<1>2. inMsgChan' \in [Receivers -> Seq(Items)] /\ QueuesBounded'
  <2>1. CASE Queue(r) /\ up[r]
    BY <2>1, AppendToQueue DEF Queue, Items
  <2>2. CASE ~(Queue(r) /\ up[r])
    BY <2>2 DEF NewInMsg, ReadFails, Queue, LifeInv, QueuesBounded, MessagingTypes, Items
  <2> QED BY <2>1, <2>2
<1>3. /\ inFree' \in [Receivers -> 0..InMsgs]
      /\ handler' \in [Receivers -> {"idle", "reading", "stuck"}]
      /\ arrivals' \in 0..MaxArrivals
  <2>0. /\ inFree \in [Receivers -> 0..InMsgs] /\ InMsgs \in Nat
        /\ handler \in [Receivers -> {"idle", "reading", "stuck"}]
        /\ arrivals \in 0..MaxArrivals /\ MaxArrivals \in Nat
    BY BoundsAssumption DEF LifeInv, MessagingTypes
  <2>1. CASE NewInMsg(r)
    BY <2>0, <2>1 DEF NewInMsg
  <2>2. CASE ReadFails(r)
    BY <2>0, <2>2 DEF ReadFails, countVars
  <2>3. CASE Queue(r)
    BY <2>0, <2>3 DEF Queue, countVars
  <2> QED BY <2>1, <2>2, <2>3
<1>4. MessagingTypes'
  BY <1>1, <1>2, <1>3 DEF LifeInv, MessagingTypes, lifeVars, passVars, outVars, Items
<1> QED BY <1>1, <1>2, <1>4 DEF LifeInv, ChannelsOK, GoroutinesOK, OwnPassOK, RequestsOK,
          WorkersEnded, OwnPassOf, lifeVars, passVars, outVars

WorkerStates == {"gone", "wait", "takeAck", "sendAck", "putBack", "putBackAndSend", "takeSet",
                 "sendSet"}

\* A worker that moves is none of a part whose launcher is gone.
LEMMA WorkerMoves ==
  ASSUME LifeInv, NEW r \in Receivers, NEW w \in Workers, NEW to \in WorkerStates,
         worker[r][w] # "gone", worker' = [worker EXCEPT ![r][w] = to],
         UNCHANGED <<lifeVars, passVars>>
  PROVE  /\ worker' \in [Receivers -> [Workers -> WorkerStates]]
         /\ ChannelsOK' /\ GoroutinesOK' /\ OwnPassOK' /\ RequestsOK'
<1>1. worker \in [Receivers -> [Workers -> WorkerStates]]
  BY DEF LifeInv, MessagingTypes, WorkerStates
<1>2. /\ worker' \in [Receivers -> [Workers -> WorkerStates]]
      /\ \A q \in Receivers : q # r => worker'[q] = worker[q]
  BY <1>1
<1>3. launcher[r] # "gone"
  BY DEF LifeInv, GoroutinesOK, WorkersEnded
<1>4. \A q \in Receivers : launcher[q] = "gone" => WorkersEnded(q)'
  BY <1>2, <1>3 DEF LifeInv, GoroutinesOK, WorkersEnded
<1>5. ChannelsOK' /\ OwnPassOK' /\ RequestsOK'
  BY DEF LifeInv, ChannelsOK, OwnPassOK, RequestsOK, OwnPassOf, lifeVars, passVars
<1>6. GoroutinesOK'
  BY <1>4 DEF LifeInv, GoroutinesOK, OwnPassOf, lifeVars, passVars
<1> QED BY <1>2, <1>5, <1>6

LEMMA WorkerLife ==
  ASSUME LifeInv, NEW r \in Receivers, NEW w \in Workers, ReceiveStep(r, w) \/ PutBackStep(r, w)
  PROVE  LifeInv'
<1>1. UNCHANGED <<handler, lifeVars, passVars, outVars, countVars>>
  BY DEF ReceiveStep, PutBackStep, Receive, PutBack
<1>2. PICK to \in WorkerStates : worker' = [worker EXCEPT ![r][w] = to]
  <2>1. ASSUME NEW first \in FirstSteps, Receive(r, w, first)
        PROVE  \E to \in WorkerStates : worker' = [worker EXCEPT ![r][w] = to]
    <3>1. (IF Head(inMsgChan[r]) = "nil" THEN "gone" ELSE first) \in WorkerStates
      BY DEF FirstSteps, WorkerStates
    <3> QED BY <2>1, <3>1 DEF Receive
  <2>2. CASE PutBackStep(r, w)
    BY <2>2 DEF PutBackStep, PutBack, Goto, WorkerStates
  <2> QED BY <2>1, <2>2 DEF ReceiveStep
<1>3. worker[r][w] # "gone"
  BY DEF ReceiveStep, PutBackStep, Receive, PutBack, Goto
<1>4. /\ worker' \in [Receivers -> [Workers -> WorkerStates]]
      /\ ChannelsOK' /\ GoroutinesOK' /\ OwnPassOK' /\ RequestsOK'
  BY <1>1, <1>2, <1>3, WorkerMoves
<1>5. inMsgChan' \in [Receivers -> Seq(Items)] /\ QueuesBounded'
  <2>1. CASE ReceiveStep(r, w)
    BY <2>1, TailOfQueue DEF ReceiveStep, Receive
  <2>2. CASE PutBackStep(r, w)
    BY <2>2 DEF PutBackStep, PutBack, LifeInv, MessagingTypes, QueuesBounded, Items
  <2> QED BY <2>1, <2>2
<1>6. inFree' \in [Receivers -> 0..InMsgs]
  <2>1. inFree \in [Receivers -> 0..InMsgs] /\ InMsgs \in Nat
    BY BoundsAssumption DEF LifeInv, MessagingTypes
  <2> QED BY <2>1 DEF ReceiveStep, Receive, PutBackStep, PutBack
<1>7. MessagingTypes'
  BY <1>1, <1>4, <1>5, <1>6
  DEF LifeInv, MessagingTypes, lifeVars, passVars, outVars, countVars, Items, WorkerStates
<1> QED BY <1>4, <1>5, <1>7 DEF LifeInv

\* Taking, sending or freeing an outgoing message.
LEMMA OutTypes ==
  ASSUME LifeInv, NEW s \in Senders, \/ TakeOut(s) /\ UNCHANGED inRing
                                     \/ ToRing(s) /\ UNCHANGED outFree
                                     \/ Free(s)
  PROVE  outFree' \in [Senders -> 0..OutMsgs] /\ inRing' \in [Senders -> Nat]
<1>1. /\ outFree \in [Senders -> 0..OutMsgs] /\ inRing \in [Senders -> Nat]
      /\ OutMsgs \in Nat
  BY BoundsAssumption DEF LifeInv, MessagingTypes
<1> QED BY <1>1 DEF TakeOut, ToRing, Free

LEMMA WorkerSendsLife ==
  ASSUME LifeInv, NEW w \in Workers, TakeStep(w) \/ SendStep(w) \/ AnswerIsEmpty(w)
  PROVE  LifeInv'
<1>0. "bulkSet" \in Receivers /\ "inPull" \in Receivers /\ {"bulkSet", "bulkSetAck"} \subseteq Senders
  BY DEF Receivers, Senders
<1>1. UNCHANGED <<inFree, inMsgChan, handler, lifeVars, passVars, arrivals>>
  BY DEF TakeStep, SendStep, AnswerIsEmpty, WorkerTakes, WorkerSends, countVars
<1>2. PICK r \in Receivers, to \in WorkerStates :
        worker[r][w] # "gone" /\ worker' = [worker EXCEPT ![r][w] = to]
  BY <1>0 DEF TakeStep, SendStep, AnswerIsEmpty, WorkerTakes, WorkerSends, Goto, WorkerStates
<1>3. /\ worker' \in [Receivers -> [Workers -> WorkerStates]]
      /\ ChannelsOK' /\ GoroutinesOK' /\ OwnPassOK' /\ RequestsOK'
  BY <1>1, <1>2, WorkerMoves
<1>4. outFree' \in [Senders -> 0..OutMsgs] /\ inRing' \in [Senders -> Nat]
  <2>1. CASE TakeStep(w)
    BY <2>1, <1>0, OutTypes DEF TakeStep, WorkerTakes
  <2>2. CASE SendStep(w)
    BY <2>2, <1>0, OutTypes DEF SendStep, WorkerSends
  <2>3. CASE AnswerIsEmpty(w)
    BY <2>3 DEF AnswerIsEmpty, outVars, LifeInv, MessagingTypes
  <2> QED BY <2>1, <2>2, <2>3
<1>5. unsent' \in 0..MaxUnsent
  BY BoundsAssumption, SMTT(30)
     DEF TakeStep, SendStep, AnswerIsEmpty, WorkerTakes, WorkerSends, countVars, LifeInv, MessagingTypes
<1>6. MessagingTypes'
  BY <1>1, <1>3, <1>4, <1>5 DEF LifeInv, MessagingTypes, lifeVars, passVars, WorkerStates
<1> QED BY <1>1, <1>3, <1>6 DEF LifeInv, QueuesBounded

LEMMA FreeLife ==
  ASSUME LifeInv, NEW s \in Senders, Free(s)
  PROVE  LifeInv'
<1>1. outFree' \in [Senders -> 0..OutMsgs] /\ inRing' \in [Senders -> Nat]
  BY OutTypes
<1>2. UNCHANGED <<msgVars, passVars, lifeVars, countVars>>
  BY DEF Free
<1> QED BY <1>1, <1>2 DEF LifeInv, MessagingTypes, QueuesBounded, ChannelsOK, GoroutinesOK, OwnPassOK,
          RequestsOK, WorkersEnded, OwnPassOf, msgVars, passVars, lifeVars, countVars

\* A step of a pass's worker.
LEMMA PassLife ==
  ASSUME LifeInv, \/ \E l \in Launchers : PassPartition(l)
                  \/ PassSend("push", "bulkSet") \/ PassSend("outPull", "outPull")
  PROVE  LifeInv'
<1>0. /\ "push" \in Launchers /\ "outPull" \in Launchers
      /\ "bulkSet" \in Senders /\ "outPull" \in Senders
  BY DEF Launchers, Senders
<1>1. UNCHANGED <<abort, passes, msgVars, lifeVars, countVars>>
  BY DEF PassPartition, PassSend
<1>2. outFree' \in [Senders -> 0..OutMsgs] /\ inRing' \in [Senders -> Nat]
  <2>1. CASE \E l \in Launchers : PassPartition(l)
    BY <2>1 DEF PassPartition, outVars, LifeInv, MessagingTypes
  <2>2. CASE PassSend("push", "bulkSet") \/ PassSend("outPull", "outPull")
    BY <2>2, <1>0, OutTypes DEF PassSend
  <2> QED BY <2>1, <2>2
<1>3. /\ pass' \in [Launchers -> {"none", "partition", "take", "send", "done"}]
      /\ partition' \in [Launchers -> 0..Partitions]
      /\ \A l \in Launchers : pass'[l] # "none" => pass[l] # "none"
  <2>1. /\ pass \in [Launchers -> {"none", "partition", "take", "send", "done"}]
        /\ partition \in [Launchers -> 0..Partitions] /\ Partitions \in Nat
    BY BoundsAssumption DEF LifeInv, MessagingTypes
  <2>2. ASSUME NEW l \in Launchers, PassPartition(l)
        PROVE  <1>3!1 /\ <1>3!2 /\ <1>3!3
    <3>1. CASE PassIsOver(l)
      BY <2>1, <2>2, <3>1 DEF PassPartition
    <3>2. CASE ~PassIsOver(l)
      <4>1. PICK next \in {"partition", "take"} : pass' = [pass EXCEPT ![l] = next]
        BY <2>2, <3>2 DEF PassPartition
      <4>2. partition[l] - 1 \in 0..Partitions
        BY <2>1, <3>2 DEF PassIsOver
      <4>3. partition' = [partition EXCEPT ![l] = @ - 1] /\ pass[l] = "partition"
        BY <2>2, <3>2 DEF PassPartition
      <4> QED BY <2>1, <4>1, <4>2, <4>3
    <3> QED BY <3>1, <3>2
  <2>3. CASE PassSend("push", "bulkSet") \/ PassSend("outPull", "outPull")
    BY <2>1, <2>3, <1>0 DEF PassSend
  <2> QED BY <2>2, <2>3
<1>4. MessagingTypes'
  BY <1>1, <1>2, <1>3 DEF LifeInv, MessagingTypes, msgVars, lifeVars, countVars
<1>5. GoroutinesOK'
  BY <1>1, <1>3 DEF LifeInv, GoroutinesOK, WorkersEnded, OwnPassOf, msgVars, lifeVars
<1> QED BY <1>1, <1>4, <1>5 DEF LifeInv, QueuesBounded, ChannelsOK, OwnPassOK,
          RequestsOK, OwnPassOf, msgVars, lifeVars

\* Beginning a pass, and a launcher's next state.
LEMMA BeginPassTypes ==
  ASSUME LifeInv, NEW l \in Launchers, BeginPass(l), passes <= MaxPasses
  PROVE  /\ pass' \in [Launchers -> {"none", "partition", "take", "send", "done"}]
         /\ partition' \in [Launchers -> 0..Partitions] /\ abort' \in [Launchers -> BOOLEAN]
         /\ passes' \in 0..(MaxPasses + 1) /\ passes' = passes + 1
         /\ pass'[l] = "partition" /\ \A k \in Launchers \ {l} : pass'[k] = pass[k]
<1>1. /\ pass \in [Launchers -> {"none", "partition", "take", "send", "done"}]
      /\ partition \in [Launchers -> 0..Partitions] /\ Partitions \in Nat
      /\ abort \in [Launchers -> BOOLEAN] /\ passes \in 0..(MaxPasses + 1) /\ MaxPasses \in Nat
  BY BoundsAssumption DEF LifeInv, MessagingTypes
<1> QED BY <1>1 DEF BeginPass

LauncherStates == {"gone", "wait", "pass", "asked", "stop", "again", "askedAndStop", "nils"}
InPass == {"pass", "asked", "stop", "again", "askedAndStop"}

\* A launcher of passes in its next state: what is left to show of a step is
\* about its passes, its notification and its caller.
LEMMA LauncherMoves ==
  ASSUME LifeInv, NEW l \in Launchers, NEW to \in LauncherStates,
         launcher[l] # "gone", SetLauncher(l, to), LauncherFrame,
         pass' \in [Launchers -> {"none", "partition", "take", "send", "done"}],
         partition' \in [Launchers -> 0..Partitions], abort' \in [Launchers -> BOOLEAN],
         passes' \in 0..(MaxPasses + 1),
         \A k \in Launchers \ {l} : pass'[k] = pass[k],
         pass'[l] # "none" => to \in InPass,
         notify' = notify \/ notify' = [notify EXCEPT ![l] = <<>>],
         caller' = caller \/ (caller = "waits" /\ caller' = "told"),
         RequestsOK'
  PROVE  LifeInv'
<1>0. Launchers \cap Receivers = {} /\ "outPull" \in Launchers
  BY DEF Launchers, Receivers
<1>1. /\ launcher \in [Receivers \cup Launchers -> LauncherStates]
      /\ notify \in [Receivers \cup Launchers -> {<<>>, <<"disable">>, <<"pass">>}]
  BY DEF LifeInv, MessagingTypes, LauncherStates
<1>2. /\ launcher' \in [Receivers \cup Launchers -> LauncherStates]
      /\ launcher'[l] = to
      /\ \A p \in (Receivers \cup Launchers) \ {l} : launcher'[p] = launcher[p]
  BY <1>1 DEF SetLauncher
<1>3. notify' \in [Receivers \cup Launchers -> {<<>>, <<"disable">>, <<"pass">>}]
  BY <1>1
<1>4. caller' \in {"none", "waits", "told", "own"} /\ (caller' = "own" <=> caller = "own")
  BY DEF LifeInv, MessagingTypes
<1>5. UNCHANGED <<parts, running, up, nilsLeft, stopping, starts, msgVars, outVars, countVars>>
  BY DEF LauncherFrame
<1>6. MessagingTypes'
  BY <1>2, <1>3, <1>4, <1>5
  DEF LifeInv, MessagingTypes, msgVars, outVars, countVars, LauncherStates
<1>7. QueuesBounded' /\ ChannelsOK'
  BY <1>4, <1>5 DEF LifeInv, QueuesBounded, ChannelsOK, OwnPassOf, msgVars
<1>8. up[l] /\ (caller = "own" => l # "outPull")
  BY DEF LifeInv, GoroutinesOK, OwnPassOK
<1>9. OwnPassOK'
  BY <1>0, <1>2, <1>4, <1>5, <1>8 DEF LifeInv, OwnPassOK
<1>10. GoroutinesOK'
  <2>1. ASSUME NEW p \in Receivers \cup Launchers, ~up'[p] PROVE launcher'[p] = "gone"
    BY <2>1, <1>2, <1>5, <1>8 DEF LifeInv, GoroutinesOK
  <2>2. ASSUME NEW r \in Receivers, launcher'[r] = "gone" PROVE WorkersEnded(r)'
    BY <2>2, <1>0, <1>2, <1>5 DEF LifeInv, GoroutinesOK, WorkersEnded, msgVars
  <2>3. ASSUME NEW k \in Launchers, pass'[k] # "none"
        PROVE  launcher'[k] \in InPass \/ OwnPassOf(k)'
    <3>1. CASE k = l
      BY <2>3, <3>1, <1>2
    <3>2. CASE k # l
      BY <2>3, <3>2, <1>2, <1>4 DEF LifeInv, GoroutinesOK, OwnPassOf, InPass
    <3> QED BY <3>1, <3>2
  <2> QED BY <2>1, <2>2, <2>3 DEF GoroutinesOK, InPass
<1> QED BY <1>6, <1>7, <1>9, <1>10 DEF LifeInv

\* What is known of passes when one does not begin.
LEMMA PassTypes ==
  ASSUME LifeInv
  PROVE  /\ pass \in [Launchers -> {"none", "partition", "take", "send", "done"}]
         /\ partition \in [Launchers -> 0..Partitions] /\ abort \in [Launchers -> BOOLEAN]
         /\ passes \in 0..(MaxPasses + 1) /\ MaxPasses \in Nat
         /\ launcher \in [Receivers \cup Launchers -> LauncherStates]
         /\ notify \in [Receivers \cup Launchers -> {<<>>, <<"disable">>, <<"pass">>}]
BY BoundsAssumption DEF LifeInv, MessagingTypes, LauncherStates

LEMMA TimerLife ==
  ASSUME LifeInv, NEW l \in Launchers, Timer(l)
  PROVE  LifeInv'
<1>1. launcher[l] = "wait" /\ SetLauncher(l, "pass") /\ BeginPass(l) /\ LauncherFrame
      /\ UNCHANGED <<notify, caller>> /\ passes < MaxPasses
  BY DEF Timer
<1>2. /\ pass' \in [Launchers -> {"none", "partition", "take", "send", "done"}]
      /\ partition' \in [Launchers -> 0..Partitions] /\ abort' \in [Launchers -> BOOLEAN]
      /\ passes' \in 0..(MaxPasses + 1) /\ passes' = passes + 1
      /\ \A k \in Launchers \ {l} : pass'[k] = pass[k]
  BY <1>1, PassTypes, BeginPassTypes
<1>3. passes' <= MaxPasses
  BY <1>1, <1>2, PassTypes
<1>4. RequestsOK'
  BY <1>1, <1>3, PassTypes DEF LifeInv, RequestsOK, SetLauncher
<1> QED BY <1>1, <1>2, <1>4, LauncherMoves DEF LauncherStates, InPass

LEMMA NotifiedLife ==
  ASSUME LifeInv, NEW l \in Launchers, Notified(l)
  PROVE  LifeInv'
<1>1. /\ launcher[l] = "wait" /\ LauncherFrame /\ UNCHANGED caller
      /\ notify[l] # <<>> /\ notify' = [notify EXCEPT ![l] = <<>>]
  BY DEF Notified
<1>2. notify[l] \in {<<"disable">>, <<"pass">>} /\ <<"disable">>[1] = "disable" /\ <<"pass">>[1] = "pass"
  BY <1>1, PassTypes
<1>3. CASE notify[l] = <<"disable">>
  <2>1. SetLauncher(l, "gone") /\ UNCHANGED passVars
    BY <1>3, <1>2 DEF Notified
  <2>2. pass[l] = "none"
    BY <1>1 DEF LifeInv, GoroutinesOK, OwnPassOK, OwnPassOf
  <2>3. RequestsOK'
    BY <1>1, <2>1, PassTypes DEF LifeInv, RequestsOK, SetLauncher, passVars
  <2> QED BY <1>1, <2>1, <2>2, <2>3, PassTypes, LauncherMoves DEF LauncherStates, passVars
<1>4. CASE notify[l] = <<"pass">>
  <2>1. SetLauncher(l, "asked") /\ BeginPass(l)
    BY <1>4, <1>2 DEF Notified
  <2>2. l = "outPull" /\ caller = "waits" /\ passes <= MaxPasses
    BY <1>4 DEF LifeInv, RequestsOK
  <2>3. /\ pass' \in [Launchers -> {"none", "partition", "take", "send", "done"}]
        /\ partition' \in [Launchers -> 0..Partitions] /\ abort' \in [Launchers -> BOOLEAN]
        /\ passes' \in 0..(MaxPasses + 1)
        /\ \A k \in Launchers \ {l} : pass'[k] = pass[k]
    BY <2>1, <2>2, BeginPassTypes
  <2>4. RequestsOK'
    BY <1>1, <2>1, <2>2, PassTypes DEF LifeInv, RequestsOK, SetLauncher
  <2> QED BY <1>1, <2>1, <2>3, <2>4, LauncherMoves DEF LauncherStates, InPass
<1> QED BY <1>2, <1>3, <1>4

LEMMA InterruptedLife ==
  ASSUME LifeInv, NEW l \in Launchers, Interrupted(l)
  PROVE  LifeInv'
<1>1. /\ launcher[l] \in {"pass", "asked"} /\ LauncherFrame
      /\ notify[l] # <<>> /\ notify' = [notify EXCEPT ![l] = <<>>]
      /\ abort' = [abort EXCEPT ![l] = TRUE] /\ UNCHANGED <<pass, partition, passes, caller>>
  BY DEF Interrupted
<1>2. notify[l] \in {<<"disable">>, <<"pass">>} /\ <<"disable">>[1] = "disable" /\ <<"pass">>[1] = "pass"
  BY <1>1, PassTypes
<1>3. PICK to \in {"askedAndStop", "stop", "again"} :
        /\ SetLauncher(l, to)
        /\ to = "askedAndStop" => launcher[l] = "asked"
        /\ to = "again" => notify[l] = <<"pass">>
  BY <1>1, <1>2 DEF Interrupted
<1>4. RequestsOK'
  BY <1>1, <1>3, PassTypes DEF LifeInv, RequestsOK, SetLauncher
<1> QED BY <1>1, <1>3, <1>4, PassTypes, LauncherMoves DEF LauncherStates, InPass

LEMMA PassEndsLife ==
  ASSUME LifeInv, NEW l \in Launchers, PassEnds(l)
  PROVE  LifeInv'
<1>1. /\ launcher[l] \in {"pass", "asked", "stop", "again", "askedAndStop"}
      /\ LauncherFrame /\ UNCHANGED notify
      /\ caller' = IF TellsCaller(l) THEN "told" ELSE caller
  BY DEF PassEnds
<1>2. TellsCaller(l) => caller = "waits" /\ l = "outPull"
  BY DEF LifeInv, RequestsOK, TellsCaller
<1>3. CASE launcher[l] = "again"
  <2>1. BeginPass(l) /\ SetLauncher(l, "asked") /\ caller' = caller
    BY <1>1, <1>3 DEF PassEnds, TellsCaller
  <2>2. passes <= MaxPasses /\ l = "outPull" /\ caller = "waits" /\ notify["outPull"] # <<"pass">>
    BY <1>3 DEF LifeInv, RequestsOK
  <2>3. /\ pass' \in [Launchers -> {"none", "partition", "take", "send", "done"}]
        /\ partition' \in [Launchers -> 0..Partitions] /\ abort' \in [Launchers -> BOOLEAN]
        /\ passes' \in 0..(MaxPasses + 1)
        /\ \A k \in Launchers \ {l} : pass'[k] = pass[k]
    BY <2>1, <2>2, BeginPassTypes
  <2>4. RequestsOK'
    BY <1>1, <2>1, <2>2, PassTypes DEF LifeInv, RequestsOK, SetLauncher
  <2> QED BY <1>1, <2>1, <2>3, <2>4, LauncherMoves DEF LauncherStates, InPass
<1>4. CASE launcher[l] # "again"
  <2>1. PICK to \in {"gone", "wait"} : SetLauncher(l, to)
    BY <1>4 DEF PassEnds
  <2>2. pass' = [pass EXCEPT ![l] = "none"] /\ UNCHANGED <<partition, abort, passes>>
    BY <1>4 DEF PassEnds
  <2>3. RequestsOK'
    BY <1>1, <1>2, <2>1, <2>2, PassTypes DEF LifeInv, RequestsOK, SetLauncher, TellsCaller
  <2>4. /\ pass' \in [Launchers -> {"none", "partition", "take", "send", "done"}]
        /\ pass'[l] = "none" /\ \A k \in Launchers \ {l} : pass'[k] = pass[k]
    BY <2>2, PassTypes
  <2> QED BY <1>1, <1>2, <2>1, <2>2, <2>3, <2>4, PassTypes, LauncherMoves DEF LauncherStates
<1> QED BY <1>3, <1>4

\* The caller of OutPullReplicationPass.
LEMMA CallerLife ==
  ASSUME LifeInv, OutPullReplicationPass
  PROVE  LifeInv'
<1>0. /\ "outPull" \in Launchers /\ "outPull" \in Receivers \cup Launchers /\ "outPull" \in Senders
      /\ "outPull" \notin Receivers
  BY DEF Launchers, Receivers, Senders
<1>1. /\ "outPull" \in parts
      /\ UNCHANGED <<parts, running, launcher, nilsLeft, stopping, starts, inRing, msgVars, countVars>>
  BY DEF OutPullReplicationPass
<1>2. /\ up \in [Receivers \cup Launchers -> BOOLEAN]
      /\ outFree \in [Senders -> 0..OutMsgs] /\ OutMsgs \in Nat
  BY BoundsAssumption DEF LifeInv, MessagingTypes
<1>3. QueuesBounded'
  BY <1>1 DEF LifeInv, QueuesBounded, msgVars
<1>4. CASE /\ caller = "none" /\ up["outPull"] /\ passes < MaxPasses /\ caller' = "waits"
           /\ notify["outPull"] = <<>> /\ notify' = [notify EXCEPT !["outPull"] = <<"pass">>]
           /\ UNCHANGED <<up, outFree, passVars>>
  <2>1. MessagingTypes'
    BY <1>1, <1>4, PassTypes DEF LifeInv, MessagingTypes, msgVars, passVars, countVars
  <2>2. RequestsOK'
    BY <1>0, <1>1, <1>4, PassTypes DEF LifeInv, RequestsOK, passVars
  <2> QED BY <1>1, <1>3, <1>4, <2>1, <2>2
          DEF LifeInv, ChannelsOK, GoroutinesOK, OwnPassOK, OwnPassOf, WorkersEnded, msgVars, passVars
<1>5. CASE caller = "told" /\ caller' = "none" /\ UNCHANGED <<up, notify, outFree, passVars>>
  <2>1. MessagingTypes'
    BY <1>1, <1>5 DEF LifeInv, MessagingTypes, msgVars, passVars, countVars
  <2> QED BY <1>1, <1>3, <1>5, <2>1
          DEF LifeInv, ChannelsOK, GoroutinesOK, OwnPassOK, RequestsOK, OwnPassOf, WorkersEnded,
              msgVars, passVars
<1>6. CASE /\ caller = "none" /\ ~up["outPull"] /\ passes < MaxPasses
           /\ up' = [up EXCEPT !["outPull"] = TRUE]
           /\ outFree' = [outFree EXCEPT !["outPull"] = OutMsgs]
           /\ BeginPass("outPull") /\ caller' = "own" /\ UNCHANGED notify
  <2>1. /\ pass' \in [Launchers -> {"none", "partition", "take", "send", "done"}]
        /\ partition' \in [Launchers -> 0..Partitions] /\ abort' \in [Launchers -> BOOLEAN]
        /\ passes' \in 0..(MaxPasses + 1) /\ passes' = passes + 1
        /\ \A k \in Launchers \ {"outPull"} : pass'[k] = pass[k]
    BY <1>0, <1>6, PassTypes, BeginPassTypes
  <2>2. /\ up' \in [Receivers \cup Launchers -> BOOLEAN] /\ up'["outPull"]
        /\ \A p \in (Receivers \cup Launchers) \ {"outPull"} : up'[p] = up[p]
        /\ outFree' \in [Senders -> 0..OutMsgs]
    BY <1>0, <1>2, <1>6
  <2>3. MessagingTypes'
    BY <1>1, <1>6, <2>1, <2>2 DEF LifeInv, MessagingTypes, msgVars, countVars
  <2>4. RequestsOK'
    <3>1. passes' <= MaxPasses BY <1>6, <2>1, PassTypes
    <3> QED BY <1>1, <1>6, <3>1 DEF LifeInv, RequestsOK
  <2>5. ChannelsOK'
    BY <1>1, <1>6, <2>2 DEF LifeInv, ChannelsOK, OwnPassOf
  <2>6. OwnPassOK'
    <3>1. running # "up" /\ stopping["outPull"] \notin {"notify", "wait"}
      BY <1>0, <1>1, <1>6 DEF LifeInv, ChannelsOK
    <3>2. stopping["outPull"] \in {"no", "done"} /\ launcher["outPull"] = "gone"
      BY <1>0, <1>6, <3>1 DEF LifeInv, MessagingTypes, GoroutinesOK
    <3> QED BY <1>1, <2>2, <3>1, <3>2 DEF OwnPassOK
  <2>7. GoroutinesOK'
    BY <1>0, <1>1, <1>6, <2>1, <2>2 DEF LifeInv, GoroutinesOK, OwnPassOf, WorkersEnded, msgVars
  <2> QED BY <1>3, <2>3, <2>4, <2>5, <2>6, <2>7 DEF LifeInv
<1>7. CASE /\ caller = "own" /\ pass' = [pass EXCEPT !["outPull"] = "none"]
           /\ up' = [up EXCEPT !["outPull"] = FALSE]
           /\ caller' = "none" /\ UNCHANGED <<notify, outFree, partition, abort, passes>>
  <2>1. /\ pass' \in [Launchers -> {"none", "partition", "take", "send", "done"}]
        /\ pass'["outPull"] = "none"
        /\ \A k \in Launchers \ {"outPull"} : pass'[k] = pass[k]
    BY <1>0, <1>7, PassTypes
  <2>2. /\ up' \in [Receivers \cup Launchers -> BOOLEAN] /\ ~up'["outPull"]
        /\ \A p \in (Receivers \cup Launchers) \ {"outPull"} : up'[p] = up[p]
    BY <1>0, <1>2, <1>7
  <2>3. MessagingTypes'
    BY <1>1, <1>7, <2>1, <2>2 DEF LifeInv, MessagingTypes, msgVars, countVars
  <2>4. RequestsOK' /\ OwnPassOK'
    BY <1>1, <1>7 DEF LifeInv, RequestsOK, OwnPassOK
  <2>5. ChannelsOK'
    BY <1>1, <1>7, <2>2 DEF LifeInv, ChannelsOK, OwnPassOK, OwnPassOf
  <2>7. GoroutinesOK'
    BY <1>0, <1>1, <1>7, <2>1, <2>2 DEF LifeInv, GoroutinesOK, OwnPassOK, OwnPassOf, WorkersEnded, msgVars
  <2> QED BY <1>3, <2>3, <2>4, <2>5, <2>7 DEF LifeInv
<1> QED BY <1>4, <1>5, <1>6, <1>7 DEF OutPullReplicationPass

LEMMA WorkersLauncherLife ==
  ASSUME LifeInv, NEW r \in Receivers, WorkersLauncher(r)
  PROVE  LifeInv'
<1>0. r \notin Launchers /\ "outPull" # r
  BY DEF Launchers, Receivers
<1>1. UNCHANGED <<parts, running, up, stopping, caller, starts, inFree, handler, worker,
                  outVars, passVars, countVars>>
  BY DEF WorkersLauncher
<1>2. /\ nilsLeft \in [Receivers -> 0..InWorkers] /\ InWorkers \in Nat
      /\ inMsgChan \in [Receivers -> Seq(Items)]
  BY BoundsAssumption DEF LifeInv, MessagingTypes, Items
<1>3. launcher[r] # "gone" /\ up[r]
  BY DEF WorkersLauncher, LifeInv, GoroutinesOK
<1>4. inMsgChan' \in [Receivers -> Seq(Items)] /\ QueuesBounded'
  <2>1. CASE inMsgChan' = [inMsgChan EXCEPT ![r] = Append(@, "nil")] /\ Len(inMsgChan[r]) < InMsgs
    BY <2>1, AppendToQueue DEF Items
  <2>2. CASE UNCHANGED inMsgChan
    BY <2>2, <1>2 DEF LifeInv, QueuesBounded
  <2> QED BY <2>1, <2>2 DEF WorkersLauncher
<1>5. nilsLeft' \in [Receivers -> 0..InWorkers]
  BY <1>2 DEF WorkersLauncher, Nils
<1>6. /\ notify' \in [Receivers \cup Launchers -> {<<>>, <<"disable">>, <<"pass">>}]
      /\ \A p \in Receivers \cup Launchers : notify'[p] # notify[p] => notify'[p] = <<>>
  BY PassTypes DEF WorkersLauncher
<1>7. /\ launcher' \in [Receivers \cup Launchers -> LauncherStates]
      /\ \A p \in (Receivers \cup Launchers) \ {r} : launcher'[p] = launcher[p]
      /\ launcher'[r] \in {"nils", "gone"}
      /\ launcher'[r] = "gone" => WorkersEnded(r)
  BY PassTypes DEF WorkersLauncher, SetLauncher, LauncherStates
<1>8. MessagingTypes'
  BY <1>1, <1>4, <1>5, <1>6, <1>7
  DEF LifeInv, MessagingTypes, Items, LauncherStates, outVars, passVars, countVars
<1>9. ChannelsOK'
  BY <1>1 DEF LifeInv, ChannelsOK, OwnPassOf
<1>10. OwnPassOK'
  BY <1>0, <1>1, <1>7 DEF LifeInv, OwnPassOK, Launchers
<1>11. RequestsOK'
  <2>1. \A p \in Receivers \cup Launchers :
          /\ notify'[p] = <<"pass">> => notify[p] = <<"pass">>
          /\ launcher'[p] \in {"asked", "again", "askedAndStop"} => launcher'[p] = launcher[p]
    BY <1>6, <1>7
  <2> QED BY <1>1, <2>1 DEF LifeInv, RequestsOK, passVars
<1>12. GoroutinesOK'
  BY <1>0, <1>1, <1>3, <1>7 DEF LifeInv, GoroutinesOK, WorkersEnded, OwnPassOf, passVars
<1> QED BY <1>4, <1>8, <1>9, <1>10, <1>11, <1>12 DEF LifeInv

LEMMA StartupLife ==
  ASSUME LifeInv, Startup
  PROVE  LifeInv'
<1>0. parts \subseteq Receivers \cup Launchers
  BY BoundsAssumption DEF LifeInv, MessagingTypes
<1>1. \A l \in Launchers : pass[l] = "none"
  BY DEF Startup, LifeInv, ChannelsOK, GoroutinesOK, OwnPassOf
<1>2. \A p \in Receivers \cup Launchers : stopping[p] = "no"
  BY DEF Startup, LifeInv, ChannelsOK
<1>3. MessagingTypes'
  <2>1. /\ inFree' \in [Receivers -> 0..InMsgs] /\ inMsgChan' \in [Receivers -> Seq({"msg", "nil"})]
        /\ outFree' \in [Senders -> 0..OutMsgs] /\ unsent' \in 0..MaxUnsent
        /\ starts' \in 0..MaxStarts
    BY BoundsAssumption DEF Startup, LifeInv, MessagingTypes
  <2> QED BY <2>1 DEF Startup, LifeInv, MessagingTypes, passVars
<1>4. QueuesBounded'
  BY BoundsAssumption DEF Startup, QueuesBounded
<1>5. ChannelsOK'
  BY <1>2 DEF Startup, ChannelsOK
<1>6. GoroutinesOK'
  BY <1>0, <1>1 DEF Startup, GoroutinesOK, WorkersEnded, passVars
<1>7. OwnPassOK'
  BY DEF Startup, OwnPassOK
<1>8. RequestsOK'
  BY DEF Startup, LifeInv, RequestsOK, passVars
<1> QED BY <1>3, <1>4, <1>5, <1>6, <1>7, <1>8 DEF LifeInv

LEMMA ShutdownLife ==
  ASSUME LifeInv, Shutdown \/ ShutdownReturns
  PROVE  LifeInv'
<1>1. UNCHANGED <<parts, up, launcher, nilsLeft, notify, caller, starts, msgVars, outVars,
                  passVars, countVars>>
  BY DEF Shutdown, ShutdownReturns
<1>2. MessagingTypes'
  BY <1>1 DEF Shutdown, ShutdownReturns, LifeInv, MessagingTypes, msgVars, outVars, passVars, countVars
<1>3. QueuesBounded' /\ GoroutinesOK' /\ RequestsOK'
  BY <1>1 DEF LifeInv, QueuesBounded, GoroutinesOK, RequestsOK, WorkersEnded, OwnPassOf,
     msgVars, passVars
<1>4. ChannelsOK' /\ OwnPassOK'
  <2>1. CASE Shutdown
    BY <1>1, <2>1 DEF Shutdown, LifeInv, ChannelsOK, OwnPassOK, OwnPassOf
  <2>2. CASE ShutdownReturns
    BY <1>1, <2>2 DEF ShutdownReturns, LifeInv, ChannelsOK, OwnPassOK, OwnPassOf, Launchers
  <2> QED BY <2>1, <2>2
<1> QED BY <1>2, <1>3, <1>4 DEF LifeInv

LEMMA ShutdownPartLife ==
  ASSUME LifeInv, NEW p \in Receivers \cup Launchers, ShutdownPart(p)
  PROVE  LifeInv'
<1>0. "outPull" \in Receivers \cup Launchers
  BY DEF Launchers
<1>1. UNCHANGED <<parts, running, launcher, nilsLeft, caller, starts, msgVars, outVars,
                  passVars, countVars>>
  BY DEF ShutdownPart
<1>2. /\ up \in [Receivers \cup Launchers -> BOOLEAN]
      /\ stopping \in [Receivers \cup Launchers -> {"no", "notify", "wait", "done"}]
      /\ notify \in [Receivers \cup Launchers -> {<<>>, <<"disable">>, <<"pass">>}]
  BY DEF LifeInv, MessagingTypes
<1>3. /\ running = "stopping" /\ up[p] /\ stopping[p] \in {"notify", "wait"}
  BY DEF ShutdownPart, LifeInv, MessagingTypes, ChannelsOK
<1>4. QueuesBounded'
  BY <1>1 DEF LifeInv, QueuesBounded, msgVars
<1>5. caller = "own" => p # "outPull"
  BY <1>3 DEF LifeInv, OwnPassOK
<1>6. CASE notify' = [notify EXCEPT ![p] = <<"disable">>]
           /\ stopping' = [stopping EXCEPT ![p] = "wait"] /\ UNCHANGED up
  <2>1. MessagingTypes'
    BY <1>1, <1>2, <1>6 DEF LifeInv, MessagingTypes, msgVars, outVars, passVars, countVars
  <2>2. ChannelsOK'
    BY <1>1, <1>2, <1>3, <1>6 DEF LifeInv, ChannelsOK, OwnPassOf
  <2>3. GoroutinesOK'
    BY <1>1, <1>6 DEF LifeInv, GoroutinesOK, WorkersEnded, OwnPassOf, msgVars, passVars
  <2>4. OwnPassOK'
    BY <1>0, <1>1, <1>2, <1>5, <1>6 DEF LifeInv, OwnPassOK
  <2>5. RequestsOK'
    <3>1. \A q \in Receivers \cup Launchers : notify'[q] = <<"pass">> => notify[q] = <<"pass">>
      BY <1>2, <1>6
    <3> QED BY <1>1, <3>1 DEF LifeInv, RequestsOK, passVars
  <2> QED BY <1>4, <2>1, <2>2, <2>3, <2>4, <2>5 DEF LifeInv
<1>7. CASE /\ launcher[p] = "gone" /\ up' = [up EXCEPT ![p] = FALSE]
           /\ stopping' = [stopping EXCEPT ![p] = "done"] /\ UNCHANGED notify
  <2>1. MessagingTypes'
    BY <1>1, <1>2, <1>7 DEF LifeInv, MessagingTypes, msgVars, outVars, passVars, countVars
  <2>2. ChannelsOK'
    BY <1>1, <1>2, <1>3, <1>7 DEF LifeInv, ChannelsOK, OwnPassOf
  <2>3. GoroutinesOK'
    BY <1>1, <1>2, <1>7 DEF LifeInv, GoroutinesOK, WorkersEnded, OwnPassOf, msgVars, passVars
  <2>4. OwnPassOK'
    BY <1>0, <1>1, <1>2, <1>5, <1>7 DEF LifeInv, OwnPassOK
  <2>5. RequestsOK'
    BY <1>1, <1>7 DEF LifeInv, RequestsOK, passVars
  <2> QED BY <1>4, <2>1, <2>2, <2>3, <2>4, <2>5 DEF LifeInv
<1> QED BY <1>6, <1>7 DEF ShutdownPart

LEMMA NextLife == LifeInv /\ [Next]_vars => LifeInv'
<1> SUFFICES ASSUME LifeInv, [Next]_vars PROVE LifeInv' OBVIOUS
<1>1. CASE Next
  BY <1>1, Steps, StartupLife, ShutdownLife, ShutdownPartLife, HandlerLife, WorkersLauncherLife,
     WorkerLife, WorkerSendsLife, FreeLife, PassLife, TimerLife, NotifiedLife, InterruptedLife,
     PassEndsLife, CallerLife
<1>2. CASE UNCHANGED vars
  BY <1>2 DEF vars, LifeInv, MessagingTypes, QueuesBounded, ChannelsOK, GoroutinesOK, OwnPassOK,
     RequestsOK, WorkersEnded, OwnPassOf, msgVars, outVars, passVars, lifeVars, countVars
<1> QED BY <1>1, <1>2

LEMMA LifeAlways == Spec => []LifeInv
BY InitLife, NextLife, PTL DEF Spec

\* Every variable has its type: a channel never holds more than its capacity, a
\* pool never more messages than it was made with, and one request for a pass at
\* most is under way at a time, whatever the callers, timers and Shutdowns do.
THEOREM MessagingTypesHold == Spec => []TypeOK
<1>1. ASSUME LifeInv PROVE TypeOK
  <2>1. Len(<<>>) <= 1 /\ Len(<<"disable">>) <= 1 /\ Len(<<"pass">>) <= 1
    OBVIOUS
  <2>2. \A p \in Receivers \cup Launchers : Len(notify[p]) <= 1
    BY <1>1, <2>1, PassTypes
  <2>3. \A r \in Receivers : Len(inMsgChan[r]) <= InMsgs
    BY <1>1 DEF LifeInv, QueuesBounded
  <2> QED BY <1>1, <2>2, <2>3 DEF LifeInv, MessagingTypes, TypeOK
<1> QED BY <1>1, LifeAlways, PTL

\* A part whose Shutdown has returned has no goroutine left: the order in which
\* Shutdown, the launcher, its workers and the caller of a pass go away is safe.
THEOREM StoppedPartsAreQuiet == Spec => []NothingAfterShutdown
<1>1. LifeInv => NothingAfterShutdown
  <2> SUFFICES ASSUME LifeInv, NEW p \in parts, running # "up", ~up[p]
               PROVE  /\ launcher[p] = "gone"
                      /\ p \in Receivers => \A w \in Workers : worker[p][w] = "gone"
                      /\ p \in Launchers => pass[p] = "none"
    BY DEF NothingAfterShutdown
  <2>1. p \in Receivers \cup Launchers
    BY BoundsAssumption DEF LifeInv, MessagingTypes
  <2> QED BY <2>1 DEF LifeInv, GoroutinesOK, OwnPassOK, OwnPassOf, WorkersEnded
<1> QED BY <1>1, LifeAlways, PTL

(***************************************************************************)
(* Pooled messages                                                         *)
(***************************************************************************)
\* How many of the workers are in a state of S, when they are as f says.
InState(f, S) == {w \in Workers : f[w] \in S}

LEMMA FiniteStates ==
  ASSUME NEW f, NEW S
  PROVE  IsFiniteSet(InState(f, S)) /\ Cardinality(InState(f, S)) \in Nat
<1>1. IsFiniteSet(Workers)
  BY BoundsAssumption, FS_Interval DEF Workers
<1>2. InState(f, S) \in SUBSET Workers
  BY DEF InState
<1> QED BY <1>1, <1>2, FS_Subset, FS_CardinalityType

\* The messages, not the nils, of a channel.
Messages(q) == {i \in DOMAIN q : q[i] = "msg"}

LEMMA FiniteMessages ==
  ASSUME NEW q \in Seq(Items)
  PROVE  IsFiniteSet(Messages(q)) /\ Cardinality(Messages(q)) \in Nat
<1>1. Messages(q) \in SUBSET (1..Len(q)) /\ Len(q) \in Nat
  BY DEF Messages
<1>2. IsFiniteSet(1..Len(q))
  BY <1>1, FS_Interval
<1> QED BY <1>1, <1>2, FS_Subset, FS_CardinalityType

LEMMA MessagesAppend ==
  ASSUME NEW q \in Seq(Items), NEW e \in Items
  PROVE  Cardinality(Messages(Append(q, e))) = Cardinality(Messages(q)) + (IF e = "msg" THEN 1 ELSE 0)
<1>1. /\ Append(q, e) \in Seq(Items) /\ Len(Append(q, e)) = Len(q) + 1
      /\ \A i \in 1..Len(q) : Append(q, e)[i] = q[i]
      /\ Append(q, e)[Len(q) + 1] = e
  BY AppendItem
<1>2. /\ Len(q) \in Nat /\ DOMAIN q = 1..Len(q) /\ DOMAIN Append(q, e) = 1..(Len(q) + 1)
  BY <1>1
<1>3. IsFiniteSet(Messages(q)) /\ Cardinality(Messages(q)) \in Nat
  BY FiniteMessages
<1>4. CASE e = "msg"
  <2>1. Messages(Append(q, e)) = Messages(q) \cup {Len(q) + 1}
    BY <1>1, <1>2, <1>4 DEF Messages
  <2>2. Len(q) + 1 \notin Messages(q)
    BY <1>2 DEF Messages
  <2> QED BY <1>3, <1>4, <2>1, <2>2, FS_AddElement
<1>5. CASE e # "msg"
  <2>1. Messages(Append(q, e)) = Messages(q)
    BY <1>1, <1>2, <1>5 DEF Messages
  <2> QED BY <1>3, <1>5, <2>1
<1> QED BY <1>4, <1>5

LEMMA MessagesTail ==
  ASSUME NEW q \in Seq(Items), q # <<>>
  PROVE  Cardinality(Messages(Tail(q)))
           = Cardinality(Messages(q)) - (IF Head(q) = "msg" THEN 1 ELSE 0)
<1>1. /\ Tail(q) \in Seq(Items) /\ Len(Tail(q)) = Len(q) - 1 /\ Len(q) \in Nat \ {0}
      /\ \A i \in 1..(Len(q) - 1) : Tail(q)[i] = q[i + 1]
      /\ Head(q) = q[1]
  BY TailItems
<1>2. DOMAIN q = 1..Len(q) /\ DOMAIN Tail(q) = 1..(Len(q) - 1)
  BY <1>1
<1>3. IsFiniteSet(Messages(q)) /\ Cardinality(Messages(q)) \in Nat /\ IsFiniteSet(Messages(Tail(q)))
  BY <1>1, FiniteMessages
<1> DEFINE Rest == Messages(q) \ {1}
           Down == [i \in Rest |-> i - 1]
<1>4. Down \in Bijection(Rest, Messages(Tail(q)))
  <2>1. \A i \in Rest : i \in 2..Len(q) /\ q[i] = "msg"
    BY <1>1, <1>2 DEF Messages
  <2>2. \A i \in Rest : i - 1 \in 1..(Len(q) - 1) /\ Tail(q)[i - 1] = q[i]
    <3> TAKE i \in Rest
    <3>1. i \in 2..Len(q) BY <2>1
    <3>2. i - 1 \in 1..(Len(q) - 1) /\ (i - 1) + 1 = i BY <3>1, <1>1
    <3> QED BY <3>2, <1>1
  <2>3. Down \in [Rest -> Messages(Tail(q))]
    BY <1>2, <2>1, <2>2 DEF Messages
  <2>4. \A j \in Messages(Tail(q)) : j + 1 \in Rest /\ Down[j + 1] = j
    <3> TAKE j \in Messages(Tail(q))
    <3>1. j \in 1..(Len(q) - 1) /\ q[j + 1] = "msg"
      BY <1>1, <1>2 DEF Messages
    <3>2. j + 1 \in Rest
      BY <1>1, <1>2, <3>1 DEF Messages
    <3> QED BY <3>1, <3>2
  <2>5. \A a, b \in Rest : Down[a] = Down[b] => a = b
    BY <2>1, <1>1
  <2> HIDE DEF Down, Rest
  <2> QED BY <2>3, <2>4, <2>5, Fun_IsBij
<1>5. IsFiniteSet(Rest)
  BY <1>3, FS_RemoveElement
<1>6. Cardinality(Messages(Tail(q))) = Cardinality(Rest)
  BY <1>4, <1>5, FS_Bijection DEF ExistsBijection
<1>7. Cardinality(Rest) = IF 1 \in Messages(q) THEN Cardinality(Messages(q)) - 1
                                               ELSE Cardinality(Messages(q))
  BY <1>3, FS_RemoveElement
<1>8. 1 \in Messages(q) <=> Head(q) = "msg"
  BY <1>1, <1>2 DEF Messages
<1> QED BY <1>3, <1>6, <1>7, <1>8

\* The counts of workers and of messages, as natural numbers.
LEMMA CountOf ==
  ASSUME NEW r, NEW S
  PROVE  /\ Count(r, S) = Cardinality(InState(worker[r], S)) /\ Count(r, S) \in Nat
         /\ Count(r, S)' = Cardinality(InState(worker'[r], S)) /\ Count(r, S)' \in Nat
BY FiniteStates DEF Count, InState

LEMMA CountSteps ==
  ASSUME LifeInv, NEW r \in Receivers, NEW w \in Workers, NEW to \in WorkerStates,
         worker' = [worker EXCEPT ![r][w] = to]
  PROVE  /\ \A S : (to \in S /\ worker[r][w] \notin S) => Count(r, S)' = Count(r, S) + 1
         /\ \A S : (to \notin S /\ worker[r][w] \in S) => Count(r, S)' = Count(r, S) - 1
         /\ \A S : (to \in S <=> worker[r][w] \in S) => Count(r, S)' = Count(r, S)
         /\ \A q \in Receivers \ {r} : \A S : Count(q, S)' = Count(q, S)
<1>1. worker \in [Receivers -> [Workers -> WorkerStates]] /\ worker[r] \in [Workers -> WorkerStates]
  BY DEF LifeInv, MessagingTypes, WorkerStates
<1>2. worker'[r] = [worker[r] EXCEPT ![w] = to] /\ \A q \in Receivers \ {r} : worker'[q] = worker[q]
  BY <1>1
<1>3. PICK f : f = worker[r]
  OBVIOUS
<1>4. PICK g : g = worker'[r]
  OBVIOUS
<1>5. g[w] = to /\ \A x \in Workers \ {w} : g[x] = f[x]
  BY <1>1, <1>2, <1>3, <1>4
<1>6. \A S : /\ Count(r, S) = Cardinality(InState(f, S))
             /\ Count(r, S)' = Cardinality(InState(g, S))
  BY <1>3, <1>4, CountOf
<1>7. ASSUME NEW S
      PROVE  /\ (to \in S <=> f[w] \in S) => Cardinality(InState(g, S)) = Cardinality(InState(f, S))
             /\ (to \in S /\ f[w] \notin S) => Cardinality(InState(g, S)) = Cardinality(InState(f, S)) + 1
             /\ (to \notin S /\ f[w] \in S) => Cardinality(InState(g, S)) = Cardinality(InState(f, S)) - 1
  <2>1. IsFiniteSet(InState(f, S)) /\ Cardinality(InState(f, S)) \in Nat
    BY FiniteStates
  <2>2. (g[w] \in S <=> f[w] \in S) => InState(g, S) = InState(f, S)
    BY <1>5 DEF InState
  <2>3. (g[w] \in S /\ f[w] \notin S) => (InState(g, S) = InState(f, S) \cup {w} /\ w \notin InState(f, S))
    BY <1>5 DEF InState
  <2>4. (g[w] \notin S /\ f[w] \in S) => (InState(g, S) = InState(f, S) \ {w} /\ w \in InState(f, S))
    BY <1>5 DEF InState
  <2>5. /\ w \notin InState(f, S) => Cardinality(InState(f, S) \cup {w}) = Cardinality(InState(f, S)) + 1
        /\ w \in InState(f, S) => Cardinality(InState(f, S) \ {w}) = Cardinality(InState(f, S)) - 1
    BY <2>1, FS_AddElement, FS_RemoveElement
  <2> QED BY <1>5, <2>1, <2>2, <2>3, <2>4, <2>5
<1>8. ASSUME NEW q \in Receivers \ {r}, NEW S PROVE Count(q, S)' = Count(q, S)
  BY <1>2 DEF Count
<1> QED BY <1>3, <1>6, <1>7, <1>8

LEMMA CountGoto ==
  ASSUME LifeInv, NEW r \in Receivers, NEW w \in Workers,
         NEW from \in WorkerStates, NEW to \in WorkerStates, Goto(r, w, from, to)
  PROVE  /\ \A S : (to \in S /\ from \notin S) => Count(r, S)' = Count(r, S) + 1
         /\ \A S : (to \notin S /\ from \in S) => Count(r, S)' = Count(r, S) - 1
         /\ \A S : (to \in S <=> from \in S) => Count(r, S)' = Count(r, S)
         /\ \A q \in Receivers \ {r} : \A S : Count(q, S)' = Count(q, S)
<1>1. worker[r][w] = from /\ worker' = [worker EXCEPT ![r][w] = to]
  BY DEF Goto
<1>2. /\ \A S : (to \in S /\ worker[r][w] \notin S) => Count(r, S)' = Count(r, S) + 1
      /\ \A S : (to \notin S /\ worker[r][w] \in S) => Count(r, S)' = Count(r, S) - 1
      /\ \A S : (to \in S <=> worker[r][w] \in S) => Count(r, S)' = Count(r, S)
      /\ \A q \in Receivers \ {r} : \A S : Count(q, S)' = Count(q, S)
  BY <1>1, CountSteps, Zenon
<1> QED BY <1>1, <1>2

OutgoingFreed ==
  \A s \in Senders : up[s] =>
    outFree[s] + InHand(s) + inRing[s] + (IF s = "bulkSet" THEN unsent ELSE 0) >= OutMsgs

\* The messages in hand, pool by pool.
LEMMA InHands ==
  /\ InHand("bulkSetAck") = Count("bulkSet", {"sendAck"})
  /\ InHand("bulkSet") = Count("inPull", {"sendSet"}) + (IF pass["push"] = "send" THEN 1 ELSE 0)
  /\ InHand("outPull") = IF pass["outPull"] = "send" THEN 1 ELSE 0
BY DEF InHand

LEMMA InHandsPrime ==
  /\ InHand("bulkSetAck")' = Count("bulkSet", {"sendAck"})'
  /\ InHand("bulkSet")' = Count("inPull", {"sendSet"})' + (IF pass'["push"] = "send" THEN 1 ELSE 0)
  /\ InHand("outPull")' = IF pass'["outPull"] = "send" THEN 1 ELSE 0
BY DEF InHand

LEMMA OutNumbers ==
  ASSUME LifeInv
  PROVE  /\ outFree \in [Senders -> Nat] /\ inRing \in [Senders -> Nat]
         /\ unsent \in Nat /\ OutMsgs \in Nat
         /\ \A s \in Senders : InHand(s) \in Nat
<1>1. \A s \in Senders : InHand(s) \in Nat
  BY InHands, CountOf DEF Senders
<1> QED BY <1>1, BoundsAssumption DEF LifeInv, MessagingTypes

\* Most steps take, send and free no outgoing message.
LEMMA NoOutgoing ==
  ASSUME LifeInv, OutgoingFreed, UNCHANGED <<outVars, unsent>>,
         \A s \in Senders : up'[s] => up[s],
         Count("bulkSet", {"sendAck"})' = Count("bulkSet", {"sendAck"}),
         Count("inPull", {"sendSet"})' = Count("inPull", {"sendSet"}),
         \A l \in Launchers : pass'[l] = "send" <=> pass[l] = "send"
  PROVE  OutgoingFreed'
<1>1. \A s \in Senders : InHand(s)' = InHand(s)
  BY InHands, InHandsPrime DEF Senders, Launchers
<1> QED BY <1>1 DEF OutgoingFreed, outVars

\* A worker takes, sends or loses an outgoing message.
LEMMA WorkerOutgoing ==
  ASSUME LifeInv, OutgoingFreed, NEW w \in Workers, TakeStep(w) \/ SendStep(w) \/ AnswerIsEmpty(w)
  PROVE  OutgoingFreed'
<1>0. /\ "bulkSet" \in Receivers /\ "inPull" \in Receivers /\ "bulkSet" # "inPull"
      /\ {"bulkSet", "bulkSetAck"} \subseteq Senders
  BY DEF Receivers, Senders
<1>1. UNCHANGED <<up, pass>>
  BY DEF TakeStep, SendStep, AnswerIsEmpty, WorkerTakes, WorkerSends, lifeVars, passVars
<1> DEFINE acks == Count("bulkSet", {"sendAck"})
           sets == Count("inPull", {"sendSet"})
           pushed == IF pass["push"] = "send" THEN 1 ELSE 0
<1>2. /\ acks \in Nat /\ sets \in Nat /\ acks' \in Nat /\ sets' \in Nat
      /\ outFree \in [Senders -> Nat] /\ inRing \in [Senders -> Nat] /\ unsent \in Nat /\ OutMsgs \in Nat
  BY CountOf, OutNumbers
<1>3. /\ InHand("bulkSetAck") = acks /\ InHand("bulkSetAck")' = acks'
      /\ InHand("bulkSet") = sets + pushed /\ InHand("bulkSet")' = sets' + pushed
      /\ InHand("outPull")' = InHand("outPull")
  BY <1>1, InHands, InHandsPrime
<1>4. CASE WorkerTakes("bulkSet", w, "takeAck", "sendAck", "bulkSetAck")
  <2>1. acks' = acks + 1 /\ sets' = sets
    <3>1. Goto("bulkSet", w, "takeAck", "sendAck")
      BY <1>4 DEF WorkerTakes
    <3> QED BY <1>0, <3>1, CountGoto DEF WorkerStates
  <2>2. /\ outFree["bulkSetAck"] > 0 /\ outFree' = [outFree EXCEPT !["bulkSetAck"] = @ - 1]
        /\ UNCHANGED <<inRing, unsent>>
    BY <1>4 DEF WorkerTakes, TakeOut, countVars
  <2> HIDE DEF acks, sets, pushed
  <2> QED BY <1>0, <1>1, <1>2, <1>3, <2>1, <2>2 DEF OutgoingFreed, Senders
<1>5. CASE WorkerTakes("inPull", w, "takeSet", "sendSet", "bulkSet")
  <2>1. acks' = acks /\ sets' = sets + 1
    <3>1. Goto("inPull", w, "takeSet", "sendSet")
      BY <1>5 DEF WorkerTakes
    <3> QED BY <1>0, <3>1, CountGoto DEF WorkerStates
  <2>2. /\ outFree["bulkSet"] > 0 /\ outFree' = [outFree EXCEPT !["bulkSet"] = @ - 1]
        /\ UNCHANGED <<inRing, unsent>>
    BY <1>5 DEF WorkerTakes, TakeOut, countVars
  <2> HIDE DEF acks, sets
  <2> QED BY <1>0, <1>1, <1>2, <1>3, <2>1, <2>2 DEF OutgoingFreed, Senders
<1>6. CASE WorkerSends("bulkSet", w, "sendAck", "putBack", "bulkSetAck")
  <2>1. acks' = acks - 1 /\ sets' = sets
    <3>1. Goto("bulkSet", w, "sendAck", "putBack")
      BY <1>6 DEF WorkerSends
    <3> QED BY <1>0, <3>1, CountGoto DEF WorkerStates
  <2>2. /\ inRing' = [inRing EXCEPT !["bulkSetAck"] = @ + 1] /\ UNCHANGED <<outFree, unsent>>
    BY <1>6 DEF WorkerSends, ToRing, countVars
  <2> HIDE DEF acks, sets, pushed
  <2> QED BY <1>0, <1>1, <1>2, <1>3, <2>1, <2>2 DEF OutgoingFreed, Senders
<1>7. CASE WorkerSends("inPull", w, "sendSet", "wait", "bulkSet")
  <2>1. acks' = acks /\ sets' = sets - 1
    <3>1. Goto("inPull", w, "sendSet", "wait")
      BY <1>7 DEF WorkerSends
    <3> QED BY <1>0, <3>1, CountGoto DEF WorkerStates
  <2>2. /\ inRing' = [inRing EXCEPT !["bulkSet"] = @ + 1] /\ UNCHANGED <<outFree, unsent>>
    BY <1>7 DEF WorkerSends, ToRing, countVars
  <2> HIDE DEF acks, sets
  <2> QED BY <1>0, <1>1, <1>2, <1>3, <2>1, <2>2 DEF OutgoingFreed, Senders
<1>8. CASE AnswerIsEmpty(w)
  <2>1. acks' = acks /\ sets' = sets - 1
    <3>1. Goto("inPull", w, "sendSet", "wait")
      BY <1>8 DEF AnswerIsEmpty
    <3> QED BY <1>0, <3>1, CountGoto DEF WorkerStates
  <2>2. unsent' = unsent + 1 /\ UNCHANGED <<outFree, inRing>>
    BY <1>8 DEF AnswerIsEmpty, outVars
  <2> HIDE DEF acks, sets
  <2> QED BY <1>0, <1>1, <1>2, <1>3, <2>1, <2>2 DEF OutgoingFreed, Senders
<1> QED BY <1>4, <1>5, <1>6, <1>7, <1>8 DEF TakeStep, SendStep

\* A pass takes or sends one; the MsgRing frees one.
LEMMA PassOutgoing ==
  ASSUME LifeInv, OutgoingFreed, PassSend("push", "bulkSet") \/ PassSend("outPull", "outPull")
  PROVE  OutgoingFreed'
<1>1. /\ outFree \in [Senders -> Nat] /\ inRing \in [Senders -> Nat] /\ unsent \in Nat /\ OutMsgs \in Nat
      /\ \A s \in Senders : InHand(s) \in Nat
  BY OutNumbers
<1>2. UNCHANGED <<up, unsent, worker>>
  BY DEF PassSend, lifeVars, countVars, msgVars
<1>3. /\ Count("bulkSet", {"sendAck"})' = Count("bulkSet", {"sendAck"})
      /\ Count("inPull", {"sendSet"})' = Count("inPull", {"sendSet"})
      /\ Count("inPull", {"sendSet"}) \in Nat
  BY <1>2, CountOf DEF Count
<1>4. ASSUME NEW l \in {"push", "outPull"}, NEW s \in Senders,
             <<l, s>> \in {<<"push", "bulkSet">>, <<"outPull", "outPull">>}, PassSend(l, s)
      PROVE  OutgoingFreed'
  <2>0. pass \in [Launchers -> {"none", "partition", "take", "send", "done"}] /\ l \in Launchers
    BY PassTypes DEF Launchers
  <2>1. CASE /\ pass[l] = "take" /\ TakeOut(s) /\ UNCHANGED inRing
             /\ pass' = [pass EXCEPT ![l] = "send"]
    <3>1. InHand(s)' = InHand(s) + 1 /\ \A t \in Senders \ {s} : InHand(t)' = InHand(t)
      BY <1>3, <1>4, <2>0, <2>1, InHands, InHandsPrime DEF Senders
    <3>2. outFree'[s] = outFree[s] - 1 /\ \A t \in Senders \ {s} : outFree'[t] = outFree[t]
      BY <1>1, <2>1 DEF TakeOut
    <3>3. \A t \in Senders : outFree'[t] + InHand(t)' = outFree[t] + InHand(t)
      BY <1>1, <3>1, <3>2
    <3> QED BY <1>2, <2>1, <3>3 DEF OutgoingFreed
  <2>2. CASE /\ pass[l] = "send" /\ ToRing(s) /\ UNCHANGED outFree
             /\ pass' = [pass EXCEPT ![l] = "partition"]
    <3>1. InHand(s)' = InHand(s) - 1 /\ \A t \in Senders \ {s} : InHand(t)' = InHand(t)
      BY <1>3, <1>4, <2>0, <2>2, InHands, InHandsPrime DEF Senders
    <3>2. inRing'[s] = inRing[s] + 1 /\ \A t \in Senders \ {s} : inRing'[t] = inRing[t]
      BY <1>1, <2>2 DEF ToRing
    <3>3. \A t \in Senders : InHand(t)' + inRing'[t] = InHand(t) + inRing[t]
      BY <1>1, <3>1, <3>2
    <3>4. \A t \in Senders : InHand(t)' \in Int /\ inRing'[t] \in Int
      BY <1>1, <3>1, <3>2
    <3>5. \A t \in Senders : outFree'[t] + InHand(t)' + inRing'[t] = outFree[t] + InHand(t) + inRing[t]
      BY <1>1, <2>2, <3>3, <3>4
    <3> QED BY <1>2, <3>5 DEF OutgoingFreed
  <2> QED BY <1>4, <2>1, <2>2 DEF PassSend
<1> QED BY <1>4 DEF Senders

LEMMA FreeOutgoing ==
  ASSUME LifeInv, OutgoingFreed, NEW s \in Senders, Free(s)
  PROVE  OutgoingFreed'
<1>1. /\ outFree \in [Senders -> Nat] /\ inRing \in [Senders -> Nat] /\ unsent \in Nat /\ OutMsgs \in Nat
      /\ \A t \in Senders : InHand(t) \in Nat
  BY OutNumbers
<1>2. UNCHANGED <<up, unsent, worker, pass>>
  BY DEF Free, lifeVars, countVars, msgVars, passVars
<1>3. \A t \in Senders : InHand(t)' = InHand(t)
  BY <1>2, InHands, InHandsPrime DEF Senders, Count
<1>4. \A t \in Senders : outFree'[t] + InHand(t)' + inRing'[t] = outFree[t] + InHand(t) + inRing[t]
  BY <1>1, <1>3 DEF Free
<1> QED BY <1>2, <1>4 DEF OutgoingFreed

\* Startup fills the pools, and a pass of its caller's own its pool.
LEMMA RefilledOutgoing ==
  ASSUME LifeInv, OutgoingFreed, Startup \/ OutPullReplicationPass
  PROVE  OutgoingFreed'
<1>0. \A s \in Senders : InHand(s)' \in Nat
  BY InHandsPrime, CountOf DEF Senders
<1>1. outFree \in [Senders -> Nat] /\ inRing \in [Senders -> Nat] /\ unsent \in Nat /\ OutMsgs \in Nat
  BY OutNumbers
<1>2. CASE Startup
  BY <1>0, <1>1, <1>2 DEF Startup, OutgoingFreed
<1>3. CASE OutPullReplicationPass
  <2>1. UNCHANGED <<inRing, unsent, worker>>
    BY <1>3 DEF OutPullReplicationPass, msgVars, countVars
  <2>2. "outPull" \in Launchers /\ "outPull" \in Senders /\ "outPull" \in Receivers \cup Launchers
    BY DEF Launchers, Senders
  <2>3. /\ up \in [Receivers \cup Launchers -> BOOLEAN] /\ Senders \subseteq Receivers \cup Launchers
        /\ pass \in [Launchers -> {"none", "partition", "take", "send", "done"}]
    BY DEF LifeInv, MessagingTypes, Senders, Receivers, Launchers
  <2>4. \A s \in Senders \ {"outPull"} : up'[s] = up[s] /\ outFree'[s] = outFree[s]
    BY <1>1, <1>3, <2>3 DEF OutPullReplicationPass
  <2>5. /\ Count("bulkSet", {"sendAck"})' = Count("bulkSet", {"sendAck"})
        /\ Count("inPull", {"sendSet"})' = Count("inPull", {"sendSet"})
        /\ pass'["push"] = pass["push"]
    BY <1>3, <2>1, <2>2, <2>3 DEF Count, OutPullReplicationPass, BeginPass, passVars, Launchers
  <2>6. \A s \in Senders \ {"outPull"} : InHand(s)' = InHand(s)
    BY <2>5, InHands, InHandsPrime DEF Senders
  <2>7. up'["outPull"] => outFree'["outPull"] + InHand("outPull")' + inRing'["outPull"] >= OutMsgs
    <3>1. CASE UNCHANGED <<up, outFree, passVars>>
      <4>1. InHand("outPull")' = InHand("outPull")
        BY <3>1, InHands, InHandsPrime DEF passVars
      <4>2. up["outPull"] => outFree["outPull"] + InHand("outPull") + inRing["outPull"] + 0 >= OutMsgs
        BY <2>2 DEF OutgoingFreed
      <4>3. InHand("outPull") \in Nat
        BY <2>2, OutNumbers
      <4> QED BY <1>1, <2>1, <2>2, <3>1, <4>1, <4>2, <4>3
    <3>2. CASE outFree' = [outFree EXCEPT !["outPull"] = OutMsgs]
      BY <1>0, <1>1, <2>1, <2>2, <3>2
    <3>3. CASE up' = [up EXCEPT !["outPull"] = FALSE]
      BY <2>2, <2>3, <3>3
    <3> QED BY <1>3, <3>1, <3>2, <3>3 DEF OutPullReplicationPass
  <2>8. \A s \in Senders \ {"outPull"} : up'[s] =>
          outFree'[s] + InHand(s)' + inRing'[s] + (IF s = "bulkSet" THEN unsent' ELSE 0) >= OutMsgs
    BY <2>1, <2>4, <2>6 DEF OutgoingFreed
  <2>9. outFree'["outPull"] \in Int /\ inRing'["outPull"] \in Nat /\ InHand("outPull")' \in Nat
    BY <1>0, <1>1, <1>3, <2>1, <2>2 DEF OutPullReplicationPass
  <2> QED BY <2>7, <2>8, <2>9 DEF OutgoingFreed
<1> QED BY <1>2, <1>3

\* The steps that have nothing to do with outgoing messages.
LEMMA RestOutgoing ==
  ASSUME LifeInv, OutgoingFreed,
         \/ Shutdown \/ ShutdownReturns
         \/ \E p \in Receivers \cup Launchers : ShutdownPart(p)
         \/ \E r \in Receivers : NewInMsg(r) \/ ReadFails(r) \/ Queue(r) \/ WorkersLauncher(r)
         \/ \E r \in Receivers, w \in Workers : ReceiveStep(r, w) \/ PutBackStep(r, w)
         \/ \E l \in Launchers : \/ PassPartition(l) \/ Timer(l) \/ Notified(l)
                                 \/ Interrupted(l) \/ PassEnds(l)
  PROVE  OutgoingFreed'
<1> USE DEF msgVars, outVars, passVars, lifeVars, countVars
<1>0. /\ up \in [Receivers \cup Launchers -> BOOLEAN] /\ Senders \subseteq Receivers \cup Launchers
      /\ pass \in [Launchers -> {"none", "partition", "take", "send", "done"}]
  BY DEF LifeInv, MessagingTypes, Senders, Receivers, Launchers
<1>1. CASE \/ Shutdown \/ ShutdownReturns
           \/ \E r \in Receivers : NewInMsg(r) \/ ReadFails(r) \/ Queue(r) \/ WorkersLauncher(r)
  <2>1. UNCHANGED <<outVars, unsent, up, worker, pass>>
    BY <1>1 DEF Shutdown, ShutdownReturns, NewInMsg, ReadFails, Queue, WorkersLauncher
  <2> QED BY <2>1, NoOutgoing DEF Count
<1>2. ASSUME NEW p \in Receivers \cup Launchers, ShutdownPart(p) PROVE OutgoingFreed'
  <2>1. UNCHANGED <<outVars, unsent, worker, pass>>
    BY <1>2 DEF ShutdownPart
  <2>2. \A s \in Senders : up'[s] => up[s]
    BY <1>0, <1>2 DEF ShutdownPart
  <2> QED BY <2>1, <2>2, NoOutgoing DEF Count
<1>3. ASSUME NEW r \in Receivers, NEW w \in Workers, ReceiveStep(r, w) \/ PutBackStep(r, w)
      PROVE  OutgoingFreed'
  <2>0. "bulkSet" \in Receivers /\ "inPull" \in Receivers
    BY DEF Receivers
  <2>1. UNCHANGED <<outVars, unsent, up, pass>>
    BY <1>3 DEF ReceiveStep, PutBackStep, Receive, PutBack
  <2>2. PICK to \in WorkerStates \ {"sendAck", "sendSet"} : worker' = [worker EXCEPT ![r][w] = to]
    <3>1. ASSUME NEW first \in FirstSteps, Receive(r, w, first)
          PROVE  \E to \in WorkerStates \ {"sendAck", "sendSet"} : worker' = [worker EXCEPT ![r][w] = to]
      <4>1. (IF Head(inMsgChan[r]) = "nil" THEN "gone" ELSE first) \in WorkerStates \ {"sendAck", "sendSet"}
        BY DEF FirstSteps, WorkerStates
      <4> QED BY <3>1, <4>1 DEF Receive
    <3>2. CASE PutBackStep(r, w)
      BY <3>2 DEF PutBackStep, PutBack, Goto, WorkerStates
    <3> QED BY <1>3, <3>1, <3>2 DEF ReceiveStep
  <2>3. worker[r][w] \notin {"sendAck", "sendSet"}
    BY <1>3 DEF ReceiveStep, PutBackStep, Receive, PutBack, Goto
  <2>4. \A S : (to \in S <=> worker[r][w] \in S) => Count(r, S)' = Count(r, S)
    BY <2>2, CountSteps, Zenon
  <2>5. Count(r, {"sendAck"})' = Count(r, {"sendAck"}) /\ Count(r, {"sendSet"})' = Count(r, {"sendSet"})
    BY <2>2, <2>3, <2>4
  <2>6. \A q \in Receivers \ {r} : \A S : Count(q, S)' = Count(q, S)
    BY <2>2, CountSteps, Zenon
  <2>7. /\ Count("bulkSet", {"sendAck"})' = Count("bulkSet", {"sendAck"})
        /\ Count("inPull", {"sendSet"})' = Count("inPull", {"sendSet"})
    BY <2>0, <2>5, <2>6
  <2> QED BY <2>1, <2>7, NoOutgoing
<1>4. ASSUME NEW l \in Launchers,
             PassPartition(l) \/ Timer(l) \/ Notified(l) \/ Interrupted(l) \/ PassEnds(l)
      PROVE  OutgoingFreed'
  <2>1. UNCHANGED <<outVars, unsent, up, worker>>
    BY <1>4 DEF PassPartition, Timer, Notified, Interrupted, PassEnds, LauncherFrame
  <2>2. launcher[l] = "wait" => pass[l] = "none"
    BY DEF LifeInv, GoroutinesOK, OwnPassOK, OwnPassOf
  <2>3. \A k \in Launchers : pass'[k] = "send" <=> pass[k] = "send"
    <3>1. CASE PassPartition(l)
      BY <1>0, <3>1 DEF PassPartition
    <3>2. CASE Timer(l) \/ Notified(l)
      BY <1>0, <2>2, <3>2 DEF Timer, Notified, BeginPass
    <3>3. CASE Interrupted(l) \/ PassEnds(l)
      BY <1>0, <3>3 DEF Interrupted, PassEnds, BeginPass
    <3> QED BY <1>4, <3>1, <3>2, <3>3
  <2> QED BY <2>1, <2>3, NoOutgoing DEF Count
<1> QED BY <1>1, <1>2, <1>3, <1>4

LEMMA NextOutgoing == LifeInv /\ OutgoingFreed /\ [Next]_vars => OutgoingFreed'
<1> SUFFICES ASSUME LifeInv, OutgoingFreed, [Next]_vars PROVE OutgoingFreed' OBVIOUS
<1>1. CASE Next
  BY <1>1, Steps, RestOutgoing, RefilledOutgoing, WorkerOutgoing, PassOutgoing, FreeOutgoing
<1>2. CASE UNCHANGED vars
  BY <1>2, NoOutgoing DEF vars, Count, msgVars, outVars, passVars, lifeVars, countVars
<1> QED BY <1>1, <1>2

\* An incoming message is in its pool, being read, queued or in hand.
Held == {"takeAck", "sendAck", "putBack", "putBackAndSend"}
Read(r) == IF handler[r] = "reading" THEN 1 ELSE 0
Queued(r) == Cardinality(Messages(inMsgChan[r]))

LEMMA IncomingAre ==
  InMsgsAreFreed <=> \A r \in Receivers : up[r] => inFree[r] + Read(r) + Queued(r) + Count(r, Held) >= InMsgs
BY DEF InMsgsAreFreed, Read, Queued, Messages, Held

LEMMA IncomingArePrime ==
  InMsgsAreFreed' <=> \A r \in Receivers : up'[r] =>
                         inFree'[r] + Read(r)' + Queued(r)' + Count(r, Held)' >= InMsgs
BY DEF InMsgsAreFreed, Read, Queued, Messages, Held, Count

LEMMA InNumbers ==
  ASSUME LifeInv
  PROVE  /\ InMsgs \in Nat /\ inFree \in [Receivers -> Nat]
         /\ handler \in [Receivers -> {"idle", "reading", "stuck"}]
         /\ inMsgChan \in [Receivers -> Seq(Items)]
         /\ \A r \in Receivers : Read(r) \in Nat /\ Queued(r) \in Nat /\ Count(r, Held) \in Nat
<1>1. inMsgChan \in [Receivers -> Seq(Items)]
  BY DEF LifeInv, MessagingTypes, Items
<1>2. \A r \in Receivers : Queued(r) \in Nat
  BY <1>1, FiniteMessages DEF Queued
<1>3. \A r \in Receivers : Read(r) \in Nat /\ Count(r, Held) \in Nat
  BY CountOf DEF Read
<1>4. handler \in [Receivers -> {"idle", "reading", "stuck"}]
  BY DEF LifeInv, MessagingTypes
<1>5. InMsgs \in Nat /\ inFree \in [Receivers -> Nat]
  BY BoundsAssumption DEF LifeInv, MessagingTypes
<1> QED BY <1>1, <1>2, <1>3, <1>4, <1>5

\* A step at one part keeps the messages of the others; what it has to keep is
\* the sum at its own part.
LEMMA OneReceiver ==
  ASSUME LifeInv, InMsgsAreFreed, NEW r \in Receivers, UNCHANGED up,
         \A q \in Receivers \ {r} :
           /\ inFree'[q] = inFree[q] /\ handler'[q] = handler[q]
           /\ inMsgChan'[q] = inMsgChan[q] /\ Count(q, Held)' = Count(q, Held),
         up[r] => inFree'[r] + Read(r)' + Queued(r)' + Count(r, Held)'
                    >= inFree[r] + Read(r) + Queued(r) + Count(r, Held),
         inFree'[r] \in Int, Queued(r)' \in Int
  PROVE  InMsgsAreFreed'
<1>1. \A q \in Receivers \ {r} : Read(q)' = Read(q) /\ Queued(q)' = Queued(q)
  BY DEF Read, Queued
<1>2. \A q \in Receivers \ {r} : up'[q] =>
        inFree'[q] + Read(q)' + Queued(q)' + Count(q, Held)' >= InMsgs
  BY <1>1, IncomingAre
<1>3. up[r] => inFree[r] + Read(r) + Queued(r) + Count(r, Held) >= InMsgs
  BY IncomingAre
<1>4. Read(r)' \in Int /\ Count(r, Held)' \in Int
  BY CountOf DEF Read
<1>5. up'[r] => inFree'[r] + Read(r)' + Queued(r)' + Count(r, Held)' >= InMsgs
  <2> DEFINE new == inFree'[r] + Read(r)' + Queued(r)' + Count(r, Held)'
             old == inFree[r] + Read(r) + Queued(r) + Count(r, Held)
  <2>0. /\ inFree[r] \in Nat /\ Read(r) \in Nat /\ Queued(r) \in Nat /\ Count(r, Held) \in Nat
        /\ InMsgs \in Nat
    BY InNumbers
  <2>1. new \in Int /\ old \in Int /\ InMsgs \in Int
    BY <1>4, <2>0
  <2>2. up[r] => new >= old /\ old >= InMsgs
    BY <1>3
  <2> HIDE DEF new, old
  <2>3. up'[r] => new >= InMsgs
    BY <2>1, <2>2
  <2> QED BY <2>3 DEF new
<1> QED BY <1>2, <1>5, IncomingArePrime

LEMMA HandlerIncoming ==
  ASSUME LifeInv, InMsgsAreFreed, NEW r \in Receivers, NewInMsg(r) \/ ReadFails(r) \/ Queue(r)
  PROVE  InMsgsAreFreed'
<1>0. UNCHANGED <<up, worker>>
  BY DEF NewInMsg, ReadFails, Queue, lifeVars
<1>1. \A q \in Receivers : Count(q, Held)' = Count(q, Held)
  BY <1>0 DEF Count
<1>2. \A q \in Receivers \ {r} : /\ inFree'[q] = inFree[q] /\ handler'[q] = handler[q]
                                 /\ inMsgChan'[q] = inMsgChan[q]
  BY InNumbers DEF NewInMsg, ReadFails, Queue
<1>3. CASE ~up[r]
  <2>1. UNCHANGED <<inFree, inMsgChan>>
    BY <1>3 DEF NewInMsg, ReadFails, Queue
  <2>2. inFree'[r] \in Int /\ Queued(r)' \in Int
    BY <2>1, InNumbers DEF Queued
  <2> QED BY <1>0, <1>1, <1>2, <1>3, <2>2, OneReceiver
<1>4. CASE up[r]
  <2>1. CASE NewInMsg(r) \/ ReadFails(r)
    <3>1. Queued(r)' = Queued(r)
      BY <2>1 DEF NewInMsg, ReadFails, Queued
    <3>2. inFree'[r] \in Int /\ inFree'[r] + Read(r)' >= inFree[r] + Read(r)
      BY <1>4, <2>1, InNumbers DEF NewInMsg, ReadFails, Read
    <3>3. Read(r)' \in Int
      BY DEF Read
    <3>4. inFree'[r] + Read(r)' + Queued(r)' + Count(r, Held)'
             >= inFree[r] + Read(r) + Queued(r) + Count(r, Held)
      BY <1>1, <3>1, <3>2, <3>3, InNumbers
    <3>5. Queued(r)' \in Int /\ inFree'[r] \in Int
      BY <3>1, <3>2, InNumbers
    <3>6. \A q \in Receivers \ {r} :
            /\ inFree'[q] = inFree[q] /\ handler'[q] = handler[q]
            /\ inMsgChan'[q] = inMsgChan[q] /\ Count(q, Held)' = Count(q, Held)
      BY <1>1, <1>2
    <3> QED BY <1>0, <3>4, <3>5, <3>6, OneReceiver, SMTT(30)
  <2>2. CASE Queue(r)
    <3>1. inMsgChan'[r] = Append(inMsgChan[r], "msg") /\ inMsgChan[r] \in Seq(Items) /\ "msg" \in Items
      BY <1>4, <2>2, InNumbers DEF Queue, Items
    <3>2. Queued(r)' = Queued(r) + 1
      BY <3>1, MessagesAppend DEF Queued
    <3>3. inFree'[r] = inFree[r] /\ Read(r) = 1 /\ Read(r)' = 0
      BY <1>4, <2>2, InNumbers DEF Queue, Read
    <3>4. inFree'[r] + Read(r)' + Queued(r)' + Count(r, Held)'
             >= inFree[r] + Read(r) + Queued(r) + Count(r, Held)
      BY <1>1, <3>2, <3>3, InNumbers
    <3>5. inFree'[r] \in Int /\ Queued(r)' \in Int
      BY <3>2, <3>3, InNumbers
    <3> QED BY <1>0, <1>1, <1>2, <3>4, <3>5, OneReceiver
  <2> QED BY <2>1, <2>2
<1> QED BY <1>3, <1>4

LEMMA WorkerIncoming ==
  ASSUME LifeInv, InMsgsAreFreed, NEW r \in Receivers, NEW w \in Workers,
         ReceiveStep(r, w) \/ PutBackStep(r, w)
  PROVE  InMsgsAreFreed'
<1>0. UNCHANGED <<up, handler>>
  BY DEF ReceiveStep, PutBackStep, Receive, PutBack, lifeVars
<1>1. Read(r)' = Read(r)
  BY <1>0 DEF Read
<1>2. ASSUME NEW first \in FirstSteps, Receive(r, w, first) PROVE InMsgsAreFreed'
  <2>0. inMsgChan[r] \in Seq(Items) /\ inMsgChan[r] # <<>> /\ Head(inMsgChan[r]) \in Items
        /\ inMsgChan'[r] = Tail(inMsgChan[r]) /\ inFree' = inFree
        /\ \A q \in Receivers \ {r} : inMsgChan'[q] = inMsgChan[q]
    BY <1>2, InNumbers, TailItems DEF Receive
  <2>1. Queued(r)' = Queued(r) - (IF Head(inMsgChan[r]) = "msg" THEN 1 ELSE 0)
    BY <2>0, MessagesTail DEF Queued
  <2>2. PICK to \in WorkerStates : /\ Goto(r, w, "wait", to)
                                   /\ to \in Held <=> Head(inMsgChan[r]) = "msg"
    <3>1. CASE Head(inMsgChan[r]) = "nil"
      BY <1>2, <3>1 DEF Receive, Goto, WorkerStates, Held
    <3>2. CASE Head(inMsgChan[r]) = "msg"
      BY <1>2, <3>2 DEF Receive, Goto, WorkerStates, Held, FirstSteps
    <3> QED BY <2>0, <3>1, <3>2 DEF Items
  <2>3. "wait" \in WorkerStates /\ "wait" \notin Held
    BY DEF WorkerStates, Held
  <2>4. /\ \A S : (to \in S /\ "wait" \notin S) => Count(r, S)' = Count(r, S) + 1
        /\ \A S : (to \in S <=> "wait" \in S) => Count(r, S)' = Count(r, S)
        /\ \A q \in Receivers \ {r} : \A S : Count(q, S)' = Count(q, S)
    BY <2>2, <2>3, CountGoto, ZenonT(90)
  <2>5. /\ to \in Held => Count(r, Held)' = Count(r, Held) + 1
        /\ to \notin Held => Count(r, Held)' = Count(r, Held)
        /\ \A q \in Receivers \ {r} : Count(q, Held)' = Count(q, Held)
    BY <2>3, <2>4
  <2>6. Queued(r)' + Count(r, Held)' = Queued(r) + Count(r, Held) /\ Queued(r)' \in Int
        /\ Count(r, Held)' \in Int
    <3>1. Queued(r) \in Nat /\ Count(r, Held) \in Nat
      BY InNumbers
    <3>2. CASE to \in Held
      BY <2>1, <2>2, <2>5, <3>1, <3>2
    <3>3. CASE to \notin Held
      BY <2>1, <2>2, <2>5, <3>1, <3>3
    <3> QED BY <3>2, <3>3
  <2>7. inFree'[r] + Read(r)' + Queued(r)' + Count(r, Held)'
          >= inFree[r] + Read(r) + Queued(r) + Count(r, Held)
    BY <1>1, <2>0, <2>6, InNumbers
  <2> QED BY <1>0, <2>0, <2>5, <2>6, <2>7, InNumbers, OneReceiver
<1>3. ASSUME NEW from \in WorkerStates, NEW to \in WorkerStates, from \in Held, to \notin Held,
             PutBack(r, w, from, to)
      PROVE  InMsgsAreFreed'
  <2>1. Goto(r, w, from, to) /\ inFree' = [inFree EXCEPT ![r] = @ + 1] /\ UNCHANGED inMsgChan
    BY <1>3 DEF PutBack
  <2>2. /\ \A S : (to \notin S /\ from \in S) => Count(r, S)' = Count(r, S) - 1
        /\ \A q \in Receivers \ {r} : \A S : Count(q, S)' = Count(q, S)
    BY <2>1, CountGoto, Zenon
  <2>3. Count(r, Held)' = Count(r, Held) - 1
    BY <1>3, <2>2
  <2>4. Queued(r)' = Queued(r) /\ inFree'[r] = inFree[r] + 1
        /\ \A q \in Receivers \ {r} : inFree'[q] = inFree[q]
    BY <2>1, InNumbers DEF Queued
  <2>5. inFree'[r] + Read(r)' + Queued(r)' + Count(r, Held)'
          >= inFree[r] + Read(r) + Queued(r) + Count(r, Held)
    <3>1. /\ inFree[r] \in Nat /\ Read(r) \in Nat /\ Queued(r) \in Nat /\ Count(r, Held) \in Nat
      BY InNumbers
    <3> QED BY <1>1, <2>3, <2>4, <3>1
  <2>6. inFree'[r] \in Int /\ Queued(r)' \in Int
    BY <2>4, InNumbers
  <2> QED BY <1>0, <2>1, <2>2, <2>4, <2>5, <2>6, OneReceiver
<1> QED BY <1>2, <1>3 DEF ReceiveStep, PutBackStep, WorkerStates, Held

LEMMA WorkerSendsIncoming ==
  ASSUME LifeInv, InMsgsAreFreed, NEW w \in Workers, TakeStep(w) \/ SendStep(w) \/ AnswerIsEmpty(w)
  PROVE  InMsgsAreFreed'
<1>1. UNCHANGED <<inFree, inMsgChan, handler, up>>
  BY DEF TakeStep, SendStep, AnswerIsEmpty, WorkerTakes, WorkerSends, lifeVars
<1>2. PICK r \in Receivers, from \in WorkerStates, to \in WorkerStates :
        Goto(r, w, from, to) /\ (from \in Held <=> to \in Held)
  BY DEF TakeStep, SendStep, AnswerIsEmpty, WorkerTakes, WorkerSends, WorkerStates, Held, Receivers
<1>3. /\ \A S : (to \in S <=> from \in S) => Count(r, S)' = Count(r, S)
      /\ \A q \in Receivers \ {r} : \A S : Count(q, S)' = Count(q, S)
  BY <1>2, CountGoto, ZenonT(90)
<1>4. \A q \in Receivers : Count(q, Held)' = Count(q, Held)
  BY <1>2, <1>3
<1>5. \A q \in Receivers : Read(q)' = Read(q) /\ Queued(q)' = Queued(q)
  BY <1>1 DEF Read, Queued
<1> QED BY <1>1, <1>4, <1>5, IncomingAre, IncomingArePrime

LEMMA NilsIncoming ==
  ASSUME LifeInv, InMsgsAreFreed, NEW r \in Receivers, WorkersLauncher(r)
  PROVE  InMsgsAreFreed'
<1>1. UNCHANGED <<inFree, handler, worker, up>>
  BY DEF WorkersLauncher
<1>2. \A q \in Receivers : Read(q)' = Read(q) /\ Count(q, Held)' = Count(q, Held)
  BY <1>1 DEF Read, Count
<1>3. \A q \in Receivers : Queued(q)' = Queued(q)
  <2>1. CASE UNCHANGED inMsgChan
    BY <2>1 DEF Queued
  <2>2. CASE inMsgChan' = [inMsgChan EXCEPT ![r] = Append(@, "nil")]
    <3>1. inMsgChan'[r] = Append(inMsgChan[r], "nil") /\ inMsgChan[r] \in Seq(Items) /\ "nil" \in Items
          /\ \A q \in Receivers \ {r} : inMsgChan'[q] = inMsgChan[q]
      BY <2>2, InNumbers DEF Items
    <3>2. Cardinality(Messages(Append(inMsgChan[r], "nil"))) = Cardinality(Messages(inMsgChan[r])) + 0
      BY <3>1, MessagesAppend
    <3>3. Queued(r)' = Queued(r)
      BY <3>1, <3>2, InNumbers DEF Queued
    <3>4. \A q \in Receivers \ {r} : Queued(q)' = Queued(q)
      BY <3>1 DEF Queued
    <3> QED BY <3>3, <3>4
  <2> QED BY <2>1, <2>2 DEF WorkersLauncher
<1> QED BY <1>1, <1>2, <1>3, IncomingAre, IncomingArePrime

\* The other steps, Startup included.
LEMMA RestIncoming ==
  ASSUME LifeInv, InMsgsAreFreed,
         \/ Startup \/ Shutdown \/ ShutdownReturns
         \/ \E p \in Receivers \cup Launchers : ShutdownPart(p)
         \/ \E s \in Senders : Free(s)
         \/ \E l \in Launchers : \/ PassPartition(l) \/ Timer(l) \/ Notified(l)
                                 \/ Interrupted(l) \/ PassEnds(l)
         \/ PassSend("push", "bulkSet") \/ PassSend("outPull", "outPull")
         \/ OutPullReplicationPass
         \/ UNCHANGED vars
  PROVE  InMsgsAreFreed'
<1>1. CASE Startup
  <2>1. \A r \in Receivers : inFree'[r] = InMsgs /\ inMsgChan'[r] = <<>>
    BY <1>1 DEF Startup
  <2>2. \A r \in Receivers : Queued(r)' = 0
    <3>1. Messages(<<>>) = {}
      BY DEF Messages
    <3>2. Cardinality(Messages(<<>>)) = 0
      BY <3>1, FS_EmptySet
    <3> QED BY <2>1, <3>2 DEF Queued
  <2>3. \A r \in Receivers : Read(r)' \in Nat /\ Count(r, Held)' \in Nat
    BY CountOf DEF Read
  <2> QED BY <2>1, <2>2, <2>3, InNumbers, IncomingArePrime
<1>2. CASE ~Startup
  <2>1. UNCHANGED msgVars
    BY <1>2 DEF Shutdown, ShutdownReturns, ShutdownPart, Free, PassPartition, Timer, Notified,
       Interrupted, PassEnds, LauncherFrame, PassSend, OutPullReplicationPass, vars
  <2>2. \A r \in Receivers : up'[r] => up[r]
    <3>1. up \in [Receivers \cup Launchers -> BOOLEAN] /\ "outPull" \notin Receivers
      BY DEF LifeInv, MessagingTypes, Receivers
    <3>2. CASE OutPullReplicationPass \/ \E p \in Receivers \cup Launchers : ShutdownPart(p)
      BY <3>1, <3>2 DEF OutPullReplicationPass, ShutdownPart
    <3>3. CASE ~(OutPullReplicationPass \/ \E p \in Receivers \cup Launchers : ShutdownPart(p))
      BY <1>2, <3>3 DEF Shutdown, ShutdownReturns, Free, PassPartition, Timer, Notified,
         Interrupted, PassEnds, LauncherFrame, PassSend, vars, lifeVars
    <3> QED BY <3>2, <3>3
  <2>3. \A r \in Receivers : /\ inFree'[r] = inFree[r] /\ Read(r)' = Read(r) /\ Queued(r)' = Queued(r)
                             /\ Count(r, Held)' = Count(r, Held)
    BY <2>1 DEF msgVars, Read, Queued, Count
  <2> QED BY <2>2, <2>3, IncomingAre, IncomingArePrime
<1> QED BY <1>1, <1>2

LEMMA NextIncoming == LifeInv /\ InMsgsAreFreed /\ [Next]_vars => InMsgsAreFreed'
<1> SUFFICES ASSUME LifeInv, InMsgsAreFreed, [Next]_vars PROVE InMsgsAreFreed' OBVIOUS
<1>1. CASE Next
  BY <1>1, Steps, RestIncoming, HandlerIncoming, WorkerIncoming, WorkerSendsIncoming, NilsIncoming
<1>2. CASE UNCHANGED vars
  BY <1>2, RestIncoming
<1> QED BY <1>1, <1>2

\* The invariant of the whole: goroutines, channels and messages.
LEMMA MessagingInvAlways == Spec => []MessagingInv
<1>1. Init => OutgoingFreed /\ InMsgsAreFreed
  BY DEF Init, OutgoingFreed, InMsgsAreFreed, Senders, Receivers, Launchers
<1>2. MessagingInv <=> LifeInv /\ OutgoingFreed /\ InMsgsAreFreed
  BY DEF MessagingInv, LifeInv, MsgsAreFreed, OutgoingFreed
<1> QED BY <1>1, <1>2, InitLife, NextLife, NextOutgoing, NextIncoming, PTL DEF Spec

\* Of all the places where a pooled message could get lost, only an answer to a
\* pull replication message that turns out empty loses one.  Every other message
\* that is taken from a pool is in the hands of one goroutine, queued, or with
\* the MsgRing, and goes back: the pools do not run dry, across passes, failed
\* reads, and Shutdown and Startup at any moment.
THEOREM PooledMessagesReturn == Spec => []MsgsAreFreed
<1>1. MessagingInv => MsgsAreFreed
  BY DEF MessagingInv
<1> QED BY <1>1, MessagingInvAlways, PTL
=============================================================================
