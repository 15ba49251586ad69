----------------------------- MODULE Messaging ------------------------------
(***************************************************************************)
(* The goroutines of one store that receive and send replication messages: *)
(* pools of messages, channels, workers, launchers, and how Startup and    *)
(* Shutdown of the store start and stop all of them concurrently.          *)
(*                                                                         *)
(* bulkSet, bulkSetAck and inPull are served by workers; push, outPull and *)
(* tombstone are launchers that make passes.  Channels are fields that     *)
(* Shutdown sets to nil: who sends to or receives from a nil channel waits *)
(* for good, which is "stuck" here.  What the messages say is in module    *)
(* Replication; here a message is one of a pool.                           *)
(***************************************************************************)
EXTENDS Integers, Sequences, FiniteSets

CONSTANTS PartSets,      \* the sets of parts to look at, one per behaviour
          InWorkers,     \* workers of a part that receives
          InMsgs,        \* pooled incoming messages of a part
          OutMsgs,       \* pooled outgoing messages of a part
          Partitions,    \* partitions a pass looks at
          BusySets,      \* those where Shutdown may overlap messages and passes
          MaxUnsent,     \* bound of answers to a pull that turn out empty
          MaxArrivals,   \* bound of messages that come in
          MaxPasses,     \* bound of passes, of the timer and of callers
          MaxStarts      \* bound of Startups

Receivers == {"bulkSet", "bulkSetAck", "inPull"}
Launchers == {"push", "outPull", "tombstone"}
Senders   == {"bulkSet", "bulkSetAck", "outPull"}   \* parts with an outgoing pool
Workers   == 1..InWorkers

ASSUME BoundsAssumption ==
  /\ {InWorkers, InMsgs, OutMsgs, Partitions} \subseteq Nat \ {0}
  /\ {MaxUnsent, MaxArrivals, MaxPasses, MaxStarts} \subseteq Nat
  /\ \A ps \in PartSets \cup BusySets : ps \subseteq Receivers \cup Launchers

VARIABLES parts,      \* the parts of this behaviour
          running,    \* the store: "down", "up", "stopping"
          up,         \* part -> are its channels made (notifyChan # nil)?
          inFree,     \* receiver -> messages in inFreeMsgChan
          inMsgChan,  \* receiver -> sequence of "msg" and "nil"
          handler,    \* receiver -> the MsgRing goroutine that reads a message
          worker,     \* receiver -> worker -> where it is
          outFree,    \* sender -> messages in outFreeMsgChan (outMsgChan)
          inRing,     \* sender -> messages that the MsgRing is to Free
          launcher,   \* part -> where its launcher is
          nilsLeft,   \* receiver -> nils its launcher has to send
          notify,     \* part -> sequence of at most one notification
          pass,       \* launcher -> where the pass's worker is
          partition,  \* launcher -> partitions left
          abort,      \* launcher -> the pass's abort flag
          stopping,   \* part -> where its Shutdown is
          caller,     \* OutPullReplicationPass: where its caller is
          unsent,     \* bulkSet messages of the pool taken for an answer that was empty
          arrivals, passes, starts

msgVars  == <<inFree, inMsgChan, handler, worker>>
outVars  == <<outFree, inRing>>
passVars == <<pass, partition, abort, passes>>
lifeVars == <<parts, running, up, launcher, nilsLeft, notify, stopping, caller, starts>>
countVars == <<arrivals, unsent>>
vars     == <<msgVars, outVars, passVars, lifeVars, countVars>>

(***************************************************************************)
(* Outgoing messages                                                       *)
(***************************************************************************)
\* newOutBulkSetMsg, newOutBulkSetAckMsg, newOutPullReplicationMsg: wait for a
\* message of the pool; there is none to wait for once Shutdown has dropped it.
TakeOut(s) == up[s] /\ outFree[s] > 0 /\ outFree' = [outFree EXCEPT ![s] = @ - 1]

\* MsgToNode, MsgToOtherReplicas: the MsgRing has the message until it Frees it.
ToRing(s) == inRing' = [inRing EXCEPT ![s] = @ + 1]

\* Free: the message goes back to the pool that the field names by then; with
\* the field nil, the MsgRing's goroutine waits for good.
Free(s) ==
  /\ inRing[s] > 0
  /\ up[s] /\ outFree[s] < OutMsgs
  /\ inRing' = [inRing EXCEPT ![s] = @ - 1]
  /\ outFree' = [outFree EXCEPT ![s] = @ + 1]
  /\ UNCHANGED <<msgVars, passVars, lifeVars, countVars>>

(***************************************************************************)
(* Incoming messages                                                       *)
(***************************************************************************)
Busy == parts \in BusySets

\* May the MsgRing deliver?
Delivers == running = "up" \/ Busy

\* newIn...Msg: with no free message (or no channels) the message is read and
\* thrown away; otherwise it is read into a free one.
NewInMsg(r) ==
  /\ r \in parts /\ Delivers
  /\ handler[r] = "idle" /\ arrivals < MaxArrivals
  /\ arrivals' = arrivals + 1
  /\ IF up[r] /\ inFree[r] > 0
     THEN /\ inFree' = [inFree EXCEPT ![r] = @ - 1]
          /\ handler' = [handler EXCEPT ![r] = "reading"]
     ELSE UNCHANGED <<inFree, handler>>
  /\ UNCHANGED <<inMsgChan, worker, outVars, passVars, lifeVars, unsent>>

\* Faulty variant: the message of a failed read is not put back.
ReadFailsAndKeeps(r) ==
  /\ handler[r] = "reading"
  /\ handler' = [handler EXCEPT ![r] = "idle"]
  /\ UNCHANGED <<inFree, inMsgChan, worker, outVars, passVars, lifeVars, countVars>>

\* It is too short or the read fails: back to the pool.
ReadFails(r) ==
  /\ handler[r] = "reading"
  /\ IF up[r]
     THEN /\ inFree[r] < InMsgs
          /\ inFree' = [inFree EXCEPT ![r] = @ + 1]
          /\ handler' = [handler EXCEPT ![r] = "idle"]
     ELSE handler' = [handler EXCEPT ![r] = "stuck"] /\ UNCHANGED inFree
  /\ UNCHANGED <<inMsgChan, worker, outVars, passVars, lifeVars, countVars>>

\* It is handed to the workers.
Queue(r) ==
  /\ handler[r] = "reading"
  /\ IF up[r]
     THEN /\ Len(inMsgChan[r]) < InMsgs
          /\ inMsgChan' = [inMsgChan EXCEPT ![r] = Append(@, "msg")]
          /\ handler' = [handler EXCEPT ![r] = "idle"]
     ELSE handler' = [handler EXCEPT ![r] = "stuck"] /\ UNCHANGED inMsgChan
  /\ UNCHANGED <<inFree, worker, outVars, passVars, lifeVars, countVars>>

NewInBulkSetMsg         == NewInMsg("bulkSet") \/ ReadFails("bulkSet") \/ Queue("bulkSet")
NewInBulkSetAckMsg      == NewInMsg("bulkSetAck") \/ ReadFails("bulkSetAck") \/ Queue("bulkSetAck")
NewInPullReplicationMsg == NewInMsg("inPull") \/ ReadFails("inPull") \/ Queue("inPull")

\* A worker receives: a nil ends it, a message takes it to its first step.
Receive(r, w, first) ==
  /\ worker[r][w] = "wait" /\ inMsgChan[r] # <<>>
  /\ inMsgChan' = [inMsgChan EXCEPT ![r] = Tail(@)]
  /\ worker' = [worker EXCEPT ![r][w] = IF Head(inMsgChan[r]) = "nil" THEN "gone" ELSE first]
  /\ UNCHANGED <<inFree, handler, outVars, passVars, lifeVars, countVars>>

Goto(r, w, from, to) == worker[r][w] = from /\ worker' = [worker EXCEPT ![r][w] = to]

\* The message goes back to its pool.
PutBack(r, w, from, to) ==
  /\ Goto(r, w, from, to)
  /\ up[r] /\ inFree[r] < InMsgs
  /\ inFree' = [inFree EXCEPT ![r] = @ + 1]
  /\ UNCHANGED <<inMsgChan, handler, outVars, passVars, lifeVars, countVars>>

\* A worker takes an outgoing message, or hands one to the MsgRing.
WorkerTakes(r, w, from, to, s) ==
  /\ Goto(r, w, from, to) /\ TakeOut(s)
  /\ UNCHANGED <<inFree, inMsgChan, handler, inRing, passVars, lifeVars, countVars>>
WorkerSends(r, w, from, to, s) ==
  /\ Goto(r, w, from, to) /\ ToRing(s)
  /\ UNCHANGED <<inFree, inMsgChan, handler, outFree, passVars, lifeVars, countVars>>
\* inBulkSet: with someone to acknowledge to, an acknowledgement is taken, then
\* the entries are written and it is sent.
InBulkSet(w) ==
  \/ \E first \in {"takeAck", "putBack"} : Receive("bulkSet", w, first)
  \/ WorkerTakes("bulkSet", w, "takeAck", "sendAck", "bulkSetAck")
  \/ WorkerSends("bulkSet", w, "sendAck", "putBack", "bulkSetAck")
  \/ PutBack("bulkSet", w, "putBack", "wait")

InBulkSetAck(w) ==
  \/ Receive("bulkSetAck", w, "putBack")
  \/ PutBack("bulkSetAck", w, "putBack", "wait")

\* All keys are gone since the scan, or have become local removals.
AnswerIsEmpty(w) ==
  /\ unsent < MaxUnsent
  /\ Goto("inPull", w, "sendSet", "wait")
  /\ unsent' = unsent + 1
  /\ UNCHANGED <<inFree, inMsgChan, handler, outVars, passVars, lifeVars, arrivals>>

\* inPullReplication: the request is put back once its keys are gathered.  If
\* there are any, a bulk-set message is taken and filled; one that stays empty
\* is neither sent nor freed.
InPullReplication(w) ==
  \/ \E first \in {"putBack", "putBackAndSend"} : Receive("inPull", w, first)
  \/ PutBack("inPull", w, "putBack", "wait")
  \/ PutBack("inPull", w, "putBackAndSend", "takeSet")
  \/ WorkerTakes("inPull", w, "takeSet", "sendSet", "bulkSet")
  \/ WorkerSends("inPull", w, "sendSet", "wait", "bulkSet")
  \/ AnswerIsEmpty(w)

(***************************************************************************)
(* Passes                                                                  *)
(***************************************************************************)
\* The launcher begins a pass, on its timer or because a caller wants one.
BeginPass(l) ==
  /\ pass' = [pass EXCEPT ![l] = "partition"]
  /\ partition' = [partition EXCEPT ![l] = Partitions]
  /\ abort' = [abort EXCEPT ![l] = FALSE]
  /\ passes' = passes + 1

\* Faulty variant: the end of the partitions is not noticed.
OnlyAborted(l) == abort[l]

PassIsOver(l) == abort[l] \/ partition[l] = 0

\* A worker of the pass: partition by partition until all are done or abort is
\* set.  push and outPull may have something to send for a partition, with a
\* message of the pool s.
PassPartition(l) ==
  /\ pass[l] = "partition"
  /\ IF PassIsOver(l)
     THEN pass' = [pass EXCEPT ![l] = "done"] /\ UNCHANGED partition
     ELSE /\ partition' = [partition EXCEPT ![l] = @ - 1]
          /\ \E next \in {"partition"} \cup (IF l = "tombstone" THEN {} ELSE {"take"}) :
               pass' = [pass EXCEPT ![l] = next]
  /\ UNCHANGED <<abort, passes, msgVars, outVars, lifeVars, countVars>>

PassSend(l, s) ==
  /\ \/ /\ pass[l] = "take" /\ TakeOut(s) /\ UNCHANGED inRing
        /\ pass' = [pass EXCEPT ![l] = "send"]
     \/ /\ pass[l] = "send" /\ ToRing(s) /\ UNCHANGED outFree
        /\ pass' = [pass EXCEPT ![l] = "partition"]
  /\ UNCHANGED <<partition, abort, passes, msgVars, lifeVars, countVars>>

PushReplicationPass    == PassPartition("push") \/ PassSend("push", "bulkSet")
OutPullPassWorker      == PassPartition("outPull") \/ PassSend("outPull", "outPull")
TombstoneDiscardPass   == PassPartition("tombstone")

(***************************************************************************)
(* Launchers of passes                                                     *)
(***************************************************************************)
SetLauncher(l, to) == launcher' = [launcher EXCEPT ![l] = to]
LauncherFrame == UNCHANGED <<parts, running, up, nilsLeft, stopping, starts, msgVars,
                             outVars, countVars>>

\* The timer fires.
Timer(l) ==
  /\ l \in parts /\ (running = "up" \/ Busy)
  /\ launcher[l] = "wait" /\ passes < MaxPasses
  /\ SetLauncher(l, "pass") /\ BeginPass(l)
  /\ UNCHANGED <<notify, caller>> /\ LauncherFrame

\* A notification: to stop, or for a pass that its sender waits for.
Notified(l) ==
  /\ launcher[l] = "wait" /\ notify[l] # <<>>
  /\ notify' = [notify EXCEPT ![l] = <<>>]
  /\ IF Head(notify[l]) = "disable"
     THEN SetLauncher(l, "gone") /\ UNCHANGED passVars
     ELSE SetLauncher(l, "asked") /\ BeginPass(l)
  /\ UNCHANGED caller /\ LauncherFrame

\* A notification during a pass aborts the pass ...
Interrupted(l) ==
  /\ launcher[l] \in {"pass", "asked"} /\ notify[l] # <<>>
  /\ abort' = [abort EXCEPT ![l] = TRUE]
  /\ SetLauncher(l, IF launcher[l] = "asked" THEN "askedAndStop"
                    ELSE IF Head(notify[l]) = "disable" THEN "stop" ELSE "again")
  /\ notify' = [notify EXCEPT ![l] = <<>>]
  /\ UNCHANGED <<pass, partition, passes, caller>> /\ LauncherFrame

\* Faulty variant: nobody is told.
TellsNobody(l) == FALSE

\* Was the pass asked for, by a caller who waits on doneChan?
TellsCaller(l) == launcher[l] \in {"asked", "askedAndStop"}

\* ... and is acted on when its workers have ended.  The caller who asked for
\* the pass is told.
PassEnds(l) ==
  /\ launcher[l] \in {"pass", "asked", "stop", "again", "askedAndStop"}
  /\ pass[l] = "done"
  /\ IF launcher[l] = "again"
     THEN BeginPass(l) /\ SetLauncher(l, "asked")
     ELSE /\ pass' = [pass EXCEPT ![l] = "none"]
          /\ SetLauncher(l, IF launcher[l] \in {"stop", "askedAndStop"} THEN "gone" ELSE "wait")
          /\ UNCHANGED <<partition, abort, passes>>
  /\ caller' = IF TellsCaller(l) THEN "told" ELSE caller
  /\ UNCHANGED notify /\ LauncherFrame

Launcher(l) == Timer(l) \/ Notified(l) \/ Interrupted(l) \/ PassEnds(l)

PushReplicationLauncher    == Launcher("push")
OutPullReplicationLauncher == Launcher("outPull")
TombstoneDiscardLauncher   == Launcher("tombstone")

\* OutPullReplicationPass asks the launcher for a pass and waits, with the
\* startupShutdownLock held; of a store that is not running, it makes the
\* channels, makes the pass itself and drops the channels.
OutPullReplicationPass ==
  /\ "outPull" \in parts
  /\ UNCHANGED <<parts, running, launcher, nilsLeft, stopping, starts, inRing, msgVars, countVars>>
  /\ \/ /\ caller = "none" /\ up["outPull"] /\ stopping["outPull"] \in {"no", "notify"}
        /\ passes < MaxPasses /\ notify["outPull"] = <<>>
        /\ notify' = [notify EXCEPT !["outPull"] = <<"pass">>] /\ caller' = "waits"
        /\ UNCHANGED <<up, outFree, passVars>>
     \/ /\ caller = "told" /\ caller' = "none"
        /\ UNCHANGED <<up, notify, outFree, passVars>>
     \/ /\ caller = "none" /\ ~up["outPull"] /\ passes < MaxPasses
        /\ up' = [up EXCEPT !["outPull"] = TRUE]
        /\ outFree' = [outFree EXCEPT !["outPull"] = OutMsgs]
        /\ BeginPass("outPull") /\ caller' = "own" /\ UNCHANGED notify
     \/ /\ caller = "own" /\ pass["outPull"] = "done"
        /\ pass' = [pass EXCEPT !["outPull"] = "none"]
        /\ up' = [up EXCEPT !["outPull"] = FALSE]
        /\ caller' = "none" /\ UNCHANGED <<notify, outFree, partition, abort, passes>>

(***************************************************************************)
(* Launchers of workers                                                    *)
(***************************************************************************)
\* Faulty variants: one nil for all workers; workers are not waited for.
OneNil(r)   == 1
NotWaitedFor(r) == TRUE

\* The nils that end the workers, and have all of them ended (wg.Wait)?
Nils(r) == InWorkers
WorkersEnded(r) == \A w \in Workers : worker[r][w] = "gone"

\* Told to stop, the launcher sends a nil for each worker, waits for them to
\* end, and tells who waits.
WorkersLauncher(r) ==
  /\ \/ /\ launcher[r] = "wait" /\ notify[r] # <<>>
        /\ notify' = [notify EXCEPT ![r] = <<>>]
        /\ nilsLeft' = [nilsLeft EXCEPT ![r] = Nils(r)]
        /\ SetLauncher(r, "nils") /\ UNCHANGED inMsgChan
     \/ /\ launcher[r] = "nils" /\ nilsLeft[r] > 0 /\ Len(inMsgChan[r]) < InMsgs
        /\ inMsgChan' = [inMsgChan EXCEPT ![r] = Append(@, "nil")]
        /\ nilsLeft' = [nilsLeft EXCEPT ![r] = @ - 1]
        /\ UNCHANGED <<launcher, notify>>
     \/ /\ launcher[r] = "nils" /\ nilsLeft[r] = 0 /\ WorkersEnded(r)
        /\ SetLauncher(r, "gone") /\ UNCHANGED <<notify, nilsLeft, inMsgChan>>
  /\ UNCHANGED <<parts, running, up, stopping, caller, starts, inFree, handler, worker,
                 outVars, passVars, countVars>>

InBulkSetLauncher         == WorkersLauncher("bulkSet")
InBulkSetAckLauncher      == WorkersLauncher("bulkSetAck")
InPullReplicationLauncher == WorkersLauncher("inPull")

(***************************************************************************)
(* Startup and Shutdown                                                    *)
(***************************************************************************)
\* Startup of the store returns when all parts have made their channels, filled
\* their pools and started their goroutines.  (A bound: the MsgRing does not read
\* one message all the way from one start of the store to the next, which would
\* bring a message of the old pool into the new one.)
Startup ==
  /\ running = "down" /\ starts < MaxStarts
  /\ \A r \in Receivers : handler[r] # "reading"
  /\ caller # "own"   \* the lock of outPull
  /\ starts' = starts + 1 /\ running' = "up"
  /\ up' = [p \in Receivers \cup Launchers |-> p \in parts]
  /\ inFree' = [r \in Receivers |-> InMsgs]
  /\ inMsgChan' = [r \in Receivers |-> <<>>]
  /\ worker' = [r \in Receivers |-> [w \in Workers |-> IF r \in parts THEN "wait" ELSE "gone"]]
  /\ outFree' = [s \in Senders |-> OutMsgs] /\ unsent' = 0
  /\ launcher' = [p \in Receivers \cup Launchers |-> IF p \in parts THEN "wait" ELSE "gone"]
  /\ UNCHANGED <<parts, nilsLeft, notify, stopping, caller, handler, inRing, passVars, arrivals>>

\* Unless Busy, Shutdown is called when the MsgRing is quiet and no
\* pass is under way.
Quiet ==
  /\ \A r \in Receivers : handler[r] = "idle" /\ inMsgChan[r] = <<>>
  /\ \A r \in Receivers, w \in Workers : worker[r][w] \in {"wait", "gone"}
  /\ \A s \in Senders : inRing[s] = 0
  /\ \A l \in Launchers : pass[l] = "none" /\ notify[l] = <<>>
  /\ caller = "none"

\* Shutdown of the store begins the Shutdown of every part, concurrently.
Shutdown ==
  /\ running = "up" /\ (Busy \/ Quiet)
  /\ running' = "stopping"
  /\ stopping' = [p \in Receivers \cup Launchers |-> IF p \in parts THEN "notify" ELSE "no"]
  /\ UNCHANGED <<parts, up, launcher, nilsLeft, notify, caller, starts, msgVars, outVars,
                 passVars, countVars>>

\* Shutdown of a part: its launcher is told, waited for, and the channels go.
\* The lock of outPull is held by a caller of OutPullReplicationPass.
ShutdownPart(p) ==
  /\ \/ /\ stopping[p] = "notify" /\ notify[p] = <<>>
        /\ p = "outPull" => caller = "none"
        /\ notify' = [notify EXCEPT ![p] = <<"disable">>]
        /\ stopping' = [stopping EXCEPT ![p] = "wait"] /\ UNCHANGED up
     \/ /\ stopping[p] = "wait" /\ notify[p] = <<>> /\ launcher[p] = "gone"
        /\ up' = [up EXCEPT ![p] = FALSE]
        /\ stopping' = [stopping EXCEPT ![p] = "done"] /\ UNCHANGED notify
  /\ UNCHANGED <<parts, running, launcher, nilsLeft, caller, starts, msgVars, outVars,
                 passVars, countVars>>

BulkSetShutdown           == ShutdownPart("bulkSet")
BulkSetAckShutdown        == ShutdownPart("bulkSetAck")
InPullReplicationShutdown == ShutdownPart("inPull")
PushReplicationShutdown   == ShutdownPart("push")
OutPullReplicationShutdown == ShutdownPart("outPull")
TombstoneDiscardShutdown  == ShutdownPart("tombstone")

ShutdownReturns ==
  /\ running = "stopping" /\ \A p \in parts : stopping[p] = "done"
  /\ running' = "down" /\ stopping' = [p \in Receivers \cup Launchers |-> "no"]
  /\ UNCHANGED <<parts, up, launcher, nilsLeft, notify, caller, starts, msgVars, outVars,
                 passVars, countVars>>

Init ==
  /\ parts \in PartSets
  /\ running = "down" /\ starts = 0
  /\ up = [p \in Receivers \cup Launchers |-> FALSE]
  /\ inFree = [r \in Receivers |-> 0]
  /\ inMsgChan = [r \in Receivers |-> <<>>]
  /\ handler = [r \in Receivers |-> "idle"]
  /\ worker = [r \in Receivers |-> [w \in Workers |-> "gone"]]
  /\ outFree = [s \in Senders |-> 0] /\ inRing = [s \in Senders |-> 0]
  /\ launcher = [p \in Receivers \cup Launchers |-> "gone"]
  /\ nilsLeft = [r \in Receivers |-> 0]
  /\ notify = [p \in Receivers \cup Launchers |-> <<>>]
  /\ pass = [l \in Launchers |-> "none"]
  /\ partition = [l \in Launchers |-> 0]
  /\ abort = [l \in Launchers |-> FALSE]
  /\ stopping = [p \in Receivers \cup Launchers |-> "no"]
  /\ caller = "none" /\ arrivals = 0 /\ unsent = 0 /\ passes = 0

Handlers == NewInBulkSetMsg \/ NewInBulkSetAckMsg \/ NewInPullReplicationMsg
Work(w)  == InBulkSet(w) \/ InBulkSetAck(w) \/ InPullReplication(w)
Passes   == PushReplicationPass \/ OutPullPassWorker \/ TombstoneDiscardPass
Launches == \/ PushReplicationLauncher \/ OutPullReplicationLauncher
            \/ TombstoneDiscardLauncher
            \/ InBulkSetLauncher \/ InBulkSetAckLauncher \/ InPullReplicationLauncher
Shutdowns == \/ BulkSetShutdown \/ BulkSetAckShutdown \/ InPullReplicationShutdown
             \/ PushReplicationShutdown \/ OutPullReplicationShutdown
             \/ TombstoneDiscardShutdown \/ ShutdownReturns

Next ==
  \/ Startup \/ Shutdown \/ Shutdowns
  \/ Handlers \/ (\E w \in Workers : Work(w)) \/ (\E s \in Senders : Free(s))
  \/ Passes \/ Launches \/ OutPullReplicationPass

Spec == Init /\ [][Next]_vars

\* Goroutines go on, the MsgRing frees what it has, reads end, and a Shutdown
\* that has begun goes on; nobody has to call Shutdown, ask for a pass or send
\* a message.
FairSpec ==
  /\ Spec
  /\ WF_vars(\E r \in Receivers : ReadFails(r) \/ Queue(r)) /\ WF_vars(Shutdowns)
  /\ \A w \in Workers : /\ SF_vars(InBulkSet(w)) /\ WF_vars(InBulkSetAck(w))
                        /\ SF_vars(InPullReplication(w))
  /\ \A s \in Senders : WF_vars(Free(s))
  /\ SF_vars(PushReplicationPass) /\ SF_vars(OutPullPassWorker)
  /\ WF_vars(TombstoneDiscardPass)
  /\ \A l \in Launchers : WF_vars(Notified(l) \/ Interrupted(l) \/ PassEnds(l))
  /\ \A r \in Receivers : WF_vars(WorkersLauncher(r))
  /\ WF_vars(OutPullReplicationPass /\ caller # "none")

(***************************************************************************)
(* Properties                                                              *)
(***************************************************************************)
\* Every variable has its type.
TypeOK ==
  /\ parts \in PartSets /\ running \in {"down", "up", "stopping"}
  /\ up \in [Receivers \cup Launchers -> BOOLEAN]
  /\ \A r \in Receivers :
       /\ inFree[r] \in 0..InMsgs /\ Len(inMsgChan[r]) <= InMsgs
       /\ handler[r] \in {"idle", "reading", "stuck"}
       /\ nilsLeft[r] \in 0..InWorkers
       /\ worker[r] \in [Workers -> {"gone", "wait", "takeAck", "sendAck", "putBack",
                                     "putBackAndSend", "takeSet", "sendSet"}]
  /\ \A s \in Senders : outFree[s] \in 0..OutMsgs /\ inRing[s] \in Nat
  /\ \A l \in Launchers : /\ pass[l] \in {"none", "partition", "take", "send", "done"}
                          /\ partition[l] \in 0..Partitions /\ abort[l] \in BOOLEAN
  /\ \A p \in Receivers \cup Launchers :
       /\ launcher[p] \in {"gone", "wait", "pass", "asked", "stop", "again",
                           "askedAndStop", "nils"}
       /\ stopping[p] \in {"no", "notify", "wait", "done"} /\ Len(notify[p]) <= 1
  /\ caller \in {"none", "waits", "told", "own"}
  /\ unsent \in 0..MaxUnsent /\ arrivals \in 0..MaxArrivals
  /\ passes \in 0..(MaxPasses + 1) /\ starts \in 0..MaxStarts

Count(r, states) == Cardinality({w \in Workers : worker[r][w] \in states})

\* How many messages of the pool s goroutines have in hand.
InHand(s) ==
  CASE s = "bulkSetAck" -> Count("bulkSet", {"sendAck"})
    [] s = "bulkSet"    -> Count("inPull", {"sendSet"}) + (IF pass["push"] = "send" THEN 1 ELSE 0)
    [] s = "outPull"    -> IF pass["outPull"] = "send" THEN 1 ELSE 0

\* No outgoing message gets lost: each is in its pool, in the hands of a
\* goroutine or with the MsgRing, which frees it.
OutMsgsAreFreed ==
  \A s \in Senders : up[s] => outFree[s] + InHand(s) + inRing[s] >= OutMsgs

\* No incoming message gets lost: each is in its pool, being read, queued or
\* in the hands of a worker.
InMsgsAreFreed ==
  \A r \in Receivers : up[r] =>
    inFree[r] + (IF handler[r] = "reading" THEN 1 ELSE 0)
      + Cardinality({i \in DOMAIN inMsgChan[r] : inMsgChan[r][i] = "msg"})
      + Count(r, {"takeAck", "sendAck", "putBack", "putBackAndSend"}) >= InMsgs

\* Of all places where a pooled message, incoming or outgoing, could get lost,
\* only an empty answer to a pull loses one.
MsgsAreFreed ==
  /\ \A s \in Senders : up[s] =>
       outFree[s] + InHand(s) + inRing[s] + (IF s = "bulkSet" THEN unsent ELSE 0) >= OutMsgs
  /\ InMsgsAreFreed

\* A part whose Shutdown has returned has no goroutine left.
NothingAfterShutdown ==
  \A p \in parts : running # "up" /\ ~up[p] =>
    /\ launcher[p] = "gone"
    /\ p \in Receivers => \A w \in Workers : worker[p][w] = "gone"
    /\ p \in Launchers => pass[p] = "none"

\* Shutdown of the store returns.
ShutdownFinishes == running = "stopping" ~> running = "down"

\* A caller's pass is made.
EveryPassReturns == caller # "none" ~> caller = "none"

(***************************************************************************)
(* What every step keeps, and the properties follow from                   *)
(***************************************************************************)
\* Every variable has its type, as a function.
MessagingTypes ==
  /\ parts \in PartSets /\ running \in {"down", "up", "stopping"}
  /\ up \in [Receivers \cup Launchers -> BOOLEAN]
  /\ inFree \in [Receivers -> 0..InMsgs]
  /\ inMsgChan \in [Receivers -> Seq({"msg", "nil"})]
  /\ handler \in [Receivers -> {"idle", "reading", "stuck"}]
  /\ worker \in [Receivers -> [Workers -> {"gone", "wait", "takeAck", "sendAck", "putBack",
                                           "putBackAndSend", "takeSet", "sendSet"}]]
  /\ outFree \in [Senders -> 0..OutMsgs] /\ inRing \in [Senders -> Nat]
  /\ launcher \in [Receivers \cup Launchers -> {"gone", "wait", "pass", "asked", "stop",
                                                "again", "askedAndStop", "nils"}]
  /\ nilsLeft \in [Receivers -> 0..InWorkers]
  /\ notify \in [Receivers \cup Launchers -> {<<>>, <<"disable">>, <<"pass">>}]
  /\ pass \in [Launchers -> {"none", "partition", "take", "send", "done"}]
  /\ partition \in [Launchers -> 0..Partitions] /\ abort \in [Launchers -> BOOLEAN]
  /\ stopping \in [Receivers \cup Launchers -> {"no", "notify", "wait", "done"}]
  /\ caller \in {"none", "waits", "told", "own"}
  /\ unsent \in 0..MaxUnsent /\ arrivals \in 0..MaxArrivals
  /\ passes \in 0..(MaxPasses + 1) /\ starts \in 0..MaxStarts

QueuesBounded == \A r \in Receivers : Len(inMsgChan[r]) <= InMsgs

OwnPassOf(p) == p = "outPull" /\ caller = "own"

\* Channels are there from Startup to the end of the part's Shutdown, and while
\* a caller makes a pass of its own.
ChannelsOK ==
  \A p \in Receivers \cup Launchers :
    /\ up[p] => p \in parts
    /\ (p \in parts /\ running = "up") => up[p]
    /\ running = "down" => (~up[p] \/ OwnPassOf(p))
    /\ running # "stopping" => stopping[p] = "no"
    /\ stopping[p] \in {"notify", "wait"} => up[p]
    /\ stopping[p] = "done" => (~up[p] \/ OwnPassOf(p))

\* Goroutines end before their channels go, workers before their launcher, a
\* pass before its launcher or its caller.
GoroutinesOK ==
  /\ \A p \in Receivers \cup Launchers : ~up[p] => launcher[p] = "gone"
  /\ \A r \in Receivers : launcher[r] = "gone" => WorkersEnded(r)
  /\ \A l \in Launchers :
       pass[l] # "none" => (\/ launcher[l] \in {"pass", "asked", "stop", "again", "askedAndStop"}
                            \/ OwnPassOf(l))

\* A caller makes a pass of its own only of a part that is stopped.
OwnPassOK ==
  caller = "own" => /\ running # "up" /\ up["outPull"] /\ launcher["outPull"] = "gone"
                    /\ stopping["outPull"] \in {"no", "done"}

\* Only outPull is asked for a pass, by one caller at a time; the pass that the
\* request leads to is the one that may exceed MaxPasses.
RequestsOK ==
  \A p \in Receivers \cup Launchers :
    /\ notify[p] = <<"pass">> => /\ p = "outPull" /\ caller = "waits" /\ passes <= MaxPasses
                                /\ launcher[p] \notin {"asked", "again", "askedAndStop"}
    /\ launcher[p] \in {"asked", "again", "askedAndStop"} => p = "outPull" /\ caller = "waits"
    /\ launcher[p] = "again" => passes <= MaxPasses

MessagingInv == /\ MessagingTypes /\ QueuesBounded /\ ChannelsOK /\ GoroutinesOK
                /\ OwnPassOK /\ RequestsOK /\ MsgsAreFreed
=============================================================================
