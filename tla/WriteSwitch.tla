---------------------------- MODULE WriteSwitch -----------------------------
(***************************************************************************)
(* Who may switch writes on and off: users by EnableWrites and              *)
(* DisableWrites, Startup and Shutdown by the same calls, and the watcher,  *)
(* which polls the free space of disks and memory about once a minute.      *)
(* Every call takes disableEnableWritesLock and then tells one memWriter    *)
(* after the other over an unbuffered channel.                              *)
(*                                                                          *)
(* The four measurements of the watcher are abstracted to which of their    *)
(* thresholds are passed: of a disk, when either of the two devices is      *)
(* short and when both are ample.  A threshold that is switched off, or     *)
(* memory that cannot be measured, is never passed.                         *)
(***************************************************************************)
EXTENDS Integers

CONSTANTS
  NumWorkers,
  Users,              \* callers of EnableWrites and DisableWrites
  Readings,           \* what the watcher may measure
  MaxCalls, MaxStarts \* bounds on what the users do

Workers    == 1..NumWorkers
CLEAR      == 0
Conditions == 1..4    \* DISK_FREE, DISK_USAGE, MEM_FREE, MEM_USAGE
Callers    == Users \cup {"watcher", "store"}
Reading    == [short : SUBSET Conditions, ample : SUBSET Conditions]

ASSUME SwitchWorkersAssumption == NumWorkers \in Nat \ {0}
ASSUME SwitchUsersAssumption   == Users \cap {"watcher", "store", "free"} = {}
ASSUME SwitchBoundsAssumption  == {MaxCalls, MaxStarts} \subseteq Nat
ASSUME SwitchReadingsAssumption == Readings \subseteq Reading

VARIABLES
  running,              \* phase of Startup and Shutdown, under the runningLock
  pendingWriteReqChans, \* which Startup made the channels, 0 for nil
  alive, enabled,       \* per memWriter
  readOnly, userDisabled,
  lock,                 \* holder of disableEnableWritesLock, or "free"
  call,                 \* per caller: its call and the memWriter it is at
  watching, state,      \* the watcher runs; the condition that made it disable writes
  space,                \* what the watcher would measure now
  choice,               \* the last finished call but the watcher's
  calls, starts

switchVars == <<readOnly, userDisabled, lock, call>>
watchVars  == <<watching, state, space>>
vars == <<running, pendingWriteReqChans, alive, enabled, switchVars, watchVars, choice,
          calls, starts>>

\* to is 0 before the lock is held, then the memWriter to tell, and NumWorkers + 1
\* when all have been told; chans is the slice of channels that is being ranged over.
NoCall    == [op |-> "none", to |-> 0, chans |-> 0]
Called(o) == [op |-> o, to |-> 0, chans |-> 0]

Init ==
  /\ running = "stopped"
  /\ pendingWriteReqChans = 0
  /\ alive = [w \in Workers |-> FALSE]
  /\ enabled = [w \in Workers |-> FALSE]
  /\ readOnly = FALSE
  /\ userDisabled = FALSE
  /\ lock = "free"
  /\ call = [p \in Callers |-> NoCall]
  /\ watching = FALSE
  /\ state = CLEAR
  /\ space \in Readings
  /\ choice = "none"
  /\ calls = 0
  /\ starts = 0
-----------------------------------------------------------------------------
(* enableWrites and disableWrites *)

\* Faulty variant: no lock.
NoLock == TRUE

\* disableEnableWritesLock can be taken.
Unlocked == lock = "free"

\* Faulty variant: the watcher enables writes whatever the user said.
NeverSkips(p) == FALSE

\* The watcher does not enable what the user has disabled.
Skips(p) == p = "watcher" /\ call[p].op = "enable" /\ userDisabled

\* Faulty variant: EnableWrites does not forget an earlier DisableWrites.
StaysDisabled(p) == IF p = "watcher" \/ call[p].op = "enable" THEN userDisabled ELSE TRUE

\* userDisabled after the call of p; the watcher leaves it alone.
UserDisabledBy(p) == IF p = "watcher" THEN userDisabled ELSE call[p].op = "disable"

Lock(p) ==
  /\ call[p].op # "none" /\ call[p].to = 0
  /\ Unlocked
  /\ lock' = p
  /\ readOnly' = (call[p].op = "disable")
  /\ userDisabled' = UserDisabledBy(p)
  /\ call' = [call EXCEPT ![p] =
                [op |-> call[p].op, chans |-> pendingWriteReqChans,
                 to |-> IF Skips(p) \/ pendingWriteReqChans = 0 THEN NumWorkers + 1 ELSE 1]]
  /\ UNCHANGED <<running, pendingWriteReqChans, alive, enabled, watchVars, choice, calls,
                 starts>>

\* The next memWriter takes the request; one that has returned never does.
Send(p) ==
  LET w == call[p].to IN
  /\ w \in Workers
  /\ call[p].chans = pendingWriteReqChans
  /\ alive[w]
  /\ enabled' = [enabled EXCEPT ![w] = (call[p].op = "enable")]
  /\ call' = [call EXCEPT ![p] = [call[p] EXCEPT !.to = w + 1]]
  /\ UNCHANGED <<running, pendingWriteReqChans, alive, readOnly, userDisabled, lock,
                 watchVars, choice, calls, starts>>

\* The call returns; Startup and Shutdown go on after theirs.
Unlock(p) ==
  /\ call[p].to = NumWorkers + 1
  /\ lock' = "free"
  /\ call' = [call EXCEPT ![p] = NoCall]
  /\ choice' = IF p = "watcher" THEN choice ELSE call[p].op
  /\ running' = IF p # "store" THEN running
                ELSE IF call[p].op = "enable" THEN "running" ELSE "ending"
  /\ UNCHANGED <<pendingWriteReqChans, alive, enabled, readOnly, userDisabled, watchVars,
                 calls, starts>>

UserCall(p, op) ==
  /\ call[p].op = "none"
  /\ calls < MaxCalls
  /\ call' = [call EXCEPT ![p] = Called(op)]
  /\ calls' = calls + 1
  /\ UNCHANGED <<running, pendingWriteReqChans, alive, enabled, readOnly, userDisabled,
                 lock, watchVars, choice, starts>>
-----------------------------------------------------------------------------
(* Startup and Shutdown *)

\* New channels and memWriters, and a watcher; then EnableWrites.
Startup ==
  /\ running = "stopped"
  /\ starts < MaxStarts
  /\ starts' = starts + 1
  /\ pendingWriteReqChans' = starts + 1
  /\ alive' = [w \in Workers |-> TRUE]
  /\ enabled' = [w \in Workers |-> FALSE]
  /\ \/ /\ running' = "starting"
        /\ watching' = TRUE
        /\ state' = CLEAR
        /\ call' = [call EXCEPT !["store"] = Called("enable")]
     \/ /\ running' = "failed"   \* recovery returned an error
        /\ UNCHANGED <<watching, state, call>>
  /\ UNCHANGED <<readOnly, userDisabled, lock, space, choice, calls>>

Shutdown ==
  /\ running = "running"
  /\ running' = "stopping"
  /\ UNCHANGED <<pendingWriteReqChans, alive, enabled, switchVars, watchVars, choice,
                 calls, starts>>

\* The watcher takes the DISABLE notification; then DisableWrites.
WatcherStop ==
  /\ running = "stopping"
  /\ call["watcher"].op = "none"
  /\ watching' = FALSE
  /\ running' = "disabling"
  /\ call' = [call EXCEPT !["store"] = Called("disable")]
  /\ UNCHANGED <<pendingWriteReqChans, alive, enabled, readOnly, userDisabled, lock, state,
                 space, choice, calls, starts>>

\* The memWriters get the shutdown request one after the other.
StopWriter ==
  LET left == {w \in Workers : alive[w]} IN
  /\ running = "ending"
  /\ left # {}
  /\ alive' = [alive EXCEPT ![CHOOSE w \in left : \A v \in left : w <= v] = FALSE]
  /\ UNCHANGED <<running, pendingWriteReqChans, enabled, switchVars, watchVars, choice,
                 calls, starts>>

ShutdownDone ==
  /\ running = "ending"
  /\ \A w \in Workers : ~alive[w]
  /\ running' = "stopped"
  /\ pendingWriteReqChans' = 0
  /\ UNCHANGED <<alive, enabled, switchVars, watchVars, choice, calls, starts>>
-----------------------------------------------------------------------------
(* The watcher *)

\* Faulty variant: the conditions are counted from two.
StateOffByOne(r) ==
  IF state = CLEAR THEN (CHOOSE c \in r.short \cup {CLEAR} : \A d \in r.short : d <= c) + 1
  ELSE IF state \in r.ample THEN CLEAR ELSE state

\* The state after a pass: the last condition that is short; while writes are
\* disabled only the condition that disabled them is looked at.
StateAfter(r) ==
  IF state = CLEAR THEN (CHOOSE c \in r.short \cup {CLEAR} : \A d \in r.short : d <= c)
  ELSE IF state \in r.ample THEN CLEAR ELSE state

\* One pass.  The first is about a minute after Startup and so follows its
\* EnableWrites.
WatcherPass ==
  /\ watching
  /\ running # "starting"
  /\ call["watcher"].op = "none"
  /\ state' = StateAfter(space)
  /\ call' = IF state' = state THEN call
             ELSE [call EXCEPT !["watcher"] =
                     Called(IF state = CLEAR THEN "disable" ELSE "enable")]
  /\ UNCHANGED <<running, pendingWriteReqChans, alive, enabled, readOnly, userDisabled,
                 lock, watching, space, choice, calls, starts>>

SpaceChanges(r) ==
  /\ space' = r
  /\ UNCHANGED <<running, pendingWriteReqChans, alive, enabled, switchVars, watching, state,
                 choice, calls, starts>>
-----------------------------------------------------------------------------
Next ==
  \/ \E p \in Callers : Lock(p) \/ Send(p) \/ Unlock(p)
  \/ \E p \in Users, op \in {"enable", "disable"} : UserCall(p, op)
  \/ Startup \/ Shutdown \/ WatcherStop \/ StopWriter \/ ShutdownDone
  \/ WatcherPass
  \/ \E r \in Readings : SpaceChanges(r)

Spec == Init /\ [][Next]_vars

\* Goroutines that can proceed do; a mutex is handed to everyone who waits for it,
\* and select takes the notification that waits although passes come due.
Fairness ==
  /\ \A p \in Callers : SF_vars(Lock(p)) /\ WF_vars(Send(p)) /\ WF_vars(Unlock(p))
  /\ WF_vars(WatcherPass) /\ SF_vars(WatcherStop)
  /\ WF_vars(StopWriter) /\ WF_vars(ShutdownDone)

FairSpec == Spec /\ Fairness
-----------------------------------------------------------------------------
(* Properties *)

CallState == [op : {"none", "enable", "disable"}, to : 0..(NumWorkers + 1), chans : Nat]

\* Every variable has its type.
TypeOK ==
  /\ running \in {"stopped", "starting", "failed", "running", "stopping", "disabling", "ending"}
  /\ pendingWriteReqChans \in Nat
  /\ alive \in [Workers -> BOOLEAN]
  /\ enabled \in [Workers -> BOOLEAN]
  /\ readOnly \in BOOLEAN
  /\ userDisabled \in BOOLEAN
  /\ lock \in Callers \cup {"free"}
  /\ call \in [Callers -> CallState]
  /\ watching \in BOOLEAN
  /\ state \in Conditions \cup {CLEAR}
  /\ space \in Reading
  /\ choice \in {"none", "enable", "disable"}
  /\ calls \in Nat
  /\ starts \in Nat

Accepting(w) == alive[w] /\ enabled[w]

\* Between calls all memWriters are switched the same way: calls of users, the
\* watcher and Shutdown that overlap never leave some workers accepting writes
\* and others refusing them.
WritersAgree ==
  lock = "free" => \A v, w \in Workers : alive[v] /\ alive[w] => enabled[v] = enabled[w]

\* Once a DisableWrites has the lock and has finished, no memWriter accepts writes
\* until an EnableWrites has the lock, whatever the watcher does in between and
\* however far its own call has come.
UserChoiceStands ==
  userDisabled /\ lock \in {"free", "watcher"} => \A w \in Workers : ~Accepting(w)

\* When there is ample space again for good, writes that only the watcher had
\* disabled are enabled for good.
WritesComeBack ==
  <>[](space.ample = Conditions /\ running = "running")
    => <>[](choice = "disable" \/ \A w \in Workers : Accepting(w))

\* Startup comes to an end.
StartupFinishes == running = "starting" ~> running # "starting"
-----------------------------------------------------------------------------
(* The inductive invariant of the proofs *)

\* The holder of the lock is the one caller that is past Lock.
OneHolder == \A p \in Callers : call[p].to # 0 <=> lock = p

\* Channels are those of the last Startup; without channels no memWriter is alive.
Generations ==
  /\ pendingWriteReqChans <= starts
  /\ \A p \in Callers : call[p].chans <= starts
  /\ pendingWriteReqChans = 0 => \A w \in Workers : ~alive[w]

\* The memWriters that a call in progress has told agree, and so do the others.
HalfAgree ==
  \A p \in Callers : lock = p =>
    \A v, w \in Workers :
      /\ alive[v] /\ alive[w]
      /\ v < call[p].to <=> w < call[p].to
      => enabled[v] = enabled[w]

\* The memWriters that a call in progress has told do as told; the watcher's
\* enable tells none of them when the user has disabled writes.
ToldDoSo ==
  \A p \in Callers : lock = p /\ ~Skips(p) =>
    \A w \in Workers : alive[w] /\ w < call[p].to =>
      /\ call[p].op = "disable" => ~enabled[w]
      /\ call[p].op = "enable" /\ call[p].chans = pendingWriteReqChans => enabled[w]

\* A watcher that skips is past all memWriters; an operation is under way exactly
\* where a memWriter is to be told.
CallsInOrder ==
  \A p \in Callers :
    /\ call[p].op = "none" => call[p].to = 0
    /\ lock = p /\ Skips(p) => call[p].to = NumWorkers + 1
    /\ lock = p /\ p # "watcher" => userDisabled = (call[p].op = "disable")
    /\ p = "store" => (call[p].op # "none" <=> running \in {"starting", "disabling"})

SwitchInv ==
  /\ TypeOK
  /\ OneHolder
  /\ Generations
  /\ HalfAgree
  /\ ToldDoSo
  /\ CallsInOrder
  /\ WritersAgree
  /\ UserChoiceStands
=============================================================================
