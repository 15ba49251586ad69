------------------------------- MODULE Audit --------------------------------
(***************************************************************************)
(* The audit of a value store (src/valueaudit_GEN_.go) with the calls that  *)
(* start, stop and request it.  A launcher goroutine runs a pass when its   *)
(* timer is due or AuditPass asks for one; a pass that is told to stop      *)
(* returns the notification it got, which the launcher then serves.  A file *)
(* that fails the audit is compacted, and the store is to be shut down and  *)
(* restarted.  The launchers of the other background tasks have the same    *)
(* shape.                                                                   *)
(*                                                                          *)
(* What a file's check finds is left open (CanFail); which files are too    *)
(* young, active or not TOC files is too: they are skipped.                 *)
(***************************************************************************)
EXTENDS Integers, Sequences

CONSTANTS
  Files,       \* names in the TOC directory
  Auditors,    \* callers of AuditPass
  CanFail,     \* whether files may fail the audit
  MaxCalls, MaxStarts   \* bounds on calls of AuditPass and of Startup

\* "owner" calls Startup and Shutdown; "restarter" is the goroutine of a failed audit.
Stoppers == {"owner", "restarter"}
Callers  == Auditors \cup Stoppers

None == [action |-> "none", from |-> "none"]
Pass(p)    == [action |-> "pass", from |-> p]
Disable(p) == [action |-> "disable", from |-> p]

ASSUME AuditAssumption == /\ Auditors \cap (Stoppers \cup {"free", "none", "self", "launcher"}) = {}
                          /\ CanFail \in BOOLEAN
                          /\ {MaxCalls, MaxStarts} \subseteq Nat

VARIABLES
  running, runningLock,  \* of the store
  startupShutdownLock,   \* of the audit: its holder, or "free"
  started,               \* notifyChan # nil
  notifyChan,            \* a queue of at most one notification
  pc,                    \* per caller
  done,                  \* per caller: its doneChan has been signalled
  launcher,              \* "off", "loop", "passing"
  notification,          \* what the launcher has in hand
  pass,                  \* the pass under way
  result,                \* per caller of AuditPass: how the pass for it ended
  restartRequested,      \* restartChan has got the error
  calls, starts

lockVars   == <<running, runningLock, startupShutdownLock, started>>
launchVars == <<launcher, notification>>
vars == <<lockVars, notifyChan, pc, done, launchVars, pass, result, restartRequested,
          calls, starts>>

\* by: who runs it; left: names to come; seen: names it has looked at; taken: the
\* notification that the goroutine beside the check, or the compaction, has taken.
NoPass == [by |-> "none", at |-> "none", left |-> {}, seen |-> {}, taken |-> None]

Init ==
  /\ running = FALSE
  /\ runningLock = "free"
  /\ startupShutdownLock = "free"
  /\ started = FALSE
  /\ notifyChan = <<>>
  /\ pc = [p \in Callers |-> "idle"]
  /\ done = [p \in Callers |-> FALSE]
  /\ launcher = "off"
  /\ notification = None
  /\ pass = NoPass
  /\ result = [p \in Auditors |-> "none"]
  /\ restartRequested = FALSE
  /\ calls = 0
  /\ starts = 0

Waiting == started /\ notifyChan # <<>>
-----------------------------------------------------------------------------
(* auditPass *)

\* Faulty variants: the wrong directory is listed; a restarted pass goes on where the
\* last one was stopped.
ValueNames == {"value"}
GoesOn == IF pass.left = {} THEN Files ELSE pass.left

\* The names a pass starts with: all that readdirnames returns.
Names == Files

BeginPass(p) == pass' = [by |-> p, at |-> "loop", left |-> Names, seen |-> {}, taken |-> None]

\* How the pass under way ends for whoever asked for it.
EndOf(r) == IF r.from = "self" THEN "failed"
            ELSE IF r # None THEN "stopped"
            ELSE IF pass.seen = Files THEN "complete" ELSE "partial"

\* Faulty variant: what a pass was stopped by is forgotten.
Forgets(r) == None

\* The notification that the launcher serves after a pass.
NextNotification(r) == r

\* auditPass returns r; the launcher answers the request it served and goes on with
\* r, a caller that ran the pass itself ignores r.
EndPass(r, how) ==
  LET for == IF pass.by = "launcher" THEN notification.from ELSE pass.by IN
  /\ pass' = [by |-> "none", at |-> "none", left |-> pass.left, seen |-> {}, taken |-> None]
  /\ done' = IF for \in Callers THEN [done EXCEPT ![for] = TRUE] ELSE done
  /\ result' = IF for \in Auditors THEN [result EXCEPT ![for] = how] ELSE result
  /\ IF pass.by = "launcher"
     THEN launcher' = "loop" /\ notification' = NextNotification(r)
     ELSE UNCHANGED launchVars

\* Only the launcher's own channel reaches its pass.
Reaches == pass.by = "launcher" /\ Waiting

\* readdirnames returns an error.
PassNoNames ==
  /\ pass.at = "loop" /\ pass.seen = {}
  /\ EndPass(None, "noNames")
  /\ UNCHANGED <<lockVars, notifyChan, pc, restartRequested, calls, starts>>

\* At the top of the loop: stopped by a notification, or through.
PassStopped ==
  /\ pass.at = "loop" /\ pass.left # {} /\ Reaches
  /\ EndPass(Head(notifyChan), EndOf(Head(notifyChan)))
  /\ notifyChan' = Tail(notifyChan)
  /\ UNCHANGED <<lockVars, pc, restartRequested, calls, starts>>

PassThrough ==
  /\ pass.at = "loop" /\ pass.left = {}
  /\ EndPass(None, EndOf(None))
  /\ UNCHANGED <<lockVars, notifyChan, pc, restartRequested, calls, starts>>

\* The next name: skipped, checked, or failed since its value file cannot be opened.
PassNext(f, at) ==
  /\ pass.at = "loop" /\ f \in pass.left /\ ~Reaches
  /\ at = "compact" => CanFail
  /\ pass' = [pass EXCEPT !.at = at, !.left = @ \ {f}, !.seen = @ \cup {f}]
  /\ UNCHANGED <<lockVars, notifyChan, pc, done, launchVars, result, restartRequested,
                 calls, starts>>

\* The goroutine beside the check or the compaction takes a notification.
PassTake ==
  /\ pass.at \in {"check", "compact"} /\ pass.taken = None /\ Reaches
  /\ pass' = [pass EXCEPT !.taken = Head(notifyChan)]
  /\ notifyChan' = Tail(notifyChan)
  /\ UNCHANGED <<lockVars, pc, done, launchVars, result, restartRequested, calls, starts>>

\* The check has come to the end of the file, also when it was to be canceled.
PassChecked(at) ==
  /\ pass.at = "check"
  /\ at = "compact" => CanFail
  /\ IF pass.taken # None THEN EndPass(pass.taken, EndOf(pass.taken))
     ELSE pass' = [pass EXCEPT !.at = at] /\ UNCHANGED <<done, launchVars, result>>
  /\ UNCHANGED <<lockVars, notifyChan, pc, restartRequested, calls, starts>>

\* compactFile is through or was canceled.  If nothing stopped it, a goroutine is
\* to shut the store down, and the audit disables itself.
PassCompacted ==
  /\ pass.at = "compact"
  /\ IF pass.taken # None
     THEN EndPass(pass.taken, EndOf(pass.taken)) /\ UNCHANGED pc
     ELSE /\ EndPass(Disable("self"), "failed")
          /\ pc' = IF pc["restarter"] = "idle" THEN [pc EXCEPT !["restarter"] = "call"] ELSE pc
  /\ UNCHANGED <<lockVars, notifyChan, restartRequested, calls, starts>>
-----------------------------------------------------------------------------
(* auditLauncher *)

LauncherTake ==
  /\ launcher = "loop" /\ notification = None /\ Waiting
  /\ notification' = Head(notifyChan)
  /\ notifyChan' = Tail(notifyChan)
  /\ UNCHANGED <<lockVars, pc, done, launcher, pass, result, restartRequested, calls, starts>>

\* The timer is due and no notification waits, or a pass is requested.
LauncherPass ==
  /\ launcher = "loop"
  /\ notification.action = "pass" \/ (notification = None /\ ~Waiting)
  /\ launcher' = "passing"
  /\ BeginPass("launcher")
  /\ UNCHANGED <<lockVars, notifyChan, pc, done, notification, result, restartRequested,
                 calls, starts>>

LauncherEnd ==
  /\ launcher = "loop" /\ notification.action = "disable"
  /\ launcher' = "off"
  /\ notification' = None
  /\ done' = IF notification.from = "self" THEN done ELSE [done EXCEPT ![notification.from] = TRUE]
  /\ UNCHANGED <<lockVars, notifyChan, pc, pass, result, restartRequested, calls, starts>>
-----------------------------------------------------------------------------
(* AuditPass *)

AuditCall(p) ==
  /\ pc[p] = "idle"
  /\ calls < MaxCalls
  /\ pc' = [pc EXCEPT ![p] = "lock"]
  /\ result' = [result EXCEPT ![p] = "none"]
  /\ calls' = calls + 1
  /\ UNCHANGED <<lockVars, notifyChan, done, launchVars, pass, restartRequested, starts>>

\* With the lock: run the pass here if the audit is not started, or ask for one.
AuditLock(p) ==
  /\ pc[p] = "lock"
  /\ startupShutdownLock = "free"
  /\ startupShutdownLock' = p
  /\ IF started THEN pc' = [pc EXCEPT ![p] = "send"] /\ UNCHANGED pass
     ELSE pc' = [pc EXCEPT ![p] = "wait"] /\ BeginPass(p)
  /\ UNCHANGED <<running, runningLock, started, notifyChan, done, launchVars, result,
                 restartRequested, calls, starts>>

\* The channel holds one notification.
Notify(p, n) ==
  /\ pc[p] = "send"
  /\ notifyChan = <<>>
  /\ notifyChan' = <<n>>
  /\ pc' = [pc EXCEPT ![p] = "wait"]
  /\ UNCHANGED <<lockVars, done, launchVars, pass, result, restartRequested, calls, starts>>

AuditReturn(p) ==
  /\ pc[p] = "wait" /\ done[p]
  /\ done' = [done EXCEPT ![p] = FALSE]
  /\ startupShutdownLock' = "free"
  /\ pc' = [pc EXCEPT ![p] = "idle"]
  /\ UNCHANGED <<running, runningLock, started, notifyChan, launchVars, pass, result,
                 restartRequested, calls, starts>>
-----------------------------------------------------------------------------
(* Startup and Shutdown, with auditStartup and auditShutdown *)

StartupCall ==
  /\ pc["owner"] = "idle" /\ runningLock = "free"
  /\ ~running
  /\ starts < MaxStarts
  /\ starts' = starts + 1
  /\ runningLock' = "owner"
  /\ pc' = [pc EXCEPT !["owner"] = "start"]
  /\ UNCHANGED <<running, startupShutdownLock, started, notifyChan, done, launchVars, pass, result,
                 restartRequested, calls>>

\* auditStartup, once the audit's lock is free, and the end of Startup.
AuditStartup ==
  /\ pc["owner"] = "start"
  /\ startupShutdownLock = "free"
  /\ ~started   \* as whenever the store is not running
  /\ started' = TRUE
  /\ notifyChan' = <<>>
  /\ launcher' = "loop"
  /\ running' = TRUE
  /\ runningLock' = "free"
  /\ pc' = [pc EXCEPT !["owner"] = "idle"]
  /\ UNCHANGED <<startupShutdownLock, done, notification, pass, result, restartRequested,
                 calls, starts>>

\* The owner wants to stop the store, or a failed audit does.
OwnerStops ==
  /\ pc["owner"] = "idle" /\ running
  /\ pc' = [pc EXCEPT !["owner"] = "call"]
  /\ UNCHANGED <<lockVars, notifyChan, done, launchVars, pass, result, restartRequested,
                 calls, starts>>

\* After Shutdown the restarter asks for the restart.
Stopped(s) ==
  /\ pc' = [pc EXCEPT ![s] = "idle"]
  /\ restartRequested' = (restartRequested \/ s = "restarter")

\* Shutdown takes the runningLock; it returns at once if the store is not running.
ShutdownCall(s) ==
  /\ pc[s] = "call" /\ runningLock = "free"
  /\ IF running
     THEN /\ runningLock' = s /\ pc' = [pc EXCEPT ![s] = "lock"]
          /\ UNCHANGED restartRequested
     ELSE Stopped(s) /\ UNCHANGED runningLock
  /\ UNCHANGED <<running, startupShutdownLock, started, notifyChan, done, launchVars, pass, result,
                 calls, starts>>

AuditShutdown(s) ==
  /\ pc[s] = "lock"
  /\ startupShutdownLock = "free"
  /\ startupShutdownLock' = s
  /\ pc' = [pc EXCEPT ![s] = "send"]
  /\ UNCHANGED <<running, runningLock, started, notifyChan, done, launchVars, pass, result,
                 restartRequested, calls, starts>>

\* Faulty variant: auditShutdown does not wait for the launcher.
NotAwaited(s) == TRUE

Answered(s) == done[s]

\* The launcher has answered; the rest of Shutdown follows.
ShutdownReturn(s) ==
  /\ pc[s] = "wait" /\ Answered(s)
  /\ done' = [done EXCEPT ![s] = FALSE]
  /\ started' = FALSE
  /\ notifyChan' = <<>>
  /\ startupShutdownLock' = "free"
  /\ running' = FALSE
  /\ runningLock' = "free"
  /\ Stopped(s)
  /\ UNCHANGED <<launchVars, pass, result, calls, starts>>
-----------------------------------------------------------------------------
PassStep == \/ PassNoNames \/ PassStopped \/ PassThrough \/ PassTake \/ PassCompacted
            \/ \E f \in Files, at \in {"loop", "check", "compact"} : PassNext(f, at)
            \/ \E at \in {"loop", "compact"} : PassChecked(at)
LauncherStep == LauncherTake \/ LauncherPass \/ LauncherEnd

AuditorStep(p) == Notify(p, Pass(p)) \/ AuditReturn(p)
StopperStep(s) == Notify(s, Disable(s)) \/ ShutdownReturn(s)

Next ==
  \/ PassStep
  \/ LauncherStep
  \/ \E p \in Auditors : AuditCall(p) \/ AuditLock(p) \/ AuditorStep(p)
  \/ StartupCall \/ AuditStartup \/ OwnerStops
  \/ \E s \in Stoppers : ShutdownCall(s) \/ AuditShutdown(s) \/ StopperStep(s)

Spec == Init /\ [][Next]_vars

\* Goroutines that can proceed do, and nobody waits forever for a mutex that is free
\* again and again.
Fairness ==
  /\ WF_vars(PassStep)
  /\ WF_vars(LauncherStep)
  /\ \A p \in Auditors : SF_vars(AuditLock(p)) /\ WF_vars(AuditorStep(p))
  /\ SF_vars(AuditStartup)
  /\ \A s \in Stoppers : /\ SF_vars(ShutdownCall(s)) /\ SF_vars(AuditShutdown(s))
                         /\ WF_vars(StopperStep(s))

FairSpec == Spec /\ Fairness
-----------------------------------------------------------------------------
(* Properties *)

Notification == [action : {"none", "pass", "disable"}, from : Callers \cup {"none", "self"}]

\* Every variable has its type; the channel never holds two notifications.
TypeOK ==
  /\ running \in BOOLEAN
  /\ runningLock \in Stoppers \cup {"free"}
  /\ startupShutdownLock \in Callers \cup {"free"}
  /\ started \in BOOLEAN
  /\ Len(notifyChan) <= 1
  /\ \A i \in DOMAIN notifyChan : notifyChan[i] \in Notification
  /\ pc \in [Callers -> {"idle", "start", "call", "lock", "send", "wait"}]
  /\ done \in [Callers -> BOOLEAN]
  /\ launcher \in {"off", "loop", "passing"}
  /\ notification \in Notification
  /\ pass.by \in Auditors \cup {"launcher", "none"}
  /\ pass.at \in {"none", "loop", "check", "compact"}
  /\ pass.left \cup pass.seen \subseteq Files
  /\ result \in [Auditors -> {"none", "failed", "noNames", "complete", "stopped", "partial"}]
  /\ restartRequested \in BOOLEAN
  /\ calls \in 0..MaxCalls /\ starts \in 0..MaxStarts

\* AuditPass ensures one complete pass: when it returns, a pass that began after the
\* call has looked at every name, or has found a failure or no directory.
AuditPassIsComplete ==
  \A p \in Auditors : done[p] => result[p] \in {"complete", "failed", "noNames"}

\* Once Shutdown has returned no launcher is running and no pass of one is under way,
\* so nothing looks at a store that has been taken apart.
NothingAfterShutdown == ~started => launcher = "off" /\ pass.by # "launcher"

\* A file has failed the audit.
HasFailed == pc["restarter"] # "idle" \/ restartRequested

\* No notification is lost between callers, launcher and pass: every AuditPass
\* returns, unless a file fails.
EveryAuditPassReturns == \A p \in Auditors : pc[p] # "idle" ~> pc[p] = "idle" \/ HasFailed

\* The owner's Shutdown, which the audit must answer whatever it is doing, comes to
\* an end, unless a file fails.
EveryShutdownReturns == pc["owner"] = "call" ~> pc["owner"] = "idle" \/ HasFailed

\* A failed audit ends with the request to restart the store.
RestartIsRequested == pc["restarter"] = "call" ~> restartRequested
-----------------------------------------------------------------------------
(* The inductive invariant behind the safety properties *)

PassState == [by : Auditors \cup {"launcher", "none"}, at : {"none", "loop", "check", "compact"},
              left : SUBSET Files, seen : SUBSET Files, taken : Notification]

\* The one caller in AuditPass or auditShutdown that has got past the audit's lock.
LockHeld ==
  /\ \A p \in Callers : startupShutdownLock = p <=> pc[p] \in {"send", "wait"}
  /\ \A p \in Callers : done[p] => pc[p] = "wait"
  /\ \A p \in Auditors : pc[p] \in {"idle", "lock", "send", "wait"}

\* The request that the holder of the lock makes, and whether it awaits the answer.
Request == IF startupShutdownLock \in Auditors THEN Pass(startupShutdownLock)
           ELSE Disable(startupShutdownLock)
Pending == /\ startupShutdownLock \in Callers
           /\ pc[startupShutdownLock] = "wait" /\ ~done[startupShutdownLock]

\* That request is the only one there is: in the channel, in the hands of the
\* launcher, or taken beside a check or compaction.
OneRequest ==
  /\ notifyChan = <<>> \/ (notifyChan = <<Request>> /\ Pending)
  /\ notification \in {None, Disable("self")} \/ (notification = Request /\ Pending)
  /\ pass.taken = None \/ (pass.taken = Request /\ Pending)
  /\ notifyChan # <<>> => notification \in {None, Disable("self")} /\ pass.taken = None
  /\ pass.taken # None => notification = None

\* A pass is run by the launcher, for a request or for its timer, or by a caller of
\* AuditPass that has found the audit not started.
OnePass ==
  /\ launcher = "passing" <=> pass.by = "launcher"
  /\ pass.at = "none" <=> pass.by = "none"
  /\ pass.by = "launcher" => notification.action # "disable"
  /\ pass.by # "launcher" => pass.taken = None
  /\ pass.by # "none" => pass.left \cup pass.seen = Files
  /\ pass.by \in Auditors => startupShutdownLock = pass.by /\ Pending /\ ~started
  /\ launcher = "off" => notification = None

\* The store's lock and the audit's state through Startup and Shutdown.
Lifecycle ==
  /\ running = started
  /\ \A s \in Stoppers : pc[s] \in {"lock", "send", "wait"} => runningLock = s /\ running
  /\ pc["owner"] = "start" => runningLock = "owner" /\ ~running
  /\ \A p \in Auditors : pc[p] = "send" => started
  /\ ~started => notifyChan = <<>> /\ launcher = "off"
  /\ \A s \in Stoppers : done[s] => launcher = "off"

AuditInv ==
  /\ TypeOK
  /\ pass \in PassState
  /\ LockHeld
  /\ OneRequest
  /\ OnePass
  /\ Lifecycle
  /\ AuditPassIsComplete
=============================================================================
