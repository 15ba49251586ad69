----------------------------- MODULE AuditProofs -----------------------------
(* Proofs about Audit, for any files and any number of callers of AuditPass. *)
EXTENDS Audit, TLAPS

\* The names of the parties are different, and no request is None.
LEMMA AuditFacts ==
  /\ "owner" \in Stoppers /\ "restarter" \in Stoppers
  /\ Auditors \subseteq Callers /\ Stoppers \subseteq Callers
  /\ \A p \in Callers : p # "free" /\ p # "none" /\ p # "self" /\ p # "launcher"
  /\ \A p \in Auditors : p \notin Stoppers
  /\ \A p \in Stoppers : p \notin Auditors
  /\ "free" \notin Callers /\ "none" \notin Callers /\ "self" \notin Callers
  /\ "launcher" \notin Callers /\ "none" \notin Auditors
BY AuditAssumption DEF Stoppers, Callers

LEMMA NotificationFacts ==
  /\ None \in Notification /\ Disable("self") \in Notification /\ None # Disable("self")
  /\ \A p \in Callers : /\ Pass(p) \in Notification /\ Disable(p) \in Notification
                        /\ Pass(p) # None /\ Disable(p) # None
                        /\ Pass(p) # Disable("self") /\ Disable(p) # Disable("self")
  /\ \A p : /\ Pass(p).from = p /\ Disable(p).from = p
            /\ Pass(p).action = "pass" /\ Disable(p).action = "disable"
  /\ None.from = "none" /\ None.action = "none"
BY AuditFacts DEF None, Pass, Disable, Notification

\* What a channel with at most one notification holds.
LEMMA ChannelFacts ==
  ASSUME NEW n \in Notification
  PROVE  /\ Head(<<n>>) = n /\ Tail(<<n>>) = <<>> /\ <<n>> # <<>>
         /\ Len(<<n>>) <= 1 /\ \A i \in DOMAIN <<n>> : <<n>>[i] \in Notification
         /\ Len(<< >>) <= 1 /\ \A i \in DOMAIN << >> : << >>[i] \in Notification
OBVIOUS

\* The holder of the lock makes a request of its own kind.
LEMMA RequestFacts ==
  ASSUME Pending
  PROVE  /\ Request \in Notification /\ Request # None /\ Request # Disable("self")
         /\ Request.from = startupShutdownLock
         /\ startupShutdownLock \in Auditors => Request.action = "pass"
         /\ startupShutdownLock \notin Auditors => Request.action = "disable"
BY NotificationFacts DEF Pending, Request

\* Nothing has been started, called or requested.
LEMMA InitAudit == Init => AuditInv
<1> SUFFICES ASSUME Init PROVE AuditInv
  OBVIOUS
<1> USE AuditFacts, NotificationFacts
<1>1. TypeOK
  <2>1. Len(notifyChan) <= 1 /\ \A i \in DOMAIN notifyChan : notifyChan[i] \in Notification
    BY ChannelFacts DEF Init
  <2>2. calls \in 0..MaxCalls /\ starts \in 0..MaxStarts
    BY AuditAssumption DEF Init
  <2> QED
    BY <2>1, <2>2 DEF Init, TypeOK, NoPass
<1>2. pass \in PassState
  BY DEF Init, NoPass, PassState
<1>3. LockHeld /\ OnePass /\ Lifecycle /\ AuditPassIsComplete
  BY DEF Init, NoPass, LockHeld, OnePass, Lifecycle, AuditPassIsComplete
<1>4. OneRequest
  BY DEF Init, NoPass, OneRequest
<1> QED
  BY <1>1, <1>2, <1>3, <1>4 DEF AuditInv

\* The notification types follow from what OneRequest says they are.
LEMMA RequestTypes ==
  ASSUME OneRequest
  PROVE  /\ Len(notifyChan) <= 1 /\ \A i \in DOMAIN notifyChan : notifyChan[i] \in Notification
         /\ notification \in Notification
         /\ pass.taken \in Notification
<1>1. CASE Pending
  BY <1>1, RequestFacts, NotificationFacts, ChannelFacts DEF OneRequest
<1>2. CASE ~Pending
  BY <1>2, NotificationFacts, ChannelFacts DEF OneRequest
<1> QED
  BY <1>1, <1>2

\* A pass ends with r.  What the launcher then has in hand is nothing, its own
\* failure, or the request that nobody else holds; a pass that was to answer a caller
\* of AuditPass was not stopped.
LEMMA AuditEndPass ==
  ASSUME AuditInv, pass.by # "none", NEW r, NEW how, EndPass(r, how),
         UNCHANGED <<lockVars, restartRequested, calls, starts>>,
         \/ UNCHANGED pc
         \/ pc["restarter"] = "idle" /\ pc' = [pc EXCEPT !["restarter"] = "call"],
         UNCHANGED notifyChan \/ notifyChan' = <<>>,
         \/ r \in {None, Disable("self")}
         \/ /\ r = Request /\ Pending /\ pass.by = "launcher" /\ notification = None
            /\ notifyChan' = <<>>,
         how \in {"none", "failed", "noNames", "complete", "stopped", "partial"},
         pass.by \in Auditors \/ notification # None => how \in {"complete", "failed", "noNames"}
  PROVE  AuditInv'
<1> USE AuditFacts, NotificationFacts
<1> DEFINE for == IF pass.by = "launcher" THEN notification.from ELSE pass.by
<1>1. /\ TypeOK /\ pass \in PassState /\ LockHeld /\ OneRequest /\ OnePass /\ Lifecycle
      /\ AuditPassIsComplete
      /\ UNCHANGED <<running, runningLock, startupShutdownLock, started>>
  BY DEF AuditInv, lockVars
<1>2. /\ pass' = [by |-> "none", at |-> "none", left |-> pass.left, seen |-> {}, taken |-> None]
      /\ done' = IF for \in Callers THEN [done EXCEPT ![for] = TRUE] ELSE done
      /\ result' = IF for \in Auditors THEN [result EXCEPT ![for] = how] ELSE result
      /\ pass.by = "launcher" => launcher' = "loop" /\ notification' = r
      /\ pass.by # "launcher" => UNCHANGED <<launcher, notification>>
  BY DEF EndPass, NextNotification, launchVars
<1>3. for = "none" \/ for = "self" \/ (for = startupShutdownLock /\ for \in Auditors /\ Pending /\ pc[for] = "wait")
  <2>1. CASE pass.by = "launcher"
    <3>1. CASE notification \in {None, Disable("self")}
      BY <2>1, <3>1
    <3>2. CASE notification = Request /\ Pending
      BY <1>1, <2>1, <3>2, RequestFacts DEF OnePass, Pending
    <3> QED
      BY <1>1, <3>1, <3>2 DEF OneRequest
  <2>2. CASE pass.by # "launcher"
    BY <1>1, <2>2 DEF OnePass, Pending, PassState
  <2> QED
    BY <2>1, <2>2
<1>4. for \in Auditors => how \in {"complete", "failed", "noNames"}
  BY <1>1 DEF PassState
<1> HIDE DEF for
<1>5. /\ pc' \in [Callers -> {"idle", "start", "call", "lock", "send", "wait"}]
      /\ \A p \in Callers : p # "restarter" => pc'[p] = pc[p]
      /\ pc'["restarter"] = pc["restarter"]
           \/ (pc["restarter"] = "idle" /\ pc'["restarter"] = "call")
  BY <1>1 DEF TypeOK
<1>6. LockHeld'
  BY <1>1, <1>2, <1>3, <1>5 DEF LockHeld, TypeOK
<1>7. /\ pass'.by = "none" /\ pass'.at = "none" /\ pass'.left = pass.left /\ pass'.seen = {}
      /\ pass'.taken = None /\ pass' \in PassState
  BY <1>1, <1>2 DEF NoPass, PassState
<1>8. Request' = Request
  BY <1>1 DEF Request
<1>9. (for \notin Callers => (Pending' <=> Pending))
  BY <1>1, <1>2, <1>5 DEF Pending, TypeOK, LockHeld
<1>10. OneRequest'
  <2>1. CASE for \in Callers
    <3>1. /\ Pending
          /\ notifyChan = <<>> /\ r \in {None, Disable("self")}
          /\ notification' \in {None, Disable("self")}
      <4>1. Pending
        BY <1>3, <2>1
      <4>2. CASE pass.by = "launcher"
        <5>1. notification.from \in Callers
          BY <2>1, <4>2 DEF for
        <5>2. notification # None /\ notification # Disable("self")
          BY <5>1
        <5> QED
          BY <1>1, <1>2, <4>1, <4>2, <5>2 DEF OneRequest
      <4>3. CASE pass.by # "launcher"
        <5>1. pass.by \in Auditors /\ ~started
          BY <1>1, <4>3 DEF PassState, OnePass
        <5> QED
          BY <1>1, <1>2, <4>1, <4>3, <5>1 DEF Lifecycle, OnePass
      <4> QED
        BY <4>2, <4>3, <4>1
    <3> QED
      BY <3>1, <1>7 DEF OneRequest
  <2>2. CASE for \notin Callers
    <3>1. CASE pass.by = "launcher"
      <4>1. Pending' <=> Pending
        BY <1>9, <2>2
      <4> QED
        BY <1>1, <1>2, <1>7, <1>8, <4>1, <3>1 DEF OneRequest
    <3>2. CASE pass.by # "launcher"
      BY <1>1, <2>2, <3>2 DEF PassState, for
    <3> QED
      BY <3>1, <3>2
  <2> QED
    BY <2>1, <2>2
<1>11. OnePass'
  BY <1>1, <1>2, <1>7 DEF OnePass, TypeOK
<1>12. Lifecycle'
  <2>1. \A s \in Stoppers : done'[s] => done[s]
    BY <1>1, <1>2, <1>3 DEF TypeOK
  <2>2. ~started => launcher' = "off" /\ notifyChan' = <<>>
    BY <1>1, <1>2 DEF Lifecycle, OnePass
  <2>3. launcher = "off" => launcher' = "off"
    BY <1>1, <1>2 DEF OnePass
  <2> QED
    BY <1>1, <1>5, <2>1, <2>2, <2>3 DEF Lifecycle
<1>13. AuditPassIsComplete'
  BY <1>1, <1>2, <1>3, <1>4 DEF AuditPassIsComplete, TypeOK
<1>14. TypeOK'
  <2>1. done' \in [Callers -> BOOLEAN]
    BY <1>1, <1>2 DEF TypeOK
  <2>2. result' \in [Auditors -> {"none", "failed", "noNames", "complete", "stopped", "partial"}]
    BY <1>1, <1>2 DEF TypeOK
  <2>3. launcher' \in {"off", "loop", "passing"}
    BY <1>1, <1>2 DEF TypeOK
  <2>4. /\ Len(notifyChan') <= 1 /\ \A i \in DOMAIN notifyChan' : notifyChan'[i] \in Notification'
        /\ notification' \in Notification'
    <3>1. (OneRequest => /\ Len(notifyChan) <= 1
                         /\ \A i \in DOMAIN notifyChan : notifyChan[i] \in Notification
                         /\ notification \in Notification)'
      BY RequestTypes, PTL
    <3> QED
      BY <1>10, <3>1
  <2>5. pass'.left \cup pass'.seen \subseteq Files
    BY <1>7 DEF PassState
  <2> QED
    BY <1>1, <1>5, <1>7, <2>1, <2>2, <2>3, <2>4, <2>5 DEF TypeOK, Notification
<1> QED
  BY <1>6, <1>7, <1>10, <1>11, <1>12, <1>13, <1>14 DEF AuditInv, PassState, Notification

\* A pass goes on: it has looked at one more name, or turns to compact what failed.
LEMMA AuditPassFrame ==
  ASSUME AuditInv, pass.by # "none", pass' \in PassState, pass'.at # "none",
         pass'.by = pass.by, pass'.taken = pass.taken,
         pass'.left \cup pass'.seen = pass.left \cup pass.seen,
         UNCHANGED <<lockVars, notifyChan, pc, done, launchVars, result, restartRequested,
                     calls, starts>>
  PROVE  AuditInv'
<1>1. /\ Request' = Request /\ Pending' = Pending
      /\ UNCHANGED <<running, runningLock, startupShutdownLock, started, launcher, notification>>
  BY DEF Request, Pending, lockVars, launchVars
<1>2. TypeOK'
  BY <1>1 DEF AuditInv, TypeOK, PassState
<1>3. LockHeld' /\ OneRequest' /\ Lifecycle' /\ AuditPassIsComplete'
  BY <1>1 DEF AuditInv, LockHeld, OneRequest, Lifecycle, AuditPassIsComplete
<1>4. OnePass'
  BY <1>1 DEF AuditInv, OnePass
<1> QED
  BY <1>2, <1>3, <1>4 DEF AuditInv

\* Steps of a pass.
LEMMA AuditPassStep == ASSUME AuditInv, PassStep PROVE AuditInv'
<1> USE AuditFacts, NotificationFacts
<1>1. /\ TypeOK /\ pass \in PassState /\ OneRequest /\ OnePass /\ Lifecycle
  BY DEF AuditInv
<1>3. \A r : EndOf(r) \in {"none", "failed", "noNames", "complete", "stopped", "partial"}
  BY DEF EndOf
<1>4. CASE PassNoNames
  BY <1>1, <1>4, AuditEndPass DEF PassNoNames, OnePass
<1>5. CASE PassThrough
  <2>1. EndOf(None) = "complete"
    BY <1>1, <1>5 DEF PassThrough, EndOf, OnePass
  <2> QED
    BY <1>1, <1>5, <2>1, AuditEndPass DEF PassThrough, OnePass
<1>6. CASE PassStopped
  <2>1. notifyChan = <<Request>> /\ Pending /\ pass.by = "launcher" /\ notification = None
    BY <1>1, <1>6 DEF PassStopped, Reaches, Waiting, OneRequest, OnePass
  <2>2. Head(notifyChan) = Request /\ notifyChan' = <<>>
    BY <1>6, <2>1, RequestFacts, ChannelFacts DEF PassStopped
  <2> QED
    BY <1>1, <1>3, <1>6, <2>1, <2>2, AuditEndPass DEF PassStopped, OnePass
<1>7. CASE PassTake
  <2>1. notifyChan = <<Request>> /\ Pending /\ pass.by = "launcher" /\ notification = None
    BY <1>1, <1>7 DEF PassTake, Reaches, Waiting, OneRequest, OnePass
  <2>2. Head(notifyChan) = Request /\ notifyChan' = <<>>
    BY <1>7, <2>1, RequestFacts, ChannelFacts DEF PassTake
  <2>3. /\ pass' \in PassState /\ pass'.by = pass.by /\ pass'.at = pass.at /\ pass'.left = pass.left
        /\ pass'.seen = pass.seen /\ pass'.taken = Request
    BY <1>1, <1>7, <2>1, <2>2, RequestFacts DEF PassTake, PassState
  <2>4. /\ Request' = Request /\ Pending' = Pending
        /\ UNCHANGED <<running, runningLock, startupShutdownLock, started, launcher, notification>>
    BY <1>7 DEF Request, Pending, PassTake, lockVars, launchVars
  <2>5. TypeOK'
    BY <1>1, <1>7, <2>2, <2>3, <2>4, ChannelFacts DEF PassTake, TypeOK, PassState
  <2>6. LockHeld' /\ Lifecycle' /\ AuditPassIsComplete'
    BY <1>7, <2>2, <2>4 DEF PassTake, AuditInv, LockHeld, Lifecycle, AuditPassIsComplete
  <2>7. OneRequest'
    BY <2>1, <2>2, <2>3, <2>4 DEF OneRequest
  <2>8. OnePass'
    BY <1>1, <2>1, <2>3, <2>4 DEF OnePass
  <2> QED
    BY <2>3, <2>5, <2>6, <2>7, <2>8 DEF AuditInv
<1>8. ASSUME NEW f \in Files, NEW at \in {"loop", "check", "compact"}, PassNext(f, at) PROVE AuditInv'
  <2>1. /\ pass' \in PassState /\ pass'.by = pass.by /\ pass'.at = at /\ pass'.taken = pass.taken
        /\ pass'.left = pass.left \ {f} /\ pass'.seen = pass.seen \cup {f} /\ f \in pass.left
    BY <1>1, <1>8 DEF PassNext, PassState
  <2>2. pass.by # "none"
    BY <1>1, <1>8 DEF PassNext, OnePass
  <2> QED
    BY <1>8, <2>1, <2>2, AuditPassFrame DEF PassNext
<1>9. ASSUME pass.taken # None
      PROVE  /\ pass.by = "launcher" /\ notification = None /\ pass.taken = Request /\ Pending
             /\ notifyChan = <<>>
  BY <1>1, <1>9 DEF OneRequest, OnePass
<1>10. ASSUME NEW at \in {"loop", "compact"}, PassChecked(at) PROVE AuditInv'
  <2>1. CASE pass.taken # None
    BY <1>1, <1>3, <1>9, <1>10, <2>1, AuditEndPass DEF PassChecked, OnePass
  <2>2. CASE pass.taken = None
    <3>1. /\ pass' \in PassState /\ pass'.by = pass.by /\ pass'.at = at /\ pass'.taken = pass.taken
          /\ pass'.left = pass.left /\ pass'.seen = pass.seen
      BY <1>1, <1>10, <2>2 DEF PassChecked, PassState
    <3>2. pass.by # "none"
      BY <1>1, <1>10 DEF PassChecked, OnePass
    <3> QED
      BY <1>10, <2>2, <3>1, <3>2, AuditPassFrame DEF PassChecked
  <2> QED
    BY <2>1, <2>2
<1>11. CASE PassCompacted
  <2>1. CASE pass.taken # None
    BY <1>1, <1>3, <1>9, <1>11, <2>1, AuditEndPass DEF PassCompacted, OnePass
  <2>2. CASE pass.taken = None
    BY <1>1, <1>11, <2>2, AuditEndPass DEF PassCompacted, OnePass
  <2> QED
    BY <2>1, <2>2
<1> QED
  BY <1>4, <1>5, <1>6, <1>7, <1>8, <1>10, <1>11 DEF PassStep

\* Steps of the launcher.
LEMMA AuditLauncherStep == ASSUME AuditInv, LauncherStep PROVE AuditInv'
<1> USE AuditFacts, NotificationFacts
<1>1. /\ TypeOK /\ pass \in PassState /\ LockHeld /\ OneRequest /\ OnePass /\ Lifecycle
      /\ AuditPassIsComplete
  BY DEF AuditInv
<1>2. CASE LauncherTake
  <2>1. notifyChan = <<Request>> /\ Pending /\ notification = None /\ pass.taken = None
    BY <1>1, <1>2 DEF LauncherTake, Waiting, OneRequest
  <2>2. notification' = Request /\ notifyChan' = <<>>
    BY <1>2, <2>1, RequestFacts, ChannelFacts DEF LauncherTake
  <2>3. /\ Request' = Request /\ Pending' = Pending
        /\ UNCHANGED <<running, runningLock, startupShutdownLock, started, launcher, pass, pc, done,
                       result, restartRequested, calls, starts>>
    BY <1>2 DEF Request, Pending, LauncherTake, lockVars
  <2>4. TypeOK'
    BY <1>1, <2>1, <2>2, <2>3, ChannelFacts, RequestFacts DEF TypeOK
  <2>5. LockHeld' /\ Lifecycle' /\ AuditPassIsComplete'
    BY <1>1, <2>2, <2>3 DEF LockHeld, Lifecycle, AuditPassIsComplete
  <2>6. OneRequest'
    BY <2>1, <2>2, <2>3 DEF OneRequest
  <2>7. OnePass'
    BY <1>1, <1>2, <2>3 DEF OnePass, LauncherTake
  <2> QED
    BY <1>1, <2>3, <2>4, <2>5, <2>6, <2>7 DEF AuditInv
<1>3. CASE LauncherPass
  <2>1. /\ pass'.by = "launcher" /\ pass'.at = "loop" /\ pass'.left = Files /\ pass'.seen = {}
        /\ pass'.taken = None /\ pass' \in PassState /\ launcher' = "passing" /\ launcher = "loop"
    BY <1>3 DEF LauncherPass, BeginPass, Names, PassState
  <2>2. notification.action # "disable"
    BY <1>3 DEF LauncherPass
  <2>3. /\ Request' = Request /\ Pending' = Pending
        /\ UNCHANGED <<running, runningLock, startupShutdownLock, started, notification, notifyChan, pc,
                       done, result, restartRequested, calls, starts>>
    BY <1>3 DEF Request, Pending, LauncherPass, lockVars
  <2>4. TypeOK'
    BY <1>1, <2>1, <2>3 DEF TypeOK
  <2>5. LockHeld' /\ AuditPassIsComplete' /\ OneRequest'
    BY <1>1, <2>1, <2>3 DEF LockHeld, AuditPassIsComplete, OneRequest
  <2>6. Lifecycle'
    BY <1>1, <2>1, <2>3 DEF Lifecycle
  <2>7. OnePass'
    BY <2>1, <2>2, <2>3 DEF OnePass
  <2> QED
    BY <2>1, <2>4, <2>5, <2>6, <2>7 DEF AuditInv
<1>4. CASE LauncherEnd
  <2>1. /\ launcher = "loop" /\ launcher' = "off" /\ notification' = None /\ pass.by # "launcher"
        /\ UNCHANGED <<running, runningLock, startupShutdownLock, started, notifyChan, pc, pass,
                       result, restartRequested, calls, starts>>
    BY <1>1, <1>4 DEF LauncherEnd, lockVars, OnePass
  <2>2. Request' = Request
    BY <2>1 DEF Request
  <2>3. CASE notification = Disable("self")
    <3>1. done' = done
      BY <1>4, <2>3 DEF LauncherEnd
    <3>2. Pending' = Pending
      BY <2>1, <3>1 DEF Pending
    <3>3. TypeOK' /\ LockHeld' /\ AuditPassIsComplete'
      BY <1>1, <2>1, <3>1 DEF TypeOK, LockHeld, AuditPassIsComplete
    <3>4. OneRequest'
      BY <1>1, <2>1, <2>2, <3>2 DEF OneRequest
    <3>5. OnePass' /\ Lifecycle'
      BY <1>1, <2>1, <3>1, <3>2 DEF OnePass, Lifecycle
    <3> QED
      BY <1>1, <2>1, <3>3, <3>4, <3>5 DEF AuditInv
  <2>4. CASE notification # Disable("self")
    <3>1. notification = Request /\ Pending /\ startupShutdownLock \notin Auditors
      BY <1>1, <1>4, <2>4, RequestFacts DEF LauncherEnd, OneRequest
    <3>2. /\ done' = [done EXCEPT ![startupShutdownLock] = TRUE]
          /\ startupShutdownLock \in Stoppers /\ pc[startupShutdownLock] = "wait"
      BY <1>4, <3>1, RequestFacts DEF LauncherEnd, Pending, Callers
    <3>3. notifyChan = <<>> /\ pass.taken = None
      BY <1>1, <2>4, <3>1, RequestFacts DEF OneRequest
    <3>4. TypeOK'
      BY <1>1, <2>1, <3>2 DEF TypeOK
    <3>5. LockHeld' /\ AuditPassIsComplete'
      BY <1>1, <2>1, <3>2 DEF LockHeld, AuditPassIsComplete, TypeOK
    <3>6. OneRequest'
      BY <2>1, <3>3 DEF OneRequest
    <3>7. OnePass' /\ Lifecycle'
      BY <1>1, <2>1, <3>2 DEF OnePass, Lifecycle, PassState
    <3> QED
      BY <1>1, <2>1, <3>4, <3>5, <3>6, <3>7 DEF AuditInv
  <2> QED
    BY <2>3, <2>4
<1> QED
  BY <1>2, <1>3, <1>4 DEF LauncherStep

\* A caller that does not hold the audit's lock, and does not take it, moves on.
LEMMA AuditCallerFrame ==
  ASSUME AuditInv, TypeOK', NEW p \in Callers, NEW at,
         pc[p] \notin {"send", "wait"}, at \in {"idle", "start", "call", "lock"},
         p \in Auditors => at \in {"idle", "lock"},
         p \in Stoppers => (at = "lock" => runningLock' = p /\ running),
         at = "start" => p = "owner" /\ runningLock' = "owner" /\ ~running,
         pc' = [pc EXCEPT ![p] = at],
         runningLock' = runningLock \/ runningLock = "free",
         \A q \in Auditors : result'[q] = result[q] \/ q = p,
         UNCHANGED <<running, startupShutdownLock, started, notifyChan, done, launchVars, pass>>
  PROVE  AuditInv'
<1> USE AuditFacts
<1>1. /\ TypeOK /\ pass \in PassState /\ LockHeld /\ OneRequest /\ OnePass /\ Lifecycle
      /\ AuditPassIsComplete
      /\ UNCHANGED <<launcher, notification>>
  BY DEF AuditInv, launchVars
<1>2. pc'[p] = at /\ \A q \in Callers : q # p => pc'[q] = pc[q]
  BY <1>1 DEF TypeOK
<1>3. Request' = Request /\ (Pending' <=> Pending)
  BY <1>1, <1>2 DEF Request, Pending
<1>4. LockHeld'
  BY <1>1, <1>2 DEF LockHeld
<1>5. OneRequest' /\ OnePass'
  BY <1>1, <1>3 DEF OneRequest, OnePass
<1>6. Lifecycle'
  BY <1>1, <1>2 DEF Lifecycle, Stoppers
<1>7. AuditPassIsComplete'
  BY <1>1, <1>2 DEF AuditPassIsComplete, LockHeld
<1> QED
  BY <1>1, <1>4, <1>5, <1>6, <1>7 DEF AuditInv

\* The holder of the lock puts its request into the channel: there was none anywhere.
LEMMA AuditNotify ==
  ASSUME AuditInv, NEW p \in Callers,
         Notify(p, IF p \in Auditors THEN Pass(p) ELSE Disable(p))
  PROVE  AuditInv'
<1> USE AuditFacts, NotificationFacts
<1>1. /\ TypeOK /\ pass \in PassState /\ LockHeld /\ OneRequest /\ OnePass /\ Lifecycle
      /\ AuditPassIsComplete
  BY DEF AuditInv
<1>2. /\ pc[p] = "send" /\ startupShutdownLock = p /\ ~done[p] /\ started /\ p # "launcher"
      /\ UNCHANGED <<running, runningLock, startupShutdownLock, started, done, launcher, notification,
                     pass, result, restartRequested, calls, starts>>
  BY <1>1 DEF Notify, lockVars, launchVars, LockHeld, Lifecycle, Callers
<1>3. /\ pc'[p] = "wait" /\ \A q \in Callers : q # p => pc'[q] = pc[q]
      /\ pc' \in [Callers -> {"idle", "start", "call", "lock", "send", "wait"}]
  BY <1>1 DEF Notify, TypeOK
<1>4. ~Pending
  BY <1>2 DEF Pending
<1>5. Request' = Request /\ Pending' /\ notifyChan' = <<Request>> /\ Request \in Notification
  BY <1>2, <1>3 DEF Request, Pending, Notify
<1>6. OneRequest'
  BY <1>1, <1>2, <1>4, <1>5 DEF OneRequest
<1>7. TypeOK'
  BY <1>1, <1>2, <1>3, <1>5, ChannelFacts DEF TypeOK
<1>8. LockHeld' /\ Lifecycle' /\ AuditPassIsComplete'
  BY <1>1, <1>2, <1>3 DEF LockHeld, Lifecycle, AuditPassIsComplete
<1>9. OnePass'
  BY <1>1, <1>2 DEF OnePass
<1> QED
  BY <1>1, <1>2, <1>6, <1>7, <1>8, <1>9 DEF AuditInv

\* Steps of a caller of AuditPass.
LEMMA AuditAuditorStep ==
  ASSUME AuditInv, NEW p \in Auditors, AuditCall(p) \/ AuditLock(p) \/ AuditorStep(p)
  PROVE  AuditInv'
<1> USE AuditFacts, NotificationFacts
<1>1. /\ TypeOK /\ pass \in PassState /\ LockHeld /\ OneRequest /\ OnePass /\ Lifecycle
      /\ AuditPassIsComplete
  BY DEF AuditInv
<1>2. CASE AuditCall(p)
  <2>1. TypeOK'
    <3>1. calls' \in 0..MaxCalls
      BY <1>1, <1>2, AuditAssumption DEF AuditCall, TypeOK
    <3> QED
      BY <1>1, <1>2, <3>1 DEF AuditCall, TypeOK, lockVars, launchVars
  <2>2. \A q \in Auditors : result'[q] = result[q] \/ q = p
    BY <1>1, <1>2 DEF AuditCall, TypeOK
  <2> QED
    BY <1>2, <2>1, <2>2, AuditCallerFrame DEF AuditCall, lockVars
<1>3. CASE AuditLock(p)
  <2>1. /\ pc[p] = "lock" /\ startupShutdownLock = "free" /\ startupShutdownLock' = p
        /\ UNCHANGED <<running, runningLock, started, notifyChan, done, launcher, notification, result,
                       restartRequested, calls, starts>>
    BY <1>3 DEF AuditLock, launchVars
  <2>2. ~Pending /\ ~done[p]
    BY <1>1, <2>1 DEF Pending, LockHeld
  <2>3. /\ notifyChan = <<>> /\ notification \in {None, Disable("self")} /\ pass.taken = None
        /\ pass.by \notin Auditors
    BY <1>1, <2>2 DEF OneRequest, OnePass
  <2>4. \A q \in Callers : q # p => pc'[q] = pc[q]
    BY <1>1, <1>3 DEF AuditLock, TypeOK
  <2>5. pc'[p] \in {"send", "wait"} /\ (pc'[p] = "send" => started)
        /\ pc' \in [Callers -> {"idle", "start", "call", "lock", "send", "wait"}]
    BY <1>1, <1>3 DEF AuditLock, TypeOK
  <2>6. LockHeld' /\ Lifecycle' /\ AuditPassIsComplete'
    BY <1>1, <2>1, <2>4, <2>5 DEF LockHeld, Lifecycle, AuditPassIsComplete
  <2>7. CASE started
    <3>1. pass' = pass
      BY <1>3, <2>7 DEF AuditLock
    <3>2. TypeOK' /\ OneRequest' /\ OnePass'
      BY <1>1, <2>1, <2>3, <2>5, <3>1 DEF TypeOK, OneRequest, OnePass
    <3> QED
      BY <1>1, <2>6, <3>1, <3>2 DEF AuditInv
  <2>8. CASE ~started
    <3>1. /\ pass'.by = p /\ pass'.at = "loop" /\ pass'.left = Files /\ pass'.seen = {}
          /\ pass'.taken = None /\ pass' \in PassState /\ pc'[p] = "wait"
      BY <1>1, <1>3, <2>8 DEF AuditLock, BeginPass, Names, PassState, TypeOK
    <3>2. TypeOK'
      BY <1>1, <2>1, <2>5, <3>1 DEF TypeOK
    <3>3. OneRequest'
      BY <2>1, <2>3, <3>1 DEF OneRequest
    <3>4. Pending'
      BY <2>1, <2>2, <3>1 DEF Pending
    <3>5. OnePass'
      BY <1>1, <2>1, <2>8, <3>1, <3>4 DEF OnePass, Lifecycle
    <3> QED
      BY <2>6, <3>1, <3>2, <3>3, <3>5 DEF AuditInv
  <2> QED
    BY <2>7, <2>8
<1>4. CASE AuditReturn(p)
  <2>1. /\ pc[p] = "wait" /\ done[p] /\ startupShutdownLock = p /\ startupShutdownLock' = "free"
        /\ UNCHANGED <<running, runningLock, started, notifyChan, launcher, notification, pass, result,
                       restartRequested, calls, starts>>
    BY <1>1, <1>4 DEF AuditReturn, launchVars, LockHeld
  <2>2. /\ pc'[p] = "idle" /\ ~done'[p]
        /\ \A q \in Callers : q # p => pc'[q] = pc[q] /\ done'[q] = done[q]
        /\ pc' \in [Callers -> {"idle", "start", "call", "lock", "send", "wait"}]
        /\ done' \in [Callers -> BOOLEAN]
    BY <1>1, <1>4 DEF AuditReturn, TypeOK
  <2>3. ~Pending
    BY <2>1 DEF Pending
  <2>4. TypeOK' /\ OneRequest' /\ OnePass'
    BY <1>1, <2>1, <2>2, <2>3 DEF TypeOK, OneRequest, OnePass
  <2>5. LockHeld' /\ Lifecycle' /\ AuditPassIsComplete'
    BY <1>1, <2>1, <2>2 DEF LockHeld, Lifecycle, AuditPassIsComplete
  <2> QED
    BY <1>1, <2>1, <2>4, <2>5 DEF AuditInv
<1> QED
  BY <1>2, <1>3, <1>4, AuditNotify DEF AuditorStep

\* Startup, and the owner's wish to stop.
LEMMA AuditOwnerStep == ASSUME AuditInv, StartupCall \/ AuditStartup \/ OwnerStops PROVE AuditInv'
<1> USE AuditFacts, NotificationFacts
<1>1. /\ TypeOK /\ pass \in PassState /\ LockHeld /\ OneRequest /\ OnePass /\ Lifecycle
      /\ AuditPassIsComplete
  BY DEF AuditInv
<1>2. CASE StartupCall
  <2>1. TypeOK'
    <3>1. starts' \in 0..MaxStarts
      BY <1>1, <1>2, AuditAssumption DEF StartupCall, TypeOK
    <3> QED
      BY <1>1, <1>2, <3>1 DEF StartupCall, TypeOK, launchVars
  <2> QED
    BY <1>2, <2>1, AuditCallerFrame DEF StartupCall
<1>3. CASE OwnerStops
  <2>1. TypeOK'
    BY <1>1, <1>3 DEF OwnerStops, TypeOK, lockVars, launchVars
  <2> QED
    BY <1>3, <2>1, AuditCallerFrame DEF OwnerStops, lockVars
<1>4. CASE AuditStartup
  <2>1. /\ pc["owner"] = "start" /\ startupShutdownLock = "free" /\ ~started /\ started'
        /\ notifyChan' = <<>> /\ launcher' = "loop" /\ running' = TRUE /\ runningLock' = "free"
        /\ started' = TRUE
        /\ UNCHANGED <<startupShutdownLock, done, notification, pass, result, restartRequested, calls,
                       starts>>
    BY <1>4 DEF AuditStartup
  <2>2. /\ pc'["owner"] = "idle" /\ \A q \in Callers : q # "owner" => pc'[q] = pc[q]
        /\ pc' \in [Callers -> {"idle", "start", "call", "lock", "send", "wait"}]
    BY <1>1, <1>4 DEF AuditStartup, TypeOK
  <2>3. runningLock = "owner" /\ ~running /\ launcher = "off" /\ ~Pending
    BY <1>1, <2>1 DEF Lifecycle, Pending
  <2>4. TypeOK'
    BY <1>1, <2>1, <2>2, ChannelFacts DEF TypeOK
  <2>5. LockHeld' /\ AuditPassIsComplete'
    BY <1>1, <2>1, <2>2 DEF LockHeld, AuditPassIsComplete
  <2>6. OneRequest'
    BY <1>1, <2>1, <2>3 DEF OneRequest
  <2>7. OnePass'
    BY <1>1, <2>1, <2>3 DEF OnePass
  <2>8. \A s \in Stoppers : ~done[s]
    BY <1>1, <2>1 DEF LockHeld
  <2>9. Lifecycle'
    BY <1>1, <2>1, <2>2, <2>3, <2>8 DEF Lifecycle, Stoppers
  <2> QED
    BY <1>1, <2>1, <2>4, <2>5, <2>6, <2>7, <2>9 DEF AuditInv
<1> QED
  BY <1>2, <1>3, <1>4

\* Shutdown, by the owner or by the goroutine of a failed audit.
LEMMA AuditStopperStep ==
  ASSUME AuditInv, NEW s \in Stoppers, ShutdownCall(s) \/ AuditShutdown(s) \/ StopperStep(s)
  PROVE  AuditInv'
<1> USE AuditFacts, NotificationFacts
<1>1. /\ TypeOK /\ pass \in PassState /\ LockHeld /\ OneRequest /\ OnePass /\ Lifecycle
      /\ AuditPassIsComplete
  BY DEF AuditInv
<1>2. CASE ShutdownCall(s)
  <2>1. TypeOK'
    <3>1. /\ UNCHANGED <<running, startupShutdownLock, started, notifyChan, done, launchVars, pass,
                           result, calls, starts>>
          /\ runningLock' \in {runningLock, s}
          /\ \E to \in {"lock", "idle"} : pc' = [pc EXCEPT ![s] = to]
      BY <1>2 DEF ShutdownCall, Stopped
    <3>2. restartRequested' \in BOOLEAN
      BY <1>1, <1>2, ZenonT(60) DEF ShutdownCall, Stopped, TypeOK
    <3>3. pc' \in [Callers -> {"idle", "start", "call", "lock", "send", "wait"}]
      BY <1>1, <3>1 DEF TypeOK, Callers
    <3>4. runningLock' \in Stoppers \cup {"free"}
      BY <1>1, <3>1 DEF TypeOK
    <3> QED BY <1>1, <3>1, <3>2, <3>3, <3>4, ZenonT(60) DEF TypeOK, launchVars
  <2>2. CASE running
    BY <1>2, <2>1, <2>2, AuditCallerFrame DEF ShutdownCall
  <2>3. CASE ~running
    BY <1>2, <2>1, <2>3, AuditCallerFrame DEF ShutdownCall, Stopped
  <2> QED
    BY <2>2, <2>3
<1>3. CASE AuditShutdown(s)
  <2>1. /\ pc[s] = "lock" /\ startupShutdownLock = "free" /\ startupShutdownLock' = s
        /\ UNCHANGED <<running, runningLock, started, notifyChan, done, launcher, notification, pass,
                       result, restartRequested, calls, starts>>
    BY <1>3 DEF AuditShutdown, launchVars
  <2>2. /\ pc'[s] = "send" /\ \A q \in Callers : q # s => pc'[q] = pc[q]
        /\ pc' \in [Callers -> {"idle", "start", "call", "lock", "send", "wait"}]
    BY <1>1, <1>3 DEF AuditShutdown, TypeOK
  <2>3. ~Pending
    BY <2>1 DEF Pending
  <2>4. TypeOK' /\ OneRequest' /\ OnePass'
    BY <1>1, <2>1, <2>2, <2>3 DEF TypeOK, OneRequest, OnePass
  <2>5. LockHeld' /\ Lifecycle' /\ AuditPassIsComplete'
    BY <1>1, <2>1, <2>2 DEF LockHeld, Lifecycle, AuditPassIsComplete
  <2> QED
    BY <1>1, <2>1, <2>4, <2>5 DEF AuditInv
<1>4. CASE ShutdownReturn(s)
  <2>1. /\ pc[s] = "wait" /\ done[s] /\ startupShutdownLock = s /\ startupShutdownLock' = "free"
        /\ started' = FALSE /\ notifyChan' = <<>> /\ running' = FALSE /\ runningLock' = "free"
        /\ UNCHANGED <<launcher, notification, pass, result, calls, starts>>
        /\ restartRequested' \in BOOLEAN
    BY <1>1, <1>4 DEF ShutdownReturn, Answered, Stopped, launchVars, LockHeld, TypeOK
  <2>2. /\ pc'[s] = "idle" /\ ~done'[s]
        /\ \A q \in Callers : q # s => pc'[q] = pc[q] /\ done'[q] = done[q]
        /\ pc' \in [Callers -> {"idle", "start", "call", "lock", "send", "wait"}]
        /\ done' \in [Callers -> BOOLEAN]
    BY <1>1, <1>4 DEF ShutdownReturn, Stopped, TypeOK
  <2>3. ~Pending /\ launcher = "off" /\ runningLock = s /\ running
    BY <1>1, <2>1 DEF Pending, Lifecycle
  <2>4. TypeOK'
    BY <1>1, <2>1, <2>2, ChannelFacts DEF TypeOK
  <2>5. OneRequest'
    BY <1>1, <2>1, <2>3 DEF OneRequest
  <2>6. OnePass'
    BY <1>1, <2>1, <2>3 DEF OnePass
  <2>7. LockHeld' /\ AuditPassIsComplete'
    BY <1>1, <2>1, <2>2 DEF LockHeld, AuditPassIsComplete
  <2>8. Lifecycle'
    BY <1>1, <2>1, <2>2, <2>3 DEF Lifecycle, LockHeld
  <2> QED
    BY <1>1, <2>1, <2>4, <2>5, <2>6, <2>7, <2>8 DEF AuditInv
<1> QED
  BY <1>2, <1>3, <1>4, AuditNotify DEF StopperStep

\* Every step keeps the invariant.
LEMMA AuditStep == AuditInv /\ [Next]_vars => AuditInv'
<1> SUFFICES ASSUME AuditInv, [Next]_vars PROVE AuditInv'
  OBVIOUS
<1>1. CASE UNCHANGED vars
  <2>1. /\ UNCHANGED <<running, runningLock, startupShutdownLock, started, notifyChan, pc, done,
                       launcher, notification, pass, result, restartRequested, calls, starts>>
    BY <1>1 DEF vars, lockVars, launchVars
  <2>2. Request' = Request /\ Pending' = Pending
    BY <2>1 DEF Request, Pending
  <2>3. TypeOK' /\ LockHeld' /\ Lifecycle' /\ AuditPassIsComplete'
    BY <2>1 DEF AuditInv, TypeOK, LockHeld, Lifecycle, AuditPassIsComplete
  <2>4. OneRequest' /\ OnePass'
    BY <2>1, <2>2 DEF AuditInv, OneRequest, OnePass
  <2> QED
    BY <2>1, <2>3, <2>4 DEF AuditInv
<1> QED
  BY <1>1, AuditPassStep, AuditLauncherStep, AuditAuditorStep, AuditOwnerStep, AuditStopperStep
  DEF Next

\* The channel never holds two notifications, and every variable keeps its type.
THEOREM AuditTypes == Spec => []TypeOK
<1>1. AuditInv => TypeOK
  BY DEF AuditInv
<1> QED
  BY <1>1, InitAudit, AuditStep, PTL DEF Spec

\* AuditPass returns only after a pass that looked at every name, or that found a
\* failure or no directory, however Shutdown and the other callers interleave: the
\* audit's lock lets in one caller at a time, so no request can stop its pass.
THEOREM AuditPassCompletes == Spec => []AuditPassIsComplete
<1>1. AuditInv => AuditPassIsComplete
  BY DEF AuditInv
<1> QED
  BY <1>1, InitAudit, AuditStep, PTL DEF Spec

\* Once Shutdown has returned neither the launcher nor a pass of it is running.
THEOREM ShutdownEndsAudit == Spec => []NothingAfterShutdown
<1>1. AuditInv => NothingAfterShutdown
  BY DEF AuditInv, NothingAfterShutdown, Lifecycle, OnePass
<1> QED
  BY <1>1, InitAudit, AuditStep, PTL DEF Spec
=============================================================================
