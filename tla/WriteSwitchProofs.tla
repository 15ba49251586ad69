------------------------- MODULE WriteSwitchProofs --------------------------
(* Proofs about WriteSwitch, for any number of workers and users. *)
EXTENDS WriteSwitch, TLAPS

\* Facts about the constants that most steps need.
LEMMA SwitchFacts ==
  /\ Workers \subseteq Nat /\ NumWorkers \in Nat /\ NumWorkers + 1 \in Nat
  /\ NumWorkers + 1 \notin Workers /\ 0 \notin Workers /\ NumWorkers + 1 # 0
  /\ \A w \in Workers : w < NumWorkers + 1 /\ ~(w < 1) /\ w + 1 \in 0..(NumWorkers + 1) /\ w + 1 # 0
  /\ "watcher" \in Callers /\ "store" \in Callers /\ "free" \notin Callers
  /\ "watcher" \notin Users /\ "store" \notin Users
BY SwitchWorkersAssumption, SwitchUsersAssumption DEF Workers, Callers

\* The watcher's state after a pass is a condition or CLEAR.
LEMMA StateType ==
  ASSUME state \in Conditions \cup {CLEAR}, NEW r \in Reading
  PROVE  StateAfter(r) \in Conditions \cup {CLEAR}
<1>1. CASE state = CLEAR
  <2>1. \E c \in r.short \cup {CLEAR} : \A d \in r.short : d <= c
    <3>1. r.short \subseteq {1, 2, 3, 4}
      BY DEF Reading, Conditions
    <3> QED
      BY <3>1 DEF CLEAR
  <2>2. StateAfter(r) \in r.short \cup {CLEAR}
    BY <1>1, <2>1 DEF StateAfter
  <2> QED
    BY <2>2 DEF Reading
<1>2. CASE state # CLEAR
  BY <1>2 DEF StateAfter
<1> QED
  BY <1>1, <1>2

\* Before the first Startup the invariant holds.
LEMMA InitSwitch == Init => SwitchInv
<1> SUFFICES ASSUME Init PROVE SwitchInv
  OBVIOUS
<1>1. TypeOK
  <2>1. call \in [Callers -> CallState]
    BY SwitchFacts DEF Init, NoCall, CallState
  <2>2. space \in Reading
    BY SwitchReadingsAssumption DEF Init
  <2> QED
    BY <2>1, <2>2 DEF Init, TypeOK
<1>2. OneHolder /\ Generations /\ HalfAgree /\ ToldDoSo
  BY SwitchFacts DEF Init, OneHolder, Generations, HalfAgree, ToldDoSo, NoCall
<1>3. CallsInOrder
  BY SwitchFacts DEF Init, CallsInOrder, NoCall
<1>4. WritersAgree /\ UserChoiceStands
  BY DEF Init, WritersAgree, UserChoiceStands, Accepting
<1> QED
  BY <1>1, <1>2, <1>3, <1>4 DEF SwitchInv

\* A caller gets the lock: the memWriters agree, so they do on both sides of the
\* first one it will tell.
LEMMA SwitchLock ==
  ASSUME SwitchInv, NEW p \in Callers, Lock(p)
  PROVE  SwitchInv'
<1> USE SwitchFacts
<1>1. /\ TypeOK /\ OneHolder /\ Generations /\ CallsInOrder /\ WritersAgree /\ UserChoiceStands
      /\ lock = "free" /\ lock' = p /\ call[p].op \in {"enable", "disable"} /\ call[p].to = 0
      /\ UNCHANGED <<running, pendingWriteReqChans, alive, enabled, starts>>
      /\ pendingWriteReqChans \in Nat
  BY DEF Lock, Unlocked, SwitchInv, TypeOK, CallState
<1>2. /\ call'[p].op = call[p].op
      /\ call'[p].chans = pendingWriteReqChans
      /\ call'[p].to = IF Skips(p) \/ pendingWriteReqChans = 0 THEN NumWorkers + 1 ELSE 1
      /\ \A q \in Callers : q # p => call'[q] = call[q]
  BY <1>1 DEF Lock, TypeOK
<1>3. Skips(p) <=> Skips(p)'
  BY <1>1, <1>2 DEF Skips, Lock, UserDisabledBy
<1>4. TypeOK'
  <2>1. call' \in [Callers -> CallState]
    <3>1. [op |-> call[p].op, chans |-> pendingWriteReqChans,
           to |-> IF Skips(p) \/ pendingWriteReqChans = 0 THEN NumWorkers + 1 ELSE 1] \in CallState
      BY <1>1, SwitchWorkersAssumption DEF CallState
    <3> QED
      BY <1>1, <3>1 DEF Lock, TypeOK
  <2>2. userDisabled' \in BOOLEAN /\ readOnly' \in BOOLEAN /\ lock' \in Callers \cup {"free"}
    BY <1>1 DEF Lock, UserDisabledBy, TypeOK
  <2> QED
    BY <1>1, <2>1, <2>2 DEF Lock, TypeOK, watchVars
<1>5. OneHolder'
  BY <1>1, <1>2 DEF OneHolder
<1>6. Generations'
  BY <1>1, <1>2 DEF Generations
<1>7. HalfAgree'
  BY <1>1, <1>2 DEF HalfAgree, WritersAgree
<1>8. ToldDoSo'
  <2> SUFFICES ASSUME ~Skips(p)', NEW w \in Workers, alive[w], w < call'[p].to PROVE FALSE
    BY <1>1 DEF ToldDoSo
  <2>1. pendingWriteReqChans = 0
    BY <1>2, <1>3
  <2> QED
    BY <1>1, <2>1 DEF Generations
<1>9. CallsInOrder'
  <2>1. ~(p = "watcher") => userDisabled' = (call[p].op = "disable")
    BY DEF Lock, UserDisabledBy
  <2> QED
    BY <1>1, <1>2, <1>3, <2>1 DEF CallsInOrder
<1>10. WritersAgree'
  BY <1>1 DEF WritersAgree
<1>11. UserChoiceStands'
  BY <1>1 DEF UserChoiceStands, Accepting, Lock, UserDisabledBy
<1> QED
  BY <1>4, <1>5, <1>6, <1>7, <1>8, <1>9, <1>10, <1>11 DEF SwitchInv

\* A memWriter is told: it joins those that have been.
LEMMA SwitchSend ==
  ASSUME SwitchInv, NEW p \in Callers, Send(p)
  PROVE  SwitchInv'
<1> USE SwitchFacts
<1> DEFINE w == call[p].to
<1>1. /\ TypeOK /\ OneHolder /\ Generations /\ CallsInOrder /\ HalfAgree /\ ToldDoSo
      /\ w \in Workers /\ alive[w] /\ lock = p /\ call[p].chans = pendingWriteReqChans
      /\ ~Skips(p) /\ call[p].op \in {"enable", "disable"} /\ call[p] \in CallState
      /\ UNCHANGED <<running, pendingWriteReqChans, alive, readOnly, userDisabled, lock, starts>>
  BY DEF Send, SwitchInv, OneHolder, CallsInOrder, TypeOK, CallState
<1>2. /\ enabled'[w] = (call[p].op = "enable")
      /\ \A v \in Workers : v # w => enabled'[v] = enabled[v]
  BY <1>1 DEF Send, TypeOK
<1>3. /\ call'[p].op = call[p].op
      /\ call'[p].chans = call[p].chans
      /\ call'[p].to = w + 1
      /\ call'[p] \in CallState
      /\ \A q \in Callers : q # p => call'[q] = call[q]
  BY <1>1 DEF Send, TypeOK, CallState
<1> HIDE DEF w
<1>4. Skips(p)' <=> Skips(p)
  BY <1>1, <1>3 DEF Skips
<1>5. TypeOK'
  <2>1. call' \in [Callers -> CallState]
    BY <1>1, <1>3 DEF Send, TypeOK
  <2>2. enabled' \in [Workers -> BOOLEAN]
    BY <1>1 DEF Send, TypeOK
  <2> QED
    BY <1>1, <2>1, <2>2 DEF Send, TypeOK, watchVars
<1>6. OneHolder' /\ Generations'
  BY <1>1, <1>3 DEF OneHolder, Generations
<1>7. \A v \in Workers : v < call'[p].to <=> v < call[p].to \/ v = w
  BY <1>1, <1>3 DEF w, Workers
<1>8. \A v \in Workers : alive[v] /\ v < call'[p].to => enabled'[v] = (call[p].op = "enable")
  BY <1>1, <1>2, <1>7 DEF ToldDoSo, TypeOK
<1>9. ToldDoSo'
  BY <1>1, <1>3, <1>8 DEF ToldDoSo
<1>10. HalfAgree'
  <2> SUFFICES ASSUME NEW u \in Workers, NEW v \in Workers, alive[u], alive[v],
                      u < call'[p].to <=> v < call'[p].to
               PROVE  enabled'[u] = enabled'[v]
    BY <1>1 DEF HalfAgree
  <2>1. CASE u < call'[p].to
    BY <1>8, <2>1
  <2>2. CASE ~(u < call'[p].to)
    BY <1>1, <1>2, <1>7, <2>2 DEF HalfAgree
  <2> QED
    BY <2>1, <2>2
<1>11. CallsInOrder'
  BY <1>1, <1>3, <1>4 DEF CallsInOrder
<1>12. WritersAgree'
  BY <1>1 DEF WritersAgree
<1>13. UserChoiceStands'
  <2>1. lock = "watcher" => ~userDisabled \/ call[p].op = "disable"
    BY <1>1 DEF Skips
  <2> QED
    BY <1>1, <1>2, <2>1 DEF UserChoiceStands, Accepting, SwitchInv
<1> QED
  BY <1>5, <1>6, <1>9, <1>10, <1>11, <1>12, <1>13 DEF SwitchInv

\* A call returns: all memWriters have been told, so they agree.
LEMMA SwitchUnlock ==
  ASSUME SwitchInv, NEW p \in Callers, Unlock(p)
  PROVE  SwitchInv'
<1> USE SwitchFacts
<1>1. /\ TypeOK /\ OneHolder /\ Generations /\ CallsInOrder /\ HalfAgree /\ ToldDoSo
      /\ call[p].to = NumWorkers + 1 /\ lock = p /\ call[p].op \in {"enable", "disable"}
      /\ lock' = "free"
      /\ UNCHANGED <<pendingWriteReqChans, alive, enabled, readOnly, userDisabled, starts>>
  BY DEF Unlock, SwitchInv, OneHolder, CallsInOrder, TypeOK, CallState
<1>2. call'[p] = NoCall /\ \A q \in Callers : q # p => call'[q] = call[q]
  BY <1>1 DEF Unlock, TypeOK
<1>3. TypeOK'
  <2>1. call' \in [Callers -> CallState]
    BY <1>1 DEF Unlock, TypeOK, NoCall, CallState
  <2>2. running' \in {"stopped", "starting", "failed", "running", "stopping", "disabling", "ending"}
        /\ choice' \in {"none", "enable", "disable"}
    BY <1>1 DEF Unlock, TypeOK
  <2> QED
    BY <1>1, <2>1, <2>2 DEF Unlock, TypeOK, watchVars
<1>4. OneHolder' /\ Generations' /\ HalfAgree' /\ ToldDoSo'
  BY <1>1, <1>2 DEF OneHolder, Generations, HalfAgree, ToldDoSo, NoCall, TypeOK
<1>5. CallsInOrder'
  <2>1. p # "store" => running' = running
    BY DEF Unlock
  <2>2. p = "store" => running' \in {"running", "ending"}
    BY DEF Unlock
  <2> QED
    BY <1>1, <1>2, <2>1, <2>2 DEF CallsInOrder, NoCall
<1>6. WritersAgree'
  BY <1>1 DEF WritersAgree, HalfAgree
<1>7. UserChoiceStands'
  <2>1. CASE p = "watcher"
    BY <1>1, <2>1 DEF SwitchInv, UserChoiceStands, Accepting
  <2>2. CASE p # "watcher"
    <3>1. userDisabled => call[p].op = "disable"
      BY <1>1, <2>2 DEF CallsInOrder
    <3>2. ~Skips(p)
      BY <2>2 DEF Skips
    <3> QED
      BY <1>1, <3>1, <3>2 DEF UserChoiceStands, Accepting, ToldDoSo
  <2> QED
    BY <2>1, <2>2
<1> QED
  BY <1>3, <1>4, <1>5, <1>6, <1>7 DEF SwitchInv

\* Startup: new memWriters, all of them disabled; a caller that still holds the lock
\* ranges over older channels.
LEMMA SwitchStartup == ASSUME SwitchInv, Startup PROVE SwitchInv'
<1> USE SwitchFacts
<1>1. /\ TypeOK /\ OneHolder /\ Generations /\ CallsInOrder
      /\ starts \in Nat /\ starts' = starts + 1 /\ pendingWriteReqChans' = starts + 1
      /\ call["store"].op = "none" /\ call["store"].to = 0 /\ lock # "store"
      /\ \A w \in Workers : enabled'[w] = FALSE
      /\ UNCHANGED <<readOnly, userDisabled, lock>>
  BY DEF Startup, SwitchInv, CallsInOrder, OneHolder, TypeOK
<1>2. /\ \A p \in Callers : p # "store" => call'[p] = call[p]
      /\ call'["store"].to = 0 /\ call'["store"].chans <= starts
      /\ call'["store"].op # "none" <=> running' \in {"starting", "disabling"}
      /\ call' \in [Callers -> CallState]
  BY <1>1 DEF Startup, Called, TypeOK, CallState, Generations
<1>3. TypeOK'
  <2>1. alive' \in [Workers -> BOOLEAN] /\ enabled' \in [Workers -> BOOLEAN]
    BY DEF Startup
  <2>2. /\ running' \in {"starting", "failed"} /\ watching' \in BOOLEAN
        /\ state' \in Conditions \cup {CLEAR}
    BY <1>1 DEF Startup, TypeOK
  <2> QED
    BY <1>1, <1>2, <2>1, <2>2 DEF Startup, TypeOK
<1>4. \A p \in Callers : call[p].chans \in Nat /\ call'[p].chans \in Nat /\ call'[p].chans <= starts
  BY <1>1, <1>2 DEF Generations, TypeOK, CallState
<1>5. OneHolder' /\ Generations'
  BY <1>1, <1>2, <1>4 DEF OneHolder, Generations
<1>6. HalfAgree' /\ WritersAgree' /\ UserChoiceStands'
  BY <1>1 DEF HalfAgree, WritersAgree, UserChoiceStands, Accepting
<1>7. ToldDoSo'
  BY <1>1, <1>4 DEF ToldDoSo
<1>8. CallsInOrder'
  BY <1>1, <1>2 DEF CallsInOrder, Skips
<1> QED
  BY <1>3, <1>5, <1>6, <1>7, <1>8 DEF SwitchInv

\* A caller whose call has not the lock yet, or none, changes it; nothing else that
\* matters here changes, except that memWriters may stop.
LEMMA SwitchBegin ==
  ASSUME SwitchInv, TypeOK', NEW p \in Callers, call[p].op = "none",
         call'[p].to = 0 /\ call'[p].chans <= starts,
         \A q \in Callers : q # p => call'[q] = call[q],
         p = "store" => (call'[p].op # "none" <=> running' \in {"starting", "disabling"}),
         p # "store" => (running \in {"starting", "disabling"} <=> running' \in {"starting", "disabling"}),
         UNCHANGED <<pendingWriteReqChans, alive, enabled, readOnly, userDisabled, lock, starts>>
  PROVE  SwitchInv'
<1> USE SwitchFacts
<1>1. /\ OneHolder /\ Generations /\ CallsInOrder /\ HalfAgree /\ ToldDoSo
      /\ WritersAgree /\ UserChoiceStands /\ call[p].to = 0 /\ lock # p
  BY DEF SwitchInv, CallsInOrder, OneHolder
<1>2. OneHolder' /\ Generations'
  BY <1>1 DEF OneHolder, Generations
<1>3. \A q \in Callers : lock = q => q # p /\ call'[q] = call[q] /\ (Skips(q)' <=> Skips(q))
  BY <1>1 DEF Skips
<1>4. HalfAgree'
  BY <1>1, <1>3 DEF HalfAgree
<1>5. ToldDoSo'
  BY <1>1, <1>3 DEF ToldDoSo
<1>6. CallsInOrder'
  BY <1>1, <1>3 DEF CallsInOrder
<1>7. WritersAgree' /\ UserChoiceStands'
  BY <1>1 DEF WritersAgree, UserChoiceStands, Accepting
<1> QED
  BY <1>2, <1>4, <1>5, <1>6, <1>7 DEF SwitchInv

\* Steps that leave the switch alone, or stop memWriters.
LEMMA SwitchFrame ==
  ASSUME SwitchInv, TypeOK',
         \A w \in Workers : alive'[w] => alive[w],
         pendingWriteReqChans' = pendingWriteReqChans
           \/ (pendingWriteReqChans' = 0 /\ \A w \in Workers : ~alive'[w]),
         running \in {"starting", "disabling"} <=> running' \in {"starting", "disabling"},
         UNCHANGED <<enabled, switchVars, starts>>
  PROVE  SwitchInv'
<1>1. \A p \in Callers : Skips(p)' <=> Skips(p)
  BY DEF Skips, switchVars
<1>2. OneHolder' /\ HalfAgree' /\ WritersAgree' /\ UserChoiceStands'
  BY DEF SwitchInv, OneHolder, HalfAgree, WritersAgree, UserChoiceStands, Accepting, switchVars
<1>3. Generations'
  BY DEF SwitchInv, Generations, TypeOK, switchVars
<1>4. ToldDoSo'
  BY <1>1 DEF SwitchInv, ToldDoSo, switchVars
<1>5. CallsInOrder'
  BY <1>1 DEF SwitchInv, CallsInOrder, switchVars
<1> QED
  BY <1>2, <1>3, <1>4, <1>5 DEF SwitchInv

\* Every step keeps the invariant.
LEMMA SwitchStep == SwitchInv /\ [Next]_vars => SwitchInv'
<1> SUFFICES ASSUME SwitchInv, [Next]_vars PROVE SwitchInv'
  OBVIOUS
<1> USE SwitchFacts
<1>0. TypeOK
  BY DEF SwitchInv
<1>1. ASSUME NEW p \in Callers, Lock(p) \/ Send(p) \/ Unlock(p) PROVE SwitchInv'
  BY <1>1, SwitchLock, SwitchSend, SwitchUnlock
<1>2. CASE Startup
  BY <1>2, SwitchStartup
<1>3. ASSUME NEW p \in Users, NEW op \in {"enable", "disable"}, UserCall(p, op) PROVE SwitchInv'
  <2>1. p \in Callers /\ p # "store" /\ call[p].op = "none"
    BY <1>3 DEF UserCall, Callers
  <2>2. /\ call' = [call EXCEPT ![p] = Called(op)] /\ Called(op) \in CallState
        /\ UNCHANGED <<running, pendingWriteReqChans, alive, enabled, readOnly, userDisabled, lock, starts>>
    BY <1>3 DEF UserCall, Called, CallState
  <2>3. TypeOK'
    BY <1>0, <1>3, <2>1, <2>2 DEF UserCall, TypeOK, watchVars
  <2>4. call'[p].to = 0 /\ call'[p].chans <= starts /\ \A q \in Callers : q # p => call'[q] = call[q]
    BY <1>0, <2>1, <2>2 DEF TypeOK, Called
  <2> QED
    BY <2>1, <2>2, <2>3, <2>4, SwitchBegin
<1>4. CASE WatcherStop
  <2>1. call["store"].op = "none"
    BY <1>4 DEF WatcherStop, SwitchInv, CallsInOrder
  <2>2. /\ call' = [call EXCEPT !["store"] = Called("disable")] /\ Called("disable") \in CallState
        /\ running' = "disabling" /\ watching' = FALSE
        /\ UNCHANGED <<pendingWriteReqChans, alive, enabled, readOnly, userDisabled, lock, starts>>
    BY <1>4 DEF WatcherStop, Called, CallState
  <2>3. TypeOK'
    BY <1>0, <1>4, <2>2 DEF WatcherStop, TypeOK
  <2>4. /\ call'["store"].to = 0 /\ call'["store"].chans <= starts /\ call'["store"].op # "none"
        /\ \A q \in Callers : q # "store" => call'[q] = call[q]
    BY <1>0, <2>2 DEF TypeOK, Called
  <2> QED
    BY <2>1, <2>2, <2>3, <2>4, SwitchBegin
<1>5. CASE WatcherPass
  <2>1. state' \in Conditions \cup {CLEAR}
    BY <1>0, <1>5, StateType DEF WatcherPass, TypeOK
  <2>2. PICK c \in CallState : /\ c.to = 0 /\ c.chans <= starts
                               /\ call' = [call EXCEPT !["watcher"] = c]
    <3>1. CASE state' = state
      <4>1. call["watcher"].to = 0 /\ call["watcher"].chans <= starts /\ call["watcher"] \in CallState
        BY <1>0, <1>5 DEF WatcherPass, SwitchInv, CallsInOrder, Generations, TypeOK
      <4>2. call' = [call EXCEPT !["watcher"] = call["watcher"]]
        BY <1>0, <1>5, <3>1 DEF WatcherPass, TypeOK
      <4> QED
        BY <4>1, <4>2
    <3>2. CASE state' # state
      <4> DEFINE c == Called(IF state = CLEAR THEN "disable" ELSE "enable")
      <4>1. c \in CallState /\ c.to = 0 /\ c.chans <= starts
        BY <1>0 DEF Called, CallState, TypeOK
      <4>2. call' = [call EXCEPT !["watcher"] = c]
        BY <1>5, <3>2 DEF WatcherPass
      <4> QED
        BY <4>1, <4>2
    <3> QED
      BY <3>1, <3>2
  <2>3. UNCHANGED <<running, pendingWriteReqChans, alive, enabled, readOnly, userDisabled, lock, starts>>
    BY <1>5 DEF WatcherPass
  <2>4. TypeOK'
    BY <1>0, <1>5, <2>1, <2>2 DEF WatcherPass, TypeOK
  <2>5. /\ call'["watcher"].to = 0 /\ call'["watcher"].chans <= starts
        /\ \A q \in Callers : q # "watcher" => call'[q] = call[q]
    BY <1>0, <2>2 DEF TypeOK
  <2>6. call["watcher"].op = "none"
    BY <1>5 DEF WatcherPass
  <2> QED
    BY <2>3, <2>4, <2>5, <2>6, SwitchBegin
<1>6. CASE Shutdown
  <2>1. TypeOK'
    BY <1>0, <1>6 DEF Shutdown, TypeOK, switchVars, watchVars
  <2> QED
    BY <1>6, <2>1, SwitchFrame DEF Shutdown
<1>7. CASE StopWriter
  <2>1. alive' \in [Workers -> BOOLEAN] /\ \A w \in Workers : alive'[w] => alive[w]
    BY <1>0, <1>7 DEF StopWriter, TypeOK
  <2>2. TypeOK'
    BY <1>0, <1>7, <2>1 DEF StopWriter, TypeOK, switchVars, watchVars
  <2> QED
    BY <1>7, <2>1, <2>2, SwitchFrame DEF StopWriter
<1>8. CASE ShutdownDone
  <2>1. TypeOK'
    BY <1>0, <1>8 DEF ShutdownDone, TypeOK, switchVars, watchVars
  <2> QED
    BY <1>8, <2>1, SwitchFrame DEF ShutdownDone
<1>9. ASSUME NEW r \in Readings, SpaceChanges(r) PROVE SwitchInv'
  <2>1. TypeOK'
    BY <1>0, <1>9, SwitchReadingsAssumption DEF SpaceChanges, TypeOK, switchVars
  <2> QED
    BY <1>9, <2>1, SwitchFrame DEF SpaceChanges
<1>10. CASE UNCHANGED vars
  <2>1. TypeOK'
    BY <1>0, <1>10 DEF vars, TypeOK, switchVars, watchVars
  <2> QED
    BY <1>10, <2>1, SwitchFrame DEF vars
<1> QED
  BY <1>1, <1>2, <1>3, <1>4, <1>5, <1>6, <1>7, <1>8, <1>9, <1>10 DEF Next

\* Every variable keeps its type: no call tells a memWriter that is not there.
THEOREM SwitchTypes == Spec => []TypeOK
<1>1. SwitchInv => TypeOK
  BY DEF SwitchInv
<1> QED
  BY <1>1, InitSwitch, SwitchStep, PTL DEF Spec

\* The calls that switch writes exclude each other, so between calls all memWriters
\* are switched alike.
THEOREM SwitchAgrees == Spec => []WritersAgree
<1>1. SwitchInv => WritersAgree
  BY DEF SwitchInv
<1> QED
  BY <1>1, InitSwitch, SwitchStep, PTL DEF Spec

\* The watcher never enables writes that a user, or Shutdown, has disabled.
THEOREM UserDecides == Spec => []UserChoiceStands
<1>1. SwitchInv => UserChoiceStands
  BY DEF SwitchInv
<1> QED
  BY <1>1, InitSwitch, SwitchStep, PTL DEF Spec
=============================================================================
