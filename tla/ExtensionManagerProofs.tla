----------------------- MODULE ExtensionManagerProofs -----------------------
(***************************************************************************)
(* Theorems about ExtensionManager, for any set of plugins, of connection  *)
(* tasks, and any choice of the other constants.                           *)
(***************************************************************************)
EXTENDS ExtensionManager, FiniteSetTheorems, TLAPS

-----------------------------------------------------------------------------
(* The shutdown channel *)

(* What the one-place buffer looks like to a sender and to the receiver.   *)
LEMMA QueueFacts ==
  ASSUME queue \in {<<>>} \cup {<<m>> : m \in Messages}
  PROVE  /\ Len(queue) < QueueCap <=> queue = <<>>
         /\ queue # <<>> => /\ Head(queue) \in Messages
                            /\ queue = <<Head(queue)>>
                            /\ Tail(queue) = <<>>
         /\ \A m : Append(<<>>, m) = <<m>> /\ <<m>> # <<>>
         /\ \A m : Head(<<m>>) = m
<1>1. CASE queue = <<>>
  BY <1>1 DEF QueueCap
<1>2. CASE queue # <<>>
  <2>1. PICK m \in Messages : queue = <<m>>
    BY <1>2
  <2>. QED
    BY <2>1 DEF QueueCap
<1>. QED
  BY <1>1, <1>2

(* A message enters an empty buffer, or is lost when the receiver is gone. *)
LEMMA SendFacts ==
  ASSUME TypeOK, NEW m \in Messages, Send(m)
  PROVE  /\ rxAlive' = rxAlive
         /\ rxAlive => queue = <<>> /\ queue' = <<m>>
         /\ ~rxAlive => queue' = queue
         /\ queue' \in {<<>>} \cup {<<k>> : k \in Messages}
BY QueueFacts DEF TypeOK, Send

-----------------------------------------------------------------------------
(* Type correctness *)

(* A manager that was just started has a state of every type.              *)
LEMMA InitTypeOK == Init => TypeOK
<1>. SUFFICES ASSUME Init PROVE TypeOK
  OBVIOUS
<1>1. DispatchTypeOK
  BY DispatchAssumption DEF Init, DispatchInit, DispatchTypeOK, CallerStates
<1>2. stopperPc \in [Stoppers -> {"idle", "send"}]
  BY DEF Init, ManagerInit
<1>. QED
  BY <1>1, <1>2 DEF Init, ManagerInit, TypeOK, OwnerStates, PingStates,
     ListenerStates, Messages

(* Steps of the registry component, alone.                                 *)
LEMMA DispatchTypes ==
  ASSUME DispatchTypeOK,
         \/ \E p \in Plugins : RegisterPlugin(p) \/ SweepNext(p)
         \/ \E p, q \in Plugins : RegisterPlugins(p, q)
         \/ \E c \in Callers : \/ \E p \in Plugins : BeginCall(c, p)
                              \/ Lookup(c) \/ LockPlugin(c)
                              \/ ReturnCall(c) \/ PanicCall(c)
         \/ StartSweep \/ NotifyPlugin \/ NotifyPanics
         \/ UNCHANGED dispatchVars
  PROVE  DispatchTypeOK'
<1>. USE DispatchAssumption DEF DispatchTypeOK, CallerStates
<1>1. ASSUME NEW p \in Plugins, RegisterPlugin(p) PROVE DispatchTypeOK'
  BY <1>1 DEF RegisterPlugin, Insert
<1>2. ASSUME NEW p \in Plugins, SweepNext(p) PROVE DispatchTypeOK'
  BY <1>2 DEF SweepNext
<1>3. ASSUME NEW p \in Plugins, NEW q \in Plugins, RegisterPlugins(p, q)
      PROVE  DispatchTypeOK'
  BY <1>3 DEF RegisterPlugins, Insert
<1>4. ASSUME NEW c \in Callers, NEW p \in Plugins, BeginCall(c, p)
      PROVE  DispatchTypeOK'
  BY <1>4 DEF BeginCall
<1>5. ASSUME NEW c \in Callers, Lookup(c) PROVE DispatchTypeOK'
  BY <1>5 DEF Lookup
<1>6. ASSUME NEW c \in Callers, LockPlugin(c) PROVE DispatchTypeOK'
  BY <1>6 DEF LockPlugin
<1>7. ASSUME NEW c \in Callers, ReturnCall(c) PROVE DispatchTypeOK'
  BY <1>7 DEF ReturnCall, EndCall
<1>8. ASSUME NEW c \in Callers, PanicCall(c) PROVE DispatchTypeOK'
  <2>1. target[c] \in Plugins
    BY <1>8 DEF PanicCall, EndCall
  <2>. QED
    BY <1>8, <2>1 DEF PanicCall, EndCall
<1>9. ASSUME StartSweep PROVE DispatchTypeOK'
  BY <1>9 DEF StartSweep
<1>10. ASSUME NotifyPlugin PROVE DispatchTypeOK'
  <2>1. current \in Plugins
    BY <1>10 DEF NotifyPlugin
  <2>. QED
    BY <1>10, <2>1 DEF NotifyPlugin
<1>11. ASSUME NotifyPanics PROVE DispatchTypeOK'
  <2>1. current \in Plugins
    BY <1>11 DEF NotifyPanics
  <2>. QED
    BY <1>11, <2>1 DEF NotifyPanics
<1>12. ASSUME UNCHANGED dispatchVars PROVE DispatchTypeOK'
  BY <1>12 DEF dispatchVars
<1>. QED
  BY <1>1, <1>2, <1>3, <1>4, <1>5, <1>6, <1>7, <1>8, <1>9, <1>10, <1>11, <1>12

(* Every step keeps every variable in its type.                            *)
LEMMA TypeStep == TypeOK /\ [Next]_vars => TypeOK'
<1>. SUFFICES ASSUME TypeOK, [Next]_vars PROVE TypeOK'
  OBVIOUS
<1>. USE DEF TypeOK, OwnerStates, PingStates, ListenerStates, runVars, channel,
             pingVars, listenVars, rpcVars
<1>. DEFINE Same == UNCHANGED dispatchVars
<1>s. Same => DispatchTypeOK'
  BY DispatchTypes
<1>1. ASSUME NEW p \in Plugins, AddPlugin(p) PROVE TypeOK'
  <2>1. DispatchTypeOK'
    BY <1>1, DispatchTypes DEF AddPlugin
  <2>. QED
    BY <1>1, <2>1 DEF AddPlugin, managerVars
<1>2. ASSUME NEW p \in Plugins, NEW q \in Plugins, AddPlugins(p, q) PROVE TypeOK'
  <2>1. DispatchTypeOK'
    BY <1>2, DispatchTypes DEF AddPlugins
  <2>. QED
    BY <1>2, <2>1 DEF AddPlugins, managerVars
<1>3. ASSUME Run PROVE TypeOK'
  BY <1>3, <1>s DEF Run, Messages
<1>4. ASSUME RegisterOk PROVE TypeOK'
  BY <1>4, <1>s DEF RegisterOk
<1>5. ASSUME RegisterFails PROVE TypeOK'
  <2>1. queue' \in {<<>>} \cup {<<m>> : m \in Messages}
    BY <1>5 DEF RegisterFails, ReturnFromRun
  <2>2. rxAlive' \in BOOLEAN
    BY <1>5 DEF RegisterFails, ReturnFromRun
  <2>. QED
    BY <1>5, <1>s, <2>1, <2>2 DEF RegisterFails, ReturnFromRun
<1>6. ASSUME StartOk PROVE TypeOK'
  BY <1>6, <1>s DEF StartOk
<1>7. ASSUME StartFails PROVE TypeOK'
  <2>1. queue' \in {<<>>} \cup {<<m>> : m \in Messages}
    BY <1>7 DEF StartFails, ReturnFromRun
  <2>2. rxAlive' \in BOOLEAN
    BY <1>7 DEF StartFails, ReturnFromRun
  <2>. QED
    BY <1>7, <1>s, <2>1, <2>2 DEF StartFails, ReturnFromRun
<1>8. ASSUME Receive PROVE TypeOK'
  BY <1>8, <1>s, QueueFacts DEF Receive
<1>9. ASSUME ShutdownAgain PROVE TypeOK'
  BY <1>9, <1>s DEF ShutdownAgain
<1>10. ASSUME DropServer PROVE TypeOK'
  BY <1>10, <1>s DEF DropServer
<1>11. ASSUME StopPing PROVE TypeOK'
  BY <1>11, <1>s DEF StopPing
<1>12. ASSUME JoinPing PROVE TypeOK'
  <2>1. queue' \in {<<>>} \cup {<<m>> : m \in Messages}
    BY <1>12 DEF JoinPing, ReturnFromRun
  <2>2. rxAlive' \in BOOLEAN
    BY <1>12 DEF JoinPing, ReturnFromRun
  <2>. QED
    BY <1>12, <1>s, <2>1, <2>2 DEF JoinPing, ReturnFromRun
<1>13. ASSUME NothingToShutDown PROVE TypeOK'
  <2>1. queue' \in {<<>>} \cup {<<m>> : m \in Messages}
    BY <1>13 DEF NothingToShutDown, LeaveShutdown
  <2>2. rxAlive' \in BOOLEAN
    BY <1>13 DEF NothingToShutDown, LeaveShutdown
  <2>. QED
    BY <1>13, <1>s, <2>1, <2>2 DEF NothingToShutDown, LeaveShutdown
<1>14. ASSUME TakeUuid PROVE TypeOK'
  <2>1. hasUuid' \in BOOLEAN /\ pc' \in OwnerStates
    BY <1>14 DEF TakeUuid
  <2>2. UNCHANGED <<dispatchVars, dropping, stopSignal, fate, channel, pingVars,
                    listenVars, signalPc, stopperPc, client, rpcVars>>
    BY <1>14 DEF TakeUuid
  <2>. QED
    BY <1>s, <2>1, <2>2
<1>15. ASSUME LockToDeregister PROVE TypeOK'
  BY <1>15, <1>s DEF LockToDeregister
<1>16. ASSUME SkipDeregister PROVE TypeOK'
  BY <1>16, <1>s DEF SkipDeregister
<1>17. ASSUME DeregisterReturns PROVE TypeOK'
  BY <1>17, <1>s DEF DeregisterReturns
<1>18. ASSUME StopListener PROVE TypeOK'
  BY <1>18, <1>s DEF StopListener
<1>19. ASSUME LockRegistry PROVE TypeOK'
  <2>1. DispatchTypeOK'
    BY <1>19, DispatchTypes DEF LockRegistry
  <2>. QED
    BY <1>19, <2>1 DEF LockRegistry
<1>20. ASSUME NEW p \in Plugins, VisitPlugin(p) PROVE TypeOK'
  <2>1. DispatchTypeOK'
    BY <1>20, DispatchTypes DEF VisitPlugin
  <2>. QED
    BY <1>20, <2>1 DEF VisitPlugin, managerVars
<1>21. ASSUME Notify PROVE TypeOK'
  <2>1. DispatchTypeOK'
    BY <1>21, DispatchTypes DEF Notify
  <2>. QED
    BY <1>21, <2>1 DEF Notify, managerVars
<1>22. ASSUME UnlockRegistry PROVE TypeOK'
  BY <1>22, <1>s DEF UnlockRegistry
<1>23. ASSUME CloseClient PROVE TypeOK'
  BY <1>23, <1>s DEF CloseClient, LeaveShutdown
<1>24. ASSUME PingWakes PROVE TypeOK'
  BY <1>24, <1>s DEF PingWakes, PingUnchanged
<1>25. ASSUME PingLocks PROVE TypeOK'
  BY <1>25, <1>s DEF PingLocks, PingUnchanged
<1>26. ASSUME PingReturns PROVE TypeOK'
  BY <1>26, <1>s DEF PingReturns, PingUnchanged
<1>27. ASSUME PingReports PROVE TypeOK'
  <2>1. Send("error") /\ "error" \in Messages
    BY <1>27 DEF PingReports, Messages
  <2>2. rxAlive' = rxAlive /\ queue' \in {<<>>} \cup {<<m>> : m \in Messages}
    BY <2>1, SendFacts
  <2>. QED
    BY <1>27, <1>s, <2>2 DEF PingReports, PingUnchanged
<1>28. ASSUME Bind PROVE TypeOK'
  BY <1>28, <1>s DEF Bind, ListenUnchanged
<1>29. ASSUME AcceptFails PROVE TypeOK'
  BY <1>29, <1>s DEF AcceptFails, ListenUnchanged
<1>30. ASSUME SeeStop PROVE TypeOK'
  BY <1>30, <1>s DEF SeeStop, ListenUnchanged
<1>31. ASSUME ReportListenError PROVE TypeOK'
  <2>1. Send("error") /\ "error" \in Messages
    BY <1>31 DEF ReportListenError, Messages
  <2>2. rxAlive' = rxAlive /\ queue' \in {<<>>} \cup {<<m>> : m \in Messages}
    BY <2>1, SendFacts
  <2>. QED
    BY <1>31, <1>s, <2>2 DEF ReportListenError, ListenUnchanged
<1>32. ASSUME DropRuntime PROVE TypeOK'
  BY <1>32, <1>s DEF DropRuntime, ListenUnchanged
<1>33. ASSUME NEW c \in Callers, NEW p \in Plugins, CallArrives(c, p) PROVE TypeOK'
  <2>1. DispatchTypeOK'
    BY <1>33, DispatchTypes DEF CallArrives
  <2>. QED
    BY <1>33, <2>1 DEF CallArrives, managerVars
<1>34. ASSUME NEW c \in Callers, CallStep(c) PROVE TypeOK'
  <2>1. DispatchTypeOK'
    BY <1>34, DispatchTypes DEF CallStep
  <2>. QED
    BY <1>34, <2>1 DEF CallStep, managerVars
<1>35. ASSUME NEW c \in Callers, CallReturns(c) PROVE TypeOK'
  <2>1. DispatchTypeOK'
    BY <1>35, DispatchTypes DEF CallReturns
  <2>. QED
    BY <1>35, <2>1 DEF CallReturns, managerVars
<1>36. ASSUME NEW s \in Stoppers, ShutdownArrives(s) PROVE TypeOK'
  BY <1>36, <1>s DEF ShutdownArrives, SideUnchanged
<1>37. ASSUME NEW s \in Stoppers, HandleShutdown(s) PROVE TypeOK'
  <2>1. Send("stop") /\ "stop" \in Messages
    BY <1>37 DEF HandleShutdown, Messages
  <2>2. rxAlive' = rxAlive /\ queue' \in {<<>>} \cup {<<m>> : m \in Messages}
    BY <2>1, SendFacts
  <2>. QED
    BY <1>37, <1>s, <2>2 DEF HandleShutdown, SideUnchanged
<1>38. ASSUME SignalArrives PROVE TypeOK'
  BY <1>38, <1>s DEF SignalArrives, SideUnchanged
<1>39. ASSUME SignalSends PROVE TypeOK'
  <2>1. Send(signalPc) /\ signalPc \in Messages
    BY <1>39 DEF SignalSends
  <2>2. rxAlive' = rxAlive /\ queue' \in {<<>>} \cup {<<m>> : m \in Messages}
    BY <2>1, SendFacts
  <2>. QED
    BY <1>39, <1>s, <2>2 DEF SignalSends, SideUnchanged
<1>40. ASSUME TryShutdown PROVE TypeOK'
  <2>1. Send("stop") /\ "stop" \in Messages
    BY <1>40 DEF TryShutdown, Send, Messages
  <2>2. rxAlive' = rxAlive /\ queue' \in {<<>>} \cup {<<m>> : m \in Messages}
    BY <2>1, SendFacts
  <2>. QED
    BY <1>40, <1>s, <2>2 DEF TryShutdown, SideUnchanged
<1>41. ASSUME NEW op \in Ops, OsqueryServes(op) PROVE TypeOK'
  <2>1. reply' \in {"none", "yes", "no"} /\ registered' \in BOOLEAN
    BY <1>41 DEF OsqueryServes
  <2>2. UNCHANGED <<dispatchVars, runVars, channel, pingVars, listenVars,
                    signalPc, stopperPc, client, link>>
    BY <1>41 DEF OsqueryServes
  <2>. QED
    BY <1>s, <2>1, <2>2
<1>42. ASSUME LinkBreaks PROVE TypeOK'
  <2>1. reply' \in {"none", "yes", "no"}
    BY <1>42 DEF LinkBreaks
  <2>. QED
    BY <1>42, <1>s, <2>1 DEF LinkBreaks
<1>43. ASSUME OsqueryExits PROVE TypeOK'
  <2>1. reply' \in {"none", "yes", "no"}
    BY <1>43 DEF OsqueryExits
  <2>2. registered' \in BOOLEAN
    BY <1>43 DEF OsqueryExits
  <2>. QED
    BY <1>43, <1>s, <2>1, <2>2 DEF OsqueryExits
<1>44. ASSUME UNCHANGED vars PROVE TypeOK'
  BY <1>44, <1>s DEF vars, managerVars, Messages
<1>45. ASSUME HookPanics PROVE TypeOK'
  <2>1. DispatchTypeOK'
    BY <1>45, DispatchTypes DEF HookPanics
  <2>. QED
    BY <1>45, <2>1 DEF HookPanics
<1>46. ASSUME Unwind PROVE TypeOK'
  <2>1. queue' \in {<<>>} \cup {<<m>> : m \in Messages}
    BY <1>46 DEF Unwind
  <2>2. rxAlive' \in BOOLEAN
    BY <1>46 DEF Unwind
  <2>. QED
    BY <1>46, <1>s, <2>1, <2>2 DEF Unwind
<1>. QED
  BY <1>1, <1>2, <1>3, <1>4, <1>5, <1>6, <1>7, <1>8, <1>9, <1>10,
     <1>11, <1>12, <1>13, <1>14, <1>15, <1>16, <1>17, <1>18, <1>19,
     <1>20, <1>21, <1>22, <1>23, <1>24, <1>25, <1>26, <1>27, <1>28,
     <1>29, <1>30, <1>31, <1>32, <1>33, <1>34, <1>35, <1>36, <1>37,
     <1>38, <1>39, <1>40, <1>41, <1>42, <1>43, <1>44, <1>45, <1>46
  DEF Next, Owner, RegisterReturns, Start, Teardown, Ping, Listener, Connections,
      Signals, Osquery, Terminated

(* Every variable of the manager keeps its type, for any number of plugins *)
(* and connection tasks: in particular the channel never holds more than   *)
(* one message, and a connection task inside handle_call has a target.     *)
THEOREM TypeCorrect == Spec => []TypeOK
<1>1. Init => TypeOK
  BY InitTypeOK
<1>2. TypeOK /\ [Next]_vars => TypeOK'
  BY TypeStep
<1>. QED
  BY <1>1, <1>2, PTL DEF Spec

-----------------------------------------------------------------------------
(* Steps seen from the owner: its own, the ping thread's, everybody else's *)

Elsewhere == Listener \/ Connections \/ Signals \/ Osquery \/ UNCHANGED vars

(* Every step is one of the owner, of the ping thread or of another thread. *)
LEMMA StepKinds == [Next]_vars => Owner \/ Ping \/ Elsewhere
BY DEF Next, Terminated, Elsewhere

(* What the listener, connection tasks, signals and osquery leave alone.   *)
LEMMA ElsewhereKeeps ==
  ASSUME Elsewhere
  PROVE  UNCHANGED <<pc, dropping, hasUuid, stopSignal, fate, pingPc, pingStop,
                     client, entries, todo, current, hooks, registryPoisoned>>
<1>. DEFINE Goal == UNCHANGED <<pc, dropping, hasUuid, stopSignal, fate, pingPc,
                                pingStop, client, entries, todo, current, hooks,
                                registryPoisoned>>
<1>. USE DEF runVars, pingVars, dispatchVars
<1>1. CASE Listener
  BY <1>1 DEF Listener, Bind, AcceptFails, SeeStop, ReportListenError,
     DropRuntime, ListenUnchanged
<1>2. ASSUME NEW c \in Callers, NEW p \in Plugins, CallArrives(c, p) PROVE Goal
  BY <1>2 DEF CallArrives, BeginCall, managerVars
<1>3. ASSUME NEW c \in Callers, CallStep(c) PROVE Goal
  BY <1>3 DEF CallStep, Lookup, LockPlugin, managerVars
<1>4. ASSUME NEW c \in Callers, CallReturns(c) PROVE Goal
  BY <1>4 DEF CallReturns, ReturnCall, PanicCall, EndCall, managerVars
<1>5. ASSUME NEW s \in Stoppers, ShutdownArrives(s) \/ HandleShutdown(s)
      PROVE  Goal
  BY <1>5 DEF ShutdownArrives, HandleShutdown, SideUnchanged
<1>6. CASE Signals
  BY <1>6 DEF Signals, SignalArrives, SignalSends, TryShutdown, SideUnchanged
<1>7. CASE Osquery
  BY <1>7 DEF Osquery, OsqueryServes, LinkBreaks, OsqueryExits
<1>8. CASE UNCHANGED vars
  BY <1>8 DEF vars, managerVars
<1>. QED
  BY <1>1, <1>2, <1>3, <1>4, <1>5, <1>6, <1>7, <1>8 DEF Elsewhere, Connections

(* The ping thread touches neither the plugins nor the owner's own state.   *)
LEMMA PingKeeps == Ping => UNCHANGED <<dispatchVars, runVars, client>>
BY DEF Ping, PingWakes, PingLocks, PingReturns, PingReports, PingUnchanged

(* Adding plugins changes nothing but the registry.                        *)
LEMMA AddKeeps ==
  ASSUME \/ \E p \in Plugins : AddPlugin(p)
         \/ \E p, q \in Plugins : AddPlugins(p, q)
  PROVE  UNCHANGED <<managerVars, todo, current, hooks, registryPoisoned>>
<1>1. ASSUME NEW p \in Plugins, AddPlugin(p)
      PROVE  UNCHANGED <<managerVars, todo, current, hooks, registryPoisoned>>
  BY <1>1 DEF AddPlugin, RegisterPlugin
<1>2. ASSUME NEW p \in Plugins, NEW q \in Plugins, AddPlugins(p, q)
      PROVE  UNCHANGED <<managerVars, todo, current, hooks, registryPoisoned>>
  BY <1>2 DEF AddPlugins, RegisterPlugins
<1>. QED
  BY <1>1, <1>2

-----------------------------------------------------------------------------
(* The inductive invariant *)

(* The invariant holds of a manager that was just started.                 *)
LEMMA InitManagerInv == Init => ManagerInv
BY DEF Init, DispatchInit, ManagerInit, ManagerInv, ClientInv, HookInv, RunInv,
       LeakInv, NotifyInv,
       ClientExclusive, NoRpcAfterClose, OwnerHoldsClient, PingHoldsClient,
       InFlight, Ops, Fresh, HookAtMostOnce

(* Nobody uses the client while somebody else does or once it is cleared.   *)
LEMMA ClientStep == TypeOK /\ ClientInv /\ [Next]_vars => ClientInv'
<1>. SUFFICES ASSUME TypeOK, ClientInv, [Next]_vars PROVE ClientInv'
  OBVIOUS
<1>. USE DEF ClientInv, ClientExclusive, NoRpcAfterClose, OwnerHoldsClient,
             PingHoldsClient, ClientFree, InFlight, Ops, runVars, pingVars
<1>1. CASE Owner
  <2>1. ASSUME \/ \E p \in Plugins : AddPlugin(p)
               \/ \E p, q \in Plugins : AddPlugins(p, q)
        PROVE  ClientInv'
    BY <2>1, AddKeeps DEF managerVars
  <2>2. ASSUME Run PROVE ClientInv'
    BY <2>2 DEF Run
  <2>3. ASSUME RegisterOk PROVE ClientInv'
    BY <2>3 DEF RegisterOk
  <2>4. ASSUME RegisterFails PROVE ClientInv'
    BY <2>4 DEF RegisterFails, ReturnFromRun
  <2>5. ASSUME StartOk PROVE ClientInv'
    BY <2>5 DEF StartOk
  <2>6. ASSUME StartFails PROVE ClientInv'
    BY <2>6 DEF StartFails, ReturnFromRun
  <2>7. ASSUME Receive PROVE ClientInv'
    BY <2>7 DEF Receive
  <2>8. ASSUME ShutdownAgain PROVE ClientInv'
    BY <2>8 DEF ShutdownAgain
  <2>9. ASSUME DropServer PROVE ClientInv'
    BY <2>9 DEF DropServer, OwnerIdle
  <2>10. ASSUME StopPing PROVE ClientInv'
    BY <2>10 DEF StopPing
  <2>11. ASSUME JoinPing PROVE ClientInv'
    BY <2>11 DEF JoinPing, ReturnFromRun
  <2>12. ASSUME NothingToShutDown PROVE ClientInv'
    BY <2>12 DEF NothingToShutDown, LeaveShutdown
  <2>13. ASSUME TakeUuid PROVE ClientInv'
    BY <2>13 DEF TakeUuid
  <2>14. ASSUME LockToDeregister PROVE ClientInv'
    BY <2>14 DEF LockToDeregister
  <2>15. ASSUME SkipDeregister PROVE ClientInv'
    BY <2>15 DEF SkipDeregister
  <2>16. ASSUME DeregisterReturns PROVE ClientInv'
    BY <2>16 DEF DeregisterReturns
  <2>17. ASSUME StopListener PROVE ClientInv'
    BY <2>17 DEF StopListener
  <2>18. ASSUME LockRegistry PROVE ClientInv'
    BY <2>18 DEF LockRegistry
  <2>19. ASSUME NEW p \in Plugins, VisitPlugin(p) PROVE ClientInv'
    BY <2>19 DEF VisitPlugin, managerVars
  <2>20. ASSUME Notify PROVE ClientInv'
    BY <2>20 DEF Notify, managerVars
  <2>21. ASSUME UnlockRegistry PROVE ClientInv'
    BY <2>21 DEF UnlockRegistry
  <2>22. ASSUME CloseClient PROVE ClientInv'
    BY <2>22 DEF CloseClient, LeaveShutdown
  <2>23. ASSUME HookPanics PROVE ClientInv'
    BY <2>23 DEF HookPanics
  <2>24. ASSUME Unwind PROVE ClientInv'
    BY <2>24 DEF Unwind
  <2>. QED
    BY <1>1, <2>1, <2>2, <2>3, <2>4, <2>5, <2>6, <2>7, <2>8, <2>9, <2>10,
       <2>11, <2>12, <2>13, <2>14, <2>15, <2>16, <2>17, <2>18, <2>19,
       <2>20, <2>21, <2>22, <2>23, <2>24
    DEF Owner, RegisterReturns, Start, Teardown
<1>2. CASE Ping
  BY <1>2 DEF Ping, PingWakes, PingLocks, PingReturns, PingReports, PingUnchanged
<1>3. CASE Elsewhere
  BY <1>3, ElsewhereKeeps
<1>. QED
  BY <1>1, <1>2, <1>3, StepKinds

(* The uuid is taken once, and with it the right to notify the plugins.     *)
LEMMA HookStep == TypeOK /\ HookInv /\ [Next]_vars => HookInv'
<1>. SUFFICES ASSUME TypeOK, HookInv, [Next]_vars PROVE HookInv'
  OBVIOUS
<1>. USE DEF HookInv, Fresh, BeforeSweep, HookAtMostOnce, dispatchVars,
             runVars
<1>1. CASE Owner
  <2>1. ASSUME \/ \E p \in Plugins : AddPlugin(p)
               \/ \E p, q \in Plugins : AddPlugins(p, q)
        PROVE  HookInv'
    BY <2>1, AddKeeps DEF managerVars
  <2>2. ASSUME Run PROVE HookInv'
    BY <2>2 DEF Run
  <2>3. ASSUME RegisterOk PROVE HookInv'
    BY <2>3 DEF RegisterOk
  <2>4. ASSUME RegisterFails PROVE HookInv'
    BY <2>4 DEF RegisterFails, ReturnFromRun
  <2>5. ASSUME StartOk PROVE HookInv'
    BY <2>5 DEF StartOk
  <2>6. ASSUME StartFails PROVE HookInv'
    BY <2>6 DEF StartFails, ReturnFromRun
  <2>7. ASSUME Receive PROVE HookInv'
    BY <2>7 DEF Receive
  <2>8. ASSUME ShutdownAgain PROVE HookInv'
    BY <2>8 DEF ShutdownAgain
  <2>9. ASSUME DropServer PROVE HookInv'
    BY <2>9 DEF DropServer, OwnerIdle
  <2>10. ASSUME StopPing PROVE HookInv'
    BY <2>10 DEF StopPing
  <2>11. ASSUME JoinPing PROVE HookInv'
    BY <2>11 DEF JoinPing, ReturnFromRun
  <2>12. ASSUME NothingToShutDown PROVE HookInv'
    BY <2>12 DEF NothingToShutDown, LeaveShutdown
  <2>13. ASSUME TakeUuid PROVE HookInv'
    BY <2>13 DEF TakeUuid
  <2>14. ASSUME LockToDeregister PROVE HookInv'
    BY <2>14 DEF LockToDeregister
  <2>15. ASSUME SkipDeregister PROVE HookInv'
    BY <2>15 DEF SkipDeregister
  <2>16. ASSUME DeregisterReturns PROVE HookInv'
    BY <2>16 DEF DeregisterReturns
  <2>17. ASSUME StopListener PROVE HookInv'
    BY <2>17 DEF StopListener
  <2>18. ASSUME LockRegistry PROVE HookInv'
    BY <2>18, DispatchAssumption DEF LockRegistry, StartSweep, TypeOK, DispatchTypeOK
  <2>19. ASSUME NEW p \in Plugins, VisitPlugin(p) PROVE HookInv'
    BY <2>19 DEF VisitPlugin, SweepNext, managerVars
  <2>20. ASSUME Notify PROVE HookInv'
    <3>1. current \in Plugins /\ hooks[current] = 0
      BY <2>20 DEF Notify, NotifyPlugin, TypeOK, DispatchTypeOK
    <3>t. hooks \in [Plugins -> Nat]
      BY DEF TypeOK, DispatchTypeOK
    <3>n. hooks' = hooks \/ hooks' = [hooks EXCEPT ![current] = hooks[current] + 1]
      BY <2>20 DEF Notify, NotifyPlugin
    <3>2. \A p \in Plugins : hooks'[p] = IF hooks' # hooks /\ p = current
                                        THEN 1 ELSE hooks[p]
      <4>1. CASE hooks' = hooks
        BY <4>1
      <4>2. CASE hooks' = [hooks EXCEPT ![current] = hooks[current] + 1]
        <5>1. hooks' = [hooks EXCEPT ![current] = 1]
          BY <3>1, <4>2
        <5>2. hooks'[current] = 1 /\ \A p \in Plugins : p # current => hooks'[p] = hooks[p]
          BY <3>1, <3>t, <5>1
        <5>. QED
          BY <3>1, <5>2
      <4>. QED
        BY <3>n, <4>1, <4>2
    <3>3. todo' = todo /\ current' = NONE /\ pc' = "sweep" /\ hasUuid' = hasUuid
      BY <2>20 DEF Notify, NotifyPlugin, managerVars
    <3>. QED
      BY <2>20, <3>1, <3>2, <3>3, DispatchAssumption DEF Notify, TypeOK, DispatchTypeOK
  <2>21. ASSUME UnlockRegistry PROVE HookInv'
    BY <2>21 DEF UnlockRegistry, Sweeping
  <2>22. ASSUME CloseClient PROVE HookInv'
    BY <2>22 DEF CloseClient, LeaveShutdown
  <2>23. ASSUME HookPanics PROVE HookInv'
    <3>1. current \in Plugins /\ hooks[current] = 0 /\ ~hasUuid
      BY <2>23 DEF HookPanics, NotifyPanics, TypeOK, DispatchTypeOK
    <3>2. hooks \in [Plugins -> Nat] /\ hooks' = [hooks EXCEPT ![current] = 1]
      BY <2>23, <3>1 DEF HookPanics, NotifyPanics, TypeOK, DispatchTypeOK
    <3>3. \A p \in Plugins : hooks'[p] <= 1
      BY <3>1, <3>2
    <3>4. todo' = {} /\ current' = NONE /\ pc' = "unwind" /\ hasUuid' = hasUuid
      BY <2>23 DEF HookPanics, NotifyPanics
    <3>. QED
      BY <3>1, <3>3, <3>4, DispatchAssumption
  <2>24. ASSUME Unwind PROVE HookInv'
    BY <2>24 DEF Unwind
  <2>. QED
    BY <1>1, <2>1, <2>2, <2>3, <2>4, <2>5, <2>6, <2>7, <2>8, <2>9, <2>10,
       <2>11, <2>12, <2>13, <2>14, <2>15, <2>16, <2>17, <2>18, <2>19,
       <2>20, <2>21, <2>22, <2>23, <2>24
    DEF Owner, RegisterReturns, Start, Teardown
<1>2. CASE Ping
  BY <1>2, PingKeeps
<1>3. CASE Elsewhere
  BY <1>3, ElsewhereKeeps
<1>. QED
  BY <1>1, <1>2, <1>3, StepKinds

(* Senders fill an empty buffer or change nothing; none of them ends the    *)
(* receiver.                                                               *)
LEMMA ChannelSteps ==
  ASSUME TypeOK, Ping \/ Elsewhere
  PROVE  /\ rxAlive' = rxAlive
         /\ \/ queue' = queue
            \/ rxAlive /\ queue = <<>> /\ \E m \in Messages : queue' = <<m>>
<1>. DEFINE Quiet == rxAlive' = rxAlive /\ queue' = queue
            Sent  == \E m \in Messages : Send(m)
<1>. USE DEF channel, Messages
<1>1. CASE Ping
  <2>1. PingReports => Sent
    BY DEF PingReports
  <2>2. PingWakes \/ PingLocks \/ PingReturns => Quiet
    BY DEF PingWakes, PingLocks, PingReturns
  <2>. QED
    BY <1>1, <2>1, <2>2, SendFacts DEF Ping
<1>2. CASE Elsewhere
  <2>1. Listener => Quiet \/ Sent
    BY DEF Listener, Bind, AcceptFails, SeeStop, ReportListenError, DropRuntime
  <2>2. ASSUME NEW c \in Callers, NEW p \in Plugins, CallArrives(c, p) PROVE Quiet
    BY <2>2 DEF CallArrives, managerVars
  <2>3. ASSUME NEW c \in Callers, CallStep(c) \/ CallReturns(c) PROVE Quiet
    BY <2>3 DEF CallStep, CallReturns, managerVars
  <2>4. ASSUME NEW s \in Stoppers, ShutdownArrives(s) \/ HandleShutdown(s)
        PROVE  Quiet \/ Sent
    BY <2>4 DEF ShutdownArrives, HandleShutdown
  <2>5. SignalArrives \/ SignalSends => Quiet \/ Sent
    BY DEF SignalArrives, SignalSends
  <2>6. TryShutdown => Sent
    BY DEF TryShutdown, Send
  <2>7. Osquery => Quiet
    BY DEF Osquery, OsqueryServes, LinkBreaks, OsqueryExits
  <2>8. UNCHANGED vars => Quiet
    BY DEF vars, managerVars
  <2>9. Quiet \/ Sent
    BY <1>2, <2>1, <2>2, <2>3, <2>4, <2>5, <2>6, <2>7, <2>8
    DEF Elsewhere, Connections, Signals
  <2>. QED
    BY <2>9, SendFacts
<1>. QED
  BY <1>1, <1>2

(* The receiver lives until run() returns or the server is dropped.         *)
LEMMA RunStep == TypeOK /\ HookInv /\ RunInv /\ [Next]_vars => RunInv'
<1>. SUFFICES ASSUME TypeOK, HookInv, RunInv, [Next]_vars PROVE RunInv'
  OBVIOUS
<1>. USE DEF RunInv, runVars, channel
<1>1. CASE Owner
  <2>1. ASSUME \/ \E p \in Plugins : AddPlugin(p)
               \/ \E p, q \in Plugins : AddPlugins(p, q)
        PROVE  RunInv'
    BY <2>1, AddKeeps DEF managerVars
  <2>2. ASSUME Run PROVE RunInv'
    BY <2>2 DEF Run
  <2>3. ASSUME RegisterOk PROVE RunInv'
    BY <2>3 DEF RegisterOk
  <2>4. ASSUME RegisterFails PROVE RunInv'
    BY <2>4 DEF RegisterFails, ReturnFromRun
  <2>5. ASSUME StartOk PROVE RunInv'
    BY <2>5 DEF StartOk
  <2>6. ASSUME StartFails PROVE RunInv'
    BY <2>6 DEF StartFails, ReturnFromRun
  <2>7. ASSUME Receive PROVE RunInv'
    BY <2>7, QueueFacts DEF Receive, TypeOK, Messages
  <2>8. ASSUME ShutdownAgain PROVE RunInv'
    BY <2>8 DEF ShutdownAgain
  <2>9. ASSUME DropServer PROVE RunInv'
    BY <2>9 DEF DropServer, OwnerIdle, HookInv
  <2>10. ASSUME StopPing PROVE RunInv'
    BY <2>10 DEF StopPing
  <2>11. ASSUME JoinPing PROVE RunInv'
    BY <2>11 DEF JoinPing, ReturnFromRun
  <2>12. ASSUME NothingToShutDown PROVE RunInv'
    BY <2>12 DEF NothingToShutDown, LeaveShutdown
  <2>13. ASSUME TakeUuid PROVE RunInv'
    BY <2>13 DEF TakeUuid
  <2>14. ASSUME LockToDeregister PROVE RunInv'
    BY <2>14 DEF LockToDeregister
  <2>15. ASSUME SkipDeregister PROVE RunInv'
    BY <2>15 DEF SkipDeregister
  <2>16. ASSUME DeregisterReturns PROVE RunInv'
    BY <2>16 DEF DeregisterReturns
  <2>17. ASSUME StopListener PROVE RunInv'
    BY <2>17 DEF StopListener
  <2>18. ASSUME LockRegistry PROVE RunInv'
    BY <2>18 DEF LockRegistry
  <2>19. ASSUME NEW p \in Plugins, VisitPlugin(p) PROVE RunInv'
    BY <2>19 DEF VisitPlugin, managerVars
  <2>20. ASSUME Notify PROVE RunInv'
    BY <2>20 DEF Notify, managerVars
  <2>21. ASSUME UnlockRegistry PROVE RunInv'
    BY <2>21 DEF UnlockRegistry
  <2>22. ASSUME CloseClient PROVE RunInv'
    BY <2>22 DEF CloseClient, LeaveShutdown
  <2>23. ASSUME HookPanics PROVE RunInv'
    BY <2>23 DEF HookPanics
  <2>24. ASSUME Unwind PROVE RunInv'
    BY <2>24 DEF Unwind
  <2>. QED
    BY <1>1, <2>1, <2>2, <2>3, <2>4, <2>5, <2>6, <2>7, <2>8, <2>9, <2>10,
       <2>11, <2>12, <2>13, <2>14, <2>15, <2>16, <2>17, <2>18, <2>19,
       <2>20, <2>21, <2>22, <2>23, <2>24
    DEF Owner, RegisterReturns, Start, Teardown
<1>2. CASE Ping
  BY <1>2, PingKeeps, ChannelSteps
<1>3. CASE Elsewhere
  BY <1>3, ElsewhereKeeps, ChannelSteps
<1>. QED
  BY <1>1, <1>2, <1>3, StepKinds

(* What this side knows of its registration keeps up with osquery's side.   *)
LEMMA LeakStep ==
  TypeOK /\ ClientInv /\ HookInv /\ LeakInv /\ [Next]_vars => LeakInv'
<1>. SUFFICES ASSUME TypeOK, ClientInv, HookInv, LeakInv, [Next]_vars PROVE LeakInv'
  OBVIOUS
<1>. USE DEF LeakInv, runVars, rpcVars, RpcOk, RpcFails
<1>1. CASE Owner
  <2>1. ASSUME \/ \E p \in Plugins : AddPlugin(p)
               \/ \E p, q \in Plugins : AddPlugins(p, q)
        PROVE  LeakInv'
    BY <2>1, AddKeeps DEF managerVars
  <2>2. ASSUME Run PROVE LeakInv'
    BY <2>2 DEF Run
  <2>3. ASSUME RegisterOk PROVE LeakInv'
    BY <2>3 DEF RegisterOk, ClientInv
  <2>4. ASSUME RegisterFails PROVE LeakInv'
    BY <2>4 DEF RegisterFails, ReturnFromRun
  <2>5. ASSUME StartOk PROVE LeakInv'
    BY <2>5 DEF StartOk
  <2>6. ASSUME StartFails PROVE LeakInv'
    BY <2>6 DEF StartFails, ReturnFromRun
  <2>7. ASSUME Receive PROVE LeakInv'
    BY <2>7 DEF Receive
  <2>8. ASSUME ShutdownAgain PROVE LeakInv'
    BY <2>8 DEF ShutdownAgain
  <2>9. ASSUME DropServer PROVE LeakInv'
    BY <2>9 DEF DropServer, OwnerIdle, HookInv
  <2>10. ASSUME StopPing PROVE LeakInv'
    BY <2>10 DEF StopPing
  <2>11. ASSUME JoinPing PROVE LeakInv'
    BY <2>11 DEF JoinPing, ReturnFromRun
  <2>12. ASSUME NothingToShutDown PROVE LeakInv'
    BY <2>12 DEF NothingToShutDown, LeaveShutdown
  <2>13. ASSUME TakeUuid PROVE LeakInv'
    BY <2>13 DEF TakeUuid
  <2>14. ASSUME LockToDeregister PROVE LeakInv'
    BY <2>14 DEF LockToDeregister
  <2>15. ASSUME SkipDeregister PROVE LeakInv'
    BY <2>15 DEF SkipDeregister
  <2>16. ASSUME DeregisterReturns PROVE LeakInv'
    BY <2>16 DEF DeregisterReturns
  <2>17. ASSUME StopListener PROVE LeakInv'
    BY <2>17 DEF StopListener
  <2>18. ASSUME LockRegistry PROVE LeakInv'
    BY <2>18 DEF LockRegistry, StartSweep
  <2>19. ASSUME NEW p \in Plugins, VisitPlugin(p) PROVE LeakInv'
    BY <2>19 DEF VisitPlugin, SweepNext, managerVars
  <2>20. ASSUME Notify PROVE LeakInv'
    BY <2>20 DEF Notify, NotifyPlugin, managerVars
  <2>21. ASSUME UnlockRegistry PROVE LeakInv'
    BY <2>21 DEF UnlockRegistry, Sweeping
  <2>22. ASSUME CloseClient PROVE LeakInv'
    BY <2>22 DEF CloseClient, LeaveShutdown, HookInv
  <2>23. ASSUME HookPanics PROVE LeakInv'
    BY <2>23 DEF HookPanics, NotifyPanics
  <2>24. ASSUME Unwind PROVE LeakInv'
    BY <2>24 DEF Unwind
  <2>. QED
    BY <1>1, <2>1, <2>2, <2>3, <2>4, <2>5, <2>6, <2>7, <2>8, <2>9, <2>10,
       <2>11, <2>12, <2>13, <2>14, <2>15, <2>16, <2>17, <2>18, <2>19,
       <2>20, <2>21, <2>22, <2>23, <2>24
    DEF Owner, RegisterReturns, Start, Teardown
<1>2. CASE Ping
  <2>1. pc = "deregister" => pingPc \notin {"rpc", "report"}
    BY DEF ClientInv, ClientExclusive, OwnerHoldsClient, PingHoldsClient
  <2>. QED
    BY <1>2, <2>1 DEF Ping, PingWakes, PingLocks, PingReturns, PingReports,
       PingUnchanged, ClientFree, OwnerHoldsClient
<1>3. CASE Listener
  BY <1>3 DEF Listener, Bind, AcceptFails, SeeStop, ReportListenError,
     DropRuntime, ListenUnchanged
<1>4. CASE Connections
  BY <1>4 DEF Connections, CallArrives, CallStep, CallReturns, ShutdownArrives,
     HandleShutdown, SideUnchanged, managerVars
<1>5. CASE Signals
  BY <1>5 DEF Signals, SignalArrives, SignalSends, TryShutdown, SideUnchanged
<1>6. ASSUME NEW op \in Ops, OsqueryServes(op) PROVE LeakInv'
  <2>1. pc = "deregister" => op = "deregister"
    BY <1>6 DEF OsqueryServes, InFlight, Ops, ClientInv, ClientExclusive,
       OwnerHoldsClient, PingHoldsClient
  <2>2. op = "register" => pc = "register"
    BY <1>6 DEF OsqueryServes, InFlight
  <2>. QED
    BY <1>6, <2>1, <2>2 DEF OsqueryServes, Ops
<1>7. CASE LinkBreaks \/ OsqueryExits
  BY <1>7 DEF LinkBreaks, OsqueryExits
<1>8. CASE UNCHANGED vars
  BY <1>8 DEF vars, managerVars
<1>. QED
  BY <1>1, <1>2, <1>3, <1>4, <1>5, <1>6, <1>7, <1>8, StepKinds DEF Elsewhere, Osquery

(* Plugins are only added while the owner is between its own steps.         *)
LEMMA EntriesStay ==
  ASSUME [Next]_vars, pc \notin {"built", "returned"}
  PROVE  entries' = entries
<1>. USE DEF dispatchVars
<1>1. CASE Owner
  <2>1. (\E p \in Plugins : VisitPlugin(p)) \/ LockRegistry \/ Notify
          \/ HookPanics => entries' = entries
    BY DEF VisitPlugin, SweepNext, LockRegistry, StartSweep, Notify, NotifyPlugin,
       HookPanics, NotifyPanics
  <2>2. (\E p \in Plugins : AddPlugin(p)) \/ (\E p, q \in Plugins : AddPlugins(p, q)) => FALSE
    BY DEF AddPlugin, AddPlugins, OwnerIdle
  <2>3. Run \/ RegisterReturns \/ Start \/ Receive \/ ShutdownAgain \/ DropServer
          => entries' = entries
    BY DEF Run, RegisterReturns, RegisterOk, RegisterFails, Start, StartOk,
       StartFails, Receive, ShutdownAgain, DropServer
  <2>4. StopPing \/ JoinPing \/ NothingToShutDown \/ TakeUuid \/ LockToDeregister
          \/ SkipDeregister => entries' = entries
    BY DEF StopPing, JoinPing, NothingToShutDown, TakeUuid, LockToDeregister,
       SkipDeregister
  <2>5. DeregisterReturns \/ StopListener \/ Unwind \/ UnlockRegistry \/ CloseClient
          => entries' = entries
    BY DEF DeregisterReturns, StopListener, Unwind, UnlockRegistry, CloseClient
  <2>. QED
    BY <1>1, <2>1, <2>2, <2>3, <2>4, <2>5 DEF Owner, Teardown
<1>2. CASE Ping
  BY <1>2, PingKeeps
<1>3. CASE Elsewhere
  BY <1>3, ElsewhereKeeps
<1>. QED
  BY <1>1, <1>2, <1>3, StepKinds

(* A mutex that is poisoned stays so.                                      *)
LEMMA PoisonStays == [Next]_vars => poisoned \subseteq poisoned'
<1>. SUFFICES ASSUME [Next]_vars PROVE poisoned \subseteq poisoned'
  OBVIOUS
<1>. USE DEF dispatchVars
<1>1. CASE Owner
  <2>1. (\E p \in Plugins : VisitPlugin(p)) \/ LockRegistry \/ Notify
          \/ HookPanics => poisoned \subseteq poisoned'
    BY DEF VisitPlugin, SweepNext, LockRegistry, StartSweep, Notify, NotifyPlugin,
       HookPanics, NotifyPanics
  <2>2. (\E p \in Plugins : AddPlugin(p)) \/ (\E p, q \in Plugins : AddPlugins(p, q))
          => poisoned' = poisoned
    BY DEF AddPlugin, AddPlugins, RegisterPlugin, RegisterPlugins
  <2>3. Run \/ RegisterReturns \/ Start \/ Receive \/ ShutdownAgain \/ DropServer
          => poisoned' = poisoned
    BY DEF Run, RegisterReturns, RegisterOk, RegisterFails, Start, StartOk,
       StartFails, Receive, ShutdownAgain, DropServer
  <2>4. StopPing \/ JoinPing \/ NothingToShutDown \/ TakeUuid \/ LockToDeregister
          \/ SkipDeregister => poisoned' = poisoned
    BY DEF StopPing, JoinPing, NothingToShutDown, TakeUuid, LockToDeregister,
       SkipDeregister
  <2>5. DeregisterReturns \/ StopListener \/ Unwind \/ UnlockRegistry \/ CloseClient
          => poisoned' = poisoned
    BY DEF DeregisterReturns, StopListener, Unwind, UnlockRegistry, CloseClient
  <2>. QED
    BY <1>1, <2>1, <2>2, <2>3, <2>4, <2>5 DEF Owner, Teardown
<1>2. CASE Ping
  BY <1>2, PingKeeps
<1>3. CASE Listener
  BY <1>3 DEF Listener, Bind, AcceptFails, SeeStop, ReportListenError,
     DropRuntime, ListenUnchanged
<1>4. CASE Connections
  BY <1>4 DEF Connections, CallArrives, BeginCall, CallStep, Lookup, LockPlugin,
     CallReturns, ReturnCall, PanicCall, ShutdownArrives, HandleShutdown, SideUnchanged
<1>5. CASE Signals \/ Osquery \/ UNCHANGED vars
  BY <1>5 DEF Signals, SignalArrives, SignalSends, TryShutdown, SideUnchanged,
     Osquery, OsqueryServes, LinkBreaks, OsqueryExits, vars
<1>. QED
  BY <1>1, <1>2, <1>3, <1>4, <1>5, StepKinds DEF Elsewhere

(* The teardown loop has a plugin before it, in hand or behind it.          *)
LEMMA NotifyStep ==
  TypeOK /\ HookInv /\ RunInv /\ NotifyInv /\ [Next]_vars => NotifyInv'
<1>. SUFFICES ASSUME TypeOK, HookInv, RunInv, NotifyInv, [Next]_vars
              PROVE  NotifyInv'
  OBVIOUS
<1>. DEFINE Reached == \A p \in entries \ poisoned :
                          p \in todo \/ p = current \/ hooks[p] = 1
            Quiet == UNCHANGED <<pc, hasUuid, dropping, rxAlive, todo, current, hooks>>
<1>k. Reached /\ entries' = entries /\ UNCHANGED <<todo, current, hooks>> => Reached'
  BY PoisonStays
<1>q. Quiet => NotifyInv'
  BY EntriesStay, <1>k DEF NotifyInv
<1>. USE DEF NotifyInv, dispatchVars, runVars, channel
<1>1. CASE Owner
  <2>1. ASSUME \/ \E p \in Plugins : AddPlugin(p)
               \/ \E p, q \in Plugins : AddPlugins(p, q)
        PROVE  NotifyInv'
    BY <2>1, AddKeeps, <1>q DEF managerVars, AddPlugin, AddPlugins, OwnerIdle
  <2>2. ASSUME Run PROVE NotifyInv'
    BY <2>2 DEF Run
  <2>3. ASSUME RegisterOk PROVE NotifyInv'
    BY <2>3 DEF RegisterOk
  <2>4. ASSUME RegisterFails PROVE NotifyInv'
    BY <2>4 DEF RegisterFails, ReturnFromRun
  <2>5. ASSUME StartOk PROVE NotifyInv'
    BY <2>5 DEF StartOk
  <2>6. ASSUME StartFails PROVE NotifyInv'
    BY <2>6 DEF StartFails, ReturnFromRun
  <2>7. ASSUME Receive PROVE NotifyInv'
    BY <2>7 DEF Receive
  <2>8. ASSUME ShutdownAgain PROVE NotifyInv'
    BY <2>8 DEF ShutdownAgain, RunInv
  <2>9. ASSUME DropServer PROVE NotifyInv'
    BY <2>9 DEF DropServer, OwnerIdle
  <2>10. ASSUME StopPing PROVE NotifyInv'
    BY <2>10 DEF StopPing
  <2>11. ASSUME JoinPing PROVE NotifyInv'
    BY <2>11 DEF JoinPing, ReturnFromRun
  <2>12. ASSUME NothingToShutDown PROVE NotifyInv'
    BY <2>12 DEF NothingToShutDown, LeaveShutdown
  <2>13. ASSUME TakeUuid PROVE NotifyInv'
    BY <2>13 DEF TakeUuid
  <2>14. ASSUME LockToDeregister PROVE NotifyInv'
    BY <2>14 DEF LockToDeregister
  <2>15. ASSUME SkipDeregister PROVE NotifyInv'
    BY <2>15 DEF SkipDeregister
  <2>16. ASSUME DeregisterReturns PROVE NotifyInv'
    BY <2>16 DEF DeregisterReturns
  <2>17. ASSUME StopListener PROVE NotifyInv'
    BY <2>17 DEF StopListener
  <2>18. ASSUME LockRegistry PROVE NotifyInv'
    BY <2>18 DEF LockRegistry, StartSweep, HookInv, Fresh, BeforeSweep
  <2>19. ASSUME NEW p \in Plugins, VisitPlugin(p) PROVE NotifyInv'
    <3>1. NONE \notin entries
      BY DispatchAssumption DEF TypeOK, DispatchTypeOK
    <3>. QED
      BY <2>19, <3>1 DEF VisitPlugin, SweepNext, managerVars
  <2>20. ASSUME Notify PROVE NotifyInv'
    <3>1. current \in Plugins /\ hooks[current] = 0 /\ hooks \in [Plugins -> Nat]
      BY <2>20 DEF Notify, NotifyPlugin, TypeOK, DispatchTypeOK, HookInv
    <3>2. ASSUME NEW p \in entries \ poisoned
          PROVE  p \in todo \/ hooks'[p] = 1
      <4>1. p \in Plugins /\ (p \in todo \/ p = current \/ hooks[p] = 1)
        BY <2>20 DEF Notify, TypeOK, DispatchTypeOK
      <4>2. CASE p = current
        BY <2>20, <3>1, <4>2 DEF Notify, NotifyPlugin
      <4>3. CASE p # current
        BY <2>20, <3>1, <4>1, <4>3 DEF Notify, NotifyPlugin
      <4>. QED
        BY <4>2, <4>3
    <3>. QED
      BY <2>20, <3>2 DEF Notify, NotifyPlugin, managerVars
  <2>21. ASSUME UnlockRegistry PROVE NotifyInv'
    BY <2>21, <1>k DEF UnlockRegistry
  <2>22. ASSUME CloseClient PROVE NotifyInv'
    BY <2>22, <1>k DEF CloseClient, LeaveShutdown, HookInv
  <2>23. ASSUME HookPanics PROVE NotifyInv'
    BY <2>23 DEF HookPanics, NotifyPanics
  <2>24. ASSUME Unwind PROVE NotifyInv'
    BY <2>24 DEF Unwind
  <2>. QED
    BY <1>1, <2>1, <2>2, <2>3, <2>4, <2>5, <2>6, <2>7, <2>8, <2>9, <2>10,
       <2>11, <2>12, <2>13, <2>14, <2>15, <2>16, <2>17, <2>18, <2>19,
       <2>20, <2>21, <2>22, <2>23, <2>24
    DEF Owner, RegisterReturns, Start, Teardown
<1>2. CASE Ping
  BY <1>2, PingKeeps, ChannelSteps, <1>q
<1>3. CASE Elsewhere
  BY <1>3, ElsewhereKeeps, ChannelSteps, <1>q
<1>. QED
  BY <1>1, <1>2, <1>3, StepKinds

(* The client is used by one thread at a time, and by none once teardown   *)
(* has cleared it; teardown runs once per registration; the receiver of    *)
(* the shutdown channel is there exactly as long as run() can hear it.     *)
THEOREM ManagerInvariant == Spec => [](TypeOK /\ ManagerInv)
<1>1. Init => TypeOK /\ ManagerInv
  BY InitTypeOK, InitManagerInv
<1>2. TypeOK /\ ManagerInv /\ [Next]_vars => (TypeOK /\ ManagerInv)'
  BY TypeStep, ClientStep, HookStep, RunStep, LeakStep, NotifyStep DEF ManagerInv
<1>. QED
  BY <1>1, <1>2, PTL DEF Spec

(* Each plugin's shutdown hook is invoked at most once, however run(),     *)
(* shutdown() and Drop follow each other.                                  *)
THEOREM HooksOnce == Spec => []HookAtMostOnce
<1>1. TypeOK /\ ManagerInv => HookAtMostOnce
  BY DEF ManagerInv, HookInv
<1>. QED
  BY <1>1, ManagerInvariant, PTL

(* The owner and the ping thread never use the client together.            *)
THEOREM ClientDiscipline == Spec => []ClientExclusive
<1>1. ManagerInv => ClientExclusive
  BY DEF ManagerInv, ClientInv
<1>. QED
  BY <1>1, ManagerInvariant, PTL

(* Nobody uses the client once teardown has closed and cleared it.         *)
THEOREM ClosedClientUnused == Spec => []NoRpcAfterClose
<1>1. ManagerInv => NoRpcAfterClose
  BY DEF ManagerInv, ClientInv
<1>. QED
  BY <1>1, ManagerInvariant, PTL

(* A registration is left behind only after an RPC failed or deregistering *)
(* was skipped.                                                            *)
THEOREM LeaksExplained == Spec => []LeakExplained
<1>1. TypeOK /\ ManagerInv => LeakExplained
  BY DEF TypeOK, ManagerInv, HookInv, LeakInv, LeakExplained
<1>. QED
  BY <1>1, ManagerInvariant, PTL

(* Teardown reaches every plugin, in whatever order and however many calls *)
(* are inside them, unless a panic had poisoned it.                        *)
THEOREM PluginsNotified == Spec => []EveryPluginNotified
<1>1. TypeOK /\ ManagerInv => EveryPluginNotified
  BY DispatchAssumption DEF TypeOK, DispatchTypeOK, ManagerInv, HookInv, NotifyInv,
     EveryPluginNotified
<1>. QED
  BY <1>1, ManagerInvariant, PTL

-----------------------------------------------------------------------------
(* The plugins *)

(* A plugin's mutex is poisoned only by a call inside it, which ends, or by *)
(* a hook that has the plugin to itself.                                   *)
LEMMA LentStep == TypeOK /\ PluginsLentOnce /\ [Next]_vars => PluginsLentOnce'
<1>. SUFFICES ASSUME TypeOK, PluginsLentOnce, [Next]_vars
              PROVE  PluginsLentOnce'
  OBVIOUS
<1>t. callerPc \in [Callers -> CallerStates] /\ target \in [Callers -> Plugins \cup {NONE}]
  BY DEF TypeOK, DispatchTypeOK
<1>. USE DEF PluginsLentOnce
<1>u. UNCHANGED <<callerPc, target, poisoned>> => PluginsLentOnce'
  OBVIOUS
<1>1. ASSUME HookPanics PROVE PluginsLentOnce'
  BY <1>1 DEF HookPanics, NotifyPanics, PluginFree, Calling
<1>2. ASSUME NEW c \in Callers, NEW p \in Plugins, CallArrives(c, p)
      PROVE  PluginsLentOnce'
  BY <1>2, <1>t DEF CallArrives, BeginCall
<1>3. ASSUME NEW c \in Callers, CallStep(c) PROVE PluginsLentOnce'
  <2>1. CASE Lookup(c)
    BY <2>1, <1>t DEF Lookup
  <2>2. CASE LockPlugin(c)
    BY <2>2, <1>t DEF LockPlugin, PluginFree, Calling
  <2>. QED
    BY <1>3, <2>1, <2>2 DEF CallStep
<1>4. ASSUME NEW c \in Callers, CallReturns(c) PROVE PluginsLentOnce'
  <2>1. callerPc[c] = "calling" /\ callerPc' = [callerPc EXCEPT ![c] = "idle"]
        /\ target' = [target EXCEPT ![c] = NONE]
        /\ poisoned' \subseteq poisoned \cup {target[c]}
    BY <1>4 DEF CallReturns, ReturnCall, PanicCall, EndCall
  <2>. QED
    BY <2>1, <1>t
<1>5. CASE Owner /\ ~HookPanics
  <2>1. (\E p \in Plugins : VisitPlugin(p)) \/ LockRegistry \/ Notify
          => UNCHANGED <<callerPc, target, poisoned>>
    BY DEF VisitPlugin, SweepNext, LockRegistry, StartSweep, Notify, NotifyPlugin
  <2>2. (\E p \in Plugins : AddPlugin(p)) \/ (\E p, q \in Plugins : AddPlugins(p, q))
          => UNCHANGED <<callerPc, target, poisoned>>
    BY DEF AddPlugin, AddPlugins, RegisterPlugin, RegisterPlugins
  <2>. USE DEF dispatchVars
  <2>3. Run \/ RegisterReturns \/ Start \/ Receive \/ ShutdownAgain \/ DropServer
          => UNCHANGED <<callerPc, target, poisoned>>
    BY DEF Run, RegisterReturns, RegisterOk, RegisterFails, Start, StartOk,
       StartFails, Receive, ShutdownAgain, DropServer
  <2>4. StopPing \/ JoinPing \/ NothingToShutDown \/ TakeUuid \/ LockToDeregister
          \/ SkipDeregister => UNCHANGED <<callerPc, target, poisoned>>
    BY DEF StopPing, JoinPing, NothingToShutDown, TakeUuid, LockToDeregister,
       SkipDeregister
  <2>5. DeregisterReturns \/ StopListener \/ Unwind \/ UnlockRegistry \/ CloseClient
          => UNCHANGED <<callerPc, target, poisoned>>
    BY DEF DeregisterReturns, StopListener, Unwind, UnlockRegistry, CloseClient
  <2>. QED
    BY <1>5, <1>u, <2>1, <2>2, <2>3, <2>4, <2>5 DEF Owner, Teardown
<1>6. CASE Ping \/ Listener
  BY <1>6, <1>u, PingKeeps DEF Listener, Bind, AcceptFails, SeeStop, ReportListenError,
     DropRuntime, ListenUnchanged, dispatchVars
<1>7. ASSUME NEW s \in Stoppers, ShutdownArrives(s) \/ HandleShutdown(s)
      PROVE  PluginsLentOnce'
  BY <1>7, <1>u DEF ShutdownArrives, HandleShutdown, SideUnchanged, dispatchVars
<1>8. CASE Signals \/ Osquery \/ UNCHANGED vars
  BY <1>8, <1>u DEF Signals, SignalArrives, SignalSends, TryShutdown, SideUnchanged,
     Osquery, OsqueryServes, LinkBreaks, OsqueryExits, vars, dispatchVars
<1>9. CASE Connections
  BY <1>9, <1>2, <1>3, <1>4, <1>7 DEF Connections
<1>. QED
  BY <1>1, <1>5, <1>6, <1>8, <1>9, StepKinds DEF Elsewhere, Owner, Teardown

(* Whatever calls, panics and teardown come together, a plugin is lent to  *)
(* one thread at a time and never again once a panic left it half done.    *)
THEOREM PluginsStayExclusive == Spec => []PluginsLentOnce
<1>1. Init => PluginsLentOnce
  BY DEF Init, DispatchInit, PluginsLentOnce
<1>. QED
  BY <1>1, LentStep, TypeCorrect, PTL DEF Spec

-----------------------------------------------------------------------------
(* The length of teardown *)

FinitelyMany == IsFiniteSet(entries) /\ todo \subseteq entries

(* What is inserted under a free key displaces nothing.                    *)
LEMMA InsertFree ==
  ASSUME NEW reg, NEW p, ~Taken(reg, p)
  PROVE  Insert(reg, p) = reg \cup {p}
BY DEF Taken, Insert

(* The owner adds plugins between its own steps and nobody else adds any.   *)
LEMMA RegistrySteps ==
  ASSUME [Next]_vars
  PROVE  \/ entries' = entries
         \/ OwnerIdle /\ \E p, q \in Plugins : entries' \in {entries \cup {p},
                                                entries \cup {p} \cup {q}}
<1>1. ASSUME NEW p \in Plugins, AddPlugin(p) PROVE OwnerIdle /\ entries' = entries \cup {p}
  BY <1>1, InsertFree DEF AddPlugin, RegisterPlugin
<1>2. ASSUME NEW p \in Plugins, NEW q \in Plugins, AddPlugins(p, q)
      PROVE  OwnerIdle /\ entries' \in {entries \cup {p}, entries \cup {p} \cup {q}}
  <2>1. OwnerIdle /\ ~Taken(entries, p)
    BY <1>2 DEF AddPlugins, RegisterPlugins
  <2>2. Insert(entries, p) = entries \cup {p}
    BY <2>1, InsertFree
  <2>3. ~Taken(entries \cup {p}, q)
          => Insert(entries \cup {p}, q) = entries \cup {p} \cup {q}
    BY InsertFree
  <2>. QED
    BY <1>2, <2>1, <2>2, <2>3 DEF AddPlugins, RegisterPlugins
<1>3. CASE pc \notin {"built", "returned"}
  BY <1>3, EntriesStay
<1>4. CASE Run \/ ShutdownAgain \/ DropServer
  BY <1>4 DEF Run, ShutdownAgain, DropServer, dispatchVars
<1>5. CASE Ping \/ Elsewhere
  BY <1>5, PingKeeps, ElsewhereKeeps DEF dispatchVars
<1>6. CASE Owner /\ pc \in {"built", "returned"}
  <2>1. ~RegisterReturns /\ ~Start /\ ~Receive
    BY <1>6 DEF RegisterReturns, RegisterOk, RegisterFails, Start, StartOk,
       StartFails, Receive
  <2>2. ~Teardown
    BY <1>6 DEF Teardown, StopPing, JoinPing, NothingToShutDown, TakeUuid,
       LockToDeregister, SkipDeregister, DeregisterReturns, StopListener,
       LockRegistry, VisitPlugin, Notify, HookPanics, Unwind, UnlockRegistry, CloseClient
  <2>. QED
    BY <1>6, <1>1, <1>2, <1>4, <2>1, <2>2 DEF Owner
<1>. QED
  BY <1>3, <1>5, <1>6, StepKinds

(* The teardown loop takes over the registered plugins and drops some.      *)
LEMMA TodoSteps ==
  ASSUME [Next]_vars
  PROVE  todo' \subseteq todo \/ todo' = entries
<1>. DEFINE Goal == todo' \subseteq todo \/ todo' = entries
<1>. USE DEF dispatchVars
<1>1. CASE Owner
  <2>1. (\E p \in Plugins : VisitPlugin(p)) \/ LockRegistry \/ Notify \/ HookPanics => Goal
    BY DEF VisitPlugin, SweepNext, LockRegistry, StartSweep, Notify, NotifyPlugin,
       HookPanics, NotifyPanics
  <2>2. (\E p \in Plugins : AddPlugin(p)) \/ (\E p, q \in Plugins : AddPlugins(p, q))
          => Goal
    BY AddKeeps
  <2>3. Run \/ RegisterReturns \/ Start \/ Receive \/ ShutdownAgain \/ DropServer => Goal
    BY DEF Run, RegisterReturns, RegisterOk, RegisterFails, Start, StartOk,
       StartFails, Receive, ShutdownAgain, DropServer
  <2>4. StopPing \/ JoinPing \/ NothingToShutDown \/ TakeUuid \/ LockToDeregister
          \/ SkipDeregister => Goal
    BY DEF StopPing, JoinPing, NothingToShutDown, TakeUuid, LockToDeregister,
       SkipDeregister
  <2>5. DeregisterReturns \/ StopListener \/ Unwind \/ UnlockRegistry \/ CloseClient => Goal
    BY DEF DeregisterReturns, StopListener, Unwind, UnlockRegistry, CloseClient
  <2>. QED
    BY <1>1, <2>1, <2>2, <2>3, <2>4, <2>5 DEF Owner, Teardown
<1>2. CASE Ping \/ Elsewhere
  BY <1>2, PingKeeps, ElsewhereKeeps
<1>. QED
  BY <1>1, <1>2, StepKinds

(* Plugins are registered a few at a time, so there are finitely many.      *)
LEMMA FiniteStep == FinitelyMany /\ [Next]_vars => FinitelyMany'
<1>. SUFFICES ASSUME FinitelyMany, [Next]_vars PROVE FinitelyMany'
  OBVIOUS
<1>1. IsFiniteSet(entries')
  <2>1. \A p, q \in Plugins : IsFiniteSet(entries \cup {p})
                              /\ IsFiniteSet(entries \cup {p} \cup {q})
    BY FS_AddElement DEF FinitelyMany
  <2>. QED
    BY <2>1, RegistrySteps DEF FinitelyMany
<1>2. todo' \subseteq entries'
  BY TodoSteps, RegistrySteps DEF FinitelyMany
<1>. QED
  BY <1>1, <1>2 DEF FinitelyMany

(* The variant is a natural number, within sight of the registry's size.    *)
LEMMA StepsCounted ==
  ASSUME FinitelyMany
  PROVE  /\ Cardinality(entries) \in Nat
         /\ Cardinality(todo) \in Nat
         /\ IsFiniteSet(todo)
         /\ StepsLeft \in 0 .. (2 * Cardinality(entries) + 9)
<1>1. /\ Cardinality(entries) \in Nat /\ IsFiniteSet(todo)
      /\ Cardinality(todo) \in Nat /\ Cardinality(todo) <= Cardinality(entries)
  BY FS_CardinalityType, FS_Subset DEF FinitelyMany
<1>. QED
  BY <1>1 DEF StepsLeft, SweepLeft, ToVisit

(* Each step of the owner shortens teardown, and only its steps change it.  *)
LEMMA AdvanceStep ==
  ASSUME TypeOK, HookInv, FinitelyMany, [Next]_vars, TearingDown
  PROVE  StepsLeft' < StepsLeft \/ UNCHANGED <<pc, StepsLeft>>
<1>. DEFINE Goal == StepsLeft' < StepsLeft \/ UNCHANGED <<pc, StepsLeft>>
<1>n. Cardinality(entries) \in Nat /\ Cardinality(todo) \in Nat /\ Cardinality({}) = 0
  BY StepsCounted, FS_EmptySet
<1>e. entries' = entries
  BY EntriesStay DEF TearingDown
<1>. USE DEF StepsLeft, ToVisit, SweepLeft, dispatchVars
<1>1. CASE Owner
  <2>1. ~(Run \/ RegisterReturns \/ Start \/ Receive \/ ShutdownAgain \/ DropServer)
    BY DEF TearingDown, Run, RegisterReturns, RegisterOk, RegisterFails, Start, StartOk,
       StartFails, Receive, ShutdownAgain, DropServer, OwnerIdle
  <2>2. ~((\E p \in Plugins : AddPlugin(p)) \/ (\E p, q \in Plugins : AddPlugins(p, q)))
    BY DEF TearingDown, AddPlugin, AddPlugins, OwnerIdle
  <2>3. StopPing \/ JoinPing \/ TakeUuid \/ LockToDeregister \/ SkipDeregister
          => StepsLeft' < StepsLeft
    BY <1>n, <1>e DEF StopPing, JoinPing, ReturnFromRun, TakeUuid, LockToDeregister,
       SkipDeregister
  <2>4. NothingToShutDown \/ CloseClient => StepsLeft' < StepsLeft
    BY <1>n, <1>e DEF NothingToShutDown, CloseClient, LeaveShutdown
  <2>5. DeregisterReturns \/ StopListener \/ Unwind \/ UnlockRegistry
          => StepsLeft' < StepsLeft
    BY <1>n, <1>e DEF DeregisterReturns, StopListener, Unwind, UnlockRegistry
  <2>6. LockRegistry => StepsLeft' < StepsLeft
    BY <1>n, <1>e DEF LockRegistry, StartSweep, HookInv
  <2>7. ASSUME NEW p \in Plugins, VisitPlugin(p) PROVE StepsLeft' < StepsLeft
    <3>1. Cardinality(todo \ {p}) = Cardinality(todo) - 1
      BY <2>7, StepsCounted, FS_RemoveElement DEF VisitPlugin, SweepNext
    <3>2. p # NONE
      BY DispatchAssumption
    <3>. QED
      BY <1>n, <2>7, <3>1, <3>2 DEF VisitPlugin, SweepNext, managerVars, runVars
  <2>8. Notify => StepsLeft' < StepsLeft
    BY <1>n DEF Notify, NotifyPlugin, managerVars, runVars
  <2>9. HookPanics => StepsLeft' < StepsLeft
    BY <1>n DEF HookPanics, NotifyPanics
  <2>. QED
    BY <1>1, <2>1, <2>2, <2>3, <2>4, <2>5, <2>6, <2>7, <2>8, <2>9 DEF Owner, Teardown
<1>2. CASE Ping \/ Elsewhere
  BY <1>2, <1>e, PingKeeps, ElsewhereKeeps DEF runVars
<1>. QED
  BY <1>1, <1>2, StepKinds

(* The registry stays finite and the loop inside it.                       *)
LEMMA AlwaysFinite == Spec => []FinitelyMany
<1>1. Init => FinitelyMany
  BY FS_EmptySet DEF Init, DispatchInit, FinitelyMany
<1>. QED
  BY <1>1, FiniteStep, PTL DEF Spec

(* However many plugins, calls and requests there are, teardown is a fixed  *)
(* number of steps away from its end, and nothing but waiting can delay it. *)
THEOREM TeardownShortens == Spec => TeardownAdvances
<1>1. TypeOK /\ ManagerInv /\ FinitelyMany /\ [Next]_vars
        => [TearingDown => StepsLeft' < StepsLeft \/ UNCHANGED <<pc, StepsLeft>>]_vars
  BY AdvanceStep DEF ManagerInv
<1>. QED
  BY <1>1, AlwaysFinite, ManagerInvariant, PTL DEF Spec, TeardownAdvances

(* The steps that are left are a natural number bounded by the size of the  *)
(* registry, so that TeardownAdvances leaves teardown no infinite way.     *)
THEOREM TeardownFinite ==
  Spec => [](StepsLeft \in 0 .. (2 * Cardinality(entries) + 9))
BY AlwaysFinite, StepsCounted, PTL

-----------------------------------------------------------------------------
(* Who waits for the owner *)

\* No connection is served before run() has started the listener, and no signal
\* is waited for before run().
UnstartedInv ==
  /\ pc = "built" => signalPc = "none"
  /\ pc \in {"built", "register", "spawn"} =>
       listener = "none" /\ \A s \in Stoppers : stopperPc[s] = "idle"

(* Run() and StartOk leave these states, and nobody else starts a thread.   *)
LEMMA UnstartedStep == TypeOK /\ UnstartedInv /\ [Next]_vars => UnstartedInv'
<1>. SUFFICES ASSUME TypeOK, UnstartedInv, [Next]_vars PROVE UnstartedInv'
  OBVIOUS
<1>. USE DEF UnstartedInv, runVars, listenVars
<1>1. CASE Owner
  <2>1. (\E p \in Plugins : AddPlugin(p)) \/ (\E p, q \in Plugins : AddPlugins(p, q))
          => UnstartedInv'
    BY AddKeeps DEF managerVars
  <2>2. (\E p \in Plugins : VisitPlugin(p)) \/ Notify => UnstartedInv'
    BY DEF VisitPlugin, Notify, managerVars
  <2>3. Run => UnstartedInv'
    BY DEF Run
  <2>4. RegisterReturns => UnstartedInv'
    BY DEF RegisterReturns, RegisterOk, RegisterFails, ReturnFromRun
  <2>5. Start \/ Receive \/ ShutdownAgain \/ DropServer => UnstartedInv'
    BY DEF Start, StartOk, StartFails, ReturnFromRun, Receive, ShutdownAgain, DropServer
  <2>6. StopPing \/ JoinPing \/ TakeUuid \/ LockToDeregister \/ SkipDeregister
          => UnstartedInv'
    BY DEF StopPing, JoinPing, ReturnFromRun, TakeUuid, LockToDeregister, SkipDeregister
  <2>7. NothingToShutDown \/ CloseClient => UnstartedInv'
    BY DEF NothingToShutDown, CloseClient, LeaveShutdown
  <2>8. DeregisterReturns \/ StopListener \/ LockRegistry \/ HookPanics \/ Unwind
          \/ UnlockRegistry => UnstartedInv'
    BY DEF DeregisterReturns, StopListener, LockRegistry, HookPanics, Unwind,
       UnlockRegistry
  <2>. QED
    BY <1>1, <2>1, <2>2, <2>3, <2>4, <2>5, <2>6, <2>7, <2>8 DEF Owner, Teardown
<1>2. CASE Ping
  BY <1>2 DEF Ping, PingWakes, PingLocks, PingReturns, PingReports, PingUnchanged
<1>3. CASE Elsewhere
  <2>1. pc' = pc
    BY <1>3, ElsewhereKeeps
  <2>2. Listener => UnstartedInv'
    BY <2>1 DEF Listener, Bind, AcceptFails, SeeStop, ReportListenError, DropRuntime,
       ListenUnchanged
  <2>3. ASSUME NEW c \in Callers, NEW p \in Plugins, CallArrives(c, p)
        PROVE  UnstartedInv'
    BY <2>3 DEF CallArrives, managerVars
  <2>4. ASSUME NEW c \in Callers, CallStep(c) \/ CallReturns(c) PROVE UnstartedInv'
    BY <2>4 DEF CallStep, CallReturns, managerVars
  <2>5. ASSUME NEW s \in Stoppers, ShutdownArrives(s) \/ HandleShutdown(s)
        PROVE  UnstartedInv'
    BY <2>5 DEF ShutdownArrives, HandleShutdown, SideUnchanged, ConnectionsServed, TypeOK
  <2>6. Signals \/ Osquery \/ UNCHANGED vars => UnstartedInv'
    BY DEF Signals, SignalArrives, SignalSends, TryShutdown, SideUnchanged, Messages,
       Osquery, OsqueryServes, LinkBreaks, OsqueryExits, vars, managerVars
  <2>. QED
    BY <1>3, <2>2, <2>3, <2>4, <2>5, <2>6 DEF Elsewhere, Connections
<1>. QED
  BY <1>1, <1>2, <1>3, StepKinds

(* Nobody who needs the owner, to be heard on the full channel or to be let *)
(* into the registry, waits for an owner that is idle or gone.             *)
THEOREM WaitersAreHeard == Spec => []WaitersHeard
<1>1. Init => UnstartedInv
  BY DEF Init, ManagerInit, UnstartedInv
<1>2. TypeOK /\ ManagerInv /\ UnstartedInv => WaitersHeard
  BY DEF TypeOK, OwnerStates, ManagerInv, ClientInv, HookInv, RunInv, UnstartedInv,
     WaitersHeard, ChannelFull, Sending, Messages, TearingDown, Sweeping
<1>. QED
  BY <1>1, <1>2, UnstartedStep, ManagerInvariant, PTL DEF Spec

-----------------------------------------------------------------------------
(* The abstract life cycle *)

(* A manager that was just started maps to an idle life cycle.             *)
LEMMA InitRefines == Init => Lifecycle!LifecycleInit
BY DEF Init, DispatchInit, ManagerInit, Lifecycle!LifecycleInit, Stage, Asked

(* Every step of a thread is a step of the abstract life cycle or none.    *)
LEMMA StepRefines ==
  TypeOK /\ ManagerInv /\ [Next]_vars
    => [Lifecycle!LifecycleNext]_<<Stage, Asked, hooks>>
<1>. SUFFICES ASSUME TypeOK, ManagerInv, [Next]_vars
              PROVE  [Lifecycle!LifecycleNext]_<<Stage, Asked, hooks>>
  OBVIOUS
<1>. DEFINE Goal == [Lifecycle!LifecycleNext]_<<Stage, Asked, hooks>>
            Stutter == UNCHANGED <<Stage, Asked, hooks>>
<1>. USE DEF ManagerInv, RunInv, Stage, Asked, runVars, channel, dispatchVars
<1>t. stopSignal \in Messages \cup {"none"} /\ queue \in {<<>>} \cup {<<m>> : m \in Messages}
  BY DEF TypeOK
<1>m. Messages = {"stop", "error"}
  BY DEF Messages
<1>1. CASE Owner
  <2>1. ASSUME \/ \E p \in Plugins : AddPlugin(p)
               \/ \E p, q \in Plugins : AddPlugins(p, q)
        PROVE  Stutter
    BY <2>1, AddKeeps DEF managerVars
  <2>2. ASSUME Run PROVE Lifecycle!Begin
    BY <2>2 DEF Run, Lifecycle!Begin
  <2>3. ASSUME RegisterOk PROVE Stutter
    BY <2>3 DEF RegisterOk
  <2>4. ASSUME RegisterFails PROVE Lifecycle!Abandon
    BY <2>4 DEF RegisterFails, ReturnFromRun, Lifecycle!Abandon
  <2>5. ASSUME StartOk PROVE Lifecycle!ComeUp
    BY <2>5 DEF StartOk, Lifecycle!ComeUp
  <2>6. ASSUME StartFails PROVE Lifecycle!Abandon
    BY <2>6 DEF StartFails, ReturnFromRun, Lifecycle!Abandon
  <2>7. ASSUME Receive PROVE Lifecycle!Stop
    BY <2>7, <1>t, <1>m, QueueFacts DEF Receive, Lifecycle!Stop
  <2>8. ASSUME ShutdownAgain PROVE Stutter
    BY <2>8 DEF ShutdownAgain
  <2>9. ASSUME DropServer PROVE Stutter
    BY <2>9 DEF DropServer, OwnerIdle
  <2>10. ASSUME StopPing PROVE Stutter
    BY <2>10 DEF StopPing
  <2>11. ASSUME JoinPing PROVE Lifecycle!Finish
    BY <2>11 DEF JoinPing, ReturnFromRun, Lifecycle!Finish
  <2>12. ASSUME NothingToShutDown PROVE Stutter \/ Lifecycle!Abandon
    BY <2>12 DEF NothingToShutDown, LeaveShutdown, Lifecycle!Abandon
  <2>13. ASSUME TakeUuid PROVE Stutter
    BY <2>13 DEF TakeUuid
  <2>14. ASSUME LockToDeregister PROVE Stutter
    BY <2>14 DEF LockToDeregister
  <2>15. ASSUME SkipDeregister PROVE Stutter
    BY <2>15 DEF SkipDeregister
  <2>16. ASSUME DeregisterReturns PROVE Stutter
    BY <2>16 DEF DeregisterReturns
  <2>17. ASSUME StopListener PROVE Stutter
    BY <2>17 DEF StopListener
  <2>18. ASSUME LockRegistry PROVE Stutter
    BY <2>18 DEF LockRegistry, SweepNext, StartSweep
  <2>19. ASSUME NEW p \in Plugins, VisitPlugin(p) PROVE Stutter
    BY <2>19 DEF VisitPlugin, managerVars, SweepNext, StartSweep
  <2>20. ASSUME Notify PROVE Stutter \/ \E p \in Plugins : Lifecycle!Tell(p)
    <3>1. current \in Plugins /\ hooks[current] = 0
      BY <2>20 DEF Notify, NotifyPlugin, TypeOK, DispatchTypeOK, HookInv
    <3>2. hooks' = hooks \/ hooks' = [hooks EXCEPT ![current] = hooks[current] + 1]
      BY <2>20 DEF Notify, NotifyPlugin
    <3>3. Stage \in {"stopping", "over"} /\ UNCHANGED <<Stage, Asked>>
      BY <2>20 DEF Notify, managerVars
    <3>4. hooks' = hooks \/ hooks' = [hooks EXCEPT ![current] = 1]
      BY <3>1, <3>2
    <3>. QED
      BY <3>1, <3>3, <3>4 DEF Lifecycle!Tell
  <2>21. ASSUME UnlockRegistry PROVE Stutter
    BY <2>21 DEF UnlockRegistry
  <2>22. ASSUME CloseClient PROVE Stutter
    BY <2>22 DEF CloseClient, LeaveShutdown
  <2>23. ASSUME HookPanics PROVE \E p \in Plugins : Lifecycle!Tell(p)
    <3>1. current \in Plugins /\ hooks[current] = 0
      BY <2>23 DEF HookPanics, NotifyPanics, TypeOK, DispatchTypeOK, HookInv
    <3>2. hooks' = [hooks EXCEPT ![current] = 1]
      BY <2>23, <3>1 DEF HookPanics, NotifyPanics
    <3>3. Stage \in {"stopping", "over"} /\ UNCHANGED <<Stage, Asked>>
      BY <2>23 DEF HookPanics
    <3>. QED
      BY <3>1, <3>2, <3>3 DEF Lifecycle!Tell
  <2>24. ASSUME Unwind PROVE Stutter \/ Lifecycle!Finish
    BY <2>24 DEF Unwind, Lifecycle!Finish
  <2>. QED
    BY <1>1, <2>1, <2>2, <2>3, <2>4, <2>5, <2>6, <2>7, <2>8, <2>9, <2>10,
       <2>11, <2>12, <2>13, <2>14, <2>15, <2>16, <2>17, <2>18, <2>19,
       <2>20, <2>21, <2>22, <2>23, <2>24
    DEF Owner, RegisterReturns, Start, Teardown, Lifecycle!LifecycleNext
<1>2. CASE Ping \/ Elsewhere
  <2>1. UNCHANGED <<pc, dropping, stopSignal, hooks>>
    BY <1>2, PingKeeps, ElsewhereKeeps
  <2>2. UNCHANGED rxAlive
    BY <1>2, ChannelSteps
  <2>3. UNCHANGED Stage
    BY <2>1, <2>2
  <2>4. CASE queue' = queue
    BY <2>1, <2>3, <2>4
  <2>5. ASSUME NEW m \in Messages, rxAlive, queue = <<>>, queue' = <<m>>
        PROVE  Goal
    <3>1. CASE stopSignal # "none"
      BY <2>1, <2>3, <3>1
    <3>2. CASE stopSignal = "none"
      <4>1. Stage \in {"built", "starting", "up"}
        BY <2>5, <3>2
      <4>2. Asked = "none" /\ Asked' = m
        BY <2>1, <2>5, <3>2, QueueFacts, <1>t
      <4>3. Lifecycle!Ask(m)
        BY <2>1, <2>3, <4>1, <4>2 DEF Lifecycle!Ask
      <4>. QED
        BY <4>3, <1>m DEF Lifecycle!LifecycleNext
    <3>. QED
      BY <3>1, <3>2
  <2>. QED
    BY <1>2, <2>4, <2>5, ChannelSteps
<1>. QED
  BY <1>1, <1>2, StepKinds

(* The threads and locks implement the abstract life cycle: the first      *)
(* request accepted decides how run() ends, and plugins are notified at    *)
(* most once, never while the server is up.                                *)
THEOREM Refinement == Spec => ImplementsLifecycle
<1>1. Init => Lifecycle!LifecycleInit
  BY InitRefines
<1>2. TypeOK /\ ManagerInv /\ [Next]_vars
        => [Lifecycle!LifecycleNext]_<<Stage, Asked, hooks>>
  BY StepRefines
<1>. QED
  BY <1>1, <1>2, ManagerInvariant, PTL
  DEF Spec, ImplementsLifecycle, Lifecycle!LifecycleSpec, Lifecycle!lifecycleVars
=============================================================================
