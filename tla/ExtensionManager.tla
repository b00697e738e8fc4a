-------------------------- MODULE ExtensionManager --------------------------
(***************************************************************************)
(* The life of one ExtensionManagerServer: registration with osquery, the  *)
(* run loop, and teardown, with every thread that takes part in it.        *)
(*                                                                         *)
(*   owner     the thread that calls run(), shutdown() and drops the       *)
(*             server                                                      *)
(*   ping      the watcher run() spawns, pinging osquery on the shared     *)
(*             client                                                      *)
(*   listener  the thread start() spawns around ExtensionServer::listen,   *)
(*             with the runtime that carries the connection tasks          *)
(*   signals   the thread of run_with_signal_handling()                    *)
(*   Callers, Stoppers   connection tasks carrying osquery's `call` and    *)
(*             `shutdown` requests                                         *)
(*                                                                         *)
(* They share the plugin registry (PluginDispatch), the osquery client     *)
(* behind its mutex, and the shutdown channel, a sync_channel(1).          *)
(***************************************************************************)
EXTENDS PluginDispatch, Sequences

CONSTANTS
  Stoppers,   \* connection tasks that carry osquery's `shutdown` request
  RunModes,   \* how the program may run the server, a subset of AllRunModes
  Owned,      \* does the server own the client (ClientOwnership)?
  HangingOps, \* RPCs to osquery that may never be answered
  CallsReturn \* does every plugin call return (or panic) eventually?

Ops == {"register", "ping", "deregister"}

\* run() and run_with_signal_handling()
AllRunModes == {"plain", "signals"}

ASSUME ManagerAssumption ==
  /\ RunModes \subseteq AllRunModes
  /\ Owned \in BOOLEAN
  /\ HangingOps \subseteq Ops
  /\ CallsReturn \in BOOLEAN

QueueCap == 1   \* mpsc::sync_channel(1)

VARIABLES
  pc,             \* where the owner is
  dropping,       \* the owner is in Drop
  hasUuid,        \* self.uuid is Some
  queue,          \* the shutdown channel's buffer
  rxAlive,        \* the channel's receiver exists
  stopSignal,     \* what run() received from the channel, if anything
  pingPc,         \* where the ping thread is
  pingStop,       \* the owner told the ping thread to stop
  listener,       \* where the listener thread is
  stopRequested,  \* StopHandle::stop() was called
  signalPc,       \* where the signal thread is
  stopperPc,      \* where each shutdown request is
  client,         \* the Option behind the client mutex
  reply,          \* osquery's answer to the RPC in flight
  link,           \* the connection to osquery
  registered,     \* osquery has the extension in its registry
  fate            \* history: how this side let go of its registration

runVars    == <<pc, dropping, hasUuid, stopSignal, fate>>
channel    == <<queue, rxAlive>>
pingVars   == <<pingPc, pingStop>>
listenVars == <<listener, stopRequested>>
rpcVars    == <<reply, link, registered>>
managerVars == <<runVars, channel, pingVars, listenVars, signalPc, stopperPc,
                 client, rpcVars>>
vars == <<dispatchVars, managerVars>>

-----------------------------------------------------------------------------
(* States *)

OwnerStates == {"built", "register", "spawn", "recv", "stopPing", "shutdown",
                "deregLock", "deregister", "stop", "notify", "sweep", "unwind",
                "close", "join", "returned", "dropped"}
PingStates == {"none", "sleep", "lock", "rpc", "report", "exit"}
ListenerStates == {"none", "bind", "accept", "bindFailed", "acceptFailed",
                   "drain", "exit"}
Messages == {"stop", "error"}  \* None and Some(err) on the channel

TypeOK ==
  /\ DispatchTypeOK
  /\ pc \in OwnerStates
  /\ dropping \in BOOLEAN
  /\ hasUuid \in BOOLEAN
  /\ queue \in {<<>>} \cup {<<m>> : m \in Messages}
  /\ rxAlive \in BOOLEAN
  /\ stopSignal \in Messages \cup {"none"}
  /\ pingPc \in PingStates
  /\ pingStop \in BOOLEAN
  /\ listener \in ListenerStates
  /\ stopRequested \in BOOLEAN
  /\ signalPc \in Messages \cup {"none", "wait", "done"}
  /\ stopperPc \in [Stoppers -> {"idle", "send"}]
  /\ client \in {"open", "cleared"}
  /\ reply \in {"none", "yes", "no"}
  /\ link \in {"up", "down"}
  /\ registered \in BOOLEAN
  /\ fate \in {"none", "held", "released", "failed", "skipped", "unknown"}

ManagerInit ==
  /\ pc = "built"
  /\ dropping = FALSE
  /\ hasUuid = FALSE
  /\ queue = <<>>
  /\ rxAlive = TRUE
  /\ stopSignal = "none"
  /\ pingPc = "none"
  /\ pingStop = FALSE
  /\ listener = "none"
  /\ stopRequested = FALSE
  /\ signalPc = "none"
  /\ stopperPc = [s \in Stoppers |-> "idle"]
  /\ client = "open"
  /\ reply = "none"
  /\ link = "up"
  /\ registered = FALSE
  /\ fate = "none"

Init == DispatchInit /\ ManagerInit

-----------------------------------------------------------------------------
(* The shared channel, the client lock and the RPCs behind it *)

\* Mutant: an unbounded channel.
Send_Unbounded(m) ==
  /\ queue' = IF rxAlive THEN Append(queue, m) ELSE queue
  /\ UNCHANGED rxAlive

\* SyncSender::send blocks while the buffer is full and fails, without
\* blocking, once the receiver is gone. Every sender ignores the failure.
Send(m) ==
  /\ Len(queue) < QueueCap \/ ~rxAlive
  /\ queue' = IF rxAlive THEN Append(queue, m) ELSE queue
  /\ UNCHANGED rxAlive

OwnerHoldsClient == pc \in {"register", "deregister"}
PingHoldsClient == pingPc \in {"rpc", "report"}
ClientFree == ~OwnerHoldsClient /\ ~PingHoldsClient

InFlight(op) == IF op = "ping" THEN pingPc = "rpc" ELSE pc = op

\* The client verifies the reply and maps a bad status to an error; a broken
\* connection is an error too. No timeout is set on the socket.
RpcOk == reply = "yes"
RpcFails == reply = "no" \/ (link = "down" /\ reply = "none")

\* osquery answers the RPC in flight and updates its registry.
OsqueryServes(op) ==
  /\ InFlight(op)
  /\ reply = "none"
  /\ link = "up"
  /\ \E answer \in {"yes", "no"} :
       /\ reply' = answer
       /\ registered' = IF answer = "no" THEN registered
                        ELSE CASE op = "register" -> TRUE
                               [] op = "deregister" -> FALSE
                               [] OTHER -> registered
  /\ UNCHANGED <<dispatchVars, runVars, channel, pingVars, listenVars,
                 signalPc, stopperPc, client, link>>

\* The socket breaks: an answer that is already in it can still be read.
LinkBreaks ==
  /\ link = "up"
  /\ link' = "down"
  /\ reply' \in {reply, "none"}
  /\ UNCHANGED <<dispatchVars, runVars, channel, pingVars, listenVars,
                 signalPc, stopperPc, client, registered>>

\* osquery goes away and its registry with it.
OsqueryExits ==
  /\ link' = "down"
  /\ reply' \in {reply, "none"}
  /\ registered
  /\ registered' = FALSE
  /\ UNCHANGED <<dispatchVars, runVars, channel, pingVars, listenVars,
                 signalPc, stopperPc, client>>

-----------------------------------------------------------------------------
(* run(): registration and start *)

OwnerIdle == pc \in {"built", "returned"}

\* register_plugin and register_plugins need &mut self.
AddPlugin(p) ==
  /\ OwnerIdle
  /\ RegisterPlugin(p)
  /\ UNCHANGED managerVars

AddPlugins(p, q) ==
  /\ OwnerIdle
  /\ RegisterPlugins(p, q)
  /\ UNCHANGED managerVars

\* run(), or run_with_signal_handling(), which first spawns the signal thread;
\* register_extension() then holds the client for the RPC.
Run ==
  /\ pc = "built"
  /\ pc' = "register"
  /\ \/ "plain" \in RunModes /\ signalPc' = "none"
     \/ "signals" \in RunModes /\ signalPc' = "wait"
  /\ reply' = "none"
  /\ UNCHANGED <<dispatchVars, dropping, hasUuid, stopSignal, fate, channel,
                 pingVars, listenVars, stopperPc, client, link, registered>>

\* Mutant: run() borrows the receiver instead of taking it.
ReturnFromRun_KeepsReceiver ==
  /\ pc' = "returned"
  /\ UNCHANGED <<rxAlive, queue>>

\* run() returns: its stack frame, with the receiver on it, is gone.
ReturnFromRun ==
  /\ pc' = "returned"
  /\ rxAlive' = FALSE
  /\ queue' = <<>>

RegisterOk ==
  /\ pc = "register"
  /\ RpcOk
  /\ hasUuid' = TRUE
  /\ fate' = "held"
  /\ pc' = "spawn"
  /\ reply' = "none"
  /\ UNCHANGED <<dispatchVars, dropping, stopSignal, channel, pingVars,
                 listenVars, signalPc, stopperPc, client, link, registered>>

RegisterFails ==
  /\ pc = "register"
  /\ RpcFails
  /\ ReturnFromRun
  /\ fate' = "unknown"
  /\ reply' = "none"
  /\ UNCHANGED <<dispatchVars, dropping, hasUuid, stopSignal, pingVars,
                 listenVars, signalPc, stopperPc, client, link, registered>>

\* ExtensionServer::new, the listener thread, then the ping thread.
StartOk ==
  /\ pc = "spawn"
  /\ listener' = "bind"
  /\ pingPc' = "sleep"
  /\ pc' = "recv"
  /\ UNCHANGED <<dispatchVars, dropping, hasUuid, stopSignal, fate, channel,
                 pingStop, stopRequested, signalPc, stopperPc, client, rpcVars>>

\* The tokio runtime cannot be built: run() fails with the uuid still held.
StartFails ==
  /\ pc = "spawn"
  /\ ReturnFromRun
  /\ UNCHANGED <<dispatchVars, dropping, hasUuid, stopSignal, fate, pingVars,
                 listenVars, signalPc, stopperPc, client, rpcVars>>

Receive ==
  /\ pc = "recv"
  /\ queue # <<>>
  /\ stopSignal' = Head(queue)
  /\ queue' = Tail(queue)
  /\ pc' = "stopPing"
  /\ UNCHANGED <<dispatchVars, dropping, hasUuid, fate, rxAlive, pingVars,
                 listenVars, signalPc, stopperPc, client, rpcVars>>

StopPing ==
  /\ pc = "stopPing"
  /\ pingStop' = TRUE
  /\ pc' = "shutdown"
  /\ UNCHANGED <<dispatchVars, dropping, hasUuid, stopSignal, fate, channel,
                 pingPc, listenVars, signalPc, stopperPc, client, rpcVars>>

\* Collect the ping thread, or detach it when the deadline passes first.
JoinPing ==
  /\ pc = "join"
  /\ ReturnFromRun
  /\ UNCHANGED <<dispatchVars, dropping, hasUuid, stopSignal, fate, pingVars,
                 listenVars, signalPc, stopperPc, client, rpcVars>>

-----------------------------------------------------------------------------
(* shutdown(): from run(), from the embedding program, from Drop *)

\* The program calls shutdown() itself once run() has returned.
ShutdownAgain ==
  /\ pc = "returned"
  /\ pc' = "shutdown"
  /\ UNCHANGED <<dispatchVars, dropping, hasUuid, stopSignal, fate, channel,
                 pingVars, listenVars, signalPc, stopperPc, client, rpcVars>>

DropServer ==
  /\ OwnerIdle
  /\ dropping' = TRUE
  /\ pc' = "shutdown"
  /\ UNCHANGED <<dispatchVars, hasUuid, stopSignal, fate, channel, pingVars,
                 listenVars, signalPc, stopperPc, client, rpcVars>>

\* Back to shutdown()'s caller. Dropping the server drops a receiver that
\* run() never took.
LeaveShutdown ==
  /\ pc' = IF dropping THEN "dropped" ELSE IF rxAlive THEN "join" ELSE "returned"
  /\ rxAlive' = (rxAlive /\ ~dropping)
  /\ queue' = IF dropping THEN <<>> ELSE queue

NothingToShutDown ==
  /\ pc = "shutdown"
  /\ ~hasUuid
  /\ LeaveShutdown
  /\ UNCHANGED <<dispatchVars, dropping, hasUuid, stopSignal, fate, pingVars,
                 listenVars, signalPc, stopperPc, client, rpcVars>>

\* Mutant: deregisters only a server whose listener was started.
TakeUuid_OnlyStarted ==
  /\ pc = "shutdown"
  /\ hasUuid
  /\ hasUuid' = FALSE
  /\ pc' = IF listener = "none" THEN "stop" ELSE "deregLock"
  /\ UNCHANGED <<dispatchVars, dropping, stopSignal, fate, channel, pingVars,
                 listenVars, signalPc, stopperPc, client, rpcVars>>

TakeUuid ==
  /\ pc = "shutdown"
  /\ hasUuid
  /\ hasUuid' = FALSE
  /\ pc' = "deregLock"
  /\ UNCHANGED <<dispatchVars, dropping, stopSignal, fate, channel, pingVars,
                 listenVars, signalPc, stopperPc, client, rpcVars>>

\* Mutant: the deadline passes and the RPC is made regardless.
LockToDeregister_Regardless ==
  /\ pc = "deregLock"
  /\ pc' = IF client = "open" THEN "deregister" ELSE "stop"
  /\ reply' = "none"
  /\ UNCHANGED <<dispatchVars, dropping, hasUuid, stopSignal, fate, channel,
                 pingVars, listenVars, signalPc, stopperPc, client, link,
                 registered>>

\* try_lock_client succeeds on the first attempt that finds the lock free.
LockToDeregister ==
  /\ pc = "deregLock"
  /\ ClientFree
  /\ pc' = IF client = "open" THEN "deregister" ELSE "stop"
  /\ reply' = "none"
  /\ UNCHANGED <<dispatchVars, dropping, hasUuid, stopSignal, fate, channel,
                 pingVars, listenVars, signalPc, stopperPc, client, link,
                 registered>>

\* Mutant: lock() without a deadline.
SkipDeregister_Never == FALSE /\ UNCHANGED vars

\* ...and gives up when the deadline passes with the lock still held.
SkipDeregister ==
  /\ pc = "deregLock"
  /\ ~ClientFree
  /\ pc' = "stop"
  /\ fate' = "skipped"
  /\ UNCHANGED <<dispatchVars, dropping, hasUuid, stopSignal, channel,
                 pingVars, listenVars, signalPc, stopperPc, client, rpcVars>>

\* An error from osquery is logged and otherwise ignored.
DeregisterReturns ==
  /\ pc = "deregister"
  /\ RpcOk \/ RpcFails
  /\ fate' = IF RpcOk THEN "released" ELSE "failed"
  /\ pc' = "stop"
  /\ reply' = "none"
  /\ UNCHANGED <<dispatchVars, dropping, hasUuid, stopSignal, channel,
                 pingVars, listenVars, signalPc, stopperPc, client, link,
                 registered>>

\* Mutant: the stop handle is dropped without stop().
StopListener_DropsHandle ==
  /\ pc = "stop"
  /\ pc' = "notify"
  /\ UNCHANGED <<dispatchVars, dropping, hasUuid, stopSignal, fate, channel,
                 pingVars, listenVars, signalPc, stopperPc, client, rpcVars>>

\* server_stop_handle is None when ExtensionServer::new failed.
StopListener ==
  /\ pc = "stop"
  /\ stopRequested' = (listener # "none")
  /\ pc' = "notify"
  /\ UNCHANGED <<dispatchVars, dropping, hasUuid, stopSignal, fate, channel,
                 pingVars, listener, signalPc, stopperPc, client, rpcVars>>

LockRegistry ==
  /\ pc = "notify"
  /\ StartSweep
  /\ pc' = "sweep"
  /\ UNCHANGED <<dropping, hasUuid, stopSignal, fate, channel, pingVars,
                 listenVars, signalPc, stopperPc, client, rpcVars>>

VisitPlugin(p) == pc = "sweep" /\ SweepNext(p) /\ UNCHANGED managerVars

Notify == pc = "sweep" /\ NotifyPlugin /\ UNCHANGED managerVars

HookPanics ==
  /\ pc = "sweep"
  /\ NotifyPanics
  /\ pc' = "unwind"
  /\ UNCHANGED <<dropping, hasUuid, stopSignal, fate, channel, pingVars,
                 listenVars, signalPc, stopperPc, client, rpcVars>>

\* The panic leaves shutdown() and run(): the client is not closed and the
\* ping thread is detached. A program that catches it still has the server.
Unwind ==
  /\ pc = "unwind"
  /\ pc' = IF dropping THEN "dropped" ELSE "returned"
  /\ rxAlive' = FALSE
  /\ queue' = <<>>
  /\ UNCHANGED <<dispatchVars, dropping, hasUuid, stopSignal, fate, pingVars,
                 listenVars, signalPc, stopperPc, client, rpcVars>>

UnlockRegistry ==
  /\ pc = "sweep"
  /\ ~Sweeping
  /\ pc' = "close"
  /\ UNCHANGED <<dispatchVars, dropping, hasUuid, stopSignal, fate, channel,
                 pingVars, listenVars, signalPc, stopperPc, client, rpcVars>>

\* Mutant: the client is closed under lock(), without a deadline.
CloseClient_Waits ==
  /\ pc = "close"
  /\ Owned => ClientFree
  /\ client' = IF Owned THEN "cleared" ELSE client
  /\ LeaveShutdown
  /\ UNCHANGED <<dispatchVars, dropping, hasUuid, stopSignal, fate, pingVars,
                 listenVars, signalPc, stopperPc, rpcVars>>

\* An owned client is closed and cleared under its lock; when the deadline
\* passes with the lock held the close is skipped.
CloseClient ==
  /\ pc = "close"
  /\ client' = IF Owned /\ ClientFree THEN "cleared" ELSE client
  /\ LeaveShutdown
  /\ UNCHANGED <<dispatchVars, dropping, hasUuid, stopSignal, fate, pingVars,
                 listenVars, signalPc, stopperPc, rpcVars>>

-----------------------------------------------------------------------------
(* The ping thread *)

PingUnchanged ==
  UNCHANGED <<dispatchVars, runVars, pingStop, listenVars, signalPc,
              stopperPc, client, link, registered>>

\* Mutant: the stop message is not looked at.
PingWakes_NoStop ==
  /\ pingPc = "sleep"
  /\ pingPc' = "lock"
  /\ PingUnchanged
  /\ UNCHANGED <<channel, reply>>

\* recv_timeout: a stop message that is there wins over the elapsed interval.
PingWakes ==
  /\ pingPc = "sleep"
  /\ pingPc' = IF pingStop THEN "exit" ELSE "lock"
  /\ PingUnchanged
  /\ UNCHANGED <<channel, reply>>

\* Mutant: the ping does not look whether the client was cleared.
PingLocks_Unchecked ==
  /\ pingPc = "lock"
  /\ ClientFree
  /\ pingPc' = "rpc"
  /\ reply' = "none"
  /\ PingUnchanged
  /\ UNCHANGED channel

PingLocks ==
  /\ pingPc = "lock"
  /\ ClientFree
  /\ pingPc' = IF client = "open" THEN "rpc" ELSE "exit"
  /\ reply' = "none"
  /\ PingUnchanged
  /\ UNCHANGED channel

\* A failed ping is reported with the client lock still held.
PingReturns ==
  /\ pingPc = "rpc"
  /\ \/ RpcOk /\ pingPc' = "sleep"
     \/ RpcFails /\ pingPc' = "report"
  /\ reply' = "none"
  /\ PingUnchanged
  /\ UNCHANGED channel

\* Mutant: the failure is not reported.
PingReports_Quits ==
  /\ pingPc = "report"
  /\ pingPc' = "exit"
  /\ PingUnchanged
  /\ UNCHANGED <<channel, reply>>

PingReports ==
  /\ pingPc = "report"
  /\ Send("error")
  /\ pingPc' = "exit"
  /\ PingUnchanged
  /\ UNCHANGED reply

-----------------------------------------------------------------------------
(* The listener thread *)

ListenUnchanged ==
  UNCHANGED <<dispatchVars, runVars, pingVars, stopRequested, signalPc,
              stopperPc, client, rpcVars>>

\* Binding the socket fails, for instance on a stale socket file.
Bind ==
  /\ listener = "bind"
  /\ listener' \in {"accept", "bindFailed"}
  /\ ListenUnchanged
  /\ UNCHANGED channel

AcceptFails ==
  /\ listener = "accept"
  /\ listener' = "acceptFailed"
  /\ ListenUnchanged
  /\ UNCHANGED channel

\* The accept loop ends and the runtime is told to end its tasks. A task that
\* still has a request in its buffer may run that one too until it awaits; here
\* such a request came before this step.
SeeStop ==
  /\ listener = "accept"
  /\ stopRequested
  /\ listener' = "drain"
  /\ ListenUnchanged
  /\ UNCHANGED channel

\* Mutant: the listener's error is dropped.
ReportListenError_Silent ==
  /\ listener \in {"bindFailed", "acceptFailed"}
  /\ listener' = "drain"
  /\ ListenUnchanged
  /\ UNCHANGED channel

\* The error is sent before the runtime is dropped, so connections accepted
\* earlier are served for as long as the send blocks.
ReportListenError ==
  /\ listener \in {"bindFailed", "acceptFailed"}
  /\ Send("error")
  /\ listener' = "drain"
  /\ ListenUnchanged

\* Dropping the runtime waits for the tasks that are inside synchronous code
\* and drops the others.
DropRuntime ==
  /\ listener = "drain"
  /\ \A c \in Callers : callerPc[c] = "idle"
  /\ \A s \in Stoppers : stopperPc[s] = "idle"
  /\ listener' = "exit"
  /\ ListenUnchanged
  /\ UNCHANGED channel

-----------------------------------------------------------------------------
(* Connection tasks, the signal thread and shutdown handles *)

ConnectionsServed == listener \in {"accept", "acceptFailed"}

CallArrives(c, p) ==
  /\ ConnectionsServed
  /\ BeginCall(c, p)
  /\ UNCHANGED managerVars

CallStep(c) ==
  /\ Lookup(c) \/ LockPlugin(c)
  /\ UNCHANGED managerVars

CallReturns(c) ==
  /\ ReturnCall(c) \/ PanicCall(c)
  /\ UNCHANGED managerVars

SideUnchanged ==
  UNCHANGED <<dispatchVars, runVars, pingVars, listenVars, client, rpcVars>>

ShutdownArrives(s) ==
  /\ ConnectionsServed
  /\ stopperPc[s] = "idle"
  /\ stopperPc' = [stopperPc EXCEPT ![s] = "send"]
  /\ SideUnchanged
  /\ UNCHANGED <<channel, signalPc>>

\* handle_shutdown blocks its connection task while the channel is full.
HandleShutdown(s) ==
  /\ stopperPc[s] = "send"
  /\ Send("stop")
  /\ stopperPc' = [stopperPc EXCEPT ![s] = "idle"]
  /\ SideUnchanged
  /\ UNCHANGED signalPc

\* A termination signal arrives, or waiting for one fails.
SignalArrives ==
  /\ signalPc = "wait"
  /\ signalPc' \in Messages
  /\ SideUnchanged
  /\ UNCHANGED <<channel, stopperPc>>

SignalSends ==
  /\ signalPc \in Messages
  /\ Send(signalPc)
  /\ signalPc' = "done"
  /\ SideUnchanged
  /\ UNCHANGED stopperPc

\* Mutant: the request overwrites one that is still queued.
TryShutdown_Overwrites ==
  /\ rxAlive
  /\ queue' = <<"stop">>
  /\ SideUnchanged
  /\ UNCHANGED <<rxAlive, signalPc, stopperPc>>

\* ShutdownHandle::shutdown: try_send, dropped when the channel is full or
\* its receiver is gone.
TryShutdown ==
  /\ rxAlive
  /\ Len(queue) < QueueCap
  /\ queue' = Append(queue, "stop")
  /\ SideUnchanged
  /\ UNCHANGED <<rxAlive, signalPc, stopperPc>>

-----------------------------------------------------------------------------
(* The specification *)

RegisterReturns == RegisterOk \/ RegisterFails
Start == StartOk \/ StartFails

\* The owner's steps that need neither an event nor another thread's RPC.
Teardown ==
  \/ StopPing \/ JoinPing
  \/ NothingToShutDown \/ TakeUuid \/ LockToDeregister \/ SkipDeregister
  \/ DeregisterReturns \/ StopListener \/ LockRegistry
  \/ \E p \in Plugins : VisitPlugin(p)
  \/ Notify \/ HookPanics \/ Unwind \/ UnlockRegistry \/ CloseClient

Owner ==
  \/ \E p \in Plugins : AddPlugin(p)
  \/ \E p, q \in Plugins : AddPlugins(p, q)
  \/ Run \/ RegisterReturns \/ Start \/ Receive
  \/ ShutdownAgain \/ DropServer
  \/ Teardown

Ping == PingWakes \/ PingLocks \/ PingReturns \/ PingReports

Listener == Bind \/ AcceptFails \/ SeeStop \/ ReportListenError \/ DropRuntime

Connections ==
  \/ \E c \in Callers, p \in Plugins : CallArrives(c, p)
  \/ \E c \in Callers : CallStep(c) \/ CallReturns(c)
  \/ \E s \in Stoppers : ShutdownArrives(s) \/ HandleShutdown(s)

Signals == SignalArrives \/ SignalSends \/ TryShutdown

Osquery == (\E op \in Ops : OsqueryServes(op)) \/ LinkBreaks \/ OsqueryExits

\* Dropped, with every other thread at rest: the only legitimate end.
Terminated ==
  /\ pc = "dropped"
  /\ pingPc \in {"none", "exit"}
  /\ listener \in {"none", "exit"}
  /\ signalPc \in {"none", "wait", "done"}
  /\ UNCHANGED vars

Next == Owner \/ Ping \/ Listener \/ Connections \/ Signals \/ Osquery \/ Terminated

Spec == Init /\ [][Next]_vars

\* Threads are scheduled; mutexes and channels wake who waits on them.
\* Nothing forces osquery, a signal, a connection or the embedding program to
\* act, except that osquery answers the RPCs that do not hang.
Fairness ==
  /\ WF_vars(RegisterReturns \/ Start \/ Receive)
  /\ WF_vars(Teardown)
  /\ WF_vars(PingWakes \/ PingLocks \/ PingReturns \/ PingReports)
  /\ WF_vars(Bind \/ SeeStop \/ ReportListenError \/ DropRuntime)
  /\ WF_vars(SignalSends)
  /\ \A s \in Stoppers : WF_vars(HandleShutdown(s))
  /\ \A c \in Callers :
       /\ WF_vars(CallStep(c))
       /\ CallsReturn => WF_vars(CallReturns(c))
  /\ \A op \in Ops \ HangingOps : WF_vars(OsqueryServes(op))

FairSpec == Spec /\ Fairness

-----------------------------------------------------------------------------
(* Safety properties *)

(* Only one thread uses the osquery client at a time: teardown gives up on *)
(* a client the ping thread holds instead of talking over its RPC          *)
(* (try_lock_client).                                                      *)
ClientExclusive == ~(OwnerHoldsClient /\ PingHoldsClient)

(* No RPC is issued on a client that teardown has closed and cleared; a    *)
(* ping thread that outlives teardown finds the empty Option and leaves.   *)
NoRpcAfterClose == (\E op \in Ops : InFlight(op)) => client = "open"

(* Whatever sequence of run(), shutdown() and Drop the program goes        *)
(* through, each plugin's shutdown hook is invoked at most once: teardown  *)
(* is idempotent because it takes the uuid first.                          *)
HookAtMostOnce == \A p \in Plugins : hooks[p] <= 1

(* By the time run() collects its ping thread, every registered plugin has *)
(* been notified, unless a panic had poisoned it. (A hook that panics ends *)
(* run() before that.)                                                     *)
EveryPluginNotified ==
  pc = "join" => \A p \in entries \ poisoned : hooks[p] = 1

(* A server that is gone leaves its extension in osquery's registry only   *)
(* if an RPC failed or the deregistration was skipped: a server whose      *)
(* start failed half way still deregisters when it is dropped.             *)
LeakExplained ==
  pc = "dropped" /\ registered => fate \in {"failed", "skipped", "unknown"}

(* The threads, locks and RPCs implement the abstract life cycle: the      *)
(* first request that enters the channel decides how run() ends, later     *)
(* ones are lost or refused, and plugins are notified at most once and     *)
(* never while the server is up.                                           *)
Stage ==
  IF ~rxAlive THEN "over"
  ELSE IF pc = "built" \/ dropping THEN "built"
  ELSE IF pc \in {"register", "spawn"} THEN "starting"
  ELSE IF pc = "recv" THEN "up"
  ELSE "stopping"

Asked ==
  IF stopSignal # "none" THEN stopSignal
  ELSE IF queue # <<>> THEN Head(queue)
  ELSE "none"

Lifecycle == INSTANCE ExtensionLifecycle
  WITH stage <- Stage, asked <- Asked, told <- hooks

ImplementsLifecycle == Lifecycle!LifecycleSpec

(* Teardown gets shorter with every step of its own and no other thread    *)
(* can lengthen it, whatever calls, panics, pings and requests come        *)
(* meanwhile: at most nine steps and two for each registered plugin, until *)
(* shutdown()'s caller is reached (shutdown, perform_shutdown).            *)
TearingDown ==
  pc \in {"stopPing", "shutdown", "deregLock", "deregister", "stop", "notify",
          "sweep", "unwind", "close", "join"}

SweepLeft == 2 * Cardinality(todo) + (IF current = NONE THEN 0 ELSE 1)
ToVisit == 2 * Cardinality(entries)

StepsLeft ==
  CASE pc = "stopPing"   -> ToVisit + 9
    [] pc = "shutdown"   -> ToVisit + 8
    [] pc = "deregLock"  -> ToVisit + 7
    [] pc = "deregister" -> ToVisit + 6
    [] pc = "stop"       -> ToVisit + 5
    [] pc = "notify"     -> ToVisit + 4
    [] pc = "sweep"      -> SweepLeft + 3
    [] pc = "close"      -> 2
    [] pc \in {"join", "unwind"} -> 1
    [] OTHER -> 0

TeardownAdvances ==
  [][TearingDown => StepsLeft' < StepsLeft
                    \/ UNCHANGED <<pc, StepsLeft>>]_vars

(* A thread that waits for the owner, to take its request off the full     *)
(* channel or to let go of the registry, waits for one that is on its way: *)
(* registering, receiving or tearing down, never for an owner that idles   *)
(* between two calls of the program or is gone.                            *)
ChannelFull == rxAlive /\ Len(queue) = QueueCap

Sending ==
  \/ signalPc \in Messages
  \/ pingPc = "report"
  \/ listener \in {"bindFailed", "acceptFailed"}
  \/ \E s \in Stoppers : stopperPc[s] = "send"

WaitersHeard ==
  /\ Sending /\ ChannelFull => pc \in {"register", "spawn", "recv"} \/ TearingDown
  /\ Sweeping => pc = "sweep"

-----------------------------------------------------------------------------
(* The inductive invariant behind the safety properties *)

BeforeSweep == {"built", "register", "spawn", "recv", "stopPing", "deregLock",
                "deregister", "stop", "notify"}

\* No plugin was notified and no notification is under way, and so none can
\* have poisoned the registry.
Fresh ==
  /\ \A p \in Plugins : hooks[p] = 0
  /\ todo = {} /\ current = NONE
  /\ ~registryPoisoned

\* The ping thread starts after registration; the client is there until then.
ClientInv ==
  /\ pc \in {"built", "register", "spawn"} => pingPc = "none"
  /\ pc \in {"built", "register"} => client = "open"
  /\ ClientExclusive
  /\ NoRpcAfterClose

\* The uuid stands for the one teardown that is still owed.
HookInv ==
  /\ hasUuid \/ pc \in BeforeSweep => Fresh
  /\ hasUuid => pc \in {"spawn", "recv", "stopPing", "shutdown", "returned"}
  /\ pc # "sweep" => todo = {} /\ current = NONE
  /\ current \notin todo
  /\ \A p \in todo \cup {current} : p \in Plugins => hooks[p] = 0
  /\ HookAtMostOnce

\* The receiver lives from building the server to the end of run(), and run()
\* has a stop signal from its recv() on.
RunInv ==
  /\ pc \in {"built", "register", "spawn", "recv"} =>
       rxAlive /\ ~dropping /\ stopSignal = "none"
  /\ pc \in {"stopPing", "join"} => rxAlive /\ ~dropping
  /\ pc \in {"returned", "dropped"} => ~rxAlive
  /\ rxAlive /\ dropping => pc = "shutdown" /\ stopSignal = "none" /\ ~hasUuid
  /\ rxAlive /\ ~dropping /\ pc \notin {"built", "register", "spawn", "recv"} =>
       stopSignal # "none"
  /\ ~rxAlive => queue = <<>>

\* What osquery has registered is on its way to a uuid or was let go of, and
\* the client is there for as long as a deregistration is owed.
LeakInv ==
  /\ pc \in {"built", "register"} => fate = "none"
  /\ registered => fate # "none" \/ pc = "register"
  /\ fate = "held" => hasUuid \/ pc \in {"deregLock", "deregister"}
  /\ hasUuid \/ pc \in {"deregLock", "deregister"} => client = "open"
  /\ pc = "deregister" /\ reply = "yes" => ~registered
  /\ fate = "released" => ~registered

\* run() tears down with a uuid, and the loop leaves no plugin out.
NotifyInv ==
  /\ pc \in {"spawn", "recv", "stopPing"} => hasUuid
  /\ pc = "shutdown" /\ rxAlive /\ ~dropping => hasUuid
  /\ pc \in {"sweep", "close", "join"} =>
       \A p \in entries \ poisoned : p \in todo \/ p = current \/ hooks[p] = 1

(* What every step of every thread preserves: the client discipline, one   *)
(* teardown per uuid that reaches every plugin, a receiver that is there   *)
(* exactly while a request can still be heard, and a client while a        *)
(* deregistration is owed.                                                 *)
ManagerInv == ClientInv /\ HookInv /\ RunInv /\ LeakInv /\ NotifyInv

-----------------------------------------------------------------------------
(* Liveness properties *)

(* ...and a server that is asked to stop does stop, even if pings hang.    *)
ImplementsLiveLifecycle == Lifecycle!LiveLifecycleSpec

(* Any request to stop makes run() return, whichever of osquery's RPC, the *)
(* signal thread, the ping thread or the listener makes it and however     *)
(* many of them compete for the channel.                                   *)
Requested == queue # <<>> \/ Sending

RequestEndsRun == pc = "recv" /\ Requested ~> pc = "returned"

(* run() returns when the osquery process goes away (the ping watcher).    *)
OsqueryGoneEndsRun == pc = "recv" /\ link = "down" ~> pc = "returned"

(* Teardown ends, although a ping may hang with the client lock held: the  *)
(* lock is waited for with a deadline (try_lock_client).                   *)
TeardownTerminates == pc = "shutdown" ~> pc \in {"returned", "dropped"}

(* A thread blocked on the full shutdown channel is released: no connection *)
(* task, signal or listener thread waits for a receiver that never comes.  *)
SendersReleased ==
  /\ \A s \in Stoppers : stopperPc[s] = "send" ~> stopperPc[s] = "idle"
  /\ signalPc \in Messages ~> signalPc = "done"

(* Once run() has returned the listener thread ends, with its runtime and  *)
(* every connection on it, although the listener or a connection task may  *)
(* have been blocked on the full channel or in a plugin meanwhile.         *)
ListenerLeaves == pc = "returned" ~> listener \in {"none", "exit"}

(* ...and so does the ping thread, unless the ping it is waiting on is     *)
(* never answered: it does not go on to wait, lock or report for a server  *)
(* that has returned.                                                      *)
PingLeaves ==
  <>[](pc \in {"returned", "dropped"} =>
         pingPc \in {"none", "exit"} \/ InFlight("ping"))

(* Once teardown has told the listener to stop, every call is answered,    *)
(* even one that finds the registry locked by the teardown loop while that *)
(* loop waits for a plugin another call is using: no cycle between the     *)
(* registry and plugin mutexes. (As long as new calls keep coming, a mutex *)
(* that is not fair may pass one of them over.)                            *)
CallsAnswered == stopRequested ~> \A c \in Callers : callerPc[c] = "idle"

-----------------------------------------------------------------------------
(* What the documentation says and the code does not do *)

(* shutdown() skips deregistration only "if the osquery client is wedged   *)
(* in an RPC" (its doc comment), never because the ping thread holds the   *)
(* client while it is blocked on the shutdown channel.                     *)
SkipsOnlyWhenWedged ==
  [][fate' = "skipped" /\ fate # "skipped"
       => ~(pingPc = "report" /\ Len(queue) = QueueCap)]_fate

(* "Teardown is best-effort and bounded" (the same comment): also when     *)
(* osquery is hung, also when a plugin call never returns.                 *)
TeardownBounded == TeardownTerminates
=============================================================================
