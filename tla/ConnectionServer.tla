-------------------------- MODULE ConnectionServer --------------------------
(***************************************************************************)
(* ExtensionServer (threaded.rs): the accept loop with its connection      *)
(* permits and stop signal, and the connection tasks on the tokio runtime, *)
(* which run plugin code either directly on a worker or, when the counter  *)
(* of active connections says others may wait, through block_in_place.     *)
(*                                                                         *)
(* A connection is a slot: osquery reuses it for a later connection once   *)
(* the earlier one is closed. What is inside a request is left to          *)
(* RequestStream; here a request is either waiting to be read or not.      *)
(***************************************************************************)
EXTENDS Naturals, Sequences, FiniteSets

CONSTANTS
  Conns,           \* connection slots
  Limit,           \* MAX_CONCURRENT_CONNECTIONS
  Workers,         \* worker threads of the tokio runtime
  HandlersReturn,  \* does every plugin call return eventually?
  PeersLeave,      \* does every peer close its connection eventually?
  MaxLeaked        \* bound on how far panics may raise the counter

ASSUME ConnectionAssumption ==
  /\ IsFiniteSet(Conns)
  /\ Limit \in Nat \ {0}
  /\ Workers \in Nat \ {0}
  /\ HandlersReturn \in BOOLEAN
  /\ PeersLeave \in BOOLEAN
  /\ MaxLeaked \in Nat

VARIABLES
  listener,   \* where the accept loop is
  handle,     \* the StopHandle: held, used (stop()) or dropped unused
  permits,    \* permits left in the semaphore
  backlog,    \* connections the kernel queued for accept()
  conn,       \* where each connection's task is
  waiting,    \* connections with a request that was not yet read
  active      \* the active_connections counter

vars == <<listener, handle, permits, backlog, conn, waiting, active>>

ListenerStates == {"permit", "accept", "failed", "dropping", "down"}
ConnStates == {"none", "pending", "spawned", "reading", "direct", "inplace",
               "left", "unwound"}

TypeOK ==
  /\ listener \in ListenerStates
  /\ handle \in {"held", "used", "dropped"}
  /\ permits \in Nat
  /\ backlog \in Seq(Conns)
  /\ conn \in [Conns -> ConnStates]
  /\ waiting \subseteq Conns
  /\ active \in Nat

Init ==
  /\ listener = "permit"
  /\ handle = "held"
  /\ permits = Limit
  /\ backlog = <<>>
  /\ conn = [c \in Conns |-> "none"]
  /\ waiting = {}
  /\ active = 0

-----------------------------------------------------------------------------
(* Who holds what *)

Listening == listener \in {"permit", "accept"}

\* Tasks that own a permit, tasks the counter stands for, and tasks that are
\* executing plugin code.
Holders == {c \in Conns : conn[c] \notin {"none", "pending"}}
Counted == {c \in Conns : conn[c] \in {"reading", "direct", "inplace"}}
Executing(c) == conn[c] \in {"direct", "inplace"}

\* A direct call occupies its worker; block_in_place hands the worker's queue
\* to another thread first. Every other step of a task is momentary.
Direct == {c \in Conns : conn[c] = "direct"}
WorkerFree == Cardinality(Direct) < Workers /\ listener # "dropping"

Move(c, to) == conn' = [conn EXCEPT ![c] = to]

-----------------------------------------------------------------------------
(* The accept loop (listen_uds, listen_pipe) *)

\* Leaving the loop drops the permit in hand and closes the listening socket,
\* with the connections that were not accepted yet.
LeaveLoop ==
  /\ permits' = IF listener = "accept" THEN permits + 1 ELSE permits
  /\ backlog' = <<>>
  /\ conn' = [c \in Conns |-> IF conn[c] = "pending" THEN "none" ELSE conn[c]]
  /\ waiting' = {c \in waiting : conn[c] # "pending"}
  /\ UNCHANGED <<handle, active>>

AcquirePermit ==
  /\ listener = "permit"
  /\ permits > 0
  /\ permits' = permits - 1
  /\ listener' = "accept"
  /\ UNCHANGED <<handle, backlog, conn, waiting, active>>

\* Mutant: the permit stays with the loop, which drops it.
Accept_KeepsPermit ==
  /\ listener = "accept"
  /\ backlog # <<>>
  /\ Move(Head(backlog), "spawned")
  /\ backlog' = Tail(backlog)
  /\ listener' = "permit"
  /\ permits' = permits + 1
  /\ UNCHANGED <<handle, waiting, active>>

\* The permit moves into the spawned task.
Accept ==
  /\ listener = "accept"
  /\ backlog # <<>>
  /\ Move(Head(backlog), "spawned")
  /\ backlog' = Tail(backlog)
  /\ listener' = "permit"
  /\ UNCHANGED <<handle, permits, waiting, active>>

\* accept() fails, or on Windows the next pipe instance cannot be created:
\* listen() returns.
AcceptFails ==
  /\ listener = "accept"
  /\ listener' = "failed"
  /\ LeaveLoop

\* Mutant: only the accept select watches the stop signal.
SeeStop_OnlyAccepting ==
  /\ listener = "accept"
  /\ handle = "used"
  /\ listener' = "dropping"
  /\ LeaveLoop

\* Both selects watch the stop signal.
SeeStop ==
  /\ Listening
  /\ handle = "used"
  /\ listener' = "dropping"
  /\ LeaveLoop

\* The error is reported to the owner, which may block for a while; only then
\* is the server dropped.
ReportError ==
  /\ listener = "failed"
  /\ listener' = "dropping"
  /\ UNCHANGED <<handle, permits, backlog, conn, waiting, active>>

\* Dropping the runtime lets no task run on, waits for those that are inside
\* synchronous code and drops the others with their permits and streams.
DropServer ==
  /\ listener = "dropping"
  /\ \A c \in Conns : ~Executing(c)
  /\ listener' = "down"
  /\ permits' = Limit
  /\ conn' = [c \in Conns |-> "none"]
  /\ waiting' = {}
  /\ UNCHANGED <<handle, backlog, active>>

-----------------------------------------------------------------------------
(* StopHandle *)

Stop ==
  /\ handle = "held"
  /\ handle' = "used"
  /\ UNCHANGED <<listener, permits, backlog, conn, waiting, active>>

\* The server keeps a sender of its own, so the receiver sees nothing.
DropHandle ==
  /\ handle = "held"
  /\ handle' = "dropped"
  /\ UNCHANGED <<listener, permits, backlog, conn, waiting, active>>

-----------------------------------------------------------------------------
(* Connection tasks (handle_connection, serve_connection) *)

TaskOnly == UNCHANGED <<listener, handle, backlog>>

\* Mutant: the task is not counted.
StartTask_Uncounted(c) ==
  /\ conn[c] = "spawned"
  /\ WorkerFree
  /\ Move(c, "reading")
  /\ TaskOnly
  /\ UNCHANGED <<permits, waiting, active>>

\* The task's first poll.
StartTask(c) ==
  /\ conn[c] = "spawned"
  /\ WorkerFree
  /\ active' = active + 1
  /\ Move(c, "reading")
  /\ TaskOnly
  /\ UNCHANGED <<permits, waiting>>

\* Mutant: the threshold is off by one.
Dispatch_OffByOne(c) ==
  /\ conn[c] = "reading"
  /\ c \in waiting
  /\ WorkerFree
  /\ waiting' = waiting \ {c}
  /\ Move(c, IF active > 2 THEN "inplace" ELSE "direct")
  /\ TaskOnly
  /\ UNCHANGED <<permits, active>>

\* Mutant: block_in_place is never used.
Dispatch_Direct(c) ==
  /\ conn[c] = "reading"
  /\ c \in waiting
  /\ WorkerFree
  /\ waiting' = waiting \ {c}
  /\ Move(c, "direct")
  /\ TaskOnly
  /\ UNCHANGED <<permits, active>>

\* The counter is loaded once per request, before the handler runs.
Dispatch(c) ==
  /\ conn[c] = "reading"
  /\ c \in waiting
  /\ WorkerFree
  /\ waiting' = waiting \ {c}
  /\ Move(c, IF active > 1 THEN "inplace" ELSE "direct")
  /\ TaskOnly
  /\ UNCHANGED <<permits, active>>

\* A request that is there already is served without giving up the worker,
\* even while the runtime is being dropped; when the budget tokio gives a task
\* is used up the task yields, which is HandlerReturns.
RunOn(c) ==
  /\ Executing(c)
  /\ c \in waiting
  /\ waiting' = waiting \ {c}
  /\ Move(c, IF active > 1 THEN "inplace" ELSE "direct")
  /\ TaskOnly
  /\ UNCHANGED <<permits, active>>

HandlerReturns(c) ==
  /\ Executing(c)
  /\ Move(c, "reading")
  /\ TaskOnly
  /\ UNCHANGED <<permits, waiting, active>>

\* A panic unwinds the task past fetch_sub.
HandlerPanics(c) ==
  /\ Executing(c)
  /\ active < Cardinality(Counted) + MaxLeaked
  /\ Move(c, "unwound")
  /\ TaskOnly
  /\ UNCHANGED <<permits, waiting, active>>

\* The peer disconnected or broke the protocol: serve_connection returns.
Leave(c) ==
  /\ conn[c] = "reading"
  /\ WorkerFree
  /\ active' = active - 1
  /\ Move(c, "left")
  /\ TaskOnly
  /\ UNCHANGED <<permits, waiting>>

\* Mutant: a task that panicked keeps its permit.
EndTask_PanicLeaks(c) ==
  /\ conn[c] \in {"left", "unwound"}
  /\ permits' = IF conn[c] = "left" THEN permits + 1 ELSE permits
  /\ Move(c, "none")
  /\ waiting' = waiting \ {c}
  /\ TaskOnly
  /\ UNCHANGED active

\* Mutant: the end of the task counts down what Leave counted already.
EndTask_CountsTwice(c) ==
  /\ conn[c] \in {"left", "unwound"}
  /\ permits' = permits + 1
  /\ active' = active - 1
  /\ Move(c, "none")
  /\ waiting' = waiting \ {c}
  /\ TaskOnly

\* The finished task drops its permit and its stream.
EndTask(c) ==
  /\ conn[c] \in {"left", "unwound"}
  /\ permits' = permits + 1
  /\ Move(c, "none")
  /\ waiting' = waiting \ {c}
  /\ TaskOnly
  /\ UNCHANGED active

-----------------------------------------------------------------------------
(* The peer *)

Connect(c) ==
  /\ conn[c] = "none"
  /\ Listening
  /\ backlog' = Append(backlog, c)
  /\ Move(c, "pending")
  /\ UNCHANGED <<listener, handle, permits, waiting, active>>

SendRequest(c) ==
  /\ conn[c] \in {"pending", "spawned", "reading", "direct", "inplace"}
  /\ waiting' = waiting \cup {c}
  /\ UNCHANGED <<listener, handle, permits, backlog, conn, active>>

-----------------------------------------------------------------------------
(* The specification *)

Peer == \E c \in Conns : Connect(c) \/ SendRequest(c)

Tasks ==
  \E c \in Conns :
    \/ StartTask(c) \/ Dispatch(c)
    \/ RunOn(c) \/ HandlerReturns(c) \/ HandlerPanics(c)
    \/ Leave(c) \/ EndTask(c)

Loop == AcquirePermit \/ Accept \/ AcceptFails \/ SeeStop \/ ReportError
        \/ DropServer

\* Once the server is dropped nothing is left to do.
Down == listener = "down" /\ UNCHANGED vars

Next == Peer \/ Tasks \/ Loop \/ Stop \/ DropHandle \/ Down

Spec == Init /\ [][Next]_vars

\* The loop and the tasks are scheduled; the run queue of the runtime is fair,
\* so a task that is runnable whenever a worker is free gets one; a select that
\* finds the stop signal ready takes that branch sooner or later, its choice
\* being random.
Fairness ==
  /\ WF_vars(AcquirePermit \/ Accept)
  /\ WF_vars(SeeStop)
  /\ WF_vars(ReportError \/ DropServer)
  /\ \A c \in Conns :
       /\ SF_vars(StartTask(c) \/ Dispatch(c))
       /\ WF_vars(EndTask(c))
       /\ HandlersReturn => WF_vars(HandlerReturns(c) \/ HandlerPanics(c))
       /\ PeersLeave => SF_vars(Leave(c))

FairSpec == Spec /\ Fairness

-----------------------------------------------------------------------------
(* Safety properties *)

(* No permit is lost or made: those in the semaphore, the one in the accept *)
(* loop's hand and those of the tasks add up to the limit, whichever way   *)
(* tasks and the loop end. So the cap neither leaks away nor is exceeded.  *)
InHand == IF listener = "accept" THEN 1 ELSE 0

PermitsConserved == permits + InHand + Cardinality(Holders) = Limit

(* active_connections never falls below the number of connections being    *)
(* served (it may exceed it after a panic), so that a task which reads 1   *)
(* is alone.                                                               *)
NeverUndercounted == Cardinality(Counted) <= active

(* At most one connection executes plugin code directly on a worker, for   *)
(* any number of connections and although each decides on a value of the   *)
(* counter that may change while its handler runs.                         *)
AtMostOneDirect == \A c, d \in Direct : c = d

(* The permits, the counter and the two selects implement the abstract     *)
(* pool: connections are admitted in the order of their arrival and never  *)
(* above the cap, one at most pins a worker with its plugin call, and a    *)
(* server that stops admits nobody and ends when no worker is pinned.      *)
Pool ==
  INSTANCE ConnectionPool WITH
    phase  <- IF Listening THEN "open" ELSE IF listener = "down" THEN "ended" ELSE "closing",
    line   <- backlog,
    inside <- Holders,
    pinned <- Direct

ImplementsPool == Pool!PoolSpec

(* With two workers or more a plugin call that runs directly always leaves *)
(* a worker for the other connections, whatever their number.              *)
WorkerLeft == Workers > 1 => Cardinality(Direct) < Workers

-----------------------------------------------------------------------------
(* The inductive invariant behind the safety properties *)

\* The backlog holds pending connections, each once, while the loop runs.
BacklogPending ==
  /\ ~Listening => backlog = <<>>
  /\ \A i \in DOMAIN backlog : conn[backlog[i]] = "pending"
  /\ \A i, j \in DOMAIN backlog : backlog[i] = backlog[j] => i = j

ConnInv ==
  BacklogPending /\ PermitsConserved /\ NeverUndercounted /\ AtMostOneDirect

-----------------------------------------------------------------------------
(* Liveness properties *)

(* A slow plugin call cannot starve the other connections: with two        *)
(* workers or more, a request that arrived on an accepted connection is    *)
(* taken up even if the handlers of other connections never return, as     *)
(* long as the server is not being dropped.                                *)
Awaits(c) ==
  /\ c \in waiting
  /\ conn[c] \in {"spawned", "reading"}
  /\ listener \notin {"dropping", "down"}

NoStarvation == \A c \in Conns : Awaits(c) ~> ~Awaits(c)

(* A connection beyond the cap is accepted once others close, in the order *)
(* of arrival, unless the accept loop ends.                                *)
BacklogServed ==
  \A c \in Conns : conn[c] = "pending" ~> conn[c] # "pending" \/ ~Listening

(* StopHandle::stop ends the server, whatever its connections are doing    *)
(* and even if every permit is taken: only a plugin call that never        *)
(* returns can hold up the end, and nothing is accepted meanwhile.         *)
StopEndsServer ==
  handle = "used" ~>
    \/ listener = "down"
    \/ listener = "dropping" /\ \E c \in Conns : Executing(c)

=============================================================================
