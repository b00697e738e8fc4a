# Verification of osquery-rs-sdk

TLA+ models of this SDK: the extension manager server, its plugin registry, the
extension server that carries osquery's connections, the framing of requests
on one connection, the Thrift code at both ends of a call, the client, and what
the plugins make of a request. The models are checked with TLC on small
instances and the safety results are proved with TLAPS for every value of the
constants.

Line numbers refer to the repository (`src/server/manager.rs` and so on).

## 1. Inventory

| Component | State | Operations | Interacts with |
|---|---|---|---|
| `ExtensionManagerServer` (server/manager.rs) | uuid, registry, client behind a mutex, shutdown channel of capacity 1, stop handle | `register_plugin(s)`, `run`, `run_with_signal_handling`, `shutdown`, `Drop`, ping thread, signal thread, `ShutdownHandle` | osquery by RPC; the listener thread; plugins |
| Plugin registry and `ExtensionServerHandler` (server/manager.rs) | map of plugins, one mutex each under one registry mutex | `handle_call`, `handle_shutdown`, `handle_ping`, the loop of `shutdown` | connection tasks; teardown |
| `ExtensionServer` (server/threaded.rs) | semaphore of permits, stop watch channel, counter of active connections, tokio runtime | `listen`, `handle_connection`, `StopHandle::stop` | osquery's connections; the handler |
| `serve_connection` (server/threaded.rs) | request buffer, reply buffer | read, parse, process, drain, reply | the generated processor |
| Generated code (osquery.rs) | the stub's sequence number; what is left unread on the stream | stubs, `TProcessor::process`, readers and writers of structs | everything that speaks Thrift |
| Client (client/manager.rs) | stream | RPC wrappers, `status_ok`, `response_rows`, `wait_for_socket`, `connect*`, `close` | osquery |
| Named-pipe client (client/named_pipe.rs) | file, shared closed flag | `connect`, `close`, read, write | client |
| Plugins (plugin/*.rs) | user callbacks | `call`, `shutdown`, `routes` | handler |
| Types, errors, mocks, examples | none | | |

What is hard, by component (the full list, line by line, is `hazards` in
PROJECT.json):

* **Manager.** Four kinds of senders share a channel of one slot; teardown and
  the ping thread share a client whose RPCs have no timeout; `run`, `shutdown`
  and `Drop` may follow one another in any order with failures in between;
  teardown holds the registry lock while it waits for plugin locks. *Correct
  means*: one teardown; every plugin told, and told once; no RPC
  on a closed client; every request to stop ends `run()`; no thread is left
  blocked.
* **Extension server.** Permits move between a semaphore, the accept loop and
  tasks that may panic; each request chooses between the direct path and
  `block_in_place` from a counter that is stale as soon as it is read.
  *Correct means*: the cap neither leaks nor is exceeded; a slow plugin does
  not starve other connections; a stop ends the server.
* **Request framing.** The parser is synchronous and is tried on whatever has
  arrived. *Correct means*: requests are executed in order and none twice, however
  the stream is cut; a complete request is answered or the connection ends, as
  far as what stands before it can be parsed; memory is bounded; a clean
  disconnect owes nothing.
* **Thrift code and client.** Replies carry a number that only the stub checks;
  a call that fails half way leaves the rest of its reply on the stream; a
  field that is missing on the wire becomes 0; nothing reads with a timeout;
  two ends may be of different versions. *Correct means*: a call returns the
  answer to itself or an error; the uuid osquery gave out is the one the
  extension serves under; every call that can be answered returns; connecting
  ends.
* **Plugins.** Requests are maps of strings that may lack keys or not parse,
  and some are parsed leniently; callbacks fail in several ways and mutation
  outcomes travel under a status of success. *Correct means*: a callback gets
  what osquery sent; osquery is told what the callback did.

## 2. Modules

| Module | Models | Lines of the source |
|---|---|---|
| `PluginDispatch` | registry, `handle_call`, the plugin loop of `shutdown` | manager.rs 287-325, 458-466, 662-704 |
| `ExtensionManager` (extends it) | the life of one server with all its threads | manager.rs 60-76, 178-218, 347-574, 591-624, 706-729 |
| `ExtensionLifecycle` | abstract: what the embedding program may rely on | (promised by the docs of `run`, `shutdown`) |
| `ConnectionServer` | accept loop, permits, runtime, dispatch | threaded.rs 26-200, 276-297 |
| `ConnectionPool` | abstract: who is admitted, in what order, and how many may hold up the others | |
| `RequestStream` | `serve_connection` | threaded.rs 203-320, osquery.rs 812-838 |
| `RequestPipeline` | abstract: service in order, at most once, nothing passed over | |
| `ThriftTypes` | structs and methods of the generated code | osquery.rs 102-450, 812-1081, 1084-1144, 1625-2383 |
| `PluginAdapters` (extends it) | `call` of every plugin, the wire form of its result | plugin/table.rs, logger.rs, config.rs, distributed.rs; manager.rs 626-644, 689-703 |
| `OsqueryRpc` (extends it) | one connection: connecting, stubs, processors, wrappers | osquery.rs 581-806, 1159-1670; client/manager.rs 53-408; named_pipe.rs 36-66 |
| `AtomicCalls` | abstract: what a caller of the client may rely on | |
| `MC*` | values for the constants | |
| `*Proofs` | theorems about the module they extend | |

### ExtensionManager and PluginDispatch

One variable per thread says where it is: `pc` (owner), `pingPc`, `listener`,
`signalPc`, `stopperPc[s]` and `callerPc[c]` (connection tasks). Locks are not
variables: who holds the client, the registry or a plugin follows from these
(`ClientFree`, `RegistryFree`, `PluginFree`). An action is what a thread does
between two points where another thread can matter: a lock, a send or receive,
an RPC's request or its reply.

| Code | Actions |
|---|---|
| `register_plugin(s)` | `AddPlugin`, `AddPlugins` (a batch of two: stops at the first duplicate and keeps what it inserted) |
| `run`, `start`, `register_extension` | `Run`, `RegisterOk/Fails`, `StartOk/Fails`, `Receive`, `StopPing`, `JoinPing` |
| `shutdown` | `NothingToShutDown`, `TakeUuid`, `LockToDeregister`/`SkipDeregister`, `DeregisterReturns`, `StopListener`, `LockRegistry`, `VisitPlugin`, `Notify`, `HookPanics`, `Unwind`, `UnlockRegistry`, `CloseClient` |
| `Drop`, explicit `shutdown` | `DropServer`, `ShutdownAgain` |
| ping thread | `PingWakes`, `PingLocks`, `PingReturns`, `PingReports` |
| listener thread | `Bind`, `AcceptFails`, `SeeStop`, `ReportListenError`, `DropRuntime` |
| `handle_call` | `CallArrives`, `Lookup`, `LockPlugin`, `ReturnCall`, `PanicCall` |
| `handle_shutdown`, signals, `ShutdownHandle` | `ShutdownArrives`, `HandleShutdown`, `SignalArrives`, `SignalSends`, `TryShutdown` |
| osquery (external) | `OsqueryServes`, `LinkBreaks`, `OsqueryExits` |

Time appears only as choice: a deadline that waits for the client lock may
pass whenever the lock is held (`SkipDeregister`, `CloseClient`), and is never
taken while the lock is free. `fate` is a history variable; no action reads it. The registry is a set of
plugins that is changed as the hash map is: an insertion removes what was under
the key (`Insert`), and a call finds its plugin by key (`Lookup`). `RunModes`
says whether the program calls `run` or `run_with_signal_handling`.

Plugins are the implementor's code and may panic. A call that does poisons its
plugin (`PanicCall`), a shutdown hook its plugin and the registry
(`HookPanics`), and the unwinding then leaves `run()` or `Drop` (`Unwind`); a
program that catches the panic still has the server.

`ExtensionLifecycle` is the abstract view: a stage, who was asked to stop, who
was told. `TeardownAdvances` is a variant for teardown: `StepsLeft` counts what
the owner has still to do, two steps for each plugin not yet told
(`SweepLeft`), and every step of the owner lowers it while no other thread
changes it.

Two abstractions to know. A ping that fails because the client's mutex is
poisoned is not modelled: it needs a panic in the client. And after `SeeStop` no further call arrives at
the handler of this module, while the runtime is being dropped; that a task may
run on into a request it has buffered is in `ConnectionServer` (`RunOn`).

### ConnectionServer

`conn[c]` is the task of connection slot `c`: pending in the kernel's backlog,
spawned, reading, in a direct call, in a `block_in_place` call, left or
unwound. A direct call occupies one of `Workers`; everything else a task does
is momentary but needs a free worker (`WorkerFree`). `permits` and `active` are
the semaphore and the atomic counter. Leaving the accept loop (`LeaveLoop`)
closes the listening socket with what it had queued. Dropping the runtime waits
for calls in progress (`DropServer`), since a tokio runtime cannot interrupt
synchronous code.

`ConnectionPool` knows neither permits nor counter nor workers. The mapping is
`line <- backlog`, `inside <- Holders` (the slots whose task holds a permit),
`pinned <- Direct` (those in a direct call), and a phase read off the loop's
state. So `ImplementsPool` says at once that admission is in order of arrival,
that the cap holds in every step, that one call at most occupies a worker
directly, and that a server which stops admits nobody.

### RequestStream

The stream is the peer's requests end to end, so positions replace bytes:
`written`, `received`, `consumed`. The unit is a piece of a request of which
the first is the header. A request is a call of a known method, a call of an
unknown one (`"foreign"`), or bytes that are no message (`"junk"`). `Whole(i)`
is the negation of `EofTrackingReader::hit_end`. The generated processor reads
all of a known request before the handler runs, only the header of an unknown
one (`Refuse`), and turns every error except a bad header into a reply. The
protocol is not strict (threaded.rs 281): bytes whose first word has the sign
bit are a version, which is refused, and any others begin an old-style message
with the length of its name. So `NotThrift` either ends the connection or, when
the parser runs out of bytes, waits for more with everything sent behind still
in the buffer, and does so again whenever more has come. The same goes for a
buffer that does not begin at a request (`Misaligned`), where the parser sees
bytes of an argument struct. Two conditions say where the properties stop
because of that. `Intact`: no unknown method was refused, and what the parser is
at is a message. `InSequence(i)`: request `i` is a message, and all in front of
it are calls of known methods. `ImplementsPipeline` needs neither: it says that
requests are served in order, each at most once and none passed over, not that
each is served, which is `EveryRequestAnswered`.

### ThriftTypes, PluginAdapters and OsqueryRpc

`ThriftTypes` and `PluginAdapters` have no variables. A struct on the wire is a
function from the fields that were written to their values, and `Read` gives
the others what the generated reader starts from. A plugin is an operator from
a request to the set of its possible answers, one for each outcome of its
callbacks; an answer also lists the callbacks that were invoked, with their
arguments and what each returned. A callback's own `Error::Status` may carry any
code (`StatusCode`): one that is an error to osquery, and 0, which
`plugin_response_to_wire` passes on as it is and osquery takes for success.
`Truthful` says that this is the only error told as one. `NONE` is Rust's `None` and `BAD` a text
that its parser rejects.

`OsqueryRpc` puts them on a connection, which is one of two. With
`server = "osquery"` the caller is `ExtensionManagerClient`, and osquery answers
with any form of the method's result, with fields left out and fields that are
new, with an exception, or with a string that is not UTF-8. With
`server = "extension"` osquery calls this crate's handler and through it the
plugins. Messages are whole; `RequestStream` is about how they are cut, and
`ExtensionManager` about the threads that share a client.

| Code | Actions and operators |
|---|---|
| `wait_for_socket` | `Look`, `CheckDeadline`; `DeadlinePasses` at any moment |
| `connect_with_path`, `NamedPipeClient::connect` | `ConnectUnix` (tried once), `ConnectPipe` (busy pipes are retried; the deadline is looked at first) |
| `close`, `Drop` | `Close` |
| stubs: number the call and write it | `Send` |
| stubs: read the reply | `ReceiveReply` with `Expected`, `GivesUp`, `Outcome`; `ReceiveRest` where a header is read from the rest of an earlier reply; `ReceiveEof` |
| wrappers, `status_ok`, `response_rows` | `Fold` and what it uses |
| processors of both services | `Serve` with `Answers` |
| `handle_call`, `plugin_response_to_wire` | `PluginCall`, `PluginResponseToWire` |
| table plugins | `TableCall`, `WritableTableCall`, `Handle*`, `MutationRow`, `DecodeContext` |
| logger, config, distributed | `LoggerCall`, `ConfigCall`, `DistributedCall` with `QueryResponses` |
| osquery, the program, the transport (external) | `SocketChanges`, `LinkBreaks`, `Calls`, `Rests` |

`AtomicCalls` has no numbers, names or bytes: calls that may still be executed
(`open`: the ids in `requests`), what the latest one's execution answered, and
what it returned, its answer or `Lost` (a transport error). `Thorough` in
`PluginAdapters` says what a plugin owes a call that it answers: one mutation
at most, of the kind asked for, no distributed result with a status dropped,
every log line tried; `CallbacksOnce` asks it of every call served.

`Rests` is the program making no further call. `calls`, `served` and `result`
are history variables: no action of the code reads them, `calls` bounds the
run. osquery's own end of the wire is C++; it is taken to write what the
generated Rust code for the same service would, less any optional field.

## 3. Runs

| Run | Instance | Shows |
|---|---|---|
| `ManagerSafety` | 1 plugin, 1 caller, 1 stopper, owned client, pings may hang | the client has one user at a time and none once closed, who waits on the full channel or for the registry waits for an owner under way, a registration left behind is explained, teardown only gets shorter, refinement of `ExtensionLifecycle` |
| `Dispatch` | 3 plugins, two of one key, 1 caller that may panic | teardown notifies every plugin whose mutex is sound, also one in use when the loop comes to it |
| `ManagerLiveness` | pings may hang for ever, 1 stopper | every request ends `run()`; senders are released; the listener thread ends although a shutdown request on it may block; the live life cycle is implemented |
| `Contention` | 1 plugin, 2 callers, panics, owned client, pings may hang for ever | with one call in the plugin, teardown waiting for it under the registry lock and the other call waiting for either: from the stop on every call is answered; teardown ends; the listener thread ends after `run()`, and the ping thread unless its ping is never answered |
| `Connections` | 3 slots, cap 2, 2 workers, panics | permits conserved, counter covers, refinement of `ConnectionPool`, connections over the cap are served in the end |
| `Starvation` | 3 slots, cap 3, 2 workers, calls that never return, idle peers | no request starves; `stop()` ends the server |
| `Stream` | 3 requests of 2, 4 or 5 pieces, limit 4, chunk 3; known and unknown methods, junk; replies read late | pipeline refinement, bounds, clean disconnects; on an intact stream no whole request left waiting and size errors only near the limit; a complete request behind known calls is answered or the connection ends |
| `Rpc` | 3 calls on one connection; statuses, responses and lists with missing and new fields; every action of every plugin with absent, unreadable and good keys | refinement of `AtomicCalls`, uuid kept, callbacks' arguments genuine, calls carried out once and whole, osquery told the truth, connecting and calling end |

Four more runs each show a disagreement between the code and what is written
about it; each is a finding in PROJECT.json with the quotation:

| Run | What TLC finds |
|---|---|
| `SkipWithoutRpc` | the ping thread blocks on the full channel with the client locked, so deregistration is skipped with no RPC in flight |
| `DeregisterHangs` | teardown is unbounded if osquery never answers the deregistration |
| `ForeignDesync` | the request behind an unknown method is lost |
| `MissingCode` | a status without a code is a success: the generated reader fills in 0 before `status_ok` looks |

Smaller divergences that the models contain and no run is spent on: dropping
the `StopHandle` does not stop the server, whose comment says it does
(`DropHandle`); a panicking call leaves the counter of "connections currently
being served" one too high (`HandlerPanics`), which only sends more calls
through `block_in_place`; on one core, hence one runtime worker, a direct call
starves connections accepted later (`NoStarvation` with `Workers = 1`); the
size limit counts bytes pipelined behind an unfinished request, so a connection
may be closed over a request up to a chunk below the limit
(`OversizeOnlyNearLimit` states the bound); the error for a registration
without a uuid (client/manager.rs 402) cannot occur, since the reader fills in
0 there too; the doc of `with_gen_pack` announces an "unknown action" error
where the code says "genPack not supported" (`ConfigCall` refuses either way);
a mutation takes a context that does not parse for an empty one where
`generate` refuses the request (`MutationContext`); one unreadable status or
row list rejects a whole batch of distributed results, while a result that has
no status is dropped silently (`BatchReadable`, `QueryResponses`); a shutdown hook
that panics ends the teardown it is part of, and since the uuid was taken no
later `shutdown()` tells the remaining plugins or closes an owned client
(`HookPanics`).

**Bounds.** `QueueCap = 1` is the code's own. The history and input bounds
are `MaxLeaked` (how far panics may raise the counter; two is enough to pass
the threshold of the dispatch test by more than one) and `MaxRequests` (three:
one served, one being answered, one cut by a chunk) and `MaxCalls` (three: a
reply that is given up half way, a call that finds its rest, and a call after
which the stream may be in step again with a stale reply in front).
`MCOsqueryRpc` lists the messages: for each field or key that the code looks at
there are messages with it, without it, and with an unreadable value. Plugins, callers and slots
are two or three because every lock and permit conflict is between two parties,
the third being the one who waits for both: in `Contention` the first call has
the plugin, teardown has the registry and waits for the plugin, and the second
call waits for the registry or, with its lookup behind it, for the plugin. The cap of 128, the chunk of 8 KiB
and the limit of 32 MiB become 2 or 3, 3 and 4 pieces: requests below, at and
above the limit exist, and a chunk spans a request boundary. Symmetry is used
in `Dispatch` only (the two plugins of one key), which has no liveness property.

**Fairness.** Threads are scheduled and a mutex, channel or semaphore wakes who
waits for it (weak fairness of each thread's own steps). `std::sync::Mutex` is not
fair, and a caller that is served by weak fairness only may be passed over as
long as others keep coming; so `CallsAnswered` is stated from the moment the
listener is told to stop, after which no new calls come. A task on the runtime
competes with others for a worker and tokio's run queues are fair, hence strong
fairness of `StartTask \/ Dispatch`. `HandlerReturns` is fair apart from
`RunOn`, since tokio's cooperative budget makes a task that always has a next
request yield. osquery, signals, peers and the embedding program owe nothing,
with these exceptions, each a constant or stated here: osquery answers the
RPCs not in `HangingOps`; plugin calls return if `CallsReturn`/`HandlersReturn`;
peers leave if `PeersLeave`; in `RequestStream` a peer finishes a request it
began and reads its replies; in `OsqueryRpc` the server takes up a request it
received (`Serve`) and time passes (`DeadlinePasses`). There the caller's
`ReceiveRest` is not fair: a header read from the rest of a reply may announce
bytes that never come, and `RpcEnds` makes an exception of that state. The registration RPC, on which `run()` waits with
no deadline, is assumed answered.

## 4. Proofs

All theorems are checked by TLAPS from the modules' named assumptions. Most
only say what kind of value a constant is (`DispatchAssumption`,
`ManagerAssumption`, `ConnectionAssumption`, `StreamAssumption`).
`NoneAssumption` says that `NONE` is none of the values written to the wire,
`RpcAssumption` that osquery writes no field that is `NONE` and that a context
which parses is a list, and `CallAssumption` that `NONE` is not a call.

* **`ExtensionManagerProofs`.** `TypeCorrect`; then `ManagerInvariant`, whose
  `ManagerInv` adds to the stated properties what makes them inductive: the
  ping thread does not exist before registration and the client is there until
  then (`ClientInv`), the uuid stands for the one teardown still owed and no
  plugin was told while it is held (`HookInv`), the channel's receiver lives
  from building to the end of `run()` (`RunInv`), what osquery has registered is
  on its way to a uuid or was let go of, and a client is there while a
  deregistration is owed (`LeakInv`), and in the teardown loop each plugin is
  still to come, in hand or told (`NotifyInv`). From it follow `HooksOnce`,
  `ClientDiscipline`, `ClosedClientUnused`, `LeaksExplained`, `PluginsNotified`
  and `Refinement` (`Spec => ImplementsLifecycle`), the last by mapping each
  action to a step of the life cycle or a stutter. `PluginsStayExclusive` says
  that a plugin is lent to one thread and, after a panic in it, to none
  (`LentStep`). The steps are grouped by
  thread, since most threads leave most variables alone.

  What TLAPS can say of termination is the variant. `TeardownShortens` proves
  `TeardownAdvances` and `TeardownFinite` that `StepsLeft` is a natural number
  of at most `2 * |entries| + 9`; that needs the registry to be finite
  (`AlwaysFinite`) and `todo` to be part of it. With `WaitersAreHeard`, that a
  thread blocked on the full channel or the registry waits for an owner that is
  under way and not for one that idles or is gone, these are the steps of
  `TeardownTerminates` and `SendersReleased`; what remains for TLC there is that
  each of the owner's steps is taken in the end.
* **`ConnectionServerProofs`.** `ConnectionInvariant` proves together that the
  backlog holds pending connections once each, that permits are conserved, that
  the counter covers the counted tasks and that at most one call is direct.
  The last follows from the counter alone: a task that read at most 1 is itself
  counted, so it is the only one. `WorkerAlwaysLeft` draws the conclusion for
  two workers or more. `PoolRefinement` maps each action to a step of
  `ConnectionPool`; the cap holds there because a permit in hand means that
  fewer than `Limit` tasks have one (`PoolCounts`). The cardinalities come
  from the library's finite-set theorems.
* **`RequestStreamProofs`.** `StreamInvariant` proves `StreamInv`: requests lie
  end to end, `consumed <= received <= written`, the buffer begins behind (or,
  after an unknown method, within) the last request served, replies are at most
  one behind. From it `MemoryBounded`, `CleanDisconnect` and
  `PipelineRefinement`. `KnownMethods` and `SizeErrors` add that, until an
  unknown method was refused or bytes that are no message came (`Intact`),
  nothing whole is left waiting and size errors come only near the limit;
  `ForeignDesync` shows that the condition is needed. `TaskNeverSpins` proves a variant for the loop of `serve_connection`:
  reading, draining and going back to `read()` each lower `WorkLeft`, which only
  more bytes of the peer raise and which `WorkBounded` bounds by four steps for
  each piece written. So a request that is tried again and again as its bytes
  trickle in costs one try for each read, and never a busy loop.
* **`PluginAdaptersProofs`.** `GenuineCalls`, `TruthfulCalls` and
  `ThoroughCalls`, for every request and every plugin, by cases on the action;
  `TruthfulCalls` covers the status of code 0, which it names as the exception. The keys, values, columns
  and batches of a request are arbitrary there; TLC has a list of them.
* **`OsqueryRpcProofs`.** `RpcInvariant` proves `RpcInv`: requests are numbered
  in the order they were sent, every reply left belongs to a request sent
  before those unread, a reply with the latest number is the answer to the
  latest call, and an answer that can be read is on its way or was returned.
  From it `RpcTypes`, `AnswersAreOwn` and `RegistrationsKept`; with the three
  theorems about plugins, `ArgumentsAreGenuine`, `CallsAreTruthful` and
  `CallbacksRunOnce`, for any number of calls and any answers of osquery.
  `AtomicRefinement` (`Spec => ImplementsAtomicCalls`) needs besides that a lost
  connection has no request on it (`NothingUnread`) and that the request served
  is the oldest (`UnservedHead`); a reply that a call accepts carries the
  latest number, so it is that call's (`OwnReply`).
  `NoCallForgotten` is the safety part of `RpcEnds`: a call in progress on a
  connection that is up has its request in one queue or its reply in the other,
  also behind the rest of an earlier reply. `ConnectShortens` is the variant
  behind `ConnectEnds`: each deadline, and each turn of a loop behind one,
  lowers `ConnectLeft`.

Every invariant, action property and refinement that a run checks has a
theorem. Some theorems state a property that no run checks, because a property
of a run is stronger: `HookAtMostOnce` follows from `ImplementsLifecycle`,
`AtMostOneDirect` from `ImplementsPool`, `ReplyIsOwn` from
`ImplementsAtomicCalls`. `PluginsLentOnce`, `WorkerLeft`, `TaskAdvances`, `AnswerOwed` and `ConnectAdvances`
are stated in the modules and proved.

Only model-checked, because the provers have no rule for fairness and
`ENABLED`: the liveness properties `ImplementsLiveLifecycle`,
`RequestEndsRun`, `OsqueryGoneEndsRun`, `TeardownTerminates`,
`SendersReleased`, `ListenerLeaves`, `PingLeaves`, `CallsAnswered`,
`BacklogServed`, `NoStarvation`, `StopEndsServer`, `EveryRequestAnswered`,
`ConnectEnds`, `ReadySocketConnects` and `RpcEnds`. No recursive definition is
proved about: `Thorough`, for instance, compares sets and positions of a batch
and counts nothing by recursion.

## 5. Not modelled

The wire encoding, log and error texts, `tracing`; the wrap of the sequence
number after 2^31 calls and the unused `ExtensionException`; the socket path
length check; the builder's options; the Windows pipe instance rotation beyond
the failure it adds to `AcceptFails`; overlapped reads and writes of the pipe
client and its flag shared by clones, whose race with `close` no caller of this
crate can reach because `close` and the calls take `&mut self`; column builders
and a table specification's text, which have no state; the logger's handing
out its shutdown callback once, which one teardown makes unobservable; panics
in the client; operating-system signal masks; test doubles, examples and benchmarks, which are not part of the running
system.

## 6. Plan

Done: the manager and its dispatch, the connection server, the request stream,
the Thrift code, the client and the plugins; four refinements and their proofs,
a theorem for every safety property of a run, variants for teardown, for a
connection's task and for connecting. What would come next:

1. **Variants** for the rest of the liveness properties: what stands before a
   connection in the line of `ConnectionServer`, what the ping and listener
   threads have left to do once `run()` is over.
2. **Composition**: `serve_connection` with `handle_call`, so that one
   connection's requests and the plugin locks are in one model.
3. **Panics** in the client, with the poisoning of its mutex.
