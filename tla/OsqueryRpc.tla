----------------------------- MODULE OsqueryRpc -----------------------------
(***************************************************************************)
(* Thrift calls on one connection: the client comes up, calls are sent,    *)
(* processed and answered, and their outcome is folded into a Rust Result. *)
(* The connection is one of two:                                           *)
(*                                                                         *)
(*   server = "osquery"    the caller is ExtensionManagerClient;           *)
(*   server = "extension"  osquery calls the extension's handler, and      *)
(*                         through it the plugins of PluginAdapters.       *)
(*                                                                         *)
(* Both ends run the code generated from osquery.thrift (ThriftTypes).     *)
(* Messages are whole here; how they are cut is RequestStream's subject.   *)
(***************************************************************************)
EXTENDS PluginAdapters, Integers, FiniteSets

CONSTANTS
  StatusForms,     \* the statuses osquery may write, as structs on the wire
  ResponseForms,   \* the same for responses,
  ExtensionForms,  \* lists of extensions
  OptionForms,     \* and lists of options
  CallForms,       \* the arguments of osquery's calls of an extension
  MaxCalls         \* bound: calls on the connection

\* A field that is None is not written, and the constraints of a context that
\* parses are a list.
ASSUME RpcAssumption ==
  /\ MaxCalls \in Nat
  /\ \A w \in StatusForms : \A f \in DOMAIN w : w[f] # NONE
  /\ \A args \in CallForms : "request" \in DOMAIN args => ContextIsList(args.request)

VARIABLES
  server,    \* "osquery" or "extension"
  pipe,      \* the client's transport is a Windows named pipe
  socket,    \* what is at the client's path
  stage,     \* how far the client has come
  late,      \* the deadline of the wait in progress has passed
  up,        \* the connection carries bytes
  seq,       \* the stub's _sequence_number
  calls,     \* calls begun (history)
  pending,   \* the call in progress, or NONE
  requests,  \* requests the server has not read
  replies,   \* what the client has not read: replies and rests of replies
  served,    \* what the server did for the latest call, or NotServed (history)
  result     \* the outcome of the latest call, or NONE

connectVars == <<socket, stage, late>>
callVars == <<seq, calls, pending, requests, replies, served, result>>
vars == <<server, pipe, up, connectVars, callVars>>

Exception == [type |-> "exception", body |-> <<>>, invoked |-> {}]

NotServed == [call |-> [id |-> 0, seq |-> 0, wrapper |-> "none", args |-> <<>>],
              answer |-> Exception]

Sockets == {"absent", "silent", "busy", "listening"}
Stages == {"looking", "missed", "connecting", "open", "closed", "failed"}

Init ==
  /\ server \in {"osquery", "extension"}
  /\ pipe \in IF server = "osquery" THEN BOOLEAN ELSE {FALSE}
  /\ socket \in IF server = "osquery" THEN Sockets ELSE {"listening"}
  /\ stage \in IF server = "osquery" THEN {"looking", "connecting"} ELSE {"open"}
  /\ up = (stage = "open")
  /\ late = FALSE
  /\ seq = 0 /\ calls = 0
  /\ pending = NONE /\ served = NotServed /\ result = NONE
  /\ requests = <<>> /\ replies = <<>>

-----------------------------------------------------------------------------
(* Coming up: wait_for_socket, then connect *)

Coming == stage \in {"looking", "missed", "connecting"}

\* osquery creates, binds, loads and leaves its socket as it likes.
SocketChanges ==
  /\ Coming
  /\ socket' \in Sockets \ {socket}
  /\ UNCHANGED <<server, pipe, up, stage, late, callVars>>

DeadlinePasses ==
  /\ Coming /\ ~late
  /\ late' = TRUE
  /\ UNCHANGED <<server, pipe, up, socket, stage, callVars>>

Advance(to) ==
  /\ stage' = to
  /\ up' = (to = "open")
  /\ late' = (late /\ to \in {"looking", "missed"})   \* connect waits anew
  /\ UNCHANGED <<server, pipe, socket, callVars>>

\* Mutant: the deadline is looked at before the path.
Look_DeadlineFirst ==
  /\ stage = "looking"
  /\ Advance(IF late THEN "failed" ELSE IF socket = "absent" THEN "missed" ELSE "connecting")

Look ==
  /\ stage = "looking"
  /\ Advance(IF socket = "absent" THEN "missed" ELSE "connecting")

\* Mutant: the wait has no end.
CheckDeadline_Never ==
  /\ stage = "missed"
  /\ Advance("looking")

\* Behind each look that found nothing: give up, or sleep and look again.
CheckDeadline ==
  /\ stage = "missed"
  /\ Advance(IF late THEN "failed" ELSE "looking")

\* A Unix socket is tried once.
ConnectUnix ==
  /\ stage = "connecting" /\ ~pipe
  /\ Advance(IF socket = "listening" THEN "open" ELSE "failed")

\* A busy pipe is tried again until the deadline, which is looked at first.
ConnectPipe ==
  /\ stage = "connecting" /\ pipe
  /\ IF socket = "busy" /\ ~late
     THEN UNCHANGED vars
     ELSE Advance(IF socket = "listening" /\ ~late THEN "open" ELSE "failed")

Connecting == Look \/ CheckDeadline \/ ConnectUnix \/ ConnectPipe

\* close() and Drop: the first takes the stream.
Close ==
  /\ server = "osquery"
  /\ stage = "open" /\ pending = NONE
  /\ stage' = "closed"
  /\ up' = FALSE
  /\ requests' = <<>>
  /\ UNCHANGED <<server, pipe, socket, late, seq, calls, pending, replies, served, result>>

LinkBreaks ==
  /\ up
  /\ up' = FALSE
  /\ requests' = <<>>
  /\ \E n \in 0..Len(replies) : replies' = SubSeq(replies, 1, n)
  /\ UNCHANGED <<server, pipe, connectVars, seq, calls, pending, served, result>>

-----------------------------------------------------------------------------
(* The client's wrappers *)

Wrappers == (DOMAIN Methods \ {"shutdown"}) \cup {"queryRow"}

Rpc(wrapper) == IF wrapper = "queryRow" THEN "query" ELSE wrapper

\* The uuid of a status that has code 0; a missing code is none.
StatusOk(status) ==
  IF status.code = 0 THEN Ok(status.uuid) ELSE Err("status")

ResponseRows(r) ==
  IF r.status = NONE THEN Err("other")
  ELSE IF StatusOk(r.status).ok
  THEN Ok(IF r.response = NONE THEN <<>> ELSE r.response)
  ELSE StatusOk(r.status)

Fold(wrapper, v) ==
  CASE wrapper \in {"ping", "deregisterExtension"} ->
         IF StatusOk(v).ok THEN Ok(<<>>) ELSE StatusOk(v)
    [] wrapper = "registerExtension" ->
         IF StatusOk(v).ok /\ v.uuid = NONE THEN Err("other") ELSE StatusOk(v)
    [] wrapper \in {"call", "query", "getQueryColumns"} -> ResponseRows(v)
    [] wrapper = "queryRow" ->
         IF ResponseRows(v).ok /\ Len(ResponseRows(v).value) # 1
         THEN Err("other") ELSE ResponseRows(v)
    [] wrapper \in {"extensions", "options"} -> Ok(v)

-----------------------------------------------------------------------------
(* The generated client stub *)

Finish(call, outcome) ==
  /\ pending' = NONE
  /\ result' = [id |-> call.id, wrapper |-> call.wrapper, outcome |-> outcome]

\* Mutant: the number is taken only once the request was written.
Send_NumbersLate(wrapper, args) ==
  /\ stage \in {"open", "closed"} /\ pending = NONE /\ calls < MaxCalls
  /\ calls' = calls + 1
  /\ seq' = IF up THEN seq + 1 ELSE seq
  /\ served' = NotServed
  /\ LET call == [id |-> calls', seq |-> seq + 1, wrapper |-> wrapper, args |-> args]
     IN IF up
        THEN /\ requests' = Append(requests, call)
             /\ pending' = call
             /\ result' = NONE
        ELSE /\ Finish(call, Err("transport"))
             /\ UNCHANGED requests
  /\ UNCHANGED <<server, pipe, up, connectVars, replies>>

\* A call takes the next number and writes its request, or fails to.
Send(wrapper, args) ==
  /\ stage \in {"open", "closed"} /\ pending = NONE /\ calls < MaxCalls
  /\ calls' = calls + 1
  /\ seq' = seq + 1
  /\ served' = NotServed
  /\ LET call == [id |-> calls', seq |-> seq', wrapper |-> wrapper, args |-> args]
     IN IF up
        THEN /\ requests' = Append(requests, call)
             /\ pending' = call
             /\ result' = NONE
        ELSE /\ Finish(call, Err("transport"))
             /\ UNCHANGED requests
  /\ UNCHANGED <<server, pipe, up, connectVars, replies>>

Rest == [type |-> "rest"]

\* Mutant: the reply's sequence number is not looked at.
Expected_AnyNumber(reply) == reply.name = Rpc(pending.wrapper)

Expected(reply) == reply.seq = seq /\ reply.name = Rpc(pending.wrapper)

\* A reply to another call, or with a string that is not UTF-8, is an error
\* that leaves the rest of the reply behind.
GivesUp(reply) ==
  reply.type # "rest" /\ (~Expected(reply) \/ reply.body = BAD)

\* What a call returns for the answer to it.
Outcome(wrapper, answer) ==
  LET kind == Methods[Rpc(wrapper)].result
  IN IF answer.type = "exception" \/ ~HasResult(Rpc(wrapper), answer.body)
     THEN Err("transport")
     ELSE IF kind = "unit" THEN Ok(<<>>)
     ELSE LET v == ReadValue(kind, answer.body.result_value)
          IN IF server = "osquery" THEN Fold(wrapper, v) ELSE Ok(v)

ReceiveReply ==
  /\ pending # NONE /\ replies # <<>>
  /\ Head(replies).type # "rest"
  /\ LET reply == Head(replies)
     IN IF GivesUp(reply)
        THEN /\ Finish(pending, Err("transport"))
             /\ replies' = [replies EXCEPT ![1] = Rest]
        ELSE /\ replies' = Tail(replies)
             /\ Finish(pending, Outcome(pending.wrapper, reply))
  /\ UNCHANGED <<server, pipe, up, connectVars, seq, calls, requests, served>>

\* A header is read where there is none: an error (or a wait for bytes that
\* do not come: this step need not happen), and some or all of it is gone.
ReceiveRest ==
  /\ pending # NONE /\ replies # <<>>
  /\ Head(replies).type = "rest"
  /\ replies' \in {replies, Tail(replies)}
  /\ Finish(pending, Err("transport"))
  /\ UNCHANGED <<server, pipe, up, connectVars, seq, calls, requests, served>>

ReceiveEof ==
  /\ pending # NONE /\ ~up /\ replies = <<>>
  /\ Finish(pending, Err("transport"))
  /\ UNCHANGED <<server, pipe, up, connectVars, seq, calls, requests, replies, served>>

-----------------------------------------------------------------------------
(* The generated processor and the two handlers behind it *)

Answered(body, invoked) == [type |-> "reply", body |-> body, invoked |-> invoked]
\* osquery's handler: any form of the method's result, none, one with a
\* string that is not UTF-8, or an exception.
ManagerAnswers(name) ==
  LET kind == Methods[name].result
      forms == CASE kind = "status"     -> StatusForms
                 [] kind = "response"   -> ResponseForms
                 [] kind = "extensions" -> ExtensionForms
                 [] kind = "options"    -> OptionForms
  IN {Answered([result_value |-> w], {}) : w \in forms} \cup
     {Answered(<<>>, {}), Answered(BAD, {}), Exception}

\* This crate's handler (ExtensionServerHandler). A poisoned plugin mutex
\* and a shutdown signal nobody receives become exceptions.
ExtensionAnswers(name, args) ==
  CASE name = "ping" ->
         {Answered([result_value |-> Write([code |-> 0, message |-> "OK", uuid |-> NONE])], {})}
    [] name = "shutdown" -> {Answered(<<>>, {}), Exception}
    [] OTHER ->   \* call
         {Answered([result_value |-> WriteResponse(PluginResponseToWire(a.result))], a.invoked) :
            a \in PluginCall(args.item, args.request)} \cup {Exception}

Answers(name, args) ==
  IF ~ArgsAccepted(name, args) THEN {Exception}
  ELSE IF server = "osquery" THEN ManagerAnswers(name)
  ELSE ExtensionAnswers(name, args)

\* Mutant: a call without its arguments is dropped, not answered.
Serve_Silent ==
  /\ up /\ requests # <<>>
  /\ LET q == Head(requests)
         name == Rpc(q.wrapper)
     IN IF ArgsAccepted(name, q.args)
        THEN \E a \in Answers(name, q.args) :
               /\ replies' = Append(replies, [type |-> a.type, seq |-> q.seq, name |-> name,
                                              body |-> a.body])
               /\ served' = IF q.id = calls THEN [call |-> q, answer |-> a] ELSE served
        ELSE UNCHANGED <<replies, served>>
  /\ requests' = Tail(requests)
  /\ UNCHANGED <<server, pipe, up, connectVars, seq, calls, pending, result>>

\* Mutant: a request may be processed again.
Serve_Again ==
  /\ up /\ requests # <<>>
  /\ LET q == Head(requests)
         name == Rpc(q.wrapper)
     IN \E a \in Answers(name, q.args) :
          /\ replies' = Append(replies, [type |-> a.type, seq |-> q.seq, name |-> name,
                                         body |-> a.body])
          /\ served' = IF q.id = calls THEN [call |-> q, answer |-> a] ELSE served
  /\ requests' \in {requests, Tail(requests)}
  /\ UNCHANGED <<server, pipe, up, connectVars, seq, calls, pending, result>>

\* The reply carries the request's number and name.
Serve ==
  /\ up /\ requests # <<>>
  /\ LET q == Head(requests)
         name == Rpc(q.wrapper)
     IN \E a \in Answers(name, q.args) :
          /\ replies' = Append(replies, [type |-> a.type, seq |-> q.seq, name |-> name,
                                         body |-> a.body])
          /\ served' = IF q.id = calls THEN [call |-> q, answer |-> a] ELSE served
  /\ requests' = Tail(requests)
  /\ UNCHANGED <<server, pipe, up, connectVars, seq, calls, pending, result>>

-----------------------------------------------------------------------------
(* The stub's own requests are complete; those of an osquery of another    *)
(* version may lack arguments or have some that are new.                   *)

StubArguments(wrapper) == [a \in Methods[Rpc(wrapper)].args |-> "text"]

Calls ==
  \/ /\ server = "osquery"
     /\ \E w \in Wrappers : Send(w, StubArguments(w))
  \/ /\ server = "extension"
     /\ \/ \E w \in {"ping", "shutdown"} : Send(w, <<>>)
        \/ \E args \in CallForms : Send("call", args)

ArgumentForms == CallForms \cup {<<>>} \cup {StubArguments(w) : w \in Wrappers}

\* Rust's None is not a call.
ASSUME CallAssumption ==
  NONE \notin [id : Nat, seq : Nat, wrapper : Wrappers \cup {"shutdown"}, args : ArgumentForms]

\* The program may stop calling whenever no call is in progress.
Rests == pending = NONE /\ ~Coming /\ UNCHANGED vars

Next ==
  \/ SocketChanges \/ DeadlinePasses \/ Connecting
  \/ Calls \/ ReceiveReply \/ ReceiveRest \/ ReceiveEof
  \/ Serve \/ Close \/ LinkBreaks \/ Rests

Spec ==
  /\ Init /\ [][Next]_vars
  /\ WF_vars(Connecting) /\ WF_vars(DeadlinePasses)
  /\ WF_vars(ReceiveReply) /\ WF_vars(ReceiveEof) /\ WF_vars(Serve)

-----------------------------------------------------------------------------
(* Properties *)

Numbered(q) == q.id = q.seq /\ q.seq \in 1..seq

\* Every call takes one number, sent or not, and what is on its way carries
\* the number of a call that was made (_sequence_number and its users).
RpcTypeOK ==
  /\ server \in {"osquery", "extension"}
  /\ pipe \in BOOLEAN /\ late \in BOOLEAN /\ up \in BOOLEAN
  /\ socket \in Sockets /\ stage \in Stages
  /\ seq \in 0..MaxCalls /\ calls = seq
  /\ \A i \in DOMAIN requests : Numbered(requests[i])
  /\ \A i \in DOMAIN replies : replies[i].type # "rest" => replies[i].seq \in 1..seq
  /\ pending # NONE => Numbered(pending) /\ pending.id = calls

\* What a wrapper returns, unless it is an error of the transport, is what
\* the server answered to this very call: never the answer to an earlier call
\* whose reply was left unread (verify_expected_sequence_number in the stubs).
ReplyIsOwn ==
  result # NONE /\ result.outcome # Err("transport")
    => /\ served.call.id = result.id /\ served.call.wrapper = result.wrapper
       /\ result.outcome = Outcome(result.wrapper, served.answer)

InStep == up /\ requests = <<>> /\ replies = <<>>

\* What a call should return for what was served; the rest of an answer that
\* cannot be read is left behind.
ServedOutcome ==
  IF served.answer.body = BAD THEN Err("transport")
  ELSE Outcome(served.call.wrapper, served.answer)

Atomic ==
  INSTANCE AtomicCalls WITH
    NoResult <- NONE,
    Lost     <- Err("transport"),
    link     <- IF up THEN "up" ELSE IF Coming THEN "coming" ELSE "down",
    made     <- calls,
    calling  <- pending # NONE,
    open     <- {requests[i].id : i \in DOMAIN requests},
    answer   <- ServedOutcome,
    returned <- IF calls = 0 \/ pending # NONE THEN NONE ELSE result.outcome

\* The stubs' numbers and names make each call one exchange: executed at most
\* once, in the order of the calls, and answered with its own answer or not at
\* all. A call that fails may still be executed, and during the next call.
ImplementsAtomicCalls == Atomic!AtomicSpec

\* A uuid that osquery gave out is the one the client holds, unless the
\* connection is broken or has bytes left on it: the extension would listen
\* on another socket than osquery expects (register_extension_impl).
RegistrationKept ==
  /\ server = "osquery" /\ InStep /\ pending = NONE
  /\ served.call.wrapper = "registerExtension"
  /\ served.answer.body # BAD /\ served.answer.type = "reply"
  /\ HasResult("registerExtension", served.answer.body)
  => LET status == served.answer.body.result_value
     IN {"code", "uuid"} \subseteq DOMAIN status /\ status.code = 0
          => result.outcome = Ok(status.uuid)

\* osquery is told of success only when every callback that the request asks
\* for was run and succeeded, and of failure only when none that changes data
\* did: each error of a plugin reaches osquery, as a status or as the status
\* of a mutation's row. There is one exception, which Error's documentation of
\* its codes as non-zero leaves to the implementor: a Status error with code 0
\* goes out as it is (dispatch_mutation, LoggerPlugin::call, handle_call,
\* plugin_response_to_wire).
ToldTruth ==
  server = "extension" /\ result # NONE /\ result.wrapper = "call" /\ result.outcome.ok =>
    Truthful(served.call.args.item, served.call.args.request,
             result.outcome.value, served.answer.invoked)

\* No callback gets a value the request does not hold or that did not parse:
\* rows to write, row ids and the statuses of distributed queries are osquery's,
\* and a constraint is one of those it sent for that column (the parsers of
\* table.rs and distributed.rs, which drop some of what they cannot read).
ArgumentsGenuine ==
  server = "extension" /\ served.answer.type = "reply" =>
    \A i \in served.answer.invoked : Genuine(served.call.args.request, i)

\* A call that a plugin answers is carried out once and whole: a mutation of
\* a table by one callback, which with ImplementsAtomicCalls is run at most once
\* for each call osquery makes; distributed results without losing one; a log
\* to its last line, also when an earlier line failed.
CallbacksOnce ==
  server = "extension" /\ served.answer.type = "reply" /\ served.call.wrapper = "call" =>
    Thorough(served.call.args.item, served.call.args.request, served.answer.invoked)

\* The wait for osquery's socket and the connect behind it come to an end,
\* whatever the path does meanwhile (wait_for_socket, open_pipe_with_retry).
ConnectEnds == <>~Coming

\* What is left of coming up: each of its two waits has a deadline that passes
\* once, and behind it the loop makes at most two more turns.
ConnectLeft ==
  CASE stage \in {"looking", "missed"} /\ ~late -> 5
    [] stage = "looking" /\ late               -> 4
    [] stage = "missed" /\ late                -> 3
    [] stage = "connecting" /\ ~late           -> 2
    [] stage = "connecting" /\ late            -> 1
    [] OTHER                                   -> 0

\* Whatever the path does, no step of either wait goes back, and once a deadline
\* has passed every turn of a loop is nearer its end: ConnectEnds needs no more
\* than time that passes and a thread that runs.
ConnectAdvances ==
  [][/\ ConnectLeft' <= ConnectLeft
     /\ DeadlinePasses \/ (late /\ Connecting) => ConnectLeft' < ConnectLeft]_vars

\* A Unix socket that is there to be found when the path is looked at, if
\* only once the deadline has passed, is connected to (wait_for_socket looks
\* again behind its last sleep).
ReadySocketConnects ==
  (server = "osquery" /\ ~pipe /\ stage = "looking" /\ [](socket = "listening"))
    ~> (stage = "open")

\* A call in progress, while the connection is up, has its request still to be
\* served or the reply to it still to be read, whatever is left over from calls
\* before it: none waits for an answer that nobody owes it (every processor
\* method replies, and what the stubs leave unread is never the next reply).
AnswerOwed ==
  pending # NONE /\ up =>
    \/ \E j \in DOMAIN requests : requests[j] = pending
    \/ \E i \in DOMAIN replies : replies[i].type # "rest" /\ replies[i].seq = pending.seq

OutOfStep == \E i \in DOMAIN replies : replies[i].type = "rest"

\* Every call returns: what the server cannot make sense of it answers with an
\* exception. Only on a connection with the rest of a reply on it may a call
\* wait for bytes that never come (the stubs read without a timeout).
RpcEnds == (pending # NONE) ~> (pending = NONE \/ OutOfStep)

\* Stated by status_ok's comment and its unit test: a status that carries no
\* code is reported as an error and never taken for success. The generated
\* reader fills in code 0 before status_ok can see that there was none.
MissingCodeIsError ==
  /\ server = "osquery" /\ result # NONE /\ result.outcome.ok
  /\ result.wrapper \in {"ping", "registerExtension", "deregisterExtension"}
  => "code" \in DOMAIN served.answer.body.result_value
=============================================================================
