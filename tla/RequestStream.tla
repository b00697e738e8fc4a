--------------------------- MODULE RequestStream ---------------------------
(***************************************************************************)
(* serve_connection (threaded.rs): one connection's byte stream cut back   *)
(* into requests. Bytes arrive in chunks that respect no request boundary, *)
(* the synchronous Thrift processor is tried on whatever is buffered, and  *)
(* what it consumed is drained before the reply is written.                *)
(*                                                                         *)
(* The stream is the concatenation of the peer's requests, so a position   *)
(* in it says all there is to know of the bytes there; the unit of length  *)
(* is a piece of a request, its header being the first.                    *)
(***************************************************************************)
EXTENDS Integers, Sequences

CONSTANTS
  Kinds,       \* what the peer may send, a subset of AllKinds
  Sizes,       \* lengths of requests
  Chunk,       \* READ_CHUNK_BYTES
  MaxRequest,  \* MAX_REQUEST_BYTES
  Window,      \* replies the socket holds until the peer reads them
  MaxRequests  \* bound on the requests of a run

\* A method of the service; a method it does not know; no Thrift message. A
\* known method with a string that is not UTF-8 counts with the unknown ones,
\* that string being the end of its first piece: it is refused in the same way,
\* with the rest of its arguments unread. So does an old-style header that is
\* complete: junk is what never becomes one.
AllKinds == {"call", "foreign", "junk"}

ASSUME StreamAssumption ==
  /\ Kinds \subseteq AllKinds
  /\ Sizes \subseteq Nat \ {0, 1}
  /\ Chunk \in Nat \ {0}
  /\ MaxRequest \in Nat \ {0}
  /\ Window \in Nat \ {0}
  /\ MaxRequests \in Nat

VARIABLES
  requests,   \* the requests begun by the peer: their kind and extent
  written,    \* position up to which the peer has written
  peer,       \* "open", or "closed" after which it writes no more
  received,   \* position up to which the server has read
  consumed,   \* position up to which the buffer was drained
  task,       \* where the connection task is
  outcome,    \* how serve_connection ended
  served,     \* history: the requests the processor answered, in order
  answered,   \* history: the replies put on the socket, in order
  unread      \* replies the peer has not read yet

peerVars == <<requests, written, peer>>
bufferVars == <<received, consumed>>
replyVars == <<served, answered, unread>>
vars == <<peerVars, bufferVars, task, outcome, replyVars>>

TaskStates == {"read", "parse", "write", "ended"}
Outcomes == {"none", "clean", "midRequest", "oversize", "protocol", "io",
             "panic", "aborted"}

Extent == [kind : Kinds, start : Nat, end : Nat]

TypeOK ==
  /\ requests \in Seq(Extent)
  /\ written \in Nat
  /\ peer \in {"open", "closed"}
  /\ received \in Nat
  /\ consumed \in Nat
  /\ task \in TaskStates
  /\ outcome \in Outcomes
  /\ served \in Seq(Nat)
  /\ answered \in Seq(Nat)
  /\ unread \in 0 .. Window

Init ==
  /\ requests = <<>>
  /\ written = 0
  /\ peer = "open"
  /\ received = 0
  /\ consumed = 0
  /\ task = "read"
  /\ outcome = "none"
  /\ served = <<>>
  /\ answered = <<>>
  /\ unread = 0

Ids == DOMAIN requests
StreamEnd == IF requests = <<>> THEN 0 ELSE requests[Len(requests)].end

-----------------------------------------------------------------------------
(* The peer *)

BeginRequest(k, n) ==
  /\ peer = "open"
  /\ Len(requests) < MaxRequests
  /\ requests' = Append(requests, [kind |-> k, start |-> StreamEnd,
                                   end |-> StreamEnd + n])
  /\ UNCHANGED <<written, peer, bufferVars, task, outcome, replyVars>>

PeerWrites ==
  /\ peer = "open"
  /\ written < StreamEnd
  /\ written' = written + 1
  /\ UNCHANGED <<requests, peer, bufferVars, task, outcome, replyVars>>

PeerReads ==
  /\ unread > 0
  /\ unread' = unread - 1
  /\ UNCHANGED <<peerVars, bufferVars, task, outcome, served, answered>>

\* The peer is done, or dies, perhaps in the middle of a request.
PeerCloses ==
  /\ peer = "open"
  /\ peer' = "closed"
  /\ UNCHANGED <<requests, written, bufferVars, task, outcome, replyVars>>

-----------------------------------------------------------------------------
(* Reading *)

Finish(how) == task' = "ended" /\ outcome' = how
Go(to) == task' = to /\ UNCHANGED outcome

Buffered == received - consumed

\* Mutant: the cap is not checked.
ReadChunk_Uncapped ==
  /\ task = "read"
  /\ \E n \in 1 .. Chunk :
       /\ received + n <= written
       /\ received' = received + n
  /\ Go("parse")
  /\ UNCHANGED <<peerVars, consumed, replyVars>>

\* Mutant: the cap is a budget of the whole connection.
ReadChunk_CountsDrained ==
  /\ task = "read"
  /\ \E n \in 1 .. Chunk :
       /\ received + n <= written
       /\ received' = received + n
  /\ IF received' > MaxRequest THEN Finish("oversize") ELSE Go("parse")
  /\ UNCHANGED <<peerVars, consumed, replyVars>>

\* The cap is checked on everything buffered, before anything is parsed.
ReadChunk ==
  /\ task = "read"
  /\ \E n \in 1 .. Chunk :
       /\ received + n <= written
       /\ received' = received + n
  /\ IF received' - consumed > MaxRequest THEN Finish("oversize") ELSE Go("parse")
  /\ UNCHANGED <<peerVars, consumed, replyVars>>

\* Mutant: every end of file is a clean disconnect.
ReadEof_AlwaysClean ==
  /\ task = "read"
  /\ peer = "closed"
  /\ received = written
  /\ Finish("clean")
  /\ UNCHANGED <<peerVars, bufferVars, replyVars>>

ReadEof ==
  /\ task = "read"
  /\ peer = "closed"
  /\ received = written
  /\ Finish(IF Buffered = 0 THEN "clean" ELSE "midRequest")
  /\ UNCHANGED <<peerVars, bufferVars, replyVars>>

-----------------------------------------------------------------------------
(* Processing what is buffered *)

Parsing == task = "parse" /\ Buffered > 0
AtRequest(i) == Parsing /\ requests[i].start = consumed
Whole(i) == requests[i].end <= received
Processing == UNCHANGED <<peerVars, received, answered, unread>>

ParsedAll ==
  /\ task = "parse"
  /\ Buffered = 0
  /\ Go("read")
  /\ UNCHANGED <<peerVars, bufferVars, replyVars>>

\* Mutant: the request stays in the buffer.
Process_KeepsBytes(i) ==
  /\ AtRequest(i)
  /\ requests[i].kind = "call"
  /\ Whole(i)
  /\ served' = Append(served, i)
  /\ Go("write")
  /\ UNCHANGED consumed
  /\ Processing

\* A request that is there in full: the handler runs, with a result or an
\* error, and exactly what the parser consumed is drained.
Process(i) ==
  /\ AtRequest(i)
  /\ requests[i].kind = "call"
  /\ Whole(i)
  /\ served' = Append(served, i)
  /\ consumed' = requests[i].end
  /\ Go("write")
  /\ Processing

HandlerPanics(i) ==
  /\ AtRequest(i)
  /\ requests[i].kind = "call"
  /\ Whole(i)
  /\ Finish("panic")
  /\ UNCHANGED <<peerVars, bufferVars, replyVars>>

\* The parser hit the end of the buffer: keep the bytes and read on.
Incomplete(i) ==
  /\ AtRequest(i)
  /\ requests[i].kind = "call"
  /\ ~Whole(i)
  /\ Go("read")
  /\ UNCHANGED <<peerVars, bufferVars, replyVars>>

\* An unknown method is refused after its header: the arguments are not read,
\* so they are not drained.
Refuse(i) ==
  /\ AtRequest(i)
  /\ requests[i].kind = "foreign"
  /\ served' = Append(served, i)
  /\ consumed' = requests[i].start + 1
  /\ Go("write")
  /\ Processing

\* Bytes that are no message. With the sign bit set they are a version, which
\* is refused. Else the non-strict protocol takes the first word for the length
\* of an old-style method name: the parser runs out of bytes and the task waits
\* for more, each time that more has come, or refuses what stands for the name
\* or behind it.
NotThrift(i) ==
  /\ AtRequest(i)
  /\ requests[i].kind = "junk"
  /\ Go("read") \/ Finish("protocol")
  /\ UNCHANGED <<peerVars, bufferVars, replyVars>>

\* Bytes that begin no request. An argument struct, or its end followed by the
\* next header, read as an old-style header announces a method name of
\* megabytes: the parser runs out of bytes, or refuses the length.
Misaligned ==
  /\ Parsing
  /\ \A i \in Ids : requests[i].start # consumed
  /\ Go("read") \/ Finish("protocol")
  /\ UNCHANGED <<peerVars, bufferVars, replyVars>>

-----------------------------------------------------------------------------
(* Replying *)

\* Mutant: the loop goes back to read() after one request.
WriteReply_OneByOne ==
  /\ task = "write"
  /\ unread < Window
  /\ answered' = Append(answered, served[Len(served)])
  /\ unread' = unread + 1
  /\ Go("read")
  /\ UNCHANGED <<peerVars, bufferVars, served>>

\* Mutant: replies are queued without a bound.
WriteReply_NoWait ==
  /\ task = "write"
  /\ answered' = Append(answered, served[Len(served)])
  /\ unread' = unread + 1
  /\ Go("parse")
  /\ UNCHANGED <<peerVars, bufferVars, served>>

\* write_all waits for room in the socket.
WriteReply ==
  /\ task = "write"
  /\ unread < Window
  /\ answered' = Append(answered, served[Len(served)])
  /\ unread' = unread + 1
  /\ Go("parse")
  /\ UNCHANGED <<peerVars, bufferVars, served>>

\* Reading or writing fails, or the runtime is dropped, at an await.
SocketFails ==
  /\ task \in {"read", "write"}
  /\ \/ peer = "closed" /\ Finish("io")
     \/ Finish("aborted")
  /\ UNCHANGED <<peerVars, bufferVars, replyVars>>

-----------------------------------------------------------------------------
(* The specification *)

Peer ==
  \/ \E k \in Kinds, n \in Sizes : BeginRequest(k, n)
  \/ PeerWrites \/ PeerReads \/ PeerCloses

Serving ==
  \/ ReadChunk \/ ReadEof
  \/ ParsedAll
  \/ \E i \in Ids :
       Process(i) \/ Incomplete(i) \/ Refuse(i) \/ NotThrift(i)
  \/ Misaligned
  \/ WriteReply

Failing == SocketFails \/ \E i \in Ids : HandlerPanics(i)

Ended == task = "ended" /\ UNCHANGED vars

Next == Peer \/ Serving \/ Failing \/ Ended

Spec == Init /\ [][Next]_vars

\* The task is scheduled and its awaits are woken; the peer finishes writing a
\* request it began and reads its replies.
FairSpec == Spec /\ WF_vars(Serving) /\ WF_vars(PeerWrites) /\ WF_vars(PeerReads)

-----------------------------------------------------------------------------
(* Safety properties *)

(* However the stream is cut into chunks, requests are processed in order, *)
(* each at most once and none before those in front of it, and answered in *)
(* the same order: a request that was tried on a part of its bytes is not  *)
(* executed twice, and none is passed over with the buffer of the one      *)
(* before it. That one is served at all is EveryRequestAnswered.           *)
Pipeline == INSTANCE RequestPipeline WITH asked <- Len(requests)

ImplementsPipeline == Pipeline!PipelineSpec

\* The parser is at the boundary of a request that it can read: no unknown
\* method was refused so far, and what comes next is a Thrift message.
Intact ==
  \A i \in Ids :
    /\ requests[i].kind = "foreign" => i > Len(served)
    /\ requests[i].kind = "junk" => i > Len(served) + 1

(* The task never waits for more bytes while a whole request is buffered:  *)
(* the peer may be waiting for its reply and send nothing more. This holds *)
(* until an unknown method was refused or bytes that are no message came.  *)
WholeRequestWaits ==
  task = "read" /\ \E i \in Ids : requests[i].start >= consumed /\ Whole(i)

NothingLeftWaiting == Intact => ~WholeRequestWaits

(* A connection that ends as a clean disconnect owes its peer nothing: it  *)
(* answered every request the peer made.                                   *)
CleanMeansAnswered ==
  outcome = "clean" =>
    \A i \in Ids : written >= requests[i].end => i <= Len(answered)

(* What is handed to the parser never exceeds the limit, and nothing more  *)
(* than one chunk above it is ever held.                                   *)
BufferBounded ==
  /\ task = "parse" => Buffered <= MaxRequest
  /\ Buffered <= MaxRequest + Chunk

(* A connection is closed for size only over a request that comes within a *)
(* chunk of the limit: shorter ones always pass, however they are          *)
(* pipelined, until an unknown method was refused or bytes that are no     *)
(* message came, behind which requests pile up.                            *)
OversizeOnlyNearLimit ==
  outcome = "oversize" /\ Intact =>
    \E i \in Ids :
      /\ requests[i].start = consumed
      /\ requests[i].end - requests[i].start > MaxRequest - Chunk + 1

(* The task never spins: every step of serve_connection leaves it less to  *)
(* do with what the peer wrote, also when a request is tried on a part of  *)
(* its bytes and tried again, or is refused with its arguments in the      *)
(* buffer; only more bytes of the peer make it more.                       *)
WorkLeft ==
  2 * (written - received) + 2 * (written - consumed)
    + (CASE task = "write" -> 3 [] task = "parse" -> 2 [] task = "read" -> 1 [] OTHER -> 0)

TaskAdvances ==
  [][/\ Serving \/ Failing => WorkLeft' < WorkLeft
     /\ ~PeerWrites => WorkLeft' <= WorkLeft]_vars

-----------------------------------------------------------------------------
(* The inductive invariant behind the safety properties *)

\* Requests lie end to end in the stream, none of them shorter than a header
\* and something more.
Laid ==
  /\ \A i \in Ids : requests[i].start + 1 < requests[i].end
  /\ \A i, j \in Ids : i < j => requests[i].end <= requests[j].start
  /\ \A i \in Ids : requests[i].start = IF i = 1 THEN 0 ELSE requests[i - 1].end

Positions ==
  consumed <= received /\ received <= written /\ written <= StreamEnd

\* The buffer begins behind the last request served, or within it when its
\* arguments were not read.
Progress ==
  /\ Len(served) <= Len(requests)
  /\ \A n \in DOMAIN served : served[n] = n
  /\ served = <<>> => consumed = 0
  /\ \A n \in Ids : n = Len(served) =>
       /\ requests[n].start < consumed /\ consumed <= requests[n].end
       /\ requests[n].kind # "foreign" => consumed = requests[n].end

\* One reply is owed exactly while it is being written.
Replies ==
  /\ \A n \in DOMAIN answered : answered[n] = n
  /\ task \in {"read", "parse"} => Len(answered) = Len(served)
  /\ task = "write" => Len(answered) + 1 = Len(served)
  /\ task = "ended" => Len(answered) <= Len(served)
  /\ outcome = "none" <=> task # "ended"

Bounded ==
  /\ task # "ended" => Buffered <= MaxRequest
  /\ Buffered <= MaxRequest + Chunk

Settled == outcome = "clean" => peer = "closed" /\ CleanMeansAnswered

StreamInv == Laid /\ Positions /\ Progress /\ Replies /\ Bounded /\ Settled

\* ...and of what holds while the stream is intact.
KnownInv == NothingLeftWaiting /\ OversizeOnlyNearLimit

-----------------------------------------------------------------------------
(* Liveness properties *)

\* A Thrift message with nothing before it but calls of known methods.
InSequence(i) ==
  /\ requests[i].kind # "junk"
  /\ \A j \in 1 .. i - 1 : requests[j].kind = "call"

(* Every request that is completely written behind calls of known methods  *)
(* is answered, itself to an unknown method or not, unless the connection  *)
(* ends: the peer need not send anything more.                             *)
EveryRequestAnswered ==
  \A i \in 1 .. MaxRequests :
    (i \in Ids /\ InSequence(i) /\ written >= requests[i].end)
      ~> (i <= Len(answered) \/ task = "ended")

-----------------------------------------------------------------------------
(* What the documentation says and the code does not do *)

(* Draining what the parser consumed "keeps any pipelined follow-up        *)
(* request intact" (serve_connection's comment): also after a request the  *)
(* processor refused.                                                      *)
FollowUpIntact == ~WholeRequestWaits
=============================================================================
