------------------------- MODULE RequestStreamProofs -------------------------
(***************************************************************************)
(* Theorems about RequestStream, for requests of any kinds and lengths,    *)
(* any chunk size and any limit.                                           *)
(***************************************************************************)
EXTENDS RequestStream, SequenceTheorems, TLAPS

-----------------------------------------------------------------------------
(* Positions in the stream *)

\* The types of a request's fields.
LEMMA RequestTypes ==
  ASSUME TypeOK
  PROVE  /\ Len(requests) \in Nat
         /\ Ids = 1 .. Len(requests)
         /\ \A i \in Ids : /\ requests[i] \in Extent
                           /\ requests[i].kind \in Kinds
                           /\ requests[i].start \in Nat
                           /\ requests[i].end \in Nat
<1>1. Len(requests) \in Nat /\ Ids = 1 .. Len(requests)
  BY LenProperties DEF TypeOK, Ids
<1>2. \A i \in Ids : requests[i] \in Extent
  BY <1>1, ElementOfSeq DEF TypeOK
<1>. QED
  BY <1>1, <1>2 DEF Extent

\* The end of the stream is the end of its last request, and no request ends
\* behind it.
LEMMA EndOfStream ==
  ASSUME TypeOK, Laid
  PROVE  /\ StreamEnd \in Nat
         /\ Len(requests) = 0 => StreamEnd = 0
         /\ Len(requests) # 0 => /\ Len(requests) \in Ids
                                 /\ StreamEnd = requests[Len(requests)].end
         /\ \A i \in Ids : requests[i].end <= StreamEnd
<1>1. /\ Len(requests) \in Nat
      /\ Ids = 1 .. Len(requests)
      /\ \A i \in Ids : requests[i].start \in Nat /\ requests[i].end \in Nat
  BY RequestTypes
<1>2. CASE Len(requests) = 0
  BY <1>1, <1>2, EmptySeq DEF StreamEnd, TypeOK
<1>3. CASE Len(requests) # 0
  <2>1. requests # <<>>
    BY <1>3, EmptySeq DEF TypeOK
  <2>2. StreamEnd = requests[Len(requests)].end /\ Len(requests) \in Ids
    BY <1>1, <1>3, <2>1 DEF StreamEnd
  <2>3. ASSUME NEW i \in Ids, i # Len(requests)
        PROVE  requests[i].end <= StreamEnd
    <3>1. i < Len(requests)
      BY <1>1, <2>3
    <3>2. requests[i].end <= requests[Len(requests)].start
      BY <2>2, <3>1 DEF Laid
    <3>3. requests[Len(requests)].start + 1 < requests[Len(requests)].end
      BY <2>2 DEF Laid
    <3>. QED
      BY <1>1, <2>2, <3>2, <3>3
  <2>. QED
    BY <1>1, <1>3, <2>2, <2>3
<1>. QED
  BY <1>2, <1>3

\* The number of requests served.
LEMMA ServedCount ==
  ASSUME TypeOK
  PROVE  /\ Len(served) \in Nat /\ DOMAIN served = 1 .. Len(served)
         /\ served = <<>> <=> Len(served) = 0
         /\ Len(answered) \in Nat /\ DOMAIN answered = 1 .. Len(answered)
BY LenProperties, EmptySeq DEF TypeOK

\* Requests that begin where the buffer begins, or later, were not served; all
\* others were begun before it.
LEMMA BehindServed ==
  ASSUME TypeOK, Laid, Progress, NEW i \in Ids
  PROVE  /\ requests[i].start >= consumed => i > Len(served)
         /\ i > Len(served) => requests[i].start >= consumed
<1>. DEFINE n == Len(served)
<1>1. /\ Len(requests) \in Nat
      /\ Ids = 1 .. Len(requests)
      /\ \A j \in Ids : requests[j].start \in Nat /\ requests[j].end \in Nat
  BY RequestTypes
<1>2. n \in Nat /\ (served = <<>> <=> n = 0) /\ consumed \in Nat
  BY ServedCount DEF TypeOK
<1>3. CASE n = 0
  BY <1>1, <1>2, <1>3 DEF Progress
<1>4. CASE n # 0
  <2>1. n \in Ids
    BY <1>1, <1>2, <1>4 DEF Progress
  <2>2. requests[n].start < consumed /\ consumed <= requests[n].end
    BY <2>1 DEF Progress
  <2>3. ASSUME i <= n PROVE requests[i].start < consumed
    <3>1. CASE i = n
      BY <2>2, <3>1
    <3>2. CASE i < n
      <4>1. requests[i].end <= requests[n].start
            /\ requests[i].start + 1 < requests[i].end
        BY <2>1, <3>2 DEF Laid
      <4>. QED
        BY <1>1, <1>2, <2>1, <2>2, <4>1
    <3>. QED
      BY <1>1, <1>2, <2>3, <3>1, <3>2
  <2>4. ASSUME i > n PROVE requests[i].start >= consumed
    <3>1. requests[n].end <= requests[i].start
      BY <1>1, <1>2, <2>1, <2>4 DEF Laid
    <3>. QED
      BY <1>1, <1>2, <2>1, <2>2, <3>1
  <2>. QED
    BY <1>1, <1>2, <2>3, <2>4
<1>. QED
  BY <1>3, <1>4

\* The request at the beginning of the buffer is the next one.
LEMMA NextAtBuffer ==
  ASSUME TypeOK, Laid, Progress, NEW i \in Ids, requests[i].start = consumed
  PROVE  i = Len(served) + 1
<1>. DEFINE n == Len(served)
<1>1. /\ Len(requests) \in Nat
      /\ Ids = 1 .. Len(requests)
      /\ \A j \in Ids : requests[j].start \in Nat /\ requests[j].end \in Nat
  BY RequestTypes
<1>2. n \in Nat /\ consumed \in Nat
  BY ServedCount DEF TypeOK
<1>3. i > n
  BY <1>1, <1>2, BehindServed
<1>4. ASSUME i > n + 1 PROVE FALSE
  <2>1. n + 1 \in Ids
    BY <1>1, <1>2, <1>4
  <2>2. requests[n + 1].start >= consumed
    BY <1>2, <2>1, BehindServed
  <2>3. requests[n + 1].start + 1 < requests[n + 1].end
        /\ requests[n + 1].end <= requests[i].start
    BY <1>4, <2>1 DEF Laid
  <2>. QED
    BY <1>1, <1>2, <2>1, <2>2, <2>3
<1>. QED
  BY <1>1, <1>2, <1>3, <1>4

-----------------------------------------------------------------------------
(* What a new request looks like *)

\* A new request lies at the end of the stream and moves no other.
LEMMA NewRequest ==
  ASSUME TypeOK, Laid, NEW k \in Kinds, NEW n \in Sizes, BeginRequest(k, n)
  PROVE  /\ requests' \in Seq(Extent)
         /\ Len(requests') = Len(requests) + 1
         /\ Ids' = 1 .. (Len(requests) + 1)
         /\ \A i \in Ids : requests'[i] = requests[i]
         /\ requests'[Len(requests) + 1] = [kind |-> k, start |-> StreamEnd,
                                           end |-> StreamEnd + n]
         /\ StreamEnd' = StreamEnd + n
         /\ n \in Nat /\ n > 1
<1>. DEFINE new == [kind |-> k, start |-> StreamEnd, end |-> StreamEnd + n]
<1>1. n \in Nat /\ n > 1
  BY StreamAssumption
<1>2. new \in Extent
  BY <1>1, EndOfStream DEF Extent
<1>3. requests \in Seq(Extent) /\ requests' = Append(requests, new)
  BY DEF TypeOK, BeginRequest
<1>4. /\ requests' \in Seq(Extent)
      /\ Len(requests') = Len(requests) + 1
      /\ \A i \in 1 .. Len(requests) : requests'[i] = requests[i]
      /\ requests'[Len(requests) + 1] = new
  BY <1>2, <1>3, AppendProperties
<1>5. Ids = 1 .. Len(requests) /\ Ids' = 1 .. Len(requests')
  BY <1>3, <1>4, LenProperties DEF Ids
<1>6. requests' # <<>>
  BY <1>4, LenProperties, EmptySeq, RequestTypes
<1>7. StreamEnd' = new.end
  BY <1>4, <1>6 DEF StreamEnd
<1>. QED
  BY <1>1, <1>4, <1>5, <1>7

-----------------------------------------------------------------------------
(* The steps *)

\* Every step is one of the peer, of the serving task, or a stutter.
LEMMA StepKinds ==
  ASSUME [Next]_vars
  PROVE  \/ \E k \in Kinds, n \in Sizes : BeginRequest(k, n)
         \/ PeerWrites \/ PeerReads \/ PeerCloses
         \/ ReadChunk \/ ReadEof \/ ParsedAll \/ Misaligned \/ WriteReply
         \/ SocketFails
         \/ \E i \in Ids : Process(i)
         \/ \E i \in Ids : Refuse(i)
         \/ \E i \in Ids : Incomplete(i) \/ NotThrift(i) \/ HandlerPanics(i)
         \/ UNCHANGED vars
BY DEF Next, Peer, Serving, Failing, Ended

\* A step that processes a request, by its handler or by refusing it.
LEMMA ServeFacts ==
  ASSUME TypeOK, StreamInv, NEW i \in Ids, Process(i) \/ Refuse(i)
  PROVE  /\ i = Len(served) + 1
         /\ served' \in Seq(Nat)
         /\ Len(served') = Len(served) + 1
         /\ \A n \in DOMAIN served : served'[n] = served[n]
         /\ served'[Len(served) + 1] = i
         /\ DOMAIN served' = 1 .. (Len(served) + 1)
         /\ consumed' \in Nat
         /\ consumed < consumed' /\ consumed' <= received
         /\ requests[i].start < consumed' /\ consumed' <= requests[i].end
         /\ requests[i].kind # "foreign" => consumed' = requests[i].end
         /\ task = "parse" /\ task' = "write"
         /\ UNCHANGED <<peerVars, received, outcome, answered, unread>>
<1>1. AtRequest(i) /\ served' = Append(served, i)
      /\ UNCHANGED <<peerVars, received, outcome, answered, unread>>
      /\ task' = "write"
  BY DEF Process, Refuse, Processing, Go
<1>2. i = Len(served) + 1
  BY <1>1, NextAtBuffer DEF AtRequest, StreamInv
<1>3. i \in Nat /\ requests[i].start \in Nat /\ requests[i].end \in Nat
      /\ requests[i].start + 1 < requests[i].end
  BY RequestTypes DEF StreamInv, Laid
<1>4. /\ served' \in Seq(Nat)
      /\ Len(served') = Len(served) + 1
      /\ \A n \in 1 .. Len(served) : served'[n] = served[n]
      /\ served'[Len(served) + 1] = i
  BY <1>1, <1>3, AppendProperties DEF TypeOK
<1>5. DOMAIN served' = 1 .. (Len(served) + 1) /\ DOMAIN served = 1 .. Len(served)
  BY <1>4, LenProperties, ServedCount
<1>6. task = "parse" /\ requests[i].start = consumed /\ consumed < received
      /\ consumed \in Nat /\ received \in Nat
  BY <1>1 DEF AtRequest, Parsing, Buffered, TypeOK
<1>7. CASE Process(i)
  BY <1>1, <1>2, <1>3, <1>4, <1>5, <1>6, <1>7 DEF Process, Whole
<1>8. CASE Refuse(i)
  BY <1>1, <1>2, <1>3, <1>4, <1>5, <1>6, <1>8 DEF Refuse
<1>. QED
  BY <1>7, <1>8

\* A reply that is written is the reply to the last request served.
LEMMA AnswerFacts ==
  ASSUME TypeOK, StreamInv, WriteReply
  PROVE  /\ answered' \in Seq(Nat)
         /\ Len(answered') = Len(answered) + 1
         /\ \A n \in DOMAIN answered : answered'[n] = answered[n]
         /\ answered'[Len(answered) + 1] = Len(answered) + 1
         /\ DOMAIN answered' = 1 .. (Len(answered) + 1)
         /\ Len(answered') = Len(served)
         /\ answered' = Append(answered, Len(answered) + 1)
<1>1. Len(served) \in Nat /\ Len(answered) \in Nat /\ Len(answered) + 1 = Len(served)
      /\ DOMAIN served = 1 .. Len(served) /\ DOMAIN answered = 1 .. Len(answered)
  BY ServedCount DEF WriteReply, StreamInv, Replies
<1>2. served[Len(served)] = Len(answered) + 1
  BY <1>1 DEF StreamInv, Progress
<1>3. answered' = Append(answered, Len(answered) + 1) /\ answered \in Seq(Nat)
  BY <1>2 DEF WriteReply, TypeOK
<1>4. /\ answered' \in Seq(Nat)
      /\ Len(answered') = Len(answered) + 1
      /\ \A n \in 1 .. Len(answered) : answered'[n] = answered[n]
      /\ answered'[Len(answered) + 1] = Len(answered) + 1
  BY <1>1, <1>3, AppendProperties
<1>5. DOMAIN answered' = 1 .. (Len(answered) + 1)
  BY <1>4, LenProperties
<1>. QED
  BY <1>1, <1>3, <1>4, <1>5

\* The steps that only move the task.
LEMMA TaskSteps ==
  ASSUME ParsedAll \/ Misaligned \/ SocketFails \/ ReadEof
         \/ \E i \in Ids : Incomplete(i) \/ NotThrift(i) \/ HandlerPanics(i)
  PROVE  /\ UNCHANGED <<peerVars, bufferVars, replyVars>>
         /\ \/ task = "parse" /\ task' = "read" /\ outcome' = outcome
            \/ task # "ended" /\ task' = "ended"
               /\ outcome' \in Outcomes \ {"none", "oversize"}
               /\ (outcome' = "clean" => ReadEof)
BY DEF ParsedAll, Misaligned, SocketFails, ReadEof, Incomplete, NotThrift,
   HandlerPanics, Go, Finish, AtRequest, Parsing, Outcomes

-----------------------------------------------------------------------------
(* Type correctness *)

\* Every step preserves the types.
LEMMA TypeStep ==
  ASSUME TypeOK, StreamInv, [Next]_vars
  PROVE  TypeOK'
<1>. USE DEF TypeOK
<1>1. ASSUME NEW k \in Kinds, NEW n \in Sizes, BeginRequest(k, n) PROVE TypeOK'
  BY <1>1, NewRequest DEF BeginRequest, StreamInv, bufferVars, replyVars
<1>2. CASE PeerWrites \/ PeerReads \/ PeerCloses
  BY <1>2, StreamAssumption DEF PeerWrites, PeerReads, PeerCloses, peerVars,
     bufferVars, replyVars
<1>3. CASE ReadChunk
  BY <1>3, StreamAssumption DEF ReadChunk, Finish, Go, TaskStates, Outcomes,
     peerVars, replyVars
<1>4. CASE ParsedAll \/ Misaligned \/ SocketFails \/ ReadEof
           \/ \E i \in Ids : Incomplete(i) \/ NotThrift(i) \/ HandlerPanics(i)
  BY <1>4, TaskSteps DEF TaskStates, peerVars, bufferVars, replyVars
<1>5. CASE WriteReply
  <2>1. answered' \in Seq(Nat)
    BY <1>5, AnswerFacts
  <2>2. unread' \in 0 .. Window
    BY <1>5, StreamAssumption DEF WriteReply
  <2>. QED
    BY <1>5, <2>1, <2>2 DEF WriteReply, Go, TaskStates, peerVars, bufferVars
<1>6. ASSUME NEW i \in Ids, Process(i) \/ Refuse(i) PROVE TypeOK'
  BY <1>6, ServeFacts DEF TaskStates, peerVars
<1>7. CASE UNCHANGED vars
  BY <1>7 DEF vars, peerVars, bufferVars, replyVars
<1>. QED
  BY <1>1, <1>2, <1>3, <1>4, <1>5, <1>6, <1>7, StepKinds

-----------------------------------------------------------------------------
(* The inductive invariant *)

\* A connection that was just accepted satisfies the invariant.
LEMMA InitStream == Init => TypeOK /\ StreamInv
<1>. SUFFICES ASSUME Init PROVE TypeOK /\ StreamInv
  OBVIOUS
<1>1. TypeOK
  BY StreamAssumption, EmptySeq DEF Init, TypeOK, TaskStates, Outcomes
<1>2. Len(<<>>) = 0 /\ DOMAIN <<>> = {}
  BY EmptySeq
<1>3. Laid /\ Progress /\ Replies /\ Settled
  BY <1>2 DEF Init, Laid, Progress, Replies, Settled, Ids
<1>4. Positions /\ Bounded
  BY StreamAssumption DEF Init, Positions, Bounded, StreamEnd, Buffered
<1>. QED
  BY <1>1, <1>3, <1>4 DEF StreamInv

\* The requests stay laid end to end: only the peer adds one, behind the last.
LEMMA LaidStep ==
  ASSUME TypeOK, StreamInv, [Next]_vars
  PROVE  Laid'
<1>1. CASE \E k \in Kinds, n \in Sizes : BeginRequest(k, n)
  <2>1. PICK k \in Kinds, n \in Sizes : BeginRequest(k, n)
    BY <1>1
  <2>. DEFINE m == Len(requests)
  <2>2. /\ Ids' = 1 .. (m + 1)
        /\ \A i \in Ids : requests'[i] = requests[i]
        /\ requests'[m + 1].start = StreamEnd
        /\ requests'[m + 1].end = StreamEnd + n
        /\ n \in Nat /\ n > 1
    <3>1. Laid
      BY DEF StreamInv
    <3>2. /\ Ids' = 1 .. (m + 1)
          /\ \A i \in Ids : requests'[i] = requests[i]
          /\ requests'[m + 1] = [kind |-> k, start |-> StreamEnd,
                                 end |-> StreamEnd + n]
          /\ n \in Nat /\ n > 1
      BY <2>1, <3>1, NewRequest
    <3>. QED
      BY <3>2
  <2>3. /\ m \in Nat
        /\ Ids = 1 .. m
        /\ \A i \in Ids : requests[i].start \in Nat /\ requests[i].end \in Nat
    BY RequestTypes
  <2>4. /\ StreamEnd \in Nat
        /\ m = 0 => StreamEnd = 0
        /\ m # 0 => m \in Ids /\ StreamEnd = requests[m].end
        /\ \A i \in Ids : requests[i].end <= StreamEnd
    BY EndOfStream DEF StreamInv
  <2>5. Laid
    BY DEF StreamInv
  <2>6. \A i \in Ids' : requests'[i].start + 1 < requests'[i].end
    BY <2>2, <2>3, <2>4, <2>5 DEF Laid
  <2>7. ASSUME NEW i \in Ids', NEW j \in Ids', i < j
        PROVE  requests'[i].end <= requests'[j].start
    <3>1. i \in Ids /\ requests'[i] = requests[i]
      BY <2>2, <2>3, <2>7
    <3>2. CASE j \in Ids
      BY <2>2, <2>5, <2>7, <3>1, <3>2 DEF Laid
    <3>3. CASE j = m + 1
      BY <2>2, <2>4, <3>1, <3>3
    <3>. QED
      BY <2>2, <2>3, <3>2, <3>3
  <2>8. ASSUME NEW i \in Ids'
        PROVE  requests'[i].start = IF i = 1 THEN 0 ELSE requests'[i - 1].end
    <3>1. CASE i = m + 1
      BY <2>2, <2>3, <2>4, <3>1
    <3>2. CASE i \in Ids
      <4>1. i # 1 => i - 1 \in Ids
        BY <2>3, <3>2
      <4>. QED
        BY <2>2, <2>5, <3>2, <4>1 DEF Laid
    <3>. QED
      BY <2>2, <2>3, <3>1, <3>2
  <2>. QED
    BY <2>6, <2>7, <2>8 DEF Laid
<1>2. CASE requests' = requests
  BY <1>2 DEF StreamInv, Laid, Ids
<1>3. \/ \E k \in Kinds, n \in Sizes : BeginRequest(k, n)
      \/ requests' = requests
  BY StepKinds DEF PeerWrites, PeerReads, PeerCloses, ReadChunk, ReadEof,
     ParsedAll, Misaligned, WriteReply, SocketFails, Process, Refuse,
     Incomplete, NotThrift, HandlerPanics, Processing, vars, peerVars
<1>. QED
  BY <1>1, <1>2, <1>3

\* What is consumed was received, and what is received was written.
LEMMA PositionsStep ==
  ASSUME TypeOK, StreamInv, [Next]_vars
  PROVE  Positions'
<1>0. consumed \in Nat /\ received \in Nat /\ written \in Nat
      /\ consumed <= received /\ received <= written /\ written <= StreamEnd
      /\ StreamEnd \in Nat
  BY EndOfStream DEF TypeOK, StreamInv, Positions
<1>1. ASSUME NEW k \in Kinds, NEW n \in Sizes, BeginRequest(k, n)
      PROVE  Positions'
  <2>1. StreamEnd' = StreamEnd + n /\ n \in Nat
    BY <1>1, NewRequest DEF StreamInv
  <2>. QED
    BY <1>0, <1>1, <2>1 DEF BeginRequest, Positions, bufferVars
<1>2. ASSUME NEW i \in Ids, Process(i) \/ Refuse(i) PROVE Positions'
  <2>1. consumed' \in Nat /\ consumed' <= received
        /\ UNCHANGED <<requests, written, received>>
    BY <1>2, ServeFacts DEF peerVars
  <2>. QED
    BY <1>0, <2>1 DEF Positions, StreamEnd
<1>3. CASE PeerWrites
  BY <1>0, <1>3 DEF PeerWrites, Positions, StreamEnd, bufferVars
<1>4. CASE ReadChunk
  <2>1. PICK n \in 1 .. Chunk : received + n <= written /\ received' = received + n
    BY <1>4 DEF ReadChunk
  <2>2. n \in Nat
    BY StreamAssumption
  <2>3. UNCHANGED <<requests, written, consumed>>
    BY <1>4 DEF ReadChunk, peerVars
  <2>. QED
    BY <1>0, <2>1, <2>2, <2>3 DEF Positions, StreamEnd
<1>5. CASE UNCHANGED <<requests, written, received, consumed>>
  BY <1>0, <1>5 DEF Positions, StreamEnd
<1>6. CASE PeerReads \/ PeerCloses \/ WriteReply \/ UNCHANGED vars
  BY <1>5, <1>6 DEF PeerReads, PeerCloses, WriteReply, vars, peerVars, bufferVars
<1>7. CASE ReadEof \/ ParsedAll \/ Misaligned \/ SocketFails
           \/ \E i \in Ids : Incomplete(i) \/ NotThrift(i) \/ HandlerPanics(i)
  BY <1>5, <1>7, TaskSteps DEF peerVars, bufferVars
<1>. QED
  BY <1>1, <1>2, <1>3, <1>4, <1>6, <1>7, StepKinds

\* What is consumed stays what the served requests span (threaded.rs:304).
LEMMA ProgressStep ==
  ASSUME TypeOK, StreamInv, [Next]_vars
  PROVE  Progress'
<1>a. Progress
  BY DEF StreamInv
<1>b. /\ Len(served) \in Nat /\ Len(requests) \in Nat
      /\ DOMAIN served = 1 .. Len(served) /\ Ids = 1 .. Len(requests)
  BY ServedCount, RequestTypes
<1>c. Len(served) <= Len(requests)
  BY <1>a DEF Progress
<1>d. \A n \in DOMAIN served : served[n] = n
  BY <1>a DEF Progress
<1>e. \A n \in Ids : n = Len(served) =>
        /\ requests[n].start < consumed /\ consumed <= requests[n].end
        /\ requests[n].kind # "foreign" => consumed = requests[n].end
  BY <1>a DEF Progress
<1>1. ASSUME NEW k \in Kinds, NEW n \in Sizes, BeginRequest(k, n)
      PROVE  Progress'
  <2>1. Len(requests') = Len(requests) + 1 /\ Ids' = 1 .. (Len(requests) + 1)
    BY <1>1, NewRequest DEF StreamInv
  <2>2. \A i \in Ids : requests'[i] = requests[i]
    BY <1>1, NewRequest DEF StreamInv
  <2>3. UNCHANGED <<served, consumed>>
    BY <1>1 DEF BeginRequest, bufferVars, replyVars
  <2>4. Len(served) <= Len(requests')
    BY <1>b, <1>c, <2>1
  <2>5. ASSUME NEW m \in Ids', m = Len(served) PROVE m \in Ids
    BY <1>b, <1>c, <2>1, <2>5
  <2>6. \A m \in Ids' : m = Len(served) =>
          /\ requests'[m].start < consumed /\ consumed <= requests'[m].end
          /\ requests'[m].kind # "foreign" => consumed = requests'[m].end
    BY <1>e, <2>2, <2>5
  <2>. QED
    BY <1>a, <1>d, <2>3, <2>4, <2>6 DEF Progress
<1>2. ASSUME NEW i \in Ids, Process(i) \/ Refuse(i) PROVE Progress'
  <2>1. i = Len(served) + 1 /\ Len(served') = Len(served) + 1
        /\ DOMAIN served' = 1 .. (Len(served) + 1) /\ served' \in Seq(Nat)
    BY <1>2, ServeFacts
  <2>2. (\A n \in DOMAIN served : served'[n] = served[n])
        /\ served'[Len(served) + 1] = i
    BY <1>2, ServeFacts
  <2>3. /\ requests[i].start < consumed' /\ consumed' <= requests[i].end
        /\ requests[i].kind # "foreign" => consumed' = requests[i].end
    BY <1>2, ServeFacts
  <2>4. requests' = requests /\ Ids' = Ids
    BY <1>2, ServeFacts DEF peerVars, Ids
  <2>5. served' # <<>>
    BY <1>b, <2>1, EmptySeq
  <2>6. ASSUME NEW n \in DOMAIN served' PROVE served'[n] = n
    <3>1. n \in DOMAIN served \/ n = Len(served) + 1
      BY <1>b, <2>1
    <3>. QED
      BY <1>d, <2>1, <2>2, <3>1
  <2>7. Len(served') <= Len(requests')
    BY <1>b, <2>1, <2>4
  <2>8. \A n \in Ids' : n = Len(served') =>
          /\ requests'[n].start < consumed' /\ consumed' <= requests'[n].end
          /\ requests'[n].kind # "foreign" => consumed' = requests'[n].end
    BY <2>1, <2>3, <2>4
  <2>. QED
    BY <2>5, <2>6, <2>7, <2>8 DEF Progress
<1>3. CASE UNCHANGED <<requests, consumed, served>>
  BY <1>a, <1>3 DEF Progress, Ids
<1>4. CASE PeerWrites \/ PeerReads \/ PeerCloses \/ ReadChunk \/ WriteReply
           \/ UNCHANGED vars
  BY <1>3, <1>4 DEF PeerWrites, PeerReads, PeerCloses, ReadChunk, WriteReply,
     vars, peerVars, bufferVars, replyVars
<1>5. CASE ReadEof \/ ParsedAll \/ Misaligned \/ SocketFails
           \/ \E i \in Ids : Incomplete(i) \/ NotThrift(i) \/ HandlerPanics(i)
  BY <1>3, <1>5, TaskSteps DEF peerVars, bufferVars, replyVars
<1>. QED
  BY <1>1, <1>2, <1>4, <1>5, StepKinds

\* Replies stay one behind the requests served, at most, and in their order.
LEMMA RepliesStep ==
  ASSUME TypeOK, StreamInv, [Next]_vars
  PROVE  Replies'
<1>a. Replies /\ task \in TaskStates
  BY DEF StreamInv, TypeOK
<1>b. Len(served) \in Nat /\ Len(answered) \in Nat
      /\ DOMAIN answered = 1 .. Len(answered)
  BY ServedCount
<1>c. \A n \in DOMAIN answered : answered[n] = n
  BY <1>a DEF Replies
<1>d. /\ task \in {"read", "parse"} => Len(answered) = Len(served)
      /\ task = "write" => Len(answered) + 1 = Len(served)
      /\ task = "ended" => Len(answered) <= Len(served)
      /\ outcome = "none" <=> task # "ended"
  BY <1>a DEF Replies
<1>1. ASSUME NEW i \in Ids, Process(i) \/ Refuse(i) PROVE Replies'
  <2>1. Len(served') = Len(served) + 1 /\ task = "parse" /\ task' = "write"
        /\ UNCHANGED <<outcome, answered>>
    BY <1>1, ServeFacts
  <2>2. Len(answered') + 1 = Len(served')
    BY <1>d, <2>1
  <2>. QED
    BY <1>c, <1>d, <2>1, <2>2 DEF Replies
<1>2. CASE WriteReply
  <2>1. /\ Len(answered') = Len(served)
        /\ \A n \in DOMAIN answered : answered'[n] = answered[n]
        /\ answered'[Len(answered) + 1] = Len(answered) + 1
        /\ DOMAIN answered' = 1 .. (Len(answered) + 1)
    BY <1>2, AnswerFacts
  <2>2. task = "write" /\ task' = "parse" /\ UNCHANGED <<served, outcome>>
    BY <1>2 DEF WriteReply, Go
  <2>3. ASSUME NEW n \in DOMAIN answered' PROVE answered'[n] = n
    <3>1. n \in DOMAIN answered \/ n = Len(answered) + 1
      BY <1>b, <2>1
    <3>. QED
      BY <1>c, <2>1, <3>1
  <2>4. Len(answered') = Len(served')
    BY <2>1, <2>2
  <2>. QED
    BY <1>d, <2>2, <2>3, <2>4 DEF Replies
<1>3. CASE ReadChunk
  <2>1. /\ UNCHANGED <<served, answered>>
        /\ task = "read"
        /\ \/ task' = "parse" /\ outcome' = outcome
           \/ task' = "ended" /\ outcome' = "oversize"
    BY <1>3 DEF ReadChunk, Finish, Go, replyVars
  <2>2. Len(answered') <= Len(served') /\ Len(answered') = Len(served')
    BY <1>b, <1>d, <2>1
  <2>. QED
    BY <1>c, <1>d, <2>1, <2>2 DEF Replies
<1>4. CASE ReadEof \/ ParsedAll \/ Misaligned \/ SocketFails
           \/ \E i \in Ids : Incomplete(i) \/ NotThrift(i) \/ HandlerPanics(i)
  <2>1. /\ UNCHANGED <<served, answered>>
        /\ \/ task = "parse" /\ task' = "read" /\ outcome' = outcome
           \/ task # "ended" /\ task' = "ended" /\ outcome' # "none"
    BY <1>4, TaskSteps DEF replyVars
  <2>2. Len(answered') <= Len(served')
    BY <1>a, <1>b, <1>d, <2>1 DEF TaskStates
  <2>. QED
    BY <1>c, <1>d, <2>1, <2>2 DEF Replies
<1>5. CASE UNCHANGED <<task, outcome, served, answered>>
  BY <1>a, <1>5 DEF Replies
<1>6. CASE PeerWrites \/ PeerReads \/ PeerCloses \/ UNCHANGED vars
           \/ \E k \in Kinds, n \in Sizes : BeginRequest(k, n)
  BY <1>5, <1>6 DEF PeerWrites, PeerReads, PeerCloses, BeginRequest, vars,
     replyVars
<1>. QED
  BY <1>1, <1>2, <1>3, <1>4, <1>6, StepKinds

\* Draining a longer prefix leaves a shorter buffer.
LEMMA ShorterBuffer ==
  ASSUME NEW r \in Nat, NEW a \in Nat, NEW b \in Nat, NEW m \in Nat, NEW k \in Nat,
         a < b, r - a <= m
  PROVE  r - b <= m /\ r - b <= m + k
OBVIOUS

\* No read, and no request taken, leaves more than MaxRequest bytes in a task
\* that goes on (threaded.rs:268-274).
LEMMA BoundedStep ==
  ASSUME TypeOK, StreamInv, [Next]_vars
  PROVE  Bounded'
<1>a. /\ received \in Nat /\ consumed \in Nat
      /\ MaxRequest \in Nat /\ Chunk \in Nat
  BY StreamAssumption DEF TypeOK
<1>b. /\ task # "ended" => received - consumed <= MaxRequest
      /\ received - consumed <= MaxRequest + Chunk
  BY DEF StreamInv, Bounded, Buffered
<1>1. CASE ReadChunk
  <2>1. PICK n \in 1 .. Chunk : received' = received + n
    BY <1>1 DEF ReadChunk
  <2>2. n \in Nat /\ n <= Chunk
    BY <1>a, <2>1
  <2>3. task # "ended" /\ consumed' = consumed
        /\ (task' # "ended" => ~(received' - consumed > MaxRequest))
    BY <1>1 DEF ReadChunk, Go, Finish
  <2>4. received' - consumed' <= MaxRequest + Chunk
    BY <1>a, <1>b, <2>1, <2>2, <2>3
  <2>5. task' # "ended" => received' - consumed' <= MaxRequest
    BY <1>a, <2>1, <2>2, <2>3
  <2>. QED
    BY <2>4, <2>5 DEF Bounded, Buffered
<1>2. ASSUME NEW i \in Ids, Process(i) \/ Refuse(i) PROVE Bounded'
  <2>1. consumed' \in Nat /\ consumed < consumed'
    BY <1>2, ServeFacts
  <2>2. received' = received /\ task # "ended"
    BY <1>2, ServeFacts
  <2>3. received - consumed <= MaxRequest
    BY <1>b, <2>2
  <2>4. PICK b \in Nat : b = consumed'
    BY <2>1
  <2>5. received - b <= MaxRequest /\ received - b <= MaxRequest + Chunk
    BY <1>a, <2>1, <2>3, <2>4, ShorterBuffer
  <2>6. received' - consumed' <= MaxRequest
        /\ received' - consumed' <= MaxRequest + Chunk
    BY <2>2, <2>4, <2>5
  <2>. QED
    BY <2>6 DEF Bounded, Buffered
<1>3. CASE received' = received /\ consumed' = consumed
           /\ (task = "ended" => task' = "ended")
  BY <1>b, <1>3 DEF Bounded, Buffered
<1>4. CASE PeerWrites \/ PeerReads \/ PeerCloses \/ WriteReply \/ UNCHANGED vars
           \/ \E k \in Kinds, n \in Sizes : BeginRequest(k, n)
  BY <1>3, <1>4 DEF PeerWrites, PeerReads, PeerCloses, WriteReply, BeginRequest,
     vars, bufferVars
<1>5. CASE ReadEof \/ ParsedAll \/ Misaligned \/ SocketFails
           \/ \E i \in Ids : Incomplete(i) \/ NotThrift(i) \/ HandlerPanics(i)
  BY <1>3, <1>5, TaskSteps DEF bufferVars
<1>. QED
  BY <1>1, <1>2, <1>4, <1>5, StepKinds

\* At a clean end of file every request in the stream was served.
LEMMA CleanEnd ==
  ASSUME TypeOK, StreamInv, task = "read", received = written, Buffered = 0
  PROVE  \A i \in Ids : written >= requests[i].end => i <= Len(answered)
<1>1. ASSUME NEW i \in Ids, written >= requests[i].end, i > Len(served)
      PROVE  FALSE
  <2>1. requests[i].start >= consumed /\ requests[i].start + 1 < requests[i].end
    BY <1>1, BehindServed DEF StreamInv, Laid
  <2>2. requests[i].start \in Nat /\ requests[i].end \in Nat
        /\ consumed \in Nat /\ received \in Nat
    BY RequestTypes DEF TypeOK
  <2>. QED
    BY <1>1, <2>1, <2>2 DEF Buffered
<1>2. Len(answered) = Len(served) /\ Len(served) \in Nat
  BY ServedCount DEF StreamInv, Replies
<1>3. \A i \in Ids : i \in Nat
  BY RequestTypes
<1>. QED
  BY <1>1, <1>2, <1>3

\* A connection that ended keeps its outcome, and a clean end leaves no
\* request unanswered (threaded.rs:250-259).
LEMMA SettledStep ==
  ASSUME TypeOK, StreamInv, [Next]_vars
  PROVE  Settled'
<1>a. outcome = "clean" => peer = "closed" /\ CleanMeansAnswered /\ task = "ended"
  BY DEF StreamInv, Settled, Replies
<1>1. CASE ReadEof
  <2>1. outcome' = "clean" => /\ task = "read" /\ received = written /\ Buffered = 0
    BY <1>1 DEF ReadEof, Finish
  <2>2. peer' = "closed" /\ UNCHANGED <<requests, written, answered>>
    BY <1>1 DEF ReadEof, peerVars, replyVars
  <2>3. outcome' = "clean" =>
          \A i \in Ids : written >= requests[i].end => i <= Len(answered)
    BY <2>1, CleanEnd
  <2>. QED
    BY <2>2, <2>3 DEF Settled, CleanMeansAnswered, Ids
<1>2. CASE outcome' # "clean"
  BY <1>2 DEF Settled
<1>3. CASE UNCHANGED <<outcome, peer, requests, written, answered>>
  BY <1>a, <1>3 DEF Settled, CleanMeansAnswered, Ids
<1>4. CASE (ParsedAll \/ Misaligned \/ SocketFails
            \/ \E i \in Ids : Incomplete(i) \/ NotThrift(i) \/ HandlerPanics(i))
           /\ ~ReadEof
  <2>1. UNCHANGED <<peer, requests, written, answered>>
        /\ (outcome' = outcome \/ outcome' # "clean")
    BY <1>4, TaskSteps DEF peerVars, replyVars
  <2>. QED
    BY <1>2, <1>3, <2>1
<1>5. CASE ReadChunk
  <2>1. UNCHANGED <<peer, requests, written, answered>>
        /\ (outcome' = outcome \/ outcome' = "oversize")
    BY <1>5 DEF ReadChunk, Go, Finish, peerVars, replyVars
  <2>. QED
    BY <1>2, <1>3, <2>1
<1>6. ASSUME NEW i \in Ids, Process(i) \/ Refuse(i) PROVE Settled'
  BY <1>3, <1>6, ServeFacts DEF peerVars
<1>7. CASE WriteReply
  <2>1. task # "ended" /\ outcome' = outcome
    BY <1>7 DEF WriteReply, Go
  <2>. QED
    BY <1>a, <1>2, <2>1
<1>8. CASE PeerWrites \/ PeerCloses \/ \E k \in Kinds, n \in Sizes : BeginRequest(k, n)
  <2>1. peer = "open" /\ outcome' = outcome
    BY <1>8 DEF PeerWrites, PeerCloses, BeginRequest
  <2>. QED
    BY <1>a, <1>2, <2>1
<1>9. CASE PeerReads \/ UNCHANGED vars
  BY <1>3, <1>9 DEF PeerReads, vars, peerVars, replyVars
<1>. QED
  BY <1>1, <1>4, <1>5, <1>6, <1>7, <1>8, <1>9, StepKinds

-----------------------------------------------------------------------------
(* Theorems that hold of every stream *)

(* Types and the inductive invariant hold in every state.                  *)
THEOREM StreamInvariant == Spec => [](TypeOK /\ StreamInv)
<1>1. Init => TypeOK /\ StreamInv
  BY InitStream
<1>2. TypeOK /\ StreamInv /\ [Next]_vars => (TypeOK /\ StreamInv)'
  <2>. SUFFICES ASSUME TypeOK, StreamInv, [Next]_vars
                PROVE  TypeOK' /\ StreamInv'
    OBVIOUS
  <2>. QED
    BY TypeStep, LaidStep, PositionsStep, ProgressStep, RepliesStep, BoundedStep,
       SettledStep DEF StreamInv
<1>. QED
  BY <1>1, <1>2, PTL DEF Spec

(* Types, on their own.                                                    *)
THEOREM StreamTypes == Spec => []TypeOK
BY StreamInvariant, PTL

(* The request buffer is bounded, whatever the peer sends.                 *)
THEOREM MemoryBounded == Spec => []BufferBounded
<1>1. TypeOK /\ StreamInv => BufferBounded
  BY DEF StreamInv, Bounded, BufferBounded
<1>. QED
  BY <1>1, StreamInvariant, PTL

(* A clean disconnect owes the peer nothing.                               *)
THEOREM CleanDisconnect == Spec => []CleanMeansAnswered
<1>1. TypeOK /\ StreamInv => CleanMeansAnswered
  BY DEF StreamInv, Settled, CleanMeansAnswered
<1>. QED
  BY <1>1, StreamInvariant, PTL

-----------------------------------------------------------------------------
(* Refinement *)

\* A new connection maps to an empty pipeline.
LEMMA InitPipeline == Init => Pipeline!PipelineInit
BY EmptySeq DEF Init, Pipeline!PipelineInit

\* Every step of the connection is a step of the pipeline, or none.
LEMMA StepPipeline ==
  ASSUME TypeOK, StreamInv, [Next]_vars
  PROVE  [Pipeline!Ask \/ Pipeline!Serve \/ Pipeline!Answer]_Pipeline!pipelineVars
<1>. USE DEF Pipeline!pipelineVars
<1>1. ASSUME NEW k \in Kinds, NEW n \in Sizes, BeginRequest(k, n)
      PROVE  Pipeline!Ask
  BY <1>1, NewRequest DEF StreamInv, BeginRequest, replyVars, Pipeline!Ask
<1>2. ASSUME NEW i \in Ids, Process(i) \/ Refuse(i) PROVE Pipeline!Serve
  <2>1. i = Len(served) + 1 /\ UNCHANGED <<requests, answered>>
    BY <1>2, ServeFacts DEF peerVars
  <2>2. served' = Append(served, Len(served) + 1)
    BY <1>2, <2>1 DEF Process, Refuse
  <2>3. Len(served) < Len(requests)
    BY <2>1, RequestTypes, ServedCount
  <2>. QED
    BY <2>1, <2>2, <2>3 DEF Pipeline!Serve
<1>3. CASE WriteReply
  <2>1. answered' = Append(answered, Len(answered) + 1)
        /\ Len(answered) + 1 = Len(served)
    BY <1>3, AnswerFacts DEF WriteReply, StreamInv, Replies
  <2>2. Len(answered) < Len(served)
    BY <2>1, ServedCount
  <2>3. UNCHANGED <<requests, served>>
    BY <1>3 DEF WriteReply, peerVars
  <2>. QED
    BY <2>1, <2>2, <2>3 DEF Pipeline!Answer
<1>4. CASE UNCHANGED <<requests, served, answered>>
  BY <1>4
<1>5. CASE ReadEof \/ ParsedAll \/ Misaligned \/ SocketFails
           \/ \E i \in Ids : Incomplete(i) \/ NotThrift(i) \/ HandlerPanics(i)
  BY <1>4, <1>5, TaskSteps DEF peerVars, replyVars
<1>6. CASE PeerWrites \/ PeerReads \/ PeerCloses \/ ReadChunk \/ UNCHANGED vars
  BY <1>4, <1>6 DEF PeerWrites, PeerReads, PeerCloses, ReadChunk, vars, peerVars,
     replyVars
<1>. QED
  BY <1>1, <1>2, <1>3, <1>5, <1>6, StepKinds

(* However the stream is cut, requests are served in order, each at most   *)
(* once and none passed over, and answered in that order, each at most     *)
(* once.                                                                   *)
THEOREM PipelineRefinement == Spec => ImplementsPipeline
<1>1. Init => Pipeline!PipelineInit
  BY InitPipeline
<1>2. TypeOK /\ StreamInv /\ [Next]_vars =>
        [Pipeline!Ask \/ Pipeline!Serve \/ Pipeline!Answer]_Pipeline!pipelineVars
  BY StepPipeline
<1>. QED
  BY <1>1, <1>2, StreamInvariant, PTL
     DEF Spec, ImplementsPipeline, Pipeline!PipelineSpec

-----------------------------------------------------------------------------
(* Streams on which nothing was met that the parser cannot step over *)

\* If the buffer is not empty, the next request begins where the buffer does.
LEMMA NextIsThere ==
  ASSUME TypeOK, StreamInv, Intact, consumed < StreamEnd
  PROVE  /\ Len(served) + 1 \in Ids
         /\ requests[Len(served) + 1].start = consumed
<1>. DEFINE n == Len(served)
<1>a. n \in Nat /\ (served = <<>> <=> n = 0)
  BY ServedCount
<1>b. /\ Len(requests) \in Nat /\ Ids = 1 .. Len(requests)
      /\ \A i \in Ids : requests[i].start \in Nat /\ requests[i].end \in Nat
  BY RequestTypes
<1>c. n \in Ids => requests[n].kind # "foreign"
  BY <1>a, <1>b DEF Intact
<1>d. n <= Len(requests) /\ (served = <<>> => consumed = 0)
  BY DEF StreamInv, Progress
<1>e. n \in Ids => consumed = requests[n].end
  BY <1>c DEF StreamInv, Progress
<1>f. \A i \in Ids : requests[i].start = IF i = 1 THEN 0 ELSE requests[i - 1].end
  BY DEF StreamInv, Laid
<1>g. /\ StreamEnd \in Nat
      /\ Len(requests) = 0 => StreamEnd = 0
      /\ Len(requests) # 0 => StreamEnd = requests[Len(requests)].end
  BY EndOfStream DEF StreamInv
<1>1. CASE n = 0
  <2>1. consumed = 0
    BY <1>a, <1>d, <1>1
  <2>2. Len(requests) # 0
    BY <1>g, <2>1
  <2>3. 1 \in Ids
    BY <1>b, <2>2
  <2>. QED
    BY <1>f, <1>1, <2>1, <2>3
<1>2. CASE n # 0
  <2>1. n \in Ids
    BY <1>a, <1>b, <1>d, <1>2
  <2>2. consumed = requests[n].end
    BY <1>e, <2>1
  <2>3. n # Len(requests)
    BY <1>a, <1>b, <1>g, <1>2, <2>2
  <2>4. n + 1 \in Ids /\ n + 1 # 1 /\ (n + 1) - 1 = n
    BY <1>a, <1>b, <1>d, <1>2, <2>3
  <2>. QED
    BY <1>f, <2>2, <2>4
<1>. QED
  BY <1>1, <1>2

\* Nothing that is not a multiple of whole requests is ever skipped.
LEMMA NeverMisaligned ==
  ASSUME TypeOK, StreamInv, Intact
  PROVE  ~Misaligned
<1>. SUFFICES ASSUME Misaligned PROVE FALSE
  OBVIOUS
<1>1. Buffered > 0 /\ \A i \in Ids : requests[i].start # consumed
  BY DEF Misaligned, Parsing
<1>2. consumed < StreamEnd
  BY <1>1, EndOfStream DEF Buffered, StreamInv, Positions, TypeOK
<1>. QED
  BY <1>1, <1>2, NextIsThere

\* Once an unknown method was refused or bytes that are no message came next,
\* that stays on record.
LEMMA IntactBefore ==
  ASSUME TypeOK, StreamInv, [Next]_vars, Intact'
  PROVE  Intact
<1>a. Len(requests) \in Nat /\ Ids = 1 .. Len(requests)
  BY RequestTypes
<1>b. Len(served) \in Nat
  BY ServedCount
<1>1. CASE UNCHANGED <<requests, served>>
  BY <1>1 DEF Intact, Ids
<1>2. ASSUME NEW k \in Kinds, NEW n \in Sizes, BeginRequest(k, n) PROVE Intact
  <2>1. /\ Ids' = 1 .. (Len(requests) + 1)
        /\ \A i \in Ids : requests'[i] = requests[i]
    BY <1>2, NewRequest DEF StreamInv
  <2>2. served' = served
    BY <1>2 DEF BeginRequest, replyVars
  <2>. QED
    BY <1>a, <2>1, <2>2 DEF Intact
<1>3. ASSUME NEW i \in Ids, Process(i) \/ Refuse(i) PROVE Intact
  <2>1. requests' = requests /\ Len(served') = Len(served) + 1
    BY <1>3, ServeFacts DEF peerVars
  <2>. QED
    BY <1>a, <1>b, <2>1 DEF Intact, Ids
<1>4. CASE PeerWrites \/ PeerReads \/ PeerCloses \/ WriteReply \/ ReadChunk
           \/ UNCHANGED vars
  BY <1>1, <1>4 DEF PeerWrites, PeerReads, PeerCloses, WriteReply, ReadChunk,
     vars, peerVars, replyVars
<1>5. CASE ReadEof \/ ParsedAll \/ Misaligned \/ SocketFails
           \/ \E i \in Ids : Incomplete(i) \/ NotThrift(i) \/ HandlerPanics(i)
  BY <1>1, <1>5 DEF ReadEof, ParsedAll, Misaligned, SocketFails, Incomplete,
     NotThrift, HandlerPanics, peerVars, replyVars
<1>. QED
  BY <1>2, <1>3, <1>4, <1>5, StepKinds

\* While the stream is intact, the task goes back to reading only when no whole
\* request is buffered (threaded.rs:276-318).
LEMMA WaitingStep ==
  ASSUME TypeOK, StreamInv, NothingLeftWaiting, [Next]_vars
  PROVE  NothingLeftWaiting'
<1>. SUFFICES ASSUME Intact' PROVE ~WholeRequestWaits'
  BY DEF NothingLeftWaiting
<1>0. Intact /\ ~WholeRequestWaits
  BY IntactBefore DEF NothingLeftWaiting
<1>a. /\ consumed \in Nat /\ received \in Nat /\ received <= StreamEnd
      /\ StreamEnd \in Nat
      /\ Len(requests) \in Nat /\ Ids = 1 .. Len(requests)
      /\ \A i \in Ids : requests[i].start \in Nat /\ requests[i].end \in Nat
  BY RequestTypes, EndOfStream DEF TypeOK, StreamInv, Positions
<1>1. CASE task' # "read"
  BY <1>1 DEF WholeRequestWaits
<1>2. CASE UNCHANGED <<requests, consumed, received, task>>
  BY <1>0, <1>2 DEF WholeRequestWaits, Whole, Ids
<1>3. ASSUME NEW k \in Kinds, NEW n \in Sizes, BeginRequest(k, n), task' = "read"
      PROVE  ~WholeRequestWaits'
  <2>1. /\ Ids' = 1 .. (Len(requests) + 1)
        /\ requests'[Len(requests) + 1].end = StreamEnd + n
        /\ n \in Nat /\ n > 1
    <3>1. /\ Ids' = 1 .. (Len(requests) + 1)
          /\ requests'[Len(requests) + 1] = [kind |-> k, start |-> StreamEnd,
                                            end |-> StreamEnd + n]
          /\ n \in Nat /\ n > 1
      BY <1>3, NewRequest DEF StreamInv
    <3>. QED
      BY <3>1
  <2>2. \A i \in Ids : requests'[i] = requests[i]
    BY <1>3, NewRequest DEF StreamInv
  <2>3. UNCHANGED <<consumed, received, task>>
    BY <1>3 DEF BeginRequest, bufferVars
  <2>4. ASSUME NEW i \in Ids', requests'[i].start >= consumed
        PROVE  ~(requests'[i].end <= received)
    <3>1. CASE i \in Ids
      BY <1>0, <1>3, <2>2, <2>3, <2>4, <3>1 DEF WholeRequestWaits, Whole
    <3>2. CASE i = Len(requests) + 1
      BY <1>a, <2>1, <3>2
    <3>. QED
      BY <1>a, <2>1, <3>1, <3>2
  <2>. QED
    BY <2>3, <2>4 DEF WholeRequestWaits, Whole
<1>4. CASE ParsedAll
  <2>1. received = consumed /\ UNCHANGED <<requests, consumed, received>>
    BY <1>4, <1>a DEF ParsedAll, Buffered, peerVars, bufferVars
  <2>2. \A i \in Ids : requests[i].start >= consumed => ~(requests[i].end <= received)
    BY <1>a, <2>1 DEF StreamInv, Laid
  <2>. QED
    BY <2>1, <2>2 DEF WholeRequestWaits, Whole, Ids
<1>5. ASSUME NEW i \in Ids, Incomplete(i) PROVE ~WholeRequestWaits'
  <2>1. requests[i].start = consumed /\ ~(requests[i].end <= received)
        /\ UNCHANGED <<requests, consumed, received>>
    BY <1>5 DEF Incomplete, AtRequest, Whole, peerVars, bufferVars
  <2>2. i = Len(served) + 1 /\ Len(served) \in Nat
    BY <2>1, NextAtBuffer, ServedCount DEF StreamInv
  <2>3. ASSUME NEW j \in Ids, requests[j].start >= consumed
        PROVE  ~(requests[j].end <= received)
    <3>1. j >= i /\ j \in Nat
      BY <1>a, <2>2, <2>3, BehindServed DEF StreamInv
    <3>2. CASE j = i
      BY <2>1, <3>2
    <3>3. CASE i < j
      <4>1. requests[i].end <= requests[j].start
            /\ requests[j].start + 1 < requests[j].end
        BY <3>3 DEF StreamInv, Laid
      <4>. QED
        BY <1>a, <2>1, <4>1
    <3>. QED
      BY <2>2, <3>1, <3>2, <3>3
  <2>. QED
    BY <2>1, <2>3 DEF WholeRequestWaits, Whole, Ids
<1>6. CASE PeerWrites \/ PeerReads \/ PeerCloses \/ UNCHANGED vars
  BY <1>2, <1>6 DEF PeerWrites, PeerReads, PeerCloses, vars, peerVars, bufferVars
<1>7. CASE ReadChunk \/ ReadEof \/ WriteReply \/ SocketFails
  BY <1>1, <1>7 DEF ReadChunk, ReadEof, WriteReply, SocketFails, Go, Finish
<1>8. ASSUME NEW i \in Ids, Process(i) \/ Refuse(i) \/ HandlerPanics(i)
      PROVE  ~WholeRequestWaits'
  BY <1>1, <1>8 DEF Process, Refuse, HandlerPanics, Go, Finish
<1>10. ASSUME NEW i \in Ids PROVE ~NotThrift(i)
  <2>. SUFFICES ASSUME NotThrift(i) PROVE FALSE
    OBVIOUS
  <2>1. requests[i].start = consumed /\ requests[i].kind = "junk"
    BY DEF NotThrift, AtRequest
  <2>2. i = Len(served) + 1 /\ Len(served) \in Nat
    BY <2>1, NextAtBuffer, ServedCount DEF StreamInv
  <2>. QED
    BY <1>0, <2>1, <2>2 DEF Intact
<1>9. CASE task' = "read" /\ \E k \in Kinds, n \in Sizes : BeginRequest(k, n)
  BY <1>3, <1>9
<1>. QED
  BY <1>1, <1>4, <1>5, <1>6, <1>7, <1>8, <1>9, <1>10, <1>0, NeverMisaligned, StepKinds

\* What is read on top of an unfinished request exceeds the limit only if that
\* request alone nearly does.
LEMMA OversizeStep ==
  ASSUME TypeOK, StreamInv, KnownInv, [Next]_vars
  PROVE  OversizeOnlyNearLimit'
<1>. SUFFICES ASSUME Intact' PROVE OversizeOnlyNearLimit'
  BY DEF OversizeOnlyNearLimit
<1>0. Intact
  BY IntactBefore
<1>a. /\ consumed \in Nat /\ received \in Nat /\ written \in Nat
      /\ StreamEnd \in Nat /\ written <= StreamEnd
      /\ MaxRequest \in Nat /\ Chunk \in Nat
      /\ \A i \in Ids : requests[i].start \in Nat /\ requests[i].end \in Nat
  BY StreamAssumption, RequestTypes, EndOfStream DEF TypeOK, StreamInv, Positions
<1>b. outcome = "oversize" => task = "ended"
  BY DEF StreamInv, Replies
<1>1. CASE ReadChunk
  <2>1. PICK n \in 1 .. Chunk : received + n <= written /\ received' = received + n
    BY <1>1 DEF ReadChunk
  <2>2. n \in Nat /\ n <= Chunk
    BY <1>a, <2>1
  <2>3. task = "read" /\ UNCHANGED <<requests, consumed>>
    BY <1>1 DEF ReadChunk, peerVars
  <2>4. outcome' = "oversize" => received' - consumed > MaxRequest
    BY <1>1, <1>b DEF ReadChunk, Go, Finish
  <2>5. ASSUME outcome' = "oversize"
        PROVE  \E i \in Ids :
                 /\ requests[i].start = consumed
                 /\ requests[i].end - requests[i].start > MaxRequest - Chunk + 1
    <3>. DEFINE i == Len(served) + 1
    <3>1. consumed < StreamEnd
      BY <1>a, <2>1, <2>2, <2>4, <2>5
    <3>2. i \in Ids /\ requests[i].start = consumed
      BY <1>0, <3>1, NextIsThere
    <3>3. ~(requests[i].end <= received)
      BY <1>0, <1>a, <2>3, <3>2 DEF KnownInv, NothingLeftWaiting, WholeRequestWaits, Whole
    <3>4. requests[i].end - requests[i].start > MaxRequest - Chunk + 1
      BY <1>a, <2>1, <2>2, <2>4, <2>5, <3>2, <3>3
    <3>. QED
      BY <3>2, <3>4
  <2>. QED
    BY <2>3, <2>5 DEF OversizeOnlyNearLimit, Ids
<1>2. CASE outcome' # "oversize"
  BY <1>2 DEF OversizeOnlyNearLimit
<1>3. CASE UNCHANGED <<outcome, requests, consumed>>
  BY <1>0, <1>3 DEF KnownInv, OversizeOnlyNearLimit, Ids
<1>4. ASSUME NEW k \in Kinds, NEW n \in Sizes, BeginRequest(k, n)
      PROVE  OversizeOnlyNearLimit'
  <2>1. \A i \in Ids : i \in Ids' /\ requests'[i] = requests[i]
    <3>1. Ids' = 1 .. (Len(requests) + 1) /\ \A i \in Ids : requests'[i] = requests[i]
      BY <1>4, NewRequest DEF StreamInv
    <3>. QED
      BY <3>1, RequestTypes
  <2>2. UNCHANGED <<outcome, consumed>>
    BY <1>4 DEF BeginRequest, bufferVars
  <2>. QED
    BY <1>0, <2>1, <2>2 DEF KnownInv, OversizeOnlyNearLimit
<1>5. ASSUME NEW i \in Ids, Process(i) \/ Refuse(i) PROVE OversizeOnlyNearLimit'
  <2>1. outcome' = outcome /\ task # "ended"
    BY <1>5, ServeFacts
  <2>. QED
    BY <1>b, <1>2, <2>1
<1>6. CASE ReadEof \/ ParsedAll \/ Misaligned \/ SocketFails
           \/ \E i \in Ids : Incomplete(i) \/ NotThrift(i) \/ HandlerPanics(i)
  <2>1. task # "ended" /\ (outcome' = outcome \/ outcome' # "oversize")
    BY <1>6, TaskSteps
  <2>. QED
    BY <1>b, <1>2, <2>1
<1>7. CASE PeerWrites \/ PeerReads \/ PeerCloses \/ WriteReply \/ UNCHANGED vars
  BY <1>3, <1>7 DEF PeerWrites, PeerReads, PeerCloses, WriteReply, Go, vars,
     peerVars, bufferVars
<1>. QED
  BY <1>1, <1>4, <1>5, <1>6, <1>7, StepKinds

(* Until a method the service does not know was refused, or bytes came     *)
(* that are no message, the task never waits with a whole request in the   *)
(* buffer, and a connection is closed for its size only over a request     *)
(* within a chunk of the limit.                                            *)
THEOREM KnownMethods == Spec => [](NothingLeftWaiting /\ OversizeOnlyNearLimit)
<1>1. Init => KnownInv
  BY EmptySeq DEF Init, KnownInv, NothingLeftWaiting, WholeRequestWaits,
     OversizeOnlyNearLimit, Ids
<1>2. TypeOK /\ StreamInv /\ KnownInv /\ [Next]_vars => KnownInv'
  <2>. SUFFICES ASSUME TypeOK, StreamInv, KnownInv, [Next]_vars
                PROVE  KnownInv'
    OBVIOUS
  <2>. QED
    BY WaitingStep, OversizeStep DEF KnownInv
<1>3. KnownInv => NothingLeftWaiting /\ OversizeOnlyNearLimit
  BY DEF KnownInv
<1>. QED
  BY <1>1, <1>2, <1>3, StreamInvariant, PTL DEF Spec

(* A size error is about a request that comes within a chunk of the limit, *)
(* on a stream that is intact up to that request.                          *)
THEOREM SizeErrors == Spec => []OversizeOnlyNearLimit
<1>1. NothingLeftWaiting /\ OversizeOnlyNearLimit => OversizeOnlyNearLimit
  OBVIOUS
<1>. QED
  BY <1>1, KnownMethods, PTL

-----------------------------------------------------------------------------
(* The task never spins *)

LEMMA WorkNumbers ==
  ASSUME TypeOK, StreamInv
  PROVE  /\ written \in Nat /\ received \in Nat /\ consumed \in Nat /\ task \in TaskStates
         /\ consumed <= received /\ received <= written
         /\ WorkLeft \in Nat /\ WorkLeft <= 4 * written + 3
<1>1. /\ written \in Nat /\ received \in Nat /\ consumed \in Nat /\ task \in TaskStates
      /\ consumed <= received /\ received <= written
  BY DEF TypeOK, StreamInv, Positions
<1>2. written - received \in 0 .. written /\ written - consumed \in 0 .. written
  BY <1>1
<1>. QED
  BY <1>1, <1>2 DEF WorkLeft, TaskStates

LEMMA WorkStep ==
  ASSUME TypeOK, StreamInv, [Next]_vars
  PROVE  /\ Serving \/ Failing => WorkLeft' < WorkLeft
         /\ ~PeerWrites => WorkLeft' <= WorkLeft
<1>0. /\ written \in Nat /\ received \in Nat /\ consumed \in Nat /\ task \in TaskStates
      /\ consumed <= received /\ received <= written /\ WorkLeft \in Nat
  BY WorkNumbers
<1>1. CASE ReadChunk
  <2>1. PICK n \in 1 .. Chunk : received' = received + n
    BY <1>1 DEF ReadChunk
  <2>2. n \in Nat /\ n >= 1
    BY <2>1, StreamAssumption
  <2>3. /\ task = "read" /\ task' \in {"parse", "ended"}
        /\ written' = written /\ consumed' = consumed
    BY <1>1 DEF ReadChunk, Go, Finish, peerVars
  <2>. QED
    BY <1>0, <2>1, <2>2, <2>3 DEF WorkLeft
<1>2. CASE \E i \in Ids : Process(i) \/ Refuse(i)
  <2>1. PICK i \in Ids : Process(i) \/ Refuse(i)
    BY <1>2
  <2>2. consumed' \in Nat /\ consumed' > consumed
    <3>1. /\ requests[i].start \in Nat /\ requests[i].end \in Nat
          /\ requests[i].start = consumed /\ requests[i].start + 1 < requests[i].end
      BY <2>1, RequestTypes DEF Extent, Process, Refuse, AtRequest, StreamInv, Laid
    <3>. QED
      BY <2>1, <3>1 DEF Process, Refuse
  <2>3. /\ task = "parse" /\ task' = "write"
        /\ written' = written /\ received' = received
    BY <2>1 DEF Process, Refuse, AtRequest, Parsing, Processing, Go, peerVars
  <2>. QED
    BY <1>0, <2>2, <2>3 DEF WorkLeft
<1>3. CASE WriteReply
  <2>1. /\ task = "write" /\ task' = "parse"
        /\ written' = written /\ received' = received /\ consumed' = consumed
    BY <1>3 DEF WriteReply, Go, peerVars, bufferVars
  <2>. QED
    BY <1>0, <2>1 DEF WorkLeft
<1>4. CASE ParsedAll \/ Misaligned \/ SocketFails \/ ReadEof
           \/ \E i \in Ids : Incomplete(i) \/ NotThrift(i) \/ HandlerPanics(i)
  <2>1. written' = written /\ received' = received /\ consumed' = consumed
    BY <1>4, TaskSteps DEF peerVars, bufferVars
  <2>2. \/ task = "parse" /\ task' = "read"
        \/ task # "ended" /\ task' = "ended"
    BY <1>4 DEF ParsedAll, Misaligned, SocketFails, ReadEof, Incomplete, NotThrift,
       HandlerPanics, AtRequest, Parsing, Go, Finish
  <2>. QED
    BY <1>0, <2>1, <2>2 DEF WorkLeft, TaskStates
<1>5. CASE ~Serving /\ ~Failing
  <2>1. PeerWrites \/ UNCHANGED <<written, received, consumed, task>>
    BY <1>5 DEF Next, Peer, BeginRequest, PeerReads, PeerCloses, Ended, vars, peerVars, bufferVars
  <2>2. CASE UNCHANGED <<written, received, consumed, task>>
    BY <1>0, <1>5, <2>2 DEF WorkLeft
  <2>. QED
    BY <1>5, <2>1, <2>2
<1>. QED
  BY <1>1, <1>2, <1>3, <1>4, <1>5 DEF Serving, Failing

(* Every step of a connection's task leaves it less to do with what the    *)
(* peer wrote, for requests of any length and kind and any chunk size.     *)
THEOREM TaskNeverSpins == Spec => TaskAdvances
<1>1. TypeOK /\ StreamInv /\ [Next]_vars =>
        [/\ Serving \/ Failing => WorkLeft' < WorkLeft
         /\ ~PeerWrites => WorkLeft' <= WorkLeft]_vars
  BY WorkStep
<1>. QED
  BY <1>1, StreamInvariant, PTL DEF Spec, TaskAdvances

(* What a task has to do is bounded by what the peer wrote: at most four   *)
(* steps for each piece of a request.                                      *)
THEOREM WorkBounded == Spec => [](WorkLeft \in Nat /\ WorkLeft <= 4 * written + 3)
<1>1. TypeOK /\ StreamInv => WorkLeft \in Nat /\ WorkLeft <= 4 * written + 3
  BY WorkNumbers
<1>. QED
  BY <1>1, StreamInvariant, PTL
=============================================================================
