-------------------------- MODULE OsqueryRpcProofs --------------------------
(***************************************************************************)
(* Theorems about OsqueryRpc, for any forms of osquery's messages and any  *)
(* number of calls.                                                        *)
(***************************************************************************)
EXTENDS OsqueryRpc, PluginAdaptersProofs, SequenceTheorems, TLAPS

-----------------------------------------------------------------------------
(* Queues of messages: sequences of anything *)

IsQueue(s) == \E S : s \in Seq(S)

LEMMA AppendToQueue ==
  ASSUME NEW s, IsQueue(s), NEW x
  PROVE  /\ IsQueue(Append(s, x))
         /\ Len(s) \in Nat /\ Len(Append(s, x)) = Len(s) + 1
         /\ \A i \in 1 .. Len(s) : Append(s, x)[i] = s[i]
         /\ Append(s, x)[Len(s) + 1] = x
         /\ DOMAIN Append(s, x) = 1 .. Len(s) + 1 /\ DOMAIN s = 1 .. Len(s)
<1>1. PICK S : s \in Seq(S)
  BY DEF IsQueue
<1>2. s \in Seq(S \cup {x}) /\ x \in S \cup {x}
  BY <1>1
<1>3. Append(s, x) \in Seq(S \cup {x})
  BY <1>2, AppendProperties
<1>. QED
  BY <1>2, <1>3, AppendProperties, LenProperties DEF IsQueue

LEMMA TailOfQueue ==
  ASSUME NEW s, IsQueue(s), s # <<>>
  PROVE  /\ IsQueue(Tail(s))
         /\ Len(s) \in Nat \ {0} /\ Len(Tail(s)) = Len(s) - 1
         /\ Head(s) = s[1]
         /\ \A i \in 1 .. Len(s) - 1 : Tail(s)[i] = s[i + 1]
         /\ DOMAIN Tail(s) = 1 .. Len(s) - 1 /\ DOMAIN s = 1 .. Len(s)
<1>1. PICK S : s \in Seq(S)
  BY DEF IsQueue
<1>2. Tail(s) \in Seq(S) /\ Len(s) \in Nat \ {0} /\ Len(Tail(s)) = Len(s) - 1
  BY <1>1, HeadTailProperties, EmptySeq, LenProperties
<1>. QED
  BY <1>1, <1>2, HeadTailProperties, LenProperties DEF IsQueue

LEMMA PrefixOfQueue ==
  ASSUME NEW s, IsQueue(s), NEW n \in 0 .. Len(s)
  PROVE  /\ IsQueue(SubSeq(s, 1, n))
         /\ Len(s) \in Nat /\ DOMAIN s = 1 .. Len(s)
         /\ DOMAIN SubSeq(s, 1, n) = 1 .. n
         /\ \A i \in 1 .. n : SubSeq(s, 1, n)[i] = s[i]
<1>1. PICK S : s \in Seq(S)
  BY DEF IsQueue
<1>2. Len(s) \in Nat /\ DOMAIN s = 1 .. Len(s)
  BY <1>1, LenProperties
<1>3. \A i \in 1 .. n : i \in 1 .. Len(s)
  BY <1>2
<1>4. SubSeq(s, 1, n) \in Seq(S) /\ Len(SubSeq(s, 1, n)) = n
  BY <1>1, <1>2, <1>3, SubSeqProperties
<1>5. \A i \in 1 .. n : SubSeq(s, 1, n)[i] = s[i]
  BY <1>1, <1>2, <1>3, SubSeqProperties
<1>. QED
  BY <1>2, <1>4, <1>5, LenProperties DEF IsQueue

LEMMA NoQueue == IsQueue(<<>>) /\ DOMAIN <<>> = {}
<1>1. <<>> \in Seq({}) /\ Len(<<>>) = 0
  BY EmptySeq
<1>. QED
  BY <1>1, LenProperties DEF IsQueue

-----------------------------------------------------------------------------
(* The inductive invariant *)

Queues == IsQueue(requests) /\ IsQueue(replies)

\* Requests are numbered in the order in which they were sent, and every reply
\* that is left belongs to a request that was sent before those unread.
InOrder ==
  /\ \A i, j \in DOMAIN requests : i < j => requests[i].seq < requests[j].seq
  /\ \A i \in DOMAIN replies, j \in DOMAIN requests :
       replies[i].type # "rest" => replies[i].seq < requests[j].seq

\* The request of the latest call is the call in progress, and not served yet.
LatestRequest ==
  \A j \in DOMAIN requests : requests[j].id = calls =>
    /\ served.call.id # calls
    /\ pending # NONE => requests[j] = pending

\* A reply with the latest number is the answer to the latest call.
LatestReply ==
  \A i \in DOMAIN replies : replies[i].type # "rest" /\ replies[i].seq = seq =>
    /\ served.call.id = calls
    /\ replies[i].type = served.answer.type
    /\ replies[i].body = served.answer.body
    /\ replies[i].name = Rpc(served.call.wrapper)

LatestServed ==
  /\ served.call.id \in {0, calls}
  /\ served.call.id = 0 => served = NotServed
  /\ served.call.id # 0 /\ pending # NONE => served.call = pending

LatestResult == result # NONE => pending = NONE

\* An answer that can be read is on its way or was returned.
AnswerKept ==
  up /\ served.call.id # 0 /\ served.answer.body # BAD =>
    \/ \E i \in DOMAIN replies : replies[i].type # "rest" /\ replies[i].seq = seq
    \/ pending = NONE /\ result.outcome = Outcome(served.call.wrapper, served.answer)

NoCallYet == Coming => calls = 0 /\ ~up

RpcInv ==
  /\ NoCallYet /\ RpcTypeOK /\ Queues /\ InOrder
  /\ LatestRequest /\ LatestReply /\ LatestServed /\ LatestResult
  /\ ReplyIsOwn /\ AnswerKept

LEMMA InitRpc == Init => RpcInv
<1>. SUFFICES ASSUME Init PROVE RpcInv
  OBVIOUS
<1>1. requests = <<>> /\ replies = <<>> /\ seq = 0 /\ calls = 0 /\ pending = NONE
      /\ served = NotServed /\ result = NONE
  BY DEF Init
<1>2. Queues /\ DOMAIN requests = {} /\ DOMAIN replies = {}
  BY <1>1, NoQueue DEF Queues
<1>3. InOrder /\ LatestRequest /\ LatestReply
  BY <1>2 DEF InOrder, LatestRequest, LatestReply
<1>4. LatestServed /\ LatestResult /\ ReplyIsOwn /\ AnswerKept
  <2>1. served.call.id = 0 /\ calls = 0
    BY <1>1 DEF NotServed
  <2>. QED
    BY <1>1, <2>1 DEF LatestServed, LatestResult, ReplyIsOwn, AnswerKept
<1>5. RpcTypeOK
  <2>1. server \in {"osquery", "extension"} /\ pipe \in BOOLEAN /\ late \in BOOLEAN
    BY DEF Init
  <2>2. up \in BOOLEAN /\ socket \in Sockets /\ stage \in Stages
    BY DEF Init, Sockets, Stages
  <2>3. seq \in 0 .. MaxCalls /\ calls = seq
    BY <1>1, RpcAssumption
  <2>. QED
    BY <1>1, <1>2, <2>1, <2>2, <2>3 DEF RpcTypeOK
<1>6. NoCallYet
  BY <1>1 DEF Init, NoCallYet, Coming
<1>. QED
  BY <1>2, <1>3, <1>4, <1>5, <1>6 DEF RpcInv

-----------------------------------------------------------------------------
(* Steps of the connection *)

\* Coming up touches no call.
LEMMA ComingStep ==
  ASSUME RpcInv, SocketChanges \/ DeadlinePasses \/ Connecting
  PROVE  RpcInv'
<1>1. /\ Coming
      /\ UNCHANGED <<server, pipe, callVars>>
      /\ socket' \in Sockets /\ stage' \in Stages /\ late' \in BOOLEAN /\ up' \in BOOLEAN
      /\ (stage' \in {"looking", "missed", "connecting"} => ~up')
  <2>1. CASE SocketChanges \/ DeadlinePasses
    <3>1. Coming /\ UNCHANGED <<server, pipe, callVars>> /\ socket' \in Sockets
          /\ stage' \in Stages
      BY <2>1 DEF SocketChanges, DeadlinePasses, RpcInv, RpcTypeOK
    <3>2. late' \in BOOLEAN /\ up' \in BOOLEAN /\ ~up'
      <4>1. up' = up /\ ~up /\ up \in BOOLEAN /\ late \in BOOLEAN
        BY <2>1 DEF SocketChanges, DeadlinePasses, RpcInv, RpcTypeOK, NoCallYet
      <4>2. late' = late \/ late' = TRUE
        BY <2>1, Zenon DEF SocketChanges, DeadlinePasses
      <4>. QED
        BY <4>1, <4>2, Zenon
    <3>. QED
      BY <3>1, <3>2
  <2>2. ASSUME NEW to \in Stages, Advance(to), Coming
        PROVE  <1>1!:
    BY <2>2 DEF Advance, RpcInv, RpcTypeOK, Coming, callVars
  <2>3. CASE Connecting
    <3>1. Coming
      BY <2>3 DEF Connecting, Look, CheckDeadline, ConnectUnix, ConnectPipe, Coming
    <3>2. UNCHANGED vars \/ \E to \in Stages : Advance(to)
      <4>1. {"missed", "connecting", "looking", "failed", "open"} \subseteq Stages
        BY DEF Stages
      <4>. QED
        BY <2>3, <4>1 DEF Connecting, Look, CheckDeadline, ConnectUnix, ConnectPipe
    <3>3. CASE UNCHANGED vars
      BY <3>1, <3>3 DEF vars, connectVars, RpcInv, RpcTypeOK, NoCallYet, Coming
    <3>. QED
      BY <2>2, <3>1, <3>2, <3>3
  <2>. QED
    BY <2>1, <2>3
<1>2. calls = 0 /\ seq = 0 /\ calls' = 0
  BY <1>1 DEF RpcInv, NoCallYet, RpcTypeOK, callVars
<1>3. RpcTypeOK' /\ NoCallYet'
  BY <1>1, <1>2 DEF RpcInv, RpcTypeOK, NoCallYet, Coming, callVars, Numbered
<1>4. (Queues /\ InOrder /\ LatestRequest /\ LatestReply /\ LatestServed /\ LatestResult)'
  BY <1>1 DEF RpcInv, Queues, InOrder, LatestRequest, LatestReply, LatestServed,
     LatestResult, callVars
<1>5. ReplyIsOwn'
  BY <1>1 DEF RpcInv, ReplyIsOwn, Outcome, callVars
<1>6. AnswerKept'
  BY <1>1, <1>2 DEF RpcInv, AnswerKept, LatestServed, callVars
<1>. QED
  BY <1>3, <1>4, <1>5, <1>6 DEF RpcInv

\* Losing the connection loses what is on it.
LEMMA CutStep ==
  ASSUME RpcInv, Close \/ LinkBreaks
  PROVE  RpcInv'
<1>1. /\ UNCHANGED <<server, pipe, socket, late, seq, calls, pending, served, result>>
      /\ requests' = <<>> /\ up' = FALSE /\ stage' \in Stages
      /\ stage' = stage \/ stage' = "closed"
      /\ replies' = replies \/ \E n \in 0 .. Len(replies) : replies' = SubSeq(replies, 1, n)
  BY DEF Close, LinkBreaks, connectVars, RpcInv, RpcTypeOK, Stages
<1>2. /\ IsQueue(replies') /\ DOMAIN replies' \subseteq DOMAIN replies
      /\ \A i \in DOMAIN replies' : replies'[i] = replies[i]
  <2>1. CASE replies' = replies
    BY <2>1 DEF RpcInv, Queues
  <2>2. ASSUME NEW n \in 0 .. Len(replies), replies' = SubSeq(replies, 1, n)
        PROVE  <1>2!:
    BY <2>2, PrefixOfQueue DEF RpcInv, Queues
  <2>. QED
    BY <1>1, <2>1, <2>2
<1>3. IsQueue(requests') /\ DOMAIN requests' = {}
  BY <1>1, NoQueue
<1>4. RpcTypeOK'
  BY <1>1, <1>2, <1>3 DEF RpcInv, RpcTypeOK, Numbered
<1>5. (Queues /\ InOrder /\ LatestRequest /\ LatestServed /\ LatestResult)'
  BY <1>1, <1>2, <1>3 DEF RpcInv, Queues, InOrder, LatestRequest, LatestServed, LatestResult
<1>6. LatestReply'
  BY <1>1, <1>2 DEF RpcInv, LatestReply
<1>7. ReplyIsOwn' /\ AnswerKept' /\ NoCallYet'
  BY <1>1 DEF RpcInv, ReplyIsOwn, Outcome, AnswerKept, NoCallYet, Coming
<1>. QED
  BY <1>4, <1>5, <1>6, <1>7 DEF RpcInv

-----------------------------------------------------------------------------
(* Steps of a call *)

\* A call takes the next number.
LEMMA SendStep ==
  ASSUME RpcInv, NEW wrapper, NEW args, Send(wrapper, args)
  PROVE  RpcInv'
<1>. DEFINE call == [id |-> calls + 1, seq |-> seq + 1, wrapper |-> wrapper, args |-> args]
<1>1. /\ stage \in {"open", "closed"} /\ pending = NONE /\ calls < MaxCalls
      /\ calls' = calls + 1 /\ seq' = seq + 1 /\ served' = NotServed
      /\ UNCHANGED <<server, pipe, up, stage, socket, late, replies>>
      /\ \/ /\ requests' = Append(requests, call) /\ pending' = call /\ result' = NONE
         \/ /\ requests' = requests /\ pending' = NONE
            /\ result' = [id |-> call.id, wrapper |-> wrapper, outcome |-> Err("transport")]
  BY DEF Send, Finish, connectVars
<1>2. calls \in Nat /\ seq = calls /\ MaxCalls \in Nat
  BY RpcAssumption DEF RpcInv, RpcTypeOK
<1>3. /\ IsQueue(requests) /\ IsQueue(replies)
      /\ IsQueue(requests') /\ Len(requests) \in Nat /\ DOMAIN requests = 1 .. Len(requests)
      /\ \A j \in DOMAIN requests : j \in DOMAIN requests' /\ requests'[j] = requests[j]
      /\ \A j \in DOMAIN requests' \ DOMAIN requests :
           j = Len(requests) + 1 /\ requests'[j] = call /\ pending' = call
  <2>1. IsQueue(requests) /\ IsQueue(replies)
    BY DEF RpcInv, Queues
  <2>2. ASSUME NEW x PROVE
          /\ IsQueue(Append(requests, x))
          /\ Len(requests) \in Nat /\ DOMAIN requests = 1 .. Len(requests)
          /\ \A i \in 1 .. Len(requests) : Append(requests, x)[i] = requests[i]
          /\ Append(requests, x)[Len(requests) + 1] = x
          /\ DOMAIN Append(requests, x) = 1 .. Len(requests) + 1
    BY <2>1, AppendToQueue
  <2>. HIDE DEF call
  <2>3. CASE requests' = Append(requests, call) /\ pending' = call
    BY <2>1, <2>2, <2>3
  <2>4. CASE requests' = requests
    BY <2>1, <2>2, <2>4
  <2>. QED
    BY <1>1, <2>3, <2>4
<1>4. call.id = calls' /\ call.seq = seq'
  BY <1>1
<1>5. /\ \A j \in DOMAIN requests : Numbered(requests[j])
      /\ \A i \in DOMAIN replies : replies[i].type # "rest" => replies[i].seq \in 1 .. seq
  BY DEF RpcInv, RpcTypeOK
<1>6. RpcTypeOK'
  <2>1. seq' \in 0 .. MaxCalls /\ calls' = seq'
    BY <1>1, <1>2
  <2>2. (\A j \in DOMAIN requests : Numbered(requests[j]))'
    BY <1>1, <1>2, <1>3, <1>4, <1>5 DEF Numbered
  <2>3. \A i \in DOMAIN replies' : replies'[i].type # "rest" => replies'[i].seq \in 1 .. seq'
    BY <1>1, <1>2, <1>5
  <2>4. (pending # NONE => Numbered(pending) /\ pending.id = calls)'
    BY <1>1, <1>2, <1>4 DEF Numbered
  <2>. QED
    BY <1>1, <2>1, <2>2, <2>3, <2>4 DEF RpcInv, RpcTypeOK
<1>7. InOrder'
  <2>1. ASSUME NEW i \in DOMAIN requests', NEW j \in DOMAIN requests', i < j
        PROVE  requests'[i].seq < requests'[j].seq
    <3>1. i \in DOMAIN requests
      BY <1>3, <2>1
    <3>2. CASE j \in DOMAIN requests
      BY <1>3, <2>1, <3>1, <3>2 DEF RpcInv, InOrder
    <3>3. CASE j \notin DOMAIN requests
      BY <1>2, <1>3, <1>5, <3>1, <3>3 DEF Numbered
    <3>. QED
      BY <3>2, <3>3
  <2>2. ASSUME NEW i \in DOMAIN replies', NEW j \in DOMAIN requests', replies'[i].type # "rest"
        PROVE  replies'[i].seq < requests'[j].seq
    <3>1. CASE j \in DOMAIN requests
      BY <1>1, <1>3, <2>2, <3>1 DEF RpcInv, InOrder
    <3>2. CASE j \notin DOMAIN requests
      BY <1>1, <1>2, <1>3, <1>5, <2>2, <3>2
    <3>. QED
      BY <3>1, <3>2
  <2>. QED
    BY <2>1, <2>2 DEF InOrder
<1>8. LatestRequest'
  <2>1. ASSUME NEW j \in DOMAIN requests', requests'[j].id = calls'
        PROVE  j \notin DOMAIN requests
    BY <1>1, <1>2, <1>3, <1>5, <2>1 DEF Numbered
  <2>2. served'.call.id = 0
    BY <1>1 DEF NotServed
  <2>. QED
    BY <1>1, <1>2, <1>3, <2>1, <2>2 DEF LatestRequest
<1>9. LatestReply'
  BY <1>1, <1>2, <1>5 DEF LatestReply
<1>10. LatestServed' /\ AnswerKept'
  <2>1. served'.call.id = 0
    BY <1>1 DEF NotServed
  <2>. QED
    BY <1>1, <2>1 DEF LatestServed, AnswerKept
<1>11. LatestResult' /\ ReplyIsOwn' /\ NoCallYet'
  BY <1>1 DEF LatestResult, ReplyIsOwn, NoCallYet, Coming
<1>. QED
  BY <1>3, <1>1, <1>6, <1>7, <1>8, <1>9, <1>10, <1>11 DEF RpcInv, Queues

\* What ends the call in progress takes nothing from the queue but the head.
LEMMA FinishStep ==
  ASSUME RpcInv, pending # NONE,
         UNCHANGED <<server, pipe, up, connectVars, seq, calls, requests, served>>,
         pending' = NONE,
         IsQueue(replies'),
         \A i \in DOMAIN replies' : replies'[i].type # "rest" =>
           \E k \in DOMAIN replies : replies'[i] = replies[k],
         ReplyIsOwn', AnswerKept'
  PROVE  RpcInv'
<1>1. stage' = stage
  BY DEF connectVars
<1>2. RpcTypeOK'
  BY <1>1 DEF RpcInv, RpcTypeOK, Numbered, connectVars
<1>3. InOrder' /\ LatestReply'
  BY DEF RpcInv, InOrder, LatestReply
<1>4. (Queues /\ LatestRequest /\ LatestServed /\ LatestResult /\ NoCallYet)'
  BY <1>1 DEF RpcInv, Queues, LatestRequest, LatestServed, LatestResult, NoCallYet, Coming
<1>. QED
  BY <1>2, <1>3, <1>4 DEF RpcInv

\* The reply that is taken for the answer is the answer.
LEMMA ReceiveReplyStep ==
  ASSUME RpcInv, ReceiveReply
  PROVE  RpcInv'
<1>. DEFINE reply == Head(replies)
<1>1. /\ pending # NONE /\ replies # <<>> /\ reply.type # "rest"
      /\ pending' = NONE
      /\ result' = [id |-> pending.id, wrapper |-> pending.wrapper, outcome |->
                      IF GivesUp(reply) THEN Err("transport")
                      ELSE Outcome(pending.wrapper, reply)]
      /\ replies' = IF GivesUp(reply) THEN [replies EXCEPT ![1] = Rest] ELSE Tail(replies)
      /\ UNCHANGED <<server, pipe, up, connectVars, seq, calls, requests, served>>
  BY DEF ReceiveReply, Finish
<1>2. IsQueue(replies)
  BY DEF RpcInv, Queues
<1>3. /\ Len(replies) \in Nat \ {0} /\ DOMAIN replies = 1 .. Len(replies)
      /\ reply = replies[1] /\ 1 \in DOMAIN replies
  BY <1>1, <1>2, TailOfQueue
<1>4. /\ IsQueue(replies')
      /\ \A i \in DOMAIN replies' : replies'[i].type # "rest" =>
           \E k \in DOMAIN replies : replies'[i] = replies[k]
      /\ \A k \in DOMAIN replies \ {1} :
           \E i \in DOMAIN replies' : replies'[i] = replies[k]
  <2>1. CASE GivesUp(reply)
    <3>1. /\ IsQueue(replies') /\ DOMAIN replies' = DOMAIN replies
          /\ replies'[1] = Rest /\ \A i \in 2 .. Len(replies) : replies'[i] = replies[i]
      <4>1. replies' = [replies EXCEPT ![1] = Rest]
        BY <1>1, <2>1
      <4>2. PICK S : replies \in Seq(S)
        BY <1>2 DEF IsQueue
      <4>3. replies \in Seq(S \cup {Rest}) /\ Rest \in S \cup {Rest} /\ 1 \in 1 .. Len(replies)
        BY <1>3, <4>2
      <4>. HIDE DEF reply
      <4>4. /\ [replies EXCEPT ![1] = Rest] \in Seq(S \cup {Rest})
            /\ Len([replies EXCEPT ![1] = Rest]) = Len(replies)
            /\ \A j \in 1 .. Len(replies) :
                 [replies EXCEPT ![1] = Rest][j] = IF j = 1 THEN Rest ELSE replies[j]
        BY <4>3, ExceptSeq
      <4>5. /\ replies' \in Seq(S \cup {Rest}) /\ Len(replies') = Len(replies)
            /\ \A j \in 1 .. Len(replies) : replies'[j] = IF j = 1 THEN Rest ELSE replies[j]
        BY <4>1, <4>4, Zenon
      <4>. QED
        BY <1>3, <4>5, LenProperties DEF IsQueue
    <3>2. Rest.type = "rest"
      BY DEF Rest
    <3>. QED
      BY <1>3, <3>1, <3>2
  <2>2. CASE ~GivesUp(reply)
    <3>1. /\ IsQueue(replies') /\ DOMAIN replies' = 1 .. Len(replies) - 1
          /\ \A i \in 1 .. Len(replies) - 1 : replies'[i] = replies[i + 1]
      BY <1>1, <1>2, <2>2, TailOfQueue
    <3>2. \A k \in DOMAIN replies \ {1} : k - 1 \in 1 .. Len(replies) - 1 /\ k = (k - 1) + 1
      BY <1>3
    <3>3. \A i \in 1 .. Len(replies) - 1 : i + 1 \in DOMAIN replies
      BY <1>3
    <3>4. \A k \in DOMAIN replies \ {1} : replies'[k - 1] = replies[k]
      BY <3>1, <3>2
    <3>. QED
      BY <3>1, <3>2, <3>3, <3>4
  <2>. QED
    BY <2>1, <2>2
<1>5. ASSUME reply.seq = seq
      PROVE  /\ served.call = pending /\ served.call.id = calls /\ calls # 0
             /\ reply.type = served.answer.type /\ reply.body = served.answer.body
             /\ reply.name = Rpc(pending.wrapper)
  <2>1. /\ served.call.id = calls /\ reply.type = served.answer.type
        /\ reply.body = served.answer.body /\ reply.name = Rpc(served.call.wrapper)
    BY <1>1, <1>3, <1>5 DEF RpcInv, LatestReply
  <2>2. calls # 0
    BY <1>1, <1>3, <1>5 DEF RpcInv, RpcTypeOK
  <2>. QED
    BY <1>1, <2>1, <2>2 DEF RpcInv, LatestServed
<1>6. CASE GivesUp(reply)
  <2>1. ReplyIsOwn'
    BY <1>1, <1>6 DEF ReplyIsOwn
  <2>2. AnswerKept'
    <3>1. reply.seq = seq => reply.body = BAD /\ served.answer.body = BAD
      BY <1>5, <1>6 DEF GivesUp, Expected
    <3>2. ASSUME up, served.call.id # 0, served.answer.body # BAD
          PROVE  \E i \in DOMAIN replies' : replies'[i].type # "rest" /\ replies'[i].seq = seq
      <4>1. PICK k \in DOMAIN replies : replies[k].type # "rest" /\ replies[k].seq = seq
        BY <1>1, <3>2 DEF RpcInv, AnswerKept
      <4>2. k # 1
        BY <1>3, <3>1, <3>2, <4>1
      <4>. QED
        BY <1>4, <4>1, <4>2
    <3>. QED
      BY <1>1, <3>2 DEF AnswerKept
  <2>. QED
    BY <1>1, <1>4, <2>1, <2>2, FinishStep
<1>7. CASE ~GivesUp(reply)
  <2>1. reply.seq = seq
    BY <1>1, <1>7 DEF GivesUp, Expected
  <2>2. result'.id = served'.call.id /\ result'.wrapper = served'.call.wrapper
    BY <1>1, <1>5, <2>1
  <2>3. result'.outcome = Outcome(served.call.wrapper, served.answer)'
    BY <1>1, <1>5, <1>7, <2>1 DEF Outcome
  <2>4. ReplyIsOwn' /\ AnswerKept'
    BY <1>1, <2>2, <2>3 DEF ReplyIsOwn, AnswerKept, Outcome
  <2>. QED
    BY <1>1, <1>4, <2>4, FinishStep
<1>. QED
  BY <1>6, <1>7

\* A rest is no answer.
LEMMA ReceiveRestStep ==
  ASSUME RpcInv, ReceiveRest \/ ReceiveEof
  PROVE  RpcInv'
<1>1. /\ pending # NONE /\ pending' = NONE
      /\ result' = [id |-> pending.id, wrapper |-> pending.wrapper, outcome |-> Err("transport")]
      /\ UNCHANGED <<server, pipe, up, connectVars, seq, calls, requests, served>>
      /\ \/ replies' = replies /\ ~up
         \/ replies # <<>> /\ Head(replies).type = "rest" /\ replies' \in {replies, Tail(replies)}
  BY DEF ReceiveRest, ReceiveEof, Finish
<1>2. IsQueue(replies)
  BY DEF RpcInv, Queues
<1>3. /\ IsQueue(replies')
      /\ \A i \in DOMAIN replies' : \E k \in DOMAIN replies : replies'[i] = replies[k]
      /\ up => \A k \in DOMAIN replies : replies[k].type # "rest" =>
                 \E i \in DOMAIN replies' : replies'[i] = replies[k]
  <2>1. CASE replies' = replies
    BY <1>2, <2>1
  <2>2. CASE replies # <<>> /\ Head(replies).type = "rest" /\ replies' = Tail(replies)
    <3>1. /\ IsQueue(replies') /\ Len(replies) \in Nat \ {0}
          /\ DOMAIN replies = 1 .. Len(replies) /\ DOMAIN replies' = 1 .. Len(replies) - 1
          /\ \A i \in 1 .. Len(replies) - 1 : replies'[i] = replies[i + 1]
          /\ replies[1].type = "rest"
      BY <1>2, <2>2, TailOfQueue
    <3>2. \A k \in DOMAIN replies \ {1} : k - 1 \in 1 .. Len(replies) - 1 /\ k = (k - 1) + 1
      BY <3>1
    <3>3. \A i \in 1 .. Len(replies) - 1 : i + 1 \in DOMAIN replies
      BY <3>1
    <3>4. \A k \in DOMAIN replies \ {1} : replies'[k - 1] = replies[k]
      BY <3>1, <3>2
    <3>. QED
      BY <3>1, <3>2, <3>3, <3>4
  <2>. QED
    BY <1>1, <2>1, <2>2
<1>4. ReplyIsOwn'
  BY <1>1 DEF ReplyIsOwn
<1>5. AnswerKept'
  <2>1. ASSUME up, served.call.id # 0, served.answer.body # BAD
        PROVE  \E i \in DOMAIN replies' : replies'[i].type # "rest" /\ replies'[i].seq = seq
    <3>1. PICK k \in DOMAIN replies : replies[k].type # "rest" /\ replies[k].seq = seq
      BY <1>1, <2>1 DEF RpcInv, AnswerKept
    <3>. QED
      BY <1>3, <2>1, <3>1
  <2>. QED
    BY <1>1, <2>1 DEF AnswerKept
<1>. QED
  BY <1>1, <1>3, <1>4, <1>5, FinishStep

\* What a server writes is a reply or an exception.
LEMMA AnswerTypes ==
  ASSUME NEW name, NEW args, NEW a \in Answers(name, args)
  PROVE  a.type # "rest"
<1>1. CASE ~ArgsAccepted(name, args)
  BY <1>1 DEF Answers, Exception
<1>2. CASE ArgsAccepted(name, args) /\ server = "osquery"
  <2>1. a \in ManagerAnswers(name)
    BY <1>2 DEF Answers
  <2>2. a = Exception \/ \E body, invoked : a = Answered(body, invoked)
    BY <2>1 DEF ManagerAnswers
  <2>. QED
    BY <2>2 DEF Answered, Exception
<1>3. CASE ArgsAccepted(name, args) /\ server # "osquery"
  <2>1. a \in ExtensionAnswers(name, args)
    BY <1>3 DEF Answers
  <2>2. a = Exception \/ \E body, invoked : a = Answered(body, invoked)
    BY <2>1 DEF ExtensionAnswers
  <2>. QED
    BY <2>2 DEF Answered, Exception
<1>. QED
  BY <1>1, <1>2, <1>3

\* Requests are served in order, so the latest is served last.
LEMMA ServeStep ==
  ASSUME RpcInv, Serve
  PROVE  RpcInv'
<1>. DEFINE q == Head(requests)
<1>1. PICK a \in Answers(Rpc(q.wrapper), q.args) :
        /\ replies' = Append(replies, [type |-> a.type, seq |-> q.seq,
                                       name |-> Rpc(q.wrapper), body |-> a.body])
        /\ served' = IF q.id = calls THEN [call |-> q, answer |-> a] ELSE served
  BY DEF Serve
<1>. DEFINE reply == [type |-> a.type, seq |-> q.seq, name |-> Rpc(q.wrapper), body |-> a.body]
<1>2. /\ up /\ requests # <<>> /\ requests' = Tail(requests)
      /\ UNCHANGED <<server, pipe, up, stage, socket, late, seq, calls, pending, result>>
  BY DEF Serve, connectVars
<1>3. a.type # "rest"
  BY AnswerTypes
<1>4. IsQueue(requests) /\ IsQueue(replies)
  BY DEF RpcInv, Queues
<1>5. /\ IsQueue(requests') /\ Len(requests) \in Nat \ {0} /\ q = requests[1]
      /\ DOMAIN requests = 1 .. Len(requests) /\ DOMAIN requests' = 1 .. Len(requests) - 1
      /\ \A j \in DOMAIN requests' : requests'[j] = requests[j + 1]
  BY <1>2, <1>4, TailOfQueue
<1>6. /\ \A j \in DOMAIN requests' : j + 1 \in DOMAIN requests /\ j + 1 > 1
      /\ 1 \in DOMAIN requests
  BY <1>5
<1>7. /\ IsQueue(replies') /\ Len(replies) \in Nat
      /\ DOMAIN replies' = 1 .. Len(replies) + 1 /\ DOMAIN replies = 1 .. Len(replies)
      /\ \A i \in 1 .. Len(replies) : replies'[i] = replies[i]
      /\ replies'[Len(replies) + 1] = reply
  <2>1. replies' = Append(replies, reply)
    BY <1>1
  <2>. HIDE DEF reply
  <2>. QED
    BY <1>4, <2>1, AppendToQueue
<1>8. /\ seq \in Nat /\ calls = seq /\ q.id = q.seq /\ q.seq \in 1 .. seq
      /\ \A j \in DOMAIN requests' : /\ requests'[j].id = requests'[j].seq
                                     /\ requests'[j].seq \in 1 .. seq
                                     /\ q.seq < requests'[j].seq
  BY <1>5, <1>6 DEF RpcInv, RpcTypeOK, Numbered, InOrder
<1>9. RpcTypeOK'
  <2>1. (\A j \in DOMAIN requests : Numbered(requests[j]))'
    BY <1>2, <1>8 DEF Numbered
  <2>2. \A i \in DOMAIN replies' : replies'[i].type # "rest" => replies'[i].seq \in 1 .. seq'
    BY <1>2, <1>7, <1>8 DEF RpcInv, RpcTypeOK
  <2>. QED
    BY <1>2, <2>1, <2>2 DEF RpcInv, RpcTypeOK, Numbered
<1>10. InOrder'
  <2>1. \A i, j \in DOMAIN requests' : i < j => requests'[i].seq < requests'[j].seq
    <3>1. ASSUME NEW i \in DOMAIN requests', NEW j \in DOMAIN requests', i < j
          PROVE  i + 1 \in DOMAIN requests /\ j + 1 \in DOMAIN requests /\ i + 1 < j + 1
      BY <1>5, <3>1
    <3>. QED
      BY <1>5, <3>1 DEF RpcInv, InOrder
  <2>2. ASSUME NEW i \in DOMAIN replies', NEW j \in DOMAIN requests', replies'[i].type # "rest"
        PROVE  replies'[i].seq < requests'[j].seq
    <3>1. CASE i \in DOMAIN replies
      BY <1>5, <1>6, <1>7, <2>2, <3>1 DEF RpcInv, InOrder
    <3>2. CASE i \notin DOMAIN replies
      BY <1>7, <1>8, <3>2
    <3>. QED
      BY <3>1, <3>2
  <2>. QED
    BY <2>1, <2>2 DEF InOrder
<1>11. CASE q.id = calls
  <2>1. served' = [call |-> q, answer |-> a]
    BY <1>1, <1>11
  <2>2. DOMAIN requests' = {}
    <3>1. q.seq = seq
      BY <1>8, <1>11
    <3>2. \A j \in DOMAIN requests' : requests'[j].seq \in 1 .. seq /\ seq < requests'[j].seq
      BY <1>8, <3>1
    <3>3. \A j \in DOMAIN requests' : FALSE
      BY <1>8, <3>2
    <3>. QED
      BY <3>3
  <2>3. served.call.id # calls /\ (pending # NONE => q = pending)
    BY <1>5, <1>6, <1>11 DEF RpcInv, LatestRequest
  <2>4. served.call.id = 0 /\ calls # 0
    BY <1>8, <1>11, <2>3 DEF RpcInv, LatestServed
  <2>5. LatestRequest' /\ LatestServed'
    BY <1>2, <1>11, <2>1, <2>2, <2>3, <2>4 DEF LatestRequest, LatestServed
  <2>6. LatestReply'
    <3>1. \A i \in DOMAIN replies : replies[i].type # "rest" => replies[i].seq # seq
      BY <1>8, <2>3 DEF RpcInv, LatestReply
    <3>. QED
      BY <1>2, <1>7, <1>11, <2>1, <3>1 DEF LatestReply
  <2>7. AnswerKept'
    BY <1>2, <1>3, <1>7, <1>8, <1>11 DEF AnswerKept
  <2>8. ReplyIsOwn'
    <3>1. CASE result # NONE /\ result.outcome # Err("transport")
      <4>1. served.call.id = result.id /\ served.call.wrapper = result.wrapper
            /\ result.outcome = Outcome(result.wrapper, served.answer)
        BY <3>1 DEF RpcInv, ReplyIsOwn
      <4>2. served = NotServed
        BY <2>4 DEF RpcInv, LatestServed
      <4>3. result.outcome = Err("transport")
        BY <4>1, <4>2 DEF Outcome, NotServed, Exception
      <4>. QED
        BY <3>1, <4>3
    <3>. QED
      BY <1>2, <3>1 DEF ReplyIsOwn
  <2>. QED
    BY <1>2, <1>5, <1>7, <1>9, <1>10, <2>5, <2>6, <2>7, <2>8
       DEF RpcInv, Queues, LatestResult, NoCallYet, Coming
<1>12. CASE q.id # calls
  <2>1. served' = served
    BY <1>1, <1>12
  <2>2. LatestRequest'
    BY <1>2, <1>5, <1>6, <2>1 DEF RpcInv, LatestRequest
  <2>3. LatestServed' /\ ReplyIsOwn'
    BY <1>2, <2>1 DEF RpcInv, LatestServed, ReplyIsOwn, Outcome
  <2>4. LatestReply'
    BY <1>2, <1>7, <1>8, <1>12, <2>1 DEF RpcInv, LatestReply
  <2>5. AnswerKept'
    BY <1>2, <1>7, <2>1 DEF RpcInv, AnswerKept, Outcome
  <2>. QED
    BY <1>2, <1>5, <1>7, <1>9, <1>10, <2>2, <2>3, <2>4, <2>5
       DEF RpcInv, Queues, LatestResult, NoCallYet, Coming
<1>. QED
  BY <1>11, <1>12

LEMMA NextRpc == RpcInv /\ [Next]_vars => RpcInv'
<1>. SUFFICES ASSUME RpcInv, [Next]_vars PROVE RpcInv'
  OBVIOUS
<1>1. CASE SocketChanges \/ DeadlinePasses \/ Connecting
  BY <1>1, ComingStep
<1>2. CASE Calls
  <2>1. \E wrapper, args : Send(wrapper, args)
    BY <1>2 DEF Calls
  <2>. QED
    BY <2>1, SendStep
<1>3. CASE ReceiveReply
  BY <1>3, ReceiveReplyStep
<1>4. CASE ReceiveRest \/ ReceiveEof
  BY <1>4, ReceiveRestStep
<1>5. CASE Serve
  BY <1>5, ServeStep
<1>6. CASE Close \/ LinkBreaks
  BY <1>6, CutStep
<1>7. CASE UNCHANGED vars
  <2>1. UNCHANGED <<server, pipe, up, stage, socket, late, callVars>>
    BY <1>7 DEF vars, connectVars
  <2>. QED
    BY <2>1 DEF RpcInv, RpcTypeOK, Numbered, NoCallYet, Coming, Queues, InOrder, LatestRequest,
       LatestReply, LatestServed, LatestResult, ReplyIsOwn, AnswerKept, Outcome, callVars
<1>8. CASE Rests
  BY <1>7, <1>8 DEF Rests
<1>. QED
  BY <1>1, <1>2, <1>3, <1>4, <1>5, <1>6, <1>7, <1>8 DEF Next

\* The invariant behind every theorem below.
THEOREM RpcInvariant == Spec => []RpcInv
<1>1. Init => RpcInv
  BY InitRpc
<1>2. RpcInv /\ [Next]_vars => RpcInv'
  BY NextRpc
<1>. QED
  BY <1>1, <1>2, PTL DEF Spec

\* Requests and replies carry the number of a call that was made, and the call
\* in progress has the latest number.
THEOREM RpcTypes == Spec => []RpcTypeOK
<1>1. RpcInv => RpcTypeOK
  BY DEF RpcInv
<1>. QED
  BY <1>1, RpcInvariant, PTL

\* What a wrapper returns is the server's answer to this very call, however many
\* replies to earlier calls were left unread.
THEOREM AnswersAreOwn == Spec => []ReplyIsOwn
<1>1. RpcInv => ReplyIsOwn
  BY DEF RpcInv
<1>. QED
  BY <1>1, RpcInvariant, PTL

-----------------------------------------------------------------------------
(* Every call has an answer to wait for *)

\* Serving turns a request into a reply of its number and leaves the others.
LEMMA OwedAfterServe ==
  ASSUME RpcInv, AnswerOwed, Serve
  PROVE  AnswerOwed'
<1>. DEFINE q == Head(requests)
<1>1. PICK a \in Answers(Rpc(q.wrapper), q.args) :
        replies' = Append(replies, [type |-> a.type, seq |-> q.seq,
                                    name |-> Rpc(q.wrapper), body |-> a.body])
  BY DEF Serve
<1>. DEFINE reply == [type |-> a.type, seq |-> q.seq, name |-> Rpc(q.wrapper), body |-> a.body]
<1>2. up /\ requests # <<>> /\ requests' = Tail(requests) /\ UNCHANGED <<up, pending>>
  BY DEF Serve, connectVars
<1>3. reply.type # "rest" /\ reply.seq = q.seq
  BY AnswerTypes
<1>4. IsQueue(requests) /\ IsQueue(replies)
  BY DEF RpcInv, Queues
<1>5. /\ Len(requests) \in Nat \ {0} /\ q = requests[1]
      /\ DOMAIN requests = 1 .. Len(requests) /\ DOMAIN requests' = 1 .. Len(requests) - 1
      /\ \A j \in 1 .. Len(requests) - 1 : requests'[j] = requests[j + 1]
  BY <1>2, <1>4, TailOfQueue
<1>6. /\ Len(replies) \in Nat
      /\ DOMAIN replies' = 1 .. Len(replies) + 1 /\ DOMAIN replies = 1 .. Len(replies)
      /\ \A i \in 1 .. Len(replies) : replies'[i] = replies[i]
      /\ replies'[Len(replies) + 1] = reply
  <2>1. replies' = Append(replies, reply)
    BY <1>1
  <2>. HIDE DEF reply
  <2>. QED
    BY <1>4, <2>1, AppendToQueue
<1>. HIDE DEF reply, q
<1>. SUFFICES ASSUME pending # NONE PROVE AnswerOwed'
  BY <1>2 DEF AnswerOwed
<1>7. CASE \E j \in DOMAIN requests : requests[j] = pending
  <2>1. PICK j \in DOMAIN requests : requests[j] = pending
    BY <1>7
  <2>2. CASE j = 1
    <3>1. Len(replies) + 1 \in DOMAIN replies' /\ reply.seq = pending.seq
      BY <1>3, <1>5, <1>6, <2>1, <2>2
    <3>. QED
      BY <1>2, <1>3, <1>6, <3>1 DEF AnswerOwed
  <2>3. CASE j # 1
    <3>1. j - 1 \in DOMAIN requests' /\ requests'[j - 1] = requests[j]
      BY <1>5, <2>1, <2>3
    <3>. QED
      BY <1>2, <2>1, <3>1 DEF AnswerOwed
  <2>. QED
    BY <2>2, <2>3
<1>8. CASE \E i \in DOMAIN replies : replies[i].type # "rest" /\ replies[i].seq = pending.seq
  BY <1>2, <1>6, <1>8 DEF AnswerOwed
<1>. QED
  BY <1>2, <1>7, <1>8 DEF AnswerOwed

LEMMA OwedStep == RpcInv /\ AnswerOwed /\ [Next]_vars => AnswerOwed'
<1>. SUFFICES ASSUME RpcInv, AnswerOwed, [Next]_vars PROVE AnswerOwed'
  OBVIOUS
<1>1. CASE SocketChanges \/ DeadlinePasses \/ Connecting
  <2>1. Coming /\ (pending' = pending)
    BY <1>1 DEF SocketChanges, DeadlinePasses, Connecting, Look, CheckDeadline, ConnectUnix,
       ConnectPipe, Advance, vars, callVars, Coming
  <2>2. calls = 0 /\ seq = 0
    BY <2>1 DEF RpcInv, NoCallYet, RpcTypeOK
  <2>3. pending = NONE
    BY <2>2 DEF RpcInv, RpcTypeOK, Numbered
  <2>. QED
    BY <2>1, <2>3 DEF AnswerOwed
<1>2. CASE Calls
  <2>1. PICK wrapper, args : Send(wrapper, args)
    BY <1>2 DEF Calls
  <2>2. CASE ~up
    BY <2>1, <2>2 DEF Send, AnswerOwed
  <2>3. CASE up
    <3>. DEFINE call == [id |-> calls', seq |-> seq', wrapper |-> wrapper, args |-> args]
    <3>1. requests' = Append(requests, call) /\ pending' = call
      BY <2>1, <2>3 DEF Send
    <3>. HIDE DEF call
    <3>2. Len(requests) + 1 \in DOMAIN requests' /\ requests'[Len(requests) + 1] = call
      BY <3>1, AppendToQueue DEF RpcInv, Queues
    <3>. QED
      BY <3>1, <3>2 DEF AnswerOwed
  <2>. QED
    BY <2>2, <2>3
<1>3. CASE ReceiveReply \/ ReceiveRest \/ ReceiveEof
  BY <1>3 DEF ReceiveReply, ReceiveRest, ReceiveEof, Finish, AnswerOwed
<1>4. CASE Serve
  BY <1>4, OwedAfterServe
<1>5. CASE Close \/ LinkBreaks
  BY <1>5 DEF Close, LinkBreaks, AnswerOwed
<1>6. CASE Rests \/ UNCHANGED vars
  BY <1>6 DEF Rests, vars, callVars, AnswerOwed
<1>. QED
  BY <1>1, <1>2, <1>3, <1>4, <1>5, <1>6 DEF Next

\* A call in progress on a connection that is up has a request still to be served
\* or a reply still to be read, even when calls before it gave up half way.
THEOREM NoCallForgotten == Spec => []AnswerOwed
<1>1. Init => AnswerOwed
  BY DEF Init, AnswerOwed
<1>. QED
  BY <1>1, OwedStep, RpcInvariant, PTL DEF Spec

-----------------------------------------------------------------------------
(* Coming up *)

LEMMA ConnectStep ==
  ASSUME RpcInv, [Next]_vars
  PROVE  /\ ConnectLeft' <= ConnectLeft
         /\ DeadlinePasses \/ (late /\ Connecting) => ConnectLeft' < ConnectLeft
<1>1. stage \in Stages /\ late \in BOOLEAN /\ ConnectLeft \in 0 .. 5
  BY DEF RpcInv, RpcTypeOK, ConnectLeft
<1>2. CASE Connecting
  <2>1. CASE Look
    BY <1>1, <1>2, <2>1 DEF Look, Advance, ConnectLeft, DeadlinePasses
  <2>2. CASE CheckDeadline
    BY <1>1, <1>2, <2>2 DEF CheckDeadline, Advance, ConnectLeft, DeadlinePasses
  <2>3. CASE ConnectUnix
    BY <1>1, <1>2, <2>3 DEF ConnectUnix, Advance, ConnectLeft, DeadlinePasses
  <2>4. CASE ConnectPipe
    <3>1. stage = "connecting" /\ stage' \in {"connecting", "open", "failed"}
      BY <2>4 DEF ConnectPipe, Advance, vars, connectVars
    <3>2. late => stage' = "failed"
      BY <2>4 DEF ConnectPipe, Advance
    <3>3. ~late => ~DeadlinePasses \/ stage' = stage
      BY <3>1 DEF DeadlinePasses
    <3>4. stage' = "connecting" => ~late /\ late' = late
      BY <2>4, <3>1, <3>2 DEF ConnectPipe, Advance, vars, connectVars
    <3>. QED
      BY <1>1, <3>1, <3>2, <3>3, <3>4 DEF ConnectLeft, DeadlinePasses
  <2>. QED
    BY <1>2, <2>1, <2>2, <2>3, <2>4 DEF Connecting
<1>3. CASE DeadlinePasses
  <2>1. Coming /\ ~late /\ late' /\ stage' = stage
    BY <1>3 DEF DeadlinePasses
  <2>. QED
    BY <1>1, <2>1 DEF Coming, ConnectLeft
<1>4. CASE ~Connecting /\ ~DeadlinePasses
  <2>1. CASE UNCHANGED <<stage, late>>
    BY <1>1, <1>4, <2>1 DEF ConnectLeft
  <2>2. CASE Close
    BY <1>1, <1>4, <2>2 DEF Close, ConnectLeft
  <2>3. UNCHANGED <<stage, late>> \/ Close
    <3>1. CASE Calls
      <4>1. PICK wrapper, args : Send(wrapper, args)
        BY <3>1 DEF Calls
      <4>. QED
        BY <4>1 DEF Send, connectVars
    <3>. QED
      BY <1>4, <3>1 DEF Next, SocketChanges, ReceiveReply, ReceiveRest, ReceiveEof, Serve,
         LinkBreaks, Rests, vars, connectVars
  <2>. QED
    BY <2>1, <2>2, <2>3
<1>. QED
  BY <1>2, <1>3, <1>4

\* Connecting comes nearer its end with every deadline and every turn of a loop
\* behind one, whatever the path does: with time and a thread that runs it ends.
THEOREM ConnectShortens == Spec => ConnectAdvances
<1>1. RpcInv /\ [Next]_vars =>
        [/\ ConnectLeft' <= ConnectLeft
         /\ DeadlinePasses \/ (late /\ Connecting) => ConnectLeft' < ConnectLeft]_vars
  BY ConnectStep
<1>. QED
  BY <1>1, RpcInvariant, PTL DEF Spec, ConnectAdvances

-----------------------------------------------------------------------------
(* Every call is one exchange *)

\* A request is the first and the oldest of those unread, and one that is the
\* latest call's was not served before.
LEMMA UnservedHead ==
  ASSUME RpcInv, requests # <<>>
  PROVE  /\ 1 \in DOMAIN requests /\ Head(requests) = requests[1]
         /\ DOMAIN Tail(requests) = 1 .. Len(requests) - 1
         /\ Len(requests) \in Nat \ {0} /\ DOMAIN requests = 1 .. Len(requests)
         /\ \A j \in DOMAIN Tail(requests) : Tail(requests)[j] = requests[j + 1]
         /\ \A j \in DOMAIN requests :
              requests[j].id \in Nat /\ (j # 1 => requests[1].id < requests[j].id)
         /\ Head(requests).id = calls => served = NotServed
<1>1. IsQueue(requests)
  BY DEF RpcInv, Queues
<1>2. /\ Len(requests) \in Nat \ {0} /\ Head(requests) = requests[1]
      /\ DOMAIN requests = 1 .. Len(requests) /\ DOMAIN Tail(requests) = 1 .. Len(requests) - 1
      /\ \A j \in 1 .. Len(requests) - 1 : Tail(requests)[j] = requests[j + 1]
  BY <1>1, TailOfQueue
<1>3. 1 \in DOMAIN requests /\ \A j \in DOMAIN requests : j # 1 => 1 < j
  BY <1>2
<1>4. \A j \in DOMAIN requests :
        requests[j].id \in Nat \ {0} /\ (j # 1 => requests[1].id < requests[j].id)
  BY <1>3 DEF RpcInv, RpcTypeOK, Numbered, InOrder
<1>5. Head(requests).id = calls => served = NotServed
  BY <1>2, <1>3, <1>4 DEF RpcInv, LatestRequest, LatestServed
<1>. QED
  BY <1>2, <1>3, <1>4, <1>5

\* A connection that is lost has no requests on it.
NothingUnread == ~up => requests = <<>>

LEMMA NothingUnreadStep == RpcInv /\ NothingUnread /\ [Next]_vars => NothingUnread'
<1>. SUFFICES ASSUME RpcInv, NothingUnread, [Next]_vars PROVE NothingUnread'
  OBVIOUS
<1>1. CASE SocketChanges \/ DeadlinePasses \/ Connecting
  <2>1. ~up /\ requests' = requests
    BY <1>1 DEF SocketChanges, DeadlinePasses, Connecting, Look, CheckDeadline, ConnectUnix,
       ConnectPipe, Advance, vars, callVars, RpcInv, NoCallYet, Coming
  <2>. QED
    BY <2>1 DEF NothingUnread
<1>2. CASE Calls
  <2>1. PICK wrapper, args : Send(wrapper, args)
    BY <1>2 DEF Calls
  <2>. QED
    BY <2>1 DEF Send, NothingUnread
<1>3. CASE ReceiveReply \/ ReceiveRest \/ ReceiveEof \/ Serve \/ Close \/ LinkBreaks
  BY <1>3 DEF ReceiveReply, ReceiveRest, ReceiveEof, Serve, Close, LinkBreaks, NothingUnread
<1>4. CASE Rests \/ UNCHANGED vars
  BY <1>4 DEF Rests, vars, callVars, NothingUnread
<1>. QED
  BY <1>1, <1>2, <1>3, <1>4 DEF Next

\* A reply with the latest number is the answer to the call in progress.
LEMMA OwnReply ==
  ASSUME RpcInv, pending # NONE, replies # <<>>,
         Head(replies).type # "rest", Head(replies).seq = seq
  PROVE  /\ served.call = pending
         /\ Head(replies).type = served.answer.type
         /\ Head(replies).body = served.answer.body
<1>1. IsQueue(replies)
  BY DEF RpcInv, Queues
<1>2. Head(replies) = replies[1] /\ 1 \in DOMAIN replies
  BY <1>1, TailOfQueue
<1>3. served.call.id = calls /\ calls # 0
  BY <1>2 DEF RpcInv, LatestReply, RpcTypeOK
<1>. QED
  BY <1>2, <1>3 DEF RpcInv, LatestReply, LatestServed

LinkState == IF up THEN "up" ELSE IF Coming THEN "coming" ELSE "down"
Open == {requests[i].id : i \in DOMAIN requests}
Returned == IF calls = 0 \/ pending # NONE THEN NONE ELSE result.outcome

LEMMA CallForm ==
  ASSUME Calls
  PROVE  \E wrapper \in Wrappers \cup {"shutdown"}, args \in ArgumentForms : Send(wrapper, args)
<1>1. {"ping", "call"} \subseteq Wrappers
  BY DEF Wrappers, Methods
<1>2. CASE server = "osquery"
  <2>1. PICK w \in Wrappers : Send(w, StubArguments(w))
    BY <1>2 DEF Calls
  <2>. QED
    BY <1>1, <2>1 DEF ArgumentForms
<1>3. CASE server # "osquery"
  <2>1. \/ \E w \in {"ping", "shutdown"} : Send(w, <<>>)
        \/ \E args \in CallForms : Send("call", args)
    BY <1>3 DEF Calls
  <2>. QED
    BY <1>1, <2>1 DEF ArgumentForms
<1>. QED
  BY <1>2, <1>3

\* A step of a call is a step of the abstract call.
LEMMA AtomicStep ==
  ASSUME RpcInv, NothingUnread, Next
  PROVE  \/ Atomic!Connect \/ Atomic!Begin \/ Atomic!Execute \/ Atomic!Return \/ Atomic!Break
         \/ UNCHANGED Atomic!atomicVars
<1>0. /\ calls \in Nat /\ seq = calls /\ up \in BOOLEAN /\ (Coming => ~up)
      /\ IsQueue(requests) /\ DOMAIN <<>> = {}
  BY NoQueue, RpcAssumption DEF RpcInv, RpcTypeOK, NoCallYet, Queues
<1>1. CASE SocketChanges \/ DeadlinePasses \/ Connecting
  <2>1. Coming /\ UNCHANGED <<server, callVars>>
    BY <1>1 DEF SocketChanges, DeadlinePasses, Connecting, Look, CheckDeadline, ConnectUnix,
       ConnectPipe, Advance, vars, callVars, Coming
  <2>2. UNCHANGED <<calls, pending, Open, ServedOutcome, Returned>>
    BY <2>1 DEF callVars, Open, ServedOutcome, Outcome, Returned
  <2>3. LinkState = "coming" /\ LinkState' \in {"coming", "up", "down"}
    BY <1>0, <2>1 DEF LinkState
  <2>. QED
    BY <2>2, <2>3 DEF Atomic!Connect, Atomic!atomicVars, LinkState, Open, Returned
<1>2. CASE Calls
  <2>1. PICK wrapper \in Wrappers \cup {"shutdown"}, args \in ArgumentForms : Send(wrapper, args)
    BY <1>2, CallForm
  <2>. DEFINE call == [id |-> calls + 1, seq |-> seq + 1, wrapper |-> wrapper, args |-> args]
  <2>2. /\ stage \in {"open", "closed"} /\ pending = NONE
        /\ calls' = calls + 1 /\ served' = NotServed
        /\ UNCHANGED <<up, stage>>
        /\ IF up THEN requests' = Append(requests, call) /\ pending' = call /\ result' = NONE
           ELSE /\ requests' = requests /\ pending' = NONE
                /\ result' = [id |-> call.id, wrapper |-> wrapper, outcome |-> Err("transport")]
    BY <2>1 DEF Send, Finish, connectVars
  <2>7. call \in [id : Nat, seq : Nat, wrapper : Wrappers \cup {"shutdown"},
                args : ArgumentForms]
    BY <1>0
  <2>3. ServedOutcome' = Err("transport")
    BY <2>2 DEF ServedOutcome, Outcome, NotServed, Exception
  <2>4. LinkState' = LinkState /\ LinkState = IF up THEN "up" ELSE "down"
    BY <2>2 DEF LinkState, Coming
  <2>5. CASE up
    <3>1. Open' = Open \cup {calls'}
      <4>. HIDE DEF call
      <4>1. /\ DOMAIN requests' = 1 .. Len(requests) + 1 /\ DOMAIN requests = 1 .. Len(requests)
            /\ Len(requests) \in Nat
            /\ \A i \in 1 .. Len(requests) : requests'[i] = requests[i]
            /\ requests'[Len(requests) + 1] = call
        BY <1>0, <2>2, <2>5, AppendToQueue
      <4>2. DOMAIN requests' = DOMAIN requests \cup {Len(requests) + 1}
        BY <4>1
      <4>3. call.id = calls'
        BY <2>2 DEF call
      <4>. QED
        BY <4>1, <4>2, <4>3 DEF Open
    <3>2. pending' # NONE /\ Returned' = NONE
      BY <1>0, <2>2, <2>5, <2>7, CallAssumption DEF Returned
    <3>. QED
      BY <2>2, <2>3, <2>4, <2>5, <3>1, <3>2 DEF Atomic!Begin, LinkState, Open, Returned
  <2>6. CASE ~up
    <3>1. Open' = Open /\ Returned' = Err("transport")
      BY <1>0, <2>2, <2>6 DEF Open, Returned
    <3>. QED
      BY <2>2, <2>3, <2>4, <2>6, <3>1 DEF Atomic!Begin, LinkState, Open, Returned
  <2>. QED
    BY <1>0, <2>5, <2>6
<1>3. CASE ReceiveReply \/ ReceiveRest \/ ReceiveEof
  <2>1. /\ pending # NONE /\ pending' = NONE
        /\ UNCHANGED <<server, up, stage, calls, requests, served>>
    BY <1>3 DEF ReceiveReply, ReceiveRest, ReceiveEof, Finish, connectVars
  <2>2. result'.outcome \in {ServedOutcome, Err("transport")}
    <3>1. CASE ReceiveRest \/ ReceiveEof
      BY <3>1 DEF ReceiveRest, ReceiveEof, Finish
    <3>2. CASE ReceiveReply
      <4>. DEFINE reply == Head(replies)
      <4>1. /\ replies # <<>> /\ reply.type # "rest"
            /\ result'.outcome = IF GivesUp(reply) THEN Err("transport")
                                 ELSE Outcome(pending.wrapper, reply)
        BY <3>2 DEF ReceiveReply, Finish
      <4>2. CASE ~GivesUp(reply)
        <5>1. reply.seq = seq /\ reply.body # BAD
          BY <4>1, <4>2 DEF GivesUp, Expected
        <5>2. /\ served.call = pending
              /\ reply.type = served.answer.type /\ reply.body = served.answer.body
          BY <2>1, <4>1, <5>1, OwnReply
        <5>3. Outcome(pending.wrapper, reply) = ServedOutcome
          BY <5>1, <5>2 DEF Outcome, ServedOutcome
        <5>. QED
          BY <4>1, <4>2, <5>3
      <4>. QED
        BY <4>1, <4>2
    <3>. QED
      BY <1>3, <3>1, <3>2
  <2>3. calls # 0
    BY <2>1 DEF RpcInv, RpcTypeOK, Numbered
  <2>4. UNCHANGED <<LinkState, calls, Open, ServedOutcome>>
    BY <2>1 DEF LinkState, Coming, Open, ServedOutcome, Outcome
  <2>5. Returned' = result'.outcome
    BY <2>1, <2>3 DEF Returned
  <2>. QED
    BY <2>1, <2>2, <2>4, <2>5 DEF Atomic!Return, LinkState, Open, Returned
<1>4. CASE Serve
  <2>1. /\ up /\ requests # <<>> /\ requests' = Tail(requests)
        /\ UNCHANGED <<server, up, stage, calls, pending, result>>
        /\ Head(requests).id # calls => served' = served
    BY <1>4 DEF Serve, connectVars
  <2>2. /\ DOMAIN requests = 1 .. Len(requests) /\ DOMAIN requests' = 1 .. Len(requests) - 1
        /\ Len(requests) \in Nat \ {0} /\ Head(requests) = requests[1]
        /\ \A j \in DOMAIN requests' : requests'[j] = requests[j + 1]
        /\ \A j \in DOMAIN requests :
             requests[j].id \in Nat /\ (j # 1 => requests[1].id < requests[j].id)
    BY <2>1, UnservedHead
  <2>. DEFINE c == requests[1].id
  <2>3. c \in Open /\ \A d \in Open : c <= d
    BY <2>2 DEF Open
  <2>4. Open' = Open \ {c}
    <3>1. ASSUME NEW j \in DOMAIN requests, j # 1
          PROVE  requests[j].id \in Open' /\ requests[j].id # c
      <4>1. j - 1 \in DOMAIN requests' /\ requests'[j - 1] = requests[j]
        BY <2>2, <3>1
      <4>. QED
        BY <2>2, <3>1, <4>1 DEF Open
    <3>2. ASSUME NEW j \in DOMAIN requests'
          PROVE  requests'[j].id \in Open /\ requests'[j].id # c
      <4>1. j + 1 \in DOMAIN requests /\ j + 1 # 1 /\ requests'[j] = requests[j + 1]
        BY <2>2
      <4>. QED
        BY <2>2, <4>1 DEF Open
    <3>. QED
      BY <3>1, <3>2 DEF Open
  <2>5. UNCHANGED <<LinkState, calls, pending, Returned>> /\ LinkState = "up"
    BY <2>1 DEF LinkState, Coming, Returned
  <2>6. c # calls => ServedOutcome' = ServedOutcome
    BY <2>1, <2>2 DEF ServedOutcome, Outcome
  <2>. QED
    BY <2>3, <2>4, <2>5, <2>6 DEF Atomic!Execute, LinkState, Open, Returned
<1>5. CASE Close \/ LinkBreaks
  <2>1. /\ up' = FALSE /\ requests' = <<>>
        /\ UNCHANGED <<server, calls, pending, result, served>>
        /\ stage' = stage \/ stage' = "closed"
        /\ ~up => stage = "open"
    BY <1>5 DEF Close, LinkBreaks, connectVars
  <2>2. LinkState = (IF up THEN "up" ELSE "down") /\ LinkState' = "down"
    BY <1>0, <2>1 DEF LinkState, Coming
  <2>3. UNCHANGED <<calls, pending, Returned, ServedOutcome>> /\ Open' = {}
    BY <1>0, <2>1 DEF Open, Returned, ServedOutcome, Outcome
  <2>4. ~up => Open = {}
    BY <1>0 DEF NothingUnread, Open
  <2>. QED
    BY <1>0, <2>2, <2>3, <2>4 DEF Atomic!Break, Atomic!atomicVars, LinkState, Open, Returned
<1>6. CASE Rests
  BY <1>6 DEF Rests, vars, callVars, connectVars, Atomic!atomicVars, Coming, ServedOutcome, Outcome
<1>. QED
  BY <1>1, <1>2, <1>3, <1>4, <1>5, <1>6 DEF Next

\* For any number of calls, any peer and any loss of the connection, the client
\* implements calls that are atomic: in order, at most once, each with its own
\* answer or none.
THEOREM AtomicRefinement == Spec => ImplementsAtomicCalls
<1>1. Init => Atomic!AtomicInit
  <2>. SUFFICES ASSUME Init PROVE Atomic!AtomicInit
    OBVIOUS
  <2>1. /\ requests = <<>> /\ calls = 0 /\ pending = NONE /\ served = NotServed
        /\ up \/ Coming
    BY DEF Init, Coming
  <2>2. ServedOutcome = Err("transport")
    BY <2>1 DEF ServedOutcome, Outcome, NotServed, Exception
  <2>. QED
    BY <2>1, <2>2, NoQueue DEF Atomic!AtomicInit
<1>2. RpcInv /\ NothingUnread /\ [Next]_vars =>
        [Atomic!Connect \/ Atomic!Begin \/ Atomic!Execute \/ Atomic!Return
           \/ Atomic!Break]_Atomic!atomicVars
  <2>1. CASE Next
    BY <2>1, AtomicStep
  <2>2. CASE UNCHANGED vars
    BY <2>2 DEF vars, callVars, connectVars, Atomic!atomicVars, Coming, ServedOutcome, Outcome
  <2>. QED
    BY <2>1, <2>2
<1>3. Init => NothingUnread
  BY DEF Init, NothingUnread
<1>4. Spec => []NothingUnread
  BY <1>3, NothingUnreadStep, RpcInvariant, PTL DEF Spec
<1>. QED
  BY <1>1, <1>2, <1>4, RpcInvariant, PTL DEF Spec, ImplementsAtomicCalls, Atomic!AtomicSpec

-----------------------------------------------------------------------------
(* Registration *)

LEMMA RegistrationMethod ==
  /\ Rpc("registerExtension") = "registerExtension"
  /\ Methods["registerExtension"].result = "status"
BY DEF Rpc, Methods, RegisterExtension, Method

\* The answers that osquery may write to a registration.
RegistrationForm ==
  /\ server = "osquery" /\ served.call.wrapper = "registerExtension"
  /\ served.answer.type = "reply" /\ served.answer.body # BAD
  /\ HasResult("registerExtension", served.answer.body)
  => served.answer.body.result_value \in StatusForms

LEMMA RegistrationAnswers ==
  ASSUME server = "osquery", NEW args, NEW a \in Answers("registerExtension", args),
         a.type = "reply", a.body # BAD, HasResult("registerExtension", a.body)
  PROVE  a.body.result_value \in StatusForms
<1>1. a # Exception
  BY DEF Exception
<1>2. a \in ManagerAnswers("registerExtension")
  BY <1>1 DEF Answers
<1>3. a = Answered(<<>>, {}) \/ \E w \in StatusForms : a = Answered([result_value |-> w], {})
  <2>1. a # Answered(BAD, {})
    BY DEF Answered
  <2>. QED
    BY <1>1, <1>2, <2>1, RegistrationMethod DEF ManagerAnswers
<1>4. a # Answered(<<>>, {})
  <2>1. ~HasResult("registerExtension", <<>>)
    BY RegistrationMethod, NoQueue DEF HasResult
  <2>. QED
    BY <2>1 DEF Answered
<1>. QED
  BY <1>3, <1>4 DEF Answered

\* The stub and the wrapper return the uuid that is in the status.
LEMMA RegistrationOutcome ==
  ASSUME server = "osquery", NEW answer, answer.type = "reply",
         HasResult("registerExtension", answer.body),
         NEW w \in StatusForms, w = answer.body.result_value,
         {"code", "uuid"} \subseteq DOMAIN w, w.code = 0
  PROVE  Outcome("registerExtension", answer) = Ok(w.uuid)
<1>. DEFINE v == Read(ExtensionStatus, w)
<1>1. v.code = 0 /\ v.uuid = w.uuid
  BY DEF Read, ExtensionStatus
<1>2. w.uuid # NONE
  BY RpcAssumption
<1>3. ReadValue("status", w) = v
  BY DEF ReadValue
<1>. HIDE DEF v
<1>4. Fold("registerExtension", v) = Ok(w.uuid)
  BY <1>1, <1>2 DEF Fold, StatusOk
<1>. QED
  BY <1>3, <1>4, RegistrationMethod DEF Outcome

LEMMA RegistrationFormInit == Init => RegistrationForm
BY DEF Init, RegistrationForm, NotServed

LEMMA RegistrationFormStep == RpcInv /\ RegistrationForm /\ [Next]_vars => RegistrationForm'
<1>. SUFFICES ASSUME RegistrationForm, [Next]_vars PROVE RegistrationForm'
  OBVIOUS
<1>1. CASE server' = server /\ served' = served
  BY <1>1 DEF RegistrationForm
<1>2. CASE server' = server /\ served' = NotServed
  BY <1>2 DEF RegistrationForm, NotServed
<1>3. CASE Serve
  <2>1. PICK a \in Answers(Rpc(Head(requests).wrapper), Head(requests).args) :
          served' = served \/ served' = [call |-> Head(requests), answer |-> a]
    BY <1>3 DEF Serve
  <2>2. server' = server
    BY <1>3 DEF Serve
  <2>3. CASE served' = [call |-> Head(requests), answer |-> a]
    <3>1. Head(requests).wrapper = "registerExtension" =>
            a \in Answers("registerExtension", Head(requests).args)
      BY RegistrationMethod
    <3>. QED
      BY <2>2, <2>3, <3>1, RegistrationAnswers DEF RegistrationForm
  <2>. QED
    BY <1>1, <2>1, <2>2, <2>3
<1>4. Serve \/ (server' = server /\ (served' = served \/ served' = NotServed))
  <2>1. CASE Calls
    BY <2>1 DEF Calls, Send
  <2>2. CASE SocketChanges \/ DeadlinePasses \/ Connecting
    BY <2>2 DEF SocketChanges, DeadlinePasses, Connecting, Look, CheckDeadline, ConnectUnix,
       ConnectPipe, Advance, callVars, vars
  <2>3. CASE ReceiveReply \/ ReceiveRest \/ ReceiveEof \/ Close \/ LinkBreaks
    BY <2>3 DEF ReceiveReply, ReceiveRest, ReceiveEof, Close, LinkBreaks
  <2>4. CASE UNCHANGED vars \/ Rests
    BY <2>4 DEF vars, callVars, Rests
  <2>. QED
    BY <2>1, <2>2, <2>3, <2>4 DEF Next
<1>. QED
  BY <1>1, <1>2, <1>3, <1>4

\* The client holds the uuid that osquery gave out, as long as the connection is
\* whole and has nothing left on it.
THEOREM RegistrationsKept == Spec => []RegistrationKept
<1>1. RpcInv /\ RegistrationForm => RegistrationKept
  <2>. SUFFICES ASSUME RpcInv, RegistrationForm,
                       server = "osquery", InStep, pending = NONE,
                       served.call.wrapper = "registerExtension",
                       served.answer.body # BAD, served.answer.type = "reply",
                       HasResult("registerExtension", served.answer.body),
                       {"code", "uuid"} \subseteq DOMAIN served.answer.body.result_value,
                       served.answer.body.result_value.code = 0
                PROVE  result.outcome = Ok(served.answer.body.result_value.uuid)
    BY DEF RegistrationKept
  <2>1. served.answer.body.result_value \in StatusForms
    BY DEF RegistrationForm
  <2>2. served.call.id # 0
    BY DEF RpcInv, LatestServed, NotServed
  <2>3. up /\ DOMAIN replies = {}
    BY NoQueue DEF InStep
  <2>4. result.outcome = Outcome("registerExtension", served.answer)
    BY <2>2, <2>3 DEF RpcInv, AnswerKept
  <2>5. Outcome("registerExtension", served.answer) = Ok(served.answer.body.result_value.uuid)
    BY <2>1, RegistrationOutcome
  <2>. QED
    BY <2>4, <2>5
<1>2. Spec => []RegistrationForm
  BY RegistrationFormInit, RegistrationFormStep, RpcInvariant, PTL DEF Spec
<1>. QED
  BY <1>1, <1>2, RpcInvariant, PTL

-----------------------------------------------------------------------------
(* Plugin calls *)

\* osquery's requests of an extension.
ExtensionCalls ==
  server = "extension" => \A j \in DOMAIN requests :
    /\ requests[j].wrapper \in {"ping", "shutdown", "call"}
    /\ requests[j].wrapper = "call" => requests[j].args \in CallForms

\* What the extension's handler answers to a call is an answer of the plugin.
ServedByPlugin(call, answer) ==
  /\ call.args \in CallForms /\ "request" \in DOMAIN call.args
  /\ \E a \in PluginCall(call.args.item, call.args.request) :
       answer = Answered([result_value |-> WriteResponse(PluginResponseToWire(a.result))],
                         a.invoked)

PluginServed ==
  server = "extension" /\ served.answer.type # "exception" =>
    IF served.call.wrapper = "call" THEN ServedByPlugin(served.call, served.answer)
    ELSE served.answer.invoked = {}

LEMMA PluginAnswers ==
  ASSUME server = "extension", NEW call,
         call.wrapper \in {"ping", "shutdown", "call"},
         call.wrapper = "call" => call.args \in CallForms,
         NEW a \in Answers(Rpc(call.wrapper), call.args), a.type # "exception"
  PROVE  IF call.wrapper = "call" THEN ServedByPlugin(call, a) ELSE a.invoked = {}
<1>1. a # Exception /\ Rpc(call.wrapper) = call.wrapper
  BY DEF Exception, Rpc
<1>2. /\ ArgsAccepted(call.wrapper, call.args)
      /\ a \in ExtensionAnswers(call.wrapper, call.args)
  BY <1>1 DEF Answers
<1>3. CASE call.wrapper # "call"
  <2>1. \E body : a = Answered(body, {})
    BY <1>1, <1>2, <1>3 DEF ExtensionAnswers
  <2>. QED
    BY <1>3, <2>1 DEF Answered
<1>4. CASE call.wrapper = "call"
  <2>1. "request" \in DOMAIN call.args
    BY <1>2, <1>4 DEF ArgsAccepted, Methods, ExtensionMethods, Call, Method
  <2>2. \E p \in PluginCall(call.args.item, call.args.request) :
          a = Answered([result_value |-> WriteResponse(PluginResponseToWire(p.result))], p.invoked)
    BY <1>1, <1>2, <1>4 DEF ExtensionAnswers
  <2>. QED
    BY <1>4, <2>1, <2>2 DEF ServedByPlugin
<1>. QED
  BY <1>3, <1>4

LEMMA PluginServedInit == Init => ExtensionCalls /\ PluginServed
<1>. SUFFICES ASSUME Init PROVE ExtensionCalls /\ PluginServed
  OBVIOUS
<1>1. DOMAIN requests = {} /\ served = NotServed
  BY NoQueue DEF Init
<1>. QED
  BY <1>1 DEF ExtensionCalls, PluginServed, NotServed, Exception

LEMMA PluginServedStep ==
  RpcInv /\ ExtensionCalls /\ PluginServed /\ [Next]_vars => (ExtensionCalls /\ PluginServed)'
<1>. SUFFICES ASSUME RpcInv, ExtensionCalls, PluginServed, [Next]_vars
              PROVE  (ExtensionCalls /\ PluginServed)'
  OBVIOUS
<1>1. IsQueue(requests)
  BY DEF RpcInv, Queues
<1>2. CASE Calls
  <2>1. PICK wrapper, args :
          /\ Send(wrapper, args)
          /\ server = "extension" => /\ wrapper \in {"ping", "shutdown", "call"}
                                     /\ wrapper = "call" => args \in CallForms
    BY <1>2 DEF Calls
  <2>. DEFINE call == [id |-> calls + 1, seq |-> seq + 1, wrapper |-> wrapper, args |-> args]
  <2>2. /\ served' = NotServed /\ server' = server
        /\ requests' = Append(requests, call) \/ requests' = requests
    BY <2>1 DEF Send
  <2>3. call.wrapper = wrapper /\ call.args = args
    OBVIOUS
  <2>. HIDE DEF call
  <2>4. \A j \in DOMAIN requests' :
          requests'[j] = call \/ \E k \in DOMAIN requests : requests'[j] = requests[k]
    <3>1. CASE requests' = requests
      BY <3>1
    <3>2. CASE requests' = Append(requests, call)
      <4>1. /\ DOMAIN Append(requests, call) = 1 .. Len(requests) + 1
            /\ DOMAIN requests = 1 .. Len(requests) /\ Len(requests) \in Nat
            /\ \A i \in 1 .. Len(requests) : Append(requests, call)[i] = requests[i]
            /\ Append(requests, call)[Len(requests) + 1] = call
        BY <1>1, AppendToQueue
      <4>. QED
        BY <3>2, <4>1
    <3>. QED
      BY <2>2, <3>1, <3>2
  <2>5. ExtensionCalls'
    BY <2>1, <2>2, <2>3, <2>4 DEF ExtensionCalls
  <2>6. PluginServed'
    BY <2>2 DEF PluginServed, NotServed, Exception
  <2>. QED
    BY <2>5, <2>6
<1>3. CASE Serve
  <2>. DEFINE q == Head(requests)
  <2>1. PICK a \in Answers(Rpc(q.wrapper), q.args) :
          served' = IF q.id = calls THEN [call |-> q, answer |-> a] ELSE served
    BY <1>3 DEF Serve
  <2>2. server' = server /\ requests # <<>> /\ requests' = Tail(requests)
    BY <1>3 DEF Serve
  <2>3. /\ 1 \in DOMAIN requests /\ q = requests[1]
        /\ \A j \in DOMAIN requests' : \E k \in DOMAIN requests : requests'[j] = requests[k]
    <3>1. /\ Len(requests) \in Nat \ {0} /\ q = requests[1]
          /\ DOMAIN requests = 1 .. Len(requests) /\ DOMAIN requests' = 1 .. Len(requests) - 1
          /\ \A j \in 1 .. Len(requests) - 1 : requests'[j] = requests[j + 1]
      BY <1>1, <2>2, TailOfQueue
    <3>2. \A j \in 1 .. Len(requests) - 1 : j + 1 \in DOMAIN requests
      BY <3>1
    <3>. QED
      BY <3>1, <3>2
  <2>4. ExtensionCalls'
    BY <2>2, <2>3 DEF ExtensionCalls
  <2>5. PluginServed'
    <3>1. CASE served' = served
      BY <2>2, <3>1 DEF PluginServed
    <3>2. CASE served' = [call |-> q, answer |-> a]
      <4>1. server = "extension" => /\ q.wrapper \in {"ping", "shutdown", "call"}
                                    /\ q.wrapper = "call" => q.args \in CallForms
        BY <2>3 DEF ExtensionCalls
      <4>2. server = "extension" /\ a.type # "exception" =>
              IF q.wrapper = "call" THEN ServedByPlugin(q, a) ELSE a.invoked = {}
        BY <4>1, PluginAnswers
      <4>3. served'.call = q /\ served'.answer = a
        BY <3>2
      <4>. HIDE DEF q
      <4>. QED
        BY <2>2, <4>2, <4>3 DEF PluginServed, ServedByPlugin
    <3>. QED
      BY <2>1, <3>1, <3>2
  <2>. QED
    BY <2>4, <2>5
<1>4. CASE /\ server' = server /\ served' = served
           /\ requests' = requests \/ requests' = <<>>
  <2>1. ExtensionCalls'
    BY <1>4, NoQueue DEF ExtensionCalls
  <2>. QED
    BY <1>4, <2>1 DEF PluginServed, ServedByPlugin
<1>5. \/ Calls \/ Serve
      \/ /\ server' = server /\ served' = served
         /\ requests' = requests \/ requests' = <<>>
  <2>1. CASE SocketChanges \/ DeadlinePasses \/ Connecting
    BY <2>1 DEF SocketChanges, DeadlinePasses, Connecting, Look, CheckDeadline, ConnectUnix,
       ConnectPipe, Advance, callVars, vars
  <2>2. CASE ReceiveReply \/ ReceiveRest \/ ReceiveEof \/ Close \/ LinkBreaks
    BY <2>2 DEF ReceiveReply, ReceiveRest, ReceiveEof, Close, LinkBreaks
  <2>3. CASE UNCHANGED vars \/ Rests
    BY <2>3 DEF vars, callVars, Rests
  <2>. QED
    BY <2>1, <2>2, <2>3 DEF Next
<1>. QED
  BY <1>2, <1>3, <1>4, <1>5

LEMMA PluginServedAlways == Spec => []PluginServed
<1>1. Spec => [](ExtensionCalls /\ PluginServed)
  BY PluginServedInit, PluginServedStep, RpcInvariant, PTL DEF Spec
<1>. QED
  BY <1>1, PTL

\* For every request of osquery, a callback runs with arguments of the request.
THEOREM ArgumentsAreGenuine == Spec => []ArgumentsGenuine
<1>1. PluginServed => ArgumentsGenuine
  <2>. SUFFICES ASSUME PluginServed, server = "extension", served.answer.type = "reply",
                       NEW i \in served.answer.invoked
                PROVE  Genuine(served.call.args.request, i)
    BY DEF ArgumentsGenuine
  <2>1. ServedByPlugin(served.call, served.answer)
    BY DEF PluginServed
  <2>2. PICK a \in PluginCall(served.call.args.item, served.call.args.request) :
          served.answer = Answered([result_value |-> WriteResponse(PluginResponseToWire(a.result))],
                                   a.invoked)
    BY <2>1 DEF ServedByPlugin
  <2>3. i \in a.invoked
    BY <2>2 DEF Answered
  <2>4. ContextIsList(served.call.args.request)
    BY <2>1, RpcAssumption DEF ServedByPlugin
  <2>. QED
    BY <2>3, <2>4, GenuineCalls
<1>. QED
  BY <1>1, PluginServedAlways, PTL

LEMMA CallMethod ==
  Rpc("call") = "call" /\ Methods["call"].result = "response"
BY DEF Rpc, Methods, ExtensionMethods, Call, Method

\* For every request of osquery, what the call returns to it says what became
\* of the callbacks.
THEOREM CallsAreTruthful == Spec => []ToldTruth
<1>1. RpcInv /\ PluginServed => ToldTruth
  <2>. SUFFICES ASSUME RpcInv, PluginServed, server = "extension", result # NONE,
                       result.wrapper = "call", result.outcome.ok
                PROVE  Truthful(served.call.args.item, served.call.args.request,
                                result.outcome.value, served.answer.invoked)
    BY DEF ToldTruth
  <2>1. result.outcome # Err("transport")
    BY DEF Err
  <2>2. served.call.wrapper = "call" /\ result.outcome = Outcome("call", served.answer)
    BY <2>1 DEF RpcInv, ReplyIsOwn
  <2>3. served.answer.type # "exception"
    BY <2>1, <2>2 DEF Outcome
  <2>4. PICK a \in PluginCall(served.call.args.item, served.call.args.request) :
          served.answer = Answered([result_value |-> WriteResponse(PluginResponseToWire(a.result))],
                                   a.invoked)
    BY <2>2, <2>3 DEF PluginServed, ServedByPlugin
  <2>5. /\ served.answer.invoked = a.invoked
        /\ served.answer.body.result_value = WriteResponse(PluginResponseToWire(a.result))
    BY <2>4 DEF Answered
  <2>6. result.outcome = Ok(ReadResponse(served.answer.body.result_value))
    <3>1. ReadValue("response", served.answer.body.result_value)
            = ReadResponse(served.answer.body.result_value)
      BY DEF ReadValue
    <3>. QED
      BY <2>1, <2>2, <3>1, CallMethod DEF Outcome
  <2>7. result.outcome.value = Told(a.result)
    BY <2>5, <2>6 DEF Ok, Told
  <2>. QED
    BY <2>5, <2>7, TruthfulCalls
<1>. QED
  BY <1>1, RpcInvariant, PluginServedAlways, PTL

\* A call of osquery is carried out once and whole by the plugin it reaches.
THEOREM CallbacksRunOnce == Spec => []CallbacksOnce
<1>1. PluginServed => CallbacksOnce
  <2>. SUFFICES ASSUME PluginServed, server = "extension", served.answer.type = "reply",
                       served.call.wrapper = "call"
                PROVE  Thorough(served.call.args.item, served.call.args.request,
                                served.answer.invoked)
    BY DEF CallbacksOnce
  <2>1. PICK a \in PluginCall(served.call.args.item, served.call.args.request) :
          served.answer = Answered([result_value |-> WriteResponse(PluginResponseToWire(a.result))],
                                   a.invoked)
    BY DEF PluginServed, ServedByPlugin
  <2>2. served.answer.invoked = a.invoked
    BY <2>1 DEF Answered
  <2>. QED
    BY <2>2, ThoroughCalls
<1>. QED
  BY <1>1, PluginServedAlways, PTL
=============================================================================
