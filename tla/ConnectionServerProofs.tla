----------------------- MODULE ConnectionServerProofs -----------------------
(***************************************************************************)
(* Theorems about ConnectionServer, for any number of connections, any     *)
(* limit and any number of workers.                                        *)
(***************************************************************************)
EXTENDS ConnectionServer, FiniteSetTheorems, SequenceTheorems, TLAPS

-----------------------------------------------------------------------------
(* Counting connections *)

(* Sets of connections are finite.                                         *)
LEMMA FiniteConns ==
  ASSUME NEW S \in SUBSET Conns
  PROVE  IsFiniteSet(S) /\ Cardinality(S) \in Nat
BY ConnectionAssumption, FS_Subset, FS_CardinalityType

(* A set of one connection or fewer has at most one member.                *)
LEMMA OneOrNone ==
  ASSUME NEW S \in SUBSET Conns, Cardinality(S) <= 1,
         NEW c \in S, NEW d \in S
  PROVE  c = d
<1>1. IsFiniteSet(S) /\ Cardinality(S) \in Nat
  BY FiniteConns
<1>2. IsFiniteSet(S \ {c}) /\ Cardinality(S \ {c}) = Cardinality(S) - 1
  BY <1>1, FS_RemoveElement
<1>3. Cardinality(S \ {c}) \in Nat
  BY FiniteConns
<1>4. Cardinality(S \ {c}) = 0
  BY <1>1, <1>2, <1>3
<1>5. S \ {c} = {}
  BY <1>2, <1>4, FS_EmptySet
<1>. QED
  BY <1>5

(* How one task's step changes who holds a permit and who is counted.      *)
LEMMA MoveCounts ==
  ASSUME TypeOK, NEW c \in Conns, NEW to \in ConnStates, Move(c, to)
  PROVE  /\ conn' \in [Conns -> ConnStates]
         /\ conn'[c] = to
         /\ \A d \in Conns \ {c} : conn'[d] = conn[d]
         /\ Holders' = IF to \in {"none", "pending"} THEN Holders \ {c}
                       ELSE Holders \cup {c}
         /\ Counted' = IF to \in {"reading", "direct", "inplace"}
                       THEN Counted \cup {c} ELSE Counted \ {c}
         /\ Direct' = IF to = "direct" THEN Direct \cup {c} ELSE Direct \ {c}
BY DEF TypeOK, Move, Holders, Counted, Direct, ConnStates

(* ...and what that does to their number.                                  *)
LEMMA CountChange ==
  ASSUME NEW S \in SUBSET Conns, NEW c \in Conns
  PROVE  /\ Cardinality(S) \in Nat
         /\ Cardinality(S \cup {c}) = IF c \in S THEN Cardinality(S)
                                      ELSE Cardinality(S) + 1
         /\ Cardinality(S \ {c}) = IF c \in S THEN Cardinality(S) - 1
                                   ELSE Cardinality(S)
         /\ Cardinality(S \ {c}) \in Nat
<1>1. IsFiniteSet(S)
  BY FiniteConns
<1>2. Cardinality(S) \in Nat /\ Cardinality(S \ {c}) \in Nat
  BY FiniteConns
<1>3. Cardinality(S \cup {c}) = IF c \in S THEN Cardinality(S)
                                ELSE Cardinality(S) + 1
  BY <1>1, FS_AddElement
<1>4. Cardinality(S \ {c}) = IF c \in S THEN Cardinality(S) - 1
                             ELSE Cardinality(S)
  BY <1>1, FS_RemoveElement
<1>. QED
  BY <1>2, <1>3, <1>4

-----------------------------------------------------------------------------
(* The inductive invariant *)

\* A server that was just built holds every permit and serves nobody.
LEMMA InitConn == Init => TypeOK /\ ConnInv
<1>. SUFFICES ASSUME Init PROVE TypeOK /\ ConnInv
  OBVIOUS
<1>1. TypeOK
  BY ConnectionAssumption DEF Init, TypeOK, ListenerStates, ConnStates
<1>2. Holders = {} /\ Counted = {} /\ Direct = {}
  BY DEF Init, Holders, Counted, Direct
<1>3. BacklogPending
  BY DEF Init, BacklogPending
<1>4. PermitsConserved
  BY <1>2, FS_EmptySet, ConnectionAssumption DEF Init, PermitsConserved, InHand
<1>5. NeverUndercounted /\ AtMostOneDirect
  BY <1>2, FS_EmptySet DEF Init, NeverUndercounted, AtMostOneDirect
<1>. QED
  BY <1>1, <1>3, <1>4, <1>5 DEF ConnInv

(* The steps, by what they change.                                         *)
LEMMA StepKinds ==
  ASSUME [Next]_vars
  PROVE  \/ AcquirePermit \/ Accept \/ AcceptFails \/ SeeStop \/ ReportError
         \/ DropServer \/ Stop \/ DropHandle
         \/ \E c \in Conns : Connect(c)
         \/ \E c \in Conns : SendRequest(c)
         \/ \E c \in Conns : StartTask(c)
         \/ \E c \in Conns : Dispatch(c) \/ RunOn(c)
         \/ \E c \in Conns : HandlerReturns(c)
         \/ \E c \in Conns : HandlerPanics(c)
         \/ \E c \in Conns : Leave(c)
         \/ \E c \in Conns : EndTask(c)
         \/ UNCHANGED vars
BY DEF Next, Peer, Tasks, Loop, Down

(* What Accept takes from the backlog is a pending connection.             *)
LEMMA HeadPending ==
  ASSUME TypeOK, BacklogPending, backlog # <<>>
  PROVE  /\ Head(backlog) \in Conns
         /\ conn[Head(backlog)] = "pending"
         /\ Tail(backlog) \in Seq(Conns)
         /\ Len(backlog) \in Nat \ {0}
         /\ DOMAIN backlog = 1 .. Len(backlog)
         /\ Len(Tail(backlog)) = Len(backlog) - 1
         /\ DOMAIN Tail(backlog) = 1 .. (Len(backlog) - 1)
         /\ \A i \in 1 .. (Len(backlog) - 1) : Tail(backlog)[i] = backlog[i + 1]
         /\ Head(backlog) = backlog[1]
<1>1. backlog \in Seq(Conns)
  BY DEF TypeOK
<1>2. /\ Head(backlog) \in Conns
      /\ Tail(backlog) \in Seq(Conns)
      /\ Len(Tail(backlog)) = Len(backlog) - 1
      /\ \A i \in 1 .. Len(Tail(backlog)) : Tail(backlog)[i] = backlog[i + 1]
  BY <1>1, HeadTailProperties
<1>3. Len(backlog) \in Nat \ {0} /\ DOMAIN backlog = 1 .. Len(backlog)
  BY <1>1, LenProperties, EmptySeq
<1>4. DOMAIN Tail(backlog) = 1 .. (Len(backlog) - 1)
  BY <1>2, LenProperties
<1>5. Head(backlog) = backlog[1]
  BY <1>1
<1>6. conn[backlog[1]] = "pending"
  BY <1>3 DEF BacklogPending
<1>. QED
  BY <1>2, <1>3, <1>4, <1>5, <1>6

(* Types are preserved; the counter does not underflow because the task    *)
(* that counts down was counted.                                           *)
LEMMA TypeStep ==
  ASSUME TypeOK, ConnInv, [Next]_vars
  PROVE  TypeOK'
<1>. USE DEF TypeOK
<1>1. CASE AcquirePermit
  BY <1>1 DEF AcquirePermit, ListenerStates
<1>2. CASE Accept
  <2>1. Move(Head(backlog), "spawned") /\ Head(backlog) \in Conns
    BY <1>2, HeadPending DEF Accept, ConnInv
  <2>2. conn' \in [Conns -> ConnStates]
    BY <2>1, MoveCounts DEF ConnStates
  <2>3. backlog' \in Seq(Conns)
    BY <1>2, HeadPending DEF Accept, ConnInv
  <2>. QED
    BY <1>2, <2>2, <2>3 DEF Accept, ListenerStates
<1>3. CASE AcceptFails \/ SeeStop
  <2>1. LeaveLoop /\ listener' \in ListenerStates
    BY <1>3 DEF AcceptFails, SeeStop, ListenerStates
  <2>2. conn' \in [Conns -> ConnStates]
    BY <2>1 DEF LeaveLoop, ConnStates
  <2>. QED
    BY <2>1, <2>2, EmptySeq DEF LeaveLoop
<1>4. CASE ReportError
  BY <1>4 DEF ReportError, ListenerStates
<1>5. CASE DropServer
  BY <1>5, ConnectionAssumption DEF DropServer, ListenerStates, ConnStates
<1>6. CASE Stop \/ DropHandle
  BY <1>6 DEF Stop, DropHandle
<1>7. ASSUME NEW c \in Conns, Connect(c) PROVE TypeOK'
  <2>1. conn' \in [Conns -> ConnStates]
    BY <1>7, MoveCounts DEF Connect, ConnStates
  <2>2. backlog' \in Seq(Conns)
    BY <1>7, AppendProperties DEF Connect
  <2>. QED
    BY <1>7, <2>1, <2>2 DEF Connect
<1>8. ASSUME NEW c \in Conns, SendRequest(c) PROVE TypeOK'
  BY <1>8 DEF SendRequest
<1>9. ASSUME NEW c \in Conns, StartTask(c) PROVE TypeOK'
  <2>1. conn' \in [Conns -> ConnStates]
    BY <1>9, MoveCounts DEF StartTask, ConnStates
  <2>. QED
    BY <1>9, <2>1 DEF StartTask, TaskOnly
<1>10. ASSUME NEW c \in Conns, Dispatch(c) \/ RunOn(c) PROVE TypeOK'
  <2>1. conn' \in [Conns -> ConnStates]
    BY <1>10, MoveCounts DEF Dispatch, RunOn, ConnStates
  <2>. QED
    BY <1>10, <2>1 DEF Dispatch, RunOn, TaskOnly
<1>11. ASSUME NEW c \in Conns, HandlerReturns(c) \/ HandlerPanics(c) PROVE TypeOK'
  <2>1. conn' \in [Conns -> ConnStates]
    BY <1>11, MoveCounts DEF HandlerReturns, HandlerPanics, ConnStates
  <2>. QED
    BY <1>11, <2>1 DEF HandlerReturns, HandlerPanics, TaskOnly
<1>12. ASSUME NEW c \in Conns, Leave(c) PROVE TypeOK'
  <2>1. conn' \in [Conns -> ConnStates]
    BY <1>12, MoveCounts DEF Leave, ConnStates
  <2>2. c \in Counted /\ Counted \in SUBSET Conns
    BY <1>12 DEF Leave, Counted
  <2>3. Cardinality(Counted) \in Nat /\ Cardinality(Counted \ {c}) \in Nat
        /\ Cardinality(Counted \ {c}) = Cardinality(Counted) - 1
    BY <2>2, CountChange
  <2>4. active' \in Nat
    BY <1>12, <2>3 DEF Leave, ConnInv, NeverUndercounted
  <2>. QED
    BY <1>12, <2>1, <2>4 DEF Leave, TaskOnly
<1>13. ASSUME NEW c \in Conns, EndTask(c) PROVE TypeOK'
  <2>1. conn' \in [Conns -> ConnStates]
    BY <1>13, MoveCounts DEF EndTask, ConnStates
  <2>. QED
    BY <1>13, <2>1 DEF EndTask, TaskOnly
<1>14. CASE UNCHANGED vars
  BY <1>14 DEF vars
<1>. QED
  BY <1>1, <1>2, <1>3, <1>4, <1>5, <1>6, <1>7, <1>8, <1>9, <1>10, <1>11, <1>12,
     <1>13, <1>14, StepKinds

(* The backlog and the pending connections stay in step.                   *)
LEMMA BacklogStep ==
  ASSUME TypeOK, ConnInv, [Next]_vars
  PROVE  BacklogPending'
<1>0. BacklogPending
  BY DEF ConnInv
<1>1. CASE Accept
  <2>. DEFINE h == Head(backlog)
  <2>1. h \in Conns /\ Move(h, "spawned") /\ backlog' = Tail(backlog)
    BY <1>0, <1>1, HeadPending DEF Accept
  <2>2. \A d \in Conns \ {h} : conn'[d] = conn[d]
    BY <2>1, MoveCounts DEF ConnStates
  <2>3. /\ DOMAIN backlog = 1 .. Len(backlog)
        /\ Len(backlog) \in Nat \ {0}
        /\ DOMAIN backlog' = 1 .. (Len(backlog) - 1)
        /\ \A i \in 1 .. (Len(backlog) - 1) : backlog'[i] = backlog[i + 1]
        /\ h = backlog[1]
    BY <1>0, <1>1, <2>1, HeadPending DEF Accept
  <2>4. ASSUME NEW i \in DOMAIN backlog'
        PROVE  /\ i \in Nat /\ i + 1 \in DOMAIN backlog
               /\ backlog'[i] = backlog[i + 1]
               /\ backlog[i + 1] # h
               /\ backlog[i + 1] \in Conns
    <3>1. i \in Nat /\ i >= 1 /\ i + 1 \in DOMAIN backlog /\ i + 1 # 1
          /\ 1 \in DOMAIN backlog
      BY <2>3
    <3>2. backlog[i + 1] \in Conns
      BY <3>1, <2>3, ElementOfSeq DEF TypeOK
    <3>. QED
      BY <1>0, <2>3, <3>1, <3>2 DEF BacklogPending
  <2>5. \A i \in DOMAIN backlog' : conn'[backlog'[i]] = "pending"
    BY <1>0, <2>2, <2>4 DEF BacklogPending
  <2>6. ASSUME NEW i \in DOMAIN backlog', NEW j \in DOMAIN backlog',
               backlog'[i] = backlog'[j]
        PROVE  i = j
    <3>1. i + 1 = j + 1
      BY <1>0, <2>4, <2>6 DEF BacklogPending
    <3>. QED
      BY <3>1, <2>4
  <2>7. Listening'
    BY <1>1 DEF Accept, Listening
  <2>. QED
    BY <2>5, <2>6, <2>7 DEF BacklogPending
<1>2. CASE AcceptFails \/ SeeStop
  BY <1>2 DEF AcceptFails, SeeStop, LeaveLoop, BacklogPending
<1>3. CASE AcquirePermit \/ ReportError \/ Stop \/ DropHandle \/ UNCHANGED vars
  BY <1>0, <1>3 DEF AcquirePermit, ReportError, Stop, DropHandle, vars,
     BacklogPending, Listening
<1>4. CASE DropServer
  BY <1>0, <1>4 DEF DropServer, BacklogPending, Listening
<1>5. ASSUME NEW c \in Conns, Connect(c) PROVE BacklogPending'
  <2>1. Move(c, "pending") /\ backlog' = Append(backlog, c) /\ Listening'
    BY <1>5 DEF Connect, Listening
  <2>2. conn'[c] = "pending" /\ \A d \in Conns \ {c} : conn'[d] = conn[d]
    BY <2>1, MoveCounts DEF ConnStates
  <2>3. /\ Len(backlog) \in Nat
        /\ DOMAIN backlog = 1 .. Len(backlog)
        /\ DOMAIN backlog' = 1 .. (Len(backlog) + 1)
        /\ \A i \in 1 .. Len(backlog) : backlog'[i] = backlog[i]
        /\ backlog'[Len(backlog) + 1] = c
    BY <2>1, AppendProperties, LenProperties DEF TypeOK
  <2>4. \A i \in DOMAIN backlog :
          backlog[i] \in Conns /\ backlog[i] # c /\ conn'[backlog[i]] = "pending"
    <3>1. \A i \in DOMAIN backlog : backlog[i] \in Conns
      BY <2>3, ElementOfSeq DEF TypeOK
    <3>. QED
      BY <1>0, <1>5, <2>2, <3>1 DEF BacklogPending, Connect
  <2>. QED
    BY <1>0, <2>1, <2>2, <2>3, <2>4 DEF BacklogPending
<1>6. ASSUME NEW c \in Conns,
             SendRequest(c) \/ StartTask(c) \/ Dispatch(c) \/ RunOn(c) \/ HandlerReturns(c)
             \/ HandlerPanics(c) \/ Leave(c) \/ EndTask(c)
      PROVE  BacklogPending'
  <2>1. backlog' = backlog /\ listener' = listener
    BY <1>6 DEF SendRequest, StartTask, Dispatch, RunOn, HandlerReturns, HandlerPanics,
       Leave, EndTask, TaskOnly
  <2>2. \A d \in Conns : conn[d] = "pending" => conn'[d] = "pending"
    BY <1>6 DEF TypeOK, SendRequest, StartTask, Dispatch, RunOn, HandlerReturns,
       HandlerPanics, Leave, EndTask, Move, Executing
  <2>3. \A i \in DOMAIN backlog : backlog[i] \in Conns
    BY LenProperties, ElementOfSeq DEF TypeOK
  <2>. QED
    BY <1>0, <2>1, <2>2, <2>3 DEF BacklogPending, Listening
<1>. QED
  BY <1>1, <1>2, <1>3, <1>4, <1>5, <1>6, StepKinds

-----------------------------------------------------------------------------
(* Permits *)

\* A step moves a permit between the semaphore, the accept loop and a task; it
\* neither makes nor loses one, unless the loop is left for good.
LEMMA PermitStep ==
  ASSUME TypeOK, ConnInv, [Next]_vars
  PROVE  PermitsConserved'
<1>0. /\ permits + InHand + Cardinality(Holders) = Limit
      /\ permits \in Nat
      /\ Limit \in Nat
      /\ Holders \in SUBSET Conns
      /\ Cardinality(Holders) \in Nat
  BY ConnectionAssumption, FiniteConns
     DEF ConnInv, PermitsConserved, TypeOK, Holders
<1>1. ASSUME permits' + InHand' + Cardinality(Holders)' = Limit
      PROVE  PermitsConserved'
  BY <1>1 DEF PermitsConserved
<1>2. CASE AcquirePermit
  <2>1. Holders' = Holders
    BY <1>2 DEF AcquirePermit, Holders
  <2>. QED
    BY <1>0, <1>1, <1>2, <2>1 DEF AcquirePermit, InHand
<1>3. CASE Accept
  <2>1. Head(backlog) \in Conns /\ conn[Head(backlog)] = "pending"
        /\ Move(Head(backlog), "spawned")
    BY <1>3, HeadPending DEF Accept, ConnInv
  <2>2. Holders' = Holders \cup {Head(backlog)}
    BY <2>1, MoveCounts DEF ConnStates
  <2>3. Head(backlog) \notin Holders
    BY <2>1 DEF Holders
  <2>4. Cardinality(Holders)' = Cardinality(Holders) + 1
    BY <1>0, <2>1, <2>2, <2>3, CountChange
  <2>. QED
    BY <1>0, <1>1, <1>3, <2>4 DEF Accept, InHand
<1>4. CASE AcceptFails \/ SeeStop
  <2>1. LeaveLoop /\ listener' # "accept"
    BY <1>4 DEF AcceptFails, SeeStop
  <2>2. Holders' = Holders
    BY <2>1 DEF LeaveLoop, Holders, TypeOK, ConnStates
  <2>. QED
    BY <1>0, <1>1, <2>1, <2>2 DEF LeaveLoop, InHand
<1>5. CASE ReportError \/ Stop \/ DropHandle \/ UNCHANGED vars
  <2>1. Holders' = Holders
    BY <1>5 DEF ReportError, Stop, DropHandle, vars, Holders
  <2>. QED
    BY <1>0, <1>1, <1>5, <2>1 DEF ReportError, Stop, DropHandle, vars, InHand
<1>6. CASE DropServer
  <2>1. Holders' = {}
    BY <1>6 DEF DropServer, Holders
  <2>. QED
    BY <1>0, <1>1, <1>6, <2>1, FS_EmptySet DEF DropServer, InHand
<1>7. ASSUME NEW c \in Conns,
             Connect(c) \/ StartTask(c) \/ Dispatch(c) \/ RunOn(c) \/ HandlerReturns(c)
             \/ HandlerPanics(c) \/ Leave(c) \/ SendRequest(c)
      PROVE  PermitsConserved'
  <2>1. Holders' = Holders
    BY <1>7 DEF TypeOK, Holders, Move, Connect, StartTask, Dispatch, RunOn,
       HandlerReturns, HandlerPanics, Leave, SendRequest, Executing
  <2>2. permits' = permits /\ listener' = listener
    BY <1>7 DEF Connect, StartTask, Dispatch, RunOn, HandlerReturns, HandlerPanics,
       Leave, SendRequest, TaskOnly
  <2>. QED
    BY <1>0, <1>1, <2>1, <2>2 DEF InHand
<1>8. ASSUME NEW c \in Conns, EndTask(c) PROVE PermitsConserved'
  <2>1. Holders' = Holders \ {c} /\ c \in Holders
    BY <1>8, MoveCounts DEF EndTask, ConnStates, Holders
  <2>2. Cardinality(Holders)' = Cardinality(Holders) - 1
    BY <1>0, <2>1, CountChange
  <2>. QED
    BY <1>0, <1>1, <1>8, <2>2 DEF EndTask, TaskOnly, InHand
<1>. QED
  BY <1>2, <1>3, <1>4, <1>5, <1>6, <1>7, <1>8, StepKinds

-----------------------------------------------------------------------------
(* The counter of active connections *)

\* The steps that leave the counter and the counted tasks alone, but may have
\* one of these start or end a call.
LEMMA CountedKept ==
  ASSUME TypeOK, ConnInv, [Next]_vars,
         \A c \in Conns : ~StartTask(c) /\ ~Leave(c) /\ ~HandlerPanics(c),
         ~DropServer
  PROVE  Counted' = Counted /\ active' = active
<1>1. CASE Accept
  <2>1. Head(backlog) \in Conns /\ conn[Head(backlog)] = "pending"
        /\ Move(Head(backlog), "spawned")
    BY <1>1, HeadPending DEF Accept, ConnInv
  <2>2. Counted' = Counted \ {Head(backlog)}
    BY <2>1, MoveCounts DEF ConnStates
  <2>3. Head(backlog) \notin Counted
    BY <2>1 DEF Counted
  <2>. QED
    BY <1>1, <2>2, <2>3 DEF Accept
<1>2. CASE AcceptFails \/ SeeStop
  <2>1. LeaveLoop
    BY <1>2 DEF AcceptFails, SeeStop
  <2>. QED
    BY <2>1 DEF LeaveLoop, Counted, TypeOK
<1>3. CASE AcquirePermit \/ ReportError \/ Stop \/ DropHandle \/ UNCHANGED vars
  BY <1>3 DEF AcquirePermit, ReportError, Stop, DropHandle, vars, Counted
<1>4. ASSUME NEW c \in Conns,
             Connect(c) \/ SendRequest(c) \/ Dispatch(c) \/ RunOn(c) \/ HandlerReturns(c)
             \/ EndTask(c)
      PROVE  Counted' = Counted /\ active' = active
  BY <1>4 DEF TypeOK, Counted, Move, Connect, SendRequest, Dispatch, RunOn,
     HandlerReturns, EndTask, Executing
<1>. QED
  BY <1>1, <1>2, <1>3, <1>4, StepKinds

\* A step that makes one more task counted also raises the counter.
LEMMA CountStep ==
  ASSUME TypeOK, ConnInv, [Next]_vars
  PROVE  NeverUndercounted'
<1>0. /\ Cardinality(Counted) <= active
      /\ active \in Nat
      /\ Counted \in SUBSET Conns
      /\ Cardinality(Counted) \in Nat
  BY FiniteConns DEF ConnInv, NeverUndercounted, TypeOK, Counted
<1>1. ASSUME NEW c \in Conns, StartTask(c) PROVE NeverUndercounted'
  <2>1. Counted' = Counted \cup {c} /\ active' = active + 1
    BY <1>1, MoveCounts DEF StartTask, ConnStates
  <2>2. Cardinality(Counted') \in Nat
        /\ Cardinality(Counted') <= Cardinality(Counted) + 1
    BY <1>0, <2>1, CountChange
  <2>. QED
    BY <1>0, <2>1, <2>2 DEF NeverUndercounted
<1>2. ASSUME NEW c \in Conns, Leave(c) PROVE NeverUndercounted'
  <2>1. Counted' = Counted \ {c} /\ active' = active - 1 /\ c \in Counted
    BY <1>2, MoveCounts DEF Leave, ConnStates, Counted
  <2>2. Cardinality(Counted') = Cardinality(Counted) - 1
    BY <1>0, <2>1, CountChange
  <2>. QED
    BY <1>0, <2>1, <2>2 DEF NeverUndercounted
<1>3. ASSUME NEW c \in Conns, HandlerPanics(c) PROVE NeverUndercounted'
  <2>1. Counted' = Counted \ {c} /\ active' = active
    BY <1>3, MoveCounts DEF HandlerPanics, ConnStates
  <2>2. Cardinality(Counted') \in Nat
        /\ Cardinality(Counted') <= Cardinality(Counted)
    BY <1>0, <2>1, CountChange
  <2>. QED
    BY <1>0, <2>1, <2>2 DEF NeverUndercounted
<1>4. CASE DropServer
  <2>1. Counted' = {} /\ active' = active
    BY <1>4 DEF DropServer, Counted
  <2>. QED
    BY <1>0, <2>1, FS_EmptySet DEF NeverUndercounted
<1>5. CASE Counted' = Counted /\ active' = active
  BY <1>0, <1>5 DEF NeverUndercounted
<1>. QED
  BY <1>1, <1>2, <1>3, <1>4, <1>5, CountedKept

(* A task that dispatches directly has read a counter of one, so it is the *)
(* only task counted and nobody else is in a direct call.                  *)
LEMMA DirectStep ==
  ASSUME TypeOK, ConnInv, [Next]_vars
  PROVE  AtMostOneDirect'
<1>0. /\ \A c, d \in Direct : c = d
      /\ Direct \in SUBSET Conns
      /\ Direct \subseteq Counted
      /\ Counted \in SUBSET Conns
  BY DEF ConnInv, AtMostOneDirect, Direct, Counted
<1>1. ASSUME NEW c \in Conns, Dispatch(c) \/ RunOn(c) PROVE AtMostOneDirect'
  <2>1. CASE active > 1
    <3>1. Direct' = Direct \ {c}
      BY <1>1, <2>1, MoveCounts DEF Dispatch, RunOn, ConnStates
    <3>. QED
      BY <1>0, <3>1 DEF AtMostOneDirect
  <2>2. CASE ~(active > 1)
    <3>1. Direct' = Direct \cup {c}
      BY <1>1, <2>2, MoveCounts DEF Dispatch, RunOn, ConnStates
    <3>2. c \in Counted
      BY <1>1 DEF Dispatch, RunOn, Executing, Counted
    <3>3. Cardinality(Counted) \in Nat /\ active \in Nat
      BY <1>0, FiniteConns DEF TypeOK
    <3>4. Cardinality(Counted) <= 1
      BY <2>2, <3>3 DEF ConnInv, NeverUndercounted
    <3>5. \A d \in Counted : d = c
      BY <1>0, <3>2, <3>4, OneOrNone
    <3>. QED
      BY <1>0, <3>1, <3>5 DEF AtMostOneDirect
  <2>. QED
    BY <2>1, <2>2
<1>2. CASE Accept
  <2>1. Head(backlog) \in Conns /\ Move(Head(backlog), "spawned")
    BY <1>2, HeadPending DEF Accept, ConnInv
  <2>2. Direct' = Direct \ {Head(backlog)}
    BY <2>1, MoveCounts DEF ConnStates
  <2>. QED
    BY <1>0, <2>2 DEF AtMostOneDirect
<1>3. CASE AcceptFails \/ SeeStop
  <2>1. LeaveLoop
    BY <1>3 DEF AcceptFails, SeeStop
  <2>2. Direct' = Direct
    BY <2>1 DEF LeaveLoop, Direct, TypeOK
  <2>. QED
    BY <1>0, <2>2 DEF AtMostOneDirect
<1>4. CASE AcquirePermit \/ ReportError \/ Stop \/ DropHandle \/ DropServer
           \/ UNCHANGED vars
  <2>1. Direct' \subseteq Direct
    BY <1>4 DEF AcquirePermit, ReportError, Stop, DropHandle, DropServer, vars,
       Direct
  <2>. QED
    BY <1>0, <2>1 DEF AtMostOneDirect
<1>5. ASSUME NEW c \in Conns,
             Connect(c) \/ SendRequest(c) \/ StartTask(c) \/ HandlerReturns(c)
             \/ HandlerPanics(c) \/ Leave(c) \/ EndTask(c)
      PROVE  AtMostOneDirect'
  <2>1. Direct' \subseteq Direct
    BY <1>5 DEF TypeOK, Direct, Move, Connect, SendRequest, StartTask,
       HandlerReturns, HandlerPanics, Leave, EndTask, Executing
  <2>. QED
    BY <1>0, <2>1 DEF AtMostOneDirect
<1>. QED
  BY <1>1, <1>2, <1>3, <1>4, <1>5, StepKinds

-----------------------------------------------------------------------------
(* Theorems *)

(* The types and the invariant hold in every state, so in particular the   *)
(* counter of active connections never wraps below zero.                   *)
THEOREM ConnectionInvariant == Spec => [](TypeOK /\ ConnInv)
<1>1. Init => TypeOK /\ ConnInv
  BY InitConn
<1>2. TypeOK /\ ConnInv /\ [Next]_vars => (TypeOK /\ ConnInv)'
  <2>. SUFFICES ASSUME TypeOK, ConnInv, [Next]_vars
                PROVE  TypeOK' /\ ConnInv'
    OBVIOUS
  <2>. QED
    BY TypeStep, BacklogStep, PermitStep, CountStep, DirectStep DEF ConnInv
<1>. QED
  BY <1>1, <1>2, PTL DEF Spec

(* Types, on their own.                                                    *)
THEOREM ConnectionTypes == Spec => []TypeOK
BY ConnectionInvariant, PTL

(* The connection cap neither leaks nor is exceeded.                       *)
THEOREM PermitsNeverLost == Spec => []PermitsConserved
<1>1. ConnInv => PermitsConserved
  BY DEF ConnInv
<1>. QED
  BY <1>1, ConnectionInvariant, PTL

(* The counter covers every connection being served.                       *)
THEOREM CounterCovers == Spec => []NeverUndercounted
<1>1. ConnInv => NeverUndercounted
  BY DEF ConnInv
<1>. QED
  BY <1>1, ConnectionInvariant, PTL

(* At most one worker is ever occupied by a plugin call that did not give  *)
(* up its queue first.                                                     *)
THEOREM OneDirectCall == Spec => []AtMostOneDirect
<1>1. ConnInv => AtMostOneDirect
  BY DEF ConnInv
<1>. QED
  BY <1>1, ConnectionInvariant, PTL

(* The counter's rule leaves a worker to the other connections, however    *)
(* many there are.                                                         *)
THEOREM WorkerAlwaysLeft == Spec => []WorkerLeft
<1>1. TypeOK /\ ConnInv => WorkerLeft
  <2>. SUFFICES ASSUME TypeOK, AtMostOneDirect, Workers > 1
                PROVE  Cardinality(Direct) < Workers
    BY DEF ConnInv, WorkerLeft
  <2>1. Direct \in SUBSET Conns /\ Workers \in Nat
    BY ConnectionAssumption DEF Direct
  <2>2. CASE Direct = {}
    BY <2>1, <2>2, FS_EmptySet
  <2>3. ASSUME NEW c \in Direct PROVE Cardinality(Direct) < Workers
    <3>1. Direct = {c}
      BY <2>3 DEF AtMostOneDirect
    <3>. QED
      BY <2>1, <3>1, FS_Singleton
  <2>. QED
    BY <2>2, <2>3
<1>. QED
  BY <1>1, ConnectionInvariant, PTL

-----------------------------------------------------------------------------
(* The abstract pool *)

Phase == IF Listening THEN "open" ELSE IF listener = "down" THEN "ended" ELSE "closing"

poolState == <<Phase, backlog, Holders, Direct>>

\* An empty server is an empty pool.
LEMMA InitPool == Init => Pool!PoolInit
BY DEF Init, Pool!PoolInit, Listening, Holders, Direct

(* The pool counts as the server does.                                     *)
LEMMA PoolCounts == ASSUME NEW S PROVE Pool!Cardinality(S) = Cardinality(S)
BY DEF Pool!Cardinality, Cardinality, Pool!IsFiniteSet, IsFiniteSet

(* The task of an admitted connection goes on: it may pin or free a worker. *)
LEMMA TaskGoesOn ==
  ASSUME TypeOK, AtMostOneDirect, AtMostOneDirect',
         NEW c \in Holders, NEW to \in ConnStates \ {"none", "pending"}, Move(c, to),
         UNCHANGED <<listener, backlog>>
  PROVE  [Pool!PoolNext]_poolState
<1>1. c \in Conns /\ Holders' = Holders
      /\ Direct' = IF to = "direct" THEN Direct \cup {c} ELSE Direct \ {c}
  <2>1. c \in Conns
    BY DEF Holders
  <2>. QED
    BY <2>1, MoveCounts
<1>2. UNCHANGED <<Phase, backlog, Holders>>
  BY <1>1 DEF Phase, Listening
<1>3. CASE Direct' = Direct
  BY <1>2, <1>3 DEF poolState
<1>4. CASE to = "direct" /\ c \notin Direct
  <2>1. Direct = {} /\ Direct' = {c}
    BY <1>1, <1>4 DEF AtMostOneDirect
  <2>. QED
    BY <1>2, <2>1 DEF Pool!PoolNext, Pool!Pin, Phase
<1>5. CASE to # "direct" /\ c \in Direct
  <2>1. Direct' = {} /\ Direct # {}
    BY <1>1, <1>5 DEF AtMostOneDirect
  <2>. QED
    BY <1>2, <2>1 DEF Pool!PoolNext, Pool!Unpin, Phase
<1>. QED
  BY <1>1, <1>3, <1>4, <1>5

(* Every step of the loop and the tasks is one of the pool, or none.        *)
LEMMA PoolStep ==
  ASSUME TypeOK, ConnInv, AtMostOneDirect', [Next]_vars
  PROVE  [Pool!PoolNext]_poolState
<1>. USE DEF Pool!PoolNext
<1>t. conn \in [Conns -> ConnStates] /\ AtMostOneDirect /\ BacklogPending
  BY DEF TypeOK, ConnInv
<1>1. CASE AcquirePermit \/ ReportError \/ Stop \/ DropHandle \/ UNCHANGED vars
  BY <1>1 DEF AcquirePermit, ReportError, Stop, DropHandle, vars, poolState, Phase,
     Listening, Holders, Direct
<1>2. CASE Accept
  <2>1. Head(backlog) \in Conns /\ conn[Head(backlog)] = "pending"
        /\ Move(Head(backlog), "spawned")
    BY <1>2, <1>t, HeadPending DEF Accept
  <2>2. Holders' = Holders \cup {Head(backlog)} /\ Direct' = Direct \ {Head(backlog)}
    BY <2>1, MoveCounts DEF ConnStates
  <2>3. Direct' = Direct
    BY <2>1, <2>2 DEF Direct
  <2>4. Cardinality(Holders) < Limit
    <3>1. permits + 1 + Cardinality(Holders) = Limit
      BY <1>2 DEF Accept, ConnInv, PermitsConserved, InHand
    <3>2. Holders \in SUBSET Conns
      BY DEF Holders
    <3>. QED
      BY <3>1, <3>2, FiniteConns, ConnectionAssumption DEF TypeOK
  <2>5. Pool!Admit
    BY <1>2, <2>2, <2>3, <2>4, PoolCounts DEF Accept, Pool!Admit, Listening
  <2>. QED
    BY <2>5
<1>3. CASE AcceptFails \/ SeeStop
  <2>1. Holders' = Holders /\ Direct' = Direct
    BY <1>3, <1>t DEF AcceptFails, SeeStop, LeaveLoop, Holders, Direct, ConnStates
  <2>2. Pool!Turn
    BY <1>3, <2>1 DEF AcceptFails, SeeStop, LeaveLoop, Listening, Pool!Turn
  <2>. QED
    BY <2>2
<1>4. CASE DropServer
  <2>1. Holders' = {} /\ Direct' = {} /\ Direct = {}
    BY <1>4 DEF DropServer, Holders, Direct, Executing
  <2>2. Pool!End
    BY <1>4, <2>1 DEF DropServer, Listening, Pool!End
  <2>. QED
    BY <2>2
<1>5. ASSUME NEW c \in Conns, Connect(c) PROVE [Pool!PoolNext]_poolState
  <2>1. Move(c, "pending") /\ conn[c] = "none"
    BY <1>5 DEF Connect
  <2>2. Holders' = Holders /\ Direct' = Direct /\ c \notin Holders
    BY <1>t, <2>1, MoveCounts DEF Holders, Direct, ConnStates
  <2>3. \A i \in DOMAIN backlog : backlog[i] # c
    BY <1>t, <2>1 DEF BacklogPending
  <2>4. Pool!Arrive
    BY <1>5, <2>2, <2>3 DEF Connect, Listening, Pool!Arrive
  <2>. QED
    BY <2>4
<1>6. ASSUME NEW c \in Conns, SendRequest(c) PROVE [Pool!PoolNext]_poolState
  BY <1>6 DEF SendRequest, poolState, Phase, Listening, Holders, Direct
<1>7. ASSUME NEW c \in Conns,
             \/ StartTask(c) \/ Dispatch(c) \/ RunOn(c)
             \/ HandlerReturns(c) \/ HandlerPanics(c) \/ Leave(c)
      PROVE  [Pool!PoolNext]_poolState
  <2>1. conn[c] \in {"spawned", "reading", "direct", "inplace"}
        /\ UNCHANGED <<listener, backlog>>
    BY <1>7 DEF StartTask, Dispatch, RunOn, HandlerReturns, HandlerPanics, Leave,
       Executing, TaskOnly
  <2>2. \E to \in ConnStates \ {"none", "pending"} : Move(c, to)
    BY <1>7 DEF StartTask, Dispatch, RunOn, HandlerReturns, HandlerPanics, Leave, ConnStates
  <2>3. c \in Holders
    BY <2>1 DEF Holders
  <2>. QED
    BY <1>t, <2>1, <2>2, <2>3, TaskGoesOn
<1>8. ASSUME NEW c \in Conns, EndTask(c) PROVE [Pool!PoolNext]_poolState
  <2>1. Move(c, "none") /\ c \in Holders \ Direct
    BY <1>8 DEF EndTask, Holders, Direct
  <2>2. Holders' = Holders \ {c} /\ Direct' = Direct
    BY <2>1, MoveCounts DEF ConnStates
  <2>3. Pool!Depart
    BY <1>8, <2>1, <2>2 DEF EndTask, TaskOnly, Listening, Pool!Depart
  <2>. QED
    BY <2>3
<1>. QED
  BY <1>1, <1>2, <1>3, <1>4, <1>5, <1>6, <1>7, <1>8, StepKinds

(* For any number of connections, any cap and any number of workers, the    *)
(* server admits in order of arrival, never above the cap, pins one worker *)
(* at most, and admits nobody once it stops.                               *)
THEOREM PoolRefinement == Spec => ImplementsPool
<1>1. TypeOK /\ ConnInv /\ (TypeOK /\ ConnInv)' /\ [Next]_vars
        => [Pool!PoolNext]_poolState
  BY PoolStep DEF ConnInv
<1>. QED
  BY <1>1, InitPool, ConnectionInvariant, PTL
  DEF Spec, ImplementsPool, Pool!PoolSpec, Pool!poolVars, poolState, Phase
=============================================================================
