--------------------------- MODULE ConnectionPool ---------------------------
(***************************************************************************)
(* What ExtensionServer promises about its connections, without permits,   *)
(* counters and workers: they are admitted in the order they arrived,      *)
(* never more than Limit at a time; at most one of them pins a worker with *)
(* its plugin call; once closed, the server admits nobody and ends when no *)
(* worker is pinned.                                                       *)
(***************************************************************************)
EXTENDS Naturals, Sequences, FiniteSets

CONSTANTS Conns, Limit

VARIABLES
  phase,    \* "open", "closing" or "ended"
  line,     \* connections that wait to be admitted
  inside,   \* connections that were admitted
  pinned    \* those of them that pin a worker

poolVars == <<phase, line, inside, pinned>>

PoolInit == phase = "open" /\ line = <<>> /\ inside = {} /\ pinned = {}

Arrive ==
  /\ phase = "open"
  /\ \E c \in Conns \ inside :
       /\ \A i \in DOMAIN line : line[i] # c
       /\ line' = Append(line, c)
  /\ UNCHANGED <<phase, inside, pinned>>

Admit ==
  /\ phase = "open" /\ line # <<>>
  /\ Cardinality(inside) < Limit
  /\ inside' = inside \cup {Head(line)}
  /\ line' = Tail(line)
  /\ UNCHANGED <<phase, pinned>>

Depart ==
  /\ \E c \in inside \ pinned : inside' = inside \ {c}
  /\ UNCHANGED <<phase, line, pinned>>

Pin ==
  /\ pinned = {}
  /\ \E c \in inside : pinned' = {c}
  /\ UNCHANGED <<phase, line, inside>>

Unpin ==
  /\ pinned # {} /\ pinned' = {}
  /\ UNCHANGED <<phase, line, inside>>

\* Whoever waits is turned away; who is inside may go on for a while.
Turn ==
  /\ phase = "open" /\ phase' = "closing"
  /\ line' = <<>>
  /\ UNCHANGED <<inside, pinned>>

End ==
  /\ phase = "closing" /\ phase' = "ended"
  /\ pinned = {} /\ inside' = {}
  /\ UNCHANGED <<line, pinned>>

PoolNext == Arrive \/ Admit \/ Depart \/ Pin \/ Unpin \/ Turn \/ End

PoolSpec == PoolInit /\ [][PoolNext]_poolVars
=============================================================================
