---------------------------- MODULE AtomicCalls ----------------------------
(***************************************************************************)
(* What the Thrift client promises to its caller, without sequence         *)
(* numbers, message names or bytes left on a connection: calls are made    *)
(* one at a time and executed in the order they were made, each at most    *)
(* once; a call returns what its own execution answered, or that it is     *)
(* Lost, which does not say whether it was or will be executed.            *)
(***************************************************************************)
EXTENDS Naturals

CONSTANTS NoResult, Lost

VARIABLES
  link,       \* "coming", "up" or "down"
  made,       \* calls made
  calling,    \* the latest call has not returned
  open,       \* calls that may still be executed, by number
  answer,     \* what the latest call's execution answered, Lost if it was not
  returned    \* what the latest call returned

atomicVars == <<link, made, calling, open, answer, returned>>

AtomicInit ==
  /\ link \in {"coming", "up"}
  /\ made = 0 /\ calling = FALSE /\ open = {}
  /\ answer = Lost /\ returned = NoResult

Connect ==
  /\ link = "coming" /\ link' \in {"up", "down"}
  /\ UNCHANGED <<made, calling, open, answer, returned>>

\* Without a link a call is lost at once.
Begin ==
  /\ link # "coming" /\ ~calling
  /\ made' = made + 1 /\ answer' = Lost
  /\ IF link = "up"
     THEN open' = open \cup {made'} /\ calling' = TRUE /\ returned' = NoResult
     ELSE returned' = Lost /\ UNCHANGED <<open, calling>>
  /\ UNCHANGED link

\* The caller may have been told Lost before its call is executed.
Execute ==
  /\ link = "up"
  /\ \E c \in open :
       /\ \A d \in open : c <= d
       /\ open' = open \ {c}
       /\ c # made => answer' = answer
  /\ UNCHANGED <<link, made, calling, returned>>

Return ==
  /\ calling /\ calling' = FALSE
  /\ returned' \in {answer, Lost}
  /\ UNCHANGED <<link, made, open, answer>>

\* What was not executed by now never is.
Break ==
  /\ link = "up" /\ link' = "down"
  /\ open' = {}
  /\ UNCHANGED <<made, calling, answer, returned>>

AtomicSpec ==
  AtomicInit /\ [][Connect \/ Begin \/ Execute \/ Return \/ Break]_atomicVars
=============================================================================
