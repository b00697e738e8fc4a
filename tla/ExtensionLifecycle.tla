------------------------- MODULE ExtensionLifecycle -------------------------
(***************************************************************************)
(* What ExtensionManagerServer promises to the program that embeds it,     *)
(* without its threads, locks and RPCs: a server is run at most once, the  *)
(* first accepted shutdown request alone decides how run() ends, and each  *)
(* plugin is notified of the end at most once, never while the server is   *)
(* up.                                                                     *)
(***************************************************************************)
EXTENDS Naturals

CONSTANT Plugins

VARIABLES
  stage,   \* "built", "starting", "up", "stopping" or "over"
  asked,   \* the shutdown request that counts: "none", "stop" or "error"
  told     \* how often each plugin was notified

lifecycleVars == <<stage, asked, told>>

LifecycleInit ==
  /\ stage = "built"
  /\ asked = "none"
  /\ told = [p \in Plugins |-> 0]

Ask(m) ==
  /\ stage \in {"built", "starting", "up"}
  /\ asked = "none"
  /\ asked' = m
  /\ UNCHANGED <<stage, told>>

Begin == stage = "built" /\ stage' = "starting" /\ UNCHANGED <<asked, told>>

ComeUp == stage = "starting" /\ stage' = "up" /\ UNCHANGED <<asked, told>>

\* The server is dropped before it ran, or starting it fails: a request made
\* until then is forgotten.
Abandon ==
  /\ stage \in {"built", "starting"}
  /\ stage' = "over"
  /\ asked' = "none"
  /\ UNCHANGED told

Stop ==
  /\ stage = "up"
  /\ asked # "none"
  /\ stage' = "stopping"
  /\ UNCHANGED <<asked, told>>

Tell(p) ==
  /\ stage \in {"stopping", "over"}
  /\ told[p] = 0
  /\ told' = [told EXCEPT ![p] = 1]
  /\ UNCHANGED <<stage, asked>>

Finish == stage = "stopping" /\ stage' = "over" /\ UNCHANGED <<asked, told>>

LifecycleNext ==
  \/ \E m \in {"stop", "error"} : Ask(m)
  \/ Begin \/ ComeUp \/ Abandon \/ Stop \/ Finish
  \/ \E p \in Plugins : Tell(p)

LifecycleSpec == LifecycleInit /\ [][LifecycleNext]_lifecycleVars

\* A server that is asked to stop does stop.
LiveLifecycleSpec == LifecycleSpec /\ WF_lifecycleVars(Stop \/ Finish)
=============================================================================
