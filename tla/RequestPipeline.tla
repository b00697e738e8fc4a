-------------------------- MODULE RequestPipeline --------------------------
(***************************************************************************)
(* What one connection promises to its peer, without bytes, buffers or     *)
(* chunks: requests are processed one after the other in the order they    *)
(* were made, each at most once, and answered in that order.               *)
(***************************************************************************)
EXTENDS Naturals, Sequences

VARIABLES
  asked,     \* how many requests the peer has begun to send
  served,    \* the requests processed, by number
  answered   \* the requests answered, by number

pipelineVars == <<asked, served, answered>>

PipelineInit == asked = 0 /\ served = <<>> /\ answered = <<>>

Ask == asked' = asked + 1 /\ UNCHANGED <<served, answered>>

Serve ==
  /\ Len(served) < asked
  /\ served' = Append(served, Len(served) + 1)
  /\ UNCHANGED <<asked, answered>>

Answer ==
  /\ Len(answered) < Len(served)
  /\ answered' = Append(answered, Len(answered) + 1)
  /\ UNCHANGED <<asked, served>>

PipelineSpec == PipelineInit /\ [][Ask \/ Serve \/ Answer]_pipelineVars
=============================================================================
