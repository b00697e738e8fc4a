------------------------- MODULE MCConnectionServer -------------------------
(* Values of the constants for checking ConnectionServer. *)
EXTENDS ConnectionServer

CONSTANTS c1, c2, c3

ThreeSlots == {c1, c2, c3}
=============================================================================
