--------------------------- MODULE MCRequestStream ---------------------------
(* The instance of RequestStream that is checked: its lengths, in pieces. *)
EXTENDS RequestStream

\* Two short requests fit the limit together, a long one reaches it alone and
\* an oversized one does not fit.
Short == 2
Long == 4
Oversized == 5

AnyLength == {Short, Long, Oversized}
ShortOnly == {Short}
=============================================================================
