------------------------- MODULE MCExtensionManager -------------------------
(* Values of the constants for checking ExtensionManager. *)
EXTENDS ExtensionManager, TLC

CONSTANTS p1, p2, p3, t1, t2, c1, c2, s1

OnePlugin == {p1}
OneKey == [p \in OnePlugin |-> t1]

\* p2 and p3 register under the same registry and name.
ThreePlugins == {p1, p2, p3}
ClashingKeys == [p \in ThreePlugins |-> IF p = p1 THEN t1 ELSE t2]

\* ...and are interchangeable: no definition names one of them.
ClashSymmetry == Permutations({p2, p3})
=============================================================================
