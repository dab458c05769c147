------------------------------ MODULE MCRelay ------------------------------
(***************************************************************************)
(* Instances of Relay for TLC: model values for panels and frames, and the *)
(* symmetry of the sets whose members nothing tells apart.                 *)
(***************************************************************************)
EXTENDS Relay, TLC

CONSTANTS p1, p2, e1, e2, h1, x1

OnePanel == {p1}
TwoPanels == {p1, p2}
OneEvent == {e1}
TwoEvents == {e1, e2}
OneHeartbeat == {h1}
OneMalformed == {x1}
Nothing == {}

Symmetry == Permutations(Panels) \cup Permutations(Events)
=============================================================================
