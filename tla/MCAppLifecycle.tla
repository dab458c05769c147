--------------------------- MODULE MCAppLifecycle ---------------------------
(***************************************************************************)
(* Instances of AppLifecycle for TLC.                                      *)
(***************************************************************************)
EXTENDS AppLifecycle

CONSTANTS c1, c2, c3

ThreeConns == {c1, c2, c3}
=============================================================================
