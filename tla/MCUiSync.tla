------------------------------ MODULE MCUiSync ------------------------------
(***************************************************************************)
(* Instances of UiSync for TLC.  The devices are symmetric.                *)
(***************************************************************************)
EXTENDS UiSync, TLC

CONSTANTS d1, d2

OneDevice == {d1}
TwoDevices == {d1, d2}

Symmetry == Permutations(Devices)
=============================================================================
