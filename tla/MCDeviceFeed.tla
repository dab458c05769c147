---------------------------- MODULE MCDeviceFeed ----------------------------
(***************************************************************************)
(* Instances of DeviceFeed for TLC.  Handlers and devices are symmetric.   *)
(***************************************************************************)
EXTENDS DeviceFeed, TLC

CONSTANTS a, b, d1, d2

TwoHandlers == {a, b}
OneDevice == {d1}
TwoDevices == {d1, d2}
OneCode == {"E130"}
TwoCodes == {"E130", "E999"}

Symmetry == Permutations(Handlers) \cup Permutations(Devices)
=============================================================================
