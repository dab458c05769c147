---------------------------- MODULE MCConfigStore ----------------------------
(***************************************************************************)
(* Instances of ConfigStore for TLC.                                       *)
(***************************************************************************)
EXTENDS ConfigStore, TLC

CONSTANTS r1, r2, flutter

OneClient == {r1}
TypedValues == {"other"}
TwoClients == {r1, r2}
FieldValues == {"zero", "default", "other"}

\* Two configurations that differ in every field, both with the API enabled.
TwoConfigs ==
  {Default, [f \in Field |-> "other"]}

\* A configuration that switches the API off, too.
ThreeConfigs ==
  TwoConfigs \cup {[Default EXCEPT !["Enabled"] = "zero"]}

Symmetry == Permutations(Clients)
=============================================================================
