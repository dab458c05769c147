---------------------------- MODULE MCEventPath ----------------------------
(***************************************************************************)
(* Instances of EventPath for TLC.                                         *)
(***************************************************************************)
EXTENDS EventPath

CONSTANTS w1, w2

NoClients == {}
TwoClients == {w1, w2}

\* The frame of an event.
Event(a1, a2, a3, a4, code) == <<"5010", " 18", a1, a2, a3, a4, code, "01", "001">>

InRange == Event("2", "0", "0", "1", "E603")
Upper == Event("2", "2", "0", "0", "E130")
Nearly == Event("2", "1", "9", "9", "E130")
Low == Event("0", "0", "4", "2", "R130")
Signed == Event("-", "0", "4", "2", "R130")
NoDigit == Event("2", "0", "x", "1", "E130")
Heartbeat == <<"1010", "   ", " ", " ", " ", " ", "    ", "@ ", "   ">>

T == <<Terminator>>

\* What comes on one connection.
SampleStreams ==
  { InRange \o T \o Low \o T,
    Upper \o T \o Heartbeat \o T \o Nearly \o T,
    InRange \o InRange \o T \o Signed \o T,
    NoDigit \o T \o T \o Low \o T }

OneEvent == { InRange \o T }

\* The rules of the tests, with a shift that takes 2199 to 9999 and 2200 beyond.
TestRules ==
  [RequiredPrefix |-> "5", ValidLength |-> EventLength, AccNumAdd |-> 7800,
   TestCodeMap |-> [c \in {"E603"} |-> "E602"]]
SampleRules == {TestRules}

\* defaultConfig: 21 bytes.
DefaultRules ==
  {[TestRules EXCEPT !.ValidLength = EventLength + 1, !.AccNumAdd = 2100]}

SampleDescribed == {"E602", "R130"}
=============================================================================
