------------------------------- MODULE Collect -------------------------------
(***************************************************************************)
(* What a loop that appends some of the elements it passes has built.      *)
(***************************************************************************)
EXTENDS Integers, Sequences

\* The elements of s that are in S, in their order.
Collect(s, S) ==
  LET built[i \in 0 .. Len(s)] ==
        IF i = 0 THEN <<>>
        ELSE IF s[i] \in S THEN Append(built[i - 1], s[i]) ELSE built[i - 1]
  IN  built[Len(s)]
=============================================================================
