------------------------------ MODULE Delivery ------------------------------
(***************************************************************************)
(* What the relay promises about one message, without panels' connections, *)
(* queues, goroutines or a connection to the station: a message is         *)
(* answered once at most, a positive answer to an event is given only      *)
(* after the monitoring station accepted that very event, the station      *)
(* decides on a message once at most, and a message dropped without an     *)
(* answer stays unanswered.  A negative answer promises nothing: the       *)
(* station may have accepted the event, or may accept it later.            *)
(***************************************************************************)
CONSTANTS Events, Heartbeats, Malformed

Messages == Events \cup Heartbeats \cup Malformed

VARIABLES
  phase,    \* what the panel knows of a message
  verdict   \* what the station has decided on it

vars == <<phase, verdict>>

Phases == {"new", "open", "acked", "nacked", "dropped"}

TypeOK ==
  /\ phase \in [Messages -> Phases]
  /\ verdict \in [Messages -> {"none", "yes", "no"}]

Init ==
  /\ phase = [m \in Messages |-> "new"]
  /\ verdict = [m \in Messages |-> "none"]

Submit(m) ==
  /\ phase[m] = "new"
  /\ phase' = [phase EXCEPT ![m] = "open"]
  /\ UNCHANGED verdict

Decide(m, v) ==
  /\ m \in Events
  /\ phase[m] # "new"
  /\ verdict[m] = "none"
  /\ verdict' = [verdict EXCEPT ![m] = v]
  /\ UNCHANGED phase

Ack(m) ==
  /\ phase[m] = "open"
  /\ m \in Heartbeats \/ verdict[m] = "yes"
  /\ phase' = [phase EXCEPT ![m] = "acked"]
  /\ UNCHANGED verdict

Nack(m) ==
  /\ phase[m] = "open"
  /\ m \notin Heartbeats
  /\ phase' = [phase EXCEPT ![m] = "nacked"]
  /\ UNCHANGED verdict

\* The messages S get no answer: their connection ended, or a write failed.
Drop(S) ==
  /\ \A m \in S : phase[m] = "open"
  /\ phase' = [m \in Messages |-> IF m \in S THEN "dropped" ELSE phase[m]]
  /\ UNCHANGED verdict

Next ==
  \/ \E m \in Messages : Submit(m) \/ Ack(m) \/ Nack(m)
  \/ \E m \in Events, v \in {"yes", "no"} : Decide(m, v)
  \/ \E S \in SUBSET Messages : Drop(S)

Spec == Init /\ [][Next]_vars
=============================================================================
