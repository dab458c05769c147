--------------------------- MODULE DeliveryProofs ---------------------------
(***************************************************************************)
(* Theorems about Relay, for all sets of panels and messages and for every *)
(* buffer size.                                                            *)
(*                                                                         *)
(* Relay implements Delivery: the phase of a message depends on three      *)
(* things: the byte its panel got, whether it was sent, and whether it is  *)
(* still with a handler (Open).  Each step of the relay changes them for   *)
(* one message, or loses all that a connection had open.                   *)
(*                                                                         *)
(* The counters agree with what panels and station know, and a connection  *)
(* is silent only after a status was relayed on it: both invariants rest   *)
(* on what the first part says of messages that are open.                  *)
(***************************************************************************)
EXTENDS RelayProofs

Open == {m \in Messages : \E p \in Panels : m \in Pending(p)}

\* A handler that does not wait holds no event.
IdleInv == \A p \in Panels : ~Waits(p) => cur[p] = NoMsg

\* What was answered is with no handler any more.
AnsweredInv == \A m \in Messages : answer[m] # "none" => m \in sent /\ m \notin Open

\* Only events get as far as the station.
EventsInv == Queued \cup WithClient \cup OnLink \subseteq Events

PhaseInv == OnceInv /\ IdleInv /\ AnsweredInv /\ EventsInv

-----------------------------------------------------------------------------
(* What the mapping makes of a state. *)

LEMMA PhaseCases ==
  ASSUME NEW m \in Messages
  PROVE  /\ answer[m] = "ack" => Phase(m) = "acked"
         /\ answer[m] = "nack" => Phase(m) = "nacked"
         /\ answer[m] = "none" /\ m \notin sent => Phase(m) = "new"
         /\ answer[m] = "none" /\ m \in sent /\ m \in Open => Phase(m) = "open"
         /\ answer[m] = "none" /\ m \in sent /\ m \notin Open => Phase(m) = "dropped"
<1>1. m \in Open <=> \E p \in Panels : m \in Pending(p)
  BY DEF Open
<1> QED
  BY <1>1 DEF Phase

\* A phase stays where all it depends on does.
LEMMA PhaseStays ==
  ASSUME NEW m \in Messages, answer'[m] = answer[m],
         m \in sent' <=> m \in sent, m \in Open' <=> m \in Open
  PROVE  Phase(m)' = Phase(m)
<1>1. (\E p \in Panels : m \in Pending(p)') <=> \E p \in Panels : m \in Pending(p)
  BY DEF Open
<1> QED
  BY <1>1 DEF Phase

LEMMA VerdictsStayPut == stationLog' = stationLog => \A m \in Messages : VerdictOf(m)' = VerdictOf(m)
BY DEF VerdictOf, Decided

-----------------------------------------------------------------------------
(* The steps of Delivery, from what the relay does to a message. *)

LEMMA AbstractStutter ==
  ASSUME AnsweredInv, UNCHANGED <<answer, sent, stationLog>>, Open' = Open
  PROVE  AnsweredInv' /\ UNCHANGED D!vars
<1>1. \A m \in Messages : Phase(m)' = Phase(m) /\ VerdictOf(m)' = VerdictOf(m)
  BY PhaseStays, VerdictsStayPut
<1> QED
  BY <1>1 DEF AnsweredInv, D!vars

LEMMA AbstractDrop ==
  ASSUME TypeInv, AnsweredInv, UNCHANGED <<answer, sent, stationLog>>,
         Open \subseteq sent, NEW S \in SUBSET Open, Open' = Open \ S
  PROVE  AnsweredInv' /\ D!Drop(S)
<1>1. \A m \in S : m \in Messages /\ answer[m] = "none" /\ m \in sent
  BY DEF AnsweredInv, Open
<1>2. \A m \in S : Phase(m) = "open"
  BY <1>1, PhaseCases
<1>3. \A m \in S : Phase(m)' = "dropped"
  <2> TAKE m \in S
  <2>1. answer'[m] = "none" /\ m \in sent' /\ m \notin Open' /\ m \in Messages
    BY <1>1
  <2>2. ~\E p \in Panels : m \in Pending(p)'
    BY <2>1 DEF Open
  <2> QED
    BY <2>1, <2>2 DEF Phase
<1>4. \A m \in Messages \ S : Phase(m)' = Phase(m)
  BY PhaseStays
<1>5. \A m \in Messages : VerdictOf(m)' = VerdictOf(m)
  BY VerdictsStayPut
<1> QED
  BY <1>1, <1>2, <1>3, <1>4, <1>5 DEF AnsweredInv, D!Drop, D!Messages, Messages

\* One byte for one message, which is then with nobody.
LEMMA AbstractAnswer ==
  ASSUME TypeInv, AnsweredInv, UNCHANGED <<sent, stationLog>>, Open \subseteq sent,
         NEW m \in Open, Open' = Open \ {m},
         NEW b \in {"ack", "nack"}, answer' = [answer EXCEPT ![m] = b]
  PROVE  /\ AnsweredInv'
         /\ b = "ack" /\ (m \in Heartbeats \/ Decided(m, TRUE)) => D!Ack(m)
         /\ b = "nack" /\ m \notin Heartbeats => D!Nack(m)
<1>1. m \in Messages /\ answer[m] = "none" /\ m \in sent
  BY DEF AnsweredInv, Open
<1>2. answer'[m] = b /\ \A n \in Messages \ {m} : answer'[n] = answer[n]
  BY <1>1 DEF TypeInv, TypeOK, ServerTypeOK
<1>3. AnsweredInv'
  BY <1>1, <1>2 DEF AnsweredInv
<1>4. Phase(m) = "open"
  BY <1>1, PhaseCases
<1>5. /\ b = "ack" => Phase(m)' = "acked"
      /\ b = "nack" => Phase(m)' = "nacked"
  BY <1>2 DEF Phase
<1>6. \A n \in Messages \ {m} : Phase(n)' = Phase(n)
  BY <1>2, PhaseStays
<1>7. \A n \in Messages : VerdictOf(n)' = VerdictOf(n)
  BY VerdictsStayPut
<1>8. Decided(m, TRUE) => VerdictOf(m) = "yes"
  <2>1. [msg |-> m, ack |-> TRUE].msg = m
    OBVIOUS
  <2> QED
    BY <2>1 DEF VerdictOf, Decided
<1>9. b = "ack" /\ (m \in Heartbeats \/ Decided(m, TRUE)) => D!Ack(m)
  BY <1>1, <1>4, <1>5, <1>6, <1>7, <1>8 DEF D!Ack, D!Messages, Messages
<1>10. b = "nack" /\ m \notin Heartbeats => D!Nack(m)
  BY <1>1, <1>4, <1>5, <1>6, <1>7 DEF D!Nack, D!Messages, Messages
<1> QED
  BY <1>3, <1>9, <1>10

\* A message is sent.
LEMMA AbstractSubmit ==
  ASSUME TypeInv, AnsweredInv, UNCHANGED <<answer, stationLog>>,
         NEW m \in Messages, m \notin sent, sent' = sent \cup {m},
         Open' = Open \cup {m}
  PROVE  AnsweredInv' /\ D!Submit(m)
<1>1. answer[m] = "none"
  BY DEF AnsweredInv, TypeInv, TypeOK, ServerTypeOK
<1>2. AnsweredInv'
  BY <1>1 DEF AnsweredInv
<1>3. Phase(m) = "new"
  BY <1>1, PhaseCases
<1>4. Phase(m)' = "open"
  <2>1. answer'[m] = "none" /\ m \in sent' /\ m \in Open'
    BY <1>1
  <2>2. \E p \in Panels : m \in Pending(p)'
    BY <2>1 DEF Open
  <2> QED
    BY <2>1, <2>2 DEF Phase
<1>5. \A n \in Messages \ {m} : Phase(n)' = Phase(n)
  BY PhaseStays
<1>6. \A n \in Messages : VerdictOf(n)' = VerdictOf(n)
  BY VerdictsStayPut
<1> QED
  BY <1>2, <1>3, <1>4, <1>5, <1>6 DEF D!Submit, D!Messages, Messages

\* The station decides on an event that it has not decided on.
LEMMA AbstractDecide ==
  ASSUME TypeInv, AnsweredInv, UNCHANGED <<answer, sent>>, Open' = Open,
         NEW m \in Events, m \in sent, m \notin Logged, NEW ack \in BOOLEAN,
         stationLog' = Append(stationLog, [msg |-> m, ack |-> ack])
  PROVE  AnsweredInv' /\ \E v \in {"yes", "no"} : D!Decide(m, v)
<1> DEFINE d == [msg |-> m, ack |-> ack]
           v == IF ack THEN "yes" ELSE "no"
<1>1. m \in Messages /\ d \in Verdict /\ d.msg = m /\ d.ack = ack
  BY Kinds DEF Verdict
<1>2. RangeOf(stationLog)' = RangeOf(stationLog) \cup {d}
  BY <1>1, VerdictsStay
<1>3. \A r \in RangeOf(stationLog) : r.msg # m
  BY DEF Logged
<1>4. \A n \in Messages \ {m} : Phase(n)' = Phase(n) /\ VerdictOf(n)' = VerdictOf(n)
  <2> TAKE n \in Messages \ {m}
  <2>1. Phase(n)' = Phase(n)
    BY PhaseStays
  <2>2. \A s : [msg |-> n, ack |-> s] # d
    BY <1>1
  <2>3. /\ (\E r \in RangeOf(stationLog)' : r.msg = n) <=> \E r \in RangeOf(stationLog) : r.msg = n
        /\ [msg |-> n, ack |-> TRUE] \in RangeOf(stationLog)'
             <=> [msg |-> n, ack |-> TRUE] \in RangeOf(stationLog)
    BY <1>1, <1>2, <2>2
  <2>4. VerdictOf(n)' = VerdictOf(n)
    BY <2>3 DEF VerdictOf, Decided
  <2> QED
    BY <2>1, <2>4
<1>5. Phase(m)' = Phase(m)
  BY <1>1, PhaseStays
<1>6. Phase(m) # "new"
  <2>1. answer[m] \in {"none", "ack", "nack"}
    BY <1>1 DEF TypeInv, TypeOK, ServerTypeOK
  <2> QED
    BY <1>1, <2>1, PhaseCases
<1>7. VerdictOf(m) = "none"
  BY <1>3 DEF VerdictOf
<1>8. VerdictOf(m)' = v
  <2>1. \E r \in RangeOf(stationLog)' : r.msg = m
    BY <1>1, <1>2
  <2>2. [msg |-> m, ack |-> TRUE] \in RangeOf(stationLog)' <=> ack = TRUE
    <3>1. [msg |-> m, ack |-> TRUE] \notin RangeOf(stationLog)
      BY <1>3
    <3>2. [msg |-> m, ack |-> TRUE] = d <=> ack = TRUE
      BY <1>1
    <3> QED
      BY <1>2, <3>1, <3>2
  <2> QED
    BY <2>1, <2>2 DEF VerdictOf, Decided
<1>9. AnsweredInv'
  BY DEF AnsweredInv
<1>10. D!Decide(m, v)
  BY <1>1, <1>4, <1>5, <1>6, <1>7, <1>8 DEF D!Decide, D!Messages, Messages
<1>11. v \in {"yes", "no"}
  OBVIOUS
<1> HIDE DEF v
<1> QED
  BY <1>9, <1>10, <1>11

AbstractStep == [D!Next]_(D!vars)

LEMMA DropIsStep == ASSUME NEW S \in SUBSET Messages, D!Drop(S) PROVE AbstractStep
BY DEF AbstractStep, D!Next, D!Messages, Messages

LEMMA MessageIsStep ==
  ASSUME NEW m \in Messages, D!Submit(m) \/ D!Ack(m) \/ D!Nack(m)
  PROVE  AbstractStep
BY DEF AbstractStep, D!Next, D!Messages, Messages

LEMMA DecideIsStep ==
  ASSUME NEW m \in Events, \E v \in {"yes", "no"} : D!Decide(m, v)
  PROVE  AbstractStep
BY DEF AbstractStep, D!Next

LEMMA StutterIsStep == UNCHANGED D!vars => AbstractStep
BY DEF AbstractStep

-----------------------------------------------------------------------------
(* The messages that are open. *)

LEMMA RangeConcat ==
  ASSUME NEW S, NEW s \in Seq(S), NEW t \in Seq(S)
  PROVE  RangeOf(s \o t) = RangeOf(s) \cup RangeOf(t)
<1>1. /\ DOMAIN s = 1 .. Len(s) /\ DOMAIN t = 1 .. Len(t)
      /\ Len(s) \in Nat /\ Len(t) \in Nat
      /\ DOMAIN (s \o t) = 1 .. Len(s) + Len(t)
      /\ \A i \in 1 .. Len(s) : (s \o t)[i] = s[i]
      /\ \A i \in Len(s) + 1 .. Len(s) + Len(t) : (s \o t)[i] = t[i - Len(s)]
  BY SMT
<1>2. RangeOf(s \o t) \subseteq RangeOf(s) \cup RangeOf(t)
  BY <1>1, SMT DEF RangeOf
<1>3. RangeOf(s) \subseteq RangeOf(s \o t)
  BY <1>1, SMT DEF RangeOf
<1>4. RangeOf(t) \subseteq RangeOf(s \o t)
  <2>1. \A i \in 1 .. Len(t) : /\ i + Len(s) \in Len(s) + 1 .. Len(s) + Len(t)
                               /\ i + Len(s) \in 1 .. Len(s) + Len(t)
                               /\ (i + Len(s)) - Len(s) = i
    BY <1>1, SMT
  <2>2. ASSUME NEW i \in 1 .. Len(t) PROVE t[i] \in RangeOf(s \o t)
    <3>1. (s \o t)[i + Len(s)] = t[i] /\ i + Len(s) \in DOMAIN (s \o t)
      BY <1>1, <2>1
    <3> QED
      BY <3>1, Zenon DEF RangeOf
  <2> QED
    BY <1>1, <2>2, Zenon DEF RangeOf
<1> QED
  BY <1>2, <1>3, <1>4

LEMMA PendingIs ==
  ASSUME TypeInv
  PROVE  \A p \in Panels : Pending(p) = RangeOf(Waiting(p)) \cup {cur[p]}
<1> TAKE p \in Panels
<1>1. RangeOf(Waiting(p)) = RangeOf(buffer[p]) \cup RangeOf(wire[p])
  BY WaitingTypes, RangeConcat DEF Waiting
<1> QED
  BY <1>1 DEF Pending

LEMMA OpenSent == PhaseInv => Open \subseteq sent
<1> SUFFICES ASSUME PhaseInv, NEW p \in Panels, NEW m \in Pending(p), m \in Messages
             PROVE  m \in sent
  BY DEF Open
<1>1. TypeInv
  BY DEF PhaseInv, OnceInv, SafeInv
<1>2. CASE m \in RangeOf(Waiting(p))
  BY <1>2 DEF PhaseInv, OnceInv, WaitingInv
<1>3. CASE m = cur[p]
  <2>1. Waits(p)
    BY <1>3, Kinds DEF PhaseInv, IdleInv
  <2> QED
    BY <1>3, <2>1 DEF PhaseInv, OnceInv, WaitersInv, Handled
<1> QED
  BY <1>1, <1>2, <1>3, PendingIs

\* A message is with one handler at most, and in one place there.
LEMMA OpenApart ==
  ASSUME PhaseInv, NEW p \in Panels, NEW m \in Messages, m \in Pending(p)
  PROVE  /\ \A q \in Panels \ {p} : m \notin Pending(q)
         /\ m = cur[p] => m \notin RangeOf(Waiting(p))
<1>1. TypeInv /\ WaitingInv /\ WaitersInv /\ IdleInv
  BY DEF PhaseInv, OnceInv, SafeInv
<1>2. \A q \in Panels : m = cur[q] => Waits(q) /\ m \in Handled
  BY <1>1, Kinds DEF IdleInv, WaitersInv
<1>3. \A q \in Panels : m = cur[q] => \A r \in Panels : m \notin RangeOf(Waiting(r))
  BY <1>2 DEF Handled
<1>4. ASSUME NEW q \in Panels, q # p PROVE m \notin Pending(q)
  <2>1. CASE m \in RangeOf(Waiting(p))
    <3>1. m \notin RangeOf(Waiting(q))
      BY <1>1, <1>4, <2>1 DEF WaitingInv
    <3> QED
      BY <1>1, <1>3, <2>1, <3>1, PendingIs
  <2>2. CASE m = cur[p]
    <3>1. m # cur[q]
      BY <1>1, <1>2, <1>4, <2>2 DEF WaitersInv
    <3> QED
      BY <1>1, <1>3, <2>2, <3>1, PendingIs
  <2> QED
    BY <1>1, <2>1, <2>2, PendingIs
<1> QED
  BY <1>3, <1>4

\* A handler gives up some of what it has.
LEMMA OpenLess ==
  ASSUME PhaseInv, NEW p \in Panels,
         \A q \in Panels \ {p} : Pending(q)' = Pending(q),
         NEW S \in SUBSET Messages, S \subseteq Pending(p),
         \A m \in Messages : m \in Pending(p)' <=> m \in Pending(p) /\ m \notin S
  PROVE  Open' = Open \ S /\ S \in SUBSET Open
<1>1. S \subseteq Open
  BY DEF Open
<1>2. \A m \in S : m \notin Open'
  <2> TAKE m \in S
  <2>1. \A q \in Panels \ {p} : m \notin Pending(q)'
    BY OpenApart
  <2>2. m \notin Pending(p)'
    OBVIOUS
  <2> QED
    BY <2>1, <2>2 DEF Open
<1>3. ASSUME NEW m \in Messages, m \notin S
      PROVE  m \in Open' <=> m \in Open
  <2>1. \A q \in Panels : m \in Pending(q)' <=> m \in Pending(q)
    BY <1>3
  <2> QED
    BY <2>1 DEF Open
<1>4. Open \subseteq Messages /\ Open' \subseteq Messages
  BY DEF Open
<1> QED
  BY <1>1, <1>2, <1>3, <1>4

LEMMA OpenStays ==
  ASSUME \A p \in Panels : \A m \in Messages : m \in Pending(p)' <=> m \in Pending(p)
  PROVE  Open' = Open
BY DEF Open

-----------------------------------------------------------------------------
(* The steps of a handler. *)

\* The connection is closed: what it had open is dropped.
LEMMA ClosingDrops ==
  ASSUME PhaseInv, NEW p \in Panels, CloseConn(p), UNCHANGED <<answer, sent, stationLog>>
  PROVE  IdleInv' /\ AnsweredInv' /\ AbstractStep
<1>1. TypeInv /\ AnsweredInv /\ IdleInv /\ Open \subseteq sent
  BY OpenSent DEF PhaseInv, OnceInv, SafeInv
<1>2. /\ hpc[p]' = "none" /\ cur[p]' = NoMsg /\ wire[p]' = <<>> /\ buffer[p]' = <<>>
      /\ \A q \in Panels \ {p} : /\ hpc[q]' = hpc[q] /\ cur[q]' = cur[q]
                                /\ wire[q]' = wire[q] /\ buffer[q]' = buffer[q]
  BY <1>1 DEF CloseConn, TypeInv, TypeOK, ServerTypeOK
<1>3. Pending(p)' = {NoMsg} /\ \A q \in Panels \ {p} : Pending(q)' = Pending(q)
  <2>1. Pending(p)' = {NoMsg}
    BY <1>2, RangeEmpty DEF Pending
  <2> QED
    BY <1>2, <2>1 DEF Pending
<1> DEFINE S == Pending(p) \cap Messages
<1>4. Open' = Open \ S /\ S \in SUBSET Open
  <2>1. \A m \in Messages : m \in Pending(p)' <=> m \in Pending(p) /\ m \notin S
    BY <1>3, Kinds
  <2>2. S \in SUBSET Messages /\ S \subseteq Pending(p)
    OBVIOUS
  <2> HIDE DEF S
  <2> QED
    BY <1>3, <2>1, <2>2, OpenLess
<1>5. IdleInv'
  <2>1. \A q \in Panels \ {p} : Waits(q)' <=> Waits(q)
    BY <1>2 DEF Waits
  <2> QED
    BY <1>1, <1>2, <2>1, Zenon DEF IdleInv
<1>6. S \in SUBSET Messages
  OBVIOUS
<1> HIDE DEF S
<1>7. AnsweredInv' /\ D!Drop(S)
  BY <1>1, <1>4, AbstractDrop
<1> QED
  BY <1>5, <1>6, <1>7, DropIsStep

\* One message leaves the handler, with the byte b or without one.
LEMMA OneLeaves ==
  ASSUME PhaseInv, NEW m \in Open, Open' = Open \ {m},
         UNCHANGED <<sent, stationLog>>, NEW b \in {"ack", "nack"},
         answer' = answer \/ answer' = [answer EXCEPT ![m] = b],
         b = "ack" => m \in Heartbeats \/ Decided(m, TRUE),
         b = "nack" => m \notin Heartbeats
  PROVE  AnsweredInv' /\ AbstractStep
<1>1. TypeInv /\ AnsweredInv /\ Open \subseteq sent
  BY OpenSent DEF PhaseInv, OnceInv, SafeInv
<1>2. m \in Messages
  BY DEF Open
<1>3. CASE answer' = answer
  <2>1. {m} \in SUBSET Open /\ {m} \in SUBSET Messages
    BY <1>2
  <2>2. AnsweredInv' /\ D!Drop({m})
    BY <1>1, <1>3, <2>1, AbstractDrop
  <2> QED
    BY <2>1, <2>2, DropIsStep
<1>4. CASE answer' = [answer EXCEPT ![m] = b]
  <2>1. /\ AnsweredInv'
        /\ b = "ack" /\ (m \in Heartbeats \/ Decided(m, TRUE)) => D!Ack(m)
        /\ b = "nack" /\ m \notin Heartbeats => D!Nack(m)
    BY <1>1, <1>4, AbstractAnswer
  <2>2. D!Ack(m) \/ D!Nack(m)
    BY <2>1
  <2> QED
    BY <1>2, <2>1, <2>2, MessageIsStep
<1> QED
  BY <1>3, <1>4

\* A frame is taken out of the buffer: it was open, and is now only with the
\* handler itself, if anywhere.
LEMMA TakingCloses ==
  ASSUME PhaseInv, NEW p \in Panels, NEW S \in SUBSET Messages, TakesFrame(p, S),
         wire' = wire
  PROVE  /\ Head(buffer[p]) \in Open
         /\ Head(buffer[p]) \in S
         /\ cur[p] = NoMsg
         /\ \A m : m \in RangeOf(Waiting(p))' <=>
                   m \in RangeOf(Waiting(p)) /\ m # Head(buffer[p])
         /\ \A q \in Panels \ {p} : RangeOf(Waiting(q))' = RangeOf(Waiting(q))
<1> DEFINE m == Head(buffer[p])
<1>1. TypeInv /\ WaitingInv /\ IdleInv
  BY DEF PhaseInv, OnceInv, SafeInv
<1>2. /\ hpc[p] = "split" /\ buffer[p] # <<>> /\ m \in S
      /\ buffer[p]' = Tail(buffer[p]) /\ wire[p]' = wire[p]
      /\ \A q \in Panels \ {p} : buffer[q]' = buffer[q] /\ wire[q]' = wire[q]
  BY <1>1 DEF TakesFrame, TypeInv, TypeOK, ServerTypeOK
<1>3. cur[p] = NoMsg
  BY <1>1, <1>2 DEF IdleInv, Waits
<1>4. /\ Waiting(p) \in Seq(Messages) /\ Waiting(p) # <<>>
      /\ m = Head(Waiting(p))
      /\ Waiting(p)' = Tail(Waiting(p))
  <2>1. buffer[p] \in Seq(Messages) /\ wire[p] \in Seq(Messages)
    BY <1>1, WaitingTypes
  <2>2. /\ Tail(buffer[p]) \o wire[p] = Tail(buffer[p] \o wire[p])
        /\ Head(buffer[p]) = Head(buffer[p] \o wire[p])
        /\ buffer[p] \o wire[p] # <<>>
        /\ buffer[p] \o wire[p] \in Seq(Messages)
    BY <1>2, <2>1, ConcatTail
  <2> QED
    BY <1>2, <2>2, Zenon DEF Waiting
<1>5. /\ m \notin RangeOf(Tail(Waiting(p)))
      /\ RangeOf(Waiting(p)) = {m} \cup RangeOf(Tail(Waiting(p)))
  <2>1. Distinct(Waiting(p))
    BY <1>1 DEF WaitingInv
  <2> QED
    BY <1>4, <2>1, DistinctTail
<1>6. RangeOf(Waiting(p))' = RangeOf(Tail(Waiting(p)))
  BY <1>4 DEF RangeOf
<1>7. m \in Open
  <2>1. m \in Pending(p)
    BY <1>1, <1>5, PendingIs
  <2> QED
    BY <1>2, <2>1 DEF Open
<1>8. \A q \in Panels \ {p} : RangeOf(Waiting(q))' = RangeOf(Waiting(q))
  BY <1>2 DEF Waiting, RangeOf
<1> QED
  BY <1>2, <1>3, <1>5, <1>6, <1>7, <1>8

LEMMA PendingIsNext ==
  ASSUME TypeInv'
  PROVE  \A p \in Panels : Pending(p)' = RangeOf(Waiting(p))' \cup {cur[p]'}
<1> TAKE p \in Panels
<1>1. buffer[p]' \in Seq(Messages) /\ wire[p]' \in Seq(Messages)
  BY DEF TypeInv, TypeOK, ServerTypeOK
<1>2. \A s, t \in Seq(Messages) : RangeOf(s \o t) = RangeOf(s) \cup RangeOf(t)
  BY RangeConcat
<1>3. RangeOf(buffer[p]' \o wire[p]') = RangeOf(buffer[p]') \cup RangeOf(wire[p]')
  BY <1>1, <1>2, Zenon
<1>4. /\ RangeOf(Waiting(p))' = RangeOf(buffer[p]' \o wire[p]')
      /\ Pending(p)' = RangeOf(wire[p]') \cup RangeOf(buffer[p]') \cup {cur[p]'}
  BY Zenon DEF Waiting, Pending, RangeOf
<1> QED
  BY <1>3, <1>4

\* Whoever stops waiting gives up the event.
LEMMA IdleStays ==
  ASSUME IdleInv,
         \A q \in Panels : ~Waits(q)' => (~Waits(q) /\ cur[q]' = cur[q]) \/ cur[q]' = NoMsg
  PROVE  IdleInv'
BY Zenon DEF IdleInv

\* A frame is answered at once.
LEMMA AnsweringImplements ==
  ASSUME PhaseInv, TypeInv', NEW p \in Panels, NEW S \in SUBSET Messages, TakesFrame(p, S),
         UNCHANGED <<hpc, wire, cur, sent, stationLog>>,
         NEW b \in {"ack", "nack"}, WriteByte(p, Head(buffer[p]), b, wdl[p]),
         b = "ack" => S \subseteq Heartbeats,
         b = "nack" => S \cap Heartbeats = {}
  PROVE  IdleInv' /\ AnsweredInv' /\ AbstractStep
<1> DEFINE m == Head(buffer[p])
<1>1. TypeInv /\ IdleInv
  BY DEF PhaseInv, OnceInv, SafeInv
<1>2. /\ m \in Open /\ m \in S /\ cur[p] = NoMsg
      /\ \A n : n \in RangeOf(Waiting(p))' <=> n \in RangeOf(Waiting(p)) /\ n # m
      /\ \A q \in Panels \ {p} : RangeOf(Waiting(q))' = RangeOf(Waiting(q))
  BY TakingCloses
<1>3. IdleInv'
  BY <1>1, Zenon DEF IdleInv, Waits
<1>4. answer' = answer \/ answer' = [answer EXCEPT ![m] = b]
  BY DEF WriteByte
<1>5. m \in Messages /\ m \in RangeOf(Waiting(p))
  <2>1. \A q \in Panels : Pending(q) = RangeOf(Waiting(q)) \cup {cur[q]}
    BY <1>1, PendingIs
  <2>2. TakesFrame(p, S) => m \in RangeOf(buffer[p])
    <3>1. buffer[p] \in Seq(Messages)
      BY <1>1, WaitingTypes
    <3> QED
      BY <3>1, RangeTail DEF TakesFrame
  <2> QED
    BY <1>2, <2>1, <2>2, Kinds DEF Pending, Open
<1> HIDE DEF m
<1>6. Open' = Open \ {m}
  <2>1. \A q \in Panels : /\ Pending(q) = RangeOf(Waiting(q)) \cup {cur[q]}
                          /\ Pending(q)' = RangeOf(Waiting(q))' \cup {cur[q]}
    BY <1>1, PendingIs, PendingIsNext
  <2>2. \A q \in Panels \ {p} : Pending(q)' = Pending(q)
    BY <1>2, <2>1
  <2>3. /\ {m} \in SUBSET Messages /\ {m} \subseteq Pending(p)
        /\ \A n \in Messages : n \in Pending(p)' <=> n \in Pending(p) /\ n \notin {m}
    BY <1>2, <1>5, <2>1, Kinds
  <2> QED
    BY <2>2, <2>3, OpenLess
<1>7. /\ b = "ack" => m \in Heartbeats
      /\ b = "nack" => m \notin Heartbeats
  BY <1>2
<1>8. AnsweredInv' /\ AbstractStep
  BY <1>2, <1>4, <1>6, <1>7, OneLeaves
<1> QED
  BY <1>3, <1>8

\* The handler goes on to the next frame, and its event is answered or not.
LEMMA WaitingEnds ==
  ASSUME PhaseInv, NEW p \in Panels, hpc[p] = "await", NEW d, NextFrame(p, d),
         UNCHANGED <<sent, stationLog>>, NEW b \in {"ack", "nack"},
         answer' = answer \/ answer' = [answer EXCEPT ![cur[p]] = b],
         b = "ack" => Decided(cur[p], TRUE)
  PROVE  IdleInv' /\ AnsweredInv' /\ AbstractStep
<1> DEFINE m == cur[p]
<1>1. TypeInv /\ IdleInv
  BY DEF PhaseInv, OnceInv, SafeInv
<1>2. m \in Events /\ m \in Messages
  BY <1>1, Kinds DEF TypeInv, CurInv, HandlerCurInv
<1>3. /\ hpc[p]' = "split" /\ cur[p]' = NoMsg
      /\ \A q \in Panels \ {p} : hpc[q]' = hpc[q] /\ cur[q]' = cur[q]
      /\ UNCHANGED <<wire, buffer>>
  BY <1>1 DEF NextFrame, TypeInv, TypeOK, ServerTypeOK
<1>4. m \in Pending(p) /\ m \in Open
  BY <1>2 DEF Pending, Open
<1>5. IdleInv'
  <2>1. \A q \in Panels \ {p} : Waits(q)' <=> Waits(q)
    BY <1>3 DEF Waits
  <2> QED
    BY <1>1, <1>3, <2>1, IdleStays, Zenon
<1>6. Open' = Open \ {m}
  <2>1. \A q \in Panels \ {p} : Pending(q)' = Pending(q)
    BY <1>3 DEF Pending
  <2>2. m \notin RangeOf(Waiting(p))
    BY <1>2, <1>4, OpenApart
  <2>3. /\ Pending(p) = RangeOf(Waiting(p)) \cup {m}
        /\ Pending(p)' = RangeOf(Waiting(p)) \cup {NoMsg}
    <3>1. Pending(p) = RangeOf(Waiting(p)) \cup {m}
      BY <1>1, PendingIs
    <3>2. Pending(p)' = RangeOf(wire[p]) \cup RangeOf(buffer[p]) \cup {NoMsg}
      BY <1>3 DEF Pending
    <3>3. RangeOf(Waiting(p)) = RangeOf(wire[p]) \cup RangeOf(buffer[p])
      BY <1>1, WaitingTypes, RangeConcat DEF Waiting
    <3> QED
      BY <3>1, <3>2, <3>3
  <2>4. /\ {m} \in SUBSET Messages /\ {m} \subseteq Pending(p)
        /\ \A n \in Messages : n \in Pending(p)' <=> n \in Pending(p) /\ n \notin {m}
    BY <1>2, <2>2, <2>3, Kinds
  <2> QED
    BY <2>1, <2>4, OpenLess
<1>7. m \notin Heartbeats
  BY <1>2, Kinds
<1> HIDE DEF m
<1>8. AnsweredInv' /\ AbstractStep
  <2>1. /\ answer' = answer \/ answer' = [answer EXCEPT ![m] = b]
        /\ b = "ack" => m \in Heartbeats \/ Decided(m, TRUE)
    BY DEF m
  <2> QED
    BY <1>4, <1>6, <1>7, <2>1, OneLeaves
<1> QED
  BY <1>5, <1>8

\* An event goes from the buffer to the local variable: it stays open.
LEMMA EnqueueImplements ==
  ASSUME PhaseInv, TypeInv', NEW p \in Panels, EnqueueEvent(p, Parked), UNCHANGED stationLog
  PROVE  IdleInv' /\ AnsweredInv' /\ AbstractStep
<1> DEFINE m == Head(buffer[p])
<1>1. TypeInv /\ IdleInv /\ AnsweredInv
  BY DEF PhaseInv, OnceInv, SafeInv
<1>2. /\ TakesFrame(p, Events)
      /\ cur' = [cur EXCEPT ![p] = m]
      /\ hpc' = [hpc EXCEPT ![p] = "update"]
      /\ UNCHANGED <<wire, sent, answer>>
  BY DEF EnqueueEvent
<1>3. /\ m \in Open /\ cur[p] = NoMsg
      /\ \A n : n \in RangeOf(Waiting(p))' <=> n \in RangeOf(Waiting(p)) /\ n # m
      /\ \A q \in Panels \ {p} : RangeOf(Waiting(q))' = RangeOf(Waiting(q))
  BY <1>2, Kinds, TakingCloses
<1>4. /\ cur[p]' = m /\ hpc[p]' = "update"
      /\ \A q \in Panels \ {p} : hpc[q]' = hpc[q] /\ cur[q]' = cur[q]
  BY <1>1, <1>2 DEF TypeInv, TypeOK, ServerTypeOK
<1>5. m \in RangeOf(Waiting(p))
  <2>1. buffer[p] \in Seq(Messages) /\ wire[p] \in Seq(Messages)
    BY <1>1, WaitingTypes
  <2>2. m \in RangeOf(buffer[p])
    BY <1>2, <2>1, RangeTail DEF TakesFrame
  <2> QED
    BY <2>1, <2>2, RangeConcat DEF Waiting
<1> HIDE DEF m
<1>6. Open' = Open
  <2>1. \A q \in Panels : /\ Pending(q) = RangeOf(Waiting(q)) \cup {cur[q]}
                          /\ Pending(q)' = RangeOf(Waiting(q))' \cup {cur[q]'}
    BY <1>1, PendingIs, PendingIsNext
  <2>2. \A q \in Panels \ {p} : Pending(q)' = Pending(q)
    BY <1>3, <1>4, <2>1
  <2>3. \A n \in Messages : n \in Pending(p)' <=> n \in Pending(p)
    BY <1>3, <1>4, <1>5, <2>1, Kinds
  <2> QED
    BY <2>2, <2>3, OpenStays
<1>7. IdleInv'
  <2>1. Waits(p)' /\ \A q \in Panels \ {p} : Waits(q)' <=> Waits(q)
    BY <1>4 DEF Waits
  <2> QED
    BY <1>1, <1>4, <2>1, IdleStays, Zenon
<1> QED
  BY <1>1, <1>2, <1>6, <1>7, AbstractStutter, StutterIsStep

\* A handler moves on, or reads what has arrived.
LEMMA MovingImplements ==
  ASSUME PhaseInv, UNCHANGED <<cur, answer, sent, stationLog>>,
         \/ UNCHANGED <<wire, buffer>>
         \/ TypeInv' /\ \A q \in Panels : Waiting(q)' = Waiting(q),
         \A q \in Panels : Waits(q) => Waits(q)'
  PROVE  IdleInv' /\ AnsweredInv' /\ AbstractStep
<1>1. TypeInv /\ IdleInv /\ AnsweredInv
  BY DEF PhaseInv, OnceInv, SafeInv
<1>2. IdleInv'
  BY <1>1, IdleStays
<1>3. Open' = Open
  <2>1. CASE UNCHANGED <<wire, buffer>>
    BY <2>1 DEF Open, Pending
  <2>2. CASE TypeInv' /\ \A q \in Panels : Waiting(q)' = Waiting(q)
    <3>1. \A q \in Panels : RangeOf(Waiting(q))' = RangeOf(Waiting(q))
      BY <2>2 DEF RangeOf
    <3>2. \A q \in Panels : Pending(q)' = Pending(q)
      BY <1>1, <2>2, <3>1, PendingIs, PendingIsNext
    <3> QED
      BY <3>2, OpenStays
  <2> QED
    BY <2>1, <2>2
<1> QED
  BY <1>1, <1>2, <1>3, AbstractStutter, StutterIsStep

LEMMA HandlerImplements ==
  ASSUME PhaseInv, TypeInv', NEW p \in Panels, Handler(p)
  PROVE  IdleInv' /\ AnsweredInv' /\ AbstractStep
<1>1. TypeInv /\ RepliesAreVerdicts
  BY DEF PhaseInv, OnceInv, SafeInv
<1>2. stationLog' = stationLog
  BY DEF Handler, clientVars
<1>3. hpc \in [Panels -> HandlerStates] /\ cur \in [Panels -> Events \cup {NoMsg}]
  BY <1>1 DEF TypeInv, TypeOK, ServerTypeOK
<1>4. ASSUME NEW from \in {"top", "read", "split"}, hpc[p] = from,
             NEW to, hpc' = [hpc EXCEPT ![p] = to]
      PROVE  \A q \in Panels : Waits(q) => Waits(q)'
  <2>1. ~Waits(p)
    BY <1>4 DEF Waits
  <2>2. \A q \in Panels \ {p} : hpc[q]' = hpc[q]
    BY <1>3, <1>4
  <2>3. \A q \in Panels \ {p} : Waits(q) => Waits(q)'
    BY <2>2 DEF Waits
  <2> QED
    BY <2>1, <2>3
<1>5. CASE LoopTop(p)
  <2>1. UNCHANGED <<answer, sent>>
    BY <1>5 DEF LoopTop
  <2>2. CASE CloseConn(p)
    BY <1>2, <2>1, <2>2, ClosingDrops
  <2>3. CASE hpc' = [hpc EXCEPT ![p] = "read"] /\ UNCHANGED <<wire, buffer, cur>>
    <3>1. hpc[p] = "top"
      BY <1>5 DEF LoopTop
    <3>2. \A q \in Panels : Waits(q) => Waits(q)'
      BY <1>4, <2>3, <3>1
    <3> QED
      BY <1>2, <2>1, <2>3, <3>2, MovingImplements
  <2> QED
    BY <1>5, <2>2, <2>3 DEF LoopTop
<1>6. CASE ReadChunk(p)
  <2>1. hpc[p] = "read" /\ hpc' = [hpc EXCEPT ![p] = "split"] /\ UNCHANGED <<cur, answer, sent>>
    BY <1>6 DEF ReadChunk
  <2>2. \A q \in Panels : Waits(q) => Waits(q)'
    BY <1>4, <2>1
  <2>3. \A q \in Panels : Waiting(q)' = Waiting(q)
    BY <1>1, <1>6, ReadingKeepsWaiting
  <2> QED
    BY <1>2, <2>1, <2>2, <2>3, MovingImplements
<1>7. CASE ReadTimeout(p) \/ SplitDone(p)
  <2>1. /\ hpc[p] \in {"read", "split"} /\ hpc' = [hpc EXCEPT ![p] = "top"]
        /\ UNCHANGED <<wire, buffer, cur, answer, sent>>
    BY <1>7 DEF ReadTimeout, SplitDone
  <2>2. \A q \in Panels : Waits(q) => Waits(q)'
    BY <1>4, <2>1
  <2> QED
    BY <1>2, <2>1, <2>2, MovingImplements
<1>8. CASE ReadEnds(p)
  BY <1>2, <1>8, ClosingDrops DEF ReadEnds
<1>9. CASE AnswerHeartbeat(p)
  <2>1. /\ TakesFrame(p, Heartbeats)
        /\ WriteByte(p, Head(buffer[p]), "ack", wdl[p])
        /\ UNCHANGED <<hpc, wire, cur, sent>>
    BY <1>9 DEF AnswerHeartbeat
  <2>2. "ack" \in {"ack", "nack"} /\ "ack" # "nack"
    OBVIOUS
  <2> QED
    BY <1>2, <2>1, <2>2, Kinds, AnsweringImplements
<1>10. CASE RefuseFrame(p, Parked)
  <2> DEFINE S == IF CanEnqueue(Parked) THEN Malformed ELSE Malformed \cup Events
  <2>1. /\ TakesFrame(p, S)
        /\ WriteByte(p, Head(buffer[p]), "nack", wdl[p])
        /\ UNCHANGED <<hpc, wire, cur, sent>>
    BY <1>10 DEF RefuseFrame
  <2>2. S \in SUBSET Messages /\ S \cap Heartbeats = {}
    BY SharedAssumption DEF SharedAssumption, Messages
  <2>3. "nack" \in {"ack", "nack"} /\ "ack" # "nack"
    OBVIOUS
  <2> HIDE DEF S
  <2> QED
    BY <1>2, <2>1, <2>2, <2>3, AnsweringImplements
<1>11. CASE EnqueueEvent(p, Parked)
  BY <1>2, <1>11, EnqueueImplements
<1>12. CASE UpdateDevice(p)
  <2>1. hpc[p] = "update" /\ UNCHANGED <<answer, sent>>
    BY <1>12 DEF UpdateDevice
  <2>2. CASE CloseConn(p)
    BY <1>2, <2>1, <2>2, ClosingDrops
  <2>3. CASE hpc' = [hpc EXCEPT ![p] = "await"] /\ UNCHANGED <<wire, buffer, cur>>
    <3>1. hpc[p]' = "await" /\ \A q \in Panels \ {p} : hpc[q]' = hpc[q]
      BY <1>3, <2>3
    <3>2. \A q \in Panels : Waits(q) => Waits(q)'
      BY <3>1 DEF Waits
    <3> QED
      BY <1>2, <2>1, <2>3, <3>2, MovingImplements
  <2> QED
    BY <1>12, <2>2, <2>3 DEF UpdateDevice
<1>13. CASE ReceiveReply(p)
  <2> DEFINE m == cur[p]
             b == IF Head(replyCh[m]) THEN "ack" ELSE "nack"
  <2>1. hpc[p] = "await" /\ sent' = sent
    BY <1>13 DEF ReceiveReply
  <2>2. CASE CloseConn(p) /\ UNCHANGED answer
    BY <1>2, <2>1, <2>2, ClosingDrops
  <2>3. CASE replyCh[m] # <<>> /\ NextFrame(p, "ahead") /\ WriteByte(p, m, b, "ahead")
    <3>1. answer' = answer \/ answer' = [answer EXCEPT ![m] = b]
      BY <2>3 DEF WriteByte
    <3>2. m \in Messages
      BY <1>1, <2>1, Kinds DEF TypeInv, CurInv, HandlerCurInv
    <3>3. Head(replyCh[m]) \in RangeOf(replyCh[m]) /\ Head(replyCh[m]) \in BOOLEAN
      <4>1. replyCh[m] \in Seq(BOOLEAN)
        BY <1>1, <3>2 DEF TypeInv, TypeOK, SharedTypeOK
      <4> QED
        BY <2>3, <4>1, RangeTail
    <3>4. b = "ack" => Decided(m, TRUE)
      <4>1. Decided(m, Head(replyCh[m]))
        BY <1>1, <3>2, <3>3 DEF RepliesAreVerdicts
      <4>2. CASE Head(replyCh[m]) = TRUE
        BY <4>1, <4>2
      <4>3. CASE Head(replyCh[m]) = FALSE
        BY <4>3
      <4> QED
        BY <3>3, <4>2, <4>3
    <3>5. b \in {"ack", "nack"}
      OBVIOUS
    <3> HIDE DEF b
    <3> QED
      BY <1>2, <2>1, <2>3, <3>1, <3>4, <3>5, WaitingEnds
  <2> QED
    BY <1>13, <2>2, <2>3, Zenon DEF ReceiveReply
<1>14. CASE ReplyTimeout(p)
  <2>1. PICK d : /\ NextFrame(p, d)
                 /\ WriteByte(p, cur[p], "nack", d)
    BY <1>14 DEF ReplyTimeout
  <2>2. hpc[p] = "await" /\ sent' = sent
    BY <1>14 DEF ReplyTimeout
  <2>3. answer' = answer \/ answer' = [answer EXCEPT ![cur[p]] = "nack"]
    BY <2>1 DEF WriteByte
  <2>4. "nack" \in {"ack", "nack"} /\ "ack" # "nack"
    OBVIOUS
  <2> QED
    BY <1>2, <2>1, <2>2, <2>3, <2>4, WaitingEnds
<1> QED
  BY <1>5, <1>6, <1>7, <1>8, <1>9, <1>10, <1>11, <1>12, <1>13, <1>14
  DEF Handler, HandlerStep

-----------------------------------------------------------------------------
(* Client, panels, station, and the end of the application. *)

LEMMA ClientImplements ==
  ASSUME PhaseInv, Client
  PROVE  IdleInv' /\ AnsweredInv' /\ AbstractStep
<1>1. UNCHANGED <<wire, buffer, cur, hpc, answer, sent>>
  BY DEF Client, serverVars
<1>2. stationLog' = stationLog
  BY DEF Client, ClientStep, RunTop, DialSucceeds, DialFails, BackoffElapsed,
     BackoffCancelled, TakeMessage, ShutdownConnection, WritePayload, WriteFails,
     ReadReply, ReadFails, SendReply
<1>3. \A q \in Panels : Waits(q) => Waits(q)'
  BY <1>1 DEF Waits
<1> QED
  BY <1>1, <1>2, <1>3, MovingImplements

LEMMA PanelImplements ==
  ASSUME PhaseInv, TypeInv', NEW p \in Panels, PanelStep(p), UNCHANGED clientVars
  PROVE  IdleInv' /\ AnsweredInv' /\ AbstractStep
<1>1. TypeInv /\ IdleInv /\ AnsweredInv
  BY DEF PhaseInv, OnceInv, SafeInv
<1>2. stationLog' = stationLog
  BY DEF clientVars
<1>3. CASE Accept(p)
  <2>1. hpc[p] = "none" /\ \A q \in Panels \ {p} : hpc[q]' = hpc[q]
    BY <1>1, <1>3 DEF Accept, TypeInv, TypeOK, ServerTypeOK
  <2>2. \A q \in Panels : Waits(q) => Waits(q)'
    BY <2>1 DEF Waits
  <2>3. UNCHANGED <<wire, buffer, cur, answer, sent>>
    BY <1>3 DEF Accept
  <2> QED
    BY <1>2, <2>2, <2>3, MovingImplements
<1>4. CASE HangUp(p) \/ DeadlinePasses(p)
  <2>1. UNCHANGED <<wire, buffer, cur, hpc, answer, sent>>
    BY <1>4 DEF HangUp, DeadlinePasses
  <2>2. \A q \in Panels : Waits(q) => Waits(q)'
    BY <2>1 DEF Waits
  <2> QED
    BY <1>2, <2>1, <2>2, MovingImplements
<1>5. ASSUME NEW m \in Messages, SendFrame(p, m)
      PROVE  IdleInv' /\ AnsweredInv' /\ AbstractStep
  <2>1. /\ m \notin sent /\ sent' = sent \cup {m}
        /\ wire[p]' = Append(wire[p], m) /\ \A q \in Panels \ {p} : wire[q]' = wire[q]
        /\ UNCHANGED <<hpc, buffer, cur, answer>>
    BY <1>1, <1>5 DEF SendFrame, TypeInv, TypeOK, ServerTypeOK
  <2>2. RangeOf(wire[p]') = RangeOf(wire[p]) \cup {m}
    <3>1. wire[p] \in Seq(Messages)
      BY <1>1, WaitingTypes
    <3>2. RangeOf(Append(wire[p], m)) = RangeOf(wire[p]) \cup {m}
      BY <3>1, RangeAppend
    <3> QED
      BY <2>1, <3>2
  <2>3. /\ Pending(p)' = Pending(p) \cup {m}
        /\ \A q \in Panels \ {p} : Pending(q)' = Pending(q)
    <3>1. Pending(p)' = RangeOf(wire[p]') \cup RangeOf(buffer[p]) \cup {cur[p]}
      BY <2>1 DEF Pending, RangeOf
    <3>2. \A q \in Panels \ {p} : Pending(q)' = Pending(q)
      BY <2>1 DEF Pending, RangeOf
    <3> QED
      BY <2>2, <3>1, <3>2 DEF Pending
  <2>4. Open' = Open \cup {m}
    BY <2>3 DEF Open
  <2>5. AnsweredInv' /\ D!Submit(m)
    BY <1>1, <1>2, <2>1, <2>4, AbstractSubmit
  <2>6. IdleInv'
    BY <1>1, <2>1 DEF IdleInv, Waits
  <2> QED
    BY <2>5, <2>6, MessageIsStep
<1> QED
  BY <1>3, <1>4, <1>5 DEF PanelStep

LEMMA StationImplements ==
  ASSUME PhaseInv, StationStep, UNCHANGED serverVars
  PROVE  IdleInv' /\ AnsweredInv' /\ AbstractStep
<1>1. TypeInv /\ IdleInv /\ AnsweredInv /\ EventsInv /\ StationInv
  BY DEF PhaseInv, OnceInv, SafeInv
<1>2. UNCHANGED <<wire, buffer, cur, hpc, answer, sent>>
  BY DEF serverVars
<1>3. Open' = Open /\ IdleInv'
  BY <1>1, <1>2 DEF Open, Pending, IdleInv, Waits
<1>4. ASSUME NEW m \in OnLink, NEW ack \in BOOLEAN,
             stationLog' = Append(stationLog, [msg |-> m, ack |-> ack])
      PROVE  AnsweredInv' /\ AbstractStep
  <2>1. m \in Events /\ m \in sent /\ m \notin Logged
    BY <1>1 DEF EventsInv, StationInv, Handled
  <2>2. AnsweredInv' /\ \E v \in {"yes", "no"} : D!Decide(m, v)
    BY <1>1, <1>2, <1>3, <1>4, <2>1, AbstractDecide
  <2> QED
    BY <2>1, <2>2, DecideIsStep
<1>5. ASSUME NEW ack \in BOOLEAN, StationAnswers(ack)
      PROVE  AnsweredInv' /\ AbstractStep
  <2>1. /\ toStation # <<>> /\ toStation \in Seq(Messages)
        /\ stationLog' = Append(stationLog, [msg |-> Head(toStation), ack |-> ack])
    BY <1>1, <1>5 DEF StationAnswers, TypeInv, TypeOK, ClientTypeOK
  <2>2. Head(toStation) \in OnLink
    BY <2>1, RangeTail DEF OnLink
  <2> QED
    BY <1>4, <2>1, <2>2
<1>6. ASSUME NEW m \in orphans, NEW ack \in BOOLEAN, StationGetsLate(m, ack)
      PROVE  AnsweredInv' /\ AbstractStep
  <2>1. m \in OnLink /\ stationLog' = Append(stationLog, [msg |-> m, ack |-> ack])
    BY <1>6 DEF StationGetsLate, OnLink
  <2> QED
    BY <1>4, <2>1
<1>7. ASSUME LinkBreaks
      PROVE  AnsweredInv' /\ AbstractStep
  <2>1. stationLog' = stationLog
    BY <1>7 DEF LinkBreaks
  <2> QED
    BY <1>1, <1>2, <1>3, <2>1, AbstractStutter, StutterIsStep
<1> QED
  BY <1>3, <1>5, <1>6, <1>7 DEF StationStep

LEMMA NextImplements ==
  ASSUME PhaseInv, TypeInv', [Next]_vars
  PROVE  IdleInv' /\ AnsweredInv' /\ AbstractStep
<1>1. CASE \E p \in Panels : Handler(p)
  BY <1>1, HandlerImplements
<1>2. CASE Client
  BY <1>2, ClientImplements
<1>3. CASE Environment
  BY <1>3, PanelImplements, StationImplements DEF Environment
<1>4. CASE Shutdown \/ UNCHANGED vars
  <2>1. UNCHANGED <<wire, buffer, cur, hpc, answer, sent, stationLog>>
    BY <1>4 DEF Shutdown, Cancel, CloseChannels, CloseListener, vars, serverVars, clientVars
  <2>2. \A q \in Panels : Waits(q) => Waits(q)'
    BY <2>1 DEF Waits
  <2> QED
    BY <2>1, <2>2, MovingImplements
<1> QED
  BY <1>1, <1>2, <1>3, <1>4 DEF Next

-----------------------------------------------------------------------------
(* Only events are queued, so only events travel. *)

LEMMA NextKeepsEvents ==
  ASSUME TypeInv, LinkInv, EventsInv, [Next]_vars
  PROVE  EventsInv'
<1>1. dataChannel \in Seq(Messages) /\ toStation \in Seq(Messages)
  BY DEF TypeInv, TypeOK, SharedTypeOK, ClientTypeOK
<1>2. ASSUME UNCHANGED <<cpc, ccur, toStation, orphans>>,
             Queued' \subseteq Queued \cup Events
      PROVE  EventsInv'
  <2>1. WithClient' = WithClient /\ OnLink' = OnLink
    BY <1>2 DEF WithClient, OnLink
  <2> QED
    BY <1>2, <2>1 DEF EventsInv
<1>3. ASSUME NEW p \in Panels, Handler(p) PROVE EventsInv'
  <2>1. UNCHANGED <<cpc, ccur, toStation, orphans>>
    BY <1>3 DEF Handler, clientVars, link
  <2>2. CASE EnqueueEvent(p, Parked)
    <3>1. /\ Head(buffer[p]) \in Events /\ Head(buffer[p]) \in Messages
          /\ dataChannel' = Append(dataChannel, Head(buffer[p]))
      BY <2>2, Kinds DEF EnqueueEvent, TakesFrame, Enqueue
    <3>2. Queued' = Queued \cup {Head(buffer[p])}
      BY <1>1, <3>1, RangeAppend DEF Queued
    <3> QED
      BY <1>2, <2>1, <3>1, <3>2
  <2>3. CASE dataChannel' = dataChannel
    BY <1>2, <2>1, <2>3 DEF Queued
  <2> QED
    BY <1>3, <2>2, <2>3 DEF Handler, HandlerStep, LoopTop, ReadChunk, ReadTimeout, ReadEnds,
       SplitDone, AnswerHeartbeat, RefuseFrame, UpdateDevice, ReceiveReply, ReplyTimeout,
       sharedVars
<1>4. ASSUME Client PROVE EventsInv'
  <2>1. CASE RunTop \/ DialSucceeds \/ DialFails \/ BackoffElapsed \/ BackoffCancelled
             \/ ReadReply \/ SendReply
    <3>1. /\ \/ cpc' \notin {"write", "read", "reply"}
             \/ cpc = "read" /\ ccur' = ccur
          /\ UNCHANGED <<dataChannel, toStation, orphans>>
      BY <2>1 DEF RunTop, DialSucceeds, DialFails, BackoffElapsed, BackoffCancelled,
         ReadReply, SendReply, sharedVars, link
    <3>2. WithClient' \subseteq WithClient
      BY <3>1 DEF WithClient
    <3>3. Queued' = Queued /\ OnLink' = OnLink
      BY <3>1 DEF Queued, OnLink
    <3> QED
      BY <3>2, <3>3 DEF EventsInv
  <2>2. CASE ShutdownConnection \/ WriteFails \/ ReadFails
    <3>1. /\ cpc' = "top" /\ dataChannel' = dataChannel
          /\ toStation' = <<>> /\ orphans' = orphans \cup RangeOf(toStation)
      BY <2>2 DEF ShutdownConnection, WriteFails, ReadFails, EndConnection, sharedVars
    <3>2. WithClient' = {} /\ Queued' = Queued /\ OnLink' = OnLink
      BY <3>1, RangeEmpty DEF WithClient, Queued, OnLink
    <3> QED
      BY <3>2 DEF EventsInv
  <2>3. CASE TakeMessage
    <3>1. /\ dataChannel # <<>> /\ ccur' = Head(dataChannel) /\ dataChannel' = Tail(dataChannel)
          /\ cpc' = "write" /\ UNCHANGED <<toStation, orphans>>
      BY <2>3 DEF TakeMessage, link
    <3>2. Head(dataChannel) \in Queued /\ Queued' \subseteq Queued
      BY <1>1, <3>1, RangeTail DEF Queued
    <3>3. WithClient' = {Head(dataChannel)} /\ OnLink' = OnLink
      BY <3>1 DEF WithClient, OnLink
    <3> QED
      BY <3>2, <3>3 DEF EventsInv
  <2>4. CASE WritePayload
    <3>1. /\ cpc = "write" /\ cpc' = "read"
          /\ toStation' = toStation \/ toStation' = Append(toStation, ccur)
          /\ UNCHANGED <<ccur, dataChannel, orphans>>
      BY <2>4 DEF WritePayload, sharedVars
    <3>2. WithClient = {ccur} /\ WithClient' = {ccur} /\ Queued' = Queued
      BY <3>1 DEF WithClient, Queued
    <3>3. ccur \in Messages
      BY <3>2, Kinds DEF EventsInv
    <3>4. RangeOf(Append(toStation, ccur)) = RangeOf(toStation) \cup {ccur}
      BY <1>1, <3>3, RangeAppend
    <3>5. OnLink' \subseteq OnLink \cup {ccur}
      BY <3>1, <3>4 DEF OnLink
    <3> QED
      BY <3>2, <3>5 DEF EventsInv
  <2> QED
    BY <1>4, <2>1, <2>2, <2>3, <2>4 DEF Client, ClientStep
<1>5. ASSUME Environment PROVE EventsInv'
  <2>1. ASSUME NEW p \in Panels, PanelStep(p), UNCHANGED clientVars PROVE EventsInv'
    <3>1. dataChannel' = dataChannel
      BY <2>1 DEF PanelStep, Accept, HangUp, SendFrame, DeadlinePasses, sharedVars
    <3> QED
      BY <1>2, <2>1, <3>1 DEF clientVars, link, Queued
  <2>2. ASSUME StationStep PROVE EventsInv'
    <3>1. UNCHANGED <<cpc, ccur, dataChannel>>
      BY <2>2 DEF StationStep, StationAnswers, StationGetsLate, LinkBreaks, sharedVars
    <3>2. ASSUME NEW ack \in BOOLEAN, StationAnswers(ack) PROVE OnLink' \subseteq OnLink
      <4>1. toStation # <<>> /\ toStation' = Tail(toStation) /\ orphans' = orphans
        BY <3>2 DEF StationAnswers
      <4> QED
        BY <1>1, <4>1, RangeTail DEF OnLink
    <3>3. ASSUME NEW m \in orphans, NEW ack \in BOOLEAN, StationGetsLate(m, ack)
          PROVE  OnLink' \subseteq OnLink
      BY <3>3 DEF StationGetsLate, link, OnLink
    <3>4. ASSUME LinkBreaks PROVE OnLink' \subseteq OnLink
      BY <3>4, RangeEmpty DEF LinkBreaks, OnLink
    <3>5. OnLink' \subseteq OnLink
      BY <2>2, <3>2, <3>3, <3>4 DEF StationStep
    <3>6. WithClient' = WithClient /\ Queued' = Queued
      BY <3>1 DEF WithClient, Queued
    <3> QED
      BY <3>5, <3>6 DEF EventsInv
  <2> QED
    BY <1>5, <2>1, <2>2 DEF Environment
<1>6. CASE Shutdown \/ UNCHANGED vars
  <2>1. UNCHANGED <<cpc, ccur, dataChannel, toStation, orphans>>
    BY <1>6 DEF Shutdown, Cancel, CloseChannels, CloseListener, vars, sharedVars, clientVars, link
  <2> QED
    BY <1>2, <2>1 DEF Queued
<1> QED
  BY <1>3, <1>4, <1>5, <1>6 DEF Next

-----------------------------------------------------------------------------
LEMMA PhaseInit == Init => PhaseInv /\ D!Init
<1> SUFFICES ASSUME Init PROVE PhaseInv /\ D!Init
  OBVIOUS
<1>1. OnceInv
  BY OnceInit
<1>2. /\ \A p \in Panels : wire[p] = <<>> /\ buffer[p] = <<>> /\ cur[p] = NoMsg
      /\ sent = {} /\ \A m \in Messages : answer[m] = "none"
      /\ dataChannel = <<>> /\ cpc = "top" /\ toStation = <<>> /\ orphans = {}
      /\ stationLog = <<>>
  BY DEF Init, SharedInit, ServerInit, ClientInit
<1>3. IdleInv /\ AnsweredInv
  BY <1>2 DEF IdleInv, AnsweredInv
<1>4. EventsInv
  BY <1>2, RangeEmpty DEF EventsInv, Queued, WithClient, OnLink
<1>5. \A m \in Messages : Phase(m) = "new" /\ VerdictOf(m) = "none"
  <2> TAKE m \in Messages
  <2>1. Phase(m) = "new"
    BY <1>2, PhaseCases
  <2>2. VerdictOf(m) = "none"
    BY <1>2, RangeEmpty DEF VerdictOf
  <2> QED
    BY <2>1, <2>2
<1>6. D!Init
  BY <1>5 DEF D!Init, D!Messages, Messages
<1> QED
  BY <1>1, <1>3, <1>4, <1>6 DEF PhaseInv

LEMMA PhaseNext == PhaseInv /\ [Next]_vars => PhaseInv' /\ AbstractStep
<1> SUFFICES ASSUME PhaseInv, [Next]_vars PROVE PhaseInv' /\ AbstractStep
  OBVIOUS
<1>1. OnceInv'
  BY NextKeepsOnce DEF PhaseInv
<1>2. TypeInv' /\ TypeInv /\ LinkInv
  BY <1>1 DEF PhaseInv, OnceInv, SafeInv
<1>3. EventsInv'
  BY <1>2, NextKeepsEvents DEF PhaseInv
<1> QED
  BY <1>1, <1>2, <1>3, NextImplements DEF PhaseInv

\* The relay keeps the contract of Delivery for every message: it is answered
\* once at most (server.go:491-557), positively only after the station accepted
\* it, the station decides on it once at most (client.go:179-234), and what is
\* dropped with a connection or a failed write stays unanswered.
THEOREM RelayDelivers == Spec => ImplementsDelivery
<1>1. Init => PhaseInv /\ D!Init
  BY PhaseInit
<1>2. PhaseInv /\ [Next]_vars => PhaseInv' /\ [D!Next]_(D!vars)
  BY PhaseNext DEF AbstractStep
<1> QED
  BY <1>1, <1>2, PTL DEF Spec, ImplementsDelivery, D!Spec

-----------------------------------------------------------------------------
(* The counters. *)

\* The events the client has counted as accepted and somebody has been told of:
\* the status is still with the client, or in a reply channel, or at the panel.
Told ==
  {m \in Events : answer[m] = "ack"}
    \cup {m \in Messages : TRUE \in RangeOf(replyCh[m])}
    \cup (IF cpc = "reply" /\ cstatus THEN {ccur} ELSE {})

Yes(S) == {[msg |-> m, ack |-> TRUE] : m \in S}
No(S) == {[msg |-> m, ack |-> FALSE] : m \in S}

\* A reply that has arrived and is not yet counted.
AckToCount == IF fromStation # <<>> /\ Head(fromStation).ack THEN 1 ELSE 0
NackToCount == IF fromStation # <<>> /\ ~Head(fromStation).ack THEN 1 ELSE 0

CountInv ==
  /\ accepted + AckToCount <= Count(Yes(Messages))
  /\ rejected + NackToCount <= Count(No(Messages))
  /\ Count(Yes(Told)) <= accepted

CounterInv == OnceInv /\ CountInv

LEMMA CountIs ==
  ASSUME TypeInv
  PROVE  /\ \A S : Count(S) \in Nat
         /\ stationLog \in Seq(Verdict)
         /\ accepted \in Nat /\ rejected \in Nat
         /\ fromStation \in Seq(Verdict)
<1>1. /\ stationLog \in Seq(Verdict) /\ fromStation \in Seq(Verdict)
      /\ accepted \in Nat /\ rejected \in Nat
  BY DEF TypeInv, TypeOK, ClientTypeOK
<1> QED
  BY <1>1, CollectType DEF Count

\* What is told was decided.
LEMMA ToldDecided ==
  ASSUME SafeInv
  PROVE  Told \subseteq Logged /\ Told \subseteq Messages
<1>1. \A m : Decided(m, TRUE) => m \in Logged
  <2> TAKE m
  <2>1. [msg |-> m, ack |-> TRUE].msg = m
    OBVIOUS
  <2> QED
    BY <2>1, Zenon DEF Decided, Logged
<1>2. cpc = "reply" /\ cstatus => Decided(ccur, TRUE) /\ ccur \in Messages
  <2>1. cstatus \in BOOLEAN /\ (cpc = "reply" => ccur \in Messages)
    BY DEF SafeInv, TypeInv, TypeOK, ClientTypeOK, CurInv, ClientCurInv
  <2>2. cpc = "reply" => Decided(ccur, cstatus)
    BY DEF SafeInv, RepliesAreVerdicts
  <2>3. cstatus => cstatus = TRUE
    BY <2>1
  <2> QED
    BY <2>1, <2>2, <2>3, Zenon
<1>3. \A m \in Messages : TRUE \in RangeOf(replyCh[m]) => Decided(m, TRUE)
  BY DEF SafeInv, RepliesAreVerdicts
<1>4. \A m \in Events : answer[m] = "ack" => Decided(m, TRUE)
  BY DEF SafeInv, AckSound
<1> QED
  BY <1>1, <1>2, <1>3, <1>4, Kinds, Zenon DEF Told

LEMMA CountGrows ==
  ASSUME TypeInv, NEW A, NEW B, A \subseteq B
  PROVE  Count(A) <= Count(B)
<1>1. stationLog \in Seq(Verdict)
  BY CountIs
<1> QED
  BY <1>1, CollectMore DEF Count

\* Nothing is counted, decided or told.
LEMMA CountStays ==
  ASSUME TypeInv, CountInv, UNCHANGED <<accepted, rejected, stationLog>>,
         Told' \subseteq Told, fromStation' = fromStation \/ fromStation' = <<>>
  PROVE  CountInv'
<1>0. \A a, c \in Nat : \A x, y \in {0, 1} : y <= x /\ a + x <= c => a + y <= c
  OBVIOUS
<1>1. \A S : Count(S)' = Count(S)
  BY DEF Count
<1>2. Count(Yes(Told')) <= Count(Yes(Told))
  <2>1. Yes(Told') \subseteq Yes(Told)
    BY DEF Yes
  <2> QED
    BY <2>1, CountGrows
<1>3. /\ \A S : Count(S) \in Nat
      /\ accepted \in Nat /\ rejected \in Nat
  BY CountIs
<1>4. /\ AckToCount' <= AckToCount /\ NackToCount' <= NackToCount
      /\ AckToCount \in {0, 1} /\ NackToCount \in {0, 1}
      /\ AckToCount' \in {0, 1} /\ NackToCount' \in {0, 1}
  BY DEF AckToCount, NackToCount
<1>5. Count(Yes(Told))' = Count(Yes(Told')) /\ Count(Yes(Messages))' = Count(Yes(Messages))
      /\ Count(No(Messages))' = Count(No(Messages))
  BY DEF Count, Yes, No
<1>6. accepted' + AckToCount' <= Count(Yes(Messages))
  <2>1. accepted + AckToCount <= Count(Yes(Messages))
    BY DEF CountInv
  <2>2. Count(Yes(Messages)) \in Nat /\ accepted' = accepted
    BY <1>3
  <2> QED
    BY <1>0, <1>3, <1>4, <2>1, <2>2
<1>7. rejected' + NackToCount' <= Count(No(Messages))
  <2>1. rejected + NackToCount <= Count(No(Messages))
    BY DEF CountInv
  <2>2. Count(No(Messages)) \in Nat /\ rejected' = rejected
    BY <1>3
  <2> QED
    BY <1>0, <1>3, <1>4, <2>1, <2>2
<1>8. Count(Yes(Told')) <= accepted'
  <2>1. Count(Yes(Told)) <= accepted
    BY DEF CountInv
  <2>2. Count(Yes(Told)) \in Nat /\ Count(Yes(Told')) \in Nat
    BY <1>3
  <2> QED
    BY <2>1, <2>2, <1>2, <1>3
<1> QED
  BY <1>5, <1>6, <1>7, <1>8 DEF CountInv

\* A handler passes on a status it was told of, or loses it.
LEMMA HandlerTells ==
  ASSUME SafeInv, NEW p \in Panels, Handler(p)
  PROVE  Told' \subseteq Told
<1>1. UNCHANGED <<cpc, ccur, cstatus>>
  BY DEF Handler, clientVars
<1>2. /\ answer \in [Messages -> {"none", "ack", "nack"}]
      /\ replyCh \in [Messages -> Seq(BOOLEAN)]
      /\ cur \in [Panels -> Events \cup {NoMsg}]
      /\ hpc[p] = "await" => cur[p] \in Events
  BY Zenon DEF SafeInv, TypeInv, TypeOK, SharedTypeOK, ServerTypeOK, CurInv,
               HandlerCurInv
<1> DEFINE E(ans) == {m \in Events : ans[m] = "ack"}
           R(ch) == {m \in Messages : TRUE \in RangeOf(ch[m])}
<1>3. \A m \in Messages : RangeOf(replyCh'[m]) \subseteq RangeOf(replyCh[m])
  <2>1. CASE UNCHANGED replyCh
    BY <2>1, Zenon
  <2>2. CASE EnqueueEvent(p, Parked)
    <3>1. PICK e : replyCh' = [replyCh EXCEPT ![e] = <<>>]
      BY <2>2 DEF EnqueueEvent
    <3> QED
      BY <1>2, <3>1, RangeEmpty, Zenon
  <2>3. ASSUME ReceiveReply(p), replyCh[cur[p]] # <<>>
        PROVE  \A m \in Messages : RangeOf(replyCh'[m]) \subseteq RangeOf(replyCh[m])
    <3>1. replyCh' = [replyCh EXCEPT ![cur[p]] = Tail(@)]
      BY <2>3, Zenon DEF ReceiveReply
    <3>2. replyCh[cur[p]] \in Seq(BOOLEAN)
      BY <1>2, <2>3, Kinds, Zenon DEF ReceiveReply
    <3>3. RangeOf(Tail(replyCh[cur[p]])) \subseteq RangeOf(replyCh[cur[p]])
      BY <2>3, <3>2, RangeTail
    <3> QED
      BY <1>2, <3>1, <3>3, Zenon
  <2>4. CASE ReceiveReply(p) /\ replyCh[cur[p]] = <<>>
    BY <2>1, <2>4, Zenon DEF ReceiveReply
  <2> QED
    BY <2>1, <2>2, <2>3, <2>4, Zenon
    DEF Handler, HandlerStep, LoopTop, ReadChunk, ReadTimeout, ReadEnds,
        SplitDone, AnswerHeartbeat, RefuseFrame, UpdateDevice, ReplyTimeout,
        sharedVars
<1>4. \A m \in Events : answer'[m] = "ack" =>
                          answer[m] = "ack" \/ TRUE \in RangeOf(replyCh[m])
  <2>1. CASE UNCHANGED answer
    BY <2>1, Zenon
  <2>2. CASE AnswerHeartbeat(p)
    BY <1>2, <2>2, Kinds, Zenon DEF AnswerHeartbeat, TakesFrame, WriteByte
  <2>3. CASE RefuseFrame(p, Parked)
    BY <1>2, <2>3, Kinds, Zenon DEF RefuseFrame, WriteByte
  <2>4. CASE ReplyTimeout(p)
    BY <1>2, <2>4, Kinds, Zenon DEF ReplyTimeout, WriteByte
  <2>5. ASSUME ReceiveReply(p), ~UNCHANGED answer
        PROVE  \A m \in Events : answer'[m] = "ack" =>
                                   answer[m] = "ack" \/ TRUE \in RangeOf(replyCh[m])
    <3> DEFINE s == Head(replyCh[cur[p]])
    <3>1. /\ replyCh[cur[p]] # <<>>
          /\ hpc[p] = "await"
          /\ answer' = [answer EXCEPT ![cur[p]] = IF s THEN "ack" ELSE "nack"]
      BY <2>5, Zenon DEF ReceiveReply, WriteByte
    <3>2. replyCh[cur[p]] \in Seq(BOOLEAN)
      BY <1>2, <3>1, Kinds, Zenon
    <3>3. s \in RangeOf(replyCh[cur[p]]) /\ s \in BOOLEAN
      BY <3>1, <3>2, RangeTail
    <3>4. s => TRUE \in RangeOf(replyCh[cur[p]])
      BY <3>3, Zenon
    <3> QED
      BY <1>2, <3>1, <3>4, Kinds, Zenon
  <2> QED
    BY <2>1, <2>2, <2>3, <2>4, <2>5, Zenon
    DEF Handler, HandlerStep, LoopTop, ReadChunk, ReadTimeout, ReadEnds,
        SplitDone, EnqueueEvent, UpdateDevice
<1> QED
  BY <1>1, <1>3, <1>4, Kinds, Zenon DEF Told

LEMMA HandlerCounts ==
  ASSUME CounterInv, NEW p \in Panels, Handler(p)
  PROVE  CountInv'
<1>1. UNCHANGED <<accepted, rejected, stationLog, fromStation>>
  BY DEF Handler, clientVars, metrics, link
<1> QED
  BY <1>1, HandlerTells, CountStays DEF CounterInv, OnceInv, SafeInv

\* While no reply is read and none is passed on, as much is told as before.
LEMMA ToldStays ==
  ASSUME UNCHANGED <<answer, replyCh>>, cpc' # "reply"
  PROVE  Told' \subseteq Told
BY Zenon DEF Told

LEMMA YesOne ==
  ASSUME NEW S, NEW m
  PROVE  Yes(S \cup {m}) = Yes(S) \cup {[msg |-> m, ack |-> TRUE]}
BY Zenon DEF Yes

\* A reply is counted when it is read, and told of then.
LEMMA ReadCounts ==
  ASSUME CounterInv, ReadReply, answer' = answer
  PROVE  CountInv'
<1> DEFINE v == Head(fromStation)
           rest == {m \in Events : answer[m] = "ack"}
                     \cup {m \in Messages : TRUE \in RangeOf(replyCh[m])}
<1>1. /\ TypeInv /\ CountInv /\ SafeInv
      /\ LinkInv /\ AtMostOnce
  BY DEF CounterInv, OnceInv, SafeInv, StationInv
<1>2. /\ cpc = "read" /\ cpc' = "reply" /\ fromStation # <<>> /\ fromStation' = <<>>
      /\ cstatus' = v.ack /\ ccur' = ccur
      /\ UNCHANGED <<replyCh, stationLog>>
      /\ IF v.ack THEN accepted' = accepted + 1 /\ rejected' = rejected
                  ELSE rejected' = rejected + 1 /\ accepted' = accepted
  BY Zenon DEF ReadReply, sharedVars
<1>3. v \in Verdict /\ v.ack \in BOOLEAN /\ v.msg = ccur
  <2>1. fromStation \in Seq(Verdict)
    BY <1>1, CountIs
  <2>2. v \in Verdict
    BY <1>2, <2>1, RangeTail
  <2> QED
    BY <1>1, <1>2, <2>2 DEF LinkInv, Verdict
<1>4. /\ Told = rest
      /\ Told' = rest \cup (IF v.ack THEN {ccur} ELSE {})
  BY <1>2 DEF Told
<1> HIDE DEF rest, v
<1>5. /\ AckToCount = IF v.ack THEN 1 ELSE 0
      /\ NackToCount = IF v.ack THEN 0 ELSE 1
      /\ AckToCount' = 0 /\ NackToCount' = 0
  BY <1>2, <1>3 DEF AckToCount, NackToCount, v
<1>6. /\ \A S : Count(S) \in Nat
      /\ stationLog \in Seq(Verdict)
      /\ accepted \in Nat /\ rejected \in Nat
  BY <1>1, CountIs
<1>7. Count(Yes(Told')) <= Count(Yes(Told)) + IF v.ack THEN 1 ELSE 0
  <2>1. CASE v.ack
    <3> DEFINE u == [msg |-> ccur, ack |-> TRUE]
    <3>1. Yes(Told') = Yes(Told) \cup {u}
      BY <1>4, <2>1, YesOne
    <3>2. \A i, j \in DOMAIN stationLog : stationLog[i] = u /\ stationLog[j] = u => i = j
      BY <1>1 DEF AtMostOnce
    <3>3. Len(Collect(stationLog, Yes(Told) \cup {u}))
            <= Len(Collect(stationLog, Yes(Told))) + 1
      BY <1>6, <3>2, CollectOne
    <3> QED
      BY <2>1, <3>1, <3>3 DEF Count
  <2>2. CASE ~v.ack
    <3>1. Told' = Told
      BY <1>4, <2>2
    <3>2. Count(Yes(Told)) \in Nat
      BY <1>6
    <3> QED
      BY <2>2, <3>1, <3>2
  <2> QED
    BY <2>1, <2>2
<1>8. \A S : Count(S)' = Count(S)
  BY <1>2 DEF Count
<1>9. /\ Count(Yes(Told))' = Count(Yes(Told'))
      /\ Count(Yes(Messages))' = Count(Yes(Messages))
      /\ Count(No(Messages))' = Count(No(Messages))
  BY <1>2 DEF Count, Yes, No
<1>10. /\ accepted + AckToCount <= Count(Yes(Messages))
       /\ rejected + NackToCount <= Count(No(Messages))
       /\ Count(Yes(Told)) <= accepted
  BY <1>1 DEF CountInv
<1>11. /\ Count(Yes(Messages)) \in Nat /\ Count(No(Messages)) \in Nat
       /\ Count(Yes(Told)) \in Nat /\ Count(Yes(Told')) \in Nat
  BY <1>6
<1>12. CASE v.ack
  <2>0. AckToCount = 1 /\ NackToCount = 0 /\ accepted' = accepted + 1
        /\ rejected' = rejected
    BY <1>2, <1>5, <1>12
  <2>1. accepted' + AckToCount' <= Count(Yes(Messages))
    BY <1>5, <1>6, <1>10, <1>11, <2>0
  <2>2. rejected' + NackToCount' <= Count(No(Messages))
    BY <1>5, <1>6, <1>10, <1>11, <2>0
  <2>3. Count(Yes(Told')) <= accepted'
    BY <1>6, <1>7, <1>10, <1>11, <1>12, <2>0
  <2> QED
    BY <1>9, <2>1, <2>2, <2>3 DEF CountInv
<1>13. CASE ~v.ack
  <2>0. AckToCount = 0 /\ NackToCount = 1 /\ rejected' = rejected + 1
        /\ accepted' = accepted
    BY <1>2, <1>5, <1>13
  <2>1. accepted' + AckToCount' <= Count(Yes(Messages))
    BY <1>5, <1>6, <1>10, <1>11, <2>0
  <2>2. rejected' + NackToCount' <= Count(No(Messages))
    BY <1>5, <1>6, <1>10, <1>11, <2>0
  <2>3. Count(Yes(Told')) <= accepted'
    BY <1>6, <1>7, <1>10, <1>11, <1>13, <2>0
  <2> QED
    BY <1>9, <2>1, <2>2, <2>3 DEF CountInv
<1> QED
  BY <1>12, <1>13

\* The status goes from the client's variable into the reply channel.
LEMMA ReplyTells ==
  ASSUME SafeInv, SendReply, answer' = answer
  PROVE  Told' \subseteq Told
<1>1. /\ replyCh \in [Messages -> Seq(BOOLEAN)] /\ cstatus \in BOOLEAN
      /\ cpc = "reply" => ccur \in Messages
  BY DEF SafeInv, TypeInv, TypeOK, SharedTypeOK, ClientTypeOK, CurInv, ClientCurInv
<1>2. /\ cpc = "reply" /\ cpc' = "select"
      /\ replyCh' = replyCh \/ replyCh' = [replyCh EXCEPT ![ccur] = Append(@, cstatus)]
  BY Zenon DEF SendReply
<1>3. RangeOf(Append(replyCh[ccur], cstatus)) = RangeOf(replyCh[ccur]) \cup {cstatus}
  <2>1. replyCh[ccur] \in Seq(BOOLEAN)
    BY <1>1, <1>2
  <2> QED
    BY <1>1, <2>1, RangeAppend
<1>4. \A m \in Messages :
        \/ RangeOf(replyCh'[m]) \subseteq RangeOf(replyCh[m])
        \/ m = ccur /\ RangeOf(replyCh'[m]) \subseteq RangeOf(replyCh[m]) \cup {cstatus}
  <2>1. CASE replyCh' = replyCh
    BY <2>1, Zenon
  <2>2. CASE replyCh' = [replyCh EXCEPT ![ccur] = Append(@, cstatus)]
    <3>1. \A m \in Messages : replyCh'[m] = IF m = ccur THEN Append(replyCh[ccur], cstatus)
                                            ELSE replyCh[m]
      BY <1>1, <2>2
    <3> TAKE m \in Messages
    <3>2. CASE m = ccur
      BY <1>3, <3>1, <3>2
    <3>3. CASE m # ccur
      <4>1. replyCh'[m] = replyCh[m]
        BY <3>1, <3>3
      <4> QED
        BY <4>1, Zenon
    <3> QED
      BY <3>2, <3>3
  <2> QED
    BY <1>2, <2>1, <2>2, Zenon
<1>5. \A m \in Messages : TRUE \in RangeOf(replyCh'[m]) =>
                            TRUE \in RangeOf(replyCh[m]) \/ (m = ccur /\ cstatus)
  <2>1. cstatus = TRUE \/ TRUE \notin {cstatus}
    BY <1>1
  <2>2. CASE cstatus = TRUE
    <3>1. cstatus
      BY <2>2
    <3>2. \A m \in Messages : RangeOf(replyCh'[m]) \subseteq RangeOf(replyCh[m]) \/ m = ccur
      BY <1>4, Zenon
    <3> QED
      BY <3>1, <3>2, Zenon
  <2>3. CASE TRUE \notin {cstatus}
    <3>1. \A A, B : TRUE \in A /\ A \subseteq B \cup {cstatus} => TRUE \in B
      BY <2>3, Zenon
    <3>2. \A A, B : TRUE \in A /\ A \subseteq B => TRUE \in B
      BY Zenon
    <3> TAKE m \in Messages
    <3> HAVE TRUE \in RangeOf(replyCh'[m])
    <3>3. CASE RangeOf(replyCh'[m]) \subseteq RangeOf(replyCh[m])
      BY <3>2, <3>3, Zenon
    <3>4. CASE RangeOf(replyCh'[m]) \subseteq RangeOf(replyCh[m]) \cup {cstatus}
      BY <3>1, <3>4, Zenon
    <3> QED
      BY <1>4, <3>3, <3>4, Zenon
  <2> QED
    BY <2>1, <2>2, <2>3, Zenon
<1> QED
  BY <1>2, <1>5, Zenon DEF Told

LEMMA ClientCounts ==
  ASSUME CounterInv, Client
  PROVE  CountInv'
<1>1. answer' = answer
  BY DEF Client, serverVars
<1>2. TypeInv /\ CountInv /\ SafeInv
  BY DEF CounterInv, OnceInv, SafeInv
<1>3. CASE ShutdownConnection \/ WriteFails \/ ReadFails
  <2>1. UNCHANGED <<accepted, rejected, stationLog, replyCh>>
        /\ fromStation' = <<>> /\ cpc' # "reply"
    BY <1>3 DEF ShutdownConnection, WriteFails, ReadFails, sharedVars, EndConnection
  <2> QED
    BY <1>1, <1>2, <2>1, ToldStays, CountStays
<1>4. CASE RunTop \/ DialSucceeds \/ DialFails \/ BackoffElapsed
           \/ BackoffCancelled \/ TakeMessage \/ WritePayload
  <2>1. UNCHANGED <<accepted, rejected, stationLog, replyCh, fromStation>> /\ cpc' # "reply"
    BY <1>4, Zenon DEF RunTop, DialSucceeds, DialFails, BackoffElapsed,
       BackoffCancelled, TakeMessage, WritePayload, sharedVars, link, metrics
  <2> QED
    BY <1>1, <1>2, <2>1, ToldStays, CountStays
<1>5. CASE ReadReply
  BY <1>1, <1>5, ReadCounts
<1>6. CASE SendReply
  <2>1. UNCHANGED <<accepted, rejected, stationLog, fromStation>>
    BY <1>6 DEF SendReply, metrics, link
  <2> QED
    BY <1>1, <1>2, <1>6, <2>1, ReplyTells, CountStays
<1> QED
  BY <1>3, <1>4, <1>5, <1>6 DEF Client, ClientStep

\* The station decides on a message nobody was told of.
LEMMA DecidingCounts ==
  ASSUME CounterInv, NEW v \in Verdict, v.msg \notin Logged,
         stationLog' = Append(stationLog, v),
         fromStation' = fromStation \/ (fromStation = <<>> /\ fromStation' = <<v>>),
         UNCHANGED <<accepted, rejected, answer, replyCh, cpc, ccur, cstatus>>
  PROVE  CountInv'
<1>1. TypeInv /\ CountInv /\ SafeInv
  BY DEF CounterInv, OnceInv, SafeInv
<1>2. /\ \A S : Count(S) \in Nat
      /\ stationLog \in Seq(Verdict)
      /\ accepted \in Nat /\ rejected \in Nat
  BY <1>1, CountIs
<1>3. Told' = Told /\ v.msg \notin Told
  BY <1>1, ToldDecided DEF Told
<1>4. \A S : Count(S)' = Count(S) + IF v \in S THEN 1 ELSE 0
  <2> TAKE S
  <2>1. Collect(stationLog, S) \in Seq(Verdict) /\ Len(Collect(stationLog, S)) \in Nat
    BY <1>2, CollectType
  <2>2. \A r \in Seq(Verdict) : Len(Append(r, v)) = Len(r) + 1
    OBVIOUS
  <2>3. Collect(stationLog', S) = IF v \in S THEN Append(Collect(stationLog, S), v)
                                  ELSE Collect(stationLog, S)
    BY <1>2, CollectAppend
  <2> QED
    BY <2>1, <2>2, <2>3 DEF Count
<1>5. v = [msg |-> v.msg, ack |-> v.ack] /\ v.msg \in Messages /\ v.ack \in BOOLEAN
  BY DEF Verdict
<1>6. v \notin Yes(Told)
  <2> SUFFICES ASSUME v \in Yes(Told)
               PROVE  FALSE
    OBVIOUS
  <2>1. PICK m \in Told : v = [msg |-> m, ack |-> TRUE]
    BY Zenon DEF Yes
  <2>2. v.msg = m
    BY <2>1
  <2> QED
    BY <1>3, <2>2, Zenon
<1>7. /\ v.ack => v \in Yes(Messages)
      /\ ~v.ack => v \in No(Messages)
  BY <1>5, Zenon DEF Yes, No
<1>8. /\ Count(Yes(Told))' = Count(Yes(Told))
      /\ Count(Yes(Messages))' = Count(Yes(Messages)) + IF v \in Yes(Messages) THEN 1 ELSE 0
      /\ Count(No(Messages))' = Count(No(Messages)) + IF v \in No(Messages) THEN 1 ELSE 0
  <2>1. \A S : Len(Collect(stationLog', S)) = Count(S) + IF v \in S THEN 1 ELSE 0
    BY <1>4 DEF Count
  <2>2. /\ Count(Yes(Told))' = Len(Collect(stationLog', Yes(Told)))
        /\ Count(Yes(Messages))' = Len(Collect(stationLog', Yes(Messages)))
        /\ Count(No(Messages))' = Len(Collect(stationLog', No(Messages)))
    BY <1>3 DEF Count, Yes, No
  <2>3. Count(Yes(Told)) \in Nat
    BY <1>2
  <2> QED
    BY <1>6, <2>1, <2>2, <2>3
<1>9. /\ AckToCount \in {0, 1} /\ NackToCount \in {0, 1}
      /\ AckToCount' = AckToCount \/ (AckToCount = 0 /\ AckToCount' = IF v.ack THEN 1 ELSE 0)
      /\ NackToCount' = NackToCount \/ (NackToCount = 0 /\ NackToCount' = IF v.ack THEN 0 ELSE 1)
  <2>1. <<v>> # <<>> /\ Head(<<v>>) = v
    OBVIOUS
  <2>2. CASE fromStation' = fromStation
    BY <2>2 DEF AckToCount, NackToCount
  <2>3. CASE fromStation = <<>> /\ fromStation' = <<v>>
    BY <1>5, <2>1, <2>3 DEF AckToCount, NackToCount
  <2> QED
    BY <2>2, <2>3 DEF AckToCount, NackToCount
<1>10. /\ accepted + AckToCount <= Count(Yes(Messages))
       /\ rejected + NackToCount <= Count(No(Messages))
       /\ Count(Yes(Told)) <= accepted
       /\ Count(Yes(Messages)) \in Nat /\ Count(No(Messages)) \in Nat
  BY <1>1, <1>2 DEF CountInv
<1>11. accepted' + AckToCount' <= Count(Yes(Messages))'
  <2>1. CASE AckToCount' = AckToCount
    BY <1>2, <1>8, <1>9, <1>10, <2>1
  <2>2. CASE AckToCount = 0 /\ AckToCount' = IF v.ack THEN 1 ELSE 0
    BY <1>2, <1>7, <1>8, <1>10, <2>2
  <2> QED
    BY <1>9, <2>1, <2>2
<1>12. rejected' + NackToCount' <= Count(No(Messages))'
  <2>1. CASE NackToCount' = NackToCount
    BY <1>2, <1>8, <1>9, <1>10, <2>1
  <2>2. CASE NackToCount = 0 /\ NackToCount' = IF v.ack THEN 0 ELSE 1
    BY <1>2, <1>7, <1>8, <1>10, <2>2
  <2> QED
    BY <1>9, <2>1, <2>2
<1>13. Count(Yes(Told))' <= accepted'
  BY <1>8, <1>10
<1> QED
  BY <1>11, <1>12, <1>13 DEF CountInv

LEMMA EnvironmentCounts ==
  ASSUME CounterInv, Environment
  PROVE  CountInv'
<1>1. /\ TypeInv /\ CountInv /\ SafeInv /\ LinkInv /\ StationInv
      /\ toStation \in Seq(Messages) /\ orphans \subseteq Messages
      /\ fromStation \in Seq(Verdict)
  BY DEF CounterInv, OnceInv, SafeInv, TypeInv, TypeOK, ClientTypeOK
<1>2. ASSUME UNCHANGED <<accepted, rejected, stationLog, answer, replyCh, cpc, ccur, cstatus>>,
             fromStation' = fromStation
      PROVE  CountInv'
  <2>1. Told' \subseteq Told
    BY <1>2 DEF Told
  <2> QED
    BY <1>1, <1>2, <2>1, CountStays
<1>3. ASSUME NEW p \in Panels, PanelStep(p), UNCHANGED clientVars
      PROVE  CountInv'
  <2>1. UNCHANGED <<answer, replyCh>>
    BY <1>3 DEF PanelStep, Accept, HangUp, SendFrame, DeadlinePasses, sharedVars
  <2> QED
    BY <1>2, <1>3, <2>1 DEF clientVars, metrics, link
<1>4. ASSUME NEW ack \in BOOLEAN, StationAnswers(ack), UNCHANGED serverVars
      PROVE  CountInv'
  <2> DEFINE v == [msg |-> Head(toStation), ack |-> ack]
  <2>1. /\ toStation # <<>> /\ stationLog' = Append(stationLog, v)
        /\ fromStation' = Append(fromStation, v)
        /\ UNCHANGED <<accepted, rejected, answer, replyCh, cpc, ccur, cstatus>>
    BY <1>4 DEF StationAnswers, serverVars, sharedVars, metrics
  <2>2. Head(toStation) \in Messages /\ Head(toStation) \in RangeOf(toStation)
    BY <1>1, <2>1, RangeTail
  <2>3. v \in Verdict /\ v.msg = Head(toStation)
    BY <2>2 DEF Verdict
  <2>4. v.msg \notin Logged
    BY <1>1, <2>2, <2>3 DEF StationInv, OnLink
  <2>5. fromStation = <<>>
    BY <1>1, <2>1 DEF LinkInv
  <2> HIDE DEF v
  <2>6. fromStation' = <<v>>
    BY <2>1, <2>5
  <2> QED
    BY <2>1, <2>3, <2>4, <2>5, <2>6, DecidingCounts
<1>5. ASSUME NEW m \in orphans, NEW ack \in BOOLEAN, StationGetsLate(m, ack),
             UNCHANGED serverVars
      PROVE  CountInv'
  <2> DEFINE v == [msg |-> m, ack |-> ack]
  <2>1. /\ stationLog' = Append(stationLog, v) /\ fromStation' = fromStation
        /\ UNCHANGED <<accepted, rejected, answer, replyCh, cpc, ccur, cstatus>>
    BY <1>5 DEF StationGetsLate, serverVars, sharedVars, metrics, link
  <2>2. v \in Verdict /\ v.msg = m
    BY <1>1 DEF Verdict
  <2>3. v.msg \notin Logged
    BY <1>1, <2>2 DEF StationInv, OnLink
  <2> HIDE DEF v
  <2> QED
    BY <2>1, <2>2, <2>3, DecidingCounts
<1>6. ASSUME LinkBreaks, UNCHANGED serverVars PROVE CountInv'
  BY <1>2, <1>6 DEF LinkBreaks, serverVars, sharedVars, metrics
<1> QED
  BY <1>3, <1>4, <1>5, <1>6 DEF Environment, StationStep

LEMMA CounterInit == Init => CounterInv
<1> SUFFICES ASSUME Init PROVE CountInv
  BY OnceInit DEF CounterInv
<1>1. /\ accepted = 0 /\ rejected = 0 /\ fromStation = <<>> /\ stationLog = <<>>
      /\ TypeInv
  BY TypeInvInit DEF Init, ClientInit
<1>2. \A S : Count(S) = 0
  <2>1. \A S : Collect(<<>>, S) = <<>>
    BY CollectEmpty
  <2>2. Len(<<>>) = 0
    OBVIOUS
  <2> QED
    BY <1>1, <2>1, <2>2 DEF Count
<1>3. Count(Yes(Messages)) = 0 /\ Count(No(Messages)) = 0 /\ Count(Yes(Told)) = 0
  BY <1>2
<1>4. AckToCount = 0 /\ NackToCount = 0
  BY <1>1 DEF AckToCount, NackToCount
<1> QED
  BY <1>1, <1>3, <1>4 DEF CountInv

LEMMA CounterNext == CounterInv /\ [Next]_vars => CounterInv'
<1> SUFFICES ASSUME CounterInv, [Next]_vars PROVE CountInv'
  BY NextKeepsOnce DEF CounterInv
<1>1. TypeInv /\ CountInv
  BY DEF CounterInv, OnceInv, SafeInv
<1>2. ASSUME UNCHANGED <<answer, sharedVars, clientVars>> PROVE CountInv'
  <2>1. /\ UNCHANGED <<accepted, rejected, stationLog, fromStation>>
        /\ UNCHANGED <<answer, replyCh, cpc, ccur, cstatus>>
    BY <1>2 DEF sharedVars, clientVars, metrics, link
  <2>2. Told' \subseteq Told
    BY <2>1 DEF Told
  <2> QED
    BY <1>1, <2>1, <2>2, CountStays
<1>3. CASE Shutdown
  <2>1. UNCHANGED <<answer, replyCh, clientVars>>
    BY <1>3 DEF Shutdown, Cancel, CloseChannels, CloseListener, serverVars, sharedVars
  <2>2. UNCHANGED <<accepted, rejected, stationLog, fromStation, cpc, ccur, cstatus>>
    BY <2>1 DEF clientVars, metrics, link
  <2>3. Told' \subseteq Told
    BY <2>1, <2>2 DEF Told
  <2> QED
    BY <1>1, <2>2, <2>3, CountStays
<1>4. CASE UNCHANGED vars
  BY <1>2, <1>4 DEF vars, serverVars
<1> QED
  BY <1>3, <1>4, HandlerCounts, ClientCounts, EnvironmentCounts DEF Next

\* The counters agree with the panels and with the station: processMessage counts
\* a reply (client.go:218-224) before it passes it on, so nobody is told of an
\* ACK that is not counted, and a reply lost with its connection makes a counter
\* fall behind the station, never run ahead of it.
THEOREM CountersAgree == Spec => []CountersSound
<1>1. CounterInv => CountersSound
  <2> SUFFICES ASSUME CounterInv PROVE CountersSound
    OBVIOUS
  <2>1. TypeInv /\ CountInv
    BY DEF CounterInv, OnceInv, SafeInv
  <2>2. /\ Yes(Messages) \subseteq [msg : Messages, ack : {TRUE}]
        /\ No(Messages) \subseteq [msg : Messages, ack : {FALSE}]
    <3>1. \A m \in Messages : /\ [msg |-> m, ack |-> TRUE] \in [msg : Messages, ack : {TRUE}]
                              /\ [msg |-> m, ack |-> FALSE] \in [msg : Messages, ack : {FALSE}]
      OBVIOUS
    <3> QED
      BY <3>1, Zenon DEF Yes, No
  <2>3. Acked \subseteq Yes(Told)
    BY Zenon DEF Acked, Yes, Told
  <2>4. /\ Count(Yes(Messages)) <= Count([msg : Messages, ack : {TRUE}])
        /\ Count(No(Messages)) <= Count([msg : Messages, ack : {FALSE}])
        /\ Count(Acked) <= Count(Yes(Told))
    BY <2>1, <2>2, <2>3, CountGrows
  <2>5. /\ Count(Yes(Messages)) \in Nat /\ Count(No(Messages)) \in Nat
        /\ Count(Yes(Told)) \in Nat /\ Count(Acked) \in Nat
        /\ Count([msg : Messages, ack : {TRUE}]) \in Nat
        /\ Count([msg : Messages, ack : {FALSE}]) \in Nat
        /\ accepted \in Nat /\ rejected \in Nat
    BY <2>1, CountIs
  <2>6. AckToCount \in {0, 1} /\ NackToCount \in {0, 1}
    BY DEF AckToCount, NackToCount
  <2>7. accepted <= Count([msg : Messages, ack : {TRUE}])
    BY <2>1, <2>4, <2>5, <2>6 DEF CountInv
  <2>8. rejected <= Count([msg : Messages, ack : {FALSE}])
    BY <2>1, <2>4, <2>5, <2>6 DEF CountInv
  <2>9. accepted >= Count(Acked)
    BY <2>1, <2>4, <2>5 DEF CountInv
  <2> QED
    BY <2>7, <2>8, <2>9 DEF CountersSound
<1> QED
  BY <1>1, CounterInit, CounterNext, PTL DEF Spec

-----------------------------------------------------------------------------
(* Silence. *)

\* How many of the frames sent on a connection have been taken out of buffer.
Taken(p) == Len(sentLog[p]) - Len(Waiting(p))

\* s ends with t.
EndsWith(s, t) ==
  /\ Len(t) <= Len(s)
  /\ \A i \in 1 .. Len(t) : t[i] = s[Len(s) - Len(t) + i]

\* Without a connection nothing waits.
Closed(p) == hpc[p] = "none" => Waiting(p) = <<>> /\ wdl[p] = "unset" /\ ~peerOpen[p]

\* Frames are taken in the order in which they were sent, and the event a
\* handler waits for is the last one it took.
InOrder(p) ==
  /\ EndsWith(sentLog[p], Waiting(p))
  /\ cur[p] # NoMsg => Taken(p) >= 1 /\ sentLog[p][Taken(p)] = cur[p]

\* The panel was told what the station decided.
Relayed(m) ==
  /\ m \in Events
  /\ answer[m] # "none"
  /\ Decided(m, answer[m] = "ack")

\* One of the first k frames of the connection was relayed.
Excused(p, k) == \E i \in 1 .. k : Relayed(sentLog[p][i])

\* There is no write deadline before the first relayed status, and no silence
\* without a deadline.
SilenceInv(p) ==
  peerOpen[p] =>
    /\ wdl[p] # "unset" => Excused(p, Taken(p))
    /\ \A j \in 1 .. Taken(p) :
         \/ answer[sentLog[p][j]] # "none"
         \/ cur[p] # NoMsg /\ j = Taken(p)
         \/ Excused(p, j - 1)

ConnInv(p) == Closed(p) /\ InOrder(p) /\ SilenceInv(p)

QuietInv == PhaseInv /\ \A p \in Panels : ConnInv(p)

\* What was answered, and what the station decided, stays so.
Keeps ==
  /\ \A m \in Messages : answer[m] # "none" => answer'[m] = answer[m]
  /\ RangeOf(stationLog) \subseteq RangeOf(stationLog')

LEMMA EndsWithTail ==
  ASSUME NEW S, NEW s \in Seq(S), NEW t \in Seq(S), EndsWith(s, t), t # <<>>
  PROVE  /\ EndsWith(s, Tail(t))
         /\ Len(Tail(t)) = Len(t) - 1
         /\ Head(t) = s[Len(s) - Len(t) + 1]
<1>1. /\ Len(t) \in Nat /\ Len(t) >= 1 /\ Len(s) \in Nat
      /\ Head(t) = t[1] /\ Len(Tail(t)) = Len(t) - 1
      /\ \A i \in 1 .. Len(t) - 1 : Tail(t)[i] = t[i + 1]
  BY SMT
<1>2. \A i \in 1 .. Len(t) - 1 : /\ i + 1 \in 1 .. Len(t)
                                 /\ Len(s) - Len(t) + (i + 1) = Len(s) - (Len(t) - 1) + i
  BY <1>1, SMT
<1>3. 1 \in 1 .. Len(t)
  BY <1>1, SMT
<1>4. \A i \in 1 .. Len(t) - 1 : Tail(t)[i] = s[Len(s) - (Len(t) - 1) + i]
  BY <1>1, <1>2 DEF EndsWith
<1>5. Len(t) - 1 <= Len(s)
  BY <1>1, SMT DEF EndsWith
<1> QED
  BY <1>1, <1>3, <1>4, <1>5 DEF EndsWith

LEMMA EndsWithAppend ==
  ASSUME NEW S, NEW s \in Seq(S), NEW t \in Seq(S), EndsWith(s, t), NEW x \in S
  PROVE  /\ EndsWith(Append(s, x), Append(t, x))
         /\ Len(Append(s, x)) - Len(Append(t, x)) = Len(s) - Len(t)
         /\ \A i \in 1 .. Len(s) : Append(s, x)[i] = s[i]
<1>1. /\ Len(t) \in Nat /\ Len(s) \in Nat
      /\ Len(Append(s, x)) = Len(s) + 1 /\ Len(Append(t, x)) = Len(t) + 1
      /\ \A i \in 1 .. Len(s) : Append(s, x)[i] = s[i]
      /\ \A i \in 1 .. Len(t) : Append(t, x)[i] = t[i]
      /\ Append(s, x)[Len(s) + 1] = x /\ Append(t, x)[Len(t) + 1] = x
  BY SMT
<1>2. Len(t) <= Len(s) /\ \A i \in 1 .. Len(t) : t[i] = s[Len(s) - Len(t) + i]
  BY DEF EndsWith
<1>3. \A i \in 1 .. Len(t) + 1 : Append(t, x)[i] = Append(s, x)[(Len(s) + 1) - (Len(t) + 1) + i]
  <2> TAKE i \in 1 .. Len(t) + 1
  <2>1. CASE i = Len(t) + 1
    <3>1. (Len(s) + 1) - (Len(t) + 1) + i = Len(s) + 1
      BY <1>1, <2>1, SMT
    <3> QED
      BY <1>1, <2>1, <3>1
  <2>2. CASE i \in 1 .. Len(t)
    <3>1. /\ (Len(s) + 1) - (Len(t) + 1) + i = Len(s) - Len(t) + i
          /\ Len(s) - Len(t) + i \in 1 .. Len(s)
      BY <1>1, <1>2, <2>2, SMT
    <3>2. Append(t, x)[i] = s[Len(s) - Len(t) + i]
      BY <1>1, <1>2, <2>2, Zenon
    <3>3. Append(s, x)[Len(s) - Len(t) + i] = s[Len(s) - Len(t) + i]
      BY <1>1, <3>1, Zenon
    <3> QED
      BY <3>1, <3>2, <3>3
  <2>3. i = Len(t) + 1 \/ i \in 1 .. Len(t)
    BY <1>1, SMT
  <2> QED
    BY <2>1, <2>2, <2>3, Zenon
<1>4. Len(t) + 1 <= Len(s) + 1 /\ (Len(s) + 1) - (Len(t) + 1) = Len(s) - Len(t)
  BY <1>1, <1>2, SMT
<1> QED
  BY <1>1, <1>3, <1>4 DEF EndsWith

LEMMA ConnTypes ==
  ASSUME TypeInv, NEW p \in Panels
  PROVE  /\ sentLog[p] \in Seq(Messages) /\ Waiting(p) \in Seq(Messages)
         /\ Len(sentLog[p]) \in Nat /\ Len(Waiting(p)) \in Nat
         /\ Taken(p) \in Int /\ Taken(p) <= Len(sentLog[p])
         /\ \A i \in 1 .. Len(sentLog[p]) : sentLog[p][i] \in Messages
<1>1. sentLog[p] \in Seq(Messages) /\ Waiting(p) \in Seq(Messages)
  BY WaitingTypes DEF TypeInv, TypeOK, ServerTypeOK
<1>2. Len(sentLog[p]) \in Nat /\ Len(Waiting(p)) \in Nat
  BY <1>1
<1>3. \A i \in 1 .. Len(sentLog[p]) : sentLog[p][i] \in Messages
  BY <1>1
<1> QED
  BY <1>1, <1>2, <1>3 DEF Taken

LEMMA RelayedStays ==
  ASSUME Keeps, NEW m \in Messages, Relayed(m)
  PROVE  Relayed(m)'
<1>1. answer'[m] = answer[m]
  BY Zenon DEF Keeps, Relayed
<1>2. [msg |-> m, ack |-> (answer[m] = "ack")] \in RangeOf(stationLog')
  BY Zenon DEF Keeps, Relayed, Decided
<1>3. [msg |-> m, ack |-> (answer'[m] = "ack")] \in RangeOf(stationLog')
  BY <1>1, <1>2, Zenon
<1> QED
  BY <1>1, <1>3, Zenon DEF Relayed, Decided, RangeOf

\* The first k frames of a connection stay what they are.
LEMMA ExcusedStays ==
  ASSUME TypeInv, Keeps, NEW p \in Panels, NEW k \in Int, k <= Len(sentLog[p]),
         \A i \in 1 .. k : sentLog'[p][i] = sentLog[p][i], Excused(p, k)
  PROVE  Excused(p, k)'
<1>1. PICK i \in 1 .. k : Relayed(sentLog[p][i])
  BY DEF Excused
<1>2. sentLog[p][i] \in Messages
  <2>1. i \in 1 .. Len(sentLog[p])
    BY ConnTypes
  <2> QED
    BY <2>1, ConnTypes
<1>3. Relayed(sentLog[p][i])'
  <2> DEFINE m == sentLog[p][i]
  <2>1. \A n \in Messages : Relayed(n) => Relayed(n)'
    BY RelayedStays
  <2>2. sentLog'[p][i] = sentLog[p][i]
    OBVIOUS
  <2>3. PICK n \in Messages : n = sentLog[p][i]
    BY <1>2
  <2>4. Relayed(n)'
    BY <1>1, <2>1, <2>3
  <2> QED
    BY <2>2, <2>3, <2>4 DEF Relayed, Decided
<1> QED
  BY <1>3 DEF Excused

LEMMA TakenRange ==
  ASSUME TypeInv, NEW p \in Panels, InOrder(p)
  PROVE  /\ Taken(p) \in Nat
         /\ \A j \in 1 .. Taken(p) : j \in 1 .. Len(sentLog[p]) /\ sentLog[p][j] \in Messages
<1>1. Taken(p) \in Nat
  BY ConnTypes DEF InOrder, EndsWith, Taken
<1> QED
  BY <1>1, ConnTypes

\* A frame that was answered or excused stays so.
LEMMA ExcusesStay ==
  ASSUME TypeInv, Keeps, NEW p \in Panels, InOrder(p),
         \A i \in 1 .. Taken(p) : sentLog'[p][i] = sentLog[p][i]
  PROVE  /\ \A k \in Int : k <= Taken(p) /\ Excused(p, k) =>
                \E i \in 1 .. k : Relayed(sentLog[p][i])'
         /\ \A j \in 1 .. Taken(p) : answer[sentLog[p][j]] # "none" =>
                                     answer'[sentLog'[p][j]] # "none"
<1>1. ASSUME NEW k \in Int, k <= Taken(p), Excused(p, k)
      PROVE  \E i \in 1 .. k : Relayed(sentLog[p][i])'
  <2>1. \A i \in 1 .. k : sentLog'[p][i] = sentLog[p][i]
    BY <1>1, TakenRange
  <2>2. k <= Len(sentLog[p])
    BY <1>1, ConnTypes
  <2>3. Excused(p, k)'
    BY <1>1, <2>1, <2>2, ExcusedStays
  <2> QED
    BY <2>3 DEF Excused
<1>2. ASSUME NEW j \in 1 .. Taken(p), answer[sentLog[p][j]] # "none"
      PROVE  answer'[sentLog'[p][j]] # "none"
  <2>1. sentLog[p][j] \in Messages
    BY TakenRange
  <2> QED
    BY <1>2, <2>1 DEF Keeps
<1> QED
  BY <1>1, <1>2

\* Silence needs no new excuse while no frame is taken and no deadline is set.
LEMMA SilenceStays ==
  ASSUME TypeInv, Keeps, NEW p \in Panels, InOrder(p), SilenceInv(p),
         Taken(p)' = Taken(p), \A i \in 1 .. Taken(p) : sentLog'[p][i] = sentLog[p][i],
         cur'[p] = cur[p], peerOpen'[p] => peerOpen[p],
         wdl'[p] # "unset" => wdl[p] # "unset"
  PROVE  SilenceInv(p)'
<1> SUFFICES ASSUME peerOpen'[p]
             PROVE  /\ wdl'[p] # "unset" => Excused(p, Taken(p))'
                    /\ \A j \in 1 .. Taken(p)' :
                         \/ answer'[sentLog'[p][j]] # "none"
                         \/ cur'[p] # NoMsg /\ j = Taken(p)'
                         \/ \E i \in 1 .. j - 1 : Relayed(sentLog[p][i])'
  BY DEF SilenceInv, Excused
<1>1. /\ wdl[p] # "unset" => Excused(p, Taken(p))
      /\ \A j \in 1 .. Taken(p) :
           \/ answer[sentLog[p][j]] # "none"
           \/ cur[p] # NoMsg /\ j = Taken(p)
           \/ Excused(p, j - 1)
  BY DEF SilenceInv
<1>2. Taken(p) \in Nat /\ \A j \in 1 .. Taken(p) : j - 1 \in Int /\ j - 1 <= Taken(p)
  BY TakenRange
<1>3. wdl'[p] # "unset" => Excused(p, Taken(p))'
  <2> SUFFICES ASSUME wdl'[p] # "unset" PROVE Excused(p, Taken(p))'
    OBVIOUS
  <2>1. Excused(p, Taken(p)) /\ Taken(p) \in Int /\ Taken(p) <= Taken(p)
    BY <1>1, <1>2
  <2>2. \E i \in 1 .. Taken(p) : Relayed(sentLog[p][i])'
    BY <2>1, ExcusesStay
  <2> QED
    BY <2>2 DEF Excused
<1>4. ASSUME NEW j \in 1 .. Taken(p)
      PROVE  \/ answer'[sentLog'[p][j]] # "none"
             \/ cur'[p] # NoMsg /\ j = Taken(p)
             \/ \E i \in 1 .. j - 1 : Relayed(sentLog[p][i])'
  <2>1. Excused(p, j - 1) => \E i \in 1 .. j - 1 : Relayed(sentLog[p][i])'
    BY <1>2, ExcusesStay
  <2>2. answer[sentLog[p][j]] # "none" => answer'[sentLog'[p][j]] # "none"
    BY ExcusesStay
  <2> QED
    BY <1>1, <2>1, <2>2
<1> QED
  BY <1>3, <1>4

\* Nothing happens on a connection, or its peer hangs up.
LEMMA ConnStays ==
  ASSUME TypeInv, Keeps, NEW p \in Panels, ConnInv(p),
         sentLog'[p] = sentLog[p], Waiting(p)' = Waiting(p), cur'[p] = cur[p],
         peerOpen'[p] => peerOpen[p], wdl'[p] # "unset" => wdl[p] # "unset",
         hpc'[p] = "none" => hpc[p] = "none"
  PROVE  ConnInv(p)'
<1>1. Closed(p) /\ InOrder(p) /\ SilenceInv(p)
  BY DEF ConnInv
<1>2. Taken(p)' = Taken(p)
  BY DEF Taken
<1>3. Closed(p)'
  BY <1>1 DEF Closed
<1>4. InOrder(p)'
  BY <1>1, <1>2 DEF InOrder, EndsWith
<1>5. SilenceInv(p)'
  BY <1>1, <1>2, SilenceStays
<1> QED
  BY <1>3, <1>4, <1>5 DEF ConnInv

LEMMA EndsWithNothing == ASSUME NEW S, NEW s \in Seq(S) PROVE EndsWith(s, <<>>)
BY SMT DEF EndsWith

LEMMA ConnEmpty ==
  ASSUME TypeInv', NEW p \in Panels, Waiting(p)' = <<>>, cur'[p] = NoMsg,
         wdl'[p] = "unset", ~peerOpen'[p] \/ (hpc'[p] # "none" /\ sentLog'[p] = <<>>)
  PROVE  ConnInv(p)'
<1>1. Closed(p)'
  BY DEF Closed
<1>2. sentLog'[p] \in Seq(Messages)
  BY DEF TypeInv, TypeOK, ServerTypeOK
<1>3. EndsWith(sentLog'[p], <<>>)
  BY <1>2, EndsWithNothing
<1>4. InOrder(p)'
  BY <1>3 DEF InOrder, EndsWith
<1>5. SilenceInv(p)'
  <2>1. CASE ~peerOpen'[p]
    BY <2>1 DEF SilenceInv
  <2>2. CASE sentLog'[p] = <<>>
    <3>1. Taken(p)' = 0
      BY <2>2 DEF Taken
    <3>2. 1 .. 0 = {}
      OBVIOUS
    <3> QED
      BY <3>1, <3>2 DEF SilenceInv
  <2> QED
    BY <2>1, <2>2
<1> QED
  BY <1>1, <1>4, <1>5 DEF ConnInv

LEMMA ConnCloses ==
  ASSUME TypeInv, TypeInv', NEW p \in Panels, CloseConn(p)
  PROVE  ConnInv(p)'
<1>1. wire'[p] = <<>> /\ buffer'[p] = <<>> /\ cur'[p] = NoMsg /\ wdl'[p] = "unset" /\ ~peerOpen'[p]
  BY DEF CloseConn, TypeInv, TypeOK, ServerTypeOK
<1>2. Waiting(p)' = <<>>
  BY <1>1, ConcatEmpty DEF Waiting
<1> QED
  BY <1>1, <1>2, ConnEmpty

LEMMA ConnOpens ==
  ASSUME PhaseInv, TypeInv', NEW p \in Panels, ConnInv(p), Accept(p)
  PROVE  ConnInv(p)'
<1>1. TypeInv /\ IdleInv
  BY DEF PhaseInv, OnceInv, SafeInv
<1>2. hpc[p] = "none" /\ hpc'[p] = "top" /\ sentLog'[p] = <<>> /\ UNCHANGED <<wire, buffer, cur, wdl>>
  BY <1>1 DEF Accept, TypeInv, TypeOK, ServerTypeOK
<1>3. cur[p] = NoMsg
  BY <1>1, <1>2 DEF IdleInv, Waits
<1>4. Waiting(p)' = <<>> /\ wdl[p] = "unset"
  BY <1>2 DEF ConnInv, Closed, Waiting
<1> QED
  BY <1>2, <1>3, <1>4, ConnEmpty

\* A frame is sent on a connection: what has been taken does not change.
LEMMA ConnSends ==
  ASSUME TypeInv, Keeps, NEW p \in Panels, ConnInv(p), NEW m \in Messages, SendFrame(p, m)
  PROVE  ConnInv(p)'
<1>1. Closed(p) /\ InOrder(p) /\ SilenceInv(p)
  BY DEF ConnInv
<1>2. /\ hpc[p] # "none" /\ UNCHANGED <<hpc, buffer, cur, wdl, peerOpen>>
      /\ wire'[p] = Append(wire[p], m) /\ sentLog'[p] = Append(sentLog[p], m)
  BY DEF SendFrame, TypeInv, TypeOK, ServerTypeOK
<1>3. Waiting(p)' = Append(Waiting(p), m)
  <2>1. buffer[p] \in Seq(Messages) /\ wire[p] \in Seq(Messages)
    BY WaitingTypes
  <2>2. \A s, t \in Seq(Messages) : s \o Append(t, m) = Append(s \o t, m)
    BY ConcatAppend
  <2>3. Waiting(p)' = buffer[p] \o Append(wire[p], m)
    BY <1>2 DEF Waiting
  <2> QED
    BY <2>1, <2>2, <2>3, Zenon DEF Waiting
<1>4. /\ EndsWith(sentLog[p], Waiting(p))'
      /\ Taken(p)' = Taken(p)
      /\ \A i \in 1 .. Len(sentLog[p]) : sentLog'[p][i] = sentLog[p][i]
  <2>1. sentLog[p] \in Seq(Messages) /\ Waiting(p) \in Seq(Messages)
    BY ConnTypes
  <2>2. /\ EndsWith(Append(sentLog[p], m), Append(Waiting(p), m))
        /\ Len(Append(sentLog[p], m)) - Len(Append(Waiting(p), m)) = Len(sentLog[p]) - Len(Waiting(p))
        /\ \A i \in 1 .. Len(sentLog[p]) : Append(sentLog[p], m)[i] = sentLog[p][i]
    BY <1>1, <2>1, EndsWithAppend DEF InOrder
  <2> QED
    BY <1>2, <1>3, <2>2 DEF Taken, EndsWith
<1>5. /\ Taken(p) \in Nat
      /\ \A j \in 1 .. Taken(p) : j - 1 \in Int /\ j - 1 <= Taken(p) /\ sentLog'[p][j] = sentLog[p][j]
  BY <1>1, <1>4, TakenRange
<1>6. Closed(p)'
  BY <1>2 DEF Closed
<1>7. InOrder(p)'
  <2>1. cur[p] # NoMsg => Taken(p) >= 1 /\ Taken(p) \in 1 .. Taken(p) /\ sentLog[p][Taken(p)] = cur[p]
    BY <1>1, <1>5 DEF InOrder
  <2>2. cur'[p] # NoMsg => Taken(p)' >= 1 /\ sentLog'[p][Taken(p)'] = cur'[p]
    BY <1>2, <1>4, <1>5, <2>1
  <2> QED
    BY <1>4, <2>2 DEF InOrder
<1>8. SilenceInv(p)'
  BY <1>1, <1>2, <1>4, <1>5, SilenceStays
<1> QED
  BY <1>6, <1>7, <1>8 DEF ConnInv

\* A frame is taken out of buffer: the handler waits for its status, or it is
\* answered, or there is a deadline.
LEMMA ConnTakes ==
  ASSUME PhaseInv, Keeps, NEW p \in Panels, ConnInv(p), NEW S, TakesFrame(p, S),
         UNCHANGED <<wire, sentLog, wdl, peerOpen>>, hpc'[p] # "none",
         NEW m, m = Head(buffer[p]), cur'[p] = NoMsg \/ cur'[p] = m,
         cur'[p] = NoMsg /\ peerOpen[p] => answer'[m] # "none" \/ wdl[p] # "unset"
  PROVE  ConnInv(p)'
<1>1. TypeInv /\ IdleInv /\ Closed(p) /\ InOrder(p) /\ SilenceInv(p)
  BY DEF PhaseInv, OnceInv, SafeInv, ConnInv
<1>2. hpc[p] = "split" /\ buffer[p] # <<>> /\ buffer'[p] = Tail(buffer[p])
  BY <1>1 DEF TakesFrame, TypeInv, TypeOK, ServerTypeOK
<1>3. cur[p] = NoMsg
  BY <1>1, <1>2 DEF IdleInv, Waits
<1>4. /\ Waiting(p) \in Seq(Messages) /\ Waiting(p) # <<>>
      /\ m = Head(Waiting(p))
      /\ Waiting(p)' = Tail(Waiting(p))
  <2>1. buffer[p] \in Seq(Messages) /\ wire[p] \in Seq(Messages)
    BY <1>1, WaitingTypes
  <2>2. /\ Tail(buffer[p]) \o wire[p] = Tail(buffer[p] \o wire[p])
        /\ Head(buffer[p]) = Head(buffer[p] \o wire[p])
        /\ buffer[p] \o wire[p] # <<>>
        /\ buffer[p] \o wire[p] \in Seq(Messages)
    BY <1>2, <2>1, ConcatTail
  <2> QED
    BY <1>2, <2>2, Zenon DEF Waiting
<1>5. /\ EndsWith(sentLog[p], Tail(Waiting(p)))
      /\ Len(Tail(Waiting(p))) = Len(Waiting(p)) - 1
      /\ m = sentLog[p][Len(sentLog[p]) - Len(Waiting(p)) + 1]
  <2>1. sentLog[p] \in Seq(Messages) /\ EndsWith(sentLog[p], Waiting(p))
    BY <1>1, ConnTypes DEF InOrder
  <2> QED
    BY <1>4, <2>1, EndsWithTail
<1>6. /\ Taken(p) \in Nat
      /\ Taken(p)' = Taken(p) + 1
      /\ sentLog[p][Taken(p) + 1] = m
  <2>1. Taken(p) \in Nat /\ Len(sentLog[p]) \in Nat /\ Len(Waiting(p)) \in Nat
    BY <1>1, TakenRange, ConnTypes
  <2>2. Taken(p)' = Len(sentLog[p]) - (Len(Waiting(p)) - 1)
    BY <1>4, <1>5 DEF Taken
  <2> QED
    BY <1>5, <2>1, <2>2 DEF Taken
<1>7. Closed(p)'
  BY DEF Closed
<1>8. InOrder(p)'
  <2>1. EndsWith(sentLog[p], Waiting(p))'
    BY <1>4, <1>5 DEF EndsWith
  <2>2. cur'[p] # NoMsg => Taken(p)' >= 1 /\ sentLog'[p][Taken(p)'] = cur'[p]
    BY <1>6
  <2> QED
    BY <2>1, <2>2 DEF InOrder
<1>9. SilenceInv(p)'
  <2> SUFFICES ASSUME peerOpen[p]
               PROVE  /\ wdl[p] # "unset" => \E i \in 1 .. Taken(p) + 1 : Relayed(sentLog[p][i])'
                      /\ \A j \in 1 .. Taken(p) + 1 :
                           \/ answer'[sentLog'[p][j]] # "none"
                           \/ cur'[p] # NoMsg /\ j = Taken(p) + 1
                           \/ \E i \in 1 .. j - 1 : Relayed(sentLog[p][i])'
    BY <1>6 DEF SilenceInv, Excused
  <2>1. /\ wdl[p] # "unset" => Excused(p, Taken(p))
        /\ \A j \in 1 .. Taken(p) : answer[sentLog[p][j]] # "none" \/ Excused(p, j - 1)
    BY <1>1, <1>3 DEF SilenceInv
  <2>2. /\ \A k \in Int : k <= Taken(p) /\ Excused(p, k) =>
                \E i \in 1 .. k : Relayed(sentLog[p][i])'
        /\ \A j \in 1 .. Taken(p) : answer[sentLog[p][j]] # "none" =>
                                     answer'[sentLog'[p][j]] # "none"
    BY <1>1, ExcusesStay
  <2>3. wdl[p] # "unset" => \E i \in 1 .. Taken(p) : Relayed(sentLog[p][i])'
    BY <1>6, <2>1, <2>2
  <2>4. ASSUME NEW j \in 1 .. Taken(p) + 1
        PROVE  \/ answer'[sentLog'[p][j]] # "none"
               \/ cur'[p] # NoMsg /\ j = Taken(p) + 1
               \/ \E i \in 1 .. j - 1 : Relayed(sentLog[p][i])'
    <3>1. CASE j \in 1 .. Taken(p)
      <4>1. j - 1 \in Int /\ j - 1 <= Taken(p)
        BY <1>6, <3>1
      <4> QED
        BY <2>1, <2>2, <3>1, <4>1
    <3>2. CASE j = Taken(p) + 1
      <4>1. j - 1 = Taken(p) /\ sentLog'[p][j] = m
        BY <1>6, <3>2
      <4> QED
        BY <2>3, <3>2, <4>1
    <3> QED
      BY <1>6, <3>1, <3>2
  <2>5. 1 .. Taken(p) \subseteq 1 .. Taken(p) + 1
    BY <1>6
  <2> QED
    BY <2>3, <2>4, <2>5
<1> QED
  BY <1>7, <1>8, <1>9 DEF ConnInv

\* The handler is done with the event it waited for, with a deadline then or
\* none.
LEMMA ConnNext ==
  ASSUME PhaseInv, Keeps, NEW p \in Panels, ConnInv(p), hpc[p] = "await",
         NEW d, NextFrame(p, d), UNCHANGED sentLog, NEW m, m = cur[p],
         peerOpen[p] /\ d # "unset" => wdl[p] # "unset" \/ Relayed(m)',
         peerOpen[p] => answer'[m] # "none" \/ wdl[p] # "unset"
  PROVE  ConnInv(p)'
<1>1. TypeInv /\ Closed(p) /\ InOrder(p) /\ SilenceInv(p) /\ AnsweredInv
  BY DEF PhaseInv, OnceInv, SafeInv, ConnInv
<1>2. m \in Events /\ m \in Messages /\ m # NoMsg
  BY <1>1, Kinds DEF TypeInv, CurInv, HandlerCurInv
<1>3. /\ hpc'[p] = "split" /\ cur'[p] = NoMsg /\ wdl'[p] = d
      /\ UNCHANGED <<wire, buffer, peerOpen>>
  BY <1>1 DEF NextFrame, TypeInv, TypeOK, ServerTypeOK
<1>4. Taken(p)' = Taken(p) /\ Waiting(p)' = Waiting(p)
  BY <1>3 DEF Taken, Waiting
<1>5. Taken(p) \in Nat /\ Taken(p) >= 1 /\ sentLog[p][Taken(p)] = m
  BY <1>1, <1>2, TakenRange DEF InOrder
<1>6. answer[m] = "none"
  <2>1. m \in Open
    BY <1>2 DEF Open, Pending
  <2> QED
    BY <1>1, <1>2, <2>1 DEF AnsweredInv
<1>7. Closed(p)' /\ InOrder(p)'
  BY <1>1, <1>3, <1>4 DEF Closed, InOrder, EndsWith
<1>8. SilenceInv(p)'
  <2> SUFFICES ASSUME peerOpen[p]
               PROVE  /\ d # "unset" => \E i \in 1 .. Taken(p) : Relayed(sentLog[p][i])'
                      /\ \A j \in 1 .. Taken(p) :
                           \/ answer'[sentLog'[p][j]] # "none"
                           \/ \E i \in 1 .. j - 1 : Relayed(sentLog[p][i])'
    BY <1>3, <1>4 DEF SilenceInv, Excused
  <2>1. /\ wdl[p] # "unset" => Excused(p, Taken(p))
        /\ \A j \in 1 .. Taken(p) : \/ answer[sentLog[p][j]] # "none"
                                    \/ j = Taken(p)
                                    \/ Excused(p, j - 1)
    BY <1>1 DEF SilenceInv
  <2>2. /\ \A k \in Int : k <= Taken(p) /\ Excused(p, k) =>
                \E i \in 1 .. k : Relayed(sentLog[p][i])'
        /\ \A j \in 1 .. Taken(p) : answer[sentLog[p][j]] # "none" =>
                                     answer'[sentLog'[p][j]] # "none"
    BY <1>1, ExcusesStay
  <2>3. wdl[p] # "unset" => Excused(p, Taken(p) - 1)
    <3>1. ~Relayed(m)
      BY <1>6 DEF Relayed
    <3>2. \A i \in 1 .. Taken(p) : i = Taken(p) \/ i \in 1 .. Taken(p) - 1
      BY <1>5
    <3> QED
      BY <1>5, <2>1, <3>1, <3>2 DEF Excused
  <2>4. d # "unset" => \E i \in 1 .. Taken(p) : Relayed(sentLog[p][i])'
    <3>1. CASE wdl[p] # "unset"
      BY <1>5, <2>1, <2>2, <3>1
    <3>2. CASE Relayed(m)'
      <4>1. Taken(p) \in 1 .. Taken(p) /\ sentLog'[p][Taken(p)] = m
        BY <1>5
      <4>2. \A i \in 1 .. Taken(p) : sentLog'[p][i] = m => Relayed(sentLog[p][i])'
        BY <3>2 DEF Relayed, Decided
      <4> QED
        BY <4>1, <4>2
    <3> QED
      BY <3>1, <3>2
  <2>5. ASSUME NEW j \in 1 .. Taken(p)
        PROVE  \/ answer'[sentLog'[p][j]] # "none"
               \/ \E i \in 1 .. j - 1 : Relayed(sentLog[p][i])'
    <3>1. j - 1 \in Int /\ j - 1 <= Taken(p)
      BY <1>5
    <3>2. CASE j = Taken(p)
      <4>1. CASE wdl[p] # "unset"
        BY <2>2, <2>3, <3>1, <3>2, <4>1
      <4>2. CASE answer'[m] # "none"
        BY <1>5, <3>2, <4>2
      <4> QED
        BY <4>1, <4>2
    <3>3. CASE j # Taken(p)
      BY <2>1, <2>2, <3>1, <3>3
    <3> QED
      BY <3>2, <3>3
  <2> QED
    BY <2>4, <2>5
<1> QED
  BY <1>7, <1>8 DEF ConnInv

\* A handler touches its own connection only.
LEMMA HandlerOthers ==
  ASSUME TypeInv, NEW p \in Panels, HandlerStep(p, Parked)
  PROVE  /\ sentLog' = sentLog
         /\ \A q \in Panels \ {p} :
              /\ hpc'[q] = hpc[q] /\ wire'[q] = wire[q] /\ buffer'[q] = buffer[q]
              /\ cur'[q] = cur[q] /\ wdl'[q] = wdl[q] /\ peerOpen'[q] = peerOpen[q]
<1> USE DEF TypeInv, TypeOK, ServerTypeOK
<1>1. CASE LoopTop(p)
  BY <1>1 DEF LoopTop, CloseConn
<1>2. CASE ReadChunk(p)
  BY <1>2 DEF ReadChunk
<1>3. CASE ReadTimeout(p)
  BY <1>3 DEF ReadTimeout
<1>4. CASE ReadEnds(p)
  BY <1>4 DEF ReadEnds, CloseConn
<1>5. CASE SplitDone(p)
  BY <1>5 DEF SplitDone
<1>6. CASE AnswerHeartbeat(p)
  BY <1>6 DEF AnswerHeartbeat, TakesFrame
<1>7. CASE RefuseFrame(p, Parked)
  BY <1>7 DEF RefuseFrame, TakesFrame
<1>8. CASE EnqueueEvent(p, Parked)
  BY <1>8 DEF EnqueueEvent, TakesFrame
<1>9. CASE UpdateDevice(p)
  BY <1>9 DEF UpdateDevice, CloseConn
<1>10. CASE ReceiveReply(p)
  <2>1. CloseConn(p) \/ NextFrame(p, "ahead")
    BY <1>10, Zenon DEF ReceiveReply
  <2>2. sentLog' = sentLog
    BY <1>10, Zenon DEF ReceiveReply
  <2> QED
    BY <2>1, <2>2 DEF CloseConn, NextFrame
<1>11. CASE ReplyTimeout(p)
  BY <1>11 DEF ReplyTimeout, NextFrame
<1> QED
  BY <1>1, <1>2, <1>3, <1>4, <1>5, <1>6, <1>7, <1>8, <1>9, <1>10, <1>11 DEF HandlerStep

\* A byte goes to a message that had none.
LEMMA WritingKeeps ==
  ASSUME PhaseInv, stationLog' = stationLog, NEW m \in Open, NEW b,
         answer' = answer \/ answer' = [answer EXCEPT ![m] = b]
  PROVE  Keeps
<1>1. m \in Messages /\ answer[m] = "none"
  BY DEF PhaseInv, AnsweredInv, Open
<1>2. answer \in [Messages -> {"none", "ack", "nack"}]
  BY DEF PhaseInv, OnceInv, SafeInv, TypeInv, TypeOK, ServerTypeOK
<1>3. \A n \in Messages : answer[n] # "none" => answer'[n] = answer[n]
  BY <1>1, <1>2
<1>4. RangeOf(stationLog') = RangeOf(stationLog)
  OBVIOUS
<1> QED
  BY <1>3, <1>4 DEF Keeps

LEMMA QuietKeeps == UNCHANGED <<answer, stationLog>> => Keeps
BY DEF Keeps

\* The byte that is written, if the panel can still read it.
LEMMA WriteWrites ==
  ASSUME TypeInv, NEW p \in Panels, NEW m \in Messages, NEW b, NEW d, WriteByte(p, m, b, d)
  PROVE  /\ answer' = answer \/ answer' = [answer EXCEPT ![m] = b]
         /\ peerOpen[p] /\ d # "past" => answer'[m] = b
BY DEF WriteByte, TypeInv, TypeOK, ServerTypeOK

LEMMA WdlTypes ==
  ASSUME TypeInv, NEW p \in Panels
  PROVE  wdl[p] \in {"unset", "ahead", "past"} /\ peerOpen[p] \in BOOLEAN
BY DEF TypeInv, TypeOK, ServerTypeOK

\* A frame that is answered at once.
LEMMA AnsweringQuiet ==
  ASSUME PhaseInv, NEW p \in Panels, ConnInv(p), NEW S \in SUBSET Messages, TakesFrame(p, S),
         UNCHANGED <<hpc, wire, cur, wdl, peerOpen, sentLog, stationLog>>,
         NEW b \in {"ack", "nack"}, WriteByte(p, Head(buffer[p]), b, wdl[p])
  PROVE  Keeps /\ ConnInv(p)'
<1> DEFINE m == Head(buffer[p])
<1>1. TypeInv
  BY DEF PhaseInv, OnceInv, SafeInv
<1>2. m \in Open /\ m \in Messages /\ cur[p] = NoMsg
  BY TakingCloses
<1>3. /\ answer' = answer \/ answer' = [answer EXCEPT ![m] = b]
      /\ peerOpen[p] /\ wdl[p] # "past" => answer'[m] = b
  BY <1>1, <1>2, WriteWrites
<1>4. Keeps
  BY <1>2, <1>3, WritingKeeps
<1>5. hpc[p] = "split"
  BY DEF TakesFrame
<1>6. ConnInv(p)'
  <2>1. peerOpen[p] => answer'[m] # "none" \/ wdl[p] # "unset"
    BY <1>3
  <2>2. cur'[p] = NoMsg /\ hpc'[p] # "none"
    BY <1>2, <1>5
  <2> HIDE DEF m
  <2>3. m = Head(buffer[p])
    BY DEF m
  <2> QED
    BY <1>4, <2>1, <2>2, <2>3, ConnTakes
<1> QED
  BY <1>4, <1>6

\* The handler moves on, with the deadline as it was or only past.
LEMMA MovingQuiet ==
  ASSUME PhaseInv, NEW p \in Panels, ConnInv(p), UNCHANGED <<cur, sentLog, answer, stationLog>>,
         Waiting(p)' = Waiting(p), hpc'[p] # "none", peerOpen'[p] => peerOpen[p],
         wdl'[p] # "unset" => wdl[p] # "unset"
  PROVE  Keeps /\ ConnInv(p)'
<1>1. TypeInv /\ Keeps
  BY QuietKeeps DEF PhaseInv, OnceInv, SafeInv
<1> QED
  BY <1>1, ConnStays

LEMMA ClosingQuiet ==
  ASSUME PhaseInv, TypeInv', NEW p \in Panels, CloseConn(p), UNCHANGED <<answer, stationLog>>
  PROVE  Keeps /\ ConnInv(p)'
<1>1. TypeInv /\ Keeps
  BY QuietKeeps DEF PhaseInv, OnceInv, SafeInv
<1> QED
  BY <1>1, ConnCloses

\* A status is relayed: from here on there is a deadline.
LEMMA ReceivingQuiet ==
  ASSUME PhaseInv, TypeInv', NEW p \in Panels, ConnInv(p), ReceiveReply(p), stationLog' = stationLog,
         NEW m, m = cur[p]
  PROVE  Keeps /\ ConnInv(p)'
<1> DEFINE s == Head(replyCh[m])
           b == IF s THEN "ack" ELSE "nack"
<1>1. TypeInv /\ RepliesAreVerdicts
  BY DEF PhaseInv, OnceInv, SafeInv
<1>2. hpc[p] = "await" /\ sentLog' = sentLog
  BY DEF ReceiveReply
<1>3. m \in Events /\ m \in Messages /\ m \in Open
  <2>1. m \in Events /\ m \in Messages
    BY <1>1, <1>2, Kinds DEF TypeInv, CurInv, HandlerCurInv
  <2> QED
    BY <2>1 DEF Open, Pending
<1>4. CASE CloseConn(p) /\ UNCHANGED answer
  BY <1>4, ClosingQuiet
<1>5. CASE replyCh[m] # <<>> /\ NextFrame(p, "ahead") /\ WriteByte(p, m, b, "ahead")
  <2>1. s \in BOOLEAN /\ Decided(m, s)
    <3>1. replyCh[m] \in Seq(BOOLEAN)
      BY <1>1, <1>3 DEF TypeInv, TypeOK, SharedTypeOK
    <3>2. s \in RangeOf(replyCh[m]) /\ s \in BOOLEAN
      BY <1>5, <3>1, RangeTail
    <3> QED
      BY <1>1, <1>3, <3>2 DEF RepliesAreVerdicts
  <2>2. /\ answer' = answer \/ answer' = [answer EXCEPT ![m] = b]
        /\ peerOpen[p] => answer'[m] = b
    <3> HIDE DEF b
    <3>1. "ahead" # "past"
      OBVIOUS
    <3> QED
      BY <1>1, <1>3, <1>5, <3>1, WriteWrites
  <2>3. Keeps
    <3> HIDE DEF b
    <3> QED
      BY <1>3, <2>2, WritingKeeps
  <2>4. peerOpen[p] => answer'[m] # "none" /\ Relayed(m)'
    <3> SUFFICES ASSUME peerOpen[p] PROVE answer'[m] # "none" /\ Relayed(m)'
      OBVIOUS
    <3> HIDE DEF s
    <3>1. (answer'[m] = "ack") = s /\ answer'[m] # "none"
      BY <2>1, <2>2
    <3>2. [msg |-> m, ack |-> s] \in RangeOf(stationLog')
      BY <2>1 DEF Decided
    <3>3. [msg |-> m, ack |-> (answer'[m] = "ack")] \in RangeOf(stationLog')
      BY <3>1, <3>2, Zenon
    <3>4. Relayed(m)'
      BY <1>3, <3>1, <3>3, Zenon DEF Relayed, Decided, RangeOf
    <3> QED
      BY <3>1, <3>4
  <2>5. ConnInv(p)'
    BY <1>2, <1>5, <2>3, <2>4, ConnNext
  <2> QED
    BY <2>3, <2>5
<1> QED
  BY <1>4, <1>5, Zenon DEF ReceiveReply

LEMMA HandlerQuiet ==
  ASSUME PhaseInv, TypeInv', NEW p \in Panels, ConnInv(p), HandlerStep(p, Parked),
         stationLog' = stationLog
  PROVE  Keeps /\ ConnInv(p)'
<1>1. TypeInv
  BY DEF PhaseInv, OnceInv, SafeInv
<1>2. hpc \in [Panels -> HandlerStates] /\ wdl \in [Panels -> {"unset", "ahead", "past"}]
  BY <1>1 DEF TypeInv, TypeOK, ServerTypeOK
<1>3. CASE LoopTop(p)
  <2>1. CASE CloseConn(p)
    BY <1>3, <2>1, ClosingQuiet DEF LoopTop
  <2>2. CASE hpc' = [hpc EXCEPT ![p] = "read"] /\ UNCHANGED <<wire, buffer, cur, wdl, peerOpen>>
    <3>1. hpc'[p] # "none" /\ Waiting(p)' = Waiting(p)
      BY <1>2, <2>2 DEF Waiting
    <3>2. UNCHANGED <<sentLog, answer>>
      BY <1>3 DEF LoopTop
    <3> QED
      BY <2>2, <3>1, <3>2, MovingQuiet
  <2> QED
    BY <1>3, <2>1, <2>2 DEF LoopTop
<1>4. CASE ReadChunk(p)
  <2>1. Waiting(p)' = Waiting(p)
    BY <1>1, <1>4, ReadingKeepsWaiting
  <2>2. hpc'[p] # "none" /\ UNCHANGED <<cur, wdl, peerOpen, sentLog, answer>>
    BY <1>2, <1>4 DEF ReadChunk
  <2> QED
    BY <2>1, <2>2, MovingQuiet
<1>5. CASE ReadTimeout(p)
  <2>1. /\ hpc'[p] # "none" /\ UNCHANGED <<wire, buffer, cur, peerOpen, sentLog, answer>>
        /\ wdl'[p] # "unset" => wdl[p] # "unset"
    BY <1>2, <1>5 DEF ReadTimeout
  <2>2. Waiting(p)' = Waiting(p)
    BY <2>1 DEF Waiting
  <2> QED
    BY <2>1, <2>2, MovingQuiet
<1>6. CASE ReadEnds(p)
  BY <1>6, ClosingQuiet DEF ReadEnds
<1>7. CASE SplitDone(p)
  <2>1. hpc'[p] # "none" /\ UNCHANGED <<wire, buffer, cur, wdl, peerOpen, sentLog, answer>>
    BY <1>2, <1>7 DEF SplitDone
  <2>2. Waiting(p)' = Waiting(p)
    BY <2>1 DEF Waiting
  <2> QED
    BY <2>1, <2>2, MovingQuiet
<1>8. CASE AnswerHeartbeat(p)
  <2>1. /\ TakesFrame(p, Heartbeats) /\ WriteByte(p, Head(buffer[p]), "ack", wdl[p])
        /\ UNCHANGED <<hpc, wire, cur, wdl, peerOpen, sentLog>>
    BY <1>8 DEF AnswerHeartbeat
  <2>2. Heartbeats \in SUBSET Messages
    BY DEF Messages
  <2> QED
    BY <2>1, <2>2, AnsweringQuiet
<1>9. CASE RefuseFrame(p, Parked)
  <2>1. PICK S \in SUBSET Messages : TakesFrame(p, S)
    BY <1>9 DEF RefuseFrame, Messages
  <2>2. /\ WriteByte(p, Head(buffer[p]), "nack", wdl[p])
        /\ UNCHANGED <<hpc, wire, cur, wdl, peerOpen, sentLog>>
    BY <1>9 DEF RefuseFrame
  <2> QED
    BY <2>1, <2>2, AnsweringQuiet
<1>10. CASE EnqueueEvent(p, Parked)
  <2>1. /\ TakesFrame(p, Events) /\ hpc'[p] = "update" /\ cur'[p] = Head(buffer[p])
        /\ UNCHANGED <<wire, wdl, peerOpen, sentLog, answer>>
    BY <1>1, <1>10 DEF EnqueueEvent, TypeInv, TypeOK, ServerTypeOK
  <2>2. Keeps
    BY <2>1, QuietKeeps
  <2>3. Events \in SUBSET Messages /\ Head(buffer[p]) \in Events /\ NoMsg \notin Events
    BY <2>1, Kinds DEF TakesFrame, Messages
  <2> QED
    BY <2>1, <2>2, <2>3, ConnTakes
<1>11. CASE UpdateDevice(p)
  <2>1. UNCHANGED <<sentLog, answer>>
    BY <1>11 DEF UpdateDevice
  <2>2. CASE CloseConn(p)
    BY <2>1, <2>2, ClosingQuiet
  <2>3. CASE hpc' = [hpc EXCEPT ![p] = "await"] /\ UNCHANGED <<wire, buffer, cur, wdl, peerOpen>>
    <3>1. hpc'[p] # "none" /\ Waiting(p)' = Waiting(p)
      BY <1>2, <2>3 DEF Waiting
    <3> QED
      BY <2>1, <2>3, <3>1, MovingQuiet
  <2> QED
    BY <1>11, <2>2, <2>3 DEF UpdateDevice
<1>12. CASE ReceiveReply(p)
  BY <1>12, ReceivingQuiet
<1>13. CASE ReplyTimeout(p)
  <2>1. PICK d : /\ NextFrame(p, d)
                 /\ WriteByte(p, cur[p], "nack", d)
                 /\ d = IF wdl[p] = "unset" THEN "unset" ELSE "past"
    BY <1>13 DEF ReplyTimeout
  <2>2. hpc[p] = "await" /\ sentLog' = sentLog
    BY <1>13 DEF ReplyTimeout
  <2>3. cur[p] \in Messages /\ cur[p] \in Open
    <3>1. cur[p] \in Events /\ cur[p] \in Messages
      BY <1>1, <2>2, Kinds DEF TypeInv, CurInv, HandlerCurInv
    <3> QED
      BY <3>1 DEF Open, Pending
  <2>4. /\ answer' = answer \/ answer' = [answer EXCEPT ![cur[p]] = "nack"]
        /\ peerOpen[p] /\ d # "past" => answer'[cur[p]] = "nack"
    BY <1>1, <2>1, <2>3, WriteWrites
  <2>5. Keeps
    BY <2>3, <2>4, WritingKeeps
  <2>6. /\ d # "unset" => wdl[p] # "unset"
        /\ peerOpen[p] => answer'[cur[p]] # "none" \/ wdl[p] # "unset"
    BY <2>1, <2>4
  <2>7. PICK m : m = cur[p]
    OBVIOUS
  <2> QED
    BY <2>1, <2>2, <2>5, <2>6, <2>7, ConnNext
<1> QED
  BY <1>3, <1>4, <1>5, <1>6, <1>7, <1>8, <1>9, <1>10, <1>11, <1>12, <1>13 DEF HandlerStep

\* Nothing happens on any connection but what only takes from its panel.
LEMMA AllStay ==
  ASSUME TypeInv, Keeps, NEW Q \in SUBSET Panels, \A q \in Q : ConnInv(q),
         \A q \in Q : /\ sentLog'[q] = sentLog[q] /\ Waiting(q)' = Waiting(q)
                      /\ cur'[q] = cur[q] /\ hpc'[q] = hpc[q]
                      /\ peerOpen'[q] => peerOpen[q]
                      /\ wdl'[q] # "unset" => wdl[q] # "unset"
  PROVE  \A q \in Q : ConnInv(q)'
<1> TAKE q \in Q
<1> QED
  BY ConnStays

LEMMA HandlerStaysQuiet ==
  ASSUME QuietInv, TypeInv', NEW p \in Panels, Handler(p)
  PROVE  \A q \in Panels : ConnInv(q)'
<1>1. PhaseInv /\ TypeInv /\ \A q \in Panels : ConnInv(q)
  BY DEF QuietInv, PhaseInv, OnceInv, SafeInv
<1>2. HandlerStep(p, Parked) /\ stationLog' = stationLog
  BY DEF Handler, clientVars
<1>3. Keeps /\ ConnInv(p)'
  BY <1>1, <1>2, HandlerQuiet
<1>4. /\ sentLog' = sentLog
      /\ \A q \in Panels \ {p} :
           /\ hpc'[q] = hpc[q] /\ wire'[q] = wire[q] /\ buffer'[q] = buffer[q]
           /\ cur'[q] = cur[q] /\ wdl'[q] = wdl[q] /\ peerOpen'[q] = peerOpen[q]
  BY <1>1, <1>2, HandlerOthers
<1>5. \A q \in Panels \ {p} : Waiting(q)' = Waiting(q)
  BY <1>4 DEF Waiting
<1>6. \A q \in Panels \ {p} : ConnInv(q)'
  <2>1. Panels \ {p} \in SUBSET Panels
    OBVIOUS
  <2> QED
    BY <1>1, <1>3, <1>4, <1>5, <2>1, AllStay
<1> QED
  BY <1>3, <1>6

LEMMA PanelStaysQuiet ==
  ASSUME QuietInv, TypeInv', NEW p \in Panels, PanelStep(p), UNCHANGED clientVars
  PROVE  \A q \in Panels : ConnInv(q)'
<1>1. PhaseInv /\ TypeInv /\ \A q \in Panels : ConnInv(q)
  BY DEF QuietInv, PhaseInv, OnceInv, SafeInv
<1>2. Keeps
  <2>1. answer' = answer
    BY DEF PanelStep, Accept, HangUp, SendFrame, DeadlinePasses
  <2> QED
    BY <2>1, QuietKeeps DEF clientVars
<1>3. Panels \ {p} \in SUBSET Panels
  OBVIOUS
<1>4. \A q \in Panels \ {p} :
        /\ hpc'[q] = hpc[q] /\ wire'[q] = wire[q] /\ buffer'[q] = buffer[q]
        /\ cur'[q] = cur[q] /\ wdl'[q] = wdl[q] /\ peerOpen'[q] = peerOpen[q]
        /\ sentLog'[q] = sentLog[q]
  BY <1>1 DEF PanelStep, Accept, HangUp, SendFrame, DeadlinePasses, TypeInv, TypeOK, ServerTypeOK
<1>5. \A q \in Panels \ {p} : Waiting(q)' = Waiting(q)
  BY <1>4 DEF Waiting
<1>6. \A q \in Panels \ {p} : ConnInv(q)'
  BY <1>1, <1>2, <1>3, <1>4, <1>5, AllStay
<1>7. ConnInv(p)'
  <2>1. CASE Accept(p)
    BY <1>1, <2>1, ConnOpens
  <2>2. ASSUME NEW m \in Messages, SendFrame(p, m)
        PROVE  ConnInv(p)'
    BY <1>1, <1>2, <2>2, ConnSends
  <2>3. CASE HangUp(p) \/ DeadlinePasses(p)
    <3>1. /\ UNCHANGED <<hpc, wire, buffer, cur, sentLog>>
          /\ peerOpen'[p] => peerOpen[p]
          /\ wdl'[p] # "unset" => wdl[p] # "unset"
      BY <1>1, <2>3 DEF HangUp, DeadlinePasses, TypeInv, TypeOK, ServerTypeOK
    <3>2. Waiting(p)' = Waiting(p)
      BY <3>1 DEF Waiting
    <3> QED
      BY <1>1, <1>2, <3>1, <3>2, ConnStays
  <2> QED
    BY <2>1, <2>2, <2>3 DEF PanelStep
<1> QED
  BY <1>6, <1>7

LEMMA QuietNext == QuietInv /\ [Next]_vars => QuietInv'
<1> SUFFICES ASSUME QuietInv, [Next]_vars PROVE QuietInv'
  OBVIOUS
<1>1. PhaseInv /\ TypeInv /\ \A q \in Panels : ConnInv(q)
  BY DEF QuietInv, PhaseInv, OnceInv, SafeInv
<1>2. PhaseInv' /\ TypeInv'
  BY <1>1, PhaseNext DEF PhaseInv, OnceInv, SafeInv
<1>3. CASE \E p \in Panels : Handler(p)
  BY <1>2, <1>3, HandlerStaysQuiet DEF QuietInv
<1>4. CASE \E p \in Panels : PanelStep(p) /\ UNCHANGED clientVars
  BY <1>2, <1>4, PanelStaysQuiet DEF QuietInv
<1>5. ASSUME UNCHANGED <<hpc, wire, buffer, cur, wdl, peerOpen, sentLog, answer>>,
             RangeOf(stationLog) \subseteq RangeOf(stationLog')
      PROVE  QuietInv'
  <2>1. Keeps
    BY <1>5 DEF Keeps
  <2>2. \A q \in Panels : Waiting(q)' = Waiting(q)
    BY <1>5 DEF Waiting
  <2>3. \A q \in Panels : ConnInv(q)'
    <3>1. Panels \in SUBSET Panels
      OBVIOUS
    <3> QED
      BY <1>1, <1>5, <2>1, <2>2, <3>1, AllStay
  <2> QED
    BY <1>2, <2>3 DEF QuietInv
<1>6. CASE StationStep /\ UNCHANGED serverVars
  <2>1. \/ stationLog' = stationLog
        \/ \E v \in Verdict : stationLog' = Append(stationLog, v)
    <3>1. ASSUME NEW ack \in BOOLEAN, StationAnswers(ack)
          PROVE  \E v \in Verdict : stationLog' = Append(stationLog, v)
      <4>1. Head(toStation) \in Messages
        BY <1>1, <3>1 DEF StationAnswers, TypeInv, TypeOK, ClientTypeOK
      <4>2. [msg |-> Head(toStation), ack |-> ack] \in Verdict
        BY <4>1 DEF Verdict
      <4> QED
        BY <3>1, <4>2 DEF StationAnswers
    <3>2. ASSUME NEW m \in orphans, NEW ack \in BOOLEAN, StationGetsLate(m, ack)
          PROVE  \E v \in Verdict : stationLog' = Append(stationLog, v)
      <4>1. m \in Messages
        BY <1>1 DEF TypeInv, TypeOK, ClientTypeOK
      <4>2. [msg |-> m, ack |-> ack] \in Verdict
        BY <4>1 DEF Verdict
      <4> QED
        BY <3>2, <4>2 DEF StationGetsLate
    <3>3. LinkBreaks => stationLog' = stationLog
      BY DEF LinkBreaks
    <3> QED
      BY <1>6, <3>1, <3>2, <3>3 DEF StationStep
  <2>2. RangeOf(stationLog) \subseteq RangeOf(stationLog')
    <3>1. ASSUME NEW v \in Verdict, stationLog' = Append(stationLog, v)
          PROVE  RangeOf(stationLog) \subseteq RangeOf(stationLog')
      <4>1. stationLog \in Seq(Verdict)
        BY <1>1 DEF TypeInv, TypeOK, ClientTypeOK
      <4>2. RangeOf(Append(stationLog, v)) = RangeOf(stationLog) \cup {v}
        BY <4>1, RangeAppend
      <4> QED
        BY <3>1, <4>2
    <3> QED
      BY <2>1, <3>1
  <2> QED
    BY <1>5, <1>6, <2>2 DEF serverVars
<1>7. CASE Client
  <2>1. stationLog' = stationLog
    BY <1>7 DEF Client, ClientStep, RunTop, DialSucceeds, DialFails, BackoffElapsed,
       BackoffCancelled, TakeMessage, ShutdownConnection, WritePayload, WriteFails,
       ReadReply, ReadFails, SendReply
  <2> QED
    BY <1>5, <1>7, <2>1 DEF Client, serverVars
<1>8. CASE Shutdown \/ UNCHANGED vars
  <2>1. UNCHANGED <<hpc, wire, buffer, cur, wdl, peerOpen, sentLog, answer, stationLog>>
    BY <1>8 DEF Shutdown, Cancel, CloseChannels, CloseListener, vars, serverVars, clientVars
  <2> QED
    BY <1>5, <2>1
<1> QED
  BY <1>3, <1>4, <1>6, <1>7, <1>8 DEF Next, Environment

\* A frame that was handled on an open connection and got no byte comes after
\* an event whose status was relayed on that connection: before server.go:537
\* sets the first write deadline, nothing that handleRequest writes is lost.
THEOREM SilenceExcused == Spec => []SilentOnlyAfterRelay
<1>1. Init => QuietInv
  <2> SUFFICES ASSUME Init PROVE QuietInv
    OBVIOUS
  <2>1. PhaseInv
    BY PhaseInit
  <2>2. \A p \in Panels : /\ Waiting(p) = <<>> /\ cur[p] = NoMsg /\ wdl[p] = "unset"
                          /\ ~peerOpen[p] /\ sentLog[p] = <<>>
    BY ConcatEmpty DEF Init, ServerInit, Waiting
  <2>3. \A p \in Panels : ConnInv(p)
    <3> TAKE p \in Panels
    <3>1. Closed(p) /\ SilenceInv(p)
      BY <2>2 DEF Closed, SilenceInv
    <3>2. EndsWith(<<>>, <<>>)
      BY SMT DEF EndsWith
    <3>3. InOrder(p)
      BY <2>2, <3>2 DEF InOrder
    <3> QED
      BY <3>1, <3>3 DEF ConnInv
  <2> QED
    BY <2>1, <2>3 DEF QuietInv
<1>2. QuietInv => SilentOnlyAfterRelay
  <2> SUFFICES ASSUME QuietInv, NEW p \in Panels, peerOpen[p], NEW j \in DOMAIN sentLog[p],
                      sentLog[p][j] \notin Pending(p), answer[sentLog[p][j]] = "none"
               PROVE  \E i \in 1 .. j - 1 : Relayed(sentLog[p][i])
    BY DEF SilentOnlyAfterRelay, Relayed
  <2>1. TypeInv /\ InOrder(p) /\ SilenceInv(p)
    BY DEF QuietInv, PhaseInv, OnceInv, SafeInv, ConnInv
  <2>2. /\ j \in 1 .. Len(sentLog[p]) /\ Taken(p) \in Nat
        /\ Len(sentLog[p]) \in Nat /\ Len(Waiting(p)) \in Nat
    BY <2>1, ConnTypes, TakenRange
  <2>3. j \in 1 .. Taken(p)
    <3> SUFFICES ASSUME j > Taken(p) PROVE FALSE
      BY <2>2
    <3>1. /\ j - Taken(p) \in 1 .. Len(Waiting(p))
          /\ Len(sentLog[p]) - Len(Waiting(p)) + (j - Taken(p)) = j
      BY <2>2 DEF Taken
    <3>2. Waiting(p)[j - Taken(p)] = sentLog[p][j]
      BY <2>1, <3>1 DEF InOrder, EndsWith
    <3>3. DOMAIN Waiting(p) = 1 .. Len(Waiting(p))
      BY <2>1, ConnTypes
    <3>4. sentLog[p][j] \in RangeOf(Waiting(p))
      BY <3>1, <3>2, <3>3 DEF RangeOf
    <3> QED
      BY <2>1, <3>4, PendingIs
  <2>4. ~(cur[p] # NoMsg /\ j = Taken(p))
    BY <2>1 DEF InOrder, Pending
  <2> QED
    BY <2>1, <2>3, <2>4 DEF SilenceInv, Excused
<1> QED
  BY <1>1, <1>2, QuietNext, PTL DEF Spec
=============================================================================
