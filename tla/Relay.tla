------------------------------- MODULE Relay -------------------------------
(***************************************************************************)
(* The relay of core.App: the server with its panels on one side, the      *)
(* client with the monitoring station on the other, the queue and the      *)
(* reply channels of RelayShared between them.                             *)
(***************************************************************************)
EXTENDS PanelServer, StationClient, Collect

vars == <<sharedVars, serverVars, clientVars>>

Init ==
  /\ SharedInit
  /\ ServerInit
  /\ ClientInit

\* One step of the handler of panel p, which can tell whether the client is
\* parked in its select (that decides a send on an unbuffered channel).
Handler(p) == HandlerStep(p, Parked) /\ UNCHANGED clientVars

Client == ClientStep /\ UNCHANGED serverVars

Environment ==
  \/ \E p \in Panels : PanelStep(p) /\ UNCHANGED clientVars
  \/ StationStep /\ UNCHANGED serverVars

\* App.Shutdown, or a signal: the context of server and client is cancelled.
\* App.Shutdown closes the listener, too.
Shutdown ==
  \/ Cancel /\ UNCHANGED <<serverVars, clientVars>>
  \/ CloseListener /\ UNCHANGED clientVars
  \/ CloseChannels /\ UNCHANGED clientVars

Next ==
  \/ \E p \in Panels : Handler(p)
  \/ Client
  \/ Environment
  \/ Shutdown

Spec == Init /\ [][Next]_vars

\* Every goroutine runs, and a wait with a timeout ends: weak fairness of each
\* handler, of the client and of closeChannels.  DialSucceeds is strongly fair:
\* a station that is dialled again and again is reached in the end, which is
\* an assumption about the environment.  Panels, station, network and operator
\* owe nothing, and nobody need close the listener: on SIGQUIT it stays open.
FairSpec ==
  /\ Spec
  /\ \A p \in Panels : WF_vars(Handler(p))
  /\ WF_vars(Client)
  /\ SF_vars(DialSucceeds /\ UNCHANGED serverVars)
  /\ WF_vars(CloseChannels /\ UNCHANGED clientVars)

-----------------------------------------------------------------------------
(* Invariants. *)

\* Every variable keeps to its type.
TypeOK == SharedTypeOK /\ ServerTypeOK /\ ClientTypeOK

Decided(m, ack) == [msg |-> m, ack |-> ack] \in RangeOf(stationLog)

\* A panel that received an ACK for an event can forget it: the station did
\* accept that very event.  handleRequest (server.go:526) writes the status it
\* receives, processMessage (client.go:218) takes the first byte it reads, and
\* nothing but the order of things ties either to the event.
AckSound ==
  \A m \in Events : answer[m] = "ack" => Decided(m, TRUE)

\* Whatever status is on its way from the client to a handler is what the
\* station decided on the event that handler waits for, an ACK and a NACK
\* alike: a reply of the station is never credited to another event.
RepliesAreVerdicts ==
  /\ cpc = "reply" => Decided(ccur, cstatus)
  /\ \A m \in Messages :
       \A s \in RangeOf(replyCh[m]) : Decided(m, s)

\* The station sees a frame once at most.  The relay does not deliver twice on
\* its own account, over any sequence of broken connections and redials: a
\* message is popped before it is written and never put back (client.go:180).
AtMostOnce ==
  \A i, j \in DOMAIN stationLog :
    stationLog[i].msg = stationLog[j].msg => i = j

\* The client is about to send a status: the send neither waits for the
\* handler, which may have timed out and moved on, nor panics on a channel that
\* is closed.  A handler that waits never finds its channel closed and empty:
\* the branch at server.go:527 is not taken.
ReplyNeverBlocks ==
  /\ cpc = "reply" => CanReply(ccur)
  /\ \A p \in Panels :
       hpc[p] = "await" /\ cur[p] \in replyClosed => replyCh[cur[p]] # <<>>

\* How many of the station's verdicts are in S.
Count(S) == Len(Collect(stationLog, S))

Acked == {[msg |-> m, ack |-> TRUE] : m \in {e \in Events : answer[e] = "ack"}}

\* The counters the operator sees lie between what panels were told and what
\* the station decided: every event acknowledged to a panel is counted, and
\* nothing is counted that the station did not decide, though replies lost with
\* a connection are not counted at all (client.go:218-224).
CountersSound ==
  /\ accepted <= Count([msg : Messages, ack : {TRUE}])
  /\ rejected <= Count([msg : Messages, ack : {FALSE}])
  /\ accepted >= Count(Acked)

Pending(p) == RangeOf(wire[p]) \cup RangeOf(buffer[p]) \cup {cur[p]}

\* A frame that was handled without an answer, on a connection that is still
\* open, comes after an event whose status was relayed on that connection: only
\* the write deadline set at server.go:537, and never cleared, silences the
\* handler.  Before the first relayed status every frame gets its byte.
SilentOnlyAfterRelay ==
  \A p \in Panels : peerOpen[p] =>
    \A j \in DOMAIN sentLog[p] :
      LET m == sentLog[p][j]
      IN  m \notin Pending(p) /\ answer[m] = "none" =>
            \E i \in 1 .. j - 1 :
              /\ sentLog[p][i] \in Events
              /\ answer[sentLog[p][i]] # "none"
              /\ Decided(sentLog[p][i], answer[sentLog[p][i]] = "ack")

\* However often dialling fails, the backoff is the initial delay, whatever that
\* is, or stays at or below the ceiling, and it does not fall below the initial
\* delay unless that is above the ceiling.
BackoffInRange ==
  \/ delay = ReconnectInitial
  \/ delay <= ReconnectMax /\ (ReconnectInitial <= ReconnectMax => delay >= ReconnectInitial)

-----------------------------------------------------------------------------
(* The inductive invariant behind the properties above. *)

\* While it reads, the client has on its link what it wrote last and nothing
\* else; while it does anything else it has nothing there.  That a reply
\* cannot be late rests on the client giving the connection up when a read
\* fails (client.go:185-188).
LinkInv ==
  /\ cpc # "read" => toStation = <<>> /\ fromStation = <<>>
  /\ Len(toStation) + Len(fromStation) <= 1
  /\ toStation # <<>> => Head(toStation) = ccur
  /\ fromStation # <<>> =>
       Head(fromStation).msg = ccur /\ Head(fromStation) \in RangeOf(stationLog)

\* The local variables that hold a message do hold one where the code uses it.
HandlerCurInv ==
  \A p \in Panels : hpc[p] \in {"update", "await"} => cur[p] \in Events

ClientCurInv == cpc \in {"write", "read", "reply"} => ccur \in Messages

CurInv == HandlerCurInv /\ ClientCurInv

-----------------------------------------------------------------------------
(* What the relay implements. *)

Phase(m) ==
  CASE answer[m] = "ack" -> "acked"
    [] answer[m] = "nack" -> "nacked"
    [] answer[m] = "none" /\ m \notin sent -> "new"
    [] answer[m] = "none" /\ m \in sent ->
         IF \E p \in Panels : m \in Pending(p) THEN "open" ELSE "dropped"

VerdictOf(m) ==
  IF \E v \in RangeOf(stationLog) : v.msg = m
    THEN IF Decided(m, TRUE) THEN "yes" ELSE "no"
    ELSE "none"

D == INSTANCE Delivery WITH
       phase <- [m \in Messages |-> Phase(m)],
       verdict <- [m \in Messages |-> VerdictOf(m)]

\* The relay implements the delivery contract: every step of every goroutine is
\* a step of Delivery on one message, or drops messages, or changes nothing.
ImplementsDelivery == D!Spec

-----------------------------------------------------------------------------
(* Liveness, under FairSpec. *)

\* A frame that reached the server does not stay there: it is answered or
\* dropped, whatever becomes of the client and the station.
FramesConclude ==
  \A p \in Panels, m \in Messages : m \in Pending(p) ~> m \notin Pending(p)

\* A queued event is taken by the client, over any number of broken
\* connections, unless the application is shut down.
QueueDrains ==
  \A m \in Events :
    m \in RangeOf(dataChannel) ~> m \notin RangeOf(dataChannel) \/ ctxDone

\* After the context is cancelled, for every panel: the client stops, the channels
\* of the UI are closed and the panel's connection ends, whatever the panel and the
\* station do.  As long as the listener is open the panel may connect again, so
\* that there need be no moment at which all connections are gone; once Stop has
\* closed the listener the panel is gone for good, and thereby all of them are.
ShutdownCompletes ==
  \A p \in Panels :
    /\ ctxDone ~> cpc = "stopped" /\ uiClosed /\ hpc[p] = "none"
    /\ ~listening ~> [](hpc[p] = "none")
=============================================================================
