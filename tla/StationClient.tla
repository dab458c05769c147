--------------------------- MODULE StationClient ---------------------------
(***************************************************************************)
(* The station side of the relay: the goroutine of Client.Run with         *)
(* handleConnection, processMessage and readReply, and the monitoring      *)
(* station with the TCP connection to it as environment.                   *)
(*                                                                         *)
(* cpc is the control point of the goroutine:                              *)
(*   "top"      top of the loop, about to test ctx.Done                    *)
(*   "dialing"  in DialContext                                             *)
(*   "backoff"  waiting delay after a failed dial                          *)
(*   "select"   handleConnection's select on Events() and ctx.Done         *)
(*   "write"    processMessage, about to write the payload                 *)
(*   "read"     in readReply                                               *)
(*   "reply"    the reply is counted, about to send it on ReplyCh          *)
(*   "stopped"  the goroutine has returned                                 *)
(*                                                                         *)
(* The station is outside the repository.  It is modelled from the one     *)
(* assumption the client makes of it: it answers the messages of one       *)
(* connection in order, with one byte each.                                *)
(***************************************************************************)
EXTENDS RelayShared

CONSTANTS
  ReconnectInitial,  \* cfg.Client.ReconnectInitial, in units of delay
  ReconnectMax,      \* cfg.Client.ReconnectMax
  MaxReconnects      \* bound of the model on the reconnects counter

ASSUME ClientAssumption ==
  /\ ReconnectInitial \in Nat
  /\ ReconnectMax \in Nat
  /\ MaxReconnects \in Nat

VARIABLES
  cpc,         \* control point of the client goroutine
  ccur,        \* the message being processed
  cstatus,     \* parseReply of the reply just read
  delay,       \* present backoff delay
  connected,   \* the counters and flag of metrics.Stats
  accepted,
  rejected,
  reconnects,
  linkUp,      \* the TCP connection to the station is not broken
  toStation,   \* messages in flight on it
  fromStation, \* replies in flight on it
  orphans,     \* in flight on connections given up, may still arrive
  stationLog   \* history: the station's verdicts, in order

metrics == <<connected, accepted, rejected, reconnects>>
link == <<linkUp, toStation, fromStation>>
clientVars == <<cpc, ccur, cstatus, delay, metrics, link, orphans, stationLog>>

ClientStates == {"top", "dialing", "backoff", "select", "write", "read",
                 "reply", "stopped"}

Verdict == [msg : Messages, ack : BOOLEAN]

ClientTypeOK ==
  /\ cpc \in ClientStates
  /\ ccur \in Messages \cup {NoMsg}
  /\ cstatus \in BOOLEAN
  /\ delay \in Nat
  /\ connected \in BOOLEAN
  /\ accepted \in Nat
  /\ rejected \in Nat
  /\ reconnects \in Nat
  /\ linkUp \in BOOLEAN
  /\ toStation \in Seq(Messages)
  /\ fromStation \in Seq(Verdict)
  /\ orphans \in SUBSET Messages
  /\ stationLog \in Seq(Verdict)

ClientInit ==
  /\ cpc = "top"
  /\ ccur = NoMsg
  /\ cstatus = FALSE
  /\ delay = ReconnectInitial
  /\ connected = FALSE
  /\ accepted = 0
  /\ rejected = 0
  /\ reconnects = 0
  /\ linkUp = FALSE
  /\ toStation = <<>>
  /\ fromStation = <<>>
  /\ orphans = {}
  /\ stationLog = <<>>

Parked == cpc = "select"

RangeOf(s) == {s[i] : i \in DOMAIN s}

-----------------------------------------------------------------------------
(* Connecting. *)

\* Mutant: without the ceiling.
CalculateNextDelay_NoCeiling(d) == 2 * d

\* calculateNextDelay: exponential backoff with a ceiling.
CalculateNextDelay(d) == IF 2 * d > ReconnectMax THEN ReconnectMax ELSE 2 * d

RunTop ==
  /\ cpc = "top"
  /\ cpc' = IF ctxDone THEN "stopped" ELSE "dialing"
  /\ UNCHANGED <<ccur, cstatus, delay, metrics, link, orphans, stationLog,
                 sharedVars>>

DialSucceeds ==
  /\ cpc = "dialing"
  /\ cpc' = "select"
  /\ linkUp' = TRUE
  /\ connected' = TRUE
  /\ UNCHANGED <<ccur, cstatus, delay, accepted, rejected, reconnects, toStation,
                 fromStation, orphans, stationLog, sharedVars>>

\* The counter of the model stops at MaxReconnects, the dialling does not.
DialFails ==
  /\ cpc = "dialing"
  /\ cpc' = "backoff"
  /\ connected' = FALSE
  /\ reconnects' = IF reconnects < MaxReconnects THEN reconnects + 1
                                                ELSE reconnects
  /\ UNCHANGED <<ccur, cstatus, delay, accepted, rejected, link, orphans,
                 stationLog, sharedVars>>

BackoffElapsed ==
  /\ cpc = "backoff"
  /\ cpc' = "top"
  /\ delay' = CalculateNextDelay(delay)
  /\ UNCHANGED <<ccur, cstatus, metrics, link, orphans, stationLog, sharedVars>>

BackoffCancelled ==
  /\ cpc = "backoff"
  /\ ctxDone
  /\ cpc' = "stopped"
  /\ UNCHANGED <<ccur, cstatus, delay, metrics, link, orphans, stationLog,
                 sharedVars>>

\* Mutant: the goroutine returns when its connection is lost.
EndConnection_Stops ==
  /\ cpc' = "stopped"
  /\ ccur' = NoMsg
  /\ delay' = ReconnectInitial
  /\ connected' = FALSE
  /\ UNCHANGED <<accepted, rejected, reconnects>>
  /\ linkUp' = FALSE
  /\ toStation' = <<>>
  /\ fromStation' = <<>>
  /\ orphans' = orphans \cup RangeOf(toStation)

\* handleConnection has returned: conn.Close and round the loop of Run.  What
\* was written may still reach the station; replies in flight are never read.
EndConnection ==
  /\ cpc' = "top"
  /\ ccur' = NoMsg
  /\ delay' = ReconnectInitial
  /\ connected' = FALSE
  /\ UNCHANGED <<accepted, rejected, reconnects>>
  /\ linkUp' = FALSE
  /\ toStation' = <<>>
  /\ fromStation' = <<>>
  /\ orphans' = orphans \cup RangeOf(toStation)

-----------------------------------------------------------------------------
(* Handling one connection. *)

\* Mutant: the zero value of an empty channel is processed like a message.
TakeMessage_Polls ==
  /\ cpc = "select"
  /\ cpc' = "write"
  /\ IF dataChannel = <<>>
       THEN ccur' = NoMsg /\ UNCHANGED dataChannel
       ELSE ccur' = Head(dataChannel) /\ dataChannel' = Tail(dataChannel)
  /\ UNCHANGED <<cstatus, delay, metrics, link, orphans, stationLog, replyCh,
                 replyClosed, ctxDone>>

\* The select of handleConnection receives the oldest queued message.
TakeMessage ==
  /\ cpc = "select"
  /\ dataChannel # <<>>
  /\ cpc' = "write"
  /\ ccur' = Head(dataChannel)
  /\ dataChannel' = Tail(dataChannel)
  /\ UNCHANGED <<cstatus, delay, metrics, link, orphans, stationLog, replyCh,
                 replyClosed, ctxDone>>

\* The select takes its ctx.Done branch, queued messages or not.
ShutdownConnection ==
  /\ cpc = "select"
  /\ ctxDone
  /\ ~HandedOver
  /\ EndConnection
  /\ UNCHANGED <<cstatus, stationLog, sharedVars>>

\* conn.Write succeeds, which on a connection already broken says nothing.
WritePayload ==
  /\ cpc = "write"
  /\ cpc' = "read"
  /\ toStation' = IF linkUp THEN Append(toStation, ccur) ELSE toStation
  /\ UNCHANGED <<ccur, cstatus, delay, metrics, linkUp, fromStation, orphans,
                 stationLog, sharedVars>>

\* conn.Write fails: processMessage returns an error without having replied,
\* and handleConnection gives up the connection and the message.
WriteFails ==
  /\ cpc = "write"
  /\ EndConnection
  /\ UNCHANGED <<cstatus, stationLog, sharedVars>>

\* Mutant: whatever the station answers counts as an ACK.
ReadReply_AnyByte ==
  /\ cpc = "read"
  /\ fromStation # <<>>
  /\ cpc' = "reply"
  /\ cstatus' = TRUE
  /\ fromStation' = <<>>
  /\ accepted' = accepted + 1
  /\ UNCHANGED <<ccur, delay, connected, rejected, reconnects, linkUp, toStation,
                 orphans, stationLog, sharedVars>>

\* conn.Read returns every byte that has arrived and parseReply looks at the
\* first; the counters are updated before the status is passed on.
ReadReply ==
  /\ cpc = "read"
  /\ fromStation # <<>>
  /\ cpc' = "reply"
  /\ cstatus' = Head(fromStation).ack
  /\ fromStation' = <<>>
  /\ IF cstatus'
       THEN accepted' = accepted + 1 /\ UNCHANGED rejected
       ELSE rejected' = rejected + 1 /\ UNCHANGED accepted
  /\ UNCHANGED <<ccur, delay, connected, reconnects, linkUp, toStation, orphans,
                 stationLog, sharedVars>>

\* Mutant: after a read timeout the connection is kept.
ReadFails_KeepsLink ==
  /\ cpc = "read"
  /\ cpc' = "select"
  /\ ccur' = NoMsg
  /\ UNCHANGED <<cstatus, delay, metrics, link, orphans, stationLog, sharedVars>>

\* Mutant: the message goes back into the queue.
ReadFails_Requeues ==
  /\ cpc = "read"
  /\ EndConnection
  /\ dataChannel' = Append(dataChannel, ccur)
  /\ UNCHANGED <<cstatus, stationLog, replyCh, replyClosed, ctxDone>>

\* Mutant: a reply that did not come counts as a rejection.
ReadFails_Counts ==
  /\ cpc = "read"
  /\ cpc' = "top"
  /\ ccur' = NoMsg
  /\ delay' = ReconnectInitial
  /\ connected' = FALSE
  /\ rejected' = rejected + 1
  /\ UNCHANGED <<accepted, reconnects>>
  /\ linkUp' = FALSE
  /\ toStation' = <<>>
  /\ fromStation' = <<>>
  /\ orphans' = orphans \cup RangeOf(toStation)
  /\ UNCHANGED <<cstatus, stationLog, sharedVars>>

\* conn.Read fails: the read deadline, EOF or a reset connection.
ReadFails ==
  /\ cpc = "read"
  /\ EndConnection
  /\ UNCHANGED <<cstatus, stationLog, sharedVars>>

\* The select of processMessage: send the status and close the channel, or,
\* when the send would block, give up after replyTimeout.
SendReply ==
  /\ cpc = "reply"
  /\ cpc' = "select"
  /\ ccur' = NoMsg
  /\ cstatus' = FALSE
  /\ IF CanReply(ccur)
       THEN /\ replyCh' = [replyCh EXCEPT ![ccur] = Append(@, cstatus)]
            /\ replyClosed' = replyClosed \cup {ccur}
       ELSE UNCHANGED <<replyCh, replyClosed>>
  /\ UNCHANGED <<delay, metrics, link, orphans, stationLog, dataChannel,
                 ctxDone>>

-----------------------------------------------------------------------------
(* The station and the network. *)

StationAnswers(ack) ==
  /\ linkUp
  /\ toStation # <<>>
  /\ LET v == [msg |-> Head(toStation), ack |-> ack]
     IN  /\ stationLog' = Append(stationLog, v)
         /\ fromStation' = Append(fromStation, v)
  /\ toStation' = Tail(toStation)
  /\ UNCHANGED <<cpc, ccur, cstatus, delay, metrics, linkUp, orphans, sharedVars>>

\* A message written on a connection since given up arrives all the same.
StationGetsLate(m, ack) ==
  /\ m \in orphans
  /\ orphans' = orphans \ {m}
  /\ stationLog' = Append(stationLog, [msg |-> m, ack |-> ack])
  /\ UNCHANGED <<cpc, ccur, cstatus, delay, metrics, link, sharedVars>>

\* The station or the network ends the connection; the client will notice at
\* its next write or read only.  Replies that have arrived can still be read.
LinkBreaks ==
  /\ linkUp
  /\ linkUp' = FALSE
  /\ toStation' = <<>>
  /\ orphans' = orphans \cup RangeOf(toStation)
  /\ UNCHANGED <<cpc, ccur, cstatus, delay, metrics, fromStation, stationLog,
                 sharedVars>>

-----------------------------------------------------------------------------
ClientStep ==
  \/ RunTop
  \/ DialSucceeds
  \/ DialFails
  \/ BackoffElapsed
  \/ BackoffCancelled
  \/ TakeMessage
  \/ ShutdownConnection
  \/ WritePayload
  \/ WriteFails
  \/ ReadReply
  \/ ReadFails
  \/ SendReply

StationStep ==
  \/ \E ack \in BOOLEAN : StationAnswers(ack)
  \/ \E m \in orphans, ack \in BOOLEAN : StationGetsLate(m, ack)
  \/ LinkBreaks
=============================================================================
