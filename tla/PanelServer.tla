---------------------------- MODULE PanelServer ----------------------------
(***************************************************************************)
(* The panel side of the relay: Server.acceptConnections and one           *)
(* connection.handleRequest goroutine per panel connection, with the       *)
(* panels themselves as environment.                                       *)
(*                                                                         *)
(* hpc[p] is the control point of the handler serving panel p:             *)
(*   "none"    there is no connection                                      *)
(*   "top"     top of the outer loop, about to test ctx.Done               *)
(*   "read"    in reader.Read                                              *)
(*   "split"   in the inner loop, taking frames out of buffer              *)
(*   "update"  the frame is enqueued, about to run UpdateDevice            *)
(*   "await"   in the select on replyCh and time.After(replyTimeout)       *)
(*                                                                         *)
(* SetWriteDeadline is called in one place only, before a relayed status   *)
(* is written, and the deadline is never cleared.  wdl[p] follows it:      *)
(* "unset", "ahead" or "past".  A write whose deadline is past fails, and  *)
(* every write but the relayed one ignores the failure.                    *)
(***************************************************************************)
EXTENDS RelayShared

CONSTANT Panels

VARIABLES
  hpc,       \* control point of the handler of each panel
  wire,      \* frames sent by the panel and not yet read by the handler
  buffer,    \* frames read and not yet handled, the local buffer
  cur,       \* the event the handler has enqueued and waits for
  wdl,       \* write deadline of the connection
  peerOpen,  \* the panel has not hung up
  uiClosed,  \* closeChannels has closed deviceUpdates and eventUpdates
  listening, \* the listener is open
  sentLog,   \* history: the frames sent on the present connection, in order
  sent,      \* history: every message sent so far
  answer     \* history: the byte the panel received for a message

serverVars == <<hpc, wire, buffer, cur, wdl, peerOpen, uiClosed, listening,
                sentLog, sent, answer>>

HandlerStates == {"none", "top", "read", "split", "update", "await"}

ServerTypeOK ==
  /\ hpc \in [Panels -> HandlerStates]
  /\ wire \in [Panels -> Seq(Messages)]
  /\ buffer \in [Panels -> Seq(Messages)]
  /\ cur \in [Panels -> Events \cup {NoMsg}]
  /\ wdl \in [Panels -> {"unset", "ahead", "past"}]
  /\ peerOpen \in [Panels -> BOOLEAN]
  /\ uiClosed \in BOOLEAN
  /\ listening \in BOOLEAN
  /\ sentLog \in [Panels -> Seq(Messages)]
  /\ sent \in SUBSET Messages
  /\ answer \in [Messages -> {"none", "ack", "nack"}]

ServerInit ==
  /\ hpc = [p \in Panels |-> "none"]
  /\ wire = [p \in Panels |-> <<>>]
  /\ buffer = [p \in Panels |-> <<>>]
  /\ cur = [p \in Panels |-> NoMsg]
  /\ wdl = [p \in Panels |-> "unset"]
  /\ peerOpen = [p \in Panels |-> FALSE]
  /\ uiClosed = FALSE
  /\ listening = TRUE
  /\ sentLog = [p \in Panels |-> <<>>]
  /\ sent = {}
  /\ answer = [m \in Messages |-> "none"]

-----------------------------------------------------------------------------
(* The panel. *)

\* The panel writes one more frame on its connection.
SendFrame(p, m) ==
  /\ hpc[p] # "none"
  /\ peerOpen[p]
  /\ m \notin sent
  /\ wire' = [wire EXCEPT ![p] = Append(@, m)]
  /\ sentLog' = [sentLog EXCEPT ![p] = Append(@, m)]
  /\ sent' = sent \cup {m}
  /\ UNCHANGED <<hpc, buffer, cur, wdl, peerOpen, uiClosed, listening, answer,
                 sharedVars>>

\* The panel closes its end, or its network does.
HangUp(p) ==
  /\ peerOpen[p]
  /\ peerOpen' = [peerOpen EXCEPT ![p] = FALSE]
  /\ UNCHANGED <<hpc, wire, buffer, cur, wdl, uiClosed, listening, sentLog,
                 sent, answer, sharedVars>>

-----------------------------------------------------------------------------
(* Steps of the server. *)

\* listener.Accept returns a connection and its handler goroutine starts, also
\* when the context is cancelled already: only closing the listener ends it.
Accept(p) ==
  /\ listening
  /\ hpc[p] = "none"
  /\ hpc' = [hpc EXCEPT ![p] = "top"]
  /\ peerOpen' = [peerOpen EXCEPT ![p] = TRUE]
  /\ sentLog' = [sentLog EXCEPT ![p] = <<>>]
  /\ UNCHANGED <<wire, buffer, cur, wdl, uiClosed, listening, sent, answer,
                 sharedVars>>

\* handleRequest returns, or panics and recovers: the deferred conn.Close runs
\* and every frame not yet handled is lost.
CloseConn(p) ==
  /\ hpc' = [hpc EXCEPT ![p] = "none"]
  /\ wire' = [wire EXCEPT ![p] = <<>>]
  /\ buffer' = [buffer EXCEPT ![p] = <<>>]
  /\ cur' = [cur EXCEPT ![p] = NoMsg]
  /\ wdl' = [wdl EXCEPT ![p] = "unset"]
  /\ peerOpen' = [peerOpen EXCEPT ![p] = FALSE]

\* c.conn.Write of one status byte with the deadline d in force.
WriteByte(p, m, byte, d) ==
  answer' = IF peerOpen[p] /\ d # "past"
              THEN [answer EXCEPT ![m] = byte]
              ELSE answer

\* Mutant: the outer loop does not look at ctx.Done.
LoopTop_NoCheck(p) ==
  /\ hpc[p] = "top"
  /\ hpc' = [hpc EXCEPT ![p] = "read"]
  /\ UNCHANGED <<wire, buffer, cur, wdl, peerOpen, uiClosed, listening,
                 sentLog, sent, answer, sharedVars>>

LoopTop(p) ==
  /\ hpc[p] = "top"
  /\ \/ /\ ctxDone
        /\ CloseConn(p)
     \/ /\ ~ctxDone
        /\ hpc' = [hpc EXCEPT ![p] = "read"]
        /\ UNCHANGED <<wire, buffer, cur, wdl, peerOpen>>
  /\ UNCHANGED <<uiClosed, listening, sentLog, sent, answer, sharedVars>>

\* reader.Read returns the first k frames that have arrived.
ReadChunk(p) ==
  /\ hpc[p] = "read"
  /\ \E k \in 1 .. Len(wire[p]) :
       /\ buffer' = [buffer EXCEPT ![p] = @ \o SubSeq(wire[p], 1, k)]
       /\ wire' = [wire EXCEPT ![p] = SubSeq(@, k + 1, Len(@))]
  /\ hpc' = [hpc EXCEPT ![p] = "split"]
  /\ UNCHANGED <<cur, wdl, peerOpen, uiClosed, listening, sentLog, sent,
                 answer, sharedVars>>

\* Nothing arrived for readTimeout (60 s): a NACK that answers no frame, then
\* round the outer loop.  A write deadline (10 s) set before is past by now.
ReadTimeout(p) ==
  /\ hpc[p] = "read"
  /\ wire[p] = <<>>
  /\ hpc' = [hpc EXCEPT ![p] = "top"]
  /\ wdl' = [wdl EXCEPT ![p] = IF @ = "unset" THEN @ ELSE "past"]
  /\ UNCHANGED <<wire, buffer, cur, peerOpen, uiClosed, listening, sentLog,
                 sent, answer, sharedVars>>

\* The panel has hung up: io.EOF once all it sent has been read, or any other
\* error, such as a reset connection, before that.
ReadEnds(p) ==
  /\ hpc[p] = "read"
  /\ ~peerOpen[p]
  /\ CloseConn(p)
  /\ UNCHANGED <<uiClosed, listening, sentLog, sent, answer, sharedVars>>

\* No terminator is left in buffer: back to the outer loop.
SplitDone(p) ==
  /\ hpc[p] = "split"
  /\ buffer[p] = <<>>
  /\ hpc' = [hpc EXCEPT ![p] = "top"]
  /\ UNCHANGED <<wire, buffer, cur, wdl, peerOpen, uiClosed, listening,
                 sentLog, sent, answer, sharedVars>>

\* The next frame is in the set S, and the inner loop takes it out of buffer.
TakesFrame(p, S) ==
  /\ hpc[p] = "split"
  /\ buffer[p] # <<>>
  /\ Head(buffer[p]) \in S
  /\ buffer' = [buffer EXCEPT ![p] = Tail(@)]

AnswerHeartbeat(p) ==
  /\ TakesFrame(p, Heartbeats)
  /\ WriteByte(p, Head(buffer[p]), "ack", wdl[p])
  /\ UNCHANGED <<hpc, wire, cur, wdl, peerOpen, uiClosed, listening, sentLog,
                 sent, sharedVars>>

\* A frame no rule accepts, or an event for which the queue has no room.
RefuseFrame(p, parked) ==
  /\ TakesFrame(p, IF CanEnqueue(parked) THEN Malformed
                                         ELSE Malformed \cup Events)
  /\ WriteByte(p, Head(buffer[p]), "nack", wdl[p])
  /\ UNCHANGED <<hpc, wire, cur, wdl, peerOpen, uiClosed, listening, sentLog,
                 sent, sharedVars>>

\* A fresh reply channel is made and the event goes into the queue with it.
EnqueueEvent(p, parked) ==
  /\ TakesFrame(p, Events)
  /\ CanEnqueue(parked)
  /\ Enqueue(Head(buffer[p]))
  /\ replyCh' = [replyCh EXCEPT ![Head(buffer[p])] = <<>>]
  /\ replyClosed' = replyClosed \ {Head(buffer[p])}
  /\ cur' = [cur EXCEPT ![p] = Head(buffer[p])]
  /\ hpc' = [hpc EXCEPT ![p] = "update"]
  /\ UNCHANGED <<wire, wdl, peerOpen, uiClosed, listening, sentLog, sent,
                 answer, ctxDone>>

\* UpdateDevice, of which the relay sees one thing: its non-blocking sends
\* panic once the UI channels are closed, and the panic ends the connection.
UpdateDevice(p) ==
  /\ hpc[p] = "update"
  /\ IF uiClosed
       THEN CloseConn(p)
       ELSE /\ hpc' = [hpc EXCEPT ![p] = "await"]
            /\ UNCHANGED <<wire, buffer, cur, wdl, peerOpen>>
  /\ UNCHANGED <<uiClosed, listening, sentLog, sent, answer, sharedVars>>

\* Back from the select to the inner loop, with the write deadline d.
NextFrame(p, d) ==
  /\ hpc' = [hpc EXCEPT ![p] = "split"]
  /\ cur' = [cur EXCEPT ![p] = NoMsg]
  /\ wdl' = [wdl EXCEPT ![p] = d]
  /\ UNCHANGED <<wire, buffer, peerOpen>>

\* Mutant: a failed write of the status is logged and the loop goes on.
ReceiveReply_GoesOn(p) ==
  LET m == cur[p]
      statuses == replyCh[m]
  IN  /\ hpc[p] = "await"
      /\ statuses # <<>>
      /\ replyCh' = [replyCh EXCEPT ![m] = Tail(@)]
      /\ NextFrame(p, "ahead")
      /\ \/ WriteByte(p, m, IF Head(statuses) THEN "ack" ELSE "nack", "ahead")
         \/ UNCHANGED answer
      /\ UNCHANGED <<uiClosed, listening, sentLog, sent, dataChannel,
                     replyClosed, ctxDone>>

\* The select receives from replyCh.  The status is relayed under a write
\* deadline of its own; if that write fails the handler returns.
ReceiveReply(p) ==
  LET m == cur[p]
      statuses == replyCh[m]
  IN  /\ hpc[p] = "await"
      /\ statuses # <<>> \/ m \in replyClosed
      /\ IF statuses = <<>>
           THEN CloseConn(p) /\ UNCHANGED <<replyCh, answer>>
           ELSE /\ replyCh' = [replyCh EXCEPT ![m] = Tail(@)]
                /\ \/ /\ NextFrame(p, "ahead")
                      /\ WriteByte(p, m, IF Head(statuses) THEN "ack" ELSE "nack",
                                   "ahead")
                   \/ CloseConn(p) /\ UNCHANGED answer
      /\ UNCHANGED <<uiClosed, listening, sentLog, sent, dataChannel,
                     replyClosed, ctxDone>>

\* Mutant: no timeout: the handler waits for its reply for ever.
ReplyTimeout_Missing(p) == FALSE

\* Mutant: the NACK is written and the handler goes on waiting.
ReplyTimeout_KeepsWaiting(p) ==
  /\ hpc[p] = "await"
  /\ WriteByte(p, cur[p], "nack", wdl[p])
  /\ UNCHANGED <<hpc, wire, buffer, cur, wdl, peerOpen, uiClosed, listening,
                 sentLog, sent, sharedVars>>

\* time.After(replyTimeout) fires first.  replyTimeout is not shorter than
\* writeTimeout, so a write deadline set before this event is past.
ReplyTimeout(p) ==
  LET d == IF wdl[p] = "unset" THEN "unset" ELSE "past"
  IN  /\ hpc[p] = "await"
      /\ NextFrame(p, d)
      /\ WriteByte(p, cur[p], "nack", d)
      /\ UNCHANGED <<uiClosed, listening, sentLog, sent, sharedVars>>

-----------------------------------------------------------------------------
(* Time, and the end of Server.Run. *)

DeadlinePasses(p) ==
  /\ wdl[p] = "ahead"
  /\ wdl' = [wdl EXCEPT ![p] = "past"]
  /\ UNCHANGED <<hpc, wire, buffer, cur, peerOpen, uiClosed, listening,
                 sentLog, sent, answer, sharedVars>>

\* Server.Stop has cancelled the context and closes the listener.  A signal
\* cancels the context without it; on SIGQUIT Stop is never called.
CloseListener ==
  /\ ctxDone
  /\ listening
  /\ listening' = FALSE
  /\ UNCHANGED <<hpc, wire, buffer, cur, wdl, peerOpen, uiClosed, sentLog,
                 sent, answer, sharedVars>>

CloseChannels ==
  /\ ctxDone
  /\ ~uiClosed
  /\ uiClosed' = TRUE
  /\ UNCHANGED <<listening, hpc, wire, buffer, cur, wdl, peerOpen, sentLog,
                 sent, answer, sharedVars>>

-----------------------------------------------------------------------------
\* What the handler goroutine of panel p does by itself.
HandlerStep(p, parked) ==
  \/ LoopTop(p)
  \/ ReadChunk(p)
  \/ ReadTimeout(p)
  \/ ReadEnds(p)
  \/ SplitDone(p)
  \/ AnswerHeartbeat(p)
  \/ RefuseFrame(p, parked)
  \/ EnqueueEvent(p, parked)
  \/ UpdateDevice(p)
  \/ ReceiveReply(p)
  \/ ReplyTimeout(p)

\* What its environment does to it.
PanelStep(p) ==
  \/ Accept(p)
  \/ HangUp(p)
  \/ \E m \in Messages : SendFrame(p, m)
  \/ DeadlinePasses(p)
=============================================================================
