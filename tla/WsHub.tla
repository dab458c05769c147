-------------------------------- MODULE WsHub --------------------------------
(***************************************************************************)
(* The WebSocket hub of api.go and the goroutine of main that feeds it:    *)
(* the map wsClients, which the HTTP handlers, the readers of the clients  *)
(* and the broadcaster change without a lock, and the loop of              *)
(* broadcastToClients over it.                                             *)
(*                                                                         *)
(* conn[c] is where client c stands:                                       *)
(*   "none"      not connected                                             *)
(*   "adding"    upgraded, handleWebSocket writes to the map               *)
(*   "serving"   in the map, its reader is in ReadMessage                  *)
(*   "removing"  its reader deletes it from the map                        *)
(*   "gone"      closed, the reader has returned                           *)
(* bpc is the control point of the broadcaster: "select", "range" between  *)
(* two clients of the loop, "write" in WriteJSON to target, and "remove"   *)
(* in the delete after a failed write.                                     *)
(*                                                                         *)
(* A map operation of the Go runtime that meets a write in progress ends   *)
(* the process with a fatal error that nothing can recover.  (The runtime  *)
(* does not notice every such meeting; one it does not notice corrupts the *)
(* map, and the model ends there, too.)                                    *)
(***************************************************************************)
EXTENDS CidRules

CONSTANTS
  Clients,     \* WebSocket clients; each connects once
  NoClient,    \* none of them
  Described,   \* the codes the event dictionary describes
  UiBuffer,    \* eventChanBuffer
  SockBuffer   \* updates the sockets of one client hold until it reads

ASSUME HubAssumption ==
  NoClient \notin Clients /\ UiBuffer \in Nat \ {0} /\ SockBuffer \in Nat \ {0}

VARIABLES
  deviceUpdates, \* the channels that main drains: of devices
  eventUpdates,  \* and of events
  wsClients,     \* the keys of the map
  conn,          \* where each client stands
  up,            \* neither side has closed the connection
  unread,        \* updates in the sockets of a client
  bpc,           \* control point of the broadcaster
  todo,          \* clients the loop may still visit
  target,        \* the client it writes to
  died,          \* the process has ended with a fatal error
  log,           \* history: what was broadcast, in order
  owed           \* history: clients in the map when the loop began that it has
                 \* not written to

mapVars == <<wsClients, conn, up>>
loopVars == <<bpc, todo, target, log, owed>>
channels == <<deviceUpdates, eventUpdates>>
hubVars == <<channels, mapVars, loopVars, unread, died>>

HubInit ==
  /\ deviceUpdates = <<>> /\ eventUpdates = <<>>
  /\ wsClients = {}
  /\ conn = [c \in Clients |-> "none"]
  /\ up = [c \in Clients |-> FALSE]
  /\ unread = [c \in Clients |-> 0]
  /\ bpc = "select"
  /\ todo = {}
  /\ target = NoClient
  /\ died = FALSE
  /\ log = <<>>
  /\ owed = {}

\* Mutant: the check for room lets one more in.
Offered_OffByOne(ch, e) == IF Len(ch) <= UiBuffer THEN Append(ch, e) ELSE ch

\* UpdateDevice offers the event e to both channels; a full one drops it.
Offered(ch, e) == IF Len(ch) < UiBuffer THEN Append(ch, e) ELSE ch
Push(e) ==
  /\ deviceUpdates' = Offered(deviceUpdates, e)
  /\ eventUpdates' = Offered(eventUpdates, e)
  /\ UNCHANGED <<mapVars, loopVars, unread, died>>

\* What is broadcast for the event e: the number and last event of its device,
\* and the event as it is shown.
PpkUpdate(e) == [type |-> "ppk_update", number |-> ExtractDeviceID(e), event |-> e]
EventUpdate(e) == [type |-> "event_update", data |-> Cut(e)]

\* A goroutine begins an operation on the map.
MapWritten == bpc = "remove" \/ \E c \in Clients : conn[c] \in {"adding", "removing"}
TouchMap == died' = MapWritten

Moves(c, from, to) == conn[c] = from /\ conn' = [conn EXCEPT ![c] = to]

-----------------------------------------------------------------------------
(* The connection of a client.                                             *)

\* handleWebSocket: Upgrade, then the assignment to the map begins.
Connect(c) ==
  /\ Moves(c, "none", "adding")
  /\ up' = [up EXCEPT ![c] = TRUE]
  /\ TouchMap
  /\ UNCHANGED <<channels, wsClients, loopVars, unread>>

\* It is done, and the reader is started.  A loop under way may come to see the
\* client or not.
Added(c) ==
  /\ Moves(c, "adding", "serving")
  /\ wsClients' = wsClients \cup {c}
  /\ todo' \in {todo} \cup (IF bpc = "select" THEN {} ELSE {todo \cup {c}})
  /\ UNCHANGED <<channels, up, bpc, target, log, owed, unread, died>>

\* The client takes an update out of its socket.
ClientReads(c) ==
  /\ up[c] /\ unread[c] > 0
  /\ unread' = [unread EXCEPT ![c] = @ - 1]
  /\ UNCHANGED <<channels, mapVars, loopVars, died>>

\* The client closes the connection, or its network does.
ClientLeaves(c) ==
  /\ up[c]
  /\ up' = [up EXCEPT ![c] = FALSE]
  /\ unread' = [unread EXCEPT ![c] = 0]
  /\ UNCHANGED <<channels, wsClients, conn, loopVars, died>>

\* ReadMessage fails and the deferred delete begins.
ReaderEnds(c) ==
  /\ ~up[c]
  /\ Moves(c, "serving", "removing")
  /\ TouchMap
  /\ UNCHANGED <<channels, wsClients, up, loopVars, unread>>

\* It is done, and the connection is closed.
Removed(c) ==
  /\ Moves(c, "removing", "gone")
  /\ wsClients' = wsClients \ {c}
  /\ UNCHANGED <<channels, up, loopVars, unread, died>>

-----------------------------------------------------------------------------
(* The broadcaster.                                                        *)

\* broadcastToClients begins its loop.
Broadcast(update) ==
  /\ log' = Append(log, update)
  /\ bpc' = "range"
  /\ todo' = wsClients
  /\ owed' = wsClients
  /\ TouchMap
  /\ UNCHANGED <<mapVars, target, unread>>

\* main receives from one of the channels, whichever it likes.
TakeDevice ==
  /\ bpc = "select"
  /\ deviceUpdates # <<>>
  /\ deviceUpdates' = Tail(deviceUpdates)
  /\ Broadcast(PpkUpdate(Head(deviceUpdates)))
  /\ UNCHANGED eventUpdates

\* An event the dictionary does not describe is dropped.
TakeEvent ==
  /\ bpc = "select"
  /\ eventUpdates # <<>>
  /\ eventUpdates' = Tail(eventUpdates)
  /\ IF Cut(Head(eventUpdates)).code \in Described
       THEN Broadcast(EventUpdate(Head(eventUpdates)))
       ELSE UNCHANGED <<mapVars, loopVars, unread, died>>
  /\ UNCHANGED deviceUpdates

\* The loop comes to the next client, in any order.
Visit(c) ==
  /\ bpc = "range"
  /\ c \in todo \cap wsClients
  /\ bpc' = "write"
  /\ target' = c
  /\ todo' = todo \ {c}
  /\ TouchMap
  /\ UNCHANGED <<channels, mapVars, log, owed, unread>>

LoopEnds ==
  /\ bpc = "range"
  /\ todo \cap wsClients = {}
  /\ bpc' = "select"
  /\ todo' = {}
  /\ target' = NoClient
  /\ owed' = {}
  /\ TouchMap
  /\ UNCHANGED <<channels, mapVars, log, unread>>

\* WriteJSON to a client that is there waits until its sockets have room: there
\* is no write deadline.
WriteUpdate ==
  /\ bpc = "write"
  /\ up[target]
  /\ unread[target] < SockBuffer
  /\ unread' = [unread EXCEPT ![target] = @ + 1]
  /\ owed' = owed \ {target}
  /\ bpc' = "range"
  /\ UNCHANGED <<channels, mapVars, todo, target, log, died>>

\* The client has left and nobody has noticed: the bytes are lost.
WriteIsLost ==
  /\ bpc = "write"
  /\ ~up[target] /\ conn[target] # "gone"
  /\ bpc' = "range"
  /\ UNCHANGED <<channels, mapVars, todo, target, log, owed, unread, died>>

\* Mutant: a failed write is tried again.
WriteFails_Retries ==
  /\ bpc = "write"
  /\ ~up[target]
  /\ TouchMap
  /\ UNCHANGED <<channels, mapVars, bpc, todo, target, log, owed, unread>>

\* It fails: the connection is closed, which ends the reader, and the
\* broadcaster begins to delete the client, too.
WriteFails ==
  /\ bpc = "write"
  /\ ~up[target]
  /\ bpc' = "remove"
  /\ TouchMap
  /\ UNCHANGED <<channels, mapVars, todo, target, log, owed, unread>>

\* Mutant: the loop is left after a client was removed.
RemoveEnds_Returns ==
  /\ bpc = "remove"
  /\ wsClients' = wsClients \ {target}
  /\ bpc' = "select"
  /\ UNCHANGED <<channels, conn, up, todo, target, log, owed, unread, died>>

RemoveEnds ==
  /\ bpc = "remove"
  /\ wsClients' = wsClients \ {target}
  /\ bpc' = "range"
  /\ UNCHANGED <<channels, conn, up, todo, target, log, owed, unread, died>>

Broadcaster ==
  \/ TakeDevice \/ TakeEvent
  \/ \E c \in Clients : Visit(c)
  \/ LoopEnds
  \/ WriteUpdate
  \/ WriteIsLost
  \/ WriteFails
  \/ RemoveEnds

Connection(c) == Added(c) \/ ReaderEnds(c) \/ Removed(c)
ClientStep(c) == Connect(c) \/ ClientReads(c) \/ ClientLeaves(c)

-----------------------------------------------------------------------------
(* Properties.                                                             *)

\* A broadcast is over for a client that was in the map when it began only when
\* it was written to, or is no longer there, whoever comes and leaves meanwhile.
BroadcastsReachAll ==
  [][bpc # "select" /\ bpc' = "select" => \A c \in owed : ~up[c]]_hubVars

\* What the comments on the broadcasts promise and the code does not keep: the
\* process goes on when clients come and leave.
HubSurvives == ~died
=============================================================================
