------------------------------- MODULE UiSync -------------------------------
(***************************************************************************)
(* How the Flutter application keeps its list of devices and its list of   *)
(* events up to date: a snapshot by HTTP when a provider is made, and      *)
(* pushed updates over a WebSocket that the service reopens when it ends.  *)
(*                                                                         *)
(* The events are numbered in the order in which the server stores them.   *)
(* The server's side is abstracted from DeviceFeed: an update is stored    *)
(* and offered to both channels at once, and the updates of one device are *)
(* offered in the order in which they are stored, as DeviceFeed shows for  *)
(* one connection.  Events the dictionary does not know are left out.      *)
(*                                                                         *)
(* channel is the WebSocket of the service:                                *)
(*   "none"     no channel                                                 *)
(*   "opening"  connect has returned, the server has not yet upgraded      *)
(*   "open"     the connection is in wsClients of the server               *)
(*   "gone"     it has ended, its onDone (or onError) is still to run      *)
(* load of a provider is the await in its load method:                     *)
(*   "idle"      none                                                      *)
(*   "asked"     the request is under way to the server                    *)
(*   "answered"  the answer is under way back                              *)
(* The application is single threaded: one action is one callback.         *)
(***************************************************************************)
EXTENDS Naturals, SequencesExt

CONSTANTS
  Devices,
  Limit,      \* entries of the list of events, of the server's ring and of the
              \* application (500 in both)
  ChanSize,   \* deviceChanBuffer and eventChanBuffer
  MaxEvents,  \* bound: events
  MaxBreaks,  \* bound: times an open connection breaks
  MaxSorts    \* bound: times the user sorts the list of events

ASSUME UiAssumption ==
  /\ Limit \in Nat \ {0}
  /\ ChanSize \in Nat
  /\ MaxEvents \in Nat
  /\ MaxBreaks \in Nat
  /\ MaxSorts \in Nat

VARIABLES
  owner,        \* owner[e] is the device of event e
  deviceChan,   \* Server.deviceUpdates
  eventChan,    \* Server.eventUpdates
  channel, wire,        \* _channel, and the messages it has yet to deliver
  isConnected, timer,   \* _isConnected, and whether _reconnectTimer runs
  ppk,          \* PPKProvider: for every device the event it shows, or 0
  events,       \* EventProvider
  lost,         \* history: of the last update of each device and of the last
                \* events, those a provider was not given since its last snapshot
  undone,       \* history: of the same, those it showed and then wiped out
  underWay,     \* history: for each list, the events whose push was under way
                \* when the server took its last snapshot
  loaded,       \* history: number of events stored when the list was last put
                \* in order, by a snapshot or by the user
  breaks, sorts

feed == <<owner, deviceChan, eventChan>>
link == <<channel, wire, isConnected, timer>>
history == <<lost, undone, underWay, loaded>>
vars == <<feed, link, ppk, events, history, breaks, sorts>>

Stored == DOMAIN owner
EventIds == 1 .. MaxEvents
Messages == [type : {"ppk_update", "event_update"}, event : EventIds]
Seqs(S, n) == UNION {[1 .. k -> S] : k \in 0 .. n}

Provider(Data) ==
  [made : BOOLEAN, data : Data, load : {"idle", "asked", "answered"},
   answer : Data, error : BOOLEAN]

TypeOK ==
  /\ owner \in Seqs(Devices, MaxEvents)
  /\ deviceChan \in Seqs(EventIds, ChanSize)
  /\ eventChan \in Seqs(EventIds, ChanSize)
  /\ channel \in {"none", "opening", "open", "gone"}
  /\ wire \in Seq(Messages)
  /\ isConnected \in BOOLEAN
  /\ timer \in BOOLEAN
  /\ ppk \in Provider([Devices -> 0 .. MaxEvents])
  /\ events \in Provider(Seqs(EventIds, Limit))
  /\ lost \in [ppk : SUBSET EventIds, events : SUBSET EventIds]
  /\ undone \in [ppk : SUBSET EventIds, events : SUBSET EventIds]
  /\ underWay \in [ppk : SUBSET EventIds, events : SUBSET EventIds]
  /\ loaded \in 0 .. MaxEvents
  /\ breaks \in 0 .. MaxBreaks
  /\ sorts \in 0 .. MaxSorts

Nothing == [d \in Devices |-> 0]

\* connect has been called.
Init ==
  /\ owner = <<>>
  /\ deviceChan = <<>>
  /\ eventChan = <<>>
  /\ channel = "opening"
  /\ wire = <<>>
  /\ isConnected = TRUE
  /\ timer = FALSE
  /\ ppk = [made |-> FALSE, data |-> Nothing, load |-> "idle",
            answer |-> Nothing, error |-> FALSE]
  /\ events = [made |-> FALSE, data |-> <<>>, load |-> "idle",
               answer |-> <<>>, error |-> FALSE]
  /\ lost = [ppk |-> {}, events |-> {}]
  /\ undone = [ppk |-> {}, events |-> {}]
  /\ underWay = [ppk |-> {}, events |-> {}]
  /\ loaded = 0
  /\ breaks = 0
  /\ sorts = 0

-----------------------------------------------------------------------------
(* The server.                                                             *)

LastOf(d) ==
  LET mine == {e \in Stored : owner[e] = d}
  IN  IF mine = {} THEN 0 ELSE Max(mine)

\* handleGetPPKList: the last event of every device.
PpkSnapshot == [d \in Devices |-> LastOf(d)]

\* handleGetEvents: the ring from its current entry forward, which is the
\* newest event, the oldest one, and so on up to the last but one.
EventSnapshot ==
  LET n == Len(owner)
      oldest == IF n > Limit THEN n - Limit + 1 ELSE 1
  IN  IF n = 0 THEN <<>> ELSE <<n>> \o [i \in 1 .. n - oldest |-> oldest + i - 1]

LastUpdates == {LastOf(d) : d \in Devices}
LastEvents == {e \in Stored : e + Limit > Len(owner)}

\* History only.
LoseUpdates(lostPpk, lostEvents) ==
  lost' = [ppk |-> (lost.ppk \cup lostPpk) \cap LastUpdates',
           events |-> (lost.events \cup lostEvents) \cap LastEvents']

\* History only: what PPKProvider showed of the last updates, and no longer does.
UndoUpdates ==
  LET replaced == {ppk.data[d] : d \in {c \in Devices : ppk'.data[c] # ppk.data[c]}}
  IN  undone' = [undone EXCEPT !.ppk = @ \cup ((replaced \cap LastUpdates) \ {0})]

\* What a full channel drops.
Overflow(chan, e) == IF Len(chan) < ChanSize THEN {} ELSE {e}
Offer(chan, e) == IF Len(chan) < ChanSize THEN Append(chan, e) ELSE chan

\* UpdateDevice.
Report(d) ==
  /\ Len(owner) < MaxEvents
  /\ LET e == Len(owner) + 1 IN
       /\ owner' = Append(owner, d)
       /\ deviceChan' = Offer(deviceChan, e)
       /\ eventChan' = Offer(eventChan, e)
       /\ LoseUpdates(Overflow(deviceChan, e), Overflow(eventChan, e))
  /\ UNCHANGED <<link, ppk, events, undone, underWay, loaded, breaks, sorts>>

\* broadcastToClients: a client that is not, or no longer, connected gets
\* nothing.
Send(type, e) ==
  /\ wire' = IF channel = "open" THEN Append(wire, [type |-> type, event |-> e])
             ELSE wire
  /\ UNCHANGED <<channel, isConnected, timer>>

BroadcastPPKUpdate ==
  /\ deviceChan # <<>>
  /\ deviceChan' = Tail(deviceChan)
  /\ Send("ppk_update", Head(deviceChan))
  /\ UNCHANGED owner
  /\ LoseUpdates(IF channel = "open" THEN {} ELSE {Head(deviceChan)}, {})
  /\ UNCHANGED <<eventChan, ppk, events, undone, underWay, loaded, breaks, sorts>>

BroadcastEventUpdate ==
  /\ eventChan # <<>>
  /\ eventChan' = Tail(eventChan)
  /\ Send("event_update", Head(eventChan))
  /\ UNCHANGED owner
  /\ LoseUpdates({}, IF channel = "open" THEN {} ELSE {Head(eventChan)})
  /\ UNCHANGED <<deviceChan, ppk, events, undone, underWay, loaded, breaks, sorts>>

-----------------------------------------------------------------------------
(* The WebSocket.                                                          *)

EventsIn(msgs, type) ==
  {msgs[i].event : i \in {j \in DOMAIN msgs : msgs[j].type = type}}

\* handleWebSocket has upgraded the connection.
Upgrade ==
  /\ channel = "opening"
  /\ channel' = "open"
  /\ UNCHANGED <<feed, wire, isConnected, timer, ppk, events, history, breaks, sorts>>

\* Nobody answers at the server's address.
OpenFails ==
  /\ channel = "opening"
  /\ channel' = "gone"
  /\ UNCHANGED <<feed, wire, isConnected, timer, ppk, events, history, breaks, sorts>>

\* The connection breaks; the end of what is in flight is lost.
Break ==
  /\ channel = "open"
  /\ breaks < MaxBreaks
  /\ breaks' = breaks + 1
  /\ channel' = "gone"
  /\ UNCHANGED feed
  /\ \E n \in 0 .. Len(wire) :
       LET rest == SubSeq(wire, n + 1, Len(wire)) IN
       /\ wire' = SubSeq(wire, 1, n)
       /\ LoseUpdates(EventsIn(rest, "ppk_update"), EventsIn(rest, "event_update"))
  /\ UNCHANGED <<isConnected, timer, ppk, events, undone, underWay, loaded, sorts>>

\* Mutant: the flag is not reset.
HandleDisconnect_KeepsFlag ==
  /\ channel = "gone"
  /\ wire = <<>>
  /\ channel' = "none"
  /\ timer' = TRUE
  /\ UNCHANGED <<feed, wire, isConnected, ppk, events, history, breaks, sorts>>

\* onDone, or onError followed by it.
HandleDisconnect ==
  /\ channel = "gone"
  /\ wire = <<>>
  /\ isConnected' = FALSE
  /\ channel' = "none"
  /\ timer' = TRUE
  /\ UNCHANGED <<feed, wire, ppk, events, history, breaks, sorts>>

\* The timer fires, and connect is called.
Reconnect ==
  /\ timer
  /\ timer' = FALSE
  /\ IF isConnected THEN UNCHANGED <<channel, isConnected>>
     ELSE channel' = "opening" /\ isConnected' = TRUE
  /\ UNCHANGED <<feed, wire, ppk, events, history, breaks, sorts>>

-----------------------------------------------------------------------------
(* The providers.                                                          *)

Asks(p) == [p EXCEPT !.made = TRUE, !.load = "asked", !.error = FALSE]
Answers(p, snapshot) == [p EXCEPT !.load = "answered", !.answer = snapshot]
Takes(p, empty) ==
  [p EXCEPT !.load = "idle", !.data = p.answer, !.answer = empty, !.error = FALSE]
Fails(p, empty) ==
  [p EXCEPT !.load = "idle", !.data = empty, !.answer = empty, !.error = TRUE]

\* The provider is made when its tab is first shown, or the user retries.
MayAsk(p) == p.load = "idle" /\ (p.made => p.error)

LoadPPKList ==
  /\ MayAsk(ppk)
  /\ ppk' = Asks(ppk)
  /\ UNCHANGED <<feed, link, events, history, breaks, sorts>>

\* The answer holds everything that is stored: nothing is lost before it.
GetPPKList ==
  /\ ppk.load = "asked"
  /\ ppk' = Answers(ppk, PpkSnapshot)
  /\ lost' = [lost EXCEPT !.ppk = {}]
  /\ undone' = [undone EXCEPT !.ppk = {}]
  /\ underWay' = [underWay EXCEPT !.ppk =
                    ToSet(deviceChan) \cup EventsIn(wire, "ppk_update")]
  /\ UNCHANGED <<feed, link, events, loaded, breaks, sorts>>

\* The answer replaces what is shown, newer pushes included.
PPKListArrives ==
  /\ ppk.load = "answered"
  /\ ppk' = Takes(ppk, Nothing)
  /\ UndoUpdates
  /\ UNCHANGED <<feed, link, events, lost, underWay, loaded, breaks, sorts>>

\* Whatever was shown is gone, and the page shows the error and a retry button.
PPKListFails ==
  /\ ppk.load # "idle"
  /\ ppk' = Fails(ppk, Nothing)
  /\ UNCHANGED <<feed, link, events, history, breaks, sorts>>

LoadEvents ==
  /\ MayAsk(events)
  /\ events' = Asks(events)
  /\ UNCHANGED <<feed, link, ppk, history, breaks, sorts>>

GetEvents ==
  /\ events.load = "asked"
  /\ events' = Answers(events, EventSnapshot)
  /\ lost' = [lost EXCEPT !.events = {}]
  /\ undone' = [undone EXCEPT !.events = {}]
  /\ underWay' = [underWay EXCEPT !.events =
                    ToSet(eventChan) \cup EventsIn(wire, "event_update")]
  /\ loaded' = Len(owner)
  /\ UNCHANGED <<feed, link, ppk, breaks, sorts>>

\* Mutant: what arrives is added to what is shown.
EventsArrive_Adds ==
  /\ events.load = "answered"
  /\ events' = [events EXCEPT !.load = "idle", !.answer = <<>>, !.error = FALSE,
       !.data = LET all == @ \o events.answer
                IN  SubSeq(all, 1, IF Len(all) < Limit THEN Len(all) ELSE Limit)]
  /\ UNCHANGED <<feed, link, ppk, history, breaks, sorts>>

\* The answer replaces what is shown, newer pushes included.
EventsArrive ==
  /\ events.load = "answered"
  /\ events' = Takes(events, <<>>)
  /\ undone' = [undone EXCEPT !.events =
                  @ \cup ((ToSet(events.data) \ ToSet(events.answer)) \cap LastEvents)]
  /\ UNCHANGED <<feed, link, ppk, lost, underWay, loaded, breaks, sorts>>

EventsFail ==
  /\ events.load # "idle"
  /\ events' = Fails(events, <<>>)
  /\ UNCHANGED <<feed, link, ppk, history, breaks, sorts>>

\* The user sorts the table, which is shown while no load is awaited and none
\* has failed.  By which column decides the order, and List.sort, which is not
\* stable, the order of equal ones: it may be any.
SortEvents ==
  /\ events.load = "idle" /\ ~events.error
  /\ events.data # <<>>
  /\ sorts < MaxSorts
  /\ sorts' = sorts + 1
  /\ \E from \in Bijection(DOMAIN events.data, DOMAIN events.data) :
       events' = [events EXCEPT !.data = [i \in DOMAIN @ |-> @[from[i]]]]
  /\ loaded' = Len(owner)
  /\ UNCHANGED <<feed, link, ppk, lost, undone, underWay, breaks>>

-----------------------------------------------------------------------------
(* Pushed updates.  A broadcast stream without a listener drops them.      *)

Delivers(type) == wire # <<>> /\ Head(wire).type = type
TakeMessage == wire' = Tail(wire) /\ UNCHANGED <<channel, isConnected, timer>>

\* Mutant: a device that is in the list already is left alone.
HandlePPKUpdate_OnlyAdds ==
  /\ Delivers("ppk_update")
  /\ TakeMessage /\ UNCHANGED feed
  /\ LET e == Head(wire).event IN
       /\ ppk' = IF ppk.made /\ ppk.data[owner[e]] = 0
                 THEN [ppk EXCEPT !.data[owner[e]] = e] ELSE ppk
       /\ LoseUpdates(IF ppk.made THEN {} ELSE {e}, {})
       /\ IF e \in underWay.ppk THEN UndoUpdates ELSE UNCHANGED undone
  /\ UNCHANGED <<events, underWay, loaded, breaks, sorts>>

\* Whatever the device shows is replaced, a newer event of a snapshot included.
HandlePPKUpdate ==
  /\ Delivers("ppk_update")
  /\ TakeMessage /\ UNCHANGED feed
  /\ LET e == Head(wire).event IN
       /\ ppk' = IF ppk.made THEN [ppk EXCEPT !.data[owner[e]] = e] ELSE ppk
       /\ LoseUpdates(IF ppk.made THEN {} ELSE {e}, {})
       /\ IF e \in underWay.ppk THEN UndoUpdates ELSE UNCHANGED undone
  /\ UNCHANGED <<events, underWay, loaded, breaks, sorts>>

\* Mutant: the list is not limited.
HandleEventUpdate_NoLimit ==
  /\ Delivers("event_update")
  /\ TakeMessage /\ UNCHANGED feed
  /\ LET e == Head(wire).event IN
       /\ events' = IF events.made THEN [events EXCEPT !.data = <<e>> \o @] ELSE events
       /\ LoseUpdates({}, IF events.made THEN {} ELSE {e})
  /\ UNCHANGED <<ppk, undone, underWay, loaded, breaks, sorts>>

\* Mutant: the new event goes to the end, and the list is limited.
HandleEventUpdate_Appends ==
  /\ Delivers("event_update")
  /\ TakeMessage /\ UNCHANGED feed
  /\ LET e == Head(wire).event
         list == events.data \o <<e>>
         kept == IF Len(list) > Limit THEN SubSeq(list, 1, Limit) ELSE list
     IN  /\ events' = IF events.made THEN [events EXCEPT !.data = kept] ELSE events
         /\ LoseUpdates({}, IF events.made THEN {} ELSE {e})
  /\ UNCHANGED <<ppk, undone, underWay, loaded, breaks, sorts>>

\* The new event goes to the front, and the list is limited: its last entry is
\* cut off, whichever event that is.
HandleEventUpdate ==
  /\ Delivers("event_update")
  /\ TakeMessage /\ UNCHANGED feed
  /\ LET e == Head(wire).event
         list == <<e>> \o events.data
         kept == IF Len(list) > Limit THEN SubSeq(list, 1, Limit) ELSE list
     IN  /\ events' = IF events.made THEN [events EXCEPT !.data = kept] ELSE events
         /\ LoseUpdates({}, IF events.made THEN {} ELSE {e})
  /\ UNCHANGED <<ppk, undone, underWay, loaded, breaks, sorts>>

-----------------------------------------------------------------------------
Server ==
  \/ \E d \in Devices : Report(d)
  \/ BroadcastPPKUpdate \/ BroadcastEventUpdate
  \/ GetPPKList \/ GetEvents

Socket == Upgrade \/ OpenFails \/ Break \/ HandleDisconnect \/ Reconnect

Application ==
  \/ LoadPPKList \/ PPKListArrives \/ PPKListFails
  \/ LoadEvents \/ EventsArrive \/ EventsFail
  \/ HandlePPKUpdate \/ HandleEventUpdate
  \/ SortEvents

Next == Server \/ Socket \/ Application

Spec == Init /\ [][Next]_vars

-----------------------------------------------------------------------------
(* Properties.                                                             *)

\* The service is never left without a future: it has a channel whose end it
\* will be told of, or a timer that will open one.
NeverStranded ==
  /\ isConnected <=> channel # "none"
  /\ channel = "none" => timer

\* A provider has what it asked for, and no push is under way to it.
Settled(p, chan, type) ==
  /\ p.made /\ p.load = "idle" /\ ~p.error
  /\ chan = <<>> /\ EventsIn(wire, type) = {}

ListsLatest(excused) ==
  Settled(events, eventChan, "event_update") =>
    LastEvents \subseteq ToSet(events.data) \cup excused

\* When nothing is under way, a device is shown with an old event for one of two
\* reasons only: the update of its last event did not reach the application
\* after the snapshot, or the device did show its last event and lost it to an
\* answer made before (ppk_provider.dart:37) or to an older push that was under
\* way when the server took the snapshot (:56).  Reconnections, retries and
\* delays have no other way to spoil the list.
DevicesSettle ==
  Settled(ppk, deviceChan, "ppk_update") =>
    \A d \in Devices : LastOf(d) \in lost.ppk \cup undone.ppk \cup {ppk.data[d]}

\* When nothing is under way, an event of the last ones is missing from the list
\* only if its push did not reach the application after the snapshot, or was
\* wiped out by an answer made before it, or if the list is full and the event
\* was stored when the list was last put in order: an event pushed after that
\* is cut off only when Limit newer ones have come (event_provider.dart:51-56).
EventsSettle ==
  ListsLatest(lost.events \cup undone.events
                \cup {e \in 1 .. loaded : Len(events.data) = Limit})

\* What the documentation says and the code does not do: the list has the last
\* events (flutter_app/README.md:159), as far as they reached the application,
\* even when no push was under way at the snapshot.
LatestAreListed ==
  underWay.events = {} => ListsLatest(lost.events \cup undone.events)

\* An event is in the list twice only if its push was under way when the server
\* took the snapshot: no reload and no reconnection doubles anything else.
DoubledOnlyUnderWay ==
  \A i, j \in DOMAIN events.data :
    i # j /\ events.data[i] = events.data[j] => events.data[i] \in underWay.events
=============================================================================
