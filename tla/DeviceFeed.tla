----------------------------- MODULE DeviceFeed -----------------------------
(***************************************************************************)
(* What becomes of an event once the relay has enqueued it: UpdateDevice   *)
(* of server.go, run by many connection handlers at once, the snapshots    *)
(* the HTTP API reads, the channels the WebSocket broadcaster drains, and  *)
(* the per-device channels of GetDeviceEventChannel.                       *)
(*                                                                         *)
(* A call of UpdateDevice is named by its place in calls, which is also    *)
(* the order of the time.Now() each call begins with; 0 names no call.     *)
(* pc[h] is the control point of handler h in UpdateDevice:                *)
(*   "idle"     not in a call                                              *)
(*   "store"    has read the clock, about to take deviceMu                 *)
(*   "ring"     about to take globalMu                                     *)
(*   "device"   at the select on deviceUpdates                             *)
(*   "event"    at the select on eventUpdates                              *)
(*   "detail"   at the select on its copy of the device's channel          *)
(* A panic is recovered by handleRequest, which drops the connection; the  *)
(* handler is "idle" again for the next connection in its place.           *)
(***************************************************************************)
EXTENDS Collect

CONSTANTS
  Handlers,         \* connection handlers that can run at the same time
  Devices,          \* device numbers extractDeviceID returns
  MaxDeviceEvents,  \* maxDeviceEvents
  RingSize,         \* maxGlobalEvents
  UiBuffer,         \* deviceChanBuffer and eventChanBuffer
  DetailBuffer,     \* detailChanBuffer
  Codes,            \* the codes events carry
  Described,        \* the codes the event dictionary describes
  MaxUpdates,       \* bound: calls of UpdateDevice
  MaxChannels       \* bound: calls of GetDeviceEventChannel that make one

ASSUME FeedAssumption ==
  /\ MaxDeviceEvents \in Nat \ {0}
  /\ RingSize \in Nat \ {0}
  /\ UiBuffer \in Nat \ {0}
  /\ DetailBuffer \in Nat \ {0}
  /\ MaxUpdates \in Nat
  /\ MaxChannels \in Nat

VARIABLES
  calls,          \* the calls of UpdateDevice so far, in order of time.Now()
  pc,             \* control point of each handler
  cur,            \* the call each handler is in
  ch,             \* deviceEventCh, the channel copied under the lock; 0 is nil
  events,         \* Device.Events of each device
  last,           \* Device.LastEvent, LastEventTime; 0 when there is no device
  ring,           \* the values of globalEventsRing
  top,            \* where s.globalEventsRing points
  deviceUpdates,  \* the channel of device updates
  eventUpdates,   \* the channel of global events
  closed,         \* which of the two closeChannels has closed
  chanOf,         \* deviceEventChans; 0 when the device has no entry
  detail,         \* what is in each per-device channel
  detailClosed,   \* the per-device channels that have been closed
  opened,         \* number of per-device channels made
  storeLog,       \* history: the calls that updated a device, in order
  ringLog,        \* history: the calls that inserted into the ring, in order
  shownDevices,   \* history: device updates broadcast to WebSocket clients
  shownEvents,    \* history: event updates broadcast to WebSocket clients
  zeroShown,      \* history: an empty Device has been broadcast
  panicked,       \* history: the calls that panicked
  owed,           \* history: the calls that updated a device while the channel
                  \* was in deviceEventChans for it
  detailSeen      \* history: what the subscriber took from each channel

storeVars == <<events, last, storeLog>>
ringVars == <<ring, top, ringLog>>
uiVars == <<deviceUpdates, eventUpdates, shownDevices, shownEvents, zeroShown>>
detailVars == <<chanOf, detail, detailClosed, opened, owed, detailSeen>>
vars == <<calls, pc, cur, ch, storeVars, ringVars, uiVars, closed, detailVars,
          panicked>>

Updates == 1 .. MaxUpdates
Channels == 1 .. MaxChannels
Rings == 0 .. RingSize - 1
Call == [by : Handlers, dev : Devices, code : Codes]

CallsOK ==
  /\ calls \in Seq(Call) /\ Len(calls) <= MaxUpdates
  /\ pc \in [Handlers -> {"idle", "store", "ring", "device", "event", "detail"}]
  /\ cur \in [Handlers -> Updates \cup {0}]
  /\ ch \in [Handlers -> Channels \cup {0}]
  /\ panicked \in SUBSET Updates

StoreOK ==
  /\ events \in [Devices -> Seq(Updates)]
  /\ last \in [Devices -> Updates \cup {0}]
  /\ storeLog \in [Devices -> Seq(Updates)]

RingOK ==
  /\ ring \in [Rings -> Updates \cup {0}]
  /\ top \in Rings
  /\ ringLog \in Seq(Updates)

UiOK ==
  /\ deviceUpdates \in Seq(Updates) /\ Len(deviceUpdates) <= UiBuffer
  /\ eventUpdates \in Seq(Updates) /\ Len(eventUpdates) <= UiBuffer
  /\ shownDevices \in Seq(Updates) /\ shownEvents \in Seq(Updates)
  /\ zeroShown \in BOOLEAN
  /\ closed \in SUBSET {"device", "event"}

DetailOK ==
  /\ chanOf \in [Devices -> Channels \cup {0}]
  /\ detail \in [Channels -> Seq(Updates)]
  /\ \A c \in Channels : Len(detail[c]) <= DetailBuffer
  /\ detailClosed \in SUBSET Channels
  /\ opened \in Channels \cup {0}
  /\ owed \in [Channels -> SUBSET Updates]
  /\ detailSeen \in [Channels -> Seq(Updates)]

TypeOK == CallsOK /\ StoreOK /\ RingOK /\ UiOK /\ DetailOK

Init ==
  /\ calls = <<>>
  /\ pc = [h \in Handlers |-> "idle"]
  /\ cur = [h \in Handlers |-> 0]
  /\ ch = [h \in Handlers |-> 0]
  /\ events = [d \in Devices |-> <<>>]
  /\ last = [d \in Devices |-> 0]
  /\ ring = [i \in Rings |-> 0]
  /\ top = 0
  /\ deviceUpdates = <<>> /\ eventUpdates = <<>>
  /\ closed = {}
  /\ chanOf = [d \in Devices |-> 0]
  /\ detail = [c \in Channels |-> <<>>]
  /\ detailClosed = {}
  /\ opened = 0
  /\ storeLog = [d \in Devices |-> <<>>]
  /\ ringLog = <<>>
  /\ shownDevices = <<>> /\ shownEvents = <<>> /\ zeroShown = FALSE
  /\ panicked = {}
  /\ owed = [c \in Channels |-> {}]
  /\ detailSeen = [c \in Channels |-> <<>>]

-----------------------------------------------------------------------------
(* UpdateDevice, up to the snapshots. *)

\* The last n elements of s.
KeepLast(s, n) == IF Len(s) > n THEN SubSeq(s, Len(s) - n + 1, Len(s)) ELSE s

\* handleRequest calls UpdateDevice, which reads the clock before it takes the
\* lock.
Begin(h, d, code) ==
  /\ pc[h] = "idle"
  /\ Len(calls) < MaxUpdates
  /\ calls' = Append(calls, [by |-> h, dev |-> d, code |-> code])
  /\ cur' = [cur EXCEPT ![h] = Len(calls) + 1]
  /\ pc' = [pc EXCEPT ![h] = "store"]
  /\ UNCHANGED <<ch, storeVars, ringVars, uiVars, closed, detailVars, panicked>>

\* Under deviceMu: the device and its bounded history, and the copy of the
\* device's channel.
Store(h) ==
  LET u == cur[h]
      d == calls[u].dev
  IN  /\ pc[h] = "store"
      /\ events' = [events EXCEPT ![d] = KeepLast(Append(@, u), MaxDeviceEvents)]
      /\ last' = [last EXCEPT ![d] = u]
      /\ storeLog' = [storeLog EXCEPT ![d] = Append(@, u)]
      /\ ch' = [ch EXCEPT ![h] = chanOf[d]]
      /\ owed' = [c \in Channels |-> owed[c] \cup (IF c = chanOf[d] THEN {u} ELSE {})]
      /\ pc' = [pc EXCEPT ![h] = "ring"]
      /\ UNCHANGED <<calls, cur, ringVars, uiVars, closed, chanOf, detail,
                     detailClosed, opened, detailSeen, panicked>>

\* Mutant: a slot more than the ring has.
InsertRing_NoWrap(h) ==
  /\ pc[h] = "ring"
  /\ top' = (top + 1) % (RingSize + 1)
  /\ ring' = [ring EXCEPT ![top'] = cur[h]]
  /\ ringLog' = Append(ringLog, cur[h])
  /\ pc' = [pc EXCEPT ![h] = "device"]
  /\ UNCHANGED <<calls, cur, ch, storeVars, uiVars, closed, detailVars, panicked>>

\* Mutant: the value is written before the ring is advanced.
InsertRing_WritesFirst(h) ==
  /\ pc[h] = "ring"
  /\ ring' = [ring EXCEPT ![top] = cur[h]]
  /\ top' = (top + 1) % RingSize
  /\ ringLog' = Append(ringLog, cur[h])
  /\ pc' = [pc EXCEPT ![h] = "device"]
  /\ UNCHANGED <<calls, cur, ch, storeVars, uiVars, closed, detailVars, panicked>>

\* Mutant: TryLock, and no insertion when another handler is about to insert.
InsertRing_TryLock(h) ==
  LET free == \A g \in Handlers \ {h} : pc[g] # "ring"
  IN  /\ pc[h] = "ring"
      /\ top' = IF free THEN (top + 1) % RingSize ELSE top
      /\ ring' = IF free THEN [ring EXCEPT ![top'] = cur[h]] ELSE ring
      /\ ringLog' = IF free THEN Append(ringLog, cur[h]) ELSE ringLog
      /\ pc' = [pc EXCEPT ![h] = "device"]
      /\ UNCHANGED <<calls, cur, ch, storeVars, uiVars, closed, detailVars,
                     panicked>>

\* Under globalMu: advance the ring, then overwrite its oldest value.
InsertRing(h) ==
  /\ pc[h] = "ring"
  /\ top' = (top + 1) % RingSize
  /\ ring' = [ring EXCEPT ![top'] = cur[h]]
  /\ ringLog' = Append(ringLog, cur[h])
  /\ pc' = [pc EXCEPT ![h] = "device"]
  /\ UNCHANGED <<calls, cur, ch, storeVars, uiVars, closed, detailVars, panicked>>

-----------------------------------------------------------------------------
(* UpdateDevice, the sends: a select with default sends when there is room,  *)
(* drops when there is none, and panics on a closed channel.                 *)

\* The call is left, by its last statement or by a panic.
Leave(h) ==
  /\ pc' = [pc EXCEPT ![h] = "idle"]
  /\ cur' = [cur EXCEPT ![h] = 0]
  /\ ch' = [ch EXCEPT ![h] = 0]

Panic(h) ==
  /\ Leave(h)
  /\ panicked' = panicked \cup {cur[h]}

\* Mutant: a plain send, without the default branch.
SendDevice_Blocks(h) ==
  /\ pc[h] = "device"
  /\ UNCHANGED <<calls, storeVars, ringVars, eventUpdates, shownDevices,
                 shownEvents, zeroShown, closed, detailVars>>
  /\ IF "device" \in closed
       THEN Panic(h) /\ UNCHANGED deviceUpdates
       ELSE /\ Len(deviceUpdates) < UiBuffer
            /\ pc' = [pc EXCEPT ![h] = "event"]
            /\ deviceUpdates' = Append(deviceUpdates, cur[h])
            /\ UNCHANGED <<cur, ch, panicked>>

\* Mutant: sends the device, not the copy made under the lock.
SendDevice_Shared(h) ==
  /\ pc[h] = "device"
  /\ UNCHANGED <<calls, storeVars, ringVars, eventUpdates, shownDevices,
                 shownEvents, zeroShown, closed, detailVars>>
  /\ IF "device" \in closed
       THEN Panic(h) /\ UNCHANGED deviceUpdates
       ELSE /\ pc' = [pc EXCEPT ![h] = "event"]
            /\ deviceUpdates' =
                 IF Len(deviceUpdates) < UiBuffer
                 THEN Append(deviceUpdates, last[calls[cur[h]].dev])
                 ELSE deviceUpdates
            /\ UNCHANGED <<cur, ch, panicked>>

\* Mutant: closing only sets a flag that a handler under way does not look at.
SendDevice_AfterClose(h) ==
  /\ pc[h] = "device"
  /\ UNCHANGED <<calls, storeVars, ringVars, eventUpdates, shownDevices,
                 shownEvents, zeroShown, closed, detailVars>>
  /\ pc' = [pc EXCEPT ![h] = "event"]
  /\ deviceUpdates' = IF Len(deviceUpdates) < UiBuffer
                      THEN Append(deviceUpdates, cur[h])
                      ELSE deviceUpdates
  /\ UNCHANGED <<cur, ch, panicked>>

\* deviceUpdates <- deviceCopy
SendDevice(h) ==
  /\ pc[h] = "device"
  /\ UNCHANGED <<calls, storeVars, ringVars, eventUpdates, shownDevices,
                 shownEvents, zeroShown, closed, detailVars>>
  /\ IF "device" \in closed
       THEN Panic(h) /\ UNCHANGED deviceUpdates
       ELSE /\ pc' = [pc EXCEPT ![h] = "event"]
            /\ deviceUpdates' = IF Len(deviceUpdates) < UiBuffer
                                THEN Append(deviceUpdates, cur[h])
                                ELSE deviceUpdates
            /\ UNCHANGED <<cur, ch, panicked>>

\* eventUpdates <- globalEvent; a call without a channel of its device ends.
SendEvent(h) ==
  /\ pc[h] = "event"
  /\ UNCHANGED <<calls, storeVars, ringVars, deviceUpdates, shownDevices,
                 shownEvents, zeroShown, closed, detailVars>>
  /\ IF "event" \in closed
       THEN Panic(h) /\ UNCHANGED eventUpdates
       ELSE /\ eventUpdates' = IF Len(eventUpdates) < UiBuffer
                               THEN Append(eventUpdates, cur[h])
                               ELSE eventUpdates
            /\ IF ch[h] = 0
                 THEN Leave(h)
                 ELSE pc' = [pc EXCEPT ![h] = "detail"] /\ UNCHANGED <<cur, ch>>
            /\ UNCHANGED panicked

\* Mutant: looks the channel up when it sends, not when it stored the event.
SendDetail_LooksUp(h) ==
  LET c == chanOf[calls[cur[h]].dev]
  IN  /\ pc[h] = "detail"
      /\ UNCHANGED <<calls, storeVars, ringVars, uiVars, closed, chanOf,
                     detailClosed, opened, owed, detailSeen, panicked>>
      /\ Leave(h)
      /\ detail' = [x \in Channels |->
                      IF x = c /\ Len(detail[x]) < DetailBuffer
                      THEN Append(detail[x], cur[h]) ELSE detail[x]]

\* deviceEventCh <- event, on the channel copied in Store.
SendDetail(h) ==
  LET c == ch[h]
  IN  /\ pc[h] = "detail"
      /\ UNCHANGED <<calls, storeVars, ringVars, uiVars, closed, chanOf,
                     detailClosed, opened, owed, detailSeen>>
      /\ IF c \in detailClosed
           THEN Panic(h) /\ UNCHANGED detail
           ELSE /\ Leave(h)
                /\ detail' = IF Len(detail[c]) < DetailBuffer
                             THEN [detail EXCEPT ![c] = Append(@, cur[h])]
                             ELSE detail
                /\ UNCHANGED panicked

UpdateDevice(h) ==
  \/ Store(h)
  \/ InsertRing(h)
  \/ SendDevice(h)
  \/ SendEvent(h)
  \/ SendDetail(h)

-----------------------------------------------------------------------------
(* The other parties. *)

\* Run's closeChannels, once the context is cancelled.  No handler is waited
\* for: Stop waits for them while Run closes.
CloseDeviceUpdates ==
  /\ closed = {}
  /\ closed' = {"device"}
  /\ UNCHANGED <<calls, pc, cur, ch, storeVars, ringVars, uiVars, detailVars,
                 panicked>>

CloseEventUpdates ==
  /\ closed = {"device"}
  /\ closed' = {"device", "event"}
  /\ UNCHANGED <<calls, pc, cur, ch, storeVars, ringVars, uiVars, detailVars,
                 panicked>>

\* The broadcaster of main takes a device update.  From a closed and drained
\* channel it gets an empty Device, at once and every time.
BroadcastDevice ==
  /\ \/ /\ deviceUpdates # <<>>
        /\ shownDevices' = Append(shownDevices, Head(deviceUpdates))
        /\ deviceUpdates' = Tail(deviceUpdates)
        /\ UNCHANGED zeroShown
     \/ /\ deviceUpdates = <<>>
        /\ "device" \in closed
        /\ zeroShown' = TRUE
        /\ UNCHANGED <<deviceUpdates, shownDevices>>
  /\ UNCHANGED <<calls, pc, cur, ch, storeVars, ringVars, eventUpdates,
                 shownEvents, closed, detailVars, panicked>>

\* The broadcaster takes an event and broadcasts it if the dictionary knows
\* its code.  An empty event has no 20 bytes of data and is skipped.
BroadcastEvent ==
  /\ eventUpdates # <<>>
  /\ eventUpdates' = Tail(eventUpdates)
  /\ shownEvents' = IF calls[Head(eventUpdates)].code \in Described
                    THEN Append(shownEvents, Head(eventUpdates))
                    ELSE shownEvents
  /\ UNCHANGED <<calls, pc, cur, ch, storeVars, ringVars, deviceUpdates,
                 shownDevices, zeroShown, closed, detailVars, panicked>>

\* GetDeviceEventChannel makes a channel for a device that has none.
OpenChannel(d) ==
  /\ chanOf[d] = 0
  /\ opened < MaxChannels
  /\ opened' = opened + 1
  /\ chanOf' = [chanOf EXCEPT ![d] = opened + 1]
  /\ UNCHANGED <<calls, pc, cur, ch, storeVars, ringVars, uiVars, closed, detail,
                 detailClosed, owed, detailSeen, panicked>>

\* CloseDeviceEventChannel.
CloseChannel(d) ==
  /\ chanOf[d] # 0
  /\ detailClosed' = detailClosed \cup {chanOf[d]}
  /\ chanOf' = [chanOf EXCEPT ![d] = 0]
  /\ UNCHANGED <<calls, pc, cur, ch, storeVars, ringVars, uiVars, closed, detail,
                 opened, owed, detailSeen, panicked>>

\* The subscriber takes an event from a channel it was given.
TakeDetail(c) ==
  /\ detail[c] # <<>>
  /\ detailSeen' = [detailSeen EXCEPT ![c] = Append(@, Head(detail[c]))]
  /\ detail' = [detail EXCEPT ![c] = Tail(@)]
  /\ UNCHANGED <<calls, pc, cur, ch, storeVars, ringVars, uiVars, closed, chanOf,
                 detailClosed, opened, owed, panicked>>

Next ==
  \/ \E h \in Handlers, d \in Devices, code \in Codes : Begin(h, d, code)
  \/ \E h \in Handlers : UpdateDevice(h)
  \/ CloseDeviceUpdates
  \/ CloseEventUpdates
  \/ BroadcastDevice
  \/ BroadcastEvent
  \/ \E d \in Devices : OpenChannel(d)
  \/ \E d \in Devices : CloseChannel(d)
  \/ \E c \in Channels : TakeDetail(c)

Spec == Init /\ [][Next]_vars

\* A running goroutine is scheduled.  Nothing is assumed of the broadcaster,
\* which runs only when HTTP is enabled and may hang in a WebSocket write, nor
\* of a subscriber.
FairSpec == Spec /\ \A h \in Handlers : WF_vars(UpdateDevice(h))

-----------------------------------------------------------------------------
(* What the HTTP API reads. *)

\* Mutant: the walk starts behind the newest value and stops on reaching it.
GetGlobalEvents_StartsNext ==
  Collect([i \in 1 .. RingSize - 1 |-> ring[(top + i) % RingSize]], Updates)

\* The ring from where it points and once around.
Walk == [i \in 1 .. RingSize |-> ring[(top + i - 1) % RingSize]]

\* Its values; a slot that was never written has none.
GetGlobalEvents == Collect(Walk, Updates)

\* handleGetEvents: the events the dictionary knows, in the same order.
ApiEvents ==
  Collect(GetGlobalEvents, {u \in 1 .. Len(calls) : calls[u].code \in Described})

-----------------------------------------------------------------------------
(* Properties. *)

Elems(s) == {s[i] : i \in 1 .. Len(s)}

\* In s, the calls of one handler stand in the order it made them, none twice.
InCallOrder(s, cs) ==
  \A i, j \in 1 .. Len(s) : i < j /\ cs[s[i]].by = cs[s[j]].by => s[i] < s[j]

\* However the handlers interleave and whatever is dropped, the events of one
\* connection never overtake each other and none appears twice: not in the
\* history of a device, in the ring, in what the broadcaster sends to the UI or
\* in what a subscriber receives.
OrderPerHandler ==
  /\ \A d \in Devices : InCallOrder(events[d], calls)
  /\ InCallOrder(ringLog, calls)
  /\ InCallOrder(shownDevices \o deviceUpdates, calls)
  /\ InCallOrder(shownEvents \o eventUpdates, calls)
  /\ \A c \in Channels : InCallOrder(detailSeen[c] \o detail[c], calls)

\* A call that is over left its event with its device and in the ring, also
\* when it dropped updates or panicked on a channel that was closed under it.
EndedAreStored ==
  \A u \in 1 .. Len(calls) :
    (\A h \in Handlers : cur[h] # u) =>
      u \in Elems(storeLog[calls[u].dev]) /\ u \in Elems(ringLog)

\* GET /api/ppk shows the last event stored for a device, and
\* GET /api/ppk/{id}/events the last MaxDeviceEvents of them; GET /api/events
\* reads the last RingSize events of all devices, none twice and none missing,
\* the newest first and the others from the oldest on.
SnapshotsAreLatest ==
  /\ \A d \in Devices :
       /\ events[d] = KeepLast(storeLog[d], MaxDeviceEvents)
       /\ last[d] = IF storeLog[d] = <<>> THEN 0 ELSE storeLog[d][Len(storeLog[d])]
  /\ LET latest == KeepLast(ringLog, RingSize)
         n == Len(latest)
     IN  GetGlobalEvents = IF n = 0 THEN <<>>
                           ELSE <<latest[n]>> \o SubSeq(latest, 1, n - 1)

\* A client that is pushed an event finds it in what GET /api/events returns
\* from then on, until RingSize later events have displaced it.
PushesAreInSnapshots ==
  \A u \in Elems(shownEvents) :
    \/ u \in Elems(ApiEvents)
    \/ \E i \in 1 .. Len(ringLog) - RingSize : ringLog[i] = u

\* A subscriber of a device is sent events of that device only, and only those
\* stored between its subscription and its end: an update that was under way
\* when the subscription began cannot slip into it.
SubscriptionIsExact ==
  \A c \in Channels : Elems(detailSeen[c] \o detail[c]) \subseteq owed[c]

\* UpdateDevice returns, though nobody may be draining its channels: a handler
\* is never held up, before it has answered its panel, by the user interface.
UpdateReturns == \A h \in Handlers : pc[h] # "idle" ~> pc[h] = "idle"

\* The empty devices, which the broadcaster sends without end once its channel
\* is closed, come last: every update the channel took went out before the first
\* of them, whatever handlers were in the middle of a send.
EmptiesComeLast == zeroShown => "device" \in closed /\ deviceUpdates = <<>>
=============================================================================
