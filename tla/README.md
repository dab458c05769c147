# Verification of the CID retranslator

The program takes alarm reports (Contact ID frames over TCP) from security
panels, rewrites the account number, forwards them to a monitoring station over
one TCP connection and passes the station's ACK or NACK back to the panel. Next
to that relay it keeps a list of devices and recent events, serves them over
HTTP and WebSocket, and a Flutter application shows them.

This directory holds TLA+ models of that program, TLC configurations that check
them on small instances, and TLAPS proofs for every instance.

## 1. Inventory

| Component | State | Operations | Interacts with |
|---|---|---|---|
| Panel server `server/server.go` | per connection: read buffer, write deadline; per server: listener, device map, event ring, UI channels | accept, read, split, heartbeat, refuse, enqueue, relay a status, time out, close | queue (Enqueue), reply channels, device feed, context |
| Queue `queue/queue.go` | `DataChannel`, one reply channel per message | Enqueue (never blocks), Events, Close (never called) | server and client |
| Station client `client/client.go` | connection, backoff delay, message in hand, counters | dial, back off, take, write, read the reply, send the status, redial | queue, station, metrics, context |
| Application `core/core.go` | context, wait group, log ring | Startup, Shutdown, logs | everything |
| Device feed `server/server.go` | devices, last-active times, ring of global events, `deviceUpdates`, `eventUpdates`, channels per device | UpdateDevice, Get*, CloseDeviceEventChannel, closeChannels | handlers, HTTP API, broadcaster |
| CID parsing `cidparser/` | none | IsMessageValid, IsHeartBeat, ChangeAccountNumber | server |
| HTTP API and hub `server/api.go` | WebSocket clients, configuration | REST reads, PUT of the configuration, broadcast | device feed, configuration, UI |
| Entry point `main_headless.go` | signal channel, own context | start, broadcaster, signals, shutdown | application, API |
| Configuration `config/` | file and memory | New, load, Save | entry point, API |
| Metrics `metrics/` | atomic counters, connection flag | Increment*, SetConnected, Snapshot, Reset | client, API |
| Flutter application `flutter_app/lib/` | lists of devices and events, WebSocket state | load, merge updates, reconnect | HTTP API |
| `ratelimiter/`, `models/`, `main.1go` | | | used by nothing that is compiled |

What is hard in it:

* Concurrency: a goroutine per panel, one for the client, Go channels between
  them, a timeout on every wait. A panel's handler and the client agree on the
  fate of a message only through the reply channel, and either may leave early.
* Failure: the panel's and the station's connections break at any point; replies
  are late, or never come. The station's protocol has no message number: a reply
  is matched to a message by its place only.
* Shutdown: the context is cancelled while messages are in every stage.
* The UI sees state through bounded channels that drop updates, and through
  snapshots that race with those updates.

What makes each part correct: an ACK means that the station accepted that very
report; a status is never credited to another report; a report is not delivered
twice by the relay itself; no goroutine is held up by another that has left; every
report is concluded and every queued one taken; shutdown completes; counters
lie between what panels were told and what the station decided. `PROJECT.json`
lists the hazards, each at its line, with the property that covers it.

## 2. Modules

| Module | Models | Built on |
|---|---|---|
| `RelayShared` | the queue, the reply channels, the context | |
| `PanelServer` | panel connections and their handlers | `RelayShared` |
| `StationClient` | the client goroutine, the station, the connection | `RelayShared` |
| `Relay` | the composition; all relay properties; the refinement mapping | `PanelServer`, `StationClient`, `Delivery` |
| `Delivery` | abstract specification of what is promised about a message | |
| `RelayProofs` | theorems about `Relay`: types, verdicts, backoff, a report is relayed once and its reply finds room | `Relay`, `CollectProofs` |
| `DeliveryProofs` | `Relay` implements `Delivery`; the counters and the silence | `RelayProofs` |
| `MCRelay` | instances for TLC | `Relay` |
| `Collect` | what a loop that appends some of the elements it passes has built; the counts of `Relay` and the snapshots of `DeviceFeed` | |
| `CollectProofs` | lemmas about `Collect`, and induction over the naturals | `Collect`, `WellFoundedInduction`, `TLAPS` |
| `DeviceFeed` | `UpdateDevice` by concurrent handlers, the ring, the UI channels and the broadcaster, the channels of single devices, the snapshots of the HTTP API | |
| `DeviceFeedProofs` | theorems about `DeviceFeed` | `DeviceFeed`, `CollectProofs` |
| `MCDeviceFeed` | instances for TLC | `DeviceFeed` |
| `AppLifecycle` | start, signals and shutdown of the process, the two `WaitGroup`s | |
| `AppLifecycleProofs` | theorems about `AppLifecycle` | `AppLifecycle`, `TLAPS` |
| `MCAppLifecycle` | instances for TLC | `AppLifecycle` |
| `ConfigStore` | `config.yaml`, its copies in memory, the PUT handler, the settings page | |
| `ConfigStoreProofs` | theorems about `ConfigStore` | `ConfigStore`, `TLAPS` |
| `MCConfigStore` | instances for TLC | `ConfigStore` |
| `UiSync` | the Flutter lists of devices and events, and the WebSocket service | |
| `UiSyncProofs` | theorems about `UiSync` | `UiSync`, `CollectProofs` |
| `MCUiSync` | instances for TLC | `UiSync` |
| `CidRules` | the rules of `cidparser.go` on frames, and what the readers of a rewritten frame cut out of it | |
| `PanelStream` | a connection of a panel byte by byte: chunks, buffer, splitting, the fate of a frame | `CidRules` |
| `WsHub` | the map of WebSocket clients, its writers, the loop of a broadcast | `CidRules` |
| `EventPath` | the composition: from the bytes of a panel to the WebSocket clients | `PanelStream`, `WsHub` |
| `EventPathProofs` | theorems about `EventPath` | `EventPath`, `CollectProofs` |
| `MCEventPath` | instances for TLC | `EventPath` |

`DeviceFeed` opens up the single action `UpdateDevice` of `PanelServer`: there a
call either completes or panics on the closed channels, here it is the steps
between the locks and the sends. `UiSync` in turn takes a call as one step (stored
and offered to both channels) and looks at what becomes of it in the application.
`AppLifecycle` opens up the single step `Cancel` of `Relay`. `PanelStream` opens up
the whole frames of `PanelServer`, and answers each in one step; `EventPath` puts it
before the channels and the hub, with `UpdateDevice` as one step between them. The
modules of different rows, `EventPath` and its parts aside, have
no common state, so they are not composed: each states what it takes from the
other, and the other checks it (`OrderPerHandler`, `EndedAreStored` for `UiSync`,
`ShutdownCompletes` for the handlers of `AppLifecycle`).

### How the state corresponds to the code

A *message* is one frame sent once by one panel; a panel that repeats a report
sends another message. Contents are abstracted to the three outcomes the handler
tells apart: `Events` (valid, forwarded), `Heartbeats` (answered at once) and
`Malformed` (empty, wrong length or prefix, bad account: refused).

* `dataChannel` is `Queue.DataChannel`. With `BufferSize = 0` the channel is
  unbuffered: an `Enqueue` succeeds only when the client is parked at its select
  (`Parked`), and a message that stands in `dataChannel` has been handed over, so
  the client can take no other branch (`HandedOver`).
* `replyCh[m]`, `replyClosed` are the channel made for a message.
* `hpc[p]` is the control point of the handler goroutine of panel `p`; `wire`,
  `buffer`, `cur` are the frames in the socket, in the local buffer, and the event
  whose status is awaited. `wdl` follows the write deadline, which the code sets
  in one place and never clears. `listening` says that the listener is open: panels
  connect as long as it is, also after the context was cancelled, and only
  `Server.Stop` closes it (`CloseListener`), some time after that or, on SIGQUIT, never.
* `cpc` is the control point of the client goroutine; `ccur` and `cstatus` are its
  local variables; `linkUp`, `toStation`, `fromStation` are the TCP connection.
  What is in flight when the connection is given up goes to `orphans`: it may
  still reach the station, but its answer is never read.
* `sent`, `sentLog`, `answer`, `stationLog` are history variables.

One action is one stretch of code between two waits. The frames of a chunk
are handled one per action, each with the answer it gets. The single byte of
`ReadTimeout`, a NACK that answers no frame, is not recorded.

The panels may connect, send, hang up and connect again at any time. The station
answers, late or never, accepting or rejecting. Both connections break at any
time. Any timeout may fire whenever the goroutine waits: this covers every
relation between the durations but two, that `readTimeout` (60 s) and
`replyTimeout` (10 s) are no shorter than `writeTimeout` (10 s), which is used
for the write deadline.

In `DeviceFeed` a call of `UpdateDevice` is named by its number in `calls`, the
order in which the calls read the clock; everything the code copies from a call
(time, device number, data) is that number. `pc[h]` is the control point of a
handler, `ch[h]` the channel it copied under the lock. `events`, `last`, `ring`,
`top`, `deviceUpdates`, `eventUpdates`, `chanOf` are the fields of `Server`;
`storeLog`, `ringLog`, `shownDevices`, `shownEvents`, `detailSeen`, `owed`,
`panicked` are history variables. One action is one critical section or one
`select`. The two channels close in two steps. Sends on a closed channel panic,
the handler is gone with its connection, and a new one may take its place. The
calls of `GetDeviceEventChannel` and `CloseDeviceEventChannel`, which
`core.App` offers but the headless program does not make, are bounded by
`MaxChannels`; with 0 the model is the program as it ships.

In `AppLifecycle`, `main` is the control point of the main goroutine, and `conn[c]`
that of a connection between the kernel, `acceptConnections` and its handler.
`appWg` is the counter of `App.wg`; `counted` is that of `Server.wg`, kept as the
set of connections it counts. `waiter` is the goroutine that `Stop` starts. The
panics of `sync.WaitGroup` on an `Add` that meets a `Wait` are in the model: `Add`
panics in `acceptConnections`, which recovers (`StartHandler`), the last `Done`
panics after its handler's recover has run (`ReleaseWaiter`), and `Wait` panics in
a goroutine without one (`WaitReturns`). The reads of `s.cancel` and `s.listener`
in `Stop` race with their writes in `Run`; each is one step. `Client.Stop` uses the
client's connection without a lock (client.go:160-161), while the client replaces it:
it may close an old one or none. That is left out, as the cancelled context ends the
client without it.

In `ConfigStore`, `proc` is the control point of the process, `put[r]` the request
that requester `r` has in the PUT handler, `file` is `config.yaml`, `memory` is
`s.config` (main's copy) and `relayConfig` the copy `NewApp` loads for the relay;
`app` is `ConfigProvider`. The sections of a configuration are flattened into one
field of each kind the JSON conversions tell apart. `os.WriteFile` is two steps
(the file is truncated, then written), a crash may come between any two steps,
and the struct copy in the handler is one step per field. A file that holds the end
of a longer text behind a shorter one may by luck be YAML; the model takes the
outcome that stops the program. A write that fails, or in which the process dies, may
leave any part of the text (`Partial`): nothing, one that does not parse, or one that
does and lacks fields, the value at the cut perhaps shortened. `overlapped`,
`writeFailed` and `interrupted` are history variables. They are in the properties
because without them the code does violate these: two PUTs that overlap can leave one
configuration in the file and the other, or a mixture, in memory, and after a write
that was cut short New may find a text it cannot parse, or take a part for the
whole. `relayConfig` is what server, client and queue are given; that `NewApp`
replaces the name of the log file in its copy (core.go:59-72) is left out.

In `UiSync`, `channel` and `wire` are the WebSocket of the service, `isConnected` and
`timer` its fields, `ppk` and `events` the two providers with the await of their load
(`load`) and the answer on its way (`answer`). Events are numbers in the order in which
they are stored. Four history variables say why something is missing: `lost` has the
updates that did not reach the provider after its last snapshot, `undone` those it
showed and then wiped out by an answer or an older push, `underWay` those whose push
was under way when the snapshot was taken, and `loaded` how many events were stored
when the list of events was last put in order. The user may sort the list by any
column, so `SortEvents` leaves it in any order. The server does not restart, and
connections of other clients are left out.

In `CidRules` a frame is a sequence of cells: the four characters of the account
are a cell each, the receiver, line, code, group and zone, which the program only
compares or copies, are one each. Lengths and limits are counted in cells: the 20
bytes of an event are 9. `Atoi` and `FormatAccount` are modelled by what they do, signs
and overlong results included: an account shifted beyond 9999 takes a fifth
character, and every reader of the rewritten frame is off by one.

In `PanelStream`, `stream` is all a panel sends on a connection and `pos` how much of
it has been read; `buffer` is the variable of the handler. `handled` is a history
variable: each frame taken from `buffer`, the place of its terminator in `stream`,
and its fate. A frame that is valid is enqueued or meets a full queue, either way.

In `WsHub`, `wsClients` is the map's set of keys, `deviceUpdates` and `eventUpdates` the
channels before the broadcaster; `conn[c]` and `bpc` are the control points of a
client's handler and reader and of the broadcaster. A map operation that changes the
map is two steps, so that another can meet it: that ends the process (`died`), as
the Go runtime does when it notices. `unread[c]` is what the sockets of a client hold:
there is no write deadline, and a write to a full socket waits. A write to a client
that has left may be lost before one fails. `log` and `owed` are history variables.
`UpdateDevice` offers its event to both channels in one step, and a client connects
once; one that returns is another client. For an event the dictionary does not
describe nothing is broadcast (`Described`).

External code is modelled from its use: TCP (`net.Conn`) loses what is in flight
when it breaks and never reorders; the station answers the messages of one
connection in order with one byte each, as `readReply` takes for granted.

## 3. Runs

| Run | Instance | Question |
|---|---|---|
| `relay_two` | 2 panels, 2 events, buffer 1, backoff from 2 to a ceiling of 3 | contention for the queue; the safety invariants |
| `relay_kinds` | 1 panel; event, heartbeat, malformed frame; buffer 0 (`config.yaml`'s setting), fairness | silence, refinement for every kind of frame, shutdown while the panel reconnects |
| `relay_live` | 1 panel, 2 events, buffer 1, fairness | frames are concluded and the queue drained, with late statuses and a later event |
| `feed_order` | 2 handlers, 2 devices, known and unknown codes, 3 calls, ring and history of 2, buffers of 1 | order, completeness and snapshots under interleaving, drops and shutdown |
| `feed_details` | 2 handlers, 1 device, 2 calls, 2 channels, fairness | subscriptions closed and reopened under way; `UpdateDevice` returns |
| `app_life` | 3 panels, fairness | shutdown at any moment of the start; what is waited for |
| `config_store` | 2 clients with 2 PUTs in all, the settings page, 1 crash, writes cut short | file against memory, restarts, unsaved changes |
| `ui_sync` | 1 device, 3 events, lists of 2, channels of 1, 1 break, 1 sort | what is shown once nothing is under way |
| `ui_cut` | 1 device, 4 events, lists of 3 | violation: the second newest event is cut off |
| `event_path` | 4 streams, chunks of up to 6 cells, a limit of 10, 2 clients, channels and sockets of 1, fairness | what reaches the clients of what the panel sent; who can hold up the broadcaster |
| `default_refuses` | 1 event, the rules of `defaultConfig` | violation: the event is refused |
| `ws_fatal` | 2 clients | violation: they end the process |

The bounds are the smallest with which the hazards occur: two events let the
status of one be taken for that of the other and let one fill a buffer of one
place while the other arrives; two panels contend. The reconnect counter is
stopped at `MaxReconnects`; dialling is not, so that an outage can last. Panels
and events are symmetric in the safety runs (no property or action tells them
apart); the liveness runs have no symmetry. Deadlock is not checked because the
system may stop: after a shutdown, with nobody connecting, nothing is left to run,
and where events, calls or requests are bounded they run out.

For the feed, more calls than the ring, the history and a buffer hold make all of
them overflow; the code's sizes (500, 100, 100, 200) differ only in how many calls
that takes, and the theorems hold for every size. `UiSync` likewise needs one event
more than the list holds, one break and one load that races with it. With lists of two
the end of a full list is its oldest event or the last but one pushed; lists of three
(`ui_cut`) tell the order of a snapshot from that of pushes. `ShutdownCompletes` is
stated for each panel, so that one panel that reconnects as often as it likes is
enough: the handlers of others do nothing to it but fill the queue.
`AppLifecycle` has no bound but the number of panels: one to keep the waiter
waiting, one in hand, one queued. In `ConfigStore` two PUTs overlap in every
way, and a crash in the middle of them is followed by a restart.

The four streams of `event_path` hold what a handler tells apart: accounts below,
in and just within the range, one shifted beyond 9999, one with a sign, one that is
no number, a heartbeat, an empty frame, a replaced code and one the dictionary
lacks, and two frames without a terminator between them, longer than the limit. An
event of 9 cells, a limit of 10 and chunks of 6 let a frame end in a chunk, with one
and after one, and the buffer go over the limit with a terminator in it or without.
Two clients are a reader and a stalled or leaving one, and two writers of the map.

Properties of the relay (defined in `Relay`):

* `AckSound`, `RepliesAreVerdicts`: a status is the station's verdict
  on the event it is held for, on every stretch of its way to the panel.
* `AtMostOnce`: the relay never delivers a message twice.
* `ReplyNeverBlocks`: the client never waits for a handler that has left, and the
  branch for a reply channel closed unexpectedly is dead.
* `CountersSound`: acknowledged events <= accepted counter <= accepted by the
  station; nothing is counted as rejected that the station did not reject.
* `SilentOnlyAfterRelay`: a handler leaves a frame unanswered on an open
  connection only after it has relayed a status there (the stale write deadline).
* `BackoffInRange`: the backoff is the initial delay, or within its bounds, also for
  an initial delay of 0 or above the ceiling.
* `ImplementsDelivery`: the relay implements `Delivery`.
* `FramesConclude`, `QueueDrains`: a frame that reached the server is answered or
  dropped, and a queued event is taken or the relay is shut down.
* `ShutdownCompletes`: after the context is cancelled the client stops, the channels of
  the UI are closed and the connection of every panel ends; once the listener is closed
  too, every panel is gone for good. Before that there need be no moment at which all of
  them are gone, as panels may connect anew while the handlers of others end.

Properties of the feed (defined in `DeviceFeed`):

* `OrderPerHandler`: the events of one connection are never reordered or doubled
  in any history, ring, broadcast or subscription. Events of two connections may
  be: the ring, the device and the pushes can each see another order.
* `EndedAreStored`: a call that is over is in the device's history and in the ring,
  whatever it dropped and even if it panicked.
* `SnapshotsAreLatest`: the snapshots are the latest events, all of them, once.
  `GetGlobalEvents` returns the newest first and the rest from the oldest on.
* `PushesAreInSnapshots`: a pushed event is in the list fetched afterwards.
* `SubscriptionIsExact`: no event slips into a later subscription.
* `UpdateReturns`: the user interface never holds up a handler.
* `EmptiesComeLast`: the empty devices a closed channel yields come after every update
  the channel had taken.

Properties of start and end (defined in `AppLifecycle`):

* `JoinedRuns`: main does not return before both goroutines of a `Startup` that ran.
* `GracefulStop`: after "all connections closed", with the listener closed, the one
  connection `acceptConnections` had in hand is all that can be left.
* `SignalStops`: a signal that has reached main ends the process. Only such a
  signal: a SIGINT between `NotifyContext` and `Notify`, and a SIGQUIT at any
  time before `Shutdown`, cancel the context and leave main waiting.

Properties of the configuration (defined in `ConfigStore`):

* `SettledAgree`: between PUTs the API answers with what a restart would load.
* `StartsAgain`: New panics on config.yaml only if the write that came last was cut
  short, by an error or by the end of the process, or PUTs have overlapped. A process
  killed at any other moment starts again, and a write that is through makes up for one
  that was not. (It may start with an empty or an incomplete configuration: a file
  truncated and not yet written is taken for one.)
* `UnsavedIsFlagged`: what was changed on the page and not saved stays marked.
* `StartsAlike`: a start gives main and the relay the same configuration, though each
  loads the file for itself, right after New wrote the default, too.

No property relates the page to the server, because nothing of the kind holds:
no key the page looks up is in what the API answers, so that a load shows the
page's defaults. Nor does one relate the memory to the relay, which has a copy of
its own and does not see a PUT before the next start.

Properties of the application (defined in `UiSync`):

* `NeverStranded`: the service has a connection or a timer that will open one.
* `DevicesSettle`: once nothing is under way, a device shows its last event, unless that
  update did not reach the application after the snapshot (dropped by a full channel,
  broadcast while no connection was open, or lost with one), or the device did show
  it and lost it in one of two ways: to an answer made before it, or to an older push
  that was under way when the snapshot was taken. Reconnections, retries and delays
  have no other way to spoil the list.
* `EventsSettle`: once nothing is under way, one of the latest events that reached the
  application, and was not wiped out by an answer made before it, is missing only if
  the list is full and the event was stored when the list was last put in order, by a
  snapshot or a sort. What is pushed after that stays until as many newer ones have come
  as the list holds.
* `DoubledOnlyUnderWay`: only an event whose push was under way when the snapshot was
  taken can be shown twice.

Properties of the path of an event (defined in `PanelStream`, `WsHub`, `EventPath`):

* `FramesAreMessages`: the n-th frame handled is what stands before the n-th
  terminator sent, however the bytes arrive. An overflow costs no message but
  the overlong one: of that the end is taken for the frame. (It can be of the
  form of an event: the third stream has one.)
* `TypeOK` contains `BufferBounded`: a handler holds no more than the limit and a
  chunk.
* `ReadersAgree`: for every event enqueued, `extractDeviceID`, the broadcaster and the
  API read out of the rewritten frame what the rules make of the original,
  as long as the shifted account has four characters.
* `BroadcastsAreReports`: an increasing map takes what is broadcast, as devices and as
  events, to the frames enqueued that it reports: in order, nothing doubled or invented.
* `BroadcastsReachAll`: a broadcast is over only when every client that was in the map
  when it began was written to or has left, whoever comes, fails or is removed
  in the middle of the loop.
* `OnlyStalledClientsBlock`: the broadcaster comes back to its channels unless a client
  stays without reading.

Three runs show disagreements with the documentation, the comments or the tests
(`findings`):

* `default_refuses`: the default rules want 21 bytes, but the terminator is taken off
  before the length is compared: every event of the form the tests call valid is
  answered NACK. `core/config.yaml` has the same value.
* `ws_fatal`: the map of WebSocket clients is used by the HTTP handlers, the readers and
  the broadcaster without a lock, and the Go runtime ends the process when it
  notices two of them at it.
* `ui_cut` (`LatestAreListed`): the list promises the latest 500 events, but a snapshot
  has the newest first and then the oldest, the second oldest and so on, while pushes go
  to its front and its end is cut off: the first push after a full snapshot removes the
  second newest event.

Five more things the models show and no property forbids. After a shutdown has closed
the channels the broadcaster, which does not look whether they are, broadcasts empty
devices until main returns. `Stop` waits on a `WaitGroup` that `acceptConnections` may
still be adding to: a connection accepted just before the listener was closed, and
counted when the last handler has just counted down, makes it panic in a goroutine
that does not recover (`main = "crashed"` in `AppLifecycle`). An
account shifted beyond 9999 gives a frame that all readers misread. The settings page
sends durations as text (`AppKind`), which Go refuses for a `time.Duration`: every save
is answered with 400, and `UnsavedIsFlagged` is about what the page does then. Neither
a load of the list of devices nor a push compares times: an answer made before a push
and delivered after it undoes the push, a push made before the snapshot and
delivered after it replaces a newer event (`undone` in `UiSync`), and the older one
stays until the device reports anew.

A remark on shutdown: the UI channels are closed without waiting for the
handlers, and one that is about to send panics and drops its panel without an
answer. The panic is in `Relay` and in `DeviceFeed`, and their properties hold with it.

Every property has a mutant: an operator next to the definition it alters,
commented `Mutant:`, with the kind of bug that breaks the property.

### Fairness

`FairSpec` of `Relay` assumes weak fairness of every handler, of the client and of
`closeChannels`: goroutines are scheduled and every wait in the code has a
timeout. Strong fairness of `DialSucceeds` is an assumption about the network,
needed for `QueueDrains` alone. Panels, station, connection and operator are not
fair: nobody need close the listener, and until it is closed panels may connect as
often as they like. In the feed it assumes weak fairness of the handlers' steps only: the
broadcaster may hang in a WebSocket write or not exist. In `AppLifecycle` main, the
goroutine of `Startup` and the two it starts are fair: the wait in `Stop` has a timer.
Handlers, panels and signals are not. In `EventPath` the broadcaster and, for each
client, its handler and reader are fair; clients need neither read nor leave, and
panels need not send.

## 4. Proofs

`RelayProofs` proves for every set of panels and messages and every buffer size:

* `TypeCorrect`: `Spec => [](TypeOK /\ CurInv)`. `CurInv` is what makes the types
  inductive: a handler that awaits a status, and a client that holds a message,
  do hold one.
* `NoCrossAttribution`: `Spec => [](RepliesAreVerdicts /\ LinkInv)`.
* `AcksAreSound`: `Spec => []AckSound`.
* `BackoffBounded`: `Spec => []BackoffInRange`, for every initial delay and ceiling.
* `DeliveredOnce` and `RepliesFindRoom`: `Spec => []AtMostOnce` and
  `Spec => []ReplyNeverBlocks`, by the invariant `OnceInv` described below.

`DeliveryProofs` goes on from there, for unbuffered queues too:

* `RelayDelivers`: `Spec => ImplementsDelivery`. `PhaseInv` adds to `OnceInv` what the
  abstract steps need in order to be taken once: a handler that does not wait holds no
  event (`IdleInv`), a message that was answered is with no connection and no handler
  any more (`AnsweredInv`), and only events get as far as the station (`EventsInv`).
  One lemma for each action of `Delivery` says when a step maps to it; the others map
  to a stutter.
* `CountersAgree`: `Spec => []CountersSound`, by `CounterInv`. The station's log runs
  ahead of the counters by the reply that has arrived and is not yet counted
  (`CountInv`), and what a panel may be told, or has been (`Told`), runs behind them.
  That a told message adds one to the count and no more is `OnceInv`: it stands in
  the log once.
* `SilenceExcused`: `Spec => []SilentOnlyAfterRelay`, by `QuietInv`. The frames that wait on
  a connection are the end of what was sent there (`InOrder`), so that a frame
  without an answer is waiting, in hand, or was passed over. The last happens only
  with a write deadline set, and the deadline is set only when a status is relayed
  (`SilenceInv`).

`DeviceFeedProofs` proves for every set of handlers and devices and all sizes:

* `FeedTypeCorrect`: `Spec => [](TypeOK /\ LocalInv)`. `LocalInv` ties a handler's
  local variables to its control point.
* `OrderKept`: `Spec => []OrderPerHandler`. The invariant `OrderInv` adds, for
  each log, that a handler still on its way to the log holds a later call than
  any of its own in it. The log of a UI channel is what was broadcast followed by
  what is buffered, so that the broadcaster moves elements within it or, for an
  unknown code, takes one out (`LogDropHead`); cutting the history takes out its
  beginning (`LogKeepLast`); both are instances of `LogThin`.
* `EndedStored`: `Spec => []EndedAreStored`, by `StoredInv`: where a call has been
  is where its handler is.
* `SubscriptionsExact`: `Spec => []SubscriptionIsExact`, by `SubInv`: the channel a
  handler holds is owed the call the handler is in.
* `UpdatesBeforeEmpties`: `Spec => []EmptiesComeLast`: nothing is sent to a closed
  channel, and an empty device is taken from an empty one only.
* `SnapshotsLatest`: `Spec => []SnapshotsAreLatest`. `RingInv`: backwards from `top`, the
  ring holds what was inserted last, slot by slot, and is empty behind the oldest;
  `HistoryInv` says the like of a device. The walk of `GetGlobalEvents` passes every
  slot once, so what it collects is what was inserted last; that every described one
  is in it, and once, are the lemmas on `Collect`.
* `PushesFound`: `Spec => []PushesAreInSnapshots`, by `PushInv`: an event is in the ring
  before it is sent, and the lemmas on the snapshot say what it then holds.

They use `FeedAssumption` (sizes are positive) only.

`AppLifecycleProofs` proves for every set of connections:

* `LifecycleTypes`: `Spec => [](TypeOK /\ RunsInv)`. `RunsInv`: `App.wg` counts the
  goroutines of `Startup` that have not returned, from before they exist.
* `RunsAreJoined`: `Spec => []JoinedRuns`, from the same invariant.
* `StopIsGraceful`: `Spec => []GracefulStop`, by `StopInv`: one connection is in hand at
  most, nobody queues at a closed listener, a served connection is counted, a
  handler that is about to release the waiter is the last, and the listener is
  closed before the waiter exists.

`ConfigStoreProofs` proves for all clients, values, configurations and any number
of PUTs and crashes, from `ConfigAssumption`:

* `ConfigTypeCorrect`: `Spec => []TypeOK`; the lemmas on the conversions show that
  what is decoded is a configuration whatever fields a body lacks.
* `MemoryIsStored` and `RestartParses`: `Spec => []SettledAgree` and
  `Spec => []StartsAgain`, by `StoredInv`: while no PUTs overlap, one request at most
  writes, it finds the file empty, the fields it has copied agree with the file, and a
  text that does not parse was cut short and by no later write made up for
  (`AloneInv`); between requests file and memory agree (`AgreeInv`). `HandlerInv`
  ties the handler to the running process, and `AwaitInv` is what the page adds:
  a PUT of its own is under way only while it awaits one.
* `ChangesAreMarked`: `Spec => []UnsavedIsFlagged`, with the lemma `RoundTrip`: the
  page's conversion to JSON and back is the identity on configurations, so that
  `original` is what was saved.
* `RelayStartsAlike`: `Spec => StartsAlike`, by `BootInv`: when New has returned, the
  configuration main has is the one the file holds, and nobody else writes
  before the relay has read it.

`EventPathProofs` proves for all streams and rules, any number of clients and all
sizes, from `StreamAssumption`, `HubAssumption` and `CodesAssumption` (no code that the
configuration puts into a frame is a terminator: it is one cell of the frame):

* `PathTypeCorrect`: `Spec => []TypeOK`.
* `FramesWhole`: `Spec => []FramesAreMessages`, by `StreamInv`, which also gives
  `BufferBounded`. `buffer` is the part of the stream that ends at `pos` (`BufferInv`).
  Between the last frame and the start of `buffer` lies nothing, or more than the
  limit, and no terminator (`DroppedInv`): the frame after an overflow is the end of
  the overlong message and of no other. Only while it is split does `buffer` hold a
  terminator, or more than the limit (`RoomInv`): whole frames are taken out before
  the length is looked at.
* `BroadcastsComplete`: `Spec => BroadcastsReachAll`, by `HubInv`: a client the loop owes
  the update and that is up is in the map, and still to be visited or being
  written to (`OwedInv`). `PhaseInv` is what makes that inductive: a client that is up
  is being added or served, so that neither its reader nor the broadcaster can
  be deleting it.
* `ReadersConcur`: `Spec => []ReadersAgree`. `FatesInv` says that every frame handled had a
  fate the rules give it, so that one enqueued is a rewritten event. `RewrittenParts`
  says what stands where in it, and `FormatRead` that `Atoi` reads back the number
  that `FormatAccount` wrote: for each length of an account, digit by digit
  (`PlaceValues`), the sign included.
* `BroadcastsFaithful`: `Spec => []BroadcastsAreReports`, by `TraceInv`: there are increasing
  maps from what was broadcast and from what a channel holds to the frames enqueued,
  each to a frame it reports, and what is in the channel comes from later frames
  than what was broadcast. A send extends the second by the newest frame, the
  broadcaster moves one place from the second map to the first or drops it.

The inductive invariant of the relay is `SafeInv == TypeInv /\ AckSound /\ RepliesAreVerdicts
/\ LinkInv`. `AckSound` is not inductive: an ACK is written because a TRUE was in
the reply channel, which was put there because the client read it, which read
it because it was in flight. `RepliesAreVerdicts` covers the first two places and
`LinkInv` the third: at most one message or reply is on the connection, and it
belongs to the message in hand. That is where giving up the connection after a
failed read is needed; the mutant `ReadFails_KeepsLink` drops it and breaks all
three. The steps of the proof are one lemma per process, with one step per
action; the assumptions used are `SharedAssumption` (the kinds of frames are
disjoint) and `ClientAssumption`.

`OnceInv` follows one message on its way. Until its handler
takes it, it waits in one connection, once (`WaitingInv`). Then it is in the queue, once,
or with the client, and its channel is open and empty until the client replies
(`QueueInv`); it is on the link or in the station's log only after the client wrote it,
in one of the two and once (`StationInv`). No two handlers wait for the same message
(`WaitersInv`). `AtMostOnce` needs all of this: that
the station has not yet decided on a message the client sends is known only because
a message popped from the queue was in no other place.

`UiSyncProofs` proves for all devices and bounds, from `UiAssumption`:

* `ServiceRecovers`: `Spec => []NeverStranded`, which is inductive as it stands.
* `UiTypeCorrect`: `Spec => []TypeOK`.
* `DevicesCatchUp`, `EventsCatchUp` and `DoublesExcused`: `Spec => []DevicesSettle`,
  `Spec => []EventsSettle` and `Spec => []DoubledOnlyUnderWay`, all by `UiInv`. It says where
  the last event of a device, and each of the last events of all, is: lost, or in a
  push under way, or shown, or wiped out. For a device shown alone is not
  inductive: a push of an older event still under way would replace it. `DeviceInv`
  excludes that, but for pushes under way at the snapshot, which it counts, and
  keeps it excluded because the pushes on the wire and in the server's channel come in
  ascending order, those in the channel last (`OrderInv`). For the list of events
  `ListInv` says that it begins with events in descending order, older than any still
  pushed, and that all behind them were stored when it was last put in order
  (`Headed`): of those pushed since, only one with `Limit` newer ones before it can be at
  the end that is cut off (`CutIsOld`). `EventInv` builds on it.
  `DoubleInv`: what a list holds twice came by a snapshot and by a push that was
  under way when the snapshot was made.

Two things the proofs keep needing are in `CollectProofs`. The induction theorems of
the library take a predicate as a parameter, which the provers cannot instantiate;
`Induction` has a set in its place and follows from the least element of a set of
naturals (`WFMin`). By it the functions that `Collect` and a count are defined by
exist, and what they return, keep and bound can be proved. `DeviceFeed` and `Relay`
use `Collect` for this reason where the library has `SelectSeq`, which takes a predicate.

Every invariant and action property of the passing runs is thus a theorem, and so
is the refinement. Model-checked only is liveness (`FramesConclude`, `QueueDrains`,
`ShutdownCompletes`, `UpdateReturns`, `SignalStops`, `OnlyStalledClientsBlock`): temporal
reasoning under fairness needs ENABLED, which is beyond the prover.

## 5. Not modelled, and the plan

Not modelled on purpose: logging, formatting, routing, the event dictionary and
its colours, `cleanupInactiveDevices` (its loop is commented out and only a
benchmark calls it), the rate limiter and the GUI types that nothing uses, the GUI's
layout, and the statistics of the application, which are loaded once (the
documentation says they are pushed every second; nothing does).

Done in this order, the most important behaviour first: the relay, its refinement
and proofs; the device feed; the configuration; the application; start and end of
the process; the path of an event from the bytes to the WebSocket clients. Left:

1. `GetDeviceEvents` behind the dialog of a device, as a snapshot of `DeviceFeed`.
2. `Reset` and `Snapshot` of the counters next to the client that updates them, and
   the statistics the page loads from them.
