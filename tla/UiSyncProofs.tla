---------------------------- MODULE UiSyncProofs ----------------------------
(***************************************************************************)
(* Theorems about UiSync, for all devices and all bounds: the WebSocket    *)
(* service always has a way to go on, and whatever is lost, delayed or     *)
(* reloaded, the lists of the application settle on what the server has.   *)
(*                                                                         *)
(* The invariant UiInv follows every last update of a device and every one *)
(* of the last events: it is lost, or its push is under way (in the        *)
(* server's channel or in the WebSocket), or a provider has it or had it.  *)
(* Pushes are delivered in the order in which the events were stored       *)
(* (OrderInv); so only a push that was under way at the snapshot can put   *)
(* an older event over a newer one (DeviceInv), and the pushes handled     *)
(* since the list was last put in order head it, newest first: what the    *)
(* limit cuts off them is no longer one of the last events (ListInv).      *)
(***************************************************************************)
EXTENDS UiSync, CollectProofs

-----------------------------------------------------------------------------
(* The service is never stranded. *)

\* What the service decides by.
service == <<channel, isConnected, timer>>

LEMMA InitServed == Init => NeverStranded
BY DEF Init, NeverStranded

\* The server pushes, but changes nothing of the service.
LEMMA ServerKeepsService == Server => UNCHANGED service
<1> USE DEF service, link, Send
<1>1. ASSUME NEW d \in Devices, Report(d) PROVE UNCHANGED service
  BY <1>1 DEF Report
<1>2. BroadcastPPKUpdate => UNCHANGED service
  BY DEF BroadcastPPKUpdate
<1>3. BroadcastEventUpdate => UNCHANGED service
  BY DEF BroadcastEventUpdate
<1>4. GetPPKList => UNCHANGED service
  BY DEF GetPPKList
<1>5. GetEvents => UNCHANGED service
  BY DEF GetEvents
<1> QED
  BY <1>1, <1>2, <1>3, <1>4, <1>5 DEF Server

\* Nor do the providers, whose loads fail and are retried on their own.
LEMMA ProvidersKeepService == Application => UNCHANGED service
<1> USE DEF service, link, TakeMessage
<1>1. LoadPPKList \/ PPKListArrives \/ PPKListFails => UNCHANGED service
  BY DEF LoadPPKList, PPKListArrives, PPKListFails
<1>2. LoadEvents \/ EventsArrive \/ EventsFail => UNCHANGED service
  BY DEF LoadEvents, EventsArrive, EventsFail
<1>3. HandlePPKUpdate \/ HandleEventUpdate => UNCHANGED service
  BY DEF HandlePPKUpdate, HandleEventUpdate
<1>4. SortEvents => UNCHANGED service
  BY DEF SortEvents
<1> QED
  BY <1>1, <1>2, <1>3, <1>4 DEF Application

\* The steps of the socket: an end is reported before the channel is given up,
\* and giving it up starts the timer that opens the next one.
LEMMA SocketKeepsServed == NeverStranded /\ Socket => NeverStranded'
<1> SUFFICES ASSUME NeverStranded, Socket PROVE NeverStranded'
  OBVIOUS
<1> USE DEF NeverStranded
<1>1. CASE Upgrade
  BY <1>1 DEF Upgrade
<1>2. CASE OpenFails
  BY <1>2 DEF OpenFails
<1>3. CASE Break
  BY <1>3 DEF Break
<1>4. CASE HandleDisconnect
  BY <1>4 DEF HandleDisconnect
<1>5. CASE Reconnect
  BY <1>5 DEF Reconnect
<1> QED
  BY <1>1, <1>2, <1>3, <1>4, <1>5 DEF Socket

LEMMA NextKeepsServed == NeverStranded /\ [Next]_vars => NeverStranded'
<1> SUFFICES ASSUME NeverStranded, [Next]_vars PROVE NeverStranded'
  OBVIOUS
<1>1. UNCHANGED service => NeverStranded'
  BY DEF service, NeverStranded
<1>2. UNCHANGED vars => UNCHANGED service
  BY DEF vars, link, service
<1> QED
  BY <1>1, <1>2, ServerKeepsService, ProvidersKeepService, SocketKeepsServed DEF Next

\* However connections fail, break and are reopened, and in whatever order the
\* callbacks run, the service has a channel whose end it will be told of or a
\* timer that will open one (_handleDisconnect, _scheduleReconnect, connect).
THEOREM ServiceRecovers == Spec => []NeverStranded
BY InitServed, NextKeepsServed, PTL DEF Spec

-----------------------------------------------------------------------------
(* Types. *)

\* The bounded sequences of the type invariant.
LEMMA SeqsAre ==
  ASSUME NEW S, NEW n \in Nat
  PROVE  \A s : s \in Seqs(S, n) <=> s \in Seq(S) /\ Len(s) <= n
<1>1. ASSUME NEW s, s \in Seqs(S, n) PROVE s \in Seq(S) /\ Len(s) <= n
  <2>1. PICK k \in 0 .. n : s \in [1 .. k -> S]
    BY <1>1 DEF Seqs
  <2> QED
    BY <2>1
<1>2. ASSUME NEW s, s \in Seq(S), Len(s) <= n PROVE s \in Seqs(S, n)
  <2>1. Len(s) \in 0 .. n /\ s \in [1 .. Len(s) -> S]
    BY <1>2
  <2> QED
    BY <2>1 DEF Seqs
<1> QED
  BY <1>1, <1>2

\* The greatest event of device d in own, 0 if there is none.
LastIn(own, d) ==
  LET mine == {e \in DOMAIN own : own[e] = d}
  IN  IF mine = {} THEN 0 ELSE Max(mine)

\* It is the last event of the device indeed.
LEMMA LastIs ==
  ASSUME NEW own \in Seq(Devices), NEW d \in Devices
  PROVE  /\ LastIn(own, d) \in 0 .. Len(own)
         /\ LastIn(own, d) # 0 => own[LastIn(own, d)] = d
         /\ \A e \in 1 .. Len(own) : own[e] = d => e <= LastIn(own, d)
<1> DEFINE mine == {e \in DOMAIN own : own[e] = d}
<1>1. mine \subseteq Nat /\ Len(own) \in Nat /\ \A e \in mine : e <= Len(own)
  OBVIOUS
<1>2. CASE mine = {}
  BY <1>2 DEF LastIn
<1>3. CASE mine # {}
  <2>1. \E x \in mine : \A y \in mine : y <= x
    BY <1>1, <1>3, NatMax
  <2>2. \E x \in mine : \A y \in mine : x >= y
    BY <2>1, <1>1
  <2>3. Max(mine) \in mine /\ \A y \in mine : Max(mine) >= y
    BY <2>2 DEF Max
  <2>4. LastIn(own, d) = Max(mine)
    BY <1>3 DEF LastIn
  <2> QED
    BY <2>3, <2>4
<1> QED
  BY <1>2, <1>3

\* A report changes it for its own device only.
LEMMA LastAdded ==
  ASSUME NEW own \in Seq(Devices), NEW d \in Devices
  PROVE  /\ LastIn(Append(own, d), d) = Len(own) + 1
         /\ \A c \in Devices \ {d} : LastIn(Append(own, d), c) = LastIn(own, c)
<1> DEFINE new == Append(own, d)
<1>1. /\ new \in Seq(Devices) /\ Len(new) = Len(own) + 1 /\ Len(own) \in Nat
      /\ new[Len(own) + 1] = d
      /\ \A e \in 1 .. Len(own) : new[e] = own[e]
  OBVIOUS
<1> HIDE DEF new
<1>2. LastIn(new, d) = Len(own) + 1
  <2>1. /\ LastIn(new, d) \in 0 .. Len(new)
        /\ \A e \in 1 .. Len(new) : new[e] = d => e <= LastIn(new, d)
    BY <1>1, LastIs
  <2> QED
    BY <1>1, <2>1
<1>3. ASSUME NEW c \in Devices \ {d} PROVE LastIn(new, c) = LastIn(own, c)
  <2>1. /\ LastIn(new, c) \in 0 .. Len(new)
        /\ LastIn(new, c) # 0 => new[LastIn(new, c)] = c
        /\ \A e \in 1 .. Len(new) : new[e] = c => e <= LastIn(new, c)
    BY <1>1, LastIs
  <2>2. /\ LastIn(own, c) \in 0 .. Len(own)
        /\ LastIn(own, c) # 0 => own[LastIn(own, c)] = c
        /\ \A e \in 1 .. Len(own) : own[e] = c => e <= LastIn(own, c)
    BY LastIs
  <2> DEFINE x == LastIn(new, c)
             y == LastIn(own, c)
  <2> HIDE DEF x, y
  <2>3. x <= y
    BY <1>1, <2>1, <2>2 DEF x, y
  <2>4. y <= x
    BY <1>1, <2>1, <2>2 DEF x, y
  <2> QED
    BY <1>1, <2>1, <2>2, <2>3, <2>4 DEF x, y
<1> QED
  BY <1>2, <1>3 DEF new

LEMMA LastOfIs == \A d : LastOf(d) = LastIn(owner, d)
BY DEF LastOf, LastIn, Stored

\* The steps of a load keep the type of a provider, whatever it shows.
LEMMA ProviderSteps ==
  ASSUME NEW Data, NEW p \in Provider(Data), NEW x \in Data
  PROVE  /\ Asks(p) \in Provider(Data)
         /\ Answers(p, x) \in Provider(Data)
         /\ Takes(p, x) \in Provider(Data)
         /\ Fails(p, x) \in Provider(Data)
         /\ [p EXCEPT !.data = x] \in Provider(Data)
BY DEF Provider, Asks, Answers, Takes, Fails

\* TypeOK with the bounded sequences spelled out.
Types ==
  /\ owner \in Seq(Devices) /\ Len(owner) <= MaxEvents
  /\ deviceChan \in Seq(EventIds) /\ Len(deviceChan) <= ChanSize
  /\ eventChan \in Seq(EventIds) /\ Len(eventChan) <= ChanSize
  /\ channel \in {"none", "opening", "open", "gone"}
  /\ wire \in Seq(Messages)
  /\ isConnected \in BOOLEAN
  /\ timer \in BOOLEAN
  /\ ppk \in Provider([Devices -> 0 .. MaxEvents])
  /\ events \in Provider(Seqs(EventIds, Limit))
  /\ lost \in [ppk : SUBSET EventIds, events : SUBSET EventIds]
  /\ undone \in [ppk : SUBSET EventIds, events : SUBSET EventIds]
  /\ underWay \in [ppk : SUBSET EventIds, events : SUBSET EventIds]
  /\ loaded \in 0 .. MaxEvents
  /\ breaks \in 0 .. MaxBreaks
  /\ sorts \in 0 .. MaxSorts

LEMMA TypesAre == TypeOK <=> Types
BY UiAssumption, SeqsAre DEF TypeOK, Types

LEMMA EventLists ==
  \A s : s \in Seqs(EventIds, Limit) <=> s \in Seq(EventIds) /\ Len(s) <= Limit
<1>1. Limit \in Nat
  BY UiAssumption
<1> QED
  BY <1>1, SeqsAre

LEMMA NoEvents == <<>> \in Seqs(EventIds, Limit)
<1>1. <<>> \in Seq(EventIds) /\ Len(<<>>) <= Limit
  BY UiAssumption
<1> QED
  BY <1>1, EventLists

LEMMA InitTypes == Init => Types
<1> SUFFICES ASSUME Init PROVE Types
  OBVIOUS
<1>1. Nothing \in [Devices -> 0 .. MaxEvents]
  BY UiAssumption DEF Nothing
<1>2. ppk \in Provider([Devices -> 0 .. MaxEvents])
  BY <1>1 DEF Init, Provider
<1>3. events \in Provider(Seqs(EventIds, Limit))
  BY NoEvents DEF Init, Provider
<1>4. owner \in Seq(Devices) /\ Len(owner) <= MaxEvents /\ wire \in Seq(Messages)
  BY UiAssumption DEF Init
<1>5. /\ deviceChan \in Seq(EventIds) /\ Len(deviceChan) <= ChanSize
      /\ eventChan \in Seq(EventIds) /\ Len(eventChan) <= ChanSize
  BY UiAssumption DEF Init
<1>6. /\ lost \in [ppk : SUBSET EventIds, events : SUBSET EventIds]
      /\ undone \in [ppk : SUBSET EventIds, events : SUBSET EventIds]
      /\ underWay \in [ppk : SUBSET EventIds, events : SUBSET EventIds]
      /\ loaded \in 0 .. MaxEvents
  BY UiAssumption DEF Init
<1>7. breaks \in 0 .. MaxBreaks /\ sorts \in 0 .. MaxSorts
  BY UiAssumption DEF Init
<1> QED
  BY <1>2, <1>3, <1>4, <1>5, <1>6, <1>7 DEF Init, Types

LEMMA LastOfType == Types => \A d \in Devices : LastOf(d) \in 0 .. MaxEvents
BY LastIs, LastOfIs, UiAssumption DEF Types

LEMMA EventsInType ==
  ASSUME NEW w \in Seq(Messages), NEW type
  PROVE  EventsIn(w, type) \subseteq EventIds
<1>1. \A m \in Messages : m.event \in EventIds
  BY DEF Messages
<1>2. \A i \in DOMAIN w : w[i] \in Messages
  OBVIOUS
<1> QED
  BY <1>1, <1>2 DEF EventsIn

\* What a provider may have lost was stored once.
LEMMA LoseTypes ==
  ASSUME Types, NEW X \in SUBSET EventIds, NEW Y \in SUBSET EventIds, LoseUpdates(X, Y)
  PROVE  lost' \in [ppk : SUBSET EventIds, events : SUBSET EventIds]
BY DEF Types, LoseUpdates

\* A history of both lists stays one when one of its parts changes.
LEMMA HistoryTypes ==
  ASSUME NEW h \in [ppk : SUBSET EventIds, events : SUBSET EventIds],
         NEW X \in SUBSET EventIds
  PROVE  /\ [h EXCEPT !.ppk = X] \in [ppk : SUBSET EventIds, events : SUBSET EventIds]
         /\ [h EXCEPT !.events = X] \in [ppk : SUBSET EventIds, events : SUBSET EventIds]
         /\ [h EXCEPT !.ppk = X].ppk = X /\ [h EXCEPT !.ppk = X].events = h.events
         /\ [h EXCEPT !.events = X].events = X /\ [h EXCEPT !.events = X].ppk = h.ppk
         /\ h.ppk \in SUBSET EventIds /\ h.events \in SUBSET EventIds
OBVIOUS

LEMMA LastEventsTyped == Types => LastEvents \subseteq EventIds
BY UiAssumption DEF Types, LastEvents, Stored, EventIds

\* What the last answer or an older push took away was a last update.
LEMMA UndoneIs ==
  ASSUME Types, UndoUpdates
  PROVE  /\ undone' \in [ppk : SUBSET EventIds, events : SUBSET EventIds]
         /\ undone'.events = undone.events
         /\ undone.ppk \subseteq undone'.ppk
         /\ \A d \in Devices :
              LastOf(d) # 0 /\ ppk.data[d] = LastOf(d) /\ ppk'.data[d] # LastOf(d) =>
                LastOf(d) \in undone'.ppk
<1> DEFINE replaced == {ppk.data[d] : d \in {c \in Devices : ppk'.data[c] # ppk.data[c]}}
           more == (replaced \cap LastUpdates) \ {0}
<1>1. undone' = [undone EXCEPT !.ppk = undone.ppk \cup more]
  BY DEF UndoUpdates
<1>2. more \subseteq EventIds
  <2>1. \A d \in Devices : LastOf(d) \in 0 .. MaxEvents
    BY LastOfType
  <2> QED
    BY <2>1, UiAssumption DEF LastUpdates, EventIds
<1>3. undone \in [ppk : SUBSET EventIds, events : SUBSET EventIds]
  BY DEF Types
<1>4. \A d \in Devices :
        LastOf(d) # 0 /\ ppk.data[d] = LastOf(d) /\ ppk'.data[d] # LastOf(d) =>
          LastOf(d) \in more
  BY DEF LastUpdates
<1> HIDE DEF more
<1>5. undone.ppk \cup more \in SUBSET EventIds
  BY <1>2, <1>3
<1>6. /\ undone' \in [ppk : SUBSET EventIds, events : SUBSET EventIds]
      /\ undone'.events = undone.events /\ undone'.ppk = undone.ppk \cup more
  BY <1>1, <1>3, <1>5, HistoryTypes
<1> QED
  BY <1>4, <1>6

\* A snapshot of the ring fits into the list.
LEMMA SnapshotType == Types => EventSnapshot \in Seqs(EventIds, Limit)
<1> SUFFICES ASSUME Types PROVE EventSnapshot \in Seqs(EventIds, Limit)
  OBVIOUS
<1> DEFINE n == Len(owner)
           oldest == IF n > Limit THEN n - Limit + 1 ELSE 1
           older == [i \in 1 .. n - oldest |-> oldest + i - 1]
<1>1. n \in Nat /\ n <= MaxEvents /\ Limit \in Nat \ {0} /\ MaxEvents \in Nat
  BY UiAssumption DEF Types
<1>2. CASE n = 0
  BY <1>2, NoEvents DEF EventSnapshot
<1>3. CASE n # 0
  <2>1. oldest \in 1 .. n /\ n - oldest \in Nat /\ n - oldest < Limit
    BY <1>1, <1>3
  <2>2. older \in Seq(EventIds) /\ Len(older) = n - oldest
    <3> HIDE DEF oldest
    <3>1. \A i \in 1 .. n - oldest : oldest + i - 1 \in EventIds
      BY <1>1, <2>1 DEF EventIds
    <3> QED
      BY <3>1, <2>1
  <2>3. <<n>> \in Seq(EventIds) /\ Len(<<n>>) = 1
    BY <1>1, <1>3 DEF EventIds
  <2>4. EventSnapshot = <<n>> \o older
    BY <1>3 DEF EventSnapshot
  <2> HIDE DEF older, oldest, n
  <2>5. <<n>> \o older \in Seq(EventIds) /\ Len(<<n>> \o older) = 1 + Len(older)
    BY <2>2, <2>3
  <2>6. <<n>> \o older \in Seq(EventIds) /\ Len(<<n>> \o older) <= Limit
    BY <1>1, <2>1, <2>2, <2>5
  <2> QED
    BY <2>4, <2>6, EventLists
<1> QED
  BY <1>2, <1>3

LEMMA SendType ==
  ASSUME wire \in Seq(Messages), NEW type \in {"ppk_update", "event_update"},
         NEW e \in EventIds, Send(type, e)
  PROVE  wire' \in Seq(Messages)
<1>1. [type |-> type, event |-> e] \in Messages
  BY DEF Messages
<1> QED
  BY <1>1 DEF Send

LEMMA ServerTypes == Types /\ Server => Types'
<1> SUFFICES ASSUME Types, Server PROVE Types'
  OBVIOUS
<1> USE UiAssumption DEF Types
<1>1. ASSUME NEW d \in Devices, Report(d) PROVE Types'
  <2> DEFINE e == Len(owner) + 1
  <2>1. e \in EventIds /\ owner' \in Seq(Devices) /\ Len(owner') <= MaxEvents
    BY <1>1 DEF Report, EventIds
  <2>2. /\ deviceChan' \in Seq(EventIds) /\ Len(deviceChan') <= ChanSize
        /\ eventChan' \in Seq(EventIds) /\ Len(eventChan') <= ChanSize
    BY <1>1, <2>1 DEF Report, Offer
  <2>3. lost' \in [ppk : SUBSET EventIds, events : SUBSET EventIds]
    <3>1. /\ LoseUpdates(Overflow(deviceChan, e), Overflow(eventChan, e))
          /\ Overflow(deviceChan, e) \in SUBSET EventIds
          /\ Overflow(eventChan, e) \in SUBSET EventIds
      BY <1>1, <2>1 DEF Report, Overflow
    <3> QED
      BY <3>1, LoseTypes
  <2> QED
    BY <1>1, <2>1, <2>2, <2>3 DEF Report, link
<1>2. ASSUME BroadcastPPKUpdate PROVE Types'
  <2>1. Head(deviceChan) \in EventIds /\ Tail(deviceChan) \in Seq(EventIds)
        /\ Len(Tail(deviceChan)) <= ChanSize
    BY <1>2 DEF BroadcastPPKUpdate
  <2>2. lost' \in [ppk : SUBSET EventIds, events : SUBSET EventIds]
    BY <1>2, <2>1, LoseTypes, SMTT(30) DEF BroadcastPPKUpdate
  <2>3. wire' \in Seq(Messages)
    BY <1>2, <2>1, SendType DEF BroadcastPPKUpdate
  <2> QED
    BY <1>2, <2>1, <2>2, <2>3 DEF BroadcastPPKUpdate, Send
<1>3. ASSUME BroadcastEventUpdate PROVE Types'
  <2>1. Head(eventChan) \in EventIds /\ Tail(eventChan) \in Seq(EventIds)
        /\ Len(Tail(eventChan)) <= ChanSize
    BY <1>3 DEF BroadcastEventUpdate
  <2>2. lost' \in [ppk : SUBSET EventIds, events : SUBSET EventIds]
    BY <1>3, <2>1, LoseTypes DEF BroadcastEventUpdate
  <2>3. wire' \in Seq(Messages)
    BY <1>3, <2>1, SendType DEF BroadcastEventUpdate
  <2> QED
    BY <1>3, <2>1, <2>2, <2>3 DEF BroadcastEventUpdate, Send
<1>4. ASSUME GetPPKList PROVE Types'
  <2>1. PpkSnapshot \in [Devices -> 0 .. MaxEvents]
    BY LastOfType DEF PpkSnapshot
  <2>2. ppk' \in Provider([Devices -> 0 .. MaxEvents])
    BY <1>4, <2>1, ProviderSteps DEF GetPPKList
  <2>3. ToSet(deviceChan) \cup EventsIn(wire, "ppk_update") \in SUBSET EventIds
    BY EventsInType DEF ToSet
  <2>4. /\ lost' \in [ppk : SUBSET EventIds, events : SUBSET EventIds]
        /\ undone' \in [ppk : SUBSET EventIds, events : SUBSET EventIds]
        /\ underWay' \in [ppk : SUBSET EventIds, events : SUBSET EventIds]
    BY <1>4, <2>3, HistoryTypes DEF GetPPKList
  <2> QED
    BY <1>4, <2>2, <2>4 DEF GetPPKList, feed, link
<1>5. ASSUME GetEvents PROVE Types'
  <2>1. events' \in Provider(Seqs(EventIds, Limit))
    BY <1>5, SnapshotType, ProviderSteps DEF GetEvents
  <2>2. ToSet(eventChan) \cup EventsIn(wire, "event_update") \in SUBSET EventIds
    BY EventsInType DEF ToSet
  <2>3. /\ lost' \in [ppk : SUBSET EventIds, events : SUBSET EventIds]
        /\ undone' \in [ppk : SUBSET EventIds, events : SUBSET EventIds]
        /\ underWay' \in [ppk : SUBSET EventIds, events : SUBSET EventIds]
    BY <1>5, <2>2, HistoryTypes DEF GetEvents
  <2>4. loaded' \in 0 .. MaxEvents
    BY <1>5 DEF GetEvents
  <2> QED
    BY <1>5, <2>1, <2>3, <2>4 DEF GetEvents, feed, link
<1> QED
  BY <1>1, <1>2, <1>3, <1>4, <1>5 DEF Server

LEMMA SocketTypes == Types /\ Socket => Types'
<1> SUFFICES ASSUME Types, Socket PROVE Types'
  OBVIOUS
<1> USE DEF Types, feed, link, history
<1>1. ASSUME Upgrade PROVE Types'
  BY <1>1 DEF Upgrade
<1>2. ASSUME OpenFails PROVE Types'
  BY <1>2 DEF OpenFails
<1>3. ASSUME Break PROVE Types'
  <2>1. PICK n \in 0 .. Len(wire) :
          /\ wire' = SubSeq(wire, 1, n)
          /\ LoseUpdates(EventsIn(SubSeq(wire, n + 1, Len(wire)), "ppk_update"),
                         EventsIn(SubSeq(wire, n + 1, Len(wire)), "event_update"))
    BY <1>3 DEF Break
  <2>2. wire' \in Seq(Messages) /\ SubSeq(wire, n + 1, Len(wire)) \in Seq(Messages)
    BY <2>1
  <2>3. lost' \in [ppk : SUBSET EventIds, events : SUBSET EventIds]
    BY <2>1, <2>2, EventsInType, LoseTypes
  <2>4. breaks' \in 0 .. MaxBreaks /\ channel' = "gone"
    BY <1>3, UiAssumption DEF Break
  <2> QED
    BY <1>3, <2>2, <2>3, <2>4 DEF Break
<1>4. ASSUME HandleDisconnect PROVE Types'
  BY <1>4 DEF HandleDisconnect
<1>5. ASSUME Reconnect PROVE Types'
  BY <1>5 DEF Reconnect
<1> QED
  BY <1>1, <1>2, <1>3, <1>4, <1>5 DEF Socket

LEMMA ProviderFields ==
  ASSUME NEW Data, NEW p \in Provider(Data)
  PROVE  p.data \in Data /\ p.answer \in Data
         /\ p.made \in BOOLEAN /\ p.error \in BOOLEAN
         /\ p.load \in {"idle", "asked", "answered"}
BY DEF Provider

\* The list after a pushed event.
Kept(list) == IF Len(list) > Limit THEN SubSeq(list, 1, Limit) ELSE list

\* Its members.
LEMMA KeptIs ==
  ASSUME NEW s \in Seq(EventIds), NEW e \in EventIds
  PROVE  /\ <<e>> \o s \in Seq(EventIds)
         /\ Kept(<<e>> \o s) \in Seq(EventIds)
         /\ Len(Kept(<<e>> \o s)) <= Limit
         /\ Len(Kept(<<e>> \o s)) <= Len(s) + 1
         /\ Len(s) <= Limit =>
              Len(Kept(<<e>> \o s)) = IF Len(s) = Limit THEN Limit ELSE Len(s) + 1
         /\ \A i \in 1 .. Len(Kept(<<e>> \o s)) :
              Kept(<<e>> \o s)[i] = IF i = 1 THEN e ELSE s[i - 1]
<1> DEFINE list == <<e>> \o s
<1>1. /\ list \in Seq(EventIds) /\ Len(list) = Len(s) + 1
      /\ \A i \in 1 .. Len(list) : list[i] = IF i = 1 THEN e ELSE s[i - 1]
  OBVIOUS
<1> HIDE DEF list
<1> QED
  BY <1>1, UiAssumption DEF Kept, list

\* What is taken out of the WebSocket.
LEMMA TakeTypes ==
  ASSUME Types, wire # <<>>
  PROVE  /\ Head(wire) \in Messages /\ Head(wire).event \in EventIds
         /\ Tail(wire) \in Seq(Messages)
<1>1. Head(wire) \in Messages /\ Tail(wire) \in Seq(Messages)
  BY DEF Types
<1> QED
  BY <1>1 DEF Messages

\* The entries of a list in another order.
LEMMA Reordered ==
  ASSUME NEW S, NEW s \in Seq(S), NEW from, \A i \in DOMAIN s : from[i] \in DOMAIN s
  PROVE  LET t == [i \in DOMAIN s |-> s[from[i]]]
         IN  t \in Seq(S) /\ Len(t) = Len(s)
<1>1. DOMAIN s = 1 .. Len(s) /\ Len(s) \in Nat /\ \A j \in DOMAIN s : s[j] \in S
  OBVIOUS
<1>2. \A i \in 1 .. Len(s) : s[from[i]] \in S
  BY <1>1, Zenon
<1>3. [i \in 1 .. Len(s) |-> s[from[i]]] \in Seq(S)
  BY <1>1, <1>2
<1> QED
  BY <1>1, <1>3

LEMMA ApplicationTypes == Types /\ Application => Types'
<1> SUFFICES ASSUME Types, Application PROVE Types'
  OBVIOUS
<1> DEFINE Rows == [Devices -> 0 .. MaxEvents]
           Lists == Seqs(EventIds, Limit)
<1>0. Nothing \in Rows /\ <<>> \in Lists /\ ppk \in Provider(Rows)
      /\ events \in Provider(Lists) /\ ppk.data \in Rows /\ ppk.answer \in Rows
      /\ events.data \in Lists /\ events.answer \in Lists
  BY NoEvents, ProviderFields, UiAssumption DEF Nothing, Types
<1> HIDE DEF Rows, Lists
<1>1. ASSUME LoadPPKList PROVE Types'
  <2>1. ppk' \in Provider(Rows)
    BY <1>0, <1>1, ProviderSteps DEF LoadPPKList
  <2> QED
    BY <1>1, <2>1 DEF LoadPPKList, Types, Rows, feed, link, history
<1>2. ASSUME PPKListArrives PROVE Types'
  <2>1. ppk' \in Provider(Rows)
    BY <1>0, <1>2, ProviderSteps DEF PPKListArrives
  <2>2. undone' \in [ppk : SUBSET EventIds, events : SUBSET EventIds]
    BY <1>2, UndoneIs DEF PPKListArrives
  <2> QED
    BY <1>2, <2>1, <2>2 DEF PPKListArrives, Types, Rows, feed, link
<1>3. ASSUME PPKListFails PROVE Types'
  <2>1. ppk' \in Provider(Rows)
    BY <1>0, <1>3, ProviderSteps DEF PPKListFails
  <2> QED
    BY <1>3, <2>1 DEF PPKListFails, Types, Rows, feed, link, history
<1>4. ASSUME LoadEvents PROVE Types'
  <2>1. events' \in Provider(Lists)
    BY <1>0, <1>4, ProviderSteps DEF LoadEvents
  <2> QED
    BY <1>4, <2>1 DEF LoadEvents, Types, Lists, feed, link, history
<1>5. ASSUME EventsArrive PROVE Types'
  <2>1. events' \in Provider(Lists)
    BY <1>0, <1>5, ProviderSteps DEF EventsArrive
  <2>2. undone' \in [ppk : SUBSET EventIds, events : SUBSET EventIds]
    <3> DEFINE more == (ToSet(events.data) \ ToSet(events.answer)) \cap LastEvents
    <3>1. undone' = [undone EXCEPT !.events = undone.events \cup more]
      BY <1>5 DEF EventsArrive
    <3>2. undone \in [ppk : SUBSET EventIds, events : SUBSET EventIds]
      BY DEF Types
    <3>3. undone.events \cup more \in SUBSET EventIds
      BY <3>2, LastEventsTyped
    <3> HIDE DEF more
    <3> QED
      BY <3>1, <3>2, <3>3, HistoryTypes
  <2> QED
    BY <1>5, <2>1, <2>2 DEF EventsArrive, Types, Lists, feed, link
<1>6. ASSUME EventsFail PROVE Types'
  <2>1. events' \in Provider(Lists)
    BY <1>0, <1>6, ProviderSteps DEF EventsFail
  <2> QED
    BY <1>6, <2>1 DEF EventsFail, Types, Lists, feed, link, history
<1>7. ASSUME HandlePPKUpdate PROVE Types'
  <2> DEFINE e == Head(wire).event
  <2>1. e \in EventIds /\ Tail(wire) \in Seq(Messages)
    BY <1>7, TakeTypes DEF HandlePPKUpdate, Delivers
  <2>2. [ppk.data EXCEPT ![owner[e]] = e] \in Rows
    <3>1. e \in 0 .. MaxEvents
      BY <2>1, UiAssumption DEF EventIds
    <3> QED
      BY <1>0, <3>1 DEF Rows
  <2>3. ppk' \in Provider(Rows)
    <3>1. [ppk EXCEPT !.data[owner[e]] = e]
            = [ppk EXCEPT !.data = [ppk.data EXCEPT ![owner[e]] = e]]
      BY <1>0 DEF Provider
    <3>2. [ppk EXCEPT !.data[owner[e]] = e] \in Provider(Rows)
      BY <1>0, <2>2, <3>1, ProviderSteps
    <3> QED
      BY <1>0, <1>7, <3>2 DEF HandlePPKUpdate
  <2>4. lost' \in [ppk : SUBSET EventIds, events : SUBSET EventIds]
    BY <1>7, <2>1, LoseTypes DEF HandlePPKUpdate
  <2>5. undone' \in [ppk : SUBSET EventIds, events : SUBSET EventIds]
    BY <1>7, UndoneIs DEF HandlePPKUpdate, Types
  <2> QED
    BY <1>7, <2>1, <2>3, <2>4, <2>5 DEF HandlePPKUpdate, TakeMessage, Types, Rows, feed
<1>8. ASSUME HandleEventUpdate PROVE Types'
  <2> DEFINE e == Head(wire).event
             list == <<e>> \o events.data
  <2>1. e \in EventIds /\ Tail(wire) \in Seq(Messages)
    BY <1>8, TakeTypes DEF HandleEventUpdate, Delivers
  <2>2. events.data \in Seq(EventIds)
    BY <1>0, EventLists DEF Lists
  <2>3. list \in Seq(EventIds) /\ Kept(list) \in Lists
    BY <2>1, <2>2, KeptIs, EventLists DEF Lists
  <2>4. events' \in Provider(Lists)
    BY <1>0, <1>8, <2>3, ProviderSteps, ZenonT(40) DEF HandleEventUpdate, Kept
  <2>5. lost' \in [ppk : SUBSET EventIds, events : SUBSET EventIds]
    BY <1>8, <2>1, LoseTypes DEF HandleEventUpdate
  <2> QED
    BY <1>8, <2>1, <2>4, <2>5
       DEF HandleEventUpdate, TakeMessage, Types, Lists, feed
<1>9. ASSUME SortEvents PROVE Types'
  <2> DEFINE places == DOMAIN events.data
  <2>1. PICK from \in Bijection(places, places) :
          events' = [events EXCEPT !.data = [i \in places |-> events.data[from[i]]]]
    BY <1>9 DEF SortEvents
  <2>2. events.data \in Seq(EventIds) /\ Len(events.data) <= Limit
    BY <1>0, EventLists DEF Lists
  <2>3. \A i \in places : from[i] \in places
    BY DEF Bijection, Injection
  <2>4. [i \in places |-> events.data[from[i]]] \in Lists
    <3> DEFINE t == [i \in places |-> events.data[from[i]]]
    <3>1. t \in Seq(EventIds) /\ Len(t) = Len(events.data)
      BY <2>2, <2>3, Reordered
    <3> HIDE DEF t
    <3>2. t \in Lists
      BY <2>2, <3>1, EventLists DEF Lists
    <3> QED
      BY <3>2 DEF t
  <2>5. events' \in Provider(Lists)
    BY <1>0, <2>1, <2>4, ProviderSteps
  <2>6. sorts' \in 0 .. MaxSorts /\ loaded' \in 0 .. MaxEvents
    BY <1>9, UiAssumption DEF SortEvents, Types
  <2> QED
    BY <1>9, <2>5, <2>6 DEF SortEvents, Types, Lists, feed, link
<1> QED
  BY <1>1, <1>2, <1>3, <1>4, <1>5, <1>6, <1>7, <1>8, <1>9 DEF Application

LEMMA NextTypes == Types /\ [Next]_vars => Types'
<1>1. Types /\ UNCHANGED vars => Types'
  BY DEF Types, vars, feed, link, history
<1> QED
  BY <1>1, ServerTypes, SocketTypes, ApplicationTypes DEF Next

-----------------------------------------------------------------------------
(* Pushes under way: what is in the WebSocket, then what is in the channel. *)

Pushes(w, chan, type) == EventsIn(w, type) \cup ToSet(chan)

\* They are in the order in which they were stored, n events so far.
InOrder(w, chan, type, n) ==
  /\ \A i, j \in DOMAIN w :
       i < j /\ w[i].type = type /\ w[j].type = type => w[i].event < w[j].event
  /\ \A i, j \in DOMAIN chan : i < j => chan[i] < chan[j]
  /\ \A i \in DOMAIN w, j \in DOMAIN chan :
       w[i].type = type => w[i].event < chan[j]
  /\ \A i \in DOMAIN w : w[i].type = type => w[i].event <= n
  /\ \A j \in DOMAIN chan : chan[j] <= n

LEMMA MessageTypes ==
  ASSUME NEW w \in Seq(Messages)
  PROVE  \A i \in DOMAIN w : w[i].event \in Nat /\ w[i].event \in EventIds
<1>1. \A m \in Messages : m.event \in EventIds
  BY DEF Messages
<1>2. \A i \in DOMAIN w : w[i] \in Messages
  OBVIOUS
<1> QED
  BY <1>1, <1>2 DEF EventIds

\* Only what was stored is pushed.
LEMMA PushesBounded ==
  ASSUME NEW w \in Seq(Messages), NEW chan \in Seq(EventIds), NEW type, NEW n \in Nat,
         InOrder(w, chan, type, n)
  PROVE  \A e \in Pushes(w, chan, type) : e \in 1 .. n
<1>1. \A i \in DOMAIN w : w[i].event \in EventIds
  BY MessageTypes
<1>2. \A j \in DOMAIN chan : chan[j] \in EventIds
  OBVIOUS
<1> QED
  BY <1>1, <1>2 DEF Pushes, EventsIn, ToSet, InOrder, EventIds

\* An event is stored and offered to the channel.
LEMMA OfferOrder ==
  ASSUME NEW w \in Seq(Messages), NEW chan \in Seq(EventIds), NEW type,
         NEW n \in Nat, InOrder(w, chan, type, n)
  PROVE  /\ InOrder(w, Offer(chan, n + 1), type, n + 1)
         /\ Pushes(w, chan, type) \subseteq Pushes(w, Offer(chan, n + 1), type)
         /\ Pushes(w, Offer(chan, n + 1), type) \subseteq Pushes(w, chan, type) \cup {n + 1}
         /\ n + 1 \in Pushes(w, Offer(chan, n + 1), type) \cup Overflow(chan, n + 1)
<1> DEFINE c == Append(chan, n + 1)
<1>0. \A i \in DOMAIN w : w[i].event \in Nat
  BY MessageTypes
<1>a. \A i \in DOMAIN chan : chan[i] \in Nat
  <2>1. EventIds \subseteq Nat
    BY DEF EventIds
  <2>2. \A i \in DOMAIN chan : chan[i] \in EventIds
    OBVIOUS
  <2> QED
    BY <2>1, <2>2
<1>1. CASE Len(chan) < ChanSize
  <2>1. /\ DOMAIN c = 1 .. Len(chan) + 1 /\ Len(chan) \in Nat
        /\ DOMAIN chan = 1 .. Len(chan)
        /\ c[Len(chan) + 1] = n + 1
        /\ \A i \in 1 .. Len(chan) : c[i] = chan[i]
    OBVIOUS
  <2> HIDE DEF c
  <2>2. InOrder(w, c, type, n + 1)
    <3>1. \A i, j \in DOMAIN c : i < j => c[i] < c[j]
      <4> SUFFICES ASSUME NEW i \in 1 .. Len(chan) + 1, NEW j \in 1 .. Len(chan) + 1, i < j
                   PROVE  c[i] < c[j]
        BY <2>1
      <4>1. i \in 1 .. Len(chan) /\ c[i] = chan[i] /\ chan[i] <= n /\ chan[i] \in Nat
        BY <1>a, <2>1 DEF InOrder
      <4>2. CASE j = Len(chan) + 1
        BY <2>1, <4>1, <4>2
      <4>3. CASE j # Len(chan) + 1
        BY <2>1, <4>1, <4>3 DEF InOrder
      <4> QED
        BY <4>2, <4>3
    <3>2. \A i \in DOMAIN w, j \in DOMAIN c : w[i].type = type => w[i].event < c[j]
      BY <1>0, <2>1 DEF InOrder
    <3>3. \A j \in DOMAIN c : c[j] <= n + 1
      BY <1>a, <2>1 DEF InOrder
    <3> QED
      BY <1>0, <3>1, <3>2, <3>3 DEF InOrder
  <2>3. ToSet(c) = ToSet(chan) \cup {n + 1}
    BY <2>1 DEF ToSet
  <2> QED
    BY <1>1, <2>2, <2>3 DEF Offer, Pushes, c
<1>2. CASE ~(Len(chan) < ChanSize)
  <2>1. InOrder(w, chan, type, n + 1)
    BY <1>0, <1>a DEF InOrder
  <2> QED
    BY <1>2, <2>1 DEF Offer, Overflow, Pushes
<1> QED
  BY <1>1, <1>2

\* The broadcaster takes the oldest event out of the channel.
LEMMA ChanTaken ==
  ASSUME NEW chan \in Seq(EventIds), chan # <<>>
  PROVE  /\ DOMAIN Tail(chan) = 1 .. Len(chan) - 1 /\ Len(chan) \in Nat \ {0}
         /\ DOMAIN chan = 1 .. Len(chan)
         /\ \A i \in 1 .. Len(chan) - 1 : Tail(chan)[i] = chan[i + 1]
         /\ Head(chan) = chan[1]
         /\ Tail(chan) \in Seq(EventIds)
         /\ ToSet(chan) = ToSet(Tail(chan)) \cup {Head(chan)}
<1>1. /\ DOMAIN Tail(chan) = 1 .. Len(chan) - 1 /\ Len(chan) \in Nat \ {0}
      /\ DOMAIN chan = 1 .. Len(chan)
      /\ \A i \in 1 .. Len(chan) - 1 : Tail(chan)[i] = chan[i + 1]
      /\ Head(chan) = chan[1]
      /\ Tail(chan) \in Seq(EventIds)
  OBVIOUS
<1>2. ASSUME NEW e \in ToSet(chan) PROVE e \in ToSet(Tail(chan)) \cup {Head(chan)}
  <2>1. PICK i \in 1 .. Len(chan) : e = chan[i]
    BY <1>1 DEF ToSet
  <2>2. i # 1 => i - 1 \in 1 .. Len(chan) - 1 /\ Tail(chan)[i - 1] = e
    BY <1>1, <2>1
  <2> QED
    BY <1>1, <2>1, <2>2 DEF ToSet
<1>3. ToSet(Tail(chan)) \cup {Head(chan)} \subseteq ToSet(chan)
  BY <1>1 DEF ToSet
<1> QED
  BY <1>1, <1>2, <1>3

\* It is lost.
LEMMA DropOrder ==
  ASSUME NEW w \in Seq(Messages), NEW chan \in Seq(EventIds), NEW type,
         NEW n \in Nat, InOrder(w, chan, type, n), chan # <<>>
  PROVE  /\ InOrder(w, Tail(chan), type, n)
         /\ Pushes(w, Tail(chan), type) \subseteq Pushes(w, chan, type)
         /\ Pushes(w, chan, type) \subseteq Pushes(w, Tail(chan), type) \cup {Head(chan)}
<1>1. InOrder(w, Tail(chan), type, n)
  BY ChanTaken DEF InOrder
<1> QED
  BY <1>1, ChanTaken DEF Pushes

LEMMA WireGrows ==
  ASSUME NEW w \in Seq(Messages), NEW m \in Messages, NEW type
  PROVE  /\ DOMAIN Append(w, m) = 1 .. Len(w) + 1 /\ Len(w) \in Nat
         /\ DOMAIN w = 1 .. Len(w)
         /\ Append(w, m)[Len(w) + 1] = m
         /\ \A i \in 1 .. Len(w) : Append(w, m)[i] = w[i]
         /\ EventsIn(Append(w, m), type)
              = EventsIn(w, type) \cup (IF m.type = type THEN {m.event} ELSE {})
<1> DEFINE v == Append(w, m)
<1>1. /\ DOMAIN v = 1 .. Len(w) + 1 /\ Len(w) \in Nat
      /\ DOMAIN w = 1 .. Len(w)
      /\ v[Len(w) + 1] = m
      /\ \A i \in 1 .. Len(w) : v[i] = w[i]
  OBVIOUS
<1> HIDE DEF v
<1>2. EventsIn(v, type) = EventsIn(w, type) \cup (IF m.type = type THEN {m.event} ELSE {})
  BY <1>1 DEF EventsIn
<1> QED
  BY <1>1, <1>2 DEF v

\* It is sent.
LEMMA SendOrder ==
  ASSUME NEW w \in Seq(Messages), NEW chan \in Seq(EventIds),
         NEW type \in {"ppk_update", "event_update"},
         NEW n \in Nat, InOrder(w, chan, type, n), chan # <<>>
  PROVE  LET v == Append(w, [type |-> type, event |-> Head(chan)])
         IN  /\ InOrder(v, Tail(chan), type, n)
             /\ Pushes(v, Tail(chan), type) = Pushes(w, chan, type)
<1> DEFINE m == [type |-> type, event |-> Head(chan)]
           v == Append(w, m)
<1>0. Head(chan) \in EventIds
  OBVIOUS
<1>1. m \in Messages /\ m.type = type /\ m.event = Head(chan)
  BY <1>0 DEF Messages
<1> HIDE DEF m
<1>2. /\ DOMAIN v = 1 .. Len(w) + 1 /\ Len(w) \in Nat
      /\ DOMAIN w = 1 .. Len(w)
      /\ v[Len(w) + 1] = m
      /\ \A i \in 1 .. Len(w) : v[i] = w[i]
      /\ EventsIn(v, type) = EventsIn(w, type) \cup {Head(chan)}
  BY <1>1, WireGrows
<1> HIDE DEF v
<1>3. InOrder(v, Tail(chan), type, n)
  <2>1. \A i, j \in DOMAIN v :
          i < j /\ v[i].type = type /\ v[j].type = type => v[i].event < v[j].event
    BY <1>1, <1>2, ChanTaken DEF InOrder
  <2>2. \A i, j \in DOMAIN Tail(chan) : i < j => Tail(chan)[i] < Tail(chan)[j]
    BY ChanTaken DEF InOrder
  <2>3. \A i \in DOMAIN v, j \in DOMAIN Tail(chan) :
          v[i].type = type => v[i].event < Tail(chan)[j]
    BY <1>1, <1>2, ChanTaken, SMTT(30) DEF InOrder
  <2>4. \A i \in DOMAIN v : v[i].type = type => v[i].event <= n
    BY <1>1, <1>2, ChanTaken DEF InOrder
  <2>5. \A j \in DOMAIN Tail(chan) : Tail(chan)[j] <= n
    BY ChanTaken DEF InOrder
  <2> QED
    BY <2>1, <2>2, <2>3, <2>4, <2>5 DEF InOrder
<1>4. Pushes(v, Tail(chan), type) = Pushes(w, chan, type)
  BY <1>2, ChanTaken DEF Pushes
<1> QED
  BY <1>3, <1>4 DEF v, m

\* A push of the other type does not count.
LEMMA OtherSent ==
  ASSUME NEW w \in Seq(Messages), NEW chan \in Seq(EventIds), NEW type,
         NEW n \in Nat, InOrder(w, chan, type, n), NEW m \in Messages, m.type # type
  PROVE  /\ InOrder(Append(w, m), chan, type, n)
         /\ Pushes(Append(w, m), chan, type) = Pushes(w, chan, type)
<1> DEFINE v == Append(w, m)
<1>1. /\ DOMAIN v = 1 .. Len(w) + 1 /\ Len(w) \in Nat
      /\ DOMAIN w = 1 .. Len(w)
      /\ v[Len(w) + 1] = m
      /\ \A i \in 1 .. Len(w) : v[i] = w[i]
      /\ EventsIn(v, type) = EventsIn(w, type) \cup (IF m.type = type THEN {m.event} ELSE {})
  BY WireGrows
<1>a. EventsIn(v, type) = EventsIn(w, type)
  BY <1>1
<1> HIDE DEF v
<1>2. InOrder(v, chan, type, n)
  BY <1>1, SMTT(30) DEF InOrder
<1> QED
  BY <1>a, <1>2 DEF v, Pushes

\* The connection breaks.
LEMMA CutOrder ==
  ASSUME NEW w \in Seq(Messages), NEW chan \in Seq(EventIds), NEW type,
         NEW n \in Nat, InOrder(w, chan, type, n), NEW k \in 0 .. Len(w)
  PROVE  LET v == SubSeq(w, 1, k)
             rest == SubSeq(w, k + 1, Len(w))
         IN  /\ InOrder(v, chan, type, n)
             /\ Pushes(v, chan, type) \subseteq Pushes(w, chan, type)
             /\ Pushes(w, chan, type)
                  \subseteq Pushes(v, chan, type) \cup EventsIn(rest, type)
<1> DEFINE v == SubSeq(w, 1, k)
           rest == SubSeq(w, k + 1, Len(w))
<1>1. /\ k \in Nat /\ Len(w) \in Nat /\ k <= Len(w)
      /\ DOMAIN w = 1 .. Len(w) /\ DOMAIN v = 1 .. k
      /\ DOMAIN rest = 1 .. Len(w) - k
      /\ \A i \in 1 .. k : v[i] = w[i]
      /\ \A i \in 1 .. Len(w) - k : rest[i] = w[k + i]
  OBVIOUS
<1> HIDE DEF v, rest
<1>2. InOrder(v, chan, type, n)
  BY <1>1 DEF InOrder
<1>3. EventsIn(v, type) \subseteq EventsIn(w, type)
  BY <1>1 DEF EventsIn
<1>4. ASSUME NEW e \in EventsIn(w, type)
      PROVE  e \in EventsIn(v, type) \cup EventsIn(rest, type)
  <2>1. PICK i \in 1 .. Len(w) : w[i].type = type /\ e = w[i].event
    BY <1>1 DEF EventsIn
  <2>2. CASE i <= k
    BY <1>1, <2>1, <2>2, SMTT(30) DEF EventsIn
  <2>3. CASE i > k
    <3>1. i - k \in 1 .. Len(w) - k /\ k + (i - k) = i
      BY <1>1, <2>1, <2>3
    <3>2. rest[i - k] = w[i]
      BY <1>1, <3>1
    <3> QED
      BY <1>1, <2>1, <3>1, <3>2 DEF EventsIn
  <2> QED
    BY <1>1, <2>1, <2>2, <2>3
<1> QED
  BY <1>2, <1>3, <1>4 DEF v, rest, Pushes

LEMMA WireTaken ==
  ASSUME NEW w \in Seq(Messages), w # <<>>, NEW type
  PROVE  /\ DOMAIN Tail(w) = 1 .. Len(w) - 1 /\ Len(w) \in Nat \ {0}
         /\ DOMAIN w = 1 .. Len(w)
         /\ \A i \in 1 .. Len(w) - 1 : Tail(w)[i] = w[i + 1]
         /\ Head(w) = w[1]
         /\ EventsIn(w, type) = EventsIn(Tail(w), type)
              \cup (IF Head(w).type = type THEN {Head(w).event} ELSE {})
<1> DEFINE v == Tail(w)
<1>1. /\ DOMAIN v = 1 .. Len(w) - 1 /\ Len(w) \in Nat \ {0}
      /\ DOMAIN w = 1 .. Len(w)
      /\ \A i \in 1 .. Len(w) - 1 : v[i] = w[i + 1]
      /\ Head(w) = w[1]
  OBVIOUS
<1> HIDE DEF v
<1>2. ASSUME NEW e \in EventsIn(w, type)
      PROVE  e \in EventsIn(v, type) \cup (IF w[1].type = type THEN {w[1].event} ELSE {})
  <2>1. PICK i \in 1 .. Len(w) : w[i].type = type /\ e = w[i].event
    BY <1>1, <1>2 DEF EventsIn
  <2>2. i # 1 => i - 1 \in 1 .. Len(w) - 1 /\ v[i - 1] = w[i]
    BY <1>1, <2>1
  <2> QED
    BY <1>1, <2>1, <2>2 DEF EventsIn
<1>3. EventsIn(v, type) \cup (IF w[1].type = type THEN {w[1].event} ELSE {})
        \subseteq EventsIn(w, type)
  BY <1>1, SMTT(30) DEF EventsIn
<1> QED
  BY <1>1, <1>2, <1>3 DEF v

\* The application takes a push out of the WebSocket: all that are left are later.
LEMMA TakeOrder ==
  ASSUME NEW w \in Seq(Messages), NEW chan \in Seq(EventIds), NEW type,
         NEW n \in Nat, InOrder(w, chan, type, n), w # <<>>
  PROVE  /\ InOrder(Tail(w), chan, type, n)
         /\ Pushes(w, chan, type) = Pushes(Tail(w), chan, type)
              \cup (IF Head(w).type = type THEN {Head(w).event} ELSE {})
         /\ Head(w).type = type =>
              \A f \in Pushes(Tail(w), chan, type) : Head(w).event < f
<1> DEFINE v == Tail(w)
<1>1. /\ DOMAIN v = 1 .. Len(w) - 1 /\ Len(w) \in Nat \ {0}
      /\ DOMAIN w = 1 .. Len(w)
      /\ \A i \in 1 .. Len(w) - 1 : v[i] = w[i + 1]
      /\ Head(w) = w[1]
      /\ EventsIn(w, type) = EventsIn(v, type)
           \cup (IF Head(w).type = type THEN {Head(w).event} ELSE {})
  BY WireTaken
<1> HIDE DEF v
<1>a. \A i \in 1 .. Len(w) - 1 : i + 1 \in DOMAIN w /\ v[i] = w[i + 1]
  BY <1>1
<1>2. InOrder(v, chan, type, n)
  <2>1. ASSUME NEW i \in 1 .. Len(w) - 1, NEW j \in 1 .. Len(w) - 1, i < j,
               v[i].type = type, v[j].type = type
        PROVE  v[i].event < v[j].event
    BY <1>a, <2>1, SMTT(30) DEF InOrder
  <2>2. ASSUME NEW i \in 1 .. Len(w) - 1, NEW j \in DOMAIN chan, v[i].type = type
        PROVE  v[i].event < chan[j]
    BY <1>a, <2>2 DEF InOrder
  <2>3. ASSUME NEW i \in 1 .. Len(w) - 1, v[i].type = type PROVE v[i].event <= n
    BY <1>a, <2>3 DEF InOrder
  <2> QED
    BY <1>1, <2>1, <2>2, <2>3 DEF InOrder
<1>3. ASSUME Head(w).type = type, NEW f \in Pushes(v, chan, type)
      PROVE  Head(w).event < f
  <2>1. CASE f \in EventsIn(v, type)
    <3>1. PICK i \in 1 .. Len(w) - 1 : v[i].type = type /\ f = v[i].event
      BY <1>1, <2>1 DEF EventsIn
    <3>2. 1 \in DOMAIN w /\ i + 1 \in DOMAIN w /\ 1 < i + 1 /\ w[i + 1] = v[i]
      BY <1>1, <1>a
    <3> QED
      BY <1>1, <1>3, <3>1, <3>2 DEF InOrder
  <2>2. CASE f \in ToSet(chan)
    BY <1>1, <1>3, <2>2, SMTT(30) DEF ToSet, InOrder
  <2> QED
    BY <1>3, <2>1, <2>2 DEF Pushes
<1> QED
  BY <1>1, <1>2, <1>3 DEF v, Pushes

-----------------------------------------------------------------------------
(* The invariant. *)

DevicePushes == Pushes(wire, deviceChan, "ppk_update")
EventPushes == Pushes(wire, eventChan, "event_update")

OrderInv ==
  /\ InOrder(wire, deviceChan, "ppk_update", Len(owner))
  /\ InOrder(wire, eventChan, "event_update", Len(owner))

\* Who awaits an answer was made, and shows no error.
LoadInv ==
  /\ ppk.load # "idle" => ppk.made /\ ~ppk.error
  /\ events.load # "idle" => events.made /\ ~events.error

\* A device is shown with something that was stored; a push that was not under
\* way at the snapshot is no older; and the last event of a device is lost or
\* was wiped out, or its push is under way, or it is shown or answered.
DeviceInv ==
  /\ \A d \in Devices :
       /\ ppk.data[d] <= LastOf(d)
       /\ ppk.load = "answered" => ppk.answer[d] <= LastOf(d)
  /\ \A f \in DevicePushes \ underWay.ppk :
       /\ ppk.data[owner[f]] <= f
       /\ ppk.load = "answered" => ppk.answer[owner[f]] <= f
  /\ ppk.made /\ ~ppk.error /\ ppk.load # "asked" =>
       \A d \in Devices :
         \/ LastOf(d) \in lost.ppk \cup undone.ppk \cup DevicePushes
         \/ LastOf(d) = ppk.data[d]
         \/ ppk.load = "answered" /\ LastOf(d) = ppk.answer[d]

\* The first k events of the list are in order and older than all pushes, and
\* the others were stored when the list was last put in order.
Headed(k) ==
  /\ \A i, j \in 1 .. k : i < j => events.data[j] < events.data[i]
  /\ \A i \in 1 .. k, f \in EventPushes : events.data[i] < f
  /\ \A i \in k + 1 .. Len(events.data) : events.data[i] <= loaded

ListInv ==
  /\ loaded <= Len(owner)
  /\ events.load = "answered" => ToSet(events.answer) \subseteq 1 .. loaded
  /\ \E k \in 0 .. Len(events.data) : Headed(k)

EventInv ==
  events.made /\ ~events.error /\ events.load # "asked" =>
    \A e \in LastEvents :
      IF events.load = "answered" /\ e <= loaded THEN e \in ToSet(events.answer)
      ELSE \/ e \in lost.events \cup undone.events \cup EventPushes \cup ToSet(events.data)
           \/ e <= loaded /\ Len(events.data) = Limit

Twice(s) == {e \in ToSet(s) : \E i, j \in DOMAIN s : i # j /\ s[i] = e /\ s[j] = e}
Loaded == events.made /\ events.load = "idle" /\ ~events.error

\* What may be in the list and pushed again.
Excused == IF Loaded THEN underWay.events ELSE {}

DoubleInv ==
  /\ ToSet(events.data) \cup ToSet(events.answer) \subseteq Stored
  /\ Twice(events.data) \subseteq Excused
  /\ ToSet(events.data) \cap EventPushes \subseteq Excused
  /\ events.load = "answered" =>
       Twice(events.answer) = {} /\ ToSet(events.answer) \cap EventPushes \subseteq underWay.events

UiInv == Types /\ OrderInv /\ LoadInv /\ DeviceInv /\ ListInv /\ EventInv /\ DoubleInv

-----------------------------------------------------------------------------
(* The load of a provider. *)

\* What a step of a load does with each part of a provider.
LEMMA ProviderIs ==
  ASSUME NEW Data, NEW p \in Provider(Data), NEW x \in Data
  PROVE  /\ Asks(p).made /\ Asks(p).data = p.data /\ Asks(p).load = "asked"
         /\ Asks(p).answer = p.answer /\ ~Asks(p).error
         /\ Answers(p, x).made = p.made /\ Answers(p, x).data = p.data
         /\ Answers(p, x).load = "answered" /\ Answers(p, x).answer = x
         /\ Answers(p, x).error = p.error
         /\ Takes(p, x).made = p.made /\ Takes(p, x).data = p.answer
         /\ Takes(p, x).load = "idle" /\ Takes(p, x).answer = x /\ ~Takes(p, x).error
         /\ Fails(p, x).made = p.made /\ Fails(p, x).data = x
         /\ Fails(p, x).load = "idle" /\ Fails(p, x).answer = x /\ Fails(p, x).error
         /\ [p EXCEPT !.data = x].made = p.made /\ [p EXCEPT !.data = x].data = x
         /\ [p EXCEPT !.data = x].load = p.load /\ [p EXCEPT !.data = x].answer = p.answer
         /\ [p EXCEPT !.data = x].error = p.error
BY DEF Provider, Asks, Answers, Takes, Fails

LEMMA ProvidersTyped ==
  ASSUME Types
  PROVE  /\ ppk \in Provider([Devices -> 0 .. MaxEvents])
         /\ ppk.data \in [Devices -> 0 .. MaxEvents]
         /\ ppk.answer \in [Devices -> 0 .. MaxEvents]
         /\ events \in Provider(Seqs(EventIds, Limit))
         /\ events.data \in Seqs(EventIds, Limit) /\ events.data \in Seq(EventIds)
         /\ events.answer \in Seqs(EventIds, Limit) /\ events.answer \in Seq(EventIds)
         /\ Nothing \in [Devices -> 0 .. MaxEvents]
         /\ PpkSnapshot \in [Devices -> 0 .. MaxEvents]
         /\ <<>> \in Seqs(EventIds, Limit)
         /\ EventSnapshot \in Seqs(EventIds, Limit)
<1>1. PpkSnapshot \in [Devices -> 0 .. MaxEvents]
  BY LastOfType DEF PpkSnapshot
<1>2. Nothing \in [Devices -> 0 .. MaxEvents]
  BY UiAssumption DEF Nothing
<1>3. ppk \in Provider([Devices -> 0 .. MaxEvents]) /\ events \in Provider(Seqs(EventIds, Limit))
  BY DEF Types
<1> QED
  BY <1>1, <1>2, <1>3, NoEvents, SnapshotType, ProviderFields, EventLists

LEMMA InitLoads == Init => LoadInv
BY DEF Init, LoadInv

\* No step starts the load of a provider that was not made or shows an error.
LEMMA NextLoads == Types /\ LoadInv /\ [Next]_vars => LoadInv'
<1> SUFFICES ASSUME Types, LoadInv, [Next]_vars PROVE LoadInv'
  OBVIOUS
<1>0. UNCHANGED <<ppk, events>> => LoadInv'
  BY DEF LoadInv
<1>1. ASSUME Server PROVE LoadInv'
  <2>1. ASSUME NEW d \in Devices, Report(d) PROVE LoadInv'
    BY <1>0, <2>1 DEF Report
  <2>2. CASE BroadcastPPKUpdate
    BY <1>0, <2>2 DEF BroadcastPPKUpdate
  <2>3. CASE BroadcastEventUpdate
    BY <1>0, <2>3 DEF BroadcastEventUpdate
  <2>4. CASE GetPPKList
    BY <2>4, ProvidersTyped, ProviderIs DEF GetPPKList, LoadInv
  <2>5. CASE GetEvents
    BY <2>5, ProvidersTyped, ProviderIs DEF GetEvents, LoadInv
  <2> QED
    BY <1>1, <2>1, <2>2, <2>3, <2>4, <2>5 DEF Server
<1>2. ASSUME Socket PROVE LoadInv'
  BY <1>0, <1>2 DEF Socket, Upgrade, OpenFails, Break, HandleDisconnect, Reconnect
<1>3. ASSUME Application PROVE LoadInv'
  <2>1. CASE LoadPPKList
    <3>1. ppk' = Asks(ppk) /\ events' = events
      BY <2>1 DEF LoadPPKList
    <3>2. Asks(ppk).made /\ ~Asks(ppk).error
      BY ProvidersTyped, ProviderIs, ZenonT(40)
    <3> QED
      BY <3>1, <3>2 DEF LoadInv
  <2>2. CASE PPKListArrives
    BY <2>2, ProvidersTyped, ProviderIs DEF PPKListArrives, LoadInv
  <2>3. CASE PPKListFails
    BY <2>3, ProvidersTyped, ProviderIs DEF PPKListFails, LoadInv
  <2>4. CASE LoadEvents
    BY <2>4, ProvidersTyped, ProviderIs DEF LoadEvents, LoadInv
  <2>5. CASE EventsArrive
    BY <2>5, ProvidersTyped, ProviderIs DEF EventsArrive, LoadInv
  <2>6. CASE EventsFail
    BY <2>6, ProvidersTyped, ProviderIs DEF EventsFail, LoadInv
  <2>7. CASE HandlePPKUpdate
    BY <2>7, ProvidersTyped DEF HandlePPKUpdate, LoadInv, Provider
  <2>8. CASE HandleEventUpdate
    BY <2>8, ProvidersTyped DEF HandleEventUpdate, LoadInv, Provider
  <2>9. CASE SortEvents
    BY <2>9, ProvidersTyped DEF SortEvents, LoadInv, Provider
  <2> QED
    BY <1>3, <2>1, <2>2, <2>3, <2>4, <2>5, <2>6, <2>7, <2>8, <2>9 DEF Application
<1> QED
  BY <1>0, <1>1, <1>2, <1>3 DEF Next, vars

-----------------------------------------------------------------------------
(* What the steps do with the pushes. *)

\* Nothing is stored, and of the last events none gets out of sight.
KeepsDevices ==
  /\ UNCHANGED owner
  /\ DevicePushes' \subseteq DevicePushes
  /\ (lost.ppk \cup (DevicePushes \ DevicePushes')) \cap LastUpdates \subseteq lost'.ppk
  /\ undone'.ppk = undone.ppk /\ underWay'.ppk = underWay.ppk

KeepsEvents ==
  /\ UNCHANGED owner
  /\ EventPushes' \subseteq EventPushes
  /\ (lost.events \cup (EventPushes \ EventPushes')) \cap LastEvents \subseteq lost'.events
  /\ undone'.events = undone.events /\ underWay'.events = underWay.events

LEMMA SameLast ==
  owner' = owner => /\ LastUpdates' = LastUpdates /\ LastEvents' = LastEvents
                    /\ Stored' = Stored /\ \A d : LastOf(d)' = LastOf(d)
BY DEF LastUpdates, LastEvents, LastOf, Stored

\* What is lost when nothing is stored.
LEMMA LoseIs ==
  ASSUME NEW X, NEW Y, LoseUpdates(X, Y), owner' = owner
  PROVE  /\ lost'.ppk = (lost.ppk \cup X) \cap LastUpdates
         /\ lost'.events = (lost.events \cup Y) \cap LastEvents
BY SameLast DEF LoseUpdates

\* Pushes that are left alone stay in order.
LEMMA QuietKeeps ==
  ASSUME UNCHANGED <<feed, wire>>
  PROVE  /\ OrderInv => OrderInv'
         /\ lost'.ppk = lost.ppk /\ undone'.ppk = undone.ppk /\ underWay'.ppk = underWay.ppk
              => KeepsDevices
         /\ lost'.events = lost.events /\ undone'.events = undone.events
            /\ underWay'.events = underWay.events => KeepsEvents
<1>1. DevicePushes' = DevicePushes /\ EventPushes' = EventPushes /\ UNCHANGED owner
  BY DEF feed, DevicePushes, EventPushes
<1>2. OrderInv => OrderInv'
  BY DEF feed, OrderInv
<1> QED
  BY <1>1, <1>2 DEF KeepsDevices, KeepsEvents

\* A device update leaves the channel: it is sent, or lost.
LEMMA BroadcastPPKKeeps ==
  Types /\ OrderInv /\ BroadcastPPKUpdate => KeepsDevices /\ KeepsEvents /\ OrderInv'
<1> SUFFICES ASSUME Types, OrderInv, BroadcastPPKUpdate
             PROVE  KeepsDevices /\ KeepsEvents /\ OrderInv'
  OBVIOUS
<1> DEFINE e == Head(deviceChan)
           m == [type |-> "ppk_update", event |-> e]
           n == Len(owner)
<1>1. /\ deviceChan # <<>> /\ deviceChan' = Tail(deviceChan) /\ owner' = owner
      /\ eventChan' = eventChan
      /\ wire' = IF channel = "open" THEN Append(wire, m) ELSE wire
      /\ LoseUpdates(IF channel = "open" THEN {} ELSE {e}, {})
      /\ UNCHANGED <<undone, underWay>>
  BY DEF BroadcastPPKUpdate, Send
<1>2. /\ wire \in Seq(Messages) /\ deviceChan \in Seq(EventIds) /\ n \in Nat
      /\ eventChan \in Seq(EventIds) /\ e \in EventIds
  BY <1>1 DEF Types
<1>3. InOrder(wire, deviceChan, "ppk_update", n) /\ InOrder(wire, eventChan, "event_update", n)
  BY DEF OrderInv
<1>4. m \in Messages /\ m.type = "ppk_update"
  BY <1>2 DEF Messages
<1> HIDE DEF m, e, n
<1>5. InOrder(wire', deviceChan', "ppk_update", n)
  <2>1. CASE channel = "open"
    BY <1>1, <1>2, <1>3, <2>1, SendOrder DEF m, e
  <2>2. CASE channel # "open"
    BY <1>1, <1>2, <1>3, <2>2, DropOrder
  <2> QED
    BY <2>1, <2>2
<1>6. /\ DevicePushes' \subseteq DevicePushes
      /\ DevicePushes \subseteq DevicePushes' \cup (IF channel = "open" THEN {} ELSE {e})
  <2>1. CASE channel = "open"
    BY <1>1, <1>2, <1>3, <2>1, SendOrder DEF DevicePushes, m, e
  <2>2. CASE channel # "open"
    BY <1>1, <1>2, <1>3, <2>2, DropOrder DEF DevicePushes, e
  <2> QED
    BY <2>1, <2>2
<1>7. InOrder(wire', eventChan', "event_update", n) /\ EventPushes' = EventPushes
  BY <1>1, <1>2, <1>3, <1>4, OtherSent DEF EventPushes
<1>8. OrderInv'
  BY <1>1, <1>5, <1>7 DEF OrderInv, n
<1> QED
  BY <1>1, <1>6, <1>7, <1>8, LoseIs DEF KeepsDevices, KeepsEvents

\* An event update leaves the channel: it is sent, or lost.
LEMMA BroadcastEventKeeps ==
  Types /\ OrderInv /\ BroadcastEventUpdate => KeepsDevices /\ KeepsEvents /\ OrderInv'
<1> SUFFICES ASSUME Types, OrderInv, BroadcastEventUpdate
             PROVE  KeepsDevices /\ KeepsEvents /\ OrderInv'
  OBVIOUS
<1> DEFINE e == Head(eventChan)
           m == [type |-> "event_update", event |-> e]
           n == Len(owner)
<1>1. /\ eventChan # <<>> /\ eventChan' = Tail(eventChan) /\ owner' = owner
      /\ deviceChan' = deviceChan
      /\ wire' = IF channel = "open" THEN Append(wire, m) ELSE wire
      /\ LoseUpdates({}, IF channel = "open" THEN {} ELSE {e})
      /\ UNCHANGED <<undone, underWay>>
  BY DEF BroadcastEventUpdate, Send
<1>2. /\ wire \in Seq(Messages) /\ deviceChan \in Seq(EventIds) /\ n \in Nat
      /\ eventChan \in Seq(EventIds) /\ e \in EventIds
  BY <1>1 DEF Types
<1>3. InOrder(wire, deviceChan, "ppk_update", n) /\ InOrder(wire, eventChan, "event_update", n)
  BY DEF OrderInv
<1>4. m \in Messages /\ m.type = "event_update"
  BY <1>2 DEF Messages
<1> HIDE DEF m, e, n
<1>5. InOrder(wire', eventChan', "event_update", n)
  <2>1. CASE channel = "open"
    BY <1>1, <1>2, <1>3, <2>1, SendOrder DEF m, e
  <2>2. CASE channel # "open"
    BY <1>1, <1>2, <1>3, <2>2, DropOrder
  <2> QED
    BY <2>1, <2>2
<1>6. /\ EventPushes' \subseteq EventPushes
      /\ EventPushes \subseteq EventPushes' \cup (IF channel = "open" THEN {} ELSE {e})
  <2>1. CASE channel = "open"
    BY <1>1, <1>2, <1>3, <2>1, SendOrder DEF EventPushes, m, e
  <2>2. CASE channel # "open"
    BY <1>1, <1>2, <1>3, <2>2, DropOrder DEF EventPushes, e
  <2> QED
    BY <2>1, <2>2
<1>7. InOrder(wire', deviceChan', "ppk_update", n) /\ DevicePushes' = DevicePushes
  BY <1>1, <1>2, <1>3, <1>4, OtherSent DEF DevicePushes
<1>8. OrderInv'
  BY <1>1, <1>5, <1>7 DEF OrderInv, n
<1> QED
  BY <1>1, <1>6, <1>7, <1>8, LoseIs DEF KeepsDevices, KeepsEvents

\* A connection breaks: what was under way and is not delivered is lost.
LEMMA BreakKeeps == Types /\ OrderInv /\ Break => KeepsDevices /\ KeepsEvents /\ OrderInv'
<1> SUFFICES ASSUME Types, OrderInv, Break PROVE KeepsDevices /\ KeepsEvents /\ OrderInv'
  OBVIOUS
<1> DEFINE n == Len(owner)
<1>1. PICK k \in 0 .. Len(wire) :
        /\ wire' = SubSeq(wire, 1, k)
        /\ LoseUpdates(EventsIn(SubSeq(wire, k + 1, Len(wire)), "ppk_update"),
                       EventsIn(SubSeq(wire, k + 1, Len(wire)), "event_update"))
  BY DEF Break
<1>2. owner' = owner /\ deviceChan' = deviceChan /\ eventChan' = eventChan
      /\ UNCHANGED <<undone, underWay>>
  BY DEF Break, feed
<1>3. /\ wire \in Seq(Messages) /\ deviceChan \in Seq(EventIds) /\ n \in Nat
      /\ eventChan \in Seq(EventIds)
  BY DEF Types
<1>4. InOrder(wire, deviceChan, "ppk_update", n) /\ InOrder(wire, eventChan, "event_update", n)
  BY DEF OrderInv
<1> HIDE DEF n
<1>5. /\ InOrder(wire', deviceChan, "ppk_update", n)
      /\ DevicePushes' \subseteq DevicePushes
      /\ DevicePushes \subseteq DevicePushes'
           \cup EventsIn(SubSeq(wire, k + 1, Len(wire)), "ppk_update")
  BY <1>1, <1>2, <1>3, <1>4, CutOrder DEF DevicePushes
<1>6. /\ InOrder(wire', eventChan, "event_update", n)
      /\ EventPushes' \subseteq EventPushes
      /\ EventPushes \subseteq EventPushes'
           \cup EventsIn(SubSeq(wire, k + 1, Len(wire)), "event_update")
  BY <1>1, <1>2, <1>3, <1>4, CutOrder DEF EventPushes
<1>7. OrderInv'
  BY <1>2, <1>5, <1>6 DEF OrderInv, n
<1> QED
  BY <1>1, <1>2, <1>5, <1>6, <1>7, LoseIs DEF KeepsDevices, KeepsEvents

\* Every other step of the server and of the socket, the loads and the sort.
OfDevices == LoadPPKList \/ GetPPKList \/ PPKListArrives \/ PPKListFails
OfEvents == LoadEvents \/ GetEvents \/ EventsArrive \/ EventsFail \/ SortEvents
OfSocket == Upgrade \/ OpenFails \/ HandleDisconnect \/ Reconnect

\* None touches a push, and one list keeps what is known of the other.
LEMMA QuietSteps ==
  ASSUME Types
  PROVE  /\ OfDevices \/ OfEvents \/ OfSocket =>
              UNCHANGED <<feed, wire>> /\ (OrderInv => OrderInv')
         /\ OfDevices \/ OfSocket => KeepsEvents /\ UNCHANGED <<events, loaded>>
         /\ OfEvents \/ OfSocket => KeepsDevices /\ ppk' = ppk
<1>1. ASSUME NEW X \in SUBSET EventIds
      PROVE  /\ [lost EXCEPT !.ppk = X].events = lost.events
             /\ [lost EXCEPT !.events = X].ppk = lost.ppk
             /\ [undone EXCEPT !.ppk = X].events = undone.events
             /\ [undone EXCEPT !.events = X].ppk = undone.ppk
             /\ [underWay EXCEPT !.ppk = X].events = underWay.events
             /\ [underWay EXCEPT !.events = X].ppk = underWay.ppk
  BY HistoryTypes DEF Types
<1>2. OfSocket => UNCHANGED <<feed, wire, history, ppk, events>>
  BY DEF OfSocket, Upgrade, OpenFails, HandleDisconnect, Reconnect
<1>3. OfDevices => /\ UNCHANGED <<feed, wire, events, loaded>>
                   /\ lost'.events = lost.events /\ undone'.events = undone.events
                   /\ underWay'.events = underWay.events
  <2>1. CASE LoadPPKList \/ PPKListFails
    BY <2>1 DEF LoadPPKList, PPKListFails, history, link
  <2>2. CASE PPKListArrives
    BY <2>2, UndoneIs DEF PPKListArrives, link
  <2>3. CASE GetPPKList
    <3>1. ToSet(deviceChan) \cup EventsIn(wire, "ppk_update") \in SUBSET EventIds
      BY EventsInType DEF ToSet, Types
    <3> QED
      BY <1>1, <2>3, <3>1 DEF GetPPKList, link
  <2> QED
    BY <2>1, <2>2, <2>3 DEF OfDevices
<1>4. OfEvents => /\ UNCHANGED <<feed, wire, ppk>>
                  /\ lost'.ppk = lost.ppk /\ undone'.ppk = undone.ppk
                  /\ underWay'.ppk = underWay.ppk
  <2>1. CASE LoadEvents \/ EventsFail \/ SortEvents
    BY <2>1 DEF LoadEvents, EventsFail, SortEvents, history, link
  <2>2. CASE EventsArrive
    <3>1. undone.events \cup ((ToSet(events.data) \ ToSet(events.answer)) \cap LastEvents)
            \in SUBSET EventIds
      BY LastEventsTyped DEF Types
    <3> QED
      BY <1>1, <2>2, <3>1 DEF EventsArrive, link
  <2>3. CASE GetEvents
    <3>1. ToSet(eventChan) \cup EventsIn(wire, "event_update") \in SUBSET EventIds
      BY EventsInType DEF ToSet, Types
    <3> QED
      BY <1>1, <2>3, <3>1 DEF GetEvents, link
  <2> QED
    BY <2>1, <2>2, <2>3 DEF OfEvents
<1> QED
  BY <1>2, <1>3, <1>4, QuietKeeps DEF history

\* An event is stored: it is pushed, or lost.
LEMMA ReportPushes ==
  ASSUME Types, OrderInv, NEW d \in Devices, Report(d)
  PROVE  /\ OrderInv'
         /\ Len(owner) \in Nat /\ owner' \in Seq(Devices) /\ Len(owner') = Len(owner) + 1
         /\ owner'[Len(owner) + 1] = d
         /\ \A f \in 1 .. Len(owner) : owner'[f] = owner[f]
         /\ DevicePushes \subseteq DevicePushes'
         /\ DevicePushes' \subseteq DevicePushes \cup {Len(owner) + 1}
         /\ EventPushes \subseteq EventPushes'
         /\ EventPushes' \subseteq EventPushes \cup {Len(owner) + 1}
         /\ lost.ppk \cap LastUpdates' \subseteq lost'.ppk
         /\ lost.events \cap LastEvents' \subseteq lost'.events
         /\ Len(owner) + 1 \in LastUpdates' => Len(owner) + 1 \in DevicePushes' \cup lost'.ppk
         /\ Len(owner) + 1 \in LastEvents' => Len(owner) + 1 \in EventPushes' \cup lost'.events
         /\ UNCHANGED <<ppk, events, undone, underWay, loaded>>
<1> DEFINE n == Len(owner)
<1>1. /\ owner' = Append(owner, d) /\ wire' = wire
      /\ deviceChan' = Offer(deviceChan, n + 1)
      /\ eventChan' = Offer(eventChan, n + 1)
      /\ LoseUpdates(Overflow(deviceChan, n + 1), Overflow(eventChan, n + 1))
      /\ UNCHANGED <<ppk, events, undone, underWay, loaded>>
  BY DEF Report, link
<1>2. /\ wire \in Seq(Messages) /\ deviceChan \in Seq(EventIds) /\ n \in Nat
      /\ eventChan \in Seq(EventIds) /\ owner \in Seq(Devices)
  BY DEF Types
<1>3. /\ owner' \in Seq(Devices) /\ Len(owner') = n + 1 /\ owner'[n + 1] = d
      /\ \A f \in 1 .. n : owner'[f] = owner[f]
  BY <1>1, <1>2
<1>4. InOrder(wire, deviceChan, "ppk_update", n) /\ InOrder(wire, eventChan, "event_update", n)
  BY DEF OrderInv
<1> HIDE DEF n
<1>5. /\ InOrder(wire', deviceChan', "ppk_update", n + 1)
      /\ DevicePushes \subseteq DevicePushes'
      /\ DevicePushes' \subseteq DevicePushes \cup {n + 1}
      /\ n + 1 \in DevicePushes' \cup Overflow(deviceChan, n + 1)
  BY <1>1, <1>2, <1>4, OfferOrder DEF DevicePushes
<1>6. /\ InOrder(wire', eventChan', "event_update", n + 1)
      /\ EventPushes \subseteq EventPushes'
      /\ EventPushes' \subseteq EventPushes \cup {n + 1}
      /\ n + 1 \in EventPushes' \cup Overflow(eventChan, n + 1)
  BY <1>1, <1>2, <1>4, OfferOrder DEF EventPushes
<1>7. /\ lost'.ppk = (lost.ppk \cup Overflow(deviceChan, n + 1)) \cap LastUpdates'
      /\ lost'.events = (lost.events \cup Overflow(eventChan, n + 1)) \cap LastEvents'
  BY <1>1 DEF LoseUpdates
<1>8. OrderInv'
  BY <1>3, <1>5, <1>6 DEF OrderInv
<1> QED
  BY <1>1, <1>2, <1>3, <1>5, <1>6, <1>7, <1>8 DEF n

\* A pushed device is taken by the application.
LEMMA PPKTaken ==
  ASSUME Types, OrderInv, HandlePPKUpdate
  PROVE  /\ OrderInv' /\ KeepsEvents
         /\ DevicePushes = DevicePushes' \cup {Head(wire).event}
         /\ \A f \in DevicePushes' : Head(wire).event < f
<1> DEFINE n == Len(owner)
<1>1. wire # <<>> /\ Head(wire).type = "ppk_update" /\ wire' = Tail(wire) /\ UNCHANGED feed
  BY DEF HandlePPKUpdate, Delivers, TakeMessage
<1>2. /\ wire \in Seq(Messages) /\ deviceChan \in Seq(EventIds) /\ n \in Nat
      /\ eventChan \in Seq(EventIds)
  BY DEF Types
<1>3. owner' = owner /\ deviceChan' = deviceChan /\ eventChan' = eventChan
  BY <1>1 DEF feed
<1>4. InOrder(wire, deviceChan, "ppk_update", n) /\ InOrder(wire, eventChan, "event_update", n)
  BY DEF OrderInv
<1> HIDE DEF n
<1>5. /\ InOrder(wire', deviceChan', "ppk_update", n)
      /\ DevicePushes = DevicePushes' \cup {Head(wire).event}
      /\ \A f \in DevicePushes' : Head(wire).event < f
  BY <1>1, <1>2, <1>3, <1>4, TakeOrder DEF DevicePushes
<1>6. InOrder(wire', eventChan', "event_update", n) /\ EventPushes' = EventPushes
  <2>1. Head(wire).type # "event_update"
    BY <1>1
  <2>2. /\ InOrder(Tail(wire), eventChan, "event_update", n)
        /\ Pushes(wire, eventChan, "event_update") = Pushes(Tail(wire), eventChan, "event_update")
             \cup (IF Head(wire).type = "event_update" THEN {Head(wire).event} ELSE {})
    BY <1>1, <1>2, <1>4, TakeOrder
  <2> QED
    BY <1>1, <1>3, <2>1, <2>2 DEF EventPushes
<1>7. OrderInv'
  BY <1>3, <1>5, <1>6 DEF OrderInv, n
<1>8. PICK X : LoseUpdates(X, {})
  BY DEF HandlePPKUpdate
<1>9. undone'.events = undone.events /\ underWay' = underWay
  BY UndoneIs DEF HandlePPKUpdate
<1> QED
  BY <1>3, <1>5, <1>6, <1>7, <1>8, <1>9, LoseIs DEF KeepsEvents

\* A pushed event is taken by the application.
LEMMA EventTaken ==
  ASSUME Types, OrderInv, HandleEventUpdate
  PROVE  /\ OrderInv' /\ KeepsDevices
         /\ EventPushes = EventPushes' \cup {Head(wire).event}
         /\ \A f \in EventPushes' : Head(wire).event < f
<1> DEFINE n == Len(owner)
<1>1. wire # <<>> /\ Head(wire).type = "event_update" /\ wire' = Tail(wire) /\ UNCHANGED feed
  BY DEF HandleEventUpdate, Delivers, TakeMessage
<1>2. /\ wire \in Seq(Messages) /\ deviceChan \in Seq(EventIds) /\ n \in Nat
      /\ eventChan \in Seq(EventIds)
  BY DEF Types
<1>3. owner' = owner /\ deviceChan' = deviceChan /\ eventChan' = eventChan
  BY <1>1 DEF feed
<1>4. InOrder(wire, deviceChan, "ppk_update", n) /\ InOrder(wire, eventChan, "event_update", n)
  BY DEF OrderInv
<1> HIDE DEF n
<1>5. /\ InOrder(wire', eventChan', "event_update", n)
      /\ EventPushes = EventPushes' \cup {Head(wire).event}
      /\ \A f \in EventPushes' : Head(wire).event < f
  BY <1>1, <1>2, <1>3, <1>4, TakeOrder DEF EventPushes
<1>6. InOrder(wire', deviceChan', "ppk_update", n) /\ DevicePushes' = DevicePushes
  <2>1. Head(wire).type # "ppk_update"
    BY <1>1
  <2>2. /\ InOrder(Tail(wire), deviceChan, "ppk_update", n)
        /\ Pushes(wire, deviceChan, "ppk_update") = Pushes(Tail(wire), deviceChan, "ppk_update")
             \cup (IF Head(wire).type = "ppk_update" THEN {Head(wire).event} ELSE {})
    BY <1>1, <1>2, <1>4, TakeOrder
  <2> QED
    BY <1>1, <1>3, <2>1, <2>2 DEF DevicePushes
<1>7. OrderInv'
  BY <1>3, <1>5, <1>6 DEF OrderInv, n
<1>8. (\E Y : LoseUpdates({}, Y)) /\ UNCHANGED <<undone, underWay>>
  BY DEF HandleEventUpdate
<1> QED
  BY <1>3, <1>5, <1>6, <1>7, <1>8, LoseIs DEF KeepsDevices

-----------------------------------------------------------------------------
(* The devices. *)

LEMMA LastOwned ==
  ASSUME Types, NEW d \in Devices
  PROVE  /\ LastOf(d) \in 0 .. Len(owner) /\ Len(owner) \in Nat
         /\ LastOf(d) # 0 => owner[LastOf(d)] = d
         /\ \A e \in 1 .. Len(owner) : owner[e] = d => e <= LastOf(d)
BY LastIs, LastOfIs DEF Types

LEMMA PushesStored ==
  ASSUME Types, OrderInv
  PROVE  /\ \A f \in DevicePushes : f \in 1 .. Len(owner)
         /\ \A f \in EventPushes : f \in 1 .. Len(owner)
<1>1. /\ wire \in Seq(Messages) /\ deviceChan \in Seq(EventIds) /\ Len(owner) \in Nat
      /\ eventChan \in Seq(EventIds)
  BY DEF Types
<1> QED
  BY <1>1, PushesBounded DEF OrderInv, DevicePushes, EventPushes

LEMMA InitDevices == Init => DeviceInv
<1> SUFFICES ASSUME Init PROVE DeviceInv
  OBVIOUS
<1>1. DevicePushes = {}
  BY DEF Init, DevicePushes, Pushes, EventsIn, ToSet
<1>2. ppk.load = "idle" /\ ~ppk.made /\ \A d \in Devices : ppk.data[d] = 0
  BY DEF Init, Nothing
<1>3. Stored = {}
  BY DEF Init, Stored
<1>4. \A d \in Devices : LastOf(d) = 0
  BY <1>3 DEF LastOf
<1> QED
  BY <1>1, <1>2, <1>4 DEF DeviceInv

\* Nothing is stored or shown: a push may only get lost.
LEMMA DevicesAlone ==
  ASSUME DeviceInv, KeepsDevices, ppk' = ppk
  PROVE  DeviceInv'
<1>1. owner' = owner /\ \A d : LastOf(d)' = LastOf(d)
  BY SameLast DEF KeepsDevices
<1>2. \A d \in Devices : LastOf(d) \in LastUpdates
  BY DEF LastUpdates
<1>3. DevicePushes' \ underWay'.ppk \subseteq DevicePushes \ underWay.ppk
  BY DEF KeepsDevices
<1>4. \A d \in Devices :
        LastOf(d) \in lost.ppk \cup undone.ppk \cup DevicePushes =>
          LastOf(d) \in lost'.ppk \cup undone'.ppk \cup DevicePushes'
  BY <1>2 DEF KeepsDevices
<1> QED
  BY <1>1, <1>3, <1>4 DEF DeviceInv

\* A report: its event is pushed or lost, and no other device is touched.
LEMMA ReportDevices ==
  ASSUME Types, OrderInv, DeviceInv, NEW d \in Devices, Report(d)
  PROVE  DeviceInv'
<1> DEFINE n == Len(owner)
<1>1. owner \in Seq(Devices) /\ owner' = Append(owner, d) /\ ppk' = ppk /\ n \in Nat
  BY DEF Types, Report
<1>2. /\ \A c : LastOf(c)' = LastIn(owner', c)
      /\ LastOf(d)' = n + 1
      /\ \A c \in Devices \ {d} : LastOf(c)' = LastOf(c)
  <2>1. \A c : LastOf(c)' = LastIn(owner', c)
    BY DEF LastOf, LastIn, Stored
  <2> QED
    BY <1>1, <2>1, LastAdded, LastOfIs
<1>3. \A c \in Devices : LastOf(c)' \in LastUpdates'
  BY DEF LastUpdates
<1>4. /\ owner'[n + 1] = d
      /\ \A f \in 1 .. n : owner'[f] = owner[f]
      /\ DevicePushes \subseteq DevicePushes'
      /\ DevicePushes' \subseteq DevicePushes \cup {n + 1}
      /\ lost.ppk \cap LastUpdates' \subseteq lost'.ppk
      /\ n + 1 \in LastUpdates' => n + 1 \in DevicePushes' \cup lost'.ppk
      /\ undone' = undone /\ underWay' = underWay
  BY ReportPushes
<1>5. \A f \in DevicePushes : f \in 1 .. n
  BY PushesStored
<1>6. \A c \in Devices : LastOf(c) \in 0 .. n
  BY LastOwned
<1>7. \A c \in Devices : ppk.answer[c] \in Nat /\ ppk.data[c] \in Nat
  BY ProvidersTyped
<1> HIDE DEF n
<1>8. ASSUME NEW c \in Devices
      PROVE  /\ ppk.data[c] <= n /\ ppk.data[c] <= LastOf(c)'
             /\ ppk.load = "answered" => ppk.answer[c] <= n /\ ppk.answer[c] <= LastOf(c)'
  <2>1. LastOf(c) <= LastOf(c)' /\ LastOf(c) <= n
    BY <1>1, <1>2, <1>6
  <2>2. LastOf(c) \in Nat /\ LastOf(c)' \in Nat
    BY <1>1, <1>2, <1>6
  <2>3. ppk.data[c] <= LastOf(c) /\ (ppk.load = "answered" => ppk.answer[c] <= LastOf(c))
    BY DEF DeviceInv
  <2> QED
    BY <1>1, <1>7, <2>1, <2>2, <2>3
<1>9. ASSUME NEW f \in DevicePushes' \ underWay'.ppk
      PROVE  /\ ppk.data[owner'[f]] <= f
             /\ ppk.load = "answered" => ppk.answer[owner'[f]] <= f
  <2>1. CASE f \in DevicePushes
    BY <1>4, <1>5, <1>9, <2>1 DEF DeviceInv
  <2>2. CASE f = n + 1
    <3>1. owner'[f] = d
      BY <1>4, <2>2, Zenon
    <3>2. n \in Nat
      BY <1>1, Zenon
    <3>3. n <= f /\ f \in Nat
      BY <2>2, <3>2
    <3>4. /\ ppk.data[d] \in Nat /\ ppk.data[d] <= n
          /\ ppk.answer[d] \in Nat /\ (ppk.load = "answered" => ppk.answer[d] <= n)
      BY <1>7, <1>8
    <3> QED
      BY <3>1, <3>2, <3>3, <3>4
  <2> QED
    BY <1>4, <1>9, <2>1, <2>2
<1>10. LastOf(d)' \in lost'.ppk \cup undone'.ppk \cup DevicePushes'
  BY <1>2, <1>3, <1>4
<1>11. ASSUME NEW c \in Devices \ {d}
       PROVE  LastOf(c) \in lost.ppk \cup undone.ppk \cup DevicePushes =>
                LastOf(c)' \in lost'.ppk \cup undone'.ppk \cup DevicePushes'
  BY <1>2, <1>3, <1>4
<1>12. ppk.made /\ ~ppk.error /\ ppk.load # "asked" =>
         \A c \in Devices :
           \/ LastOf(c)' \in lost'.ppk \cup undone'.ppk \cup DevicePushes'
           \/ LastOf(c)' = ppk.data[c]
           \/ ppk.load = "answered" /\ LastOf(c)' = ppk.answer[c]
  BY <1>2, <1>10, <1>11 DEF DeviceInv
<1> QED
  BY <1>1, <1>8, <1>9, <1>12 DEF DeviceInv

\* A pushed device: only a push that was under way at the snapshot is older than
\* what it replaces.
LEMMA HandleDevices ==
  ASSUME Types, OrderInv, DeviceInv, HandlePPKUpdate
  PROVE  DeviceInv'
<1> DEFINE e == Head(wire).event
           d == owner[e]
<1>1. /\ owner' = owner /\ underWay' = underWay
      /\ ppk' = IF ppk.made THEN [ppk EXCEPT !.data[d] = e] ELSE ppk
      /\ LoseUpdates(IF ppk.made THEN {} ELSE {e}, {})
      /\ IF e \in underWay.ppk THEN UndoUpdates ELSE UNCHANGED undone
  BY DEF HandlePPKUpdate, feed
<1>2. /\ DevicePushes = DevicePushes' \cup {e}
      /\ \A f \in DevicePushes' : e < f
  BY PPKTaken
<1>3. \A f \in DevicePushes : f \in 1 .. Len(owner)
  BY PushesStored
<1>4. /\ \A c : LastOf(c)' = LastOf(c)
      /\ lost'.ppk = (lost.ppk \cup (IF ppk.made THEN {} ELSE {e})) \cap LastUpdates
  BY <1>1, LoseIs, SameLast
<1>5. \A c \in Devices : LastOf(c) \in LastUpdates
  BY DEF LastUpdates
<1>6. \A c \in Devices : ppk.answer[c] \in Nat /\ ppk.data[c] \in Nat
  BY ProvidersTyped
<1>7. d \in Devices
  <2>1. owner \in Seq(Devices) /\ e \in 1 .. Len(owner)
    BY <1>2, <1>3 DEF Types
  <2> HIDE DEF e
  <2> QED
    BY <2>1
<1>8. /\ ppk'.load = ppk.load /\ ppk'.answer = ppk.answer /\ ppk'.made = ppk.made
      /\ ppk'.error = ppk.error
      /\ ppk.made => ppk'.data[d] = e
      /\ ~ppk.made => ppk'.data[d] = ppk.data[d]
      /\ \A c \in Devices \ {d} : ppk'.data[c] = ppk.data[c]
  <2>1. /\ ppk \in Provider([Devices -> 0 .. MaxEvents])
        /\ ppk.data \in [Devices -> 0 .. MaxEvents]
    BY ProvidersTyped
  <2> HIDE DEF e, d
  <2> QED
    BY <1>1, <1>7, <2>1 DEF Provider
<1>9. e \in 1 .. Len(owner)
  BY <1>2, <1>3
<1>10. undone.ppk \subseteq undone'.ppk
  BY <1>1, UndoneIs
<1>11. /\ LastOf(d) \in 0 .. Len(owner) /\ Len(owner) \in Nat /\ e <= LastOf(d)
  BY <1>7, <1>9, LastOwned
<1>12. ppk.data[d] = LastOf(d) /\ ppk'.data[d] # LastOf(d) => LastOf(d) \in undone'.ppk
  <2> SUFFICES ASSUME ppk.data[d] = LastOf(d), ppk'.data[d] # LastOf(d)
               PROVE  LastOf(d) \in undone'.ppk
    OBVIOUS
  <2>1. e < LastOf(d)
    BY <1>8, <1>9, <1>11
  <2>2. e \in underWay.ppk
    <3>1. SUFFICES ASSUME e \notin underWay.ppk PROVE FALSE
      OBVIOUS
    <3>2. ppk.data[d] <= e
      BY <1>2, <3>1 DEF DeviceInv
    <3> QED
      BY <1>9, <1>11, <2>1, <3>2
  <2> QED
    BY <1>1, <1>7, <1>9, <2>1, <2>2, UndoneIs
<1>13. \A c \in Devices \ {d} : LastOf(c) # e
  <2> SUFFICES ASSUME NEW c \in Devices \ {d}, LastOf(c) = e PROVE FALSE
    OBVIOUS
  <2> QED
    BY <1>9, LastOwned
<1> HIDE DEF e
<1>14. ASSUME NEW c \in Devices
       PROVE  /\ ppk'.data[c] <= LastOf(c)
              /\ ppk'.load = "answered" => ppk'.answer[c] <= LastOf(c)
  BY <1>8, <1>11 DEF DeviceInv
<1>15. ASSUME NEW f \in DevicePushes' \ underWay'.ppk
       PROVE  /\ ppk'.data[owner[f]] <= f
              /\ ppk'.load = "answered" => ppk'.answer[owner[f]] <= f
  <2>1. f \in DevicePushes \ underWay.ppk /\ e < f /\ f \in Nat /\ e \in Nat
    BY <1>1, <1>2, <1>3, <1>9
  <2>2. owner[f] \in Devices
    BY <1>3, <2>1 DEF Types
  <2> QED
    BY <1>8, <2>1, <2>2 DEF DeviceInv
<1>16. ASSUME ppk.made, ~ppk.error, ppk.load # "asked", NEW c \in Devices
       PROVE  \/ LastOf(c) \in lost'.ppk \cup undone'.ppk \cup DevicePushes'
              \/ LastOf(c) = ppk'.data[c]
              \/ ppk'.load = "answered" /\ LastOf(c) = ppk'.answer[c]
  <2>1. CASE LastOf(c) \in lost.ppk \cup undone.ppk
    BY <1>4, <1>5, <1>10, <2>1
  <2>2. CASE LastOf(c) \in DevicePushes
    BY <1>2, <1>8, <1>13, <1>16, <2>2
  <2>3. CASE LastOf(c) = ppk.data[c]
    BY <1>8, <1>12, <2>3
  <2>4. CASE ppk.load = "answered" /\ LastOf(c) = ppk.answer[c]
    BY <1>8, <2>4
  <2> QED
    BY <1>16, <2>1, <2>2, <2>3, <2>4 DEF DeviceInv
<1> QED
  BY <1>1, <1>4, <1>8, <1>14, <1>15, <1>16 DEF DeviceInv

\* A snapshot holds the last event of every device; what an answer takes away
\* was shown; and a load that fails leaves an error to retry from.
LEMMA LoadDevices ==
  ASSUME Types, OrderInv, LoadInv, DeviceInv, OfDevices
  PROVE  DeviceInv'
<1>0. UNCHANGED <<feed, wire>>
  BY QuietSteps
<1>1. /\ owner' = owner /\ \A d : LastOf(d)' = LastOf(d)
      /\ DevicePushes' = DevicePushes
  BY <1>0, SameLast DEF feed, DevicePushes
<1>2. ppk \in Provider([Devices -> 0 .. MaxEvents])
      /\ PpkSnapshot \in [Devices -> 0 .. MaxEvents]
      /\ Nothing \in [Devices -> 0 .. MaxEvents]
  BY ProvidersTyped
<1>3. \A d \in Devices : LastOf(d) \in Nat
  BY LastOwned
<1>4. \A f \in DevicePushes : f \in 1 .. Len(owner) /\ owner[f] \in Devices
  BY PushesStored DEF Types
<1>5. CASE LoadPPKList
  <2>1. ppk'.load = "asked" /\ ppk'.data = ppk.data /\ underWay' = underWay
    BY <1>2, <1>5, ProviderIs DEF LoadPPKList, history
  <2> QED
    BY <1>1, <2>1 DEF DeviceInv
<1>6. CASE GetPPKList
  <2>1. /\ ppk'.load = "answered" /\ ppk'.answer = PpkSnapshot /\ ppk'.data = ppk.data
        /\ ppk'.made = ppk.made /\ ppk'.error = ppk.error
    BY <1>2, <1>6, ProviderIs DEF GetPPKList
  <2>2. \A d \in Devices : ppk'.answer[d] = LastOf(d)
    BY <2>1 DEF PpkSnapshot
  <2>3. underWay'.ppk = DevicePushes
    <3>1. DevicePushes \in SUBSET EventIds
      BY EventsInType DEF DevicePushes, Pushes, ToSet, Types
    <3>2. underWay' = [underWay EXCEPT !.ppk = DevicePushes]
      BY <1>6, Zenon DEF GetPPKList, DevicePushes, Pushes
    <3> QED
      BY <3>1, <3>2, HistoryTypes DEF Types
  <2>4. \A d \in Devices : ppk'.data[d] <= LastOf(d) /\ ppk'.answer[d] <= LastOf(d)
    BY <1>3, <2>1, <2>2 DEF DeviceInv
  <2> QED
    BY <1>1, <2>1, <2>2, <2>3, <2>4 DEF DeviceInv
<1>7. CASE PPKListArrives
  <2>1. /\ ppk'.load = "idle" /\ ppk'.data = ppk.answer /\ ppk.load = "answered"
        /\ ppk'.made = ppk.made /\ ~ppk'.error
    BY <1>2, <1>7, ProviderIs DEF PPKListArrives
  <2>2. underWay' = underWay /\ lost' = lost /\ undone.ppk \subseteq undone'.ppk
        /\ \A d \in Devices :
              LastOf(d) # 0 /\ ppk.data[d] = LastOf(d) /\ ppk'.data[d] # LastOf(d) =>
                LastOf(d) \in undone'.ppk
    BY <1>7, UndoneIs DEF PPKListArrives
  <2>3. \A d \in Devices : LastOf(d) = 0 => ppk.answer[d] = 0
    <3>1. \A d \in Devices : ppk.answer[d] \in Nat /\ ppk.answer[d] <= LastOf(d)
      BY <2>1, ProvidersTyped DEF DeviceInv
    <3> QED
      BY <3>1
  <2>4. ppk.made /\ ~ppk.error
    BY <2>1 DEF LoadInv
  <2>5. ASSUME NEW d \in Devices
        PROVE  \/ LastOf(d) \in lost'.ppk \cup undone'.ppk \cup DevicePushes
               \/ LastOf(d) = ppk'.data[d]
    <3>1. CASE LastOf(d) = ppk.data[d]
      BY <2>1, <2>2, <2>3, <3>1
    <3>2. CASE LastOf(d) # ppk.data[d]
      BY <2>1, <2>2, <2>4, <3>2 DEF DeviceInv
    <3> QED
      BY <3>1, <3>2
  <2>6. \A d \in Devices : ppk'.data[d] <= LastOf(d)
    BY <2>1 DEF DeviceInv
  <2>7. \A f \in DevicePushes \ underWay'.ppk : ppk'.data[owner[f]] <= f
    BY <2>1, <2>2 DEF DeviceInv
  <2> QED
    BY <1>1, <2>1, <2>5, <2>6, <2>7 DEF DeviceInv
<1>8. CASE PPKListFails
  <2>1. ppk'.load = "idle" /\ ppk'.data = Nothing /\ ppk'.error
    BY <1>2, <1>8, ProviderIs DEF PPKListFails
  <2>2. \A d \in Devices : ppk'.data[d] = 0
    BY <2>1 DEF Nothing
  <2>3. \A d \in Devices : ppk'.data[d] <= LastOf(d)
    BY <1>3, <2>2
  <2>4. \A f \in DevicePushes : ppk'.data[owner[f]] <= f
    BY <1>4, <2>2
  <2> QED
    BY <1>1, <2>1, <2>3, <2>4 DEF DeviceInv
<1> QED
  BY <1>5, <1>6, <1>7, <1>8 DEF OfDevices

-----------------------------------------------------------------------------
(* The events. *)

\* Nothing is stored or listed: a push may only get lost.
LEMMA EventsAlone ==
  ASSUME ListInv, EventInv, DoubleInv, KeepsEvents, UNCHANGED <<events, loaded>>
  PROVE  ListInv' /\ EventInv' /\ DoubleInv'
<1>1. Stored' = Stored /\ LastEvents' = LastEvents /\ owner' = owner
  BY SameLast DEF KeepsEvents
<1>2. ASSUME NEW k, Headed(k) PROVE Headed(k)'
  BY <1>2 DEF Headed, KeepsEvents
<1>3. ListInv'
  BY <1>1, <1>2 DEF ListInv
<1>4. \A e \in LastEvents :
        e \in lost.events \cup undone.events \cup EventPushes =>
          e \in lost'.events \cup undone'.events \cup EventPushes'
  BY DEF KeepsEvents
<1>5. EventInv'
  BY <1>1, <1>4 DEF EventInv
<1>6. Excused' = Excused
  BY DEF Excused, Loaded, KeepsEvents
<1>7. DoubleInv'
  BY <1>1, <1>6 DEF DoubleInv, KeepsEvents
<1> QED
  BY <1>3, <1>5, <1>7

LEMMA InitEvents == Init => ListInv /\ EventInv
<1> SUFFICES ASSUME Init PROVE ListInv /\ EventInv
  OBVIOUS
<1>1. events.data = <<>> /\ events.load = "idle" /\ ~events.made /\ loaded = 0 /\ owner = <<>>
  BY DEF Init
<1>2. Headed(0) /\ 0 \in 0 .. Len(events.data)
  BY <1>1 DEF Headed
<1> QED
  BY <1>1, <1>2 DEF ListInv, EventInv

LEMMA LastEventsAre ==
  ASSUME Types
  PROVE  \A e : e \in LastEvents <=> e \in 1 .. Len(owner) /\ e + Limit > Len(owner)
BY DEF Types, LastEvents, Stored

\* A report: its event is pushed or lost, and the oldest may leave the last ones.
LEMMA ReportEvents ==
  ASSUME Types, OrderInv, ListInv, EventInv, DoubleInv, NEW d \in Devices, Report(d)
  PROVE  ListInv' /\ EventInv'
<1> DEFINE n == Len(owner)
<1>1. /\ EventPushes \subseteq EventPushes'
      /\ EventPushes' \subseteq EventPushes \cup {n + 1}
      /\ lost.events \cap LastEvents' \subseteq lost'.events
      /\ n + 1 \in LastEvents' => n + 1 \in EventPushes' \cup lost'.events
      /\ n \in Nat /\ owner' \in Seq(Devices) /\ Len(owner') = n + 1
      /\ UNCHANGED <<events, undone, loaded>>
  BY ReportPushes
<1>2. \A e : e \in LastEvents' => e \in 1 .. n + 1 /\ e + Limit > n + 1
  BY <1>1 DEF LastEvents, Stored
<1>3. \A e \in LastEvents' : e \in LastEvents \/ e = n + 1
  BY <1>1, <1>2, LastEventsAre, UiAssumption
<1>4. loaded \in Nat /\ loaded <= n
  BY DEF Types, ListInv
<1>5. \A i \in 1 .. Len(events.data) : events.data[i] \in 1 .. n
  <2>1. Stored = 1 .. n /\ events.data \in Seq(EventIds)
    BY ProvidersTyped DEF Stored, Types
  <2>2. \A i \in 1 .. Len(events.data) : events.data[i] \in ToSet(events.data)
    BY <2>1 DEF ToSet
  <2> QED
    BY <2>1, <2>2 DEF DoubleInv
<1> HIDE DEF n
<1>6. ASSUME NEW k \in 0 .. Len(events.data), Headed(k) PROVE Headed(k)'
  <2>1. ASSUME NEW i \in 1 .. k, NEW f \in EventPushes' PROVE events.data[i] < f
    <3>1. events.data[i] \in 1 .. n
      BY <1>5
    <3> QED
      BY <1>1, <1>6, <3>1 DEF Headed
  <2> QED
    BY <1>1, <1>6, <2>1 DEF Headed
<1>7. ListInv'
  BY <1>1, <1>4, <1>6 DEF ListInv
<1>8. EventInv'
  BY <1>1, <1>3, <1>4 DEF EventInv
<1> QED
  BY <1>7, <1>8

\* The snapshot holds the last events, each of them once.
LEMMA SnapshotIs ==
  ASSUME Types
  PROVE  /\ \A e : e \in ToSet(EventSnapshot) <=> e \in LastEvents
         /\ Twice(EventSnapshot) = {}
<1> DEFINE n == Len(owner)
           oldest == IF n > Limit THEN n - Limit + 1 ELSE 1
           older == [i \in 1 .. n - oldest |-> oldest + i - 1]
<1>1. n \in Nat /\ Limit \in Nat \ {0}
  BY UiAssumption DEF Types
<1>2. CASE n = 0
  <2>1. EventSnapshot = <<>>
    BY <1>2 DEF EventSnapshot
  <2> QED
    BY <1>2, <2>1, LastEventsAre DEF ToSet, Twice
<1>3. CASE n # 0
  <2>1. oldest \in 1 .. n /\ n - oldest \in Nat
    BY <1>1, <1>3
  <2>2. \A e : e \in LastEvents <=> e \in oldest .. n
    BY <1>1, <1>3, LastEventsAre
  <2>3. EventSnapshot = <<n>> \o older
    BY <1>3 DEF EventSnapshot
  <2> HIDE DEF oldest, n
  <2>4. older \in Seq(Nat) /\ Len(older) = n - oldest
        /\ \A i \in 1 .. n - oldest : older[i] = oldest + i - 1
    BY <1>1, <2>1
  <2>5. <<n>> \in Seq(Nat) /\ Len(<<n>>) = 1 /\ <<n>>[1] = n
    BY <1>1
  <2> HIDE DEF older
  <2>6. /\ DOMAIN EventSnapshot = 1 .. n - oldest + 1
        /\ \A i \in 1 .. n - oldest + 1 :
             EventSnapshot[i] = IF i = 1 THEN n ELSE oldest + i - 2
    <3>1. <<n>> \o older \in Seq(Nat) /\ Len(<<n>> \o older) = n - oldest + 1
      BY <2>1, <2>4, <2>5
    <3>2. \A i \in 1 .. n - oldest + 1 :
            (<<n>> \o older)[i] = IF i = 1 THEN n ELSE older[i - 1]
      BY <2>1, <2>4, <2>5
    <3>3. \A i \in 1 .. n - oldest + 1 : i # 1 =>
            i - 1 \in 1 .. n - oldest /\ older[i - 1] = oldest + i - 2
      BY <2>1, <2>4
    <3> QED
      BY <2>3, <3>1, <3>2, <3>3
  <2>7. ASSUME NEW e \in oldest .. n PROVE e \in ToSet(EventSnapshot)
    <3>1. CASE e = n
      BY <1>1, <2>1, <2>6, <3>1 DEF ToSet
    <3>2. CASE e # n
      <4>1. e - oldest + 2 \in 1 .. n - oldest + 1 /\ e - oldest + 2 # 1
            /\ oldest + (e - oldest + 2) - 2 = e
        BY <1>1, <2>1, <3>2
      <4> QED
        BY <2>6, <4>1 DEF ToSet
    <3> QED
      BY <3>1, <3>2
  <2>8. ASSUME NEW e \in ToSet(EventSnapshot) PROVE e \in oldest .. n
    <3>1. PICK i \in 1 .. n - oldest + 1 : e = EventSnapshot[i]
      BY <2>6 DEF ToSet
    <3> QED
      BY <1>1, <2>1, <2>6, <3>1
  <2>9. \A i, j \in DOMAIN EventSnapshot :
          i # j => EventSnapshot[i] # EventSnapshot[j]
    BY <1>1, <2>1, <2>6
  <2> QED
    BY <2>2, <2>7, <2>8, <2>9 DEF Twice
<1> QED
  BY <1>2, <1>3

\* The load of the list of events.
LEMMA LoadEventsKept ==
  ASSUME Types, OrderInv, LoadInv, ListInv, EventInv, DoubleInv,
         LoadEvents \/ GetEvents \/ EventsArrive \/ EventsFail
  PROVE  ListInv' /\ EventInv'
<1>0. UNCHANGED <<feed, wire>>
  BY QuietSteps DEF OfEvents
<1>1. /\ owner' = owner /\ LastEvents' = LastEvents /\ EventPushes' = EventPushes
      /\ Stored = 1 .. Len(owner) /\ Len(owner) \in Nat
  BY <1>0, SameLast DEF feed, EventPushes, Stored, Types
<1>2. events \in Provider(Seqs(EventIds, Limit)) /\ <<>> \in Seqs(EventIds, Limit)
      /\ EventSnapshot \in Seqs(EventIds, Limit)
      /\ events.data \in Seq(EventIds) /\ events.answer \in Seq(EventIds)
  BY ProvidersTyped
<1>3. CASE LoadEvents
  <2>1. events'.load = "asked" /\ events'.data = events.data /\ loaded' = loaded
    BY <1>2, <1>3, ProviderIs DEF LoadEvents, history
  <2>2. \A k : Headed(k) => Headed(k)'
    BY <1>1, <2>1 DEF Headed
  <2> QED
    BY <1>1, <2>1, <2>2 DEF ListInv, EventInv
<1>4. CASE GetEvents
  <2>1. /\ events'.load = "answered" /\ events'.answer = EventSnapshot
        /\ events'.data = events.data /\ loaded' = Len(owner)
    BY <1>2, <1>4, ProviderIs DEF GetEvents
  <2>2. \A e \in LastEvents : e <= loaded' /\ e \in ToSet(events'.answer)
    BY <2>1, SnapshotIs, LastEventsAre
  <2>3. ToSet(events'.answer) \subseteq 1 .. loaded'
    BY <1>1, <2>1, SnapshotIs, LastEventsAre
  <2>4. \E k \in 0 .. Len(events'.data) : Headed(k)'
    <3>1. \A e \in ToSet(events'.data) : e <= loaded'
      BY <1>1, <2>1 DEF DoubleInv
    <3>2. \A i \in 0 + 1 .. Len(events'.data) : events'.data[i] <= loaded'
      BY <1>2, <2>1, <3>1 DEF ToSet
    <3>3. Headed(0)' /\ 0 \in 0 .. Len(events'.data)
      BY <1>2, <2>1, <3>2 DEF Headed
    <3> QED
      BY <3>3
  <2> QED
    BY <1>1, <2>1, <2>2, <2>3, <2>4 DEF ListInv, EventInv
<1>5. CASE EventsArrive
  <2> DEFINE more == (ToSet(events.data) \ ToSet(events.answer)) \cap LastEvents
  <2>1. /\ events'.load = "idle" /\ events'.data = events.answer /\ events.load = "answered"
        /\ loaded' = loaded /\ lost' = lost
    BY <1>2, <1>5, ProviderIs DEF EventsArrive
  <2>2. undone'.events = undone.events \cup more
    <3>1. undone' = [undone EXCEPT !.events = undone.events \cup more]
      BY <1>5 DEF EventsArrive
    <3>2. undone.events \cup more \in SUBSET EventIds
      BY LastEventsTyped DEF Types
    <3> HIDE DEF more
    <3> QED
      BY <3>1, <3>2, HistoryTypes DEF Types
  <2>3. \E k \in 0 .. Len(events'.data) : Headed(k)'
    <3>1. \A e \in ToSet(events'.data) : e <= loaded'
      BY <1>1, <2>1 DEF ListInv
    <3>2. \A i \in 0 + 1 .. Len(events'.data) : events'.data[i] <= loaded'
      BY <1>2, <2>1, <3>1 DEF ToSet
    <3>3. Headed(0)' /\ 0 \in 0 .. Len(events'.data)
      BY <1>2, <2>1, <3>2 DEF Headed
    <3> QED
      BY <3>3
  <2>4. events.made /\ ~events.error
    BY <2>1 DEF LoadInv
  <2>5. ASSUME NEW e \in LastEvents
        PROVE  e \in lost'.events \cup undone'.events \cup EventPushes' \cup ToSet(events'.data)
    <3>1. CASE e <= loaded
      BY <2>1, <2>4, <3>1 DEF EventInv
    <3>2. CASE ~(e <= loaded)
      <4>1. e \in lost.events \cup undone.events \cup EventPushes \cup ToSet(events.data)
        BY <2>1, <2>4, <3>2 DEF EventInv
      <4> QED
        BY <1>1, <2>1, <2>2, <4>1
    <3> QED
      BY <3>1, <3>2
  <2> QED
    BY <1>1, <2>1, <2>3, <2>5 DEF ListInv, EventInv
<1>6. CASE EventsFail
  <2>1. events'.load = "idle" /\ events'.data = <<>> /\ events'.error /\ loaded' = loaded
    BY <1>2, <1>6, ProviderIs DEF EventsFail, history
  <2>2. Headed(0)' /\ 0 \in 0 .. Len(events'.data)
    BY <2>1 DEF Headed
  <2> QED
    BY <1>1, <2>1, <2>2 DEF ListInv, EventInv
<1> QED
  BY <1>3, <1>4, <1>5, <1>6

\* The list after a push: it begins with the event, and only the last entry of a
\* full list is cut off.
LEMMA HandleListed ==
  ASSUME Types, HandleEventUpdate, events.made
  PROVE  LET e == Head(wire).event
             kept == Kept(<<e>> \o events.data)
         IN  /\ events'.made /\ events'.load = events.load /\ events'.answer = events.answer
             /\ events'.error = events.error
             /\ events'.data = kept
             /\ kept \in Seq(EventIds)
             /\ Len(kept) = IF Len(events.data) = Limit THEN Limit ELSE Len(events.data) + 1
             /\ \A i \in 1 .. Len(kept) : kept[i] = IF i = 1 THEN e ELSE events.data[i - 1]
             /\ e \in ToSet(kept)
             /\ \A i \in 1 .. Len(events.data) :
                  events.data[i] \in ToSet(kept) \/ (i = Limit /\ Len(events.data) = Limit)
             /\ ToSet(kept) \subseteq ToSet(events.data) \cup {e}
             /\ Twice(kept) \subseteq Twice(events.data) \cup (ToSet(events.data) \cap {e})
<1> DEFINE e == Head(wire).event
           list == <<e>> \o events.data
           kept == Kept(list)
<1>1. events' = [events EXCEPT !.data = kept]
  BY DEF HandleEventUpdate, Kept
<1>2. e \in EventIds
  BY TakeTypes DEF HandleEventUpdate, Delivers
<1>3. /\ events \in Provider(Seqs(EventIds, Limit)) /\ events.data \in Seq(EventIds)
      /\ Len(events.data) <= Limit
  BY ProvidersTyped, EventLists
<1> HIDE DEF e
<1>4. /\ kept \in Seq(EventIds) /\ Len(kept) <= Limit /\ Len(kept) <= Len(events.data) + 1
      /\ Len(kept) = IF Len(events.data) = Limit THEN Limit ELSE Len(events.data) + 1
      /\ \A i \in 1 .. Len(kept) : kept[i] = IF i = 1 THEN e ELSE events.data[i - 1]
  BY <1>2, <1>3, KeptIs
<1>5. Len(events.data) \in Nat /\ Limit \in Nat \ {0}
  BY <1>3, UiAssumption
<1>6. kept \in Seqs(EventIds, Limit)
  BY <1>4, EventLists
<1> HIDE DEF list, kept
<1>7. DOMAIN kept = 1 .. Len(kept) /\ Len(kept) \in Nat
      /\ DOMAIN events.data = 1 .. Len(events.data)
  BY <1>3, <1>4
<1>8. /\ e \in ToSet(kept)
      /\ \A i \in 1 .. Len(events.data) :
           events.data[i] \in ToSet(kept) \/ (i = Limit /\ Len(events.data) = Limit)
  <2>1. e \in ToSet(kept)
    <3>1. 1 \in DOMAIN kept /\ kept[1] = e
      BY <1>4, <1>5, <1>7
    <3> QED
      BY <3>1 DEF ToSet
  <2>2. ASSUME NEW i \in 1 .. Len(events.data), ~(i = Limit /\ Len(events.data) = Limit)
        PROVE  events.data[i] \in ToSet(kept)
    <3>1. i + 1 \in 1 .. Len(kept) /\ i + 1 # 1 /\ (i + 1) - 1 = i
      BY <1>4, <1>5, <1>7, <2>2
    <3>2. kept[i + 1] = events.data[i]
      BY <1>4, <3>1
    <3> QED
      BY <1>7, <3>1, <3>2 DEF ToSet
  <2> QED
    BY <2>1, <2>2
<1>9. ToSet(kept) \subseteq ToSet(events.data) \cup {e}
  <2>1. ASSUME NEW i \in 1 .. Len(kept) PROVE kept[i] \in ToSet(events.data) \cup {e}
    <3>1. i # 1 => i - 1 \in 1 .. Len(events.data) /\ kept[i] = events.data[i - 1]
      BY <1>4, <1>5, <1>7
    <3> QED
      BY <1>4, <1>7, <3>1 DEF ToSet
  <2> QED
    BY <1>7, <2>1 DEF ToSet
<1>10. ASSUME NEW x \in Twice(kept), x # e PROVE x \in Twice(events.data)
  <2>1. PICK i \in 1 .. Len(kept), j \in 1 .. Len(kept) : i # j /\ kept[i] = x /\ kept[j] = x
    BY <1>7, <1>10 DEF Twice
  <2>2. i # 1 /\ j # 1
    BY <1>4, <1>10, <2>1
  <2>3. /\ i - 1 \in 1 .. Len(events.data) /\ j - 1 \in 1 .. Len(events.data) /\ i - 1 # j - 1
        /\ events.data[i - 1] = x /\ events.data[j - 1] = x
    BY <1>4, <1>5, <1>7, <2>1, <2>2
  <2> QED
    BY <1>7, <2>3 DEF Twice, ToSet
<1>11. ASSUME e \in Twice(kept) PROVE e \in ToSet(events.data)
  <2>1. PICK i \in 1 .. Len(kept), j \in 1 .. Len(kept) : i # j /\ kept[i] = e /\ kept[j] = e
    BY <1>7, <1>11 DEF Twice
  <2>2. PICK k \in 1 .. Len(kept) : k # 1 /\ kept[k] = e
    BY <2>1
  <2>3. k - 1 \in 1 .. Len(events.data) /\ events.data[k - 1] = e
    BY <1>4, <1>5, <1>7, <2>2
  <2> QED
    BY <1>7, <2>3 DEF ToSet
<1>12. Twice(kept) \subseteq Twice(events.data) \cup (ToSet(events.data) \cap {e})
  BY <1>10, <1>11
<1>13. /\ events'.made /\ events'.load = events.load /\ events'.answer = events.answer
       /\ events'.error = events.error /\ events'.data = kept
  BY <1>1, <1>3, <1>6, ProviderIs
<1> QED
  BY <1>4, <1>8, <1>9, <1>12, <1>13 DEF e, list, kept

\* A strictly descending sequence of naturals comes down by one with every place.
LEMMA Descending ==
  ASSUME NEW s \in Seq(Nat), NEW k \in 0 .. Len(s),
         \A i, j \in 1 .. k : i < j => s[j] < s[i]
  PROVE  \A i \in 1 .. k : s[i] + i <= s[1] + 1
<1> DEFINE Down == {n \in Nat : n + 1 \in 1 .. k => s[n + 1] + n <= s[1]}
<1>1. k \in Nat /\ \A i \in 1 .. k : s[i] \in Nat
  OBVIOUS
<1>2. 0 \in Down
  BY <1>1
<1>3. ASSUME NEW n \in Nat, n \in Down PROVE n + 1 \in Down
  <2> SUFFICES ASSUME n + 2 \in 1 .. k PROVE s[n + 2] + (n + 1) <= s[1]
    OBVIOUS
  <2>1. n + 1 \in 1 .. k /\ n + 1 < n + 2
    BY <1>1
  <2>2. s[n + 2] < s[n + 1] /\ s[n + 1] + n <= s[1]
    BY <1>3, <2>1
  <2>3. s[n + 2] \in Nat /\ s[n + 1] \in Nat /\ s[1] \in Nat
    BY <1>1, <2>1
  <2>4. \A a, b, c \in Nat : a < b /\ b + n <= c => a + (n + 1) <= c
    OBVIOUS
  <2> QED
    BY <2>2, <2>3, <2>4, Zenon
<1>4. \A n \in Nat : n \in Down
  BY <1>2, <1>3, Induction
<1>5. ASSUME NEW i \in 1 .. k PROVE s[i] + i <= s[1] + 1
  <2>1. i - 1 \in Nat /\ (i - 1) + 1 = i
    BY <1>1
  <2>2. i - 1 \in Down
    BY <1>4, <2>1
  <2>3. s[i] + (i - 1) <= s[1] /\ s[i] \in Nat /\ s[1] \in Nat
    BY <1>1, <2>1, <2>2
  <2> QED
    BY <2>1, <2>3
<1> QED
  BY <1>5

\* The pushed event heads the list.
LEMMA HandleHeaded ==
  ASSUME Types, OrderInv, HandleEventUpdate, NEW k \in 0 .. Len(events.data), Headed(k)
  PROVE  \E l \in 0 .. Len(events'.data) : Headed(l)'
<1> DEFINE e == Head(wire).event
<1>1. EventPushes = EventPushes' \cup {e} /\ \A f \in EventPushes' : e < f
  BY EventTaken
<1>2. \A f \in EventPushes : f \in 1 .. Len(owner)
  BY PushesStored
<1>3. loaded' = loaded
  BY DEF HandleEventUpdate
<1>4. CASE ~events.made
  <2>1. events' = events
    BY <1>4 DEF HandleEventUpdate
  <2>2. Headed(k)'
    BY <1>1, <1>3, <2>1 DEF Headed
  <2> QED
    BY <2>1, <2>2
<1>5. CASE events.made
  <2> DEFINE m == Len(events'.data)
             l == IF k + 1 <= m THEN k + 1 ELSE m
  <2>1. /\ events.data \in Seq(EventIds) /\ events'.data \in Seq(EventIds)
        /\ m = IF Len(events.data) = Limit THEN Limit ELSE Len(events.data) + 1
        /\ \A i \in 1 .. m : events'.data[i] = IF i = 1 THEN e ELSE events.data[i - 1]
    BY <1>5, HandleListed, ProvidersTyped
  <2>2. k \in Nat /\ m \in Nat /\ Len(events.data) \in Nat /\ m <= Len(events.data) + 1
    <3>1. Len(events.data) <= Limit /\ Limit \in Nat
      BY ProvidersTyped, EventLists, UiAssumption
    <3> QED
      BY <2>1, <3>1
  <2>3. e \in EventPushes
    BY <1>1
  <2>4. e \in 1 .. Len(owner) /\ Len(owner) \in Nat
    BY <1>2, <2>3 DEF Types
  <2> HIDE DEF e, m
  <2>5. l \in 0 .. m /\ l <= k + 1
    BY <2>2
  <2>6. ASSUME NEW i \in 1 .. l
        PROVE  \/ i = 1 /\ events'.data[i] = e
               \/ /\ i - 1 \in 1 .. k /\ i - 1 \in 1 .. Len(events.data)
                  /\ events'.data[i] = events.data[i - 1]
    <3>1. i \in 1 .. m /\ (i = 1 \/ i - 1 \in 1 .. k)
      BY <2>2, <2>5
    <3>2. k <= Len(events.data)
      OBVIOUS
    <3>3. i # 1 => i - 1 \in 1 .. Len(events.data)
      BY <2>2, <3>1, <3>2
    <3> HIDE DEF l
    <3> QED
      BY <2>1, <3>1, <3>3
  <2>7. ASSUME NEW i \in 1 .. l, NEW j \in 1 .. l, i < j
        PROVE  events'.data[j] < events'.data[i]
    <3>1. j - 1 \in 1 .. k /\ events'.data[j] = events.data[j - 1]
      BY <2>2, <2>5, <2>6, <2>7
    <3>2. CASE i = 1 /\ events'.data[i] = e
      <4>1. events.data[j - 1] < e
        BY <2>3, <3>1 DEF Headed
      <4> QED
        BY <3>1, <3>2, <4>1
    <3>3. CASE i - 1 \in 1 .. k /\ events'.data[i] = events.data[i - 1]
      <4>1. i - 1 < j - 1
        BY <2>2, <2>5, <2>7
      <4> QED
        BY <3>1, <3>3, <4>1 DEF Headed
    <3> QED
      BY <2>6, <3>2, <3>3
  <2>8. ASSUME NEW i \in 1 .. l, NEW f \in EventPushes' PROVE events'.data[i] < f
    BY <1>1, <2>6 DEF Headed
  <2>9. ASSUME NEW i \in l + 1 .. m PROVE events'.data[i] <= loaded
    <3>1. i - 1 \in k + 1 .. Len(events.data) /\ i \in 1 .. m /\ i # 1
      BY <2>2, <2>5
    <3> QED
      BY <2>1, <3>1 DEF Headed
  <2> HIDE DEF l
  <2> QED
    BY <1>3, <2>5, <2>7, <2>8, <2>9 DEF Headed, m
<1> QED
  BY <1>4, <1>5

\* What the limit cuts off the head of the list is no longer one of the last
\* events.
LEMMA CutIsOld ==
  ASSUME Types, OrderInv, HandleEventUpdate,
         NEW k \in 0 .. Len(events.data), Headed(k),
         Len(events.data) = Limit, events.data[Limit] \in LastEvents
  PROVE  events.data[Limit] <= loaded
<1> DEFINE e == Head(wire).event
<1>1. e \in EventPushes /\ e \in 1 .. Len(owner) /\ Len(owner) \in Nat
  BY EventTaken, PushesStored DEF Types
<1>2. events.data \in Seq(EventIds) /\ Limit \in Nat \ {0} /\ EventIds \subseteq Nat
  BY ProvidersTyped, UiAssumption DEF EventIds
<1>3. events.data \in Seq(Nat)
  <2>1. \A i \in 1 .. Len(events.data) : events.data[i] \in EventIds
    BY <1>2
  <2>2. \A i \in 1 .. Len(events.data) : events.data[i] \in Nat
    BY <1>2, <2>1
  <2> QED
    BY <1>2, <2>2
<1>4. CASE k < Limit
  <2>1. Limit \in k + 1 .. Len(events.data)
    BY <1>2, <1>4
  <2> QED
    BY <2>1 DEF Headed
<1>5. CASE ~(k < Limit)
  <2>1. k = Limit
    BY <1>2, <1>5
  <2>2. events.data[Limit] + Limit <= events.data[1] + 1
    BY <1>2, <1>3, <2>1, Descending DEF Headed
  <2>3. events.data[1] < e
    BY <1>1, <1>2, <2>1 DEF Headed
  <2>4. events.data[Limit] \in Nat /\ events.data[1] \in Nat
    BY <1>2, <1>3
  <2>5. events.data[Limit] + Limit > Len(owner)
    BY LastEventsAre
  <2> HIDE DEF e
  <2> QED
    BY <1>1, <1>2, <2>2, <2>3, <2>4, <2>5
<1> QED
  BY <1>4, <1>5

\* A pushed event is in the list, and what is cut off was there when the list
\* was last put in order, or is no longer one of the last events.
LEMMA HandleEvents ==
  ASSUME Types, OrderInv, ListInv, EventInv, HandleEventUpdate
  PROVE  ListInv' /\ EventInv'
<1> DEFINE e == Head(wire).event
<1>1. EventPushes = EventPushes' \cup {e}
  BY EventTaken
<1>2. owner' = owner /\ loaded' = loaded /\ undone' = undone
      /\ \E Y : LoseUpdates({}, Y)
  BY DEF HandleEventUpdate, feed
<1>3. LastEvents' = LastEvents /\ lost.events \cap LastEvents \subseteq lost'.events
  BY <1>2, SameLast, LoseIs
<1>4. PICK k \in 0 .. Len(events.data) : Headed(k)
  BY DEF ListInv
<1>5. events'.load = events.load /\ events'.answer = events.answer
      /\ events'.made = events.made /\ events'.error = events.error
  <2>1. CASE events.made
    BY <2>1, HandleListed
  <2>2. CASE ~events.made
    BY <2>2 DEF HandleEventUpdate
  <2> QED
    BY <2>1, <2>2
<1>6. ListInv'
  BY <1>2, <1>4, <1>5, HandleHeaded DEF ListInv
<1>7. ASSUME events.made, ~events.error, events.load # "asked", NEW x \in LastEvents,
             ~(events.load = "answered" /\ x <= loaded)
      PROVE  \/ x \in lost'.events \cup undone'.events \cup EventPushes' \cup ToSet(events'.data)
             \/ x <= loaded /\ Len(events'.data) = Limit
  <2>1. /\ e \in ToSet(events'.data)
        /\ Len(events.data) = Limit => Len(events'.data) = Limit
        /\ \A i \in 1 .. Len(events.data) :
             events.data[i] \in ToSet(events'.data) \/ (i = Limit /\ Len(events.data) = Limit)
    BY <1>7, HandleListed
  <2>2. \/ x \in lost.events \cup undone.events \cup EventPushes \cup ToSet(events.data)
        \/ x <= loaded /\ Len(events.data) = Limit
    BY <1>7 DEF EventInv
  <2> HIDE DEF e
  <2>3. CASE x \in lost.events \cup undone.events \cup EventPushes
    BY <1>1, <1>2, <1>3, <1>7, <2>1, <2>3
  <2>4. CASE x \in ToSet(events.data)
    <3>1. events.data \in Seq(EventIds)
      BY ProvidersTyped
    <3>2. PICK i \in 1 .. Len(events.data) : x = events.data[i]
      BY <2>4, <3>1 DEF ToSet
    <3>3. CASE i = Limit /\ Len(events.data) = Limit
      BY <1>4, <1>7, <2>1, <3>2, <3>3, CutIsOld
    <3> QED
      BY <2>1, <3>2, <3>3
  <2>5. CASE x <= loaded /\ Len(events.data) = Limit
    BY <2>1, <2>5
  <2> QED
    BY <2>2, <2>3, <2>4, <2>5
<1>8. EventInv'
  BY <1>2, <1>3, <1>5, <1>7 DEF EventInv
<1> QED
  BY <1>6, <1>8

-----------------------------------------------------------------------------
(* Events that are in the list twice. *)

LEMMA InitDoubles == Init => DoubleInv
<1> SUFFICES ASSUME Init PROVE DoubleInv
  OBVIOUS
<1>1. events.data = <<>> /\ events.answer = <<>> /\ events.load = "idle"
  BY DEF Init
<1>2. ToSet(<<>>) = {}
  BY DEF ToSet
<1>3. Twice(<<>>) = {}
  BY <1>2 DEF Twice
<1> QED
  BY <1>1, <1>2, <1>3 DEF DoubleInv

\* Nothing new is pushed of what is stored.
LEMMA DoublesKept ==
  ASSUME DoubleInv, UNCHANGED <<events, underWay>>, Stored \subseteq Stored',
         EventPushes' \cap Stored \subseteq EventPushes
  PROVE  DoubleInv'
<1>1. Excused' = Excused
  BY DEF Excused, Loaded
<1> QED
  BY <1>1 DEF DoubleInv

\* A new event is in no list yet.
LEMMA ReportDoubles ==
  ASSUME Types, OrderInv, DoubleInv, NEW d \in Devices, Report(d)
  PROVE  DoubleInv'
<1>1. UNCHANGED <<events, underWay>>
  BY DEF Report
<1>2. /\ EventPushes' \subseteq EventPushes \cup {Len(owner) + 1}
      /\ Len(owner) \in Nat /\ owner' \in Seq(Devices) /\ Len(owner') = Len(owner) + 1
  BY ReportPushes
<1>3. Stored = 1 .. Len(owner) /\ Stored' = 1 .. Len(owner) + 1
  BY <1>2 DEF Types, Stored
<1> QED
  BY <1>1, <1>2, <1>3, DoublesKept

\* A snapshot doubles nothing, and what it holds and is pushed again was under
\* way when it was taken.
LEMMA LoadDoubles ==
  ASSUME Types, OrderInv, LoadInv, DoubleInv,
         LoadEvents \/ GetEvents \/ EventsArrive \/ EventsFail
  PROVE  DoubleInv'
<1>1. owner' = owner /\ EventPushes' = EventPushes
  BY DEF LoadEvents, GetEvents, EventsArrive, EventsFail, feed, link, EventPushes
<1>2. Stored' = Stored
  BY <1>1, SameLast
<1>3. events \in Provider(Seqs(EventIds, Limit)) /\ <<>> \in Seqs(EventIds, Limit)
      /\ EventSnapshot \in Seqs(EventIds, Limit)
  BY ProvidersTyped
<1>4. ToSet(<<>>) = {}
  BY DEF ToSet
<1>5. Twice(<<>>) = {}
  BY <1>4 DEF Twice
<1>6. CASE LoadEvents
  <2>1. events' = Asks(events) /\ MayAsk(events)
    BY <1>6 DEF LoadEvents
  <2>2. /\ events'.load = "asked" /\ events'.data = events.data
        /\ events'.answer = events.answer
    BY <1>3, <2>1, ProviderIs
  <2>3. ~Loaded
    BY <2>1 DEF MayAsk, Loaded
  <2> QED
    BY <1>1, <1>2, <2>2, <2>3 DEF DoubleInv, Excused
<1>7. CASE GetEvents
  <2>1. events' = Answers(events, EventSnapshot) /\ events.load = "asked"
        /\ underWay'.events = EventPushes
    <3>1. EventPushes \in SUBSET EventIds
      BY EventsInType DEF EventPushes, Pushes, ToSet, Types
    <3>2. underWay' = [underWay EXCEPT !.events = EventPushes]
      BY <1>7, Zenon DEF GetEvents, EventPushes, Pushes
    <3> QED
      BY <1>7, <3>1, <3>2, HistoryTypes DEF GetEvents, Types
  <2>2. /\ events'.load = "answered" /\ events'.data = events.data
        /\ events'.answer = EventSnapshot
    BY <1>3, <2>1, ProviderIs
  <2>3. ~Loaded
    BY <2>1 DEF Loaded
  <2>4. Twice(EventSnapshot) = {} /\ ToSet(EventSnapshot) \subseteq Stored
    BY SnapshotIs DEF LastEvents
  <2> QED
    BY <1>1, <1>2, <2>1, <2>2, <2>3, <2>4 DEF DoubleInv, Excused
<1>8. CASE EventsArrive
  <2>1. events' = Takes(events, <<>>) /\ events.load = "answered" /\ underWay' = underWay
    BY <1>8 DEF EventsArrive
  <2>2. /\ events'.load = "idle" /\ events'.data = events.answer /\ ~events'.error
        /\ events'.answer = <<>> /\ events'.made = events.made
    BY <1>3, <2>1, ProviderIs
  <2>3. events.made
    BY <2>1 DEF LoadInv
  <2>4. Loaded'
    BY <2>2, <2>3 DEF Loaded
  <2> QED
    BY <1>1, <1>2, <1>4, <2>1, <2>2, <2>4 DEF DoubleInv, Excused
<1>9. CASE EventsFail
  <2>1. events' = Fails(events, <<>>)
    BY <1>9 DEF EventsFail
  <2>2. events'.load = "idle" /\ events'.data = <<>> /\ events'.answer = <<>>
    BY <1>3, <2>1, ProviderIs
  <2> QED
    BY <1>4, <1>5, <2>2 DEF DoubleInv
<1> QED
  BY <1>6, <1>7, <1>8, <1>9

\* A pushed event is doubled only if the list had it, and is not pushed again.
LEMMA HandleDoubles ==
  ASSUME Types, OrderInv, DoubleInv, HandleEventUpdate
  PROVE  DoubleInv'
<1> DEFINE e == Head(wire).event
<1>1. EventPushes = EventPushes' \cup {e} /\ \A f \in EventPushes' : e < f
  BY EventTaken
<1>2. owner' = owner /\ underWay' = underWay
  BY DEF HandleEventUpdate, feed
<1>3. Stored' = Stored
  BY <1>2, SameLast
<1>4. CASE ~events.made
  <2>1. events' = events
    BY <1>4 DEF HandleEventUpdate
  <2> QED
    BY <1>1, <1>2, <1>3, <2>1, DoublesKept
<1>5. CASE events.made
  <2>1. /\ events'.made /\ events'.load = events.load /\ events'.answer = events.answer
        /\ events'.error = events.error
        /\ ToSet(events'.data) \subseteq ToSet(events.data) \cup {e}
        /\ Twice(events'.data) \subseteq Twice(events.data) \cup (ToSet(events.data) \cap {e})
    BY <1>5, HandleListed
  <2>2. Excused' = Excused
    BY <1>2, <1>5, <2>1 DEF Excused, Loaded
  <2>3. e \in 1 .. Len(owner) /\ e \in Stored
    <3>1. e \in EventPushes
      BY <1>1
    <3>2. Stored = 1 .. Len(owner)
      BY DEF Stored, Types
    <3> QED
      BY <3>1, <3>2, PushesStored
  <2>4. e \notin EventPushes'
    BY <1>1, <2>3
  <2> HIDE DEF e
  <2> QED
    BY <1>1, <1>2, <1>3, <2>1, <2>2, <2>3, <2>4 DEF DoubleInv
<1> QED
  BY <1>4, <1>5

\* Sorting keeps the members of the list and how often they are in it.
LEMMA SortedList ==
  ASSUME Types, SortEvents
  PROVE  /\ events'.made = events.made /\ events'.load = events.load
         /\ events'.answer = events.answer /\ events'.error = events.error
         /\ events'.data \in Seq(EventIds) /\ Len(events'.data) = Len(events.data)
         /\ ToSet(events'.data) = ToSet(events.data)
         /\ Twice(events'.data) \subseteq Twice(events.data)
<1> DEFINE places == DOMAIN events.data
<1>1. PICK from \in Bijection(places, places) :
        events' = [events EXCEPT !.data = [i \in places |-> events.data[from[i]]]]
  BY DEF SortEvents
<1> DEFINE sorted == [i \in places |-> events.data[from[i]]]
<1>2. /\ \A i \in places : from[i] \in places
      /\ \A i, j \in places : from[i] = from[j] => i = j
      /\ \A j \in places : \E i \in places : from[i] = j
  BY DEF Bijection, Injection, Surjection, IsInjective
<1>3. events \in Provider(Seqs(EventIds, Limit))
  BY ProvidersTyped
<1>4. /\ events'.made = events.made /\ events'.load = events.load
      /\ events'.answer = events.answer /\ events'.error = events.error
      /\ events'.data = sorted
  BY <1>1, <1>3 DEF Provider
<1>5. DOMAIN sorted = places /\ \A i \in places : sorted[i] = events.data[from[i]]
  OBVIOUS
<1>6. sorted \in Seq(EventIds) /\ Len(sorted) = Len(events.data)
  <2>1. events.data \in Seq(EventIds)
    BY ProvidersTyped
  <2> QED
    BY <1>2, <2>1, Reordered
<1> HIDE DEF sorted
<1>7. ToSet(sorted) = ToSet(events.data)
  <2>1. ASSUME NEW i \in places PROVE sorted[i] \in ToSet(events.data)
    BY <1>2, <1>5, Zenon DEF ToSet
  <2>2. ASSUME NEW j \in places PROVE events.data[j] \in ToSet(sorted)
    <3>1. PICK i \in places : from[i] = j
      BY <1>2
    <3> QED
      BY <1>5, <3>1 DEF ToSet
  <2>3. \A x \in ToSet(sorted) : x \in ToSet(events.data)
    BY <1>5, <2>1 DEF ToSet
  <2>4. \A x \in ToSet(events.data) : x \in ToSet(sorted)
    BY <2>2 DEF ToSet
  <2> QED
    BY <2>3, <2>4
<1>8. ASSUME NEW x \in Twice(sorted) PROVE x \in Twice(events.data)
  <2>1. PICK i \in places, j \in places : i # j /\ sorted[i] = x /\ sorted[j] = x
    BY <1>5, <1>8 DEF Twice
  <2>2. /\ from[i] # from[j] /\ from[i] \in places /\ from[j] \in places
        /\ events.data[from[i]] = x /\ events.data[from[j]] = x
    BY <1>2, <1>5, <2>1
  <2> QED
    BY <1>7, <1>8, <2>2 DEF Twice
<1> QED
  BY <1>4, <1>6, <1>7, <1>8 DEF sorted

LEMMA SortKeeps ==
  ASSUME Types, LoadInv, ListInv, EventInv, DoubleInv, SortEvents
  PROVE  ListInv' /\ EventInv' /\ DoubleInv'
<1>1. /\ events'.made = events.made /\ events'.load = events.load
      /\ events'.answer = events.answer /\ events'.error = events.error
      /\ events'.data \in Seq(EventIds) /\ Len(events'.data) = Len(events.data)
      /\ ToSet(events'.data) = ToSet(events.data)
      /\ Twice(events'.data) \subseteq Twice(events.data)
  BY SortedList
<1>2. /\ lost' = lost /\ undone' = undone /\ underWay' = underWay /\ owner' = owner
      /\ EventPushes' = EventPushes /\ loaded' = Len(owner) /\ events.load = "idle"
  BY DEF SortEvents, feed, link, EventPushes
<1>3. Stored' = Stored /\ LastEvents' = LastEvents /\ Excused' = Excused
  BY <1>1, <1>2, SameLast DEF Excused, Loaded
<1>4. DoubleInv'
  BY <1>1, <1>2, <1>3 DEF DoubleInv
<1>5. Stored = 1 .. Len(owner) /\ Len(owner) \in Nat
  BY DEF Stored, Types
<1>6. \E k \in 0 .. Len(events'.data) : Headed(k)'
  <2>1. \A e \in ToSet(events'.data) : e <= loaded'
    BY <1>1, <1>2, <1>5 DEF DoubleInv
  <2>2. \A i \in 0 + 1 .. Len(events'.data) : events'.data[i] <= loaded'
    BY <1>1, <2>1 DEF ToSet
  <2>3. Headed(0)' /\ 0 \in 0 .. Len(events'.data)
    BY <1>1, <2>2 DEF Headed
  <2> QED
    BY <2>3
<1>7. ListInv'
  BY <1>1, <1>2, <1>5, <1>6 DEF ListInv
<1>8. \A e \in LastEvents : e <= loaded'
  BY <1>2, <1>5, LastEventsAre
<1>9. EventInv'
  BY <1>1, <1>2, <1>3, <1>8 DEF EventInv
<1> QED
  BY <1>4, <1>7, <1>9

-----------------------------------------------------------------------------
(* The invariant is inductive. *)

LEMMA InitUi == Init => UiInv
<1> SUFFICES ASSUME Init PROVE OrderInv
  BY InitTypes, InitLoads, InitDevices, InitEvents, InitDoubles DEF UiInv
<1> QED
  BY DEF Init, OrderInv, InOrder

\* What each step has to keep besides the types and LoadInv.
ListsInv == OrderInv /\ DeviceInv /\ ListInv /\ EventInv /\ DoubleInv

\* A step that only moves or loses pushes.
LEMMA PushesAlone ==
  ASSUME UiInv, KeepsDevices, KeepsEvents, OrderInv', UNCHANGED <<ppk, events, loaded>>
  PROVE  ListsInv'
BY DevicesAlone, EventsAlone DEF UiInv, ListsInv

LEMMA ServerUi ==
  ASSUME UiInv, Server
  PROVE  ListsInv'
<1> USE DEF UiInv, ListsInv
<1>1. ASSUME NEW d \in Devices, Report(d) PROVE ListsInv'
  BY <1>1, ReportPushes, ReportDevices, ReportEvents, ReportDoubles
<1>2. CASE BroadcastPPKUpdate
  <2>1. UNCHANGED <<ppk, events, loaded>>
    BY <1>2 DEF BroadcastPPKUpdate
  <2> QED
    BY <1>2, <2>1, BroadcastPPKKeeps, PushesAlone
<1>3. CASE BroadcastEventUpdate
  <2>1. UNCHANGED <<ppk, events, loaded>>
    BY <1>3 DEF BroadcastEventUpdate
  <2> QED
    BY <1>3, <2>1, BroadcastEventKeeps, PushesAlone
<1>4. CASE GetPPKList
  BY <1>4, QuietSteps, LoadDevices, EventsAlone DEF OfDevices
<1>5. CASE GetEvents
  BY <1>5, QuietSteps, LoadEventsKept, LoadDoubles, DevicesAlone DEF OfEvents
<1> QED
  BY <1>1, <1>2, <1>3, <1>4, <1>5 DEF Server

LEMMA SocketUi ==
  ASSUME UiInv, Socket
  PROVE  ListsInv'
<1>1. KeepsDevices /\ KeepsEvents /\ OrderInv' /\ UNCHANGED <<ppk, events, loaded>>
  <2>1. CASE Break
    BY <2>1, BreakKeeps DEF UiInv, Break
  <2>2. CASE OfSocket
    BY <2>2, QuietSteps DEF UiInv
  <2> QED
    BY <2>1, <2>2 DEF Socket, OfSocket
<1> QED
  BY <1>1, PushesAlone

LEMMA ApplicationUi ==
  ASSUME UiInv, Application
  PROVE  ListsInv'
<1> USE DEF UiInv, ListsInv
<1>1. CASE LoadPPKList \/ PPKListArrives \/ PPKListFails
  <2>1. OfDevices
    BY <1>1 DEF OfDevices
  <2> QED
    BY <2>1, QuietSteps, LoadDevices, EventsAlone
<1>2. CASE LoadEvents \/ EventsArrive \/ EventsFail
  <2>1. OfEvents
    BY <1>2 DEF OfEvents
  <2> QED
    BY <1>2, <2>1, QuietSteps, LoadEventsKept, LoadDoubles, DevicesAlone
<1>3. CASE HandlePPKUpdate
  <2>1. UNCHANGED <<events, loaded>>
    BY <1>3 DEF HandlePPKUpdate
  <2> QED
    BY <1>3, <2>1, PPKTaken, HandleDevices, EventsAlone
<1>4. CASE HandleEventUpdate
  <2>1. ppk' = ppk
    BY <1>4 DEF HandleEventUpdate
  <2> QED
    BY <1>4, <2>1, EventTaken, HandleEvents, HandleDoubles, DevicesAlone
<1>5. CASE SortEvents
  <2>1. OfEvents
    BY <1>5 DEF OfEvents
  <2> QED
    BY <1>5, <2>1, QuietSteps, SortKeeps, DevicesAlone
<1> QED
  BY <1>1, <1>2, <1>3, <1>4, <1>5 DEF Application

LEMMA NextUi == UiInv /\ [Next]_vars => UiInv'
<1> SUFFICES ASSUME UiInv, [Next]_vars PROVE UiInv'
  OBVIOUS
<1>1. Types' /\ LoadInv'
  BY NextTypes, NextLoads DEF UiInv
<1>2. CASE UNCHANGED vars
  <2>1. UNCHANGED <<feed, wire, lost, undone, ppk, events, underWay, loaded>>
    BY <1>2 DEF vars, link, history
  <2>2. KeepsDevices /\ KeepsEvents /\ OrderInv'
    BY <2>1, QuietKeeps DEF UiInv
  <2>3. ListsInv'
    BY <2>1, <2>2, PushesAlone
  <2> QED
    BY <1>1, <2>3 DEF UiInv, ListsInv
<1>3. CASE Next
  BY <1>1, <1>3, ServerUi, SocketUi, ApplicationUi DEF Next, UiInv, ListsInv
<1> QED
  BY <1>2, <1>3

\* UiInv holds in every state.
LEMMA UiIsInvariant == Spec => []UiInv
BY InitUi, NextUi, PTL DEF Spec

\* Whatever is loaded, pushed, lost or sorted, both lists stay within their
\* bounds (the 500 rows of EventProvider, the channel buffers of the server).
THEOREM UiTypeCorrect == Spec => []TypeOK
<1>1. UiInv => TypeOK
  BY TypesAre DEF UiInv
<1> QED
  BY <1>1, UiIsInvariant, PTL

\* When nothing is under way, a device is shown with an old event only if the
\* update of its last event did not reach the application after the snapshot, or
\* an answer made before that update, or a push that was already under way at the
\* snapshot, has replaced it (loadPPKList and _handlePPKUpdate of PPKProvider).
THEOREM DevicesCatchUp == Spec => []DevicesSettle
<1>1. UiInv => DevicesSettle
  <2> SUFFICES ASSUME UiInv, Settled(ppk, deviceChan, "ppk_update"), NEW d \in Devices
               PROVE  LastOf(d) \in lost.ppk \cup undone.ppk \cup {ppk.data[d]}
    BY DEF DevicesSettle
  <2>1. DevicePushes = {}
    BY DEF DevicePushes, Pushes, ToSet, Settled
  <2> QED
    BY <2>1 DEF UiInv, DeviceInv, Settled
<1> QED
  BY <1>1, UiIsInvariant, PTL

\* When nothing is under way, the list misses one of the last events only if its
\* push did not reach the application after the snapshot or was wiped out by an
\* answer made before it, or the list is full and the event was stored when the
\* list was last put in order: the limit never cuts off another one
\* (_handleEventUpdate of EventProvider).
THEOREM EventsCatchUp == Spec => []EventsSettle
<1>1. UiInv => EventsSettle
  <2> SUFFICES ASSUME UiInv, Settled(events, eventChan, "event_update"), NEW e \in LastEvents
               PROVE  e \in ToSet(events.data) \cup lost.events \cup undone.events
                            \cup {x \in 1 .. loaded : Len(events.data) = Limit}
    BY DEF EventsSettle, ListsLatest
  <2>1. EventPushes = {}
    BY DEF EventPushes, Pushes, ToSet, Settled
  <2>2. e \in 1 .. Len(owner) /\ loaded \in Nat /\ Len(owner) \in Nat
    BY LastEventsAre DEF UiInv, Types
  <2>3. \/ e \in lost.events \cup undone.events \cup ToSet(events.data)
        \/ e <= loaded /\ Len(events.data) = Limit
    BY <2>1 DEF UiInv, EventInv, Settled
  <2> QED
    BY <2>2, <2>3
<1> QED
  BY <1>1, UiIsInvariant, PTL

\* A reload or a reconnection doubles an event in the list only if its push was
\* under way when the server took the snapshot (loadEvents, _handleEventUpdate).
THEOREM DoublesExcused == Spec => []DoubledOnlyUnderWay
<1>1. UiInv => DoubledOnlyUnderWay
  <2> SUFFICES ASSUME UiInv, NEW i \in DOMAIN events.data, NEW j \in DOMAIN events.data,
                      i # j, events.data[i] = events.data[j]
               PROVE  events.data[i] \in underWay.events
    BY DEF DoubledOnlyUnderWay
  <2>1. events.data[i] \in Twice(events.data)
    BY DEF Twice, ToSet
  <2> QED
    BY <2>1 DEF UiInv, DoubleInv, Excused
<1> QED
  BY <1>1, UiIsInvariant, PTL
=============================================================================
