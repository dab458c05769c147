------------------------------ MODULE EventPath ------------------------------
(***************************************************************************)
(* The path of an event from the bytes of a panel to the WebSocket         *)
(* clients: PanelStream, the channel of events, WsHub.  What lies between, *)
(* UpdateDevice and the reply of the station, is in DeviceFeed and Relay;  *)
(* here a frame that is enqueued is offered to the channel at once.        *)
(***************************************************************************)
EXTENDS PanelStream, WsHub

vars == <<streamVars, hubVars>>

Init == StreamInit /\ HubInit

\* The handler takes a frame from its buffer.
Handle(fate) ==
  /\ HandleFrame(fate)
  /\ IF fate = "enqueued" THEN Push(Rewritten(handled'[Len(handled')].frame))
                          ELSE UNCHANGED hubVars

Handler ==
  \/ (ReadBytes \/ SplitEnds) /\ UNCHANGED hubVars
  \/ \E fate \in Fates : Handle(fate)

Hub ==
  /\ Broadcaster \/ \E c \in Clients : Connection(c) \/ ClientStep(c)
  /\ UNCHANGED streamVars

Next == ~died /\ (Handler \/ Hub)

Spec == Init /\ [][Next]_vars

\* Goroutines are scheduled.  Clients need not read.
FairSpec ==
  /\ Spec
  /\ WF_vars(~died /\ Broadcaster /\ UNCHANGED streamVars)
  /\ \A c \in Clients : WF_vars(~died /\ Connection(c) /\ UNCHANGED streamVars)

-----------------------------------------------------------------------------
(* Properties.                                                             *)

TypeOK ==
  /\ StreamTypeOK /\ BufferBounded
  /\ Len(deviceUpdates) <= UiBuffer /\ Len(eventUpdates) <= UiBuffer
  /\ wsClients \subseteq Clients
  /\ conn \in [Clients -> {"none", "adding", "serving", "removing", "gone"}]
  /\ up \in [Clients -> BOOLEAN]
  /\ unread \in [Clients -> 0 .. SockBuffer]
  /\ bpc \in {"select", "range", "write", "remove"}
  /\ todo \subseteq Clients
  /\ target \in Clients \cup {NoClient}
  /\ died \in BOOLEAN
  /\ owed \subseteq Clients

Increasing(f) == \A i, j \in DOMAIN f : i < j => f[i] < f[j]

\* The broadcasts so far of a type, and the frames enqueued so far.
Sent(type) == {i \in 1 .. Len(log) : log[i].type = type}
Enqueued == {n \in 1 .. Len(handled) : handled[n].fate = "enqueued"}

\* What the n-th frame is to be shown as.
Device(n) == Shifted(Atoi(Account(handled[n].frame)), rules)
Shown(n) ==
  LET m == handled[n].frame
  IN  [device |-> FormatAccount(Device(n)), group |-> m[8], zone |-> m[9],
       code |-> ChangeTestCode(m[7], rules)]

\* What is broadcast is what the panel reported, in its order, with nothing
\* invented or doubled: whatever was dropped by a full channel, for an unknown
\* code or for its form.  (As long as the accounts fit.)
BroadcastsAreReports ==
  (\A n \in Enqueued : Fits(handled[n].frame)) =>
    /\ \E f \in [Sent("ppk_update") -> Enqueued] :
         Increasing(f) /\ \A i \in DOMAIN f : log[i].number = Device(f[i])
    /\ \E f \in [Sent("event_update") -> Enqueued] :
         Increasing(f) /\ \A i \in DOMAIN f : log[i].data = Shown(f[i])

\* The broadcaster is held up by a client that does not read and does not leave,
\* and by nothing else.
OnlyStalledClientsBlock ==
  (\A c \in Clients : []<>(~up[c] \/ unread[c] < SockBuffer)) =>
    []<>(bpc = "select" \/ died)
=============================================================================
