-------------------------- MODULE EventPathProofs --------------------------
(***************************************************************************)
(* Theorems about EventPath, for all streams, rules and sets of clients    *)
(* and all sizes of the chunk, the buffer, the channels and the sockets.   *)
(***************************************************************************)
EXTENDS EventPath, CollectProofs

-----------------------------------------------------------------------------
(* Sequences.                                                              *)

IsSeq(s) == \E S : s \in Seq(S)

LEMMA EmptySeq == IsSeq(<<>>) /\ Len(<<>>) = 0
<1>1. <<>> \in Seq({}) /\ Len(<<>>) = 0
  BY SMT
<1> QED
  BY <1>1 DEF IsSeq

LEMMA AppendSeq ==
  ASSUME NEW s, IsSeq(s), NEW x
  PROVE  IsSeq(Append(s, x)) /\ Len(Append(s, x)) = Len(s) + 1
<1>1. PICK S : s \in Seq(S)
  BY DEF IsSeq
<1> DEFINE X == S \cup {x}
<1>2. s \in Seq(X) /\ x \in X
  BY <1>1, SMT
<1>3. Append(s, x) \in Seq(X) /\ Len(Append(s, x)) = Len(s) + 1
  BY <1>2, SMT
<1> QED
  BY <1>3 DEF IsSeq

LEMMA TailSeq ==
  ASSUME NEW s, IsSeq(s), s # <<>>
  PROVE  IsSeq(Tail(s)) /\ Len(Tail(s)) <= Len(s)
<1>1. PICK S : s \in Seq(S)
  BY DEF IsSeq
<1>2. Tail(s) \in Seq(S) /\ Len(Tail(s)) <= Len(s)
  BY <1>1, SMT
<1> QED
  BY <1>2 DEF IsSeq

LEMMA LenSeq == ASSUME NEW s, IsSeq(s) PROVE Len(s) \in Nat
BY SMT DEF IsSeq

\* An offer to a channel keeps it a channel, and within its capacity.
LEMMA OfferedType ==
  ASSUME NEW ch, IsSeq(ch), Len(ch) <= UiBuffer, NEW e
  PROVE  IsSeq(Offered(ch, e)) /\ Len(Offered(ch, e)) <= UiBuffer
<1>1. CASE Len(ch) < UiBuffer
  <2>1. Offered(ch, e) = Append(ch, e)
    BY <1>1 DEF Offered
  <2>2. IsSeq(Append(ch, e)) /\ Len(Append(ch, e)) = Len(ch) + 1
    BY AppendSeq
  <2>3. Len(ch) \in Nat
    BY LenSeq
  <2> QED
    BY <1>1, <2>1, <2>2, <2>3, HubAssumption, SMT
<1>2. CASE ~(Len(ch) < UiBuffer)
  BY <1>2 DEF Offered
<1> QED
  BY <1>1, <1>2

LEMMA ConcatType ==
  ASSUME NEW S, NEW s \in Seq(S), NEW t \in Seq(S)
  PROVE  /\ s \o t \in Seq(S)
         /\ Len(s \o t) = Len(s) + Len(t)
         /\ \A i \in 1 .. Len(s) : (s \o t)[i] = s[i]
         /\ \A i \in 1 .. Len(t) : (s \o t)[Len(s) + i] = t[i]
BY SMT

-----------------------------------------------------------------------------
(* The hub.                                                                *)

\* The types of the hub, and why an offer never fails for them: the channels
\* are sequences.
HubTypeInv ==
  /\ IsSeq(deviceUpdates) /\ Len(deviceUpdates) <= UiBuffer
  /\ IsSeq(eventUpdates) /\ Len(eventUpdates) <= UiBuffer
  /\ wsClients \subseteq Clients
  /\ conn \in [Clients -> {"none", "adding", "serving", "removing", "gone"}]
  /\ up \in [Clients -> BOOLEAN]
  /\ unread \in [Clients -> 0 .. SockBuffer]
  /\ bpc \in {"select", "range", "write", "remove"}
  /\ todo \subseteq Clients
  /\ target \in Clients \cup {NoClient}
  /\ (bpc \in {"write", "remove"} => target \in Clients)
  /\ died \in BOOLEAN
  /\ owed \subseteq Clients

\* A client that is up is being added or served; those the broadcaster deals
\* with have been.
PhaseInv ==
  /\ \A c \in Clients : up[c] => conn[c] \in {"adding", "serving"}
  /\ \A c \in wsClients \cup owed : conn[c] # "none"
  /\ bpc \in {"write", "remove"} => conn[target] # "none"
  /\ bpc = "remove" => ~up[target]

\* While a loop is under way, a client it owes the update and that is up is
\* still to be visited, or being written to.
OwedInv ==
  bpc # "select" =>
    \A c \in owed : up[c] => /\ c \in wsClients
                             /\ c \in todo \/ (bpc = "write" /\ target = c)

HubInv == HubTypeInv /\ PhaseInv /\ OwedInv

LEMMA HubInitial == HubInit => HubInv
<1> SUFFICES ASSUME HubInit PROVE HubInv
  OBVIOUS
<1>1. HubTypeInv
  <2>1. /\ IsSeq(deviceUpdates) /\ Len(deviceUpdates) = 0
        /\ IsSeq(eventUpdates) /\ Len(eventUpdates) = 0
    BY EmptySeq, Zenon DEF HubInit
  <2>2. Len(deviceUpdates) <= UiBuffer /\ Len(eventUpdates) <= UiBuffer
    BY <2>1, HubAssumption, SMT
  <2>3. /\ conn \in [Clients -> {"none", "adding", "serving", "removing", "gone"}]
        /\ up \in [Clients -> BOOLEAN]
        /\ unread \in [Clients -> 0 .. SockBuffer]
    BY HubAssumption, SMT DEF HubInit
  <2>4. bpc \notin {"write", "remove"}
    BY SMT DEF HubInit
  <2> QED
    BY <2>1, <2>2, <2>3, <2>4, Zenon DEF HubInit, HubTypeInv
<1>2. PhaseInv /\ OwedInv
  BY SMT DEF HubInit, PhaseInv, OwedInv
<1> QED
  BY <1>1, <1>2 DEF HubInv

\* Steps that leave the channels alone.
LEMMA ChannelsKept ==
  ASSUME HubTypeInv, UNCHANGED channels
  PROVE  /\ IsSeq(deviceUpdates') /\ Len(deviceUpdates') <= UiBuffer
         /\ IsSeq(eventUpdates') /\ Len(eventUpdates') <= UiBuffer
BY Zenon DEF HubTypeInv, channels

LEMMA PushKeeps == ASSUME HubInv, NEW e, Push(e) PROVE HubInv'
<1> USE DEF HubInv
<1>1. /\ IsSeq(deviceUpdates') /\ Len(deviceUpdates') <= UiBuffer
      /\ IsSeq(eventUpdates') /\ Len(eventUpdates') <= UiBuffer
  BY OfferedType, Zenon DEF Push, HubTypeInv
<1>2. HubTypeInv'
  BY <1>1, Zenon DEF Push, HubTypeInv, mapVars, loopVars
<1>3. PhaseInv' /\ OwedInv'
  BY Zenon DEF Push, PhaseInv, OwedInv, mapVars, loopVars
<1> QED
  BY <1>2, <1>3

LEMMA TouchType == ASSUME TouchMap PROVE died' \in BOOLEAN
BY Zenon DEF TouchMap, MapWritten

\* The connection of a client.
LEMMA ConnectionKeeps ==
  ASSUME HubInv, NEW c \in Clients, Connection(c) \/ ClientStep(c)
  PROVE  HubInv'
<1> USE DEF HubInv
<1>1. CASE Connect(c)
  <2>1. HubTypeInv'
    BY <1>1, ChannelsKept, TouchType, SMT DEF Connect, Moves, HubTypeInv, loopVars
  <2>2. PhaseInv'
    BY <1>1, SMT DEF Connect, Moves, HubTypeInv, PhaseInv, loopVars
  <2>3. OwedInv'
    BY <1>1, SMT DEF Connect, Moves, HubTypeInv, PhaseInv, OwedInv, loopVars
  <2> QED
    BY <2>1, <2>2, <2>3
<1>2. CASE Added(c)
  <2>1. HubTypeInv'
    BY <1>2, ChannelsKept, SMT DEF Added, Moves, HubTypeInv
  <2>2. PhaseInv'
    BY <1>2, SMT DEF Added, Moves, HubTypeInv, PhaseInv
  <2>3. OwedInv'
    BY <1>2, SMT DEF Added, Moves, HubTypeInv, OwedInv
  <2> QED
    BY <2>1, <2>2, <2>3
<1>3. CASE ClientReads(c)
  <2>1. unread[c] \in 0 .. SockBuffer /\ SockBuffer \in Nat
    BY HubAssumption DEF HubTypeInv
  <2>2. unread[c] - 1 \in 0 .. SockBuffer
    BY <1>3, <2>1, SMT DEF ClientReads
  <2>3. HubTypeInv'
    BY <1>3, <2>2, ChannelsKept, SMT DEF ClientReads, HubTypeInv, mapVars, loopVars
  <2>4. PhaseInv' /\ OwedInv'
    BY <1>3, Zenon DEF ClientReads, PhaseInv, OwedInv, mapVars, loopVars
  <2> QED
    BY <2>3, <2>4
<1>4. CASE ClientLeaves(c)
  <2>1. HubTypeInv'
    BY <1>4, HubAssumption, ChannelsKept, SMT DEF ClientLeaves, HubTypeInv, loopVars
  <2>2. PhaseInv'
    BY <1>4, SMT DEF ClientLeaves, HubTypeInv, PhaseInv, loopVars
  <2>3. OwedInv'
    BY <1>4, SMT DEF ClientLeaves, HubTypeInv, OwedInv, loopVars
  <2> QED
    BY <2>1, <2>2, <2>3
<1>5. CASE ReaderEnds(c)
  <2>1. HubTypeInv'
    BY <1>5, ChannelsKept, TouchType, SMT DEF ReaderEnds, Moves, HubTypeInv, loopVars
  <2>2. PhaseInv'
    BY <1>5, SMT DEF ReaderEnds, Moves, HubTypeInv, PhaseInv, loopVars
  <2>3. OwedInv'
    BY <1>5, Zenon DEF ReaderEnds, OwedInv, loopVars
  <2> QED
    BY <2>1, <2>2, <2>3
<1>6. CASE Removed(c)
  <2>1. HubTypeInv'
    BY <1>6, ChannelsKept, SMT DEF Removed, Moves, HubTypeInv, loopVars
  <2>2. PhaseInv'
    BY <1>6, SMT DEF Removed, Moves, HubTypeInv, PhaseInv, loopVars
  <2>3. OwedInv'
    BY <1>6, SMT DEF Removed, Moves, HubTypeInv, PhaseInv, OwedInv, loopVars
  <2> QED
    BY <2>1, <2>2, <2>3
<1> QED
  BY <1>1, <1>2, <1>3, <1>4, <1>5, <1>6 DEF Connection, ClientStep

\* A loop begins with every client of the map still to be visited.
LEMMA BroadcastKeeps ==
  ASSUME HubInv, NEW update, Broadcast(update),
         IsSeq(deviceUpdates') /\ Len(deviceUpdates') <= UiBuffer,
         IsSeq(eventUpdates') /\ Len(eventUpdates') <= UiBuffer
  PROVE  HubInv'
<1> USE DEF HubInv
<1>1. HubTypeInv'
  BY TouchType, SMT DEF Broadcast, HubTypeInv, mapVars
<1>2. PhaseInv' /\ OwedInv'
  BY SMT DEF Broadcast, HubTypeInv, PhaseInv, OwedInv, mapVars
<1> QED
  BY <1>1, <1>2

LEMMA BroadcasterKeeps == ASSUME HubInv, Broadcaster PROVE HubInv'
<1> USE DEF HubInv
<1>1. CASE TakeDevice
  <2>1. IsSeq(deviceUpdates') /\ Len(deviceUpdates') <= Len(deviceUpdates)
    BY <1>1, TailSeq, Zenon DEF TakeDevice, HubTypeInv
  <2>2. Len(deviceUpdates') <= UiBuffer
    BY <2>1, LenSeq, HubAssumption, SMT DEF HubTypeInv
  <2>3. IsSeq(eventUpdates') /\ Len(eventUpdates') <= UiBuffer
    BY <1>1, Zenon DEF TakeDevice, HubTypeInv
  <2> QED
    BY <1>1, <2>1, <2>2, <2>3, BroadcastKeeps DEF TakeDevice
<1>2. CASE TakeEvent
  <2>1. IsSeq(eventUpdates') /\ Len(eventUpdates') <= Len(eventUpdates)
    BY <1>2, TailSeq, Zenon DEF TakeEvent, HubTypeInv
  <2>2. Len(eventUpdates') <= UiBuffer
    BY <2>1, LenSeq, HubAssumption, SMT DEF HubTypeInv
  <2>3. IsSeq(deviceUpdates') /\ Len(deviceUpdates') <= UiBuffer
    BY <1>2, Zenon DEF TakeEvent, HubTypeInv
  <2>4. CASE Broadcast(EventUpdate(Head(eventUpdates)))
    BY <2>1, <2>2, <2>3, <2>4, BroadcastKeeps
  <2>5. CASE UNCHANGED <<mapVars, loopVars, unread, died>>
    <3>1. HubTypeInv'
      BY <2>1, <2>2, <2>3, <2>5, Zenon DEF HubTypeInv, mapVars, loopVars
    <3>2. PhaseInv' /\ OwedInv'
      BY <2>5, Zenon DEF PhaseInv, OwedInv, mapVars, loopVars
    <3> QED
      BY <3>1, <3>2
  <2> QED
    BY <1>2, <2>4, <2>5, Zenon DEF TakeEvent
<1>3. ASSUME NEW c \in Clients, Visit(c) PROVE HubInv'
  <2>1. HubTypeInv'
    BY <1>3, ChannelsKept, TouchType, SMT DEF Visit, HubTypeInv, mapVars
  <2>2. PhaseInv'
    BY <1>3, SMT DEF Visit, HubTypeInv, PhaseInv, mapVars
  <2>3. OwedInv'
    BY <1>3, SMT DEF Visit, OwedInv, mapVars
  <2> QED
    BY <2>1, <2>2, <2>3
<1>4. CASE LoopEnds
  <2>1. HubTypeInv'
    BY <1>4, ChannelsKept, TouchType, SMT DEF LoopEnds, HubTypeInv, mapVars
  <2>2. PhaseInv' /\ OwedInv'
    BY <1>4, SMT DEF LoopEnds, PhaseInv, OwedInv, mapVars
  <2> QED
    BY <2>1, <2>2
<1>5. CASE WriteUpdate
  <2>1. unread[target] \in 0 .. SockBuffer /\ SockBuffer \in Nat
    BY <1>5, HubAssumption, SMT DEF WriteUpdate, HubTypeInv
  <2>2. unread[target] + 1 \in 0 .. SockBuffer
    BY <1>5, <2>1, SMT DEF WriteUpdate
  <2>3. HubTypeInv'
    BY <1>5, <2>2, ChannelsKept, SMT DEF WriteUpdate, HubTypeInv, mapVars
  <2>4. PhaseInv' /\ OwedInv'
    BY <1>5, SMT DEF WriteUpdate, PhaseInv, OwedInv, mapVars
  <2> QED
    BY <2>3, <2>4
<1>6. CASE WriteIsLost
  <2>1. HubTypeInv'
    BY <1>6, ChannelsKept, SMT DEF WriteIsLost, HubTypeInv, mapVars
  <2>2. PhaseInv' /\ OwedInv'
    BY <1>6, SMT DEF WriteIsLost, PhaseInv, OwedInv, mapVars
  <2> QED
    BY <2>1, <2>2
<1>7. CASE WriteFails
  <2>1. HubTypeInv'
    BY <1>7, ChannelsKept, TouchType, SMT DEF WriteFails, HubTypeInv, mapVars
  <2>2. PhaseInv' /\ OwedInv'
    BY <1>7, SMT DEF WriteFails, PhaseInv, OwedInv, mapVars
  <2> QED
    BY <2>1, <2>2
<1>8. CASE RemoveEnds
  <2>1. HubTypeInv'
    BY <1>8, ChannelsKept, SMT DEF RemoveEnds, HubTypeInv
  <2>2. PhaseInv' /\ OwedInv'
    BY <1>8, SMT DEF RemoveEnds, PhaseInv, OwedInv
  <2> QED
    BY <2>1, <2>2
<1> QED
  BY <1>1, <1>2, <1>3, <1>4, <1>5, <1>6, <1>7, <1>8 DEF Broadcaster

LEMMA HubStays == ASSUME HubInv, UNCHANGED hubVars PROVE HubInv'
<1>1. HubTypeInv'
  BY Zenon DEF HubInv, HubTypeInv, hubVars, channels, mapVars, loopVars
<1>2. PhaseInv' /\ OwedInv'
  BY Zenon DEF HubInv, PhaseInv, OwedInv, hubVars, mapVars, loopVars
<1> QED
  BY <1>1, <1>2 DEF HubInv

LEMMA HubStep == HubInv /\ [Next]_vars => HubInv'
<1> SUFFICES ASSUME HubInv, [Next]_vars PROVE HubInv'
  OBVIOUS
<1>1. CASE Handler
  <2>1. CASE UNCHANGED hubVars
    BY <2>1, HubStays
  <2>2. ASSUME NEW fate \in Fates, Handle(fate) PROVE HubInv'
    BY <2>2, HubStays, PushKeeps, Zenon DEF Handle
  <2> QED
    BY <1>1, <2>1, <2>2, Zenon DEF Handler
<1>2. CASE Hub
  BY <1>2, BroadcasterKeeps, ConnectionKeeps, Zenon DEF Hub
<1>3. CASE UNCHANGED vars
  BY <1>3, HubStays DEF vars
<1> QED
  BY <1>1, <1>2, <1>3 DEF Next

\* No step but the last of a loop ends it, and that one finds nobody owed and up.
LEMMA ReachStep ==
  HubInv /\ [Next]_vars =>
    [bpc # "select" /\ bpc' = "select" => \A c \in owed : ~up[c]]_hubVars
<1> SUFFICES ASSUME HubInv, [Next]_vars, bpc # "select", bpc' = "select",
                    NEW c \in owed, up[c]
             PROVE  FALSE
  BY Zenon
<1>1. bpc' # bpc
  OBVIOUS
<1>2. Broadcaster
  <2>1. CASE Handler
    BY <1>1, <2>1, Zenon DEF Handler, Handle, Push, hubVars, loopVars
  <2>2. ASSUME NEW w \in Clients, Connection(w) \/ ClientStep(w) PROVE FALSE
    BY <1>1, <2>2, Zenon DEF Connection, ClientStep, Connect, Added, ClientReads,
       ClientLeaves, ReaderEnds, Removed, loopVars
  <2>3. CASE UNCHANGED vars
    BY <1>1, <2>3, Zenon DEF vars, hubVars, loopVars
  <2> QED
    BY <2>1, <2>2, <2>3, Zenon DEF Next, Hub
<1>3. LoopEnds
  BY <1>2, Zenon DEF Broadcaster, TakeDevice, TakeEvent, Visit, WriteUpdate,
     WriteIsLost, WriteFails, RemoveEnds
<1> QED
  BY <1>3, SMT DEF LoopEnds, HubInv, OwedInv

\* A broadcast reaches every client that was in the map when it began and is up
\* when it ends, for any number of clients that come, leave and stall.
THEOREM BroadcastsComplete == Spec => BroadcastsReachAll
<1>1. Init => HubInv
  BY HubInitial DEF Init
<1>2. HubInv /\ [Next]_vars => HubInv'
  BY HubStep
<1>3. HubInv /\ [Next]_vars =>
        [bpc # "select" /\ bpc' = "select" => \A c \in owed : ~up[c]]_hubVars
  BY ReachStep
<1> QED
  BY <1>1, <1>2, <1>3, PTL DEF Spec, BroadcastsReachAll

-----------------------------------------------------------------------------
(* The frames of a stream.                                                 *)

\* Where the part of the stream that is in buffer begins, and where the last
\* frame handled has ended.
BufferStart == pos - Len(buffer)
LastEnd == IF handled = <<>> THEN 0 ELSE handled[Len(handled)].end

\* buffer holds the end of what was read.
BufferInv ==
  /\ Len(buffer) <= pos
  /\ \A i \in 1 .. Len(buffer) : buffer[i] = stream[BufferStart + i]

\* What was read since the last frame and is not in buffer was dropped for its
\* length, and no terminator with it.
DroppedInv ==
  /\ LastEnd <= BufferStart
  /\ \A i \in LastEnd + 1 .. BufferStart : stream[i] # Terminator
  /\ BufferStart = LastEnd \/ BufferStart - LastEnd > MaxBuffer

\* Only while it is being split is buffer over the limit, or a terminator in it.
RoomInv ==
  /\ hpc = "read" => /\ Len(buffer) <= MaxBuffer
                     /\ \A i \in 1 .. Len(buffer) : buffer[i] # Terminator
  /\ hpc = "split" => Len(buffer) <= MaxBuffer + ChunkSize

\* h is the frame that begins behind start.
IsFrame(h, start) ==
  /\ h.end - 1 - start \in Nat
  /\ stream[h.end] = Terminator
  /\ \A i \in start + 1 .. h.end - 1 : stream[i] # Terminator
  /\ Len(h.frame) <= h.end - 1 - start
  /\ \A i \in 1 .. Len(h.frame) : h.frame[i] = stream[h.end - 1 - Len(h.frame) + i]
  /\ h.end - 1 - start <= MaxBuffer => Len(h.frame) = h.end - 1 - start

LEMMA FramesByName ==
  FramesAreMessages <=> \A n \in 1 .. Len(handled) : IsFrame(handled[n], Start(n))
BY Zenon DEF FramesAreMessages, IsFrame

StreamInv ==
  /\ StreamTypeOK
  /\ BufferInv
  /\ DroppedInv
  /\ RoomInv
  /\ FramesAreMessages

HandledFrames == [frame : Seq(STRING), fate : Fates, end : 1 .. Len(stream)]

LEMMA LastEndType == ASSUME StreamTypeOK PROVE LastEnd \in 0 .. Len(stream)
<1>1. stream \in Seq(STRING)
  BY StreamAssumption DEF StreamTypeOK
<1>2. handled \in Seq(HandledFrames)
  BY DEF StreamTypeOK, HandledFrames
<1>3. CASE handled = <<>>
  BY <1>1, <1>3, SMT DEF LastEnd
<1>4. CASE handled # <<>>
  <2>1. handled[Len(handled)] \in HandledFrames
    BY <1>2, <1>4, SMT
  <2>2. handled[Len(handled)].end \in 1 .. Len(stream)
    BY <2>1 DEF HandledFrames
  <2> QED
    BY <1>1, <1>4, <2>2, SMT DEF LastEnd
<1> QED
  BY <1>3, <1>4

LEMMA StreamInitial == StreamInit => StreamInv
<1> SUFFICES ASSUME StreamInit PROVE StreamInv
  OBVIOUS
<1>1. /\ rules \in RuleSets /\ stream \in Streams /\ stream \in Seq(STRING)
      /\ pos = 0 /\ buffer = <<>> /\ hpc = "read" /\ handled = <<>>
  BY StreamAssumption DEF StreamInit
<1>2. Len(buffer) = 0 /\ Len(handled) = 0 /\ LastEnd = 0 /\ BufferStart = 0
  <2>1. LastEnd = 0
    BY <1>1, Zenon DEF LastEnd
  <2>2. Len(buffer) = 0 /\ Len(handled) = 0
    BY <1>1, EmptySeq
  <2>3. BufferStart = 0
    <3>1. BufferStart = 0 - 0
      BY <1>1, <2>2, Zenon DEF BufferStart
    <3> QED
      BY <3>1, SMT
  <2> QED
    BY <2>1, <2>2, <2>3
<1>3. buffer \in Seq(STRING) /\ handled \in Seq(HandledFrames)
  BY <1>1, SMT
<1>4. StreamTypeOK
  BY <1>1, <1>3, SMT DEF StreamTypeOK, HandledFrames
<1>5. BufferInv /\ DroppedInv /\ RoomInv
  BY <1>1, <1>2, StreamAssumption, SMT DEF BufferInv, DroppedInv, RoomInv
<1>6. FramesAreMessages
  BY <1>2, SMT DEF FramesAreMessages
<1> QED
  BY <1>4, <1>5, <1>6 DEF StreamInv

LEMMA StreamStays == ASSUME StreamInv, UNCHANGED streamVars PROVE StreamInv'
BY Zenon DEF StreamInv, StreamTypeOK, BufferInv, DroppedInv, RoomInv, BufferStart,
   LastEnd, FramesAreMessages, Start, streamVars

\* The frames handled do not change, nor what they have to be.
LEMMA FramesStay ==
  ASSUME FramesAreMessages, UNCHANGED <<stream, handled>> PROVE FramesAreMessages'
BY Zenon DEF FramesAreMessages, Start

LEMMA ReadKeeps == ASSUME StreamInv, ReadBytes PROVE StreamInv'
<1>1. PICK k \in 1 .. ChunkSize :
        /\ pos + k <= Len(stream)
        /\ buffer' = buffer \o SubSeq(stream, pos + 1, pos + k)
        /\ pos' = pos + k
  BY DEF ReadBytes
<1> DEFINE chunk == SubSeq(stream, pos + 1, pos + k)
<1>2. /\ stream \in Seq(STRING) /\ buffer \in Seq(STRING) /\ pos \in Nat
      /\ Len(buffer) \in Nat /\ k \in Nat \ {0} /\ k <= ChunkSize
      /\ MaxBuffer \in Nat /\ ChunkSize \in Nat
  BY StreamAssumption, SMT DEF StreamInv, StreamTypeOK
<1>3. /\ chunk \in Seq(STRING) /\ Len(chunk) = k
      /\ \A i \in 1 .. k : chunk[i] = stream[pos + i]
  BY <1>1, <1>2, SMT
<1>4. /\ buffer' \in Seq(STRING) /\ Len(buffer') = Len(buffer) + k
      /\ \A i \in 1 .. Len(buffer) : buffer'[i] = buffer[i]
      /\ \A i \in 1 .. k : buffer'[Len(buffer) + i] = chunk[i]
  BY <1>1, <1>2, <1>3, ConcatType
<1>5. hpc' = "split" /\ UNCHANGED <<rules, stream, handled>>
  BY DEF ReadBytes
<1>6. BufferStart' = BufferStart /\ LastEnd' = LastEnd
  BY <1>1, <1>2, <1>4, <1>5, SMT DEF BufferStart, LastEnd
<1>7. StreamTypeOK'
  BY <1>1, <1>2, <1>4, <1>5, SMT DEF StreamInv, StreamTypeOK
<1>8. BufferInv'
  <2>1. Len(buffer') <= pos'
    BY <1>1, <1>2, <1>4, SMT DEF StreamInv, BufferInv
  <2>2. ASSUME NEW i \in 1 .. Len(buffer') PROVE buffer'[i] = stream[BufferStart + i]
    <3>1. CASE i <= Len(buffer)
      BY <1>2, <1>4, <2>2, <3>1, SMT DEF StreamInv, BufferInv
    <3>2. CASE i > Len(buffer)
      <4>1. i - Len(buffer) \in 1 .. k /\ i = Len(buffer) + (i - Len(buffer))
        BY <1>2, <1>4, <2>2, <3>2, SMT
      <4>2. buffer'[i] = stream[pos + (i - Len(buffer))]
        BY <1>3, <1>4, <4>1
      <4>3. pos + (i - Len(buffer)) = BufferStart + i
        BY <1>2, <4>1, SMT DEF BufferStart
      <4> QED
        BY <4>2, <4>3
    <3> QED
      BY <1>2, <1>4, <2>2, <3>1, <3>2, SMT
  <2> QED
    BY <1>5, <1>6, <2>1, <2>2 DEF BufferInv
<1>9. DroppedInv'
  BY <1>5, <1>6, Zenon DEF StreamInv, DroppedInv
<1>10. RoomInv'
  <2>1. Len(buffer) <= MaxBuffer
    BY DEF StreamInv, RoomInv, ReadBytes
  <2>2. Len(buffer') <= MaxBuffer + ChunkSize
    BY <1>2, <1>4, <2>1, SMT
  <2> QED
    BY <1>5, <2>2, SMT DEF RoomInv
<1>11. FramesAreMessages'
  BY <1>5, FramesStay DEF StreamInv
<1> QED
  BY <1>7, <1>8, <1>9, <1>10, <1>11 DEF StreamInv

LEMMA SplitEndsKeeps == ASSUME StreamInv, SplitEnds PROVE StreamInv'
<1>1. /\ \A i \in 1 .. Len(buffer) : buffer[i] # Terminator
      /\ hpc' = "read" /\ UNCHANGED <<rules, stream, pos, handled>>
      /\ buffer' = IF Len(buffer) > MaxBuffer THEN <<>> ELSE buffer
  BY Zenon DEF SplitEnds, Terminators
<1>2. /\ stream \in Seq(STRING) /\ buffer \in Seq(STRING) /\ pos \in Nat
      /\ Len(buffer) \in Nat /\ MaxBuffer \in Nat
      /\ LastEnd \in Nat /\ BufferStart \in Nat
      /\ BufferStart + Len(buffer) = pos /\ LastEnd <= BufferStart
  BY LastEndType, StreamAssumption, SMT
     DEF StreamInv, StreamTypeOK, BufferInv, DroppedInv, BufferStart
<1>3. LastEnd' = LastEnd
  BY <1>1 DEF LastEnd
<1>4. FramesAreMessages'
  BY <1>1, FramesStay DEF StreamInv
<1>5. CASE Len(buffer) > MaxBuffer
  <2>1. buffer' = <<>> /\ Len(buffer') = 0 /\ buffer' \in Seq(STRING)
    BY <1>1, <1>5, SMT
  <2>2. BufferStart' = pos
    BY <1>1, <1>2, <2>1, SMT DEF BufferStart
  <2>3. StreamTypeOK'
    BY <1>1, <2>1, SMT DEF StreamInv, StreamTypeOK
  <2>4. BufferInv' /\ RoomInv'
    BY <1>1, <1>2, <2>1, SMT DEF BufferInv, RoomInv
  <2>5. ASSUME NEW i \in LastEnd + 1 .. pos PROVE stream[i] # Terminator
    <3>1. CASE i <= BufferStart
      BY <1>2, <2>5, <3>1, SMT DEF StreamInv, DroppedInv
    <3>2. CASE i > BufferStart
      <4>1. i - BufferStart \in 1 .. Len(buffer) /\ i = BufferStart + (i - BufferStart)
        BY <1>2, <2>5, <3>2, SMT
      <4>2. stream[i] = buffer[i - BufferStart]
        BY <4>1 DEF StreamInv, BufferInv
      <4> QED
        BY <1>1, <4>1, <4>2
    <3> QED
      BY <1>2, <2>5, <3>1, <3>2, SMT
  <2>6. DroppedInv'
    BY <1>1, <1>2, <1>3, <1>5, <2>2, <2>5, SMT DEF DroppedInv
  <2> QED
    BY <1>4, <2>3, <2>4, <2>6 DEF StreamInv
<1>6. CASE ~(Len(buffer) > MaxBuffer)
  <2>1. buffer' = buffer
    BY <1>1, <1>6
  <2>2. BufferStart' = BufferStart
    BY <1>1, <2>1 DEF BufferStart
  <2>3. StreamTypeOK'
    BY <1>1, <2>1, SMT DEF StreamInv, StreamTypeOK
  <2>4. BufferInv' /\ DroppedInv'
    BY <1>1, <1>3, <2>1, <2>2, Zenon DEF StreamInv, BufferInv, DroppedInv
  <2>5. RoomInv'
    BY <1>1, <1>2, <1>6, <2>1, SMT DEF RoomInv
  <2> QED
    BY <1>4, <2>3, <2>4, <2>5 DEF StreamInv
<1> QED
  BY <1>5, <1>6

\* The frame before the first terminator is the one that begins behind the last.
LEMMA HandleKeeps == ASSUME StreamInv, NEW fate \in Fates, HandleFrame(fate) PROVE StreamInv'
<1> DEFINE F(i) == [frame |-> SubSeq(buffer, 1, i - 1), fate |-> fate,
                    end |-> pos - Len(buffer) + i]
<1>1. PICK i \in Terminators :
        /\ \A j \in Terminators : i <= j
        /\ handled' = Append(handled, F(i))
        /\ buffer' = Rest(i)
  BY Zenon DEF HandleFrame
<1> DEFINE m == SubSeq(buffer, 1, i - 1)
<1>2. hpc = "split" /\ UNCHANGED <<rules, stream, pos, hpc>>
  BY Zenon DEF HandleFrame
<1>3. /\ stream \in Seq(STRING) /\ buffer \in Seq(STRING) /\ pos \in 0 .. Len(stream)
      /\ Len(stream) \in Nat /\ Len(buffer) \in Nat /\ MaxBuffer \in Nat
      /\ ChunkSize \in Nat
      /\ LastEnd \in Nat /\ BufferStart \in Nat
      /\ BufferStart + Len(buffer) = pos /\ LastEnd <= BufferStart
  BY LastEndType, StreamAssumption, SMT
     DEF StreamInv, StreamTypeOK, BufferInv, DroppedInv, BufferStart
<1>4. i \in 1 .. Len(buffer) /\ buffer[i] = Terminator
  BY DEF Terminators
<1>5. ASSUME NEW j \in 1 .. i - 1 PROVE buffer[j] # Terminator
  <2>1. j \in 1 .. Len(buffer) /\ ~(i <= j)
    BY <1>3, <1>4, <1>5, SMT
  <2> QED
    BY <1>1, <2>1 DEF Terminators
<1>6. /\ m \in Seq(STRING) /\ Len(m) = i - 1
      /\ \A j \in 1 .. i - 1 : m[j] = buffer[j]
  BY <1>3, <1>4, SMT
<1>7. /\ buffer' \in Seq(STRING) /\ Len(buffer') = Len(buffer) - i
      /\ \A j \in 1 .. Len(buffer) - i : buffer'[j] = buffer[i + j]
  BY <1>1, <1>3, <1>4, SMT DEF Rest
<1> DEFINE e == BufferStart + i
           h == [frame |-> m, fate |-> fate, end |-> e]
<1>8. e \in 1 .. Len(stream) /\ F(i) = h
  BY <1>3, <1>4, SMT DEF BufferStart
<1>9. h \in HandledFrames
  BY <1>6, <1>8, SMT DEF HandledFrames
<1>10. /\ handled \in Seq(HandledFrames)
       /\ handled' = Append(handled, h)
  BY <1>1, <1>8 DEF StreamInv, StreamTypeOK, HandledFrames
<1> HIDE DEF h
<1>11. /\ handled' \in Seq(HandledFrames) /\ Len(handled') = Len(handled) + 1
       /\ Len(handled) \in Nat
       /\ handled'[Len(handled) + 1] = h
       /\ \A n \in 1 .. Len(handled) : handled'[n] = handled[n]
  BY <1>9, <1>10, SMT
<1>12. h.end = e /\ h.frame = m
  BY DEF h
<1>13. LastEnd' = e /\ BufferStart' = e
  <2>1. handled' # <<>>
    BY <1>11, EmptySeq, SMT
  <2>2. LastEnd' = handled'[Len(handled')].end
    BY <2>1, Zenon DEF LastEnd
  <2>3. LastEnd' = e
    BY <2>2, <1>11, <1>12
  <2>4. BufferStart' = e
    BY <1>2, <1>3, <1>4, <1>7, SMT DEF BufferStart
  <2> QED
    BY <2>3, <2>4
<1>14. StreamTypeOK'
  <2>1. HandledFrames' = HandledFrames
    BY <1>2 DEF HandledFrames
  <2> QED
    BY <1>2, <1>7, <1>11, <2>1, Zenon DEF StreamInv, StreamTypeOK, HandledFrames
<1>15. \A j \in 1 .. Len(buffer) : buffer[j] = stream[BufferStart + j]
  BY DEF StreamInv, BufferInv
<1>16. BufferInv'
  <2>1. Len(buffer') <= pos'
    BY <1>2, <1>3, <1>4, <1>7, SMT
  <2>2. ASSUME NEW j \in 1 .. Len(buffer') PROVE buffer'[j] = stream[e + j]
    <3>1. i + j \in 1 .. Len(buffer) /\ j \in 1 .. Len(buffer) - i
      BY <1>3, <1>4, <1>7, <2>2, SMT
    <3>2. buffer'[j] = stream[BufferStart + (i + j)]
      BY <1>7, <1>15, <3>1
    <3>3. BufferStart + (i + j) = e + j
      BY <1>3, <1>4, <3>1, SMT
    <3> QED
      BY <3>2, <3>3
  <2> QED
    BY <1>2, <1>13, <2>1, <2>2 DEF BufferInv
<1>17. DroppedInv'
  BY <1>3, <1>4, <1>13, SMT DEF DroppedInv
<1>18. RoomInv'
  <2>1. Len(buffer) <= MaxBuffer + ChunkSize
    BY <1>2 DEF StreamInv, RoomInv
  <2>2. Len(buffer') <= MaxBuffer + ChunkSize
    BY <1>3, <1>4, <1>7, <2>1, SMT
  <2> QED
    BY <1>2, <2>2, SMT DEF RoomInv
<1>19. IsFrame(h, LastEnd)
  <2>1. e - 1 - LastEnd \in Nat /\ Len(m) <= e - 1 - LastEnd
    BY <1>3, <1>4, <1>6, SMT
  <2>2. stream[e] = Terminator
    BY <1>4, <1>15
  <2>3. ASSUME NEW j \in LastEnd + 1 .. e - 1 PROVE stream[j] # Terminator
    <3>1. CASE j <= BufferStart
      BY <1>3, <1>4, <2>3, <3>1, SMT DEF StreamInv, DroppedInv
    <3>2. CASE j > BufferStart
      <4>1. /\ j - BufferStart \in 1 .. i - 1 /\ j - BufferStart \in 1 .. Len(buffer)
            /\ j = BufferStart + (j - BufferStart)
        BY <1>3, <1>4, <2>3, <3>2, SMT
      <4> QED
        BY <1>5, <1>15, <4>1
    <3> QED
      BY <1>3, <1>4, <2>3, <3>1, <3>2, SMT
  <2>4. ASSUME NEW j \in 1 .. Len(m) PROVE m[j] = stream[e - 1 - Len(m) + j]
    <3>1. j \in 1 .. i - 1 /\ j \in 1 .. Len(buffer) /\ e - 1 - Len(m) + j = BufferStart + j
      BY <1>3, <1>4, <1>6, <2>4, SMTT(30)
    <3> QED
      BY <1>6, <1>15, <3>1
  <2>5. e - 1 - LastEnd <= MaxBuffer => Len(m) = e - 1 - LastEnd
    <3>1. BufferStart = LastEnd \/ BufferStart - LastEnd > MaxBuffer
      BY DEF StreamInv, DroppedInv
    <3> QED
      BY <1>3, <1>4, <1>6, <3>1, SMT
  <2> QED
    BY <1>12, <2>1, <2>2, <2>3, <2>4, <2>5, Zenon DEF IsFrame
<1>20. FramesAreMessages'
  <2> SUFFICES ASSUME NEW n \in 1 .. Len(handled') PROVE IsFrame(handled'[n], Start(n)')
    BY <1>2, Zenon DEF FramesAreMessages, IsFrame
  <2>1. CASE n \in 1 .. Len(handled)
    <3>1. IsFrame(handled[n], Start(n))
      BY <2>1, FramesByName DEF StreamInv
    <3>2. handled'[n] = handled[n]
      BY <1>11, <2>1
    <3>3. Start(n)' = Start(n)
      <4>1. CASE n = 1
        BY <4>1 DEF Start
      <4>2. CASE n # 1
        <5>1. n - 1 \in 1 .. Len(handled)
          BY <1>11, <2>1, <4>2, SMT
        <5>2. handled'[n - 1] = handled[n - 1]
          BY <1>11, <5>1
        <5> QED
          BY <4>2, <5>2, Zenon DEF Start
      <4> QED
        BY <4>1, <4>2
    <3> QED
      BY <3>1, <3>2, <3>3
  <2>2. CASE n \notin 1 .. Len(handled)
    <3>1. n = Len(handled) + 1 /\ n - 1 = Len(handled)
      BY <1>11, <2>2, SMT
    <3>2. Start(n)' = LastEnd
      <4>1. CASE handled = <<>>
        <5>1. n = 1
          BY <3>1, <4>1, EmptySeq, SMT
        <5> QED
          BY <4>1, <5>1, Zenon DEF Start, LastEnd
      <4>2. CASE handled # <<>>
        <5>1. n # 1 /\ Len(handled) \in 1 .. Len(handled)
          BY <1>10, <1>11, <3>1, <4>2, SMT
        <5>2. handled'[n - 1] = handled[Len(handled)]
          BY <1>11, <3>1, <5>1
        <5> QED
          BY <4>2, <5>1, <5>2, Zenon DEF Start, LastEnd
      <4> QED
        BY <4>1, <4>2
    <3> QED
      BY <1>11, <1>19, <3>1, <3>2
  <2> QED
    BY <2>1, <2>2
<1> QED
  BY <1>14, <1>16, <1>17, <1>18, <1>20 DEF StreamInv

LEMMA StreamStep == StreamInv /\ [Next]_vars => StreamInv'
<1> SUFFICES ASSUME StreamInv, [Next]_vars PROVE StreamInv'
  OBVIOUS
<1>1. CASE Handler
  BY <1>1, ReadKeeps, SplitEndsKeeps, HandleKeeps, Zenon DEF Handler, Handle
<1>2. CASE Hub
  BY <1>2, StreamStays, Zenon DEF Hub
<1>3. CASE UNCHANGED vars
  BY <1>3, StreamStays DEF vars
<1> QED
  BY <1>1, <1>2, <1>3 DEF Next

-----------------------------------------------------------------------------

PathInv == StreamInv /\ HubInv

LEMMA PathInvariant == Spec => []PathInv
<1>1. Init => PathInv
  BY StreamInitial, HubInitial DEF Init, PathInv
<1>2. PathInv /\ [Next]_vars => PathInv'
  BY StreamStep, HubStep DEF PathInv
<1> QED
  BY <1>1, <1>2, PTL DEF Spec

LEMMA BufferInBounds == ASSUME StreamInv PROVE BufferBounded
<1>1. buffer \in Seq(STRING) /\ hpc \in {"read", "split"} /\ RoomInv
  BY DEF StreamInv, StreamTypeOK
<1> QED
  BY <1>1, StreamAssumption, SMT DEF RoomInv, BufferBounded

\* Type correctness of the path: whatever panels send and clients do, the handler
\* holds no more than the limit and a chunk, the channels of the broadcaster are
\* never over their capacity, and no client is sent more than its sockets hold.
THEOREM PathTypeCorrect == Spec => []TypeOK
<1>1. PathInv => TypeOK
  <2> SUFFICES ASSUME PathInv PROVE TypeOK
    OBVIOUS
  <2>1. BufferBounded
    BY BufferInBounds DEF PathInv
  <2> QED
    BY <2>1, Zenon DEF PathInv, StreamInv, HubInv, HubTypeInv, TypeOK
<1> QED
  BY <1>1, PathInvariant, PTL

\* For every stream and however its bytes are cut up on the way, each frame
\* handled is one message the panel sent, in order, and whole unless it is over
\* the limit.
THEOREM FramesWhole == Spec => []FramesAreMessages
<1>1. PathInv => FramesAreMessages
  BY DEF PathInv, StreamInv
<1> QED
  BY <1>1, PathInvariant, PTL

-----------------------------------------------------------------------------
(* Numbers as text.                                                        *)

\* The digits are ten different characters, none of them a sign.
LEMMA DigitFacts ==
  /\ \A i, j \in 1 .. 10 : Digits[i] = Digits[j] => i = j
  /\ \A i \in 1 .. 10 : Digits[i] \notin Signs /\ Digits[i] # Terminator
<1>1. /\ Digits[1] = "0" /\ Digits[2] = "1" /\ Digits[3] = "2" /\ Digits[4] = "3"
      /\ Digits[5] = "4" /\ Digits[6] = "5" /\ Digits[7] = "6" /\ Digits[8] = "7"
      /\ Digits[9] = "8" /\ Digits[10] = "9"
  BY DEF Digits
<1>2. \A i \in 1 .. 10 : i \in {1, 2, 3, 4, 5, 6, 7, 8, 9, 10}
  OBVIOUS
<1>3. ASSUME NEW i \in 1 .. 10, NEW j \in 1 .. 10, Digits[i] = Digits[j] PROVE i = j
  <2>1. i \in {1, 2, 3, 4, 5, 6, 7, 8, 9, 10} /\ j \in {1, 2, 3, 4, 5, 6, 7, 8, 9, 10}
    BY <1>2
  <2> QED
    BY <1>1, <1>3, <2>1
<1>4. ASSUME NEW i \in 1 .. 10
      PROVE  Digits[i] \notin Signs /\ Digits[i] # Terminator
  <2>1. i \in {1, 2, 3, 4, 5, 6, 7, 8, 9, 10}
    BY <1>2
  <2>2. Digits[i] \in {"0", "1", "2", "3", "4", "5", "6", "7", "8", "9"}
    BY <1>1, <2>1
  <2>3. \A c \in {"0", "1", "2", "3", "4", "5", "6", "7", "8", "9"} :
          c # "+" /\ c # "-" /\ c # "x14"
    OBVIOUS
  <2> QED
    BY <2>2, <2>3, Zenon DEF Signs, Terminator
<1> QED
  BY <1>3, <1>4

LEMMA DigitRead ==
  ASSUME NEW k \in 0 .. 9
  PROVE  IsDigit(Digits[k + 1]) /\ DigitValue(Digits[k + 1]) = k
<1>1. k + 1 \in 1 .. 10
  OBVIOUS
<1> DEFINE j == CHOOSE i \in 1 .. 10 : Digits[k + 1] = Digits[i]
<1>2. j \in 1 .. 10 /\ Digits[k + 1] = Digits[j]
  BY <1>1
<1>3. j = k + 1
  BY <1>1, <1>2, DigitFacts
<1>4. DigitValue(Digits[k + 1]) = j - 1
  BY DEF DigitValue
<1> HIDE DEF j
<1> QED
  BY <1>1, <1>3, <1>4 DEF IsDigit

\* What Atoi has read after each of the first n digits of d.
Reads(v, d, n) ==
  v = [i \in 0 .. n |-> IF i = 0 THEN 0 ELSE 10 * v[i - 1] + DigitValue(d[i])]

LEMMA ReadsExists ==
  ASSUME NEW d, NEW n \in Nat
  PROVE  \E v : Reads(v, d, n)
<1> DEFINE Good == {k \in Nat : \E v : Reads(v, d, k)}
<1>1. 0 \in Good
  <2>1. Reads([i \in 0 .. 0 |-> 0], d, 0)
    BY DEF Reads
  <2> QED
    BY <2>1
<1>2. ASSUME NEW k \in Nat, k \in Good PROVE k + 1 \in Good
  <2>1. PICK v : Reads(v, d, k)
    BY <1>2
  <2> DEFINE w == [i \in 0 .. k + 1 |->
                     IF i <= k THEN v[i] ELSE 10 * v[k] + DigitValue(d[i])]
  <2>2. ASSUME NEW i \in 0 .. k + 1
        PROVE  w[i] = IF i = 0 THEN 0 ELSE 10 * w[i - 1] + DigitValue(d[i])
    <3>1. CASE i <= k
      <4>1. i \in 0 .. k /\ w[i] = v[i]
        BY <3>1
      <4>2. i # 0 => i - 1 \in 0 .. k + 1 /\ i - 1 <= k
        BY <3>1
      <4>3. i # 0 => w[i - 1] = v[i - 1]
        BY <4>2
      <4> HIDE DEF w
      <4>4. v[i] = IF i = 0 THEN 0 ELSE 10 * v[i - 1] + DigitValue(d[i])
        BY <2>1, <4>1, Zenon DEF Reads
      <4> QED
        BY <4>1, <4>3, <4>4, Zenon
    <3>2. CASE i = k + 1
      <4>1. k \in 0 .. k + 1 /\ k <= k /\ i # 0 /\ i - 1 = k /\ ~(i <= k)
        BY <3>2
      <4>2. w[k] = v[k] /\ w[i] = 10 * v[k] + DigitValue(d[i])
        BY <4>1, Zenon
      <4> HIDE DEF w
      <4> QED
        BY <4>1, <4>2, Zenon
    <3> QED
      BY <3>1, <3>2
  <2>3. Reads(w, d, k + 1)
    <3> HIDE DEF w
    <3>1. w = [i \in 0 .. k + 1 |-> w[i]]
      BY DEF w
    <3> QED
      BY <3>1, <2>2, Zenon DEF Reads
  <2> QED
    BY <2>3
<1> HIDE DEF Good
<1>3. n \in Good
  BY <1>1, <1>2, Induction
<1> QED
  BY <1>3 DEF Good

\* Atoi of digits without a sign, and of a minus and digits.
LEMMA AtoiReads ==
  ASSUME NEW s, Len(Unsigned(s)) \in Nat
  PROVE  \E v : /\ Reads(v, Unsigned(s), Len(Unsigned(s)))
                /\ Atoi(s) = IF s[1] = "-" THEN -v[Len(Unsigned(s))] ELSE v[Len(Unsigned(s))]
<1> DEFINE v == CHOOSE v : Reads(v, Unsigned(s), Len(Unsigned(s)))
<1>1. Reads(v, Unsigned(s), Len(Unsigned(s)))
  BY ReadsExists
<1>2. Atoi(s) = IF s[1] = "-" THEN -v[Len(Unsigned(s))] ELSE v[Len(Unsigned(s))]
  BY DEF Atoi, Reads
<1> QED
  BY <1>1, <1>2

\* The digit of n at the place p.
ValueAt(n, p) == (n \div p) % 10
DigitAt(n, p) == Digits[ValueAt(n, p) + 1]
Chars == {Digits[k + 1] : k \in 0 .. 9}

\* The places of a number of w digits.
LEMMA DecimalDigits ==
  ASSUME NEW n \in Nat, n < 10000, NEW w \in {3, 4}
  PROVE  /\ Decimal(n, w) \in Seq(Chars) /\ Len(Decimal(n, w)) = w
         /\ w = 4 => /\ Decimal(n, 4)[1] = DigitAt(n, 1000)
                     /\ Decimal(n, 4)[2] = DigitAt(n, 100)
                     /\ Decimal(n, 4)[3] = DigitAt(n, 10)
                     /\ Decimal(n, 4)[4] = DigitAt(n, 1)
         /\ w = 3 => /\ Decimal(n, 3)[1] = DigitAt(n, 100)
                     /\ Decimal(n, 3)[2] = DigitAt(n, 10)
                     /\ Decimal(n, 3)[3] = DigitAt(n, 1)
<1>1. Places[1] = 1 /\ Places[2] = 10 /\ Places[3] = 100 /\ Places[4] = 1000
  BY DEF Places
<1>2. ASSUME NEW i \in 1 .. w
      PROVE  Decimal(n, w)[i] \in Chars
  <2>1. Places[(w - i) + 1] \in {1, 10, 100, 1000}
    <3>1. (w - i) + 1 \in {1, 2, 3, 4}
      OBVIOUS
    <3> QED
      BY <1>1, <3>1
  <2>3. \A p \in {1, 10, 100, 1000} : DigitAt(n, p) \in Chars
    <3> TAKE p \in {1, 10, 100, 1000}
    <3>1. ValueAt(n, p) \in 0 .. 9
      BY DEF ValueAt
    <3> QED
      BY <3>1 DEF DigitAt, Chars
  <2>4. Decimal(n, w)[i] = DigitAt(n, Places[(w - i) + 1])
    BY DEF Decimal, DigitAt, ValueAt
  <2> QED
    BY <2>1, <2>3, <2>4
<1>4. Decimal(n, w) = [i \in 1 .. w |-> Decimal(n, w)[i]] /\ w \in Nat
  BY DEF Decimal
<1> DEFINE D == Decimal(n, w)
<1>6. D \in Seq(Chars) /\ Len(D) = w
  <2>1. D = [i \in 1 .. w |-> D[i]] /\ \A i \in 1 .. w : D[i] \in Chars
    BY <1>4, <1>2
  <2> HIDE DEF D
  <2> QED
    BY <1>4, <2>1
<1>7. ASSUME w = 4
      PROVE  /\ Decimal(n, 4)[1] = DigitAt(n, 1000)
             /\ Decimal(n, 4)[2] = DigitAt(n, 100)
             /\ Decimal(n, 4)[3] = DigitAt(n, 10)
             /\ Decimal(n, 4)[4] = DigitAt(n, 1)
  <2>1. \A i \in 1 .. 4 : Decimal(n, 4)[i] = DigitAt(n, Places[(4 - i) + 1])
    BY DEF Decimal, DigitAt, ValueAt
  <2> QED
    BY <1>1, <2>1
<1>8. ASSUME w = 3
      PROVE  /\ Decimal(n, 3)[1] = DigitAt(n, 100)
             /\ Decimal(n, 3)[2] = DigitAt(n, 10)
             /\ Decimal(n, 3)[3] = DigitAt(n, 1)
  <2>1. \A i \in 1 .. 3 : Decimal(n, 3)[i] = DigitAt(n, Places[(3 - i) + 1])
    BY DEF Decimal, DigitAt, ValueAt
  <2> QED
    BY <1>1, <2>1
<1> QED
  BY <1>2, <1>6, <1>7, <1>8

\* The digits of a number add up to it.
LEMMA PlaceValues ==
  ASSUME NEW n \in Nat, n < 10000
  PROVE  /\ ValueAt(n, 1000) \in 0 .. 9 /\ ValueAt(n, 100) \in 0 .. 9
         /\ ValueAt(n, 10) \in 0 .. 9 /\ ValueAt(n, 1) \in 0 .. 9
         /\ n = 10 * (10 * (10 * ValueAt(n, 1000) + ValueAt(n, 100)) + ValueAt(n, 10))
                  + ValueAt(n, 1)
         /\ n <= 999 => ValueAt(n, 1000) = 0
<1>1. n \div 1 = n /\ (n \div 10) \div 10 = n \div 100
  OBVIOUS
<1>2. /\ n = 10 * (n \div 10) + (n % 10) /\ (n % 10) \in 0 .. 9
      /\ (n \div 10) < 1000 /\ (n \div 10) \in Nat
  OBVIOUS
<1> DEFINE p == n \div 10
           q == n \div 100
           r == n \div 1000
<1>3. p = 10 * q + (p % 10) /\ (p % 10) \in 0 .. 9 /\ q \in Int
  BY <1>1
<1>4. q = 10 * r + (q % 10) /\ (q % 10) \in 0 .. 9 /\ r \in Int
  <2>1. q \div 10 = r
    OBVIOUS
  <2> QED
    BY <2>1, <1>3
<1>5. r \in 0 .. 9 /\ (n <= 999 => r = 0)
  <2> HIDE DEF p, q, r
  <2> QED
    BY <1>2, <1>3, <1>4 DEF p
<1>6. r % 10 = r
  BY <1>5
<1> QED
  BY <1>1, <1>2, <1>3, <1>4, <1>5, <1>6 DEF ValueAt

\* What Atoi reads of four digits and of three.
LEMMA ReadsFour ==
  ASSUME NEW d, NEW v, Reads(v, d, 4),
         \A i \in 1 .. 4 : DigitValue(d[i]) \in Int
  PROVE  v[4] = 10 * (10 * (10 * DigitValue(d[1]) + DigitValue(d[2])) + DigitValue(d[3]))
                  + DigitValue(d[4])
<1>1. \A i \in 0 .. 4 : v[i] = IF i = 0 THEN 0 ELSE 10 * v[i - 1] + DigitValue(d[i])
  BY Zenon DEF Reads
<1>2. v[0] = 0
  BY <1>1
<1>3. v[1] = DigitValue(d[1])
  BY <1>1, <1>2
<1>4. v[2] = 10 * DigitValue(d[1]) + DigitValue(d[2])
  BY <1>1, <1>3
<1>5. v[3] = 10 * (10 * DigitValue(d[1]) + DigitValue(d[2])) + DigitValue(d[3])
  BY <1>1, <1>4
<1> QED
  BY <1>1, <1>5

LEMMA ReadsThree ==
  ASSUME NEW d, NEW v, Reads(v, d, 3),
         \A i \in 1 .. 3 : DigitValue(d[i]) \in Int
  PROVE  v[3] = 10 * (10 * DigitValue(d[1]) + DigitValue(d[2])) + DigitValue(d[3])
<1>1. \A i \in 0 .. 3 : v[i] = IF i = 0 THEN 0 ELSE 10 * v[i - 1] + DigitValue(d[i])
  BY Zenon DEF Reads
<1>2. v[0] = 0
  BY <1>1
<1>3. v[1] = DigitValue(d[1])
  BY <1>1, <1>2
<1>4. v[2] = 10 * DigitValue(d[1]) + DigitValue(d[2])
  BY <1>1, <1>3
<1> QED
  BY <1>1, <1>4

LEMMA Prepend ==
  ASSUME NEW S, NEW x \in S, NEW d \in Seq(S)
  PROVE  /\ <<x>> \o d \in Seq(S) /\ Len(<<x>> \o d) = 1 + Len(d)
         /\ (<<x>> \o d)[1] = x /\ <<x>> \o d # <<>> /\ Tail(<<x>> \o d) = d
<1> DEFINE a == <<x>>
<1>1. a \in Seq(S) /\ Len(a) = 1 /\ a[1] = x
  OBVIOUS
<1> HIDE DEF a
<1> DEFINE s == a \o d
<1>2. /\ s \in Seq(S) /\ Len(s) = 1 + Len(d) /\ Len(d) \in Nat
      /\ \A i \in 1 .. 1 : s[i] = a[i]
      /\ \A i \in 1 .. Len(d) : s[1 + i] = d[i]
  <2>1. /\ s \in Seq(S) /\ Len(s) = Len(a) + Len(d) /\ Len(d) \in Nat
        /\ \A i \in 1 .. Len(a) : s[i] = a[i]
        /\ \A i \in 1 .. Len(d) : s[Len(a) + i] = d[i]
    BY <1>1, ConcatType, SMTT(30)
  <2> QED
    BY <1>1, <2>1, Zenon
<1> HIDE DEF s
<1>3. s[1] = x /\ s # <<>>
  BY <1>1, <1>2
<1>4. /\ Tail(s) \in Seq(S) /\ Len(Tail(s)) = Len(d)
      /\ \A i \in 1 .. Len(d) : Tail(s)[i] = s[1 + i]
  BY <1>2, <1>3
<1>5. Tail(s) = d
  BY <1>2, <1>4
<1> QED
  BY <1>2, <1>3, <1>5 DEF s, a

\* Four digits are a number.
LEMMA FourRead ==
  ASSUME NEW S, NEW s \in Seq(S), Len(s) = 4, s[1] \notin Signs,
         \A i \in 1 .. 4 : IsDigit(s[i]) /\ DigitValue(s[i]) \in Int
  PROVE  /\ IsNumber(s)
         /\ Atoi(s) = 10 * (10 * (10 * DigitValue(s[1]) + DigitValue(s[2])) + DigitValue(s[3]))
                        + DigitValue(s[4])
<1>1. s[1] # "-" /\ s # <<>> /\ Unsigned(s) = s
  <2>1. s # <<>>
    <3>1. Len(s) # Len(<<>>)
      BY EmptySeq
    <3> QED
      BY <3>1
  <2> QED
    BY <2>1, Zenon DEF Signs, Unsigned
<1>2. PICK v : Reads(v, s, 4) /\ Atoi(s) = v[4]
  <2>1. Len(Unsigned(s)) = 4 /\ Len(Unsigned(s)) \in Nat
    BY <1>1
  <2>2. PICK v : /\ Reads(v, Unsigned(s), Len(Unsigned(s)))
                 /\ Atoi(s) = IF s[1] = "-" THEN -v[Len(Unsigned(s))]
                                            ELSE v[Len(Unsigned(s))]
    BY <2>1, AtoiReads, Zenon
  <2>3. Reads(v, s, 4)
    BY <1>1, <2>1, <2>2
  <2>4. Atoi(s) = v[4]
    BY <1>1, <2>1, <2>2
  <2> QED
    BY <2>3, <2>4
<1>3. IsNumber(s)
  BY <1>1, Zenon DEF IsNumber
<1> QED
  BY <1>2, <1>3, ReadsFour

\* c is the digit of k.
DigitOf(c, k) == k \in 0 .. 9 /\ c = Digits[k + 1]

LEMMA DigitOfRead ==
  ASSUME NEW c, NEW k, DigitOf(c, k)
  PROVE  IsDigit(c) /\ DigitValue(c) = k /\ k \in Int /\ c \notin Signs
<1>1. k \in 0 .. 9 /\ c = Digits[k + 1] /\ k + 1 \in 1 .. 10
  BY DEF DigitOf
<1>2. IsDigit(Digits[k + 1]) /\ DigitValue(Digits[k + 1]) = k
  BY <1>1, DigitRead
<1>3. Digits[k + 1] \notin Signs
  BY <1>1, DigitFacts
<1> QED
  BY <1>1, <1>2, <1>3

LEMMA FourValues ==
  ASSUME NEW S, NEW s \in Seq(S), Len(s) = 4, NEW k1, NEW k2, NEW k3, NEW k4,
         DigitOf(s[1], k1), DigitOf(s[2], k2), DigitOf(s[3], k3), DigitOf(s[4], k4)
  PROVE  IsNumber(s) /\ Atoi(s) = 10 * (10 * (10 * k1 + k2) + k3) + k4
<1>1. /\ IsDigit(s[1]) /\ DigitValue(s[1]) = k1 /\ k1 \in Int /\ s[1] \notin Signs
      /\ IsDigit(s[2]) /\ DigitValue(s[2]) = k2 /\ k2 \in Int
      /\ IsDigit(s[3]) /\ DigitValue(s[3]) = k3 /\ k3 \in Int
      /\ IsDigit(s[4]) /\ DigitValue(s[4]) = k4 /\ k4 \in Int
  BY DigitOfRead
<1>2. \A i \in 1 .. 4 : IsDigit(s[i]) /\ DigitValue(s[i]) \in Int
  <2>1. \A i \in 1 .. 4 : i = 1 \/ i = 2 \/ i = 3 \/ i = 4
    OBVIOUS
  <2> QED
    BY <1>1, <2>1
<1>3. /\ IsNumber(s)
      /\ Atoi(s) = 10 * (10 * (10 * DigitValue(s[1]) + DigitValue(s[2])) + DigitValue(s[3]))
                     + DigitValue(s[4])
  BY <1>1, <1>2, FourRead
<1> QED
  BY <1>1, <1>3

LEMMA FourDigits ==
  ASSUME NEW n \in Nat, n < 10000
  PROVE  /\ Decimal(n, 4) \in Seq(Chars) /\ Len(Decimal(n, 4)) = 4
         /\ IsNumber(Decimal(n, 4)) /\ Atoi(Decimal(n, 4)) = n
<1> DEFINE s == Decimal(n, 4)
           k1 == ValueAt(n, 1000)
           k2 == ValueAt(n, 100)
           k3 == ValueAt(n, 10)
           k4 == ValueAt(n, 1)
<1>1. /\ s \in Seq(Chars) /\ Len(s) = 4
      /\ s[1] = Digits[k1 + 1] /\ s[2] = Digits[k2 + 1]
      /\ s[3] = Digits[k3 + 1] /\ s[4] = Digits[k4 + 1]
  BY DecimalDigits DEF DigitAt
<1>2. /\ k1 \in 0 .. 9 /\ k2 \in 0 .. 9 /\ k3 \in 0 .. 9 /\ k4 \in 0 .. 9
      /\ n = 10 * (10 * (10 * k1 + k2) + k3) + k4
  BY PlaceValues
<1> HIDE DEF s, k1, k2, k3, k4
<1>3. /\ DigitOf(s[1], k1) /\ DigitOf(s[2], k2)
      /\ DigitOf(s[3], k3) /\ DigitOf(s[4], k4)
  BY <1>1, <1>2 DEF DigitOf
<1>4. IsNumber(s) /\ Atoi(s) = 10 * (10 * (10 * k1 + k2) + k3) + k4
  <2>1. s \in Seq(Chars) /\ Len(s) = 4
    BY <1>1
  <2>2. \A x1, x2, x3, x4 :
          DigitOf(s[1], x1) /\ DigitOf(s[2], x2) /\ DigitOf(s[3], x3) /\ DigitOf(s[4], x4)
            => IsNumber(s) /\ Atoi(s) = 10 * (10 * (10 * x1 + x2) + x3) + x4
    BY <2>1, FourValues, SMTT(30)
  <2> QED
    BY <1>3, <2>2
<1> QED
  BY <1>1, <1>2, <1>4 DEF s

LEMMA ThreeDigits ==
  ASSUME NEW n \in Nat, n < 1000
  PROVE  LET s == <<"-">> \o Decimal(n, 3)
         IN  /\ s \in Seq(Chars \cup {"-"}) /\ Len(s) = 4
             /\ IsNumber(s) /\ Atoi(s) = -n
<1> DEFINE d == Decimal(n, 3)
           s == <<"-">> \o d
           k1 == ValueAt(n, 100)
           k2 == ValueAt(n, 10)
           k3 == ValueAt(n, 1)
<1>0. n \in Nat /\ n < 10000
  OBVIOUS
<1>1. /\ d \in Seq(Chars) /\ Len(d) = 3
      /\ d[1] = Digits[k1 + 1] /\ d[2] = Digits[k2 + 1] /\ d[3] = Digits[k3 + 1]
  BY <1>0, DecimalDigits DEF DigitAt
<1>2. /\ k1 \in 0 .. 9 /\ k2 \in 0 .. 9 /\ k3 \in 0 .. 9
      /\ n = 10 * (10 * k1 + k2) + k3
  BY <1>0, PlaceValues
<1> HIDE DEF d, k1, k2, k3
<1>d. /\ IsDigit(Digits[k1 + 1]) /\ DigitValue(Digits[k1 + 1]) = k1
      /\ IsDigit(Digits[k2 + 1]) /\ DigitValue(Digits[k2 + 1]) = k2
      /\ IsDigit(Digits[k3 + 1]) /\ DigitValue(Digits[k3 + 1]) = k3
  <2>1. \A k \in 0 .. 9 : IsDigit(Digits[k + 1]) /\ DigitValue(Digits[k + 1]) = k
    BY DigitRead, Zenon
  <2> QED
    BY <1>2, <2>1
<1>3. /\ s \in Seq(Chars \cup {"-"}) /\ Len(s) = 4
      /\ s[1] = "-" /\ Tail(s) = d /\ s # <<>>
  <2>1. "-" \in Chars \cup {"-"} /\ d \in Seq(Chars \cup {"-"})
    BY <1>1
  <2>2. 1 + Len(d) = 4
    BY <1>1
  <2> QED
    BY <2>1, <2>2, Prepend
<1> HIDE DEF s
<1>4. Unsigned(s) = d
  BY <1>3 DEF Unsigned, Signs
<1>5. PICK v : Reads(v, d, 3) /\ Atoi(s) = -v[3]
  <2>1. Len(Unsigned(s)) = 3 /\ Len(Unsigned(s)) \in Nat
    BY <1>1, <1>4
  <2>2. PICK v : /\ Reads(v, Unsigned(s), Len(Unsigned(s)))
                 /\ Atoi(s) = IF s[1] = "-" THEN -v[Len(Unsigned(s))]
                                            ELSE v[Len(Unsigned(s))]
    BY <2>1, AtoiReads, Zenon
  <2>3. Reads(v, d, 3)
    BY <1>4, <2>1, <2>2
  <2>4. Atoi(s) = -v[3]
    BY <1>3, <2>1, <2>2
  <2> QED
    BY <2>3, <2>4
<1>6. v[3] = n
  <2>1. Reads(v, d, 3)
    BY <1>5
  <2>2. v[3] = 10 * (10 * k1 + k2) + k3
    <3>1. DigitValue(d[1]) = k1 /\ DigitValue(d[2]) = k2 /\ DigitValue(d[3]) = k3
      BY <1>1, <1>d
    <3>2. \A i \in 1 .. 3 : DigitValue(d[i]) \in Int
      BY <1>2, <3>1
    <3> QED
      BY <2>1, <3>1, <3>2, ReadsThree
  <2> QED
    BY <1>2, <2>2
<1>7. IsNumber(s)
  <2>1. \A i \in 1 .. 3 : IsDigit(d[i])
    <3>1. IsDigit(d[1]) /\ IsDigit(d[2]) /\ IsDigit(d[3])
      BY <1>1, <1>d
    <3>2. \A i \in 1 .. 3 : i = 1 \/ i = 2 \/ i = 3
      OBVIOUS
    <3> QED
      BY <3>1, <3>2
  <2>2. d # <<>>
    BY <1>1, SMTT(30)
  <2>3. \A i \in 1 .. Len(d) : IsDigit(d[i])
    BY <1>1, <2>1
  <2>4. Unsigned(s) # <<>> /\ \A i \in 1 .. Len(Unsigned(s)) : IsDigit(Unsigned(s)[i])
    BY <1>4, <2>2, <2>3
  <2> QED
    BY <2>4, Zenon DEF IsNumber
<1> QED
  BY <1>3, <1>5, <1>6, <1>7 DEF s, d

\* An account of four characters, with the sign of a negative one among them, is
\* written so that Atoi reads it back.
LEMMA FormatRead ==
  ASSUME NEW n \in Int, n > -1000, n < 10000
  PROVE  /\ FormatAccount(n) \in Seq(Chars \cup {"-"}) /\ Len(FormatAccount(n)) = 4
         /\ IsNumber(FormatAccount(n)) /\ Atoi(FormatAccount(n)) = n
<1>1. CASE n < 0
  <2>1. -n \in Nat /\ -n < 1000 /\ n > -1000 /\ -(-n) = n
    BY <1>1
  <2>2. FormatAccount(n) = <<"-">> \o Decimal(-n, 3)
    BY <1>1, <2>1 DEF FormatAccount
  <2>3. PICK m \in Nat : m = -n /\ m < 1000
    BY <2>1
  <2>4. FormatAccount(n) = <<"-">> \o Decimal(m, 3) /\ -m = n
    BY <2>2, <2>3
  <2> QED
    BY <2>3, <2>4, ThreeDigits, SMTT(30)
<1>2. CASE ~(n < 0)
  <2>1. n \in Nat /\ n < 10000
    BY <1>2
  <2>2. FormatAccount(n) = Decimal(n, 4)
    BY <1>2, <2>1 DEF FormatAccount
  <2>3. \A s \in Seq(Chars) : s \in Seq(Chars \cup {"-"})
    OBVIOUS
  <2> QED
    BY <2>1, <2>2, <2>3, FourDigits
<1> QED
  BY <1>1, <1>2

-----------------------------------------------------------------------------
(* Sequences put together.                                                 *)

\* s is n long, and e has s behind its first k.
Long(s, n) == Len(s) = n
Holds(e, k, s, n) == \A i \in 1 .. n : e[k + i] = s[i]

LEMMA Joined ==
  ASSUME NEW Y, NEW s \in Seq(Y), NEW t \in Seq(Y), NEW m \in Nat, NEW n \in Nat,
         Long(s, m), Long(t, n)
  PROVE  /\ s \o t \in Seq(Y) /\ Long(s \o t, m + n)
         /\ Holds(s \o t, 0, s, m) /\ Holds(s \o t, m, t, n)
<1>1. /\ s \o t \in Seq(Y) /\ Len(s \o t) = Len(s) + Len(t)
      /\ \A i \in 1 .. Len(s) : (s \o t)[i] = s[i]
      /\ \A i \in 1 .. Len(t) : (s \o t)[Len(s) + i] = t[i]
  BY ConcatType
<1>2. Len(s) = m /\ Len(t) = n
  BY DEF Long
<1>3. \A i \in 1 .. m : 0 + i = i
  OBVIOUS
<1> QED
  BY <1>1, <1>2, <1>3, Zenon DEF Long, Holds

LEMMA OneLong ==
  ASSUME NEW Y, NEW c \in Y
  PROVE  <<c>> \in Seq(Y) /\ Long(<<c>>, 1) /\ <<c>>[1] = c
BY DEF Long

LEMMA HoldsFirst == ASSUME NEW e, NEW k, NEW s, NEW n \in Nat, n >= 1, Holds(e, k, s, n)
                    PROVE  e[k + 1] = s[1]
BY DEF Holds

LEMMA HoldsSecond == ASSUME NEW e, NEW k, NEW s, NEW n \in Nat, n >= 2, Holds(e, k, s, n)
                     PROVE  e[k + 2] = s[2]
BY DEF Holds

LEMMA HoldsAll == ASSUME NEW e, NEW s, NEW n \in Nat, Holds(e, 0, s, n)
                  PROVE  \A i \in 1 .. n : e[i] = s[i]
<1>1. \A i \in 1 .. n : 0 + i = i
  OBVIOUS
<1> QED
  BY <1>1, Zenon DEF Holds

\* A frame put together of its head, account, code, group and zone, and end.
Parts(e, Y, p, q, c, t, z) ==
  /\ e \in Seq(Y) /\ Long(e, 10)
  /\ e[1] = p[1] /\ e[2] = p[2] /\ Holds(e, 2, q, 4)
  /\ e[7] = c /\ e[8] = t[1] /\ e[9] = t[2] /\ e[10] = z

LEMMA FiveParts ==
  ASSUME NEW Y, NEW p \in Seq(Y), Long(p, 2), NEW q \in Seq(Y), Long(q, 4), NEW c \in Y,
         NEW t \in Seq(Y), Long(t, 2), NEW z \in Y
  PROVE  Parts(p \o q \o <<c>> \o t \o <<z>>, Y, p, q, c, t, z)
<1> DEFINE x == <<c>>
           y == <<z>>
           a == p \o q
           b == a \o x
           d == b \o t
           e == d \o y
<1>0. x \in Seq(Y) /\ Long(x, 1) /\ x[1] = c /\ y \in Seq(Y) /\ Long(y, 1) /\ y[1] = z
  BY OneLong
<1> HIDE DEF x, y
<1>n. 0 \in Nat /\ 1 \in Nat /\ 2 \in Nat /\ 4 \in Nat /\ 6 \in Nat /\ 7 \in Nat /\ 9 \in Nat
  OBVIOUS
<1>1. a \in Seq(Y) /\ Long(a, 2 + 4) /\ Holds(a, 0, p, 2) /\ Holds(a, 2, q, 4)
  BY <1>n, Joined, Zenon
<1> HIDE DEF a
<1>2. b \in Seq(Y) /\ Long(b, 6 + 1) /\ Holds(b, 0, a, 6) /\ Holds(b, 6, x, 1)
  <2>1. Long(a, 6)
    BY <1>1
  <2> QED
    BY <1>0, <1>1, <1>n, <2>1, Joined, Zenon
<1> HIDE DEF b
<1>3. d \in Seq(Y) /\ Long(d, 7 + 2) /\ Holds(d, 0, b, 7) /\ Holds(d, 7, t, 2)
  <2>1. Long(b, 7)
    BY <1>2
  <2> QED
    BY <1>2, <1>n, <2>1, Joined, Zenon
<1> HIDE DEF d
<1>4. e \in Seq(Y) /\ Long(e, 9 + 1) /\ Holds(e, 0, d, 9) /\ Holds(e, 9, y, 1)
  <2>1. Long(d, 9)
    BY <1>3
  <2> QED
    BY <1>0, <1>3, <1>n, <2>1, Joined, Zenon
<1> HIDE DEF e
<1>5. /\ \A i \in 1 .. 9 : e[i] = d[i]
      /\ \A i \in 1 .. 7 : d[i] = b[i]
      /\ \A i \in 1 .. 6 : b[i] = a[i]
      /\ \A i \in 1 .. 2 : a[i] = p[i]
  <2>1. \A i \in 1 .. 9 : e[i] = d[i]
    BY <1>4, <1>n, HoldsAll, SMT
  <2>2. \A i \in 1 .. 7 : d[i] = b[i]
    BY <1>3, <1>n, HoldsAll, SMT
  <2>3. \A i \in 1 .. 6 : b[i] = a[i]
    BY <1>2, <1>n, HoldsAll, SMT
  <2>4. \A i \in 1 .. 2 : a[i] = p[i]
    BY <1>1, <1>n, HoldsAll, SMT
  <2> QED
    BY <2>1, <2>2, <2>3, <2>4
<1>6. e[1] = p[1] /\ e[2] = p[2]
  BY <1>5
<1>7. e[7] = c
  <2>1. b[6 + 1] = x[1]
    <3>1. 1 \in Nat /\ 1 >= 1
      OBVIOUS
    <3> QED
      BY <1>2, <3>1, HoldsFirst, Zenon
  <2> QED
    BY <1>0, <1>5, <2>1
<1>8. e[8] = t[1] /\ e[9] = t[2]
  <2>1. d[7 + 1] = t[1] /\ d[7 + 2] = t[2]
    BY <1>3, HoldsFirst, HoldsSecond
  <2> QED
    BY <1>5, <2>1
<1>9. e[10] = z
  <2>1. e[9 + 1] = y[1]
    BY <1>4, HoldsFirst
  <2> QED
    BY <1>0, <2>1
<1>10. Holds(e, 2, q, 4)
  <2>1. \A i \in 1 .. 6 : e[i] = a[i]
    BY <1>5
  <2>2. \A i \in 1 .. 4 : 2 + i \in 1 .. 6
    OBVIOUS
  <2> QED
    BY <1>1, <2>1, <2>2, Zenon DEF Holds
<1>11. Long(e, 10)
  BY <1>4
<1>12. Parts(e, Y, p, q, c, t, z)
  BY <1>4, <1>6, <1>7, <1>8, <1>9, <1>10, <1>11, Zenon DEF Parts
<1> QED
  BY <1>12, Zenon DEF e, d, b, a, x, y

-----------------------------------------------------------------------------
(* A rewritten frame and its readers.                                      *)

\* The characters of a rewritten account.
Marks == Chars \cup {"-"}

LEMMA MarksFacts == Terminator \notin Marks
<1>1. "-" # Terminator
  BY DEF Terminator
<1>2. ASSUME NEW c \in Chars PROVE c # Terminator
  <2>1. PICK k \in 0 .. 9 : c = Digits[k + 1]
    BY DEF Chars
  <2>2. k + 1 \in 1 .. 10
    OBVIOUS
  <2> QED
    BY <2>1, <2>2, DigitFacts
<1> QED
  BY <1>1, <1>2, Zenon DEF Marks

LEMMA PairCut ==
  ASSUME NEW X, NEW m \in Seq(X), NEW i \in Nat, i >= 1, NEW j, j = i + 1, j <= Len(m)
  PROVE  /\ SubSeq(m, i, j) \in Seq(X) /\ Long(SubSeq(m, i, j), 2)
         /\ SubSeq(m, i, j)[1] = m[i] /\ SubSeq(m, i, j)[2] = m[j]
BY DEF Long

LEMMA CutOut ==
  ASSUME NEW Y, NEW e \in Seq(Y), NEW k \in Nat, NEW n \in Nat, k + n <= Len(e)
  PROVE  /\ SubSeq(e, k + 1, k + n) \in Seq(Y) /\ Long(SubSeq(e, k + 1, k + n), n)
         /\ \A i \in 1 .. n : SubSeq(e, k + 1, k + n)[i] = e[k + i]
BY DEF Long

LEMMA SameCells ==
  ASSUME NEW Y, NEW s \in Seq(Y), NEW t \in Seq(Y), NEW n \in Nat, Long(s, n), Long(t, n),
         \A i \in 1 .. n : s[i] = t[i]
  PROVE  s = t
BY DEF Long

LEMMA LongCells ==
  ASSUME NEW Y, NEW s \in Seq(Y), NEW n \in Nat, Long(s, n)
  PROVE  \A i \in 1 .. n : s[i] \in Y
BY DEF Long

\* What stands behind the head of a frame.
LEMMA HeldAccount ==
  ASSUME NEW Y, NEW e \in Seq(Y), Long(e, 10), NEW q \in Seq(Y), Long(q, 4), Holds(e, 2, q, 4)
  PROVE  Account(e) = q
<1> DEFINE s == SubSeq(e, 3, 6)
<1>1. s \in Seq(Y) /\ Long(s, 4) /\ \A i \in 1 .. 4 : s[i] = e[2 + i]
  <2>1. 2 + 4 <= Len(e) /\ 2 + 1 = 3 /\ 2 + 4 = 6 /\ 2 \in Nat /\ 4 \in Nat
    BY DEF Long
  <2>2. /\ SubSeq(e, 2 + 1, 2 + 4) \in Seq(Y) /\ Long(SubSeq(e, 2 + 1, 2 + 4), 4)
        /\ \A i \in 1 .. 4 : SubSeq(e, 2 + 1, 2 + 4)[i] = e[2 + i]
    BY <2>1, CutOut, Zenon
  <2> QED
    BY <2>1, <2>2, Zenon
<1>2. Account(e) = s
  BY DEF Account
<1> HIDE DEF s
<1>3. \A i \in 1 .. 4 : s[i] = q[i]
  BY <1>1, Zenon DEF Holds
<1>4. 4 \in Nat
  OBVIOUS
<1>5. s = q
  BY <1>1, <1>3, <1>4, SameCells, Zenon
<1> QED
  BY <1>2, <1>5

\* Where n is written with four characters.
Narrow(n) == n \in Int /\ n > -1000 /\ n < 10000

LEMMA NarrowRead ==
  ASSUME NEW n, Narrow(n)
  PROVE  /\ FormatAccount(n) \in Seq(Marks) /\ Long(FormatAccount(n), 4)
         /\ IsNumber(FormatAccount(n)) /\ Atoi(FormatAccount(n)) = n
BY FormatRead DEF Narrow, Marks, Long

\* The device a frame is from.
DeviceOf(m, r) == Shifted(Atoi(Account(m)), r)

\* The parts of a rewritten frame.
LEMMA RewrittenParts ==
  ASSUME NEW X, NEW m \in Seq(X), Len(m) >= EventLength, NEW r, Narrow(DeviceOf(m, r))
  PROVE  LET e == ChangeAccountNumber(m, r)
         IN  /\ Long(e, 10)
             /\ Account(e) = FormatAccount(DeviceOf(m, r))
             /\ e[1] = m[1] /\ e[2] = m[2]
             /\ \A i \in 3 .. 6 : e[i] \in Marks
             /\ e[7] = ChangeTestCode(m[7], r) /\ e[8] = m[8] /\ e[9] = m[9]
             /\ e[10] = Terminator
<1> DEFINE q == FormatAccount(DeviceOf(m, r))
           c == ChangeTestCode(m[7], r)
           p == SubSeq(m, 1, 2)
           t == SubSeq(m, 8, 9)
           e == p \o q \o <<c>> \o t \o <<Terminator>>
           Y == X \cup Marks \cup {c, Terminator}
<1>1. ChangeAccountNumber(m, r) = e
  BY DEF ChangeAccountNumber, DeviceOf
<1>2. Len(m) >= 9
  BY DEF EventLength
<1>3. /\ p \in Seq(X) /\ Long(p, 2) /\ p[1] = m[1] /\ p[2] = m[2]
      /\ t \in Seq(X) /\ Long(t, 2) /\ t[1] = m[8] /\ t[2] = m[9]
  <2>1. p \in Seq(X) /\ Long(p, 2) /\ p[1] = m[1] /\ p[2] = m[2]
    BY <1>2 DEF Long
  <2>2. t \in Seq(X) /\ Long(t, 2) /\ t[1] = m[8] /\ t[2] = m[9]
    BY <1>2 DEF Long
  <2> QED
    BY <2>1, <2>2
<1>4. q \in Seq(Marks) /\ Long(q, 4)
  BY NarrowRead
<1> HIDE DEF p, q, c, t
<1>5. p \in Seq(Y) /\ q \in Seq(Y) /\ t \in Seq(Y) /\ c \in Y /\ Terminator \in Y
  BY <1>3, <1>4
<1> HIDE DEF Y
<1>6. /\ e \in Seq(Y) /\ Long(e, 10)
      /\ e[1] = p[1] /\ e[2] = p[2] /\ Holds(e, 2, q, 4)
      /\ e[7] = c /\ e[8] = t[1] /\ e[9] = t[2] /\ e[10] = Terminator
  <2>1. Parts(e, Y, p, q, c, t, Terminator)
    BY <1>3, <1>4, <1>5, FiveParts, Zenon
  <2> HIDE DEF e
  <2> QED
    BY <2>1, Zenon DEF Parts
<1> HIDE DEF e
<1>7. Account(e) = q
  BY <1>4, <1>5, <1>6, HeldAccount, Zenon
<1>8. \A i \in 3 .. 6 : e[i] \in Marks
  <2>1. \A k \in 1 .. 4 : e[2 + k] = q[k]
    BY <1>6, Zenon DEF Holds
  <2>2. \A k \in 1 .. 4 : q[k] \in Marks
    <3>1. 4 \in Nat
      OBVIOUS
    <3> QED
      BY <1>4, <3>1, LongCells, Zenon
  <2>3. ASSUME NEW i \in 3 .. 6 PROVE e[i] \in Marks
    <3>1. i - 2 \in 1 .. 4 /\ 2 + (i - 2) = i
      BY <2>3
    <3> QED
      BY <2>1, <2>2, <3>1, Zenon
  <2> QED
    BY <2>3
<1>9. e[1] = m[1] /\ e[2] = m[2] /\ e[8] = m[8] /\ e[9] = m[9]
  BY <1>3, <1>6, Zenon
<1> QED
  BY <1>1, <1>6, <1>7, <1>8, <1>9, Zenon DEF q, c

\* The code of a rewritten frame is no terminator.
LEMMA CodeKept ==
  ASSUME NEW r \in RuleSets, NEW code, code # Terminator
  PROVE  ChangeTestCode(code, r) # Terminator
BY CodesAssumption, Zenon DEF ChangeTestCode

\* The readers agree about a rewritten frame.
LEMMA RewrittenRead ==
  ASSUME NEW X, NEW m \in Seq(X), Len(m) >= EventLength, NEW r \in RuleSets,
         \A i \in 1 .. Len(m) : m[i] # Terminator, Narrow(DeviceOf(m, r))
  PROVE  LET e == ChangeAccountNumber(m, r)
         IN  /\ ExtractDeviceID(e) = DeviceOf(m, r)
             /\ Atoi(Cut(e).device) = ExtractDeviceID(e)
             /\ Cut(e).device = FormatAccount(DeviceOf(m, r))
             /\ Cut(e).code = ChangeTestCode(m[7], r)
             /\ Cut(e).group = m[8] /\ Cut(e).zone = m[9]
             /\ \A i \in 1 .. Len(e) : e[i] = Terminator <=> i = Len(e)
<1> DEFINE e == ChangeAccountNumber(m, r)
           q == FormatAccount(DeviceOf(m, r))
<1>1. /\ Len(e) = 10 /\ Account(e) = q
      /\ e[1] = m[1] /\ e[2] = m[2] /\ \A i \in 3 .. 6 : e[i] \in Marks
      /\ e[7] = ChangeTestCode(m[7], r) /\ e[8] = m[8] /\ e[9] = m[9]
      /\ e[10] = Terminator
  <2>1. /\ Long(e, 10) /\ Account(e) = q
        /\ e[1] = m[1] /\ e[2] = m[2] /\ \A i \in 3 .. 6 : e[i] \in Marks
        /\ e[7] = ChangeTestCode(m[7], r) /\ e[8] = m[8] /\ e[9] = m[9]
        /\ e[10] = Terminator
    BY RewrittenParts, SMT
  <2> QED
    BY <2>1, Zenon DEF Long
<1>2. IsNumber(q) /\ Atoi(q) = DeviceOf(m, r)
  BY NarrowRead
<1> HIDE DEF e, q
<1>3. ExtractDeviceID(e) = DeviceOf(m, r)
  BY <1>1, <1>2, Zenon DEF ExtractDeviceID
<1>4. /\ Cut(e).device = q /\ Cut(e).code = ChangeTestCode(m[7], r)
      /\ Cut(e).group = m[8] /\ Cut(e).zone = m[9]
  BY <1>1 DEF Cut
<1>5. \A i \in 1 .. Len(m) : m[i] # Terminator
  OBVIOUS
<1>6. 1 \in 1 .. Len(m) /\ 2 \in 1 .. Len(m) /\ 7 \in 1 .. Len(m) /\ 8 \in 1 .. Len(m)
      /\ 9 \in 1 .. Len(m)
  BY DEF EventLength
<1>7. ASSUME NEW i \in 1 .. Len(e), i # 10 PROVE e[i] # Terminator
  <2>1. e[1] # Terminator /\ e[2] # Terminator /\ e[8] # Terminator /\ e[9] # Terminator
    BY <1>1, <1>5, <1>6, Zenon
  <2>2. e[7] # Terminator
    BY <1>1, <1>5, <1>6, CodeKept, Zenon
  <2>3. \A k \in 3 .. 6 : e[k] # Terminator
    BY <1>1, MarksFacts, Zenon
  <2>4. i \in 3 .. 6 \/ i = 1 \/ i = 2 \/ i = 7 \/ i = 8 \/ i = 9
    BY <1>1, <1>7
  <2> QED
    BY <2>1, <2>2, <2>3, <2>4, Zenon
<1>8. \A i \in 1 .. Len(e) : e[i] = Terminator <=> i = Len(e)
  BY <1>1, <1>7, Zenon
<1> QED
  BY <1>2, <1>3, <1>4, <1>8, Zenon DEF e, q

\* Every frame had the fate the rules give it.
FatesInv == \A n \in 1 .. Len(handled) : handled[n].fate \in FatesOf(handled[n].frame)

LEMMA FatesStay == ASSUME FatesInv, UNCHANGED <<rules, handled>> PROVE FatesInv'
BY Zenon DEF FatesInv, FatesOf

LEMMA HandledGrows ==
  ASSUME StreamInv, NEW fate \in Fates, HandleFrame(fate)
  PROVE  \E h \in HandledFrames :
           /\ handled' = Append(handled, h) /\ h.fate = fate
           /\ h.fate \in FatesOf(h.frame)
           /\ handled \in Seq(HandledFrames) /\ Len(handled) \in Nat
           /\ Len(handled') = Len(handled) + 1
           /\ handled'[Len(handled) + 1] = h
           /\ \A n \in 1 .. Len(handled) : handled'[n] = handled[n]
           /\ rules' = rules
<1>1. PICK i \in Terminators :
        LET m == SubSeq(buffer, 1, i - 1)
        IN  /\ fate \in FatesOf(m)
            /\ handled' = Append(handled, [frame |-> m, fate |-> fate,
                                           end |-> pos - Len(buffer) + i])
  BY Zenon DEF HandleFrame
<1> DEFINE m == SubSeq(buffer, 1, i - 1)
           h == [frame |-> m, fate |-> fate, end |-> pos - Len(buffer) + i]
<1>2. stream' = stream /\ rules' = rules
  BY Zenon DEF HandleFrame
<1>3. /\ h.frame = m /\ h.fate = fate
  OBVIOUS
<1> HIDE DEF h
<1>4. handled' = Append(handled, h) /\ fate \in FatesOf(m)
  BY <1>1, Zenon DEF h
<1>5. handled \in Seq(HandledFrames) /\ handled' \in Seq(HandledFrames)
  <2>1. StreamInv'
    BY HandleKeeps
  <2>2. handled' \in Seq(HandledFrames)'
    BY <2>1, Zenon DEF StreamInv, StreamTypeOK, HandledFrames
  <2>3. Seq(HandledFrames)' = Seq(HandledFrames)
    BY <1>2, Zenon DEF HandledFrames
  <2> QED
    BY <2>2, <2>3, Zenon DEF StreamInv, StreamTypeOK, HandledFrames
<1>6. h \in HandledFrames
  <2>1. /\ Len(handled') = Len(handled) + 1 /\ handled'[Len(handled) + 1] = h
        /\ Len(handled) \in Nat
    BY <1>4, <1>5
  <2>2. Len(handled) + 1 \in 1 .. Len(handled')
    BY <2>1
  <2>3. handled'[Len(handled) + 1] \in HandledFrames
    BY <1>5, <2>2
  <2> QED
    BY <2>1, <2>3
<1>7. /\ Len(handled) \in Nat /\ Len(handled') = Len(handled) + 1
      /\ handled'[Len(handled) + 1] = h
      /\ \A n \in 1 .. Len(handled) : handled'[n] = handled[n]
  BY <1>4, <1>5, <1>6
<1> QED
  BY <1>2, <1>3, <1>4, <1>5, <1>6, <1>7, Zenon

LEMMA FatesHandled ==
  ASSUME StreamInv, FatesInv, NEW fate \in Fates, HandleFrame(fate) PROVE FatesInv'
<1>1. PICK h \in HandledFrames :
        /\ h.fate \in FatesOf(h.frame)
        /\ Len(handled) \in Nat
        /\ Len(handled') = Len(handled) + 1
        /\ handled'[Len(handled) + 1] = h
        /\ \A n \in 1 .. Len(handled) : handled'[n] = handled[n]
        /\ rules' = rules
  BY HandledGrows, Zenon
<1>2. \A m : FatesOf(m)' = FatesOf(m)
  BY <1>1, Zenon DEF FatesOf
<1> SUFFICES ASSUME NEW n \in 1 .. Len(handled')
             PROVE  handled'[n].fate \in FatesOf(handled'[n].frame)
  BY <1>2, Zenon DEF FatesInv, FatesOf
<1>3. n \in 1 .. Len(handled) \/ n = Len(handled) + 1
  BY <1>1
<1> QED
  BY <1>1, <1>3, Zenon DEF FatesInv

LEMMA FatesStep == StreamInv /\ FatesInv /\ [Next]_vars => FatesInv'
<1> SUFFICES ASSUME StreamInv, FatesInv, [Next]_vars PROVE FatesInv'
  OBVIOUS
<1>1. CASE UNCHANGED <<rules, handled>>
  BY <1>1, FatesStay
<1>2. ASSUME NEW fate \in Fates, Handle(fate) PROVE FatesInv'
  BY <1>2, FatesHandled DEF Handle
<1>3. CASE ReadBytes \/ SplitEnds
  BY <1>1, <1>3, Zenon DEF ReadBytes, SplitEnds
<1>4. CASE UNCHANGED streamVars
  BY <1>1, <1>4, Zenon DEF streamVars
<1> QED
  BY <1>2, <1>3, <1>4, Zenon DEF Next, Handler, Hub, vars

LEMMA FatesInvariant == Spec => []FatesInv
<1>1. Init => FatesInv
  <2> SUFFICES ASSUME Init PROVE FatesInv
    OBVIOUS
  <2>1. Len(handled) = 0
    BY EmptySeq, Zenon DEF Init, StreamInit
  <2> QED
    BY <2>1 DEF FatesInv
<1>2. PathInv /\ FatesInv /\ [Next]_vars => FatesInv'
  BY FatesStep DEF PathInv
<1> QED
  BY <1>1, <1>2, PathInvariant, PTL DEF Spec

\* No frame has a terminator in it, and one that was enqueued is long enough.
LEMMA FrameCells ==
  ASSUME StreamInv, NEW n \in 1 .. Len(handled)
  PROVE  /\ handled[n].frame \in Seq(STRING)
         /\ \A i \in 1 .. Len(handled[n].frame) : handled[n].frame[i] # Terminator
<1> DEFINE h == handled[n]
<1>1. h \in HandledFrames
  <2>1. handled \in Seq(HandledFrames)
    BY DEF StreamInv, StreamTypeOK, HandledFrames
  <2> QED
    BY <2>1
<1>2. h.frame \in Seq(STRING) /\ h.end \in Nat
  BY <1>1, StreamAssumption DEF HandledFrames
<1>3. IsFrame(h, Start(n))
  BY FramesByName, Zenon DEF StreamInv
<1>4. Start(n) \in Nat
  <2>1. CASE n = 1
    BY <2>1 DEF Start
  <2>2. CASE n # 1
    <3>1. handled \in Seq(HandledFrames)
      BY DEF StreamInv, StreamTypeOK, HandledFrames
    <3>2. n - 1 \in 1 .. Len(handled)
      BY <2>2, <3>1
    <3>3. handled[n - 1].end \in Nat
      <4>1. handled[n - 1] \in HandledFrames
        BY <3>1, <3>2
      <4> QED
        BY <4>1, StreamAssumption DEF HandledFrames
    <3> QED
      BY <2>2, <3>3, Zenon DEF Start
  <2> QED
    BY <2>1, <2>2
<1> HIDE DEF h
<1>5. ASSUME NEW i \in 1 .. Len(h.frame) PROVE h.frame[i] # Terminator
  <2> DEFINE j == h.end - 1 - Len(h.frame) + i
  <2>1. Len(h.frame) \in Nat /\ Len(h.frame) <= h.end - 1 - Start(n)
    BY <1>2, <1>3 DEF IsFrame
  <2>2. j \in Start(n) + 1 .. h.end - 1
    BY <1>2, <1>4, <2>1, SMTT(30)
  <2>3. h.frame[i] = stream[j]
    BY <1>3, Zenon DEF IsFrame
  <2> HIDE DEF j
  <2> QED
    BY <1>3, <2>2, <2>3, Zenon DEF IsFrame
<1> QED
  BY <1>2, <1>5 DEF h

LEMMA EnqueuedLong ==
  ASSUME FatesInv, NEW n \in 1 .. Len(handled), handled[n].fate = "enqueued"
  PROVE  Len(handled[n].frame) >= EventLength
<1> DEFINE m == handled[n].frame
<1>1. "enqueued" \in FatesOf(m)
  BY DEF FatesInv
<1> HIDE DEF m
<1>2. CanChange(m)
  BY <1>1 DEF FatesOf
<1> QED
  BY <1>2 DEF CanChange, m

\* What the readers see of the rewritten form of a frame that was enqueued.
LEMMA EnqueuedRead ==
  ASSUME StreamInv, FatesInv, NEW n \in 1 .. Len(handled), handled[n].fate = "enqueued",
         Fits(handled[n].frame)
  PROVE  LET m == handled[n].frame
             e == ChangeAccountNumber(m, rules)
         IN  /\ ExtractDeviceID(e) = DeviceOf(m, rules)
             /\ Atoi(Cut(e).device) = ExtractDeviceID(e)
             /\ Cut(e).device = FormatAccount(DeviceOf(m, rules))
             /\ Cut(e).code = ChangeTestCode(m[7], rules)
             /\ Cut(e).group = m[8] /\ Cut(e).zone = m[9]
             /\ \A i \in 1 .. Len(e) : e[i] = Terminator <=> i = Len(e)
<1> DEFINE m == handled[n].frame
<1>1. m \in Seq(STRING) /\ \A i \in 1 .. Len(m) : m[i] # Terminator
  BY FrameCells
<1>2. Len(m) >= EventLength
  BY EnqueuedLong
<1>3. Narrow(DeviceOf(m, rules))
  BY DEF Fits, Narrow, DeviceOf
<1>4. rules \in RuleSets
  BY DEF StreamInv, StreamTypeOK
<1> HIDE DEF m
<1>5. LET e == ChangeAccountNumber(m, rules)
      IN  /\ ExtractDeviceID(e) = DeviceOf(m, rules)
          /\ Atoi(Cut(e).device) = ExtractDeviceID(e)
          /\ Cut(e).device = FormatAccount(DeviceOf(m, rules))
          /\ Cut(e).code = ChangeTestCode(m[7], rules)
          /\ Cut(e).group = m[8] /\ Cut(e).zone = m[9]
          /\ \A i \in 1 .. Len(e) : e[i] = Terminator <=> i = Len(e)
  BY <1>1, <1>2, <1>3, <1>4, RewrittenRead, Zenon
<1> QED
  BY <1>5, Zenon DEF m

\* For every stream, set of rules and way the bytes arrive: a frame rewritten by
\* ChangeAccountNumber (cidparser.go) is filed by extractDeviceID (server.go) and
\* shown by main (main_headless.go) under the account, code, group and zone the
\* rules give it, and has one terminator, at its end.
THEOREM ReadersConcur == Spec => []ReadersAgree
<1>1. PathInv /\ FatesInv => ReadersAgree
  <2> SUFFICES ASSUME PathInv, FatesInv, NEW n \in 1 .. Len(handled),
                      handled[n].fate = "enqueued", Fits(handled[n].frame)
               PROVE  LET m == handled[n].frame
                          e == Rewritten(m)
                      IN  /\ ExtractDeviceID(e) = Shifted(Atoi(Account(m)), rules)
                          /\ Atoi(Cut(e).device) = ExtractDeviceID(e)
                          /\ Cut(e).code = ChangeTestCode(m[7], rules)
                          /\ <<Cut(e).group, Cut(e).zone>> = <<m[8], m[9]>>
                          /\ \A i \in 1 .. Len(e) : e[i] = Terminator <=> i = Len(e)
    BY Zenon DEF ReadersAgree
  <2>1. LET m == handled[n].frame
            e == ChangeAccountNumber(m, rules)
        IN  /\ ExtractDeviceID(e) = DeviceOf(m, rules)
            /\ Atoi(Cut(e).device) = ExtractDeviceID(e)
            /\ Cut(e).device = FormatAccount(DeviceOf(m, rules))
            /\ Cut(e).code = ChangeTestCode(m[7], rules)
            /\ Cut(e).group = m[8] /\ Cut(e).zone = m[9]
            /\ \A i \in 1 .. Len(e) : e[i] = Terminator <=> i = Len(e)
    BY EnqueuedRead DEF PathInv
  <2> QED
    BY <2>1, Zenon DEF Rewritten, DeviceOf
<1> QED
  BY <1>1, PathInvariant, FatesInvariant, PTL

-----------------------------------------------------------------------------
(* Broadcasts and the frames they come from.                               *)

\* The event the n-th frame of hd becomes, and what is broadcast for an event.
EventOf(hd, r, n) == ChangeAccountNumber(hd[n].frame, r)
UpdateOf(type, e) == IF type = "ppk_update" THEN PpkUpdate(e) ELSE EventUpdate(e)

EnqueuedOf(hd) == {n \in 1 .. Len(hd) : hd[n].fate = "enqueued"}
SentOf(type, lg) == {i \in 1 .. Len(lg) : lg[i].type = type}

\* g and f name the frames that the broadcasts of a type in lg and the events in
\* the channel ch come from: each a later one, those in ch behind those in lg.
Tracks(g, f, type, ch, lg, hd, r) ==
  /\ g \in [SentOf(type, lg) -> EnqueuedOf(hd)] /\ Increasing(g)
  /\ f \in [1 .. Len(ch) -> EnqueuedOf(hd)] /\ Increasing(f)
  /\ \A i \in SentOf(type, lg), k \in 1 .. Len(ch) : g[i] < f[k]
  /\ \A i \in SentOf(type, lg) : lg[i] = UpdateOf(type, EventOf(hd, r, g[i]))
  /\ \A k \in 1 .. Len(ch) : ch[k] = EventOf(hd, r, f[k])

Traced(type, ch, lg, hd, r) == \E g, f : Tracks(g, f, type, ch, lg, hd, r)

\* hd has grown by the frame h.
Grown(new, hd, h) ==
  /\ Len(hd) \in Nat /\ Len(new) = Len(hd) + 1
  /\ new[Len(hd) + 1] = h /\ \A n \in 1 .. Len(hd) : new[n] = hd[n]

LEMMA GrownFrames ==
  ASSUME NEW new, NEW hd, NEW h, Grown(new, hd, h), NEW r
  PROVE  /\ EnqueuedOf(hd) \subseteq EnqueuedOf(new)
         /\ \A n \in EnqueuedOf(hd) : EventOf(new, r, n) = EventOf(hd, r, n)
<1>1. \A n \in 1 .. Len(hd) : n \in 1 .. Len(new) /\ new[n] = hd[n]
  BY DEF Grown
<1> QED
  BY <1>1, Zenon DEF EnqueuedOf, EventOf

LEMMA TracedGrows ==
  ASSUME NEW new, NEW hd, NEW h, Grown(new, hd, h), NEW type, NEW ch, NEW lg, NEW r,
         Traced(type, ch, lg, hd, r)
  PROVE  Traced(type, ch, lg, new, r)
<1>1. PICK g, f : Tracks(g, f, type, ch, lg, hd, r)
  BY DEF Traced
<1>2. /\ EnqueuedOf(hd) \subseteq EnqueuedOf(new)
      /\ \A n \in EnqueuedOf(hd) : EventOf(new, r, n) = EventOf(hd, r, n)
  BY GrownFrames
<1>3. /\ g \in [SentOf(type, lg) -> EnqueuedOf(new)]
      /\ f \in [1 .. Len(ch) -> EnqueuedOf(new)]
      /\ \A i \in SentOf(type, lg) : g[i] \in EnqueuedOf(hd)
      /\ \A k \in 1 .. Len(ch) : f[k] \in EnqueuedOf(hd)
  BY <1>1, <1>2 DEF Tracks
<1>4. Tracks(g, f, type, ch, lg, new, r)
  BY <1>1, <1>2, <1>3, Zenon DEF Tracks
<1> QED
  BY <1>4, Zenon DEF Traced

\* Cells of what is appended, of what is left.
LEMMA AppendCells ==
  ASSUME NEW s, IsSeq(s), NEW x
  PROVE  /\ Len(s) \in Nat /\ Len(Append(s, x)) = Len(s) + 1
         /\ \A i \in 1 .. Len(s) : Append(s, x)[i] = s[i]
         /\ Append(s, x)[Len(s) + 1] = x
<1>1. PICK S : s \in Seq(S)
  BY DEF IsSeq
<1> DEFINE X == S \cup {x}
<1>2. s \in Seq(X) /\ x \in X
  BY <1>1
<1> HIDE DEF X
<1> QED
  BY <1>2

LEMMA TailCells ==
  ASSUME NEW s, IsSeq(s), s # <<>>
  PROVE  /\ Len(s) \in Nat /\ Len(s) >= 1 /\ Len(Tail(s)) = Len(s) - 1
         /\ Head(s) = s[1]
         /\ \A i \in 1 .. Len(s) - 1 : Tail(s)[i] = s[i + 1]
<1>1. PICK S : s \in Seq(S)
  BY DEF IsSeq
<1> QED
  BY <1>1

\* The event of a new frame is offered: it is behind all others.
LEMMA TracedOffer ==
  ASSUME NEW new, NEW hd, NEW h, Grown(new, hd, h), h.fate = "enqueued", NEW type,
         NEW ch, IsSeq(ch), NEW lg, NEW r, NEW e, e = EventOf(new, r, Len(hd) + 1),
         Traced(type, ch, lg, hd, r)
  PROVE  Traced(type, Append(ch, e), lg, new, r)
<1>1. PICK g, f : Tracks(g, f, type, ch, lg, hd, r)
  BY DEF Traced
<1>2. /\ EnqueuedOf(hd) \subseteq EnqueuedOf(new)
      /\ \A n \in EnqueuedOf(hd) : EventOf(new, r, n) = EventOf(hd, r, n)
  BY GrownFrames
<1> DEFINE last == Len(hd) + 1
           n1 == Len(ch) + 1
           ch1 == Append(ch, e)
           f1 == [k \in 1 .. n1 |-> IF k <= Len(ch) THEN f[k] ELSE last]
<1>3. last \in EnqueuedOf(new) /\ \A n \in EnqueuedOf(hd) : n \in Nat /\ n < last
  BY DEF Grown, EnqueuedOf
<1>4. /\ Len(ch) \in Nat /\ Len(ch1) = n1
      /\ \A k \in 1 .. Len(ch) : ch1[k] = ch[k]
      /\ ch1[n1] = e
  BY AppendCells
<1>5. /\ \A i \in SentOf(type, lg) : g[i] \in EnqueuedOf(hd)
      /\ \A k \in 1 .. Len(ch) : f[k] \in EnqueuedOf(hd)
      /\ g \in [SentOf(type, lg) -> EnqueuedOf(new)]
  BY <1>1, <1>2 DEF Tracks
<1>6. /\ \A k \in 1 .. Len(ch) : f1[k] = f[k]
      /\ f1[n1] = last /\ n1 \in Nat /\ DOMAIN f1 = 1 .. n1
      /\ \A k \in 1 .. n1 : k \in 1 .. Len(ch) \/ k = n1
  BY <1>4
<1>7. f1 = [k \in 1 .. n1 |-> f1[k]]
  OBVIOUS
<1> HIDE DEF last, ch1, f1
<1>8. \A k \in 1 .. n1 : f1[k] \in EnqueuedOf(new)
  BY <1>2, <1>3, <1>5, <1>6, Zenon
<1>9. f1 \in [1 .. Len(ch1) -> EnqueuedOf(new)]
  <2> HIDE DEF n1
  <2> QED
    BY <1>4, <1>7, <1>8
<1>10. Increasing(f1)
  <2> SUFFICES ASSUME NEW i \in 1 .. n1, NEW j \in 1 .. n1, i < j PROVE f1[i] < f1[j]
    BY <1>6, Zenon DEF Increasing
  <2>1. i \in 1 .. Len(ch)
    BY <1>4
  <2>2. CASE j \in 1 .. Len(ch)
    <3>1. f[i] < f[j]
      <4>1. i \in DOMAIN f /\ j \in DOMAIN f /\ Increasing(f)
        BY <1>1, <2>1, <2>2, Zenon DEF Tracks
      <4> QED
        BY <4>1, Zenon DEF Increasing
    <3> QED
      BY <1>6, <2>1, <2>2, <3>1
  <2>3. CASE j = n1
    BY <1>3, <1>5, <1>6, <2>1, <2>3
  <2> QED
    BY <1>6, <2>2, <2>3
<1>11. ASSUME NEW i \in SentOf(type, lg), NEW k \in 1 .. n1 PROVE g[i] < f1[k]
  <2>1. CASE k \in 1 .. Len(ch)
    BY <1>1, <1>6, <2>1, Zenon DEF Tracks
  <2>2. CASE k = n1
    BY <1>3, <1>5, <1>6, <2>2
  <2> QED
    BY <1>6, <2>1, <2>2
<1>12. \A i \in SentOf(type, lg) : lg[i] = UpdateOf(type, EventOf(new, r, g[i]))
  BY <1>1, <1>2, <1>5, Zenon DEF Tracks
<1>13. ASSUME NEW k \in 1 .. n1 PROVE ch1[k] = EventOf(new, r, f1[k])
  <2>1. CASE k \in 1 .. Len(ch)
    BY <1>1, <1>2, <1>4, <1>5, <1>6, <2>1, Zenon DEF Tracks
  <2>2. CASE k = n1
    BY <1>4, <1>6, <2>2, Zenon DEF last
  <2> QED
    BY <1>6, <2>1, <2>2
<1>14. Tracks(g, f1, type, ch1, lg, new, r)
  BY <1>1, <1>4, <1>5, <1>9, <1>10, <1>11, <1>12, <1>13, Zenon DEF Tracks
<1> QED
  BY <1>14, Zenon DEF Traced, ch1

\* f but for the first.
Later(f, ch) == [k \in 1 .. Len(ch) - 1 |-> f[k + 1]]

\* What is left of the channel when the first is taken and dropped.
LEMMA TracedDrop ==
  ASSUME NEW type, NEW ch, IsSeq(ch), ch # <<>>, NEW lg, NEW hd, NEW r,
         NEW g, NEW f, Tracks(g, f, type, ch, lg, hd, r)
  PROVE  /\ Tracks(g, Later(f, ch), type, Tail(ch), lg, hd, r)
         /\ f[1] \in EnqueuedOf(hd) /\ Head(ch) = EventOf(hd, r, f[1])
         /\ \A i \in SentOf(type, lg) : g[i] < f[1]
         /\ \A k \in 1 .. Len(Tail(ch)) : f[1] < Later(f, ch)[k]
<1> DEFINE n == Len(ch) - 1
           f1 == Later(f, ch)
           rest == Tail(ch)
<1>1. /\ Len(ch) \in Nat /\ n \in Nat /\ Len(rest) = n /\ Head(ch) = ch[1]
      /\ \A k \in 1 .. n : rest[k] = ch[k + 1] /\ k + 1 \in 1 .. Len(ch) /\ 1 < k + 1
      /\ 1 \in 1 .. Len(ch)
      /\ \A i, j \in 1 .. n : i < j => i + 1 < j + 1
  BY TailCells
<1>2. /\ DOMAIN f1 = 1 .. n /\ f1 = [k \in 1 .. n |-> f1[k]]
      /\ \A k \in 1 .. n : f1[k] = f[k + 1]
  BY DEF Later
<1> HIDE DEF n, f1, rest
<1>3. DOMAIN f = 1 .. Len(ch) /\ \A k \in 1 .. Len(ch) : f[k] \in EnqueuedOf(hd)
  BY DEF Tracks
<1>4. f1 \in [1 .. n -> EnqueuedOf(hd)]
  <2>1. \A k \in 1 .. n : f1[k] \in EnqueuedOf(hd)
    BY <1>1, <1>2, <1>3, Zenon
  <2> QED
    BY <1>2, <2>1
<1>o. \A i, j \in 1 .. Len(ch) : i < j => f[i] < f[j]
  BY <1>3, Zenon DEF Tracks, Increasing
<1>5. Increasing(f1)
  <2> SUFFICES ASSUME NEW i \in 1 .. n, NEW j \in 1 .. n, i < j PROVE f1[i] < f1[j]
    BY <1>2, Zenon DEF Increasing
  <2>1. /\ i + 1 \in 1 .. Len(ch) /\ j + 1 \in 1 .. Len(ch) /\ i + 1 < j + 1
        /\ f1[i] = f[i + 1] /\ f1[j] = f[j + 1]
    BY <1>1, <1>2, Zenon
  <2>2. f[i + 1] < f[j + 1]
    BY <1>o, <2>1, Zenon
  <2> QED
    BY <2>1, <2>2, Zenon
<1>6. ASSUME NEW k \in 1 .. n PROVE f[1] < f1[k]
  <2>1. k + 1 \in 1 .. Len(ch) /\ 1 < k + 1 /\ f1[k] = f[k + 1] /\ 1 \in 1 .. Len(ch)
    BY <1>1, <1>2, Zenon
  <2>2. f[1] < f[k + 1]
    BY <1>o, <2>1, Zenon
  <2> QED
    BY <2>1, <2>2, Zenon
<1>7. Tracks(g, f1, type, rest, lg, hd, r)
  BY <1>1, <1>2, <1>4, <1>5, ZenonT(40) DEF Tracks
<1>8. /\ Head(ch) = EventOf(hd, r, f[1])
      /\ \A i \in SentOf(type, lg) : g[i] < f[1]
  BY <1>1, Zenon DEF Tracks
<1> QED
  BY <1>1, <1>3, <1>6, <1>7, <1>8, Zenon DEF n, f1, rest

\* The first is taken and broadcast.
LEMMA TracedTake ==
  ASSUME NEW type, NEW ch, IsSeq(ch), ch # <<>>, NEW lg, IsSeq(lg), NEW hd, NEW r,
         Traced(type, ch, lg, hd, r), NEW u, u = UpdateOf(type, Head(ch)), u.type = type
  PROVE  Traced(type, Tail(ch), Append(lg, u), hd, r)
<1>1. PICK g, f : Tracks(g, f, type, ch, lg, hd, r)
  BY DEF Traced
<1> DEFINE f1 == Later(f, ch)
           lg1 == Append(lg, u)
           last == Len(lg) + 1
           D == SentOf(type, lg)
           D1 == SentOf(type, lg1)
           g1 == [i \in D1 |-> IF i \in D THEN g[i] ELSE f[1]]
<1>2. /\ Tracks(g, f1, type, Tail(ch), lg, hd, r)
      /\ f[1] \in EnqueuedOf(hd) /\ Head(ch) = EventOf(hd, r, f[1])
      /\ \A i \in D : g[i] < f[1]
      /\ \A k \in 1 .. Len(Tail(ch)) : f[1] < f1[k]
  BY <1>1, TracedDrop, Zenon
<1>3. /\ Len(lg) \in Nat /\ Len(lg1) = last
      /\ \A i \in 1 .. Len(lg) : lg1[i] = lg[i]
      /\ lg1[last] = u
  BY AppendCells
<1> HIDE DEF f1, lg1
<1>4. D1 = D \cup {last} /\ last \notin D /\ \A i \in D : i < last /\ i \in 1 .. Len(lg)
  BY <1>3 DEF SentOf
<1> HIDE DEF D, D1
<1>5. /\ DOMAIN g1 = D1 /\ g1 = [i \in D1 |-> g1[i]]
      /\ \A i \in D : g1[i] = g[i]
      /\ g1[last] = f[1]
  BY <1>4
<1> HIDE DEF g1
<1>6. /\ DOMAIN g = D /\ \A i \in D : g[i] \in EnqueuedOf(hd)
  BY <1>1 DEF Tracks, D
<1>7. g1 \in [D1 -> EnqueuedOf(hd)]
  <2>1. \A i \in D1 : g1[i] \in EnqueuedOf(hd)
    BY <1>2, <1>4, <1>5, <1>6, Zenon
  <2> QED
    BY <1>5, <2>1
<1>8. Increasing(g1)
  <2> SUFFICES ASSUME NEW i \in D1, NEW j \in D1, i < j PROVE g1[i] < g1[j]
    BY <1>5, Zenon DEF Increasing
  <2>1. i \in D
    <3>1. CASE i = last
      BY <1>3, <1>4, <3>1
    <3> QED
      BY <1>4, <3>1
  <2>2. CASE j \in D
    BY <1>1, <1>5, <1>6, <2>1, <2>2, Zenon DEF Tracks, Increasing
  <2>3. CASE j = last
    BY <1>2, <1>5, <2>1, <2>3, Zenon
  <2> QED
    BY <1>4, <2>2, <2>3
<1>9. \A i \in D1, k \in 1 .. Len(Tail(ch)) : g1[i] < f1[k]
  BY <1>2, <1>4, <1>5, Zenon DEF Tracks, D
<1>10. \A i \in D1 : lg1[i] = UpdateOf(type, EventOf(hd, r, g1[i]))
  BY <1>1, <1>2, <1>3, <1>4, <1>5, Zenon DEF Tracks, D
<1>11. Tracks(g1, f1, type, Tail(ch), lg1, hd, r)
  BY <1>2, <1>7, <1>8, <1>9, <1>10, Zenon DEF Tracks, D1
<1> QED
  BY <1>11, Zenon DEF Traced, lg1

\* Something of the other type is broadcast.
LEMMA TracedOther ==
  ASSUME NEW type, NEW ch, NEW lg, IsSeq(lg), NEW hd, NEW r,
         Traced(type, ch, lg, hd, r), NEW u, u.type # type
  PROVE  Traced(type, ch, Append(lg, u), hd, r)
<1> DEFINE lg1 == Append(lg, u)
<1>1. PICK g, f : Tracks(g, f, type, ch, lg, hd, r)
  BY DEF Traced
<1>2. /\ Len(lg) \in Nat /\ Len(lg1) = Len(lg) + 1
      /\ \A i \in 1 .. Len(lg) : lg1[i] = lg[i]
      /\ lg1[Len(lg) + 1] = u
  BY AppendCells
<1> HIDE DEF lg1
<1>3. SentOf(type, lg1) = SentOf(type, lg)
  BY <1>2 DEF SentOf
<1>4. \A i \in SentOf(type, lg) : lg1[i] = lg[i]
  BY <1>2 DEF SentOf
<1>5. Tracks(g, f, type, ch, lg1, hd, r)
  BY <1>1, <1>3, <1>4, Zenon DEF Tracks
<1> QED
  BY <1>5, Zenon DEF Traced, lg1

\* Every broadcast, and behind them every event in the channels, is of a frame of
\* its own, in order.
TraceInv ==
  /\ IsSeq(log)
  /\ Traced("ppk_update", deviceUpdates, log, handled, rules)
  /\ Traced("event_update", eventUpdates, log, handled, rules)

LEMMA TraceInitial == Init => TraceInv
<1> SUFFICES ASSUME Init PROVE TraceInv
  OBVIOUS
<1>1. log = <<>> /\ handled = <<>> /\ deviceUpdates = <<>> /\ eventUpdates = <<>>
  BY Zenon DEF Init, StreamInit, HubInit
<1>2. ASSUME NEW type PROVE Traced(type, <<>>, <<>>, <<>>, rules)
  <2> DEFINE none == [i \in {} |-> 0]
  <2>1. SentOf(type, <<>>) = {} /\ 1 .. Len(<<>>) = {}
    BY EmptySeq DEF SentOf
  <2>2. DOMAIN none = {} /\ none = [i \in {} |-> none[i]]
    OBVIOUS
  <2> HIDE DEF none
  <2>3. none \in [{} -> EnqueuedOf(<<>>)] /\ Increasing(none)
    BY <2>2 DEF Increasing
  <2>4. Tracks(none, none, type, <<>>, <<>>, <<>>, rules)
    BY <2>1, <2>3, Zenon DEF Tracks
  <2> QED
    BY <2>4, Zenon DEF Traced
<1> QED
  BY <1>1, <1>2, EmptySeq, Zenon DEF TraceInv

LEMMA TraceStays ==
  ASSUME TraceInv, UNCHANGED <<channels, log, handled, rules>> PROVE TraceInv'
<1>1. /\ deviceUpdates' = deviceUpdates /\ eventUpdates' = eventUpdates
      /\ log' = log /\ handled' = handled /\ rules' = rules
  BY Zenon DEF channels
<1> QED
  BY <1>1, Zenon DEF TraceInv

LEMMA TraceOffered ==
  ASSUME NEW new, NEW hd, NEW h, Grown(new, hd, h), h.fate = "enqueued", NEW type,
         NEW ch, IsSeq(ch), NEW lg, NEW r, NEW e, e = EventOf(new, r, Len(hd) + 1),
         Traced(type, ch, lg, hd, r)
  PROVE  Traced(type, Offered(ch, e), lg, new, r)
<1>1. Traced(type, ch, lg, new, r)
  BY TracedGrows, Zenon
<1>2. Traced(type, Append(ch, e), lg, new, r)
  BY TracedOffer, Zenon
<1> QED
  BY <1>1, <1>2, Zenon DEF Offered

LEMMA TraceHandled ==
  ASSUME StreamInv, HubTypeInv, TraceInv, NEW fate \in Fates, Handle(fate) PROVE TraceInv'
<1>1. PICK h \in HandledFrames :
        /\ h.fate = fate
        /\ Len(handled) \in Nat
        /\ Len(handled') = Len(handled) + 1
        /\ handled'[Len(handled) + 1] = h
        /\ \A n \in 1 .. Len(handled) : handled'[n] = handled[n]
        /\ rules' = rules
  BY HandledGrows, Zenon DEF Handle
<1>2. Grown(handled', handled, h)
  BY <1>1, Zenon DEF Grown
<1>3. /\ Traced("ppk_update", deviceUpdates, log, handled, rules)
      /\ Traced("event_update", eventUpdates, log, handled, rules)
      /\ IsSeq(log) /\ IsSeq(deviceUpdates) /\ IsSeq(eventUpdates)
  BY Zenon DEF TraceInv, HubTypeInv
<1>4. CASE fate = "enqueued"
  <2> DEFINE e == EventOf(handled', rules, Len(handled) + 1)
  <2>1. e = Rewritten(handled'[Len(handled')].frame)
    BY <1>1, Zenon DEF EventOf, Rewritten
  <2>2. Push(e)
    BY <1>4, <2>1, Zenon DEF Handle
  <2> HIDE DEF e
  <2>3. /\ deviceUpdates' = Offered(deviceUpdates, e)
        /\ eventUpdates' = Offered(eventUpdates, e) /\ log' = log
    BY <2>2, Zenon DEF Push, loopVars
  <2>4. e = EventOf(handled', rules, Len(handled) + 1)
    BY DEF e
  <2>5. Traced("ppk_update", Offered(deviceUpdates, e), log, handled', rules)
    BY <1>1, <1>2, <1>3, <1>4, <2>4, TraceOffered, Zenon
  <2>6. Traced("event_update", Offered(eventUpdates, e), log, handled', rules)
    BY <1>1, <1>2, <1>3, <1>4, <2>4, TraceOffered, Zenon
  <2> QED
    BY <1>1, <1>3, <2>3, <2>5, <2>6, Zenon DEF TraceInv
<1>5. CASE fate # "enqueued"
  <2>1. UNCHANGED hubVars
    BY <1>5, Zenon DEF Handle
  <2>2. deviceUpdates' = deviceUpdates /\ eventUpdates' = eventUpdates /\ log' = log
    BY <2>1, Zenon DEF hubVars, channels, loopVars
  <2>3. /\ Traced("ppk_update", deviceUpdates, log, handled', rules)
        /\ Traced("event_update", eventUpdates, log, handled', rules)
    BY <1>2, <1>3, TracedGrows, Zenon
  <2> QED
    BY <1>1, <1>3, <2>2, <2>3, Zenon DEF TraceInv
<1> QED
  BY <1>4, <1>5, Zenon

LEMMA UpdateTypes ==
  ASSUME NEW e
  PROVE  /\ PpkUpdate(e).type = "ppk_update" /\ EventUpdate(e).type = "event_update"
         /\ PpkUpdate(e) = UpdateOf("ppk_update", e)
         /\ EventUpdate(e) = UpdateOf("event_update", e)
BY DEF PpkUpdate, EventUpdate, UpdateOf

LEMMA TraceTaken ==
  ASSUME HubTypeInv, TraceInv, TakeDevice \/ TakeEvent, UNCHANGED streamVars PROVE TraceInv'
<1>1. /\ Traced("ppk_update", deviceUpdates, log, handled, rules)
      /\ Traced("event_update", eventUpdates, log, handled, rules)
      /\ IsSeq(log) /\ IsSeq(deviceUpdates) /\ IsSeq(eventUpdates)
  BY Zenon DEF TraceInv, HubTypeInv
<1>2. handled' = handled /\ rules' = rules
  BY Zenon DEF streamVars
<1>3. "ppk_update" # "event_update"
  OBVIOUS
<1>4. CASE TakeDevice
  <2> DEFINE u == PpkUpdate(Head(deviceUpdates))
  <2>1. /\ deviceUpdates # <<>> /\ deviceUpdates' = Tail(deviceUpdates)
        /\ log' = Append(log, u) /\ eventUpdates' = eventUpdates
    BY <1>4, Zenon DEF TakeDevice, Broadcast
  <2>2. u = UpdateOf("ppk_update", Head(deviceUpdates)) /\ u.type = "ppk_update"
    BY UpdateTypes, Zenon
  <2> HIDE DEF u
  <2>3. u.type # "event_update"
    BY <1>3, <2>2
  <2>4. Traced("ppk_update", Tail(deviceUpdates), Append(log, u), handled, rules)
    BY <1>1, <2>1, <2>2, TracedTake, Zenon
  <2>5. Traced("event_update", eventUpdates, Append(log, u), handled, rules)
    BY <1>1, <2>3, TracedOther, Zenon
  <2>6. IsSeq(Append(log, u))
    BY <1>1, AppendSeq, Zenon
  <2> QED
    BY <1>2, <2>1, <2>4, <2>5, <2>6, Zenon DEF TraceInv
<1>5. CASE TakeEvent
  <2> DEFINE u == EventUpdate(Head(eventUpdates))
  <2>1. /\ eventUpdates # <<>> /\ eventUpdates' = Tail(eventUpdates)
        /\ log' = Append(log, u) \/ log' = log
        /\ deviceUpdates' = deviceUpdates
    BY <1>5, Zenon DEF TakeEvent, Broadcast, loopVars
  <2>2. u = UpdateOf("event_update", Head(eventUpdates)) /\ u.type = "event_update"
    BY UpdateTypes, Zenon
  <2> HIDE DEF u
  <2>3. u.type # "ppk_update"
    BY <1>3, <2>2
  <2>4. CASE log' = Append(log, u)
    <3>1. Traced("event_update", Tail(eventUpdates), Append(log, u), handled, rules)
      BY <1>1, <2>1, <2>2, TracedTake, Zenon
    <3>2. Traced("ppk_update", deviceUpdates, Append(log, u), handled, rules)
      BY <1>1, <2>3, TracedOther, Zenon
    <3>3. IsSeq(Append(log, u))
      BY <1>1, AppendSeq, Zenon
    <3> QED
      BY <1>2, <2>1, <2>4, <3>1, <3>2, <3>3, Zenon DEF TraceInv
  <2>5. CASE log' = log
    <3>1. PICK g, f : Tracks(g, f, "event_update", eventUpdates, log, handled, rules)
      BY <1>1, Zenon DEF Traced
    <3>2. Traced("event_update", Tail(eventUpdates), log, handled, rules)
      BY <1>1, <2>1, <3>1, TracedDrop, Zenon DEF Traced
    <3> QED
      BY <1>1, <1>2, <2>1, <2>5, <3>2, Zenon DEF TraceInv
  <2> QED
    BY <2>1, <2>4, <2>5
<1> QED
  BY <1>4, <1>5

LEMMA TraceStep == PathInv /\ TraceInv /\ [Next]_vars => TraceInv'
<1> SUFFICES ASSUME PathInv, TraceInv, [Next]_vars PROVE TraceInv'
  OBVIOUS
<1>0. StreamInv /\ HubTypeInv
  BY Zenon DEF PathInv, HubInv
<1>1. ASSUME NEW fate \in Fates, Handle(fate) PROVE TraceInv'
  BY <1>0, <1>1, TraceHandled
<1>2. CASE (ReadBytes \/ SplitEnds) /\ UNCHANGED hubVars
  BY <1>2, TraceStays, Zenon DEF ReadBytes, SplitEnds, hubVars, loopVars
<1>3. CASE Broadcaster /\ UNCHANGED streamVars
  <2>1. CASE TakeDevice \/ TakeEvent
    BY <1>0, <1>3, <2>1, TraceTaken
  <2>2. CASE \/ \E c \in Clients : Visit(c)
             \/ LoopEnds \/ WriteUpdate \/ WriteIsLost \/ WriteFails \/ RemoveEnds
    <3>1. UNCHANGED <<channels, log>>
      BY <2>2, Zenon DEF Visit, LoopEnds, WriteUpdate, WriteIsLost, WriteFails, RemoveEnds
    <3> QED
      BY <1>3, <3>1, TraceStays, Zenon DEF streamVars
  <2> QED
    BY <1>3, <2>1, <2>2, Zenon DEF Broadcaster
<1>4. ASSUME NEW c \in Clients, Connection(c) \/ ClientStep(c), UNCHANGED streamVars
      PROVE  TraceInv'
  <2>1. UNCHANGED <<channels, log>>
    BY <1>4, Zenon DEF Connection, ClientStep, Connect, Added, ClientReads, ClientLeaves,
       ReaderEnds, Removed, loopVars
  <2> QED
    BY <1>4, <2>1, TraceStays, Zenon DEF streamVars
<1>5. CASE UNCHANGED vars
  BY <1>5, TraceStays, Zenon DEF vars, streamVars, hubVars, loopVars
<1> QED
  BY <1>1, <1>2, <1>3, <1>4, <1>5, Zenon DEF Next, Handler, Hub

LEMMA TraceInvariant == Spec => []TraceInv
<1>1. PathInv /\ TraceInv /\ [Next]_vars => TraceInv'
  BY TraceStep
<1> QED
  BY <1>1, TraceInitial, PathInvariant, PTL DEF Spec

\* The order in which frames were enqueued is that of what is broadcast of them.
LEMMA TracedShown ==
  ASSUME StreamInv, FatesInv, NEW type, NEW ch, Traced(type, ch, log, handled, rules),
         \A n \in Enqueued : Fits(handled[n].frame)
  PROVE  \E f \in [Sent(type) -> Enqueued] :
           /\ Increasing(f)
           /\ \A i \in DOMAIN f : LET e == EventOf(handled, rules, f[i])
                                  IN  /\ log[i] = UpdateOf(type, e)
                                      /\ ExtractDeviceID(e) = Device(f[i])
                                      /\ Cut(e) = Shown(f[i])
<1>1. PICK g, f : Tracks(g, f, type, ch, log, handled, rules)
  BY Zenon DEF Traced
<1>2. SentOf(type, log) = Sent(type) /\ EnqueuedOf(handled) = Enqueued
  BY Zenon DEF SentOf, Sent, EnqueuedOf, Enqueued
<1>3. g \in [Sent(type) -> Enqueued] /\ Increasing(g)
  BY <1>1, <1>2, Zenon DEF Tracks
<1>4. DOMAIN g = Sent(type) /\ \A i \in Sent(type) : g[i] \in Enqueued
  BY <1>3
<1>5. ASSUME NEW n \in Enqueued
      PROVE  LET e == EventOf(handled, rules, n)
             IN  ExtractDeviceID(e) = Device(n) /\ Cut(e) = Shown(n)
  <2> DEFINE m == handled[n].frame
             e == EventOf(handled, rules, n)
  <2>1. n \in 1 .. Len(handled) /\ handled[n].fate = "enqueued" /\ Fits(m)
    BY Zenon DEF Enqueued
  <2>2. LET d == ChangeAccountNumber(m, rules)
        IN  /\ ExtractDeviceID(d) = DeviceOf(m, rules)
            /\ Cut(d).device = FormatAccount(DeviceOf(m, rules))
            /\ Cut(d).code = ChangeTestCode(m[7], rules)
            /\ Cut(d).group = m[8] /\ Cut(d).zone = m[9]
    BY <2>1, EnqueuedRead, Zenon
  <2>3. e = ChangeAccountNumber(m, rules) /\ DeviceOf(m, rules) = Device(n)
    BY Zenon DEF EventOf, DeviceOf, Device
  <2>4. /\ ExtractDeviceID(e) = Device(n) /\ Cut(e).device = FormatAccount(Device(n))
        /\ Cut(e).code = ChangeTestCode(m[7], rules)
        /\ Cut(e).group = m[8] /\ Cut(e).zone = m[9]
    BY <2>2, <2>3, Zenon
  <2>5. Cut(e) = Shown(n)
    <3>1. Cut(e) = [device |-> Cut(e).device, code |-> Cut(e).code,
                    group |-> Cut(e).group, zone |-> Cut(e).zone]
      BY DEF Cut
    <3>2. Shown(n) = [device |-> FormatAccount(Device(n)), group |-> m[8], zone |-> m[9],
                      code |-> ChangeTestCode(m[7], rules)]
      BY Zenon DEF Shown
    <3> HIDE DEF e, m
    <3> QED
      BY <2>4, <3>1, <3>2
  <2> QED
    BY <2>4, <2>5
<1>6. \A i \in Sent(type) : log[i] = UpdateOf(type, EventOf(handled, rules, g[i]))
  BY <1>1, <1>2, Zenon DEF Tracks
<1>7. \A i \in DOMAIN g : LET e == EventOf(handled, rules, g[i])
                         IN  /\ log[i] = UpdateOf(type, e)
                             /\ ExtractDeviceID(e) = Device(g[i])
                             /\ Cut(e) = Shown(g[i])
  BY <1>4, <1>5, <1>6, Zenon
<1> QED
  BY <1>3, <1>7

\* For every stream, set of rules and set of clients: what the broadcaster of main
\* (main_headless.go) sends of a device or an event is of a frame the panel sent,
\* in the order of the frames and no frame twice, with the number and the parts
\* the rules give it (cidparser.go); however many were dropped by full channels.
THEOREM BroadcastsFaithful == Spec => []BroadcastsAreReports
<1>1. PathInv /\ FatesInv /\ TraceInv => BroadcastsAreReports
  <2> SUFFICES ASSUME PathInv, FatesInv, TraceInv,
                      \A n \in Enqueued : Fits(handled[n].frame)
               PROVE  /\ \E f \in [Sent("ppk_update") -> Enqueued] :
                           Increasing(f) /\ \A i \in DOMAIN f : log[i].number = Device(f[i])
                      /\ \E f \in [Sent("event_update") -> Enqueued] :
                           Increasing(f) /\ \A i \in DOMAIN f : log[i].data = Shown(f[i])
    BY Zenon DEF BroadcastsAreReports
  <2>0. /\ StreamInv
        /\ Traced("ppk_update", deviceUpdates, log, handled, rules)
        /\ Traced("event_update", eventUpdates, log, handled, rules)
    BY Zenon DEF PathInv, TraceInv
  <2>1. \E f \in [Sent("ppk_update") -> Enqueued] :
          Increasing(f) /\ \A i \in DOMAIN f : log[i].number = Device(f[i])
    <3>1. PICK f \in [Sent("ppk_update") -> Enqueued] :
            /\ Increasing(f)
            /\ \A i \in DOMAIN f : LET e == EventOf(handled, rules, f[i])
                                   IN  /\ log[i] = UpdateOf("ppk_update", e)
                                       /\ ExtractDeviceID(e) = Device(f[i])
      BY <2>0, TracedShown, Zenon
    <3>2. \A e : UpdateOf("ppk_update", e).number = ExtractDeviceID(e)
      BY DEF UpdateOf, PpkUpdate
    <3> QED
      BY <3>1, <3>2, Zenon
  <2>2. \E f \in [Sent("event_update") -> Enqueued] :
          Increasing(f) /\ \A i \in DOMAIN f : log[i].data = Shown(f[i])
    <3>1. PICK f \in [Sent("event_update") -> Enqueued] :
            /\ Increasing(f)
            /\ \A i \in DOMAIN f : LET e == EventOf(handled, rules, f[i])
                                   IN  /\ log[i] = UpdateOf("event_update", e)
                                       /\ Cut(e) = Shown(f[i])
      BY <2>0, TracedShown, Zenon
    <3>2. \A e : UpdateOf("event_update", e).data = Cut(e)
      BY DEF UpdateOf, EventUpdate
    <3> QED
      BY <3>1, <3>2, Zenon
  <2> QED
    BY <2>1, <2>2
<1> QED
  BY <1>1, PathInvariant, FatesInvariant, TraceInvariant, PTL
=============================================================================
