---------------------------- MODULE RelayProofs ----------------------------
(***************************************************************************)
(* Theorems about Relay, for all sets of panels and messages and for every *)
(* buffer size: type correctness, that an acknowledged event has been      *)
(* accepted by the station, that the station sees a frame at most once,    *)
(* and that the client's send on a reply channel neither waits nor panics. *)
(*                                                                         *)
(* The last two rest on where a message can be.  It is waiting in a        *)
(* connection until its handler takes it out of the buffer; it is in the   *)
(* queue, with the client, on the link, in the station's log, at most once *)
(* altogether; and nobody touches its reply channel before the client does.*)
(***************************************************************************)
EXTENDS Relay, SequenceTheorems, CollectProofs

-----------------------------------------------------------------------------
(* Sequences and their elements. *)

LEMMA RangeEmpty == RangeOf(<<>>) = {}
BY SMT DEF RangeOf

LEMMA RangeAppend ==
  ASSUME NEW S, NEW s \in Seq(S), NEW x \in S
  PROVE  RangeOf(Append(s, x)) = RangeOf(s) \cup {x}
<1>1. \A i \in 1 .. Len(s) : Append(s, x)[i] = s[i]
  BY SMT
<1>2. Append(s, x)[Len(s) + 1] = x /\ Len(Append(s, x)) = Len(s) + 1
  BY SMT
<1>3. DOMAIN Append(s, x) = 1 .. Len(s) + 1 /\ DOMAIN s = 1 .. Len(s)
  BY <1>2, SMT
<1> QED
  BY <1>1, <1>2, <1>3, SMT DEF RangeOf

LEMMA RangeTail ==
  ASSUME NEW S, NEW s \in Seq(S), s # <<>>
  PROVE  /\ RangeOf(Tail(s)) \subseteq RangeOf(s)
         /\ Head(s) \in RangeOf(s)
         /\ Head(s) \in S
         /\ Tail(s) \in Seq(S)
<1>1. Len(s) \in Nat /\ Len(s) >= 1 /\ DOMAIN s = 1 .. Len(s) /\ Head(s) = s[1]
  BY SMT
<1>2. Tail(s) \in Seq(S) /\ Len(Tail(s)) = Len(s) - 1
      /\ \A i \in 1 .. Len(s) - 1 : Tail(s)[i] = s[i + 1]
  BY <1>1, SMT
<1>3. DOMAIN Tail(s) = 1 .. Len(s) - 1
  BY <1>1, <1>2, SMT
<1>4. RangeOf(Tail(s)) \subseteq RangeOf(s)
  BY <1>1, <1>2, <1>3, SMT DEF RangeOf
<1> QED
  BY <1>1, <1>2, <1>4, SMT DEF RangeOf

LEMMA RangeType ==
  ASSUME NEW S, NEW s \in Seq(S)
  PROVE  RangeOf(s) \subseteq S
BY SMT DEF RangeOf

LEMMA EmptySeqType == ASSUME NEW S PROVE <<>> \in Seq(S)
BY SMT

LEMMA SubSeqType ==
  ASSUME NEW S, NEW s \in Seq(S), NEW k \in 1 .. Len(s)
  PROVE  /\ SubSeq(s, 1, k) \in Seq(S)
         /\ SubSeq(s, k + 1, Len(s)) \in Seq(S)
BY SMT

LEMMA ConcatType ==
  ASSUME NEW S, NEW s \in Seq(S), NEW t \in Seq(S)
  PROVE  s \o t \in Seq(S)
BY SMT

\* The kinds of frames are frames, and NoMsg is none of them.
LEMMA Kinds ==
  /\ Events \subseteq Messages
  /\ Heartbeats \subseteq Messages
  /\ Malformed \subseteq Messages
  /\ NoMsg \notin Messages
  /\ Events \cap Heartbeats = {}
BY SharedAssumption DEF SharedAssumption, Messages

-----------------------------------------------------------------------------
(* Type correctness.  CurInv is part of it: a handler that waits for a reply  *)
(* looks it up under its own event, the client replies under its own.         *)

TypeInv == TypeOK /\ CurInv

LEMMA TypeInvInit == Init => TypeInv
<1> SUFFICES ASSUME Init PROVE TypeInv
  OBVIOUS
<1> USE DEF Init, SharedInit, ServerInit, ClientInit
<1>1. SharedTypeOK
  BY EmptySeqType, Zenon DEF SharedTypeOK
<1>2. ServerTypeOK
  BY EmptySeqType, Zenon DEF ServerTypeOK, HandlerStates
<1>3. ClientTypeOK
  <2>1. delay \in Nat /\ accepted \in Nat /\ rejected \in Nat /\ reconnects \in Nat
    BY ClientAssumption, SMT DEF ClientAssumption
  <2> QED
    BY <2>1, EmptySeqType, Zenon DEF ClientTypeOK, ClientStates
<1>4. CurInv
  BY DEF CurInv, HandlerCurInv, ClientCurInv
<1> QED
  BY <1>1, <1>2, <1>3, <1>4 DEF TypeInv, TypeOK

\* Ending a connection keeps the types of what it resets.
LEMMA CloseConnKeepsTypes ==
  ASSUME ServerTypeOK, HandlerCurInv, NEW p \in Panels, CloseConn(p),
         UNCHANGED <<uiClosed, listening, sentLog, sent>>,
         answer' \in [Messages -> {"none", "ack", "nack"}]
  PROVE  ServerTypeOK' /\ HandlerCurInv'
<1>1. /\ wire' \in [Panels -> Seq(Messages)]
      /\ buffer' \in [Panels -> Seq(Messages)]
  BY EmptySeqType, Zenon DEF ServerTypeOK, CloseConn
<1>2. /\ hpc' \in [Panels -> HandlerStates]
      /\ cur' \in [Panels -> Events \cup {NoMsg}]
      /\ wdl' \in [Panels -> {"unset", "ahead", "past"}]
      /\ peerOpen' \in [Panels -> BOOLEAN]
  BY SMT DEF ServerTypeOK, CloseConn, HandlerStates
<1>3. HandlerCurInv'
  BY SMT DEF ServerTypeOK, HandlerCurInv, CloseConn
<1> QED
  BY <1>1, <1>2, <1>3, Zenon DEF ServerTypeOK

\* The steps of a handler keep the types.
LEMMA HandlerKeepsTypes ==
  ASSUME TypeInv, NEW p \in Panels, Handler(p)
  PROVE  TypeInv'
<1> SUFFICES SharedTypeOK' /\ ServerTypeOK' /\ HandlerCurInv'
  <2>1. ClientTypeOK' /\ ClientCurInv'
    BY DEF TypeInv, TypeOK, CurInv, ClientTypeOK, ClientCurInv, Handler, clientVars,
           metrics, link
  <2> QED
    BY <2>1 DEF TypeInv, TypeOK, CurInv
<1> USE Kinds
    DEF TypeInv, TypeOK, CurInv, SharedTypeOK, ServerTypeOK, HandlerCurInv,
        HandlerStates, sharedVars
<1>1. CASE LoopTop(p)
  <2>1. UNCHANGED <<uiClosed, listening, sentLog, sent, answer, sharedVars>>
    BY <1>1, Zenon DEF LoopTop
  <2>2. CASE CloseConn(p)
    BY <2>1, <2>2, CloseConnKeepsTypes, Zenon
  <2>3. CASE hpc' = [hpc EXCEPT ![p] = "read"]
             /\ UNCHANGED <<wire, buffer, cur, wdl, peerOpen>>
    BY <2>1, <2>3, SMT
  <2> QED
    BY <1>1, <2>2, <2>3, Zenon DEF LoopTop
<1>2. CASE ReadChunk(p)
  <2>1. PICK k \in 1 .. Len(wire[p]) :
          /\ buffer' = [buffer EXCEPT ![p] = @ \o SubSeq(wire[p], 1, k)]
          /\ wire' = [wire EXCEPT ![p] = SubSeq(@, k + 1, Len(@))]
    BY <1>2 DEF ReadChunk
  <2>2. wire[p] \in Seq(Messages) /\ buffer[p] \in Seq(Messages)
    BY SMT
  <2>3. /\ SubSeq(wire[p], 1, k) \in Seq(Messages)
        /\ SubSeq(wire[p], k + 1, Len(wire[p])) \in Seq(Messages)
    BY <2>2, SubSeqType
  <2>4. buffer[p] \o SubSeq(wire[p], 1, k) \in Seq(Messages)
    BY <2>2, <2>3, ConcatType
  <2>5. /\ buffer' \in [Panels -> Seq(Messages)]
        /\ wire' \in [Panels -> Seq(Messages)]
    BY <2>1, <2>3, <2>4, Zenon
  <2> QED
    BY <1>2, <2>5, SMT DEF ReadChunk
<1>3. CASE ReadTimeout(p)
  BY <1>3, SMT DEF ReadTimeout
<1>4. CASE ReadEnds(p)
  BY <1>4, SMT DEF ReadEnds, CloseConn
<1>5. CASE SplitDone(p)
  BY <1>5, SMT DEF SplitDone
<1>6. CASE AnswerHeartbeat(p)
  BY <1>6, SMT DEF AnswerHeartbeat, TakesFrame, WriteByte
<1>7. CASE RefuseFrame(p, Parked)
  BY <1>7, SMT DEF RefuseFrame, TakesFrame, WriteByte
<1>8. CASE EnqueueEvent(p, Parked)
  BY <1>8, SMT DEF EnqueueEvent, TakesFrame, Enqueue
<1>9. CASE UpdateDevice(p)
  <2>1. hpc[p] = "update" /\ UNCHANGED <<uiClosed, listening, sentLog, sent, answer, sharedVars>>
    BY <1>9, Zenon DEF UpdateDevice
  <2>2. CASE CloseConn(p)
    BY <2>1, <2>2, CloseConnKeepsTypes, Zenon
  <2>3. CASE hpc' = [hpc EXCEPT ![p] = "await"]
             /\ UNCHANGED <<wire, buffer, cur, wdl, peerOpen>>
    BY <2>1, <2>3, SMT
  <2> QED
    BY <1>9, <2>2, <2>3, Zenon DEF UpdateDevice
<1>10. CASE ReceiveReply(p)
  <2>1. /\ hpc[p] = "await"
        /\ UNCHANGED <<uiClosed, listening, sentLog, sent, dataChannel, replyClosed, ctxDone>>
    BY <1>10, Zenon DEF ReceiveReply
  <2>2. cur[p] \in Events /\ replyCh[cur[p]] \in Seq(BOOLEAN)
    BY <2>1, SMT
  <2>3. replyCh' \in [Messages -> Seq(BOOLEAN)]
    <3>1. CASE replyCh[cur[p]] = <<>>
      BY <1>10, <3>1, Zenon DEF ReceiveReply
    <3>2. CASE replyCh[cur[p]] # <<>>
      <4>1. Tail(replyCh[cur[p]]) \in Seq(BOOLEAN)
        BY <2>2, <3>2, RangeTail
      <4> QED
        BY <1>10, <3>2, <4>1, Zenon DEF ReceiveReply
    <3> QED
      BY <3>1, <3>2
  <2>4. answer' \in [Messages -> {"none", "ack", "nack"}]
    <3>1. \/ answer' = answer
          \/ answer' = [answer EXCEPT ![cur[p]] = "ack"]
          \/ answer' = [answer EXCEPT ![cur[p]] = "nack"]
      BY <1>10, Zenon DEF ReceiveReply, WriteByte
    <3> QED
      BY <3>1, Zenon
  <2>5. CASE CloseConn(p)
    BY <2>1, <2>3, <2>4, <2>5, CloseConnKeepsTypes, Zenon
  <2>6. CASE NextFrame(p, "ahead")
    BY <2>1, <2>3, <2>4, <2>6, SMT DEF NextFrame
  <2> QED
    BY <1>10, <2>5, <2>6, Zenon DEF ReceiveReply
<1>11. CASE ReplyTimeout(p)
  BY <1>11, SMT DEF ReplyTimeout, NextFrame, WriteByte
<1> QED
  BY <1>1, <1>2, <1>3, <1>4, <1>5, <1>6, <1>7, <1>8, <1>9, <1>10, <1>11
  DEF Handler, HandlerStep

\* Giving up the connection keeps the types of what it resets.
LEMMA EndConnectionKeepsTypes ==
  ASSUME ClientTypeOK, EndConnection, UNCHANGED <<cstatus, stationLog>>
  PROVE  ClientTypeOK' /\ ClientCurInv'
<1>1. orphans' \in SUBSET Messages
  <2>1. RangeOf(toStation) \subseteq Messages
    BY RangeType DEF ClientTypeOK
  <2> QED
    BY <2>1, Zenon DEF ClientTypeOK, EndConnection
<1>2. toStation' \in Seq(Messages) /\ fromStation' \in Seq(Verdict)
  BY EmptySeqType, Zenon DEF EndConnection
<1>3. delay' \in Nat
  BY ClientAssumption DEF ClientAssumption, EndConnection
<1>4. cpc' = "top"
  BY DEF EndConnection
<1>5. ClientCurInv'
  BY <1>4 DEF ClientCurInv
<1> QED
  BY <1>1, <1>2, <1>3, <1>4, <1>5, Zenon
  DEF ClientTypeOK, EndConnection, ClientStates, metrics

\* The steps of the client keep the types.
LEMMA ClientKeepsTypes ==
  ASSUME TypeInv, Client
  PROVE  TypeInv'
<1> SUFFICES SharedTypeOK' /\ ClientTypeOK' /\ ClientCurInv'
  <2>1. ServerTypeOK' /\ HandlerCurInv'
    BY DEF TypeInv, TypeOK, CurInv, ServerTypeOK, HandlerCurInv, Client, serverVars
  <2> QED
    BY <2>1 DEF TypeInv, TypeOK, CurInv
<1> USE DEF TypeInv, TypeOK, CurInv, SharedTypeOK, ClientTypeOK, ClientCurInv,
        ClientStates, sharedVars, metrics, link
<1>1. CASE RunTop
  <2>1. /\ cpc' \in {"stopped", "dialing"}
        /\ UNCHANGED <<ccur, cstatus, delay, metrics, link, orphans, stationLog,
                       sharedVars>>
    BY <1>1, Zenon DEF RunTop
  <2> QED
    BY <2>1, SMT
<1>2. CASE DialSucceeds
  BY <1>2, SMT DEF DialSucceeds
<1>3. CASE DialFails
  <2>1. reconnects' \in Nat
    BY <1>3, SMT DEF DialFails
  <2>2. /\ cpc' = "backoff"
        /\ connected' = FALSE
        /\ UNCHANGED <<ccur, cstatus, delay, accepted, rejected, link, orphans,
                       stationLog, sharedVars>>
    BY <1>3, Zenon DEF DialFails
  <2> QED
    BY <2>1, <2>2, Zenon
<1>4. CASE BackoffElapsed
  <2>1. delay' \in Nat
    BY <1>4, ClientAssumption, SMT
    DEF BackoffElapsed, CalculateNextDelay, ClientAssumption
  <2> QED
    BY <1>4, <2>1, SMT DEF BackoffElapsed
<1>5. CASE BackoffCancelled
  <2>1. /\ cpc' = "stopped"
        /\ UNCHANGED <<ccur, cstatus, delay, metrics, link, orphans, stationLog,
                       sharedVars>>
    BY <1>5, Zenon DEF BackoffCancelled
  <2> QED
    BY <2>1, SMT
<1>6. CASE TakeMessage
  <2>1. Head(dataChannel) \in Messages /\ Tail(dataChannel) \in Seq(Messages)
    BY <1>6, RangeTail DEF TakeMessage
  <2> QED
    BY <1>6, <2>1, SMT DEF TakeMessage
<1>7. CASE ShutdownConnection
  BY <1>7, EndConnectionKeepsTypes, Zenon DEF ShutdownConnection
<1>8. CASE WritePayload
  <2>1. toStation' \in Seq(Messages)
    <3>1. Append(toStation, ccur) \in Seq(Messages)
      BY <1>8, SMT DEF WritePayload
    <3> QED
      BY <1>8, <3>1, Zenon DEF WritePayload
  <2>2. /\ cpc = "write"
        /\ cpc' = "read"
        /\ UNCHANGED <<ccur, cstatus, delay, metrics, linkUp, fromStation, orphans,
                       stationLog, sharedVars>>
    BY <1>8, Zenon DEF WritePayload
  <2> QED
    BY <2>1, <2>2, SMT
<1>9. CASE WriteFails
  BY <1>9, EndConnectionKeepsTypes, Zenon DEF WriteFails
<1>10. CASE ReadReply
  <2>1. cstatus' \in BOOLEAN
    <3>1. Head(fromStation) \in Verdict
      BY <1>10, RangeTail DEF ReadReply
    <3> QED
      BY <1>10, <3>1, SMT DEF ReadReply, Verdict
  <2>2. accepted' \in Nat /\ rejected' \in Nat
    <3>1. \/ accepted' = accepted + 1 /\ rejected' = rejected
          \/ rejected' = rejected + 1 /\ accepted' = accepted
      BY <1>10, Zenon DEF ReadReply
    <3> QED
      BY <3>1, SMT
  <2>3. /\ cpc = "read"
        /\ cpc' = "reply"
        /\ fromStation' \in Seq(Verdict)
        /\ UNCHANGED <<ccur, delay, connected, reconnects, linkUp, toStation,
                       orphans, stationLog, sharedVars>>
    BY <1>10, EmptySeqType, Zenon DEF ReadReply
  <2> QED
    BY <2>1, <2>2, <2>3, SMT
<1>11. CASE ReadFails
  BY <1>11, EndConnectionKeepsTypes, Zenon DEF ReadFails
<1>12. CASE SendReply
  <2>1. /\ replyCh' \in [Messages -> Seq(BOOLEAN)]
        /\ replyClosed' \in SUBSET Messages
    <3>1. ccur \in Messages
      BY <1>12, SMT DEF SendReply
    <3>2. Append(replyCh[ccur], cstatus) \in Seq(BOOLEAN)
      BY <3>1, SMT
    <3> QED
      BY <1>12, <3>1, <3>2, Zenon DEF SendReply
  <2>2. /\ cpc' = "select"
        /\ ccur' = NoMsg
        /\ cstatus' = FALSE
        /\ UNCHANGED <<delay, metrics, link, orphans, stationLog, dataChannel,
                       ctxDone>>
    BY <1>12, Zenon DEF SendReply
  <2> QED
    BY <2>1, <2>2, Zenon
<1> QED
  BY <1>1, <1>2, <1>3, <1>4, <1>5, <1>6, <1>7, <1>8, <1>9, <1>10, <1>11, <1>12
  DEF Client, ClientStep

\* Panels, station and network keep the types.
LEMMA EnvironmentKeepsTypes ==
  ASSUME TypeInv, Environment
  PROVE  TypeInv'
<1>1. ASSUME NEW p \in Panels, PanelStep(p), UNCHANGED clientVars
      PROVE  TypeInv'
  <2>1. ClientTypeOK' /\ ClientCurInv'
    BY <1>1 DEF TypeInv, TypeOK, CurInv, ClientTypeOK, ClientCurInv, clientVars,
                metrics, link
  <2>2. SharedTypeOK' /\ ServerTypeOK' /\ HandlerCurInv'
    <3> USE DEF TypeInv, TypeOK, CurInv, SharedTypeOK, ServerTypeOK, HandlerCurInv,
            HandlerStates, sharedVars
    <3>1. CASE Accept(p)
      <4>1. sentLog' \in [Panels -> Seq(Messages)]
        BY <3>1, EmptySeqType, Zenon DEF Accept
      <4> QED
        BY <3>1, <4>1, SMT DEF Accept
    <3>2. CASE HangUp(p)
      <4>1. peerOpen' \in [Panels -> BOOLEAN]
        BY <3>2, Zenon DEF HangUp
      <4>2. UNCHANGED <<hpc, wire, buffer, cur, wdl, uiClosed, listening, sentLog, sent,
                        answer, sharedVars>>
        BY <3>2, Zenon DEF HangUp
      <4> QED
        <5>1. \A i \in Nat \ {0}, j \in Nat : i + j <= 1 => i = 1 /\ j = 0
          BY SMT
        <5> QED
          BY <4>1, <4>2, <5>1, Zenon
    <3>3. ASSUME NEW m \in Messages, SendFrame(p, m)
          PROVE  SharedTypeOK' /\ ServerTypeOK' /\ HandlerCurInv'
      <4>1. /\ wire' = [wire EXCEPT ![p] = Append(@, m)]
            /\ sentLog' = [sentLog EXCEPT ![p] = Append(@, m)]
            /\ sent' = sent \cup {m}
            /\ UNCHANGED <<hpc, buffer, cur, wdl, peerOpen, uiClosed, listening, answer,
                           sharedVars>>
        BY <3>3, Zenon DEF SendFrame
      <4> QED
        BY <4>1, SMT
    <3>4. CASE DeadlinePasses(p)
      BY <3>4, SMT DEF DeadlinePasses
    <3> QED
      BY <1>1, <3>1, <3>2, <3>3, <3>4 DEF PanelStep
  <2> QED
    BY <2>1, <2>2 DEF TypeInv, TypeOK, CurInv
<1>2. ASSUME StationStep, UNCHANGED serverVars
      PROVE  TypeInv'
  <2>1. ServerTypeOK' /\ HandlerCurInv'
    BY <1>2 DEF TypeInv, TypeOK, CurInv, ServerTypeOK, HandlerCurInv, serverVars
  <2>2. SharedTypeOK' /\ ClientTypeOK' /\ ClientCurInv'
    <3> USE DEF TypeInv, TypeOK, CurInv, SharedTypeOK, ClientTypeOK, ClientCurInv,
            ClientStates, sharedVars, metrics
    <3>1. ASSUME NEW ack \in BOOLEAN, StationAnswers(ack)
          PROVE  SharedTypeOK' /\ ClientTypeOK' /\ ClientCurInv'
      <4>1. Head(toStation) \in Messages /\ Tail(toStation) \in Seq(Messages)
        BY <3>1, RangeTail DEF StationAnswers
      <4>2. [msg |-> Head(toStation), ack |-> ack] \in Verdict
        BY <4>1, Zenon DEF Verdict
      <4>3. stationLog' \in Seq(Verdict) /\ fromStation' \in Seq(Verdict)
        BY <3>1, <4>2, SMT DEF StationAnswers
      <4>4. /\ toStation' \in Seq(Messages)
            /\ UNCHANGED <<cpc, ccur, cstatus, delay, metrics, linkUp, orphans,
                           sharedVars>>
        BY <3>1, <4>1, Zenon DEF StationAnswers
      <4> QED
        BY <4>3, <4>4, SMT
    <3>2. ASSUME NEW m \in orphans, NEW ack \in BOOLEAN, StationGetsLate(m, ack)
          PROVE  SharedTypeOK' /\ ClientTypeOK' /\ ClientCurInv'
      <4>1. [msg |-> m, ack |-> ack] \in Verdict
        BY Zenon DEF Verdict
      <4>2. stationLog' \in Seq(Verdict)
        BY <3>2, <4>1, SMT DEF StationGetsLate
      <4> QED
        BY <3>2, <4>2, SMT DEF StationGetsLate, link
    <3>3. CASE LinkBreaks
      <4>1. RangeOf(toStation) \subseteq Messages
        BY RangeType
      <4>2. /\ orphans' = orphans \cup RangeOf(toStation)
            /\ toStation' \in Seq(Messages)
            /\ linkUp' \in BOOLEAN
            /\ UNCHANGED <<cpc, ccur, cstatus, delay, metrics, fromStation,
                           stationLog, sharedVars>>
        BY <3>3, EmptySeqType, Zenon DEF LinkBreaks
      <4> QED
        <5>1. \A i \in Nat \ {0}, j \in Nat : i + j <= 1 => i = 1 /\ j = 0
          BY SMT
        <5> QED
          BY <4>1, <4>2, <5>1, Zenon
    <3> QED
      BY <1>2, <3>1, <3>2, <3>3 DEF StationStep
  <2> QED
    BY <2>1, <2>2 DEF TypeInv, TypeOK, CurInv
<1> QED
  BY <1>1, <1>2 DEF Environment

LEMMA ShutdownKeepsTypes ==
  ASSUME TypeInv, Shutdown
  PROVE  TypeInv'
<1> USE DEF TypeInv, TypeOK, CurInv, SharedTypeOK, ServerTypeOK, ClientTypeOK,
        HandlerCurInv, ClientCurInv, serverVars, clientVars, sharedVars, metrics,
        link
<1>1. CASE Cancel /\ UNCHANGED <<serverVars, clientVars>>
  BY <1>1, Zenon DEF Cancel
<1>2. CASE CloseChannels /\ UNCHANGED clientVars
  BY <1>2, Zenon DEF CloseChannels
<1>3. CASE CloseListener /\ UNCHANGED clientVars
  BY <1>3, Zenon DEF CloseListener
<1> QED
  BY <1>1, <1>2, <1>3 DEF Shutdown

LEMMA StutterKeepsTypes ==
  ASSUME TypeInv, UNCHANGED vars
  PROVE  TypeInv'
BY DEF TypeInv, TypeOK, CurInv, SharedTypeOK, ServerTypeOK, ClientTypeOK,
       HandlerCurInv, ClientCurInv, vars, serverVars, clientVars, sharedVars,
       metrics, link

LEMMA NextKeepsTypes == TypeInv /\ [Next]_vars => TypeInv'
BY HandlerKeepsTypes, ClientKeepsTypes, EnvironmentKeepsTypes,
   ShutdownKeepsTypes, StutterKeepsTypes DEF Next

\* Every variable keeps to its type, in every reachable state, for every set of
\* panels and frames and every buffer size; the local variables of handler and
\* client hold a message wherever the code uses them as one (server.go:525,
\* client.go:229).
THEOREM TypeCorrect == Spec => [](TypeOK /\ CurInv)
<1>1. Spec => []TypeInv
  BY TypeInvInit, NextKeepsTypes, PTL DEF Spec
<1>2. TypeInv => TypeOK /\ CurInv
  BY DEF TypeInv
<1> QED
  BY <1>1, <1>2, PTL

-----------------------------------------------------------------------------
(* An acknowledged event has been accepted.                                *)
(*                                                                         *)
(* The status passes through three places: a reply in flight from the      *)
(* station (LinkInv), the client's local variable and the reply channel    *)
(* (RepliesAreVerdicts), the byte written to the panel (AckSound).  In     *)
(* each it is a verdict of the station on the event it is held for, and    *)
(* the station takes no verdict back.                                      *)

SafeInv == TypeInv /\ AckSound /\ RepliesAreVerdicts /\ LinkInv

LEMMA SafeInvInit == Init => SafeInv
<1> SUFFICES ASSUME Init PROVE SafeInv
  OBVIOUS
<1>1. TypeInv
  BY TypeInvInit
<1>2. AckSound
  BY Kinds, Zenon DEF Init, ServerInit, AckSound
<1>3. RepliesAreVerdicts
  BY RangeEmpty, Zenon DEF Init, SharedInit, ClientInit, RepliesAreVerdicts
<1>4. LinkInv
  BY SMT DEF Init, ClientInit, LinkInv
<1> QED
  BY <1>1, <1>2, <1>3, <1>4 DEF SafeInv

LEMMA HandlerKeepsSafe ==
  ASSUME SafeInv, NEW p \in Panels, Handler(p)
  PROVE  SafeInv'
<1>1. TypeInv'
  BY HandlerKeepsTypes DEF SafeInv
<1>2. LinkInv'
  BY DEF SafeInv, LinkInv, Handler, clientVars, link
<1>3. \A m \in Messages, s \in BOOLEAN : Decided(m, s) <=> Decided(m, s)'
  BY DEF Decided, Handler, clientVars
<1>4. cpc' = "reply" => Decided(ccur, cstatus)'
  BY DEF SafeInv, RepliesAreVerdicts, Decided, Handler, clientVars
<1>5. /\ answer \in [Messages -> {"none", "ack", "nack"}]
      /\ replyCh \in [Messages -> Seq(BOOLEAN)]
      /\ cur \in [Panels -> Events \cup {NoMsg}]
      /\ hpc[p] = "await" => cur[p] \in Events
  BY Zenon DEF SafeInv, TypeInv, TypeOK, SharedTypeOK, ServerTypeOK, CurInv,
               HandlerCurInv
<1>6. \A m \in Messages : RangeOf(replyCh'[m]) \subseteq RangeOf(replyCh[m])
  <2>1. CASE UNCHANGED replyCh
    BY <2>1, Zenon
  <2>2. CASE EnqueueEvent(p, Parked)
    <3>1. PICK e : replyCh' = [replyCh EXCEPT ![e] = <<>>]
      BY <2>2 DEF EnqueueEvent
    <3> QED
      BY <1>5, <3>1, RangeEmpty, Zenon
  <2>3. ASSUME ReceiveReply(p), replyCh[cur[p]] # <<>>
        PROVE  \A m \in Messages : RangeOf(replyCh'[m]) \subseteq RangeOf(replyCh[m])
    <3>1. replyCh' = [replyCh EXCEPT ![cur[p]] = Tail(@)]
      BY <2>3, Zenon DEF ReceiveReply
    <3>2. replyCh[cur[p]] \in Seq(BOOLEAN)
      BY <1>5, <2>3, Kinds, Zenon DEF ReceiveReply
    <3>3. RangeOf(Tail(replyCh[cur[p]])) \subseteq RangeOf(replyCh[cur[p]])
      BY <2>3, <3>2, RangeTail
    <3> QED
      BY <1>5, <3>1, <3>3, Zenon
  <2>4. CASE ReceiveReply(p) /\ replyCh[cur[p]] = <<>>
    BY <2>1, <2>4, Zenon DEF ReceiveReply
  <2> QED
    BY <2>1, <2>2, <2>3, <2>4, Zenon
    DEF Handler, HandlerStep, LoopTop, ReadChunk, ReadTimeout, ReadEnds,
        SplitDone, AnswerHeartbeat, RefuseFrame, UpdateDevice, ReplyTimeout,
        sharedVars
<1>7. \A m \in Events : answer'[m] = "ack" => answer[m] = "ack" \/ Decided(m, TRUE)
  <2>1. CASE UNCHANGED answer
    BY <2>1, Zenon
  <2>2. CASE AnswerHeartbeat(p)
    BY <1>5, <2>2, Kinds, Zenon DEF AnswerHeartbeat, TakesFrame, WriteByte
  <2>3. CASE RefuseFrame(p, Parked)
    BY <1>5, <2>3, Kinds, Zenon DEF RefuseFrame, WriteByte
  <2>4. CASE ReplyTimeout(p)
    BY <1>5, <2>4, Kinds, Zenon DEF ReplyTimeout, WriteByte
  <2>5. ASSUME ReceiveReply(p), ~UNCHANGED answer
        PROVE  \A m \in Events :
                 answer'[m] = "ack" => answer[m] = "ack" \/ Decided(m, TRUE)
    <3> DEFINE s == Head(replyCh[cur[p]])
    <3>1. /\ replyCh[cur[p]] # <<>>
          /\ hpc[p] = "await"
          /\ answer' = [answer EXCEPT ![cur[p]] = IF s THEN "ack" ELSE "nack"]
      BY <2>5, Zenon DEF ReceiveReply, WriteByte
    <3>2. replyCh[cur[p]] \in Seq(BOOLEAN)
      BY <1>5, <3>1, Kinds, Zenon
    <3>3. s \in RangeOf(replyCh[cur[p]]) /\ s \in BOOLEAN
      BY <3>1, <3>2, RangeTail
    <3>4. Decided(cur[p], s)
      BY <1>5, <3>1, <3>3, Kinds, Zenon DEF SafeInv, RepliesAreVerdicts
    <3>5. s => Decided(cur[p], TRUE)
      BY <3>3, <3>4, Zenon
    <3> QED
      BY <1>5, <3>1, <3>5, Kinds, Zenon
  <2> QED
    BY <2>1, <2>2, <2>3, <2>4, <2>5, Zenon
    DEF Handler, HandlerStep, LoopTop, ReadChunk, ReadTimeout, ReadEnds,
        SplitDone, EnqueueEvent, UpdateDevice
<1>8. AckSound'
  BY <1>3, <1>7, Kinds, Zenon DEF SafeInv, AckSound
<1>9. RepliesAreVerdicts'
  <2>1. \A m \in Messages : RangeOf(replyCh[m]) \subseteq BOOLEAN
    BY <1>5, RangeType
  <2> QED
    BY <1>3, <1>4, <1>6, <2>1, Zenon DEF SafeInv, RepliesAreVerdicts
<1> QED
  BY <1>1, <1>2, <1>8, <1>9 DEF SafeInv

\* Giving up the connection empties the link and sends no status.
LEMMA EndConnectionKeepsLink ==
  ASSUME EndConnection
  PROVE  LinkInv' /\ cpc' # "reply"
BY SMT DEF EndConnection, LinkInv

\* While no verdict is added and no status is written, passed on or read, what
\* is known of the statuses stays true.
LEMMA StatusesStay ==
  ASSUME SafeInv, UNCHANGED <<answer, replyCh, stationLog>>, cpc' # "reply"
  PROVE  AckSound' /\ RepliesAreVerdicts'
<1>1. \A m, s : Decided(m, s) <=> Decided(m, s)'
  BY DEF Decided
<1> QED
  BY <1>1, Zenon DEF SafeInv, AckSound, RepliesAreVerdicts

LEMMA ClientKeepsSafe ==
  ASSUME SafeInv, Client
  PROVE  SafeInv'
<1>1. TypeInv'
  BY ClientKeepsTypes DEF SafeInv
<1>2. answer' = answer
  BY DEF Client, serverVars
<1>3. /\ toStation \in Seq(Messages)
      /\ fromStation \in Seq(Verdict)
      /\ replyCh \in [Messages -> Seq(BOOLEAN)]
      /\ cstatus \in BOOLEAN
      /\ cpc \in {"write", "read", "reply"} => ccur \in Messages
      /\ LinkInv
  BY Zenon DEF SafeInv, TypeInv, TypeOK, SharedTypeOK, ClientTypeOK, CurInv,
               ClientCurInv
<1> SUFFICES AckSound' /\ RepliesAreVerdicts' /\ LinkInv'
  BY <1>1 DEF SafeInv
<1>4. CASE ShutdownConnection \/ WriteFails \/ ReadFails
  BY <1>2, <1>4, EndConnectionKeepsLink, StatusesStay, Zenon
  DEF ShutdownConnection, WriteFails, ReadFails, sharedVars
<1>5. CASE RunTop \/ DialSucceeds \/ DialFails \/ BackoffElapsed
           \/ BackoffCancelled \/ TakeMessage
  <2>1. /\ cpc \in {"top", "dialing", "backoff", "select"}
        /\ cpc' \in {"stopped", "dialing", "select", "backoff", "top", "write"}
        /\ UNCHANGED <<toStation, fromStation, replyCh, stationLog>>
    BY <1>5, Zenon DEF RunTop, DialSucceeds, DialFails, BackoffElapsed,
       BackoffCancelled, TakeMessage, sharedVars, link
  <2>2. toStation = <<>> /\ fromStation = <<>>
    BY <1>3, <2>1, Zenon DEF LinkInv
  <2>3. LinkInv'
    BY <2>1, <2>2, SMT DEF LinkInv
  <2> QED
    BY <1>2, <2>1, <2>3, StatusesStay, Zenon
<1>6. CASE WritePayload
  <2>1. /\ cpc = "write"
        /\ cpc' = "read"
        /\ toStation' = toStation \/ toStation' = Append(toStation, ccur)
        /\ UNCHANGED <<ccur, fromStation, replyCh, stationLog>>
    BY <1>6, Zenon DEF WritePayload, sharedVars
  <2>2. toStation = <<>> /\ fromStation = <<>>
    BY <1>3, <2>1, Zenon DEF LinkInv
  <2>3. /\ Len(toStation') + Len(fromStation') <= 1
        /\ toStation' # <<>> => Head(toStation') = ccur'
    <3>1. ccur \in Messages
      BY <1>3, <2>1, Zenon
    <3>2. CASE toStation' = Append(toStation, ccur)
      <4>1. Len(toStation') = 1 /\ Head(toStation') = ccur
        BY <2>2, <3>1, <3>2, SMT
      <4> QED
        BY <2>1, <2>2, <4>1, SMT
    <3>3. CASE toStation' = toStation
      BY <2>1, <2>2, <3>3, SMT
    <3> QED
      BY <2>1, <3>2, <3>3
  <2>4. LinkInv'
    BY <2>1, <2>2, <2>3, Zenon DEF LinkInv
  <2> QED
    BY <1>2, <2>1, <2>4, StatusesStay, Zenon
<1>7. CASE ReadReply
  <2> DEFINE v == Head(fromStation)
  <2>1. /\ fromStation # <<>>
        /\ cpc' = "reply"
        /\ cstatus' = v.ack
        /\ fromStation' = <<>>
        /\ UNCHANGED <<ccur, toStation, replyCh, stationLog>>
    BY <1>7, Zenon DEF ReadReply, sharedVars
  <2>2. v \in Verdict
    BY <1>3, <2>1, RangeTail
  <2>3. v = [msg |-> v.msg, ack |-> v.ack]
    BY <2>2, Zenon DEF Verdict
  <2>4. v.msg = ccur /\ v \in RangeOf(stationLog)
    BY <1>3, <2>1, Zenon DEF LinkInv
  <2>5. Decided(ccur, cstatus)'
    BY <2>1, <2>3, <2>4, Zenon DEF Decided
  <2>6. toStation = <<>>
    BY <1>3, <2>1, SMT DEF LinkInv
  <2>7. LinkInv'
    BY <2>1, <2>6, SMT DEF LinkInv
  <2>8. \A m, s : Decided(m, s) <=> Decided(m, s)'
    BY <2>1 DEF Decided
  <2> QED
    BY <1>2, <2>1, <2>5, <2>7, <2>8, Zenon
    DEF SafeInv, AckSound, RepliesAreVerdicts
<1>8. CASE SendReply
  <2>1. /\ cpc = "reply"
        /\ cpc' = "select"
        /\ replyCh' = replyCh
             \/ replyCh' = [replyCh EXCEPT ![ccur] = Append(@, cstatus)]
        /\ UNCHANGED <<toStation, fromStation, stationLog>>
    BY <1>8, Zenon DEF SendReply, link
  <2>2. LinkInv'
    <3>1. toStation = <<>> /\ fromStation = <<>>
      BY <1>3, <2>1, Zenon DEF LinkInv
    <3> QED
      BY <2>1, <3>1, SMT DEF LinkInv
  <2>3. \A m, s : Decided(m, s) <=> Decided(m, s)'
    BY <2>1 DEF Decided
  <2>4. ccur \in Messages /\ replyCh[ccur] \in Seq(BOOLEAN)
    BY <1>3, <2>1, Zenon
  <2>5. RangeOf(Append(replyCh[ccur], cstatus)) = RangeOf(replyCh[ccur]) \cup {cstatus}
    BY <1>3, <2>4, RangeAppend
  <2>6. Decided(ccur, cstatus)
    BY <2>1 DEF SafeInv, RepliesAreVerdicts
  <2>7. \A m \in Messages : \A s \in RangeOf(replyCh'[m]) : Decided(m, s)
    BY <1>3, <2>1, <2>4, <2>5, <2>6, Zenon DEF SafeInv, RepliesAreVerdicts
  <2> QED
    BY <1>2, <2>1, <2>2, <2>3, <2>7, Zenon DEF SafeInv, AckSound, RepliesAreVerdicts
<1> QED
  BY <1>4, <1>5, <1>6, <1>7, <1>8 DEF Client, ClientStep

\* A verdict added to the log takes none back.
LEMMA VerdictsStay ==
  ASSUME TypeInv, NEW v \in Verdict, stationLog' = Append(stationLog, v)
  PROVE  /\ RangeOf(stationLog)' = RangeOf(stationLog) \cup {v}
         /\ \A m, s : Decided(m, s) => Decided(m, s)'
<1>1. RangeOf(stationLog)' = RangeOf(stationLog) \cup {v}
  <2>1. stationLog \in Seq(Verdict)
    BY DEF TypeInv, TypeOK, ClientTypeOK
  <2>2. RangeOf(Append(stationLog, v)) = RangeOf(stationLog) \cup {v}
    BY <2>1, RangeAppend
  <2> QED
    BY <2>2 DEF RangeOf
<1> QED
  BY <1>1, Zenon DEF Decided

LEMMA EnvironmentKeepsSafe ==
  ASSUME SafeInv, Environment
  PROVE  SafeInv'
<1>1. TypeInv'
  BY EnvironmentKeepsTypes DEF SafeInv
<1>2. ASSUME NEW p \in Panels, PanelStep(p), UNCHANGED clientVars
      PROVE  SafeInv'
  <2>1. UNCHANGED <<answer, replyCh>>
    BY <1>2, Zenon DEF PanelStep, Accept, HangUp, SendFrame, DeadlinePasses, sharedVars
  <2>2. LinkInv'
    BY <1>2 DEF SafeInv, LinkInv, clientVars, link
  <2>3. AckSound' /\ RepliesAreVerdicts'
    BY <1>2, <2>1 DEF SafeInv, AckSound, RepliesAreVerdicts, Decided, clientVars
  <2> QED
    BY <1>1, <2>2, <2>3 DEF SafeInv
<1>3. ASSUME StationStep, UNCHANGED serverVars
      PROVE  SafeInv'
  <2>1. UNCHANGED <<cpc, ccur, cstatus, answer, replyCh>>
    BY <1>3, Zenon DEF StationStep, StationAnswers, StationGetsLate, LinkBreaks,
       sharedVars, serverVars
  <2>2. ASSUME \A m, s : Decided(m, s) => Decided(m, s)'
        PROVE  AckSound' /\ RepliesAreVerdicts'
    BY <2>1, <2>2, Zenon DEF SafeInv, AckSound, RepliesAreVerdicts
  <2>3. toStation \in Seq(Messages) /\ fromStation \in Seq(Verdict)
    BY DEF SafeInv, TypeInv, TypeOK, ClientTypeOK
  <2>4. ASSUME NEW ack \in BOOLEAN, StationAnswers(ack)
        PROVE  SafeInv'
    <3> DEFINE v == [msg |-> Head(toStation), ack |-> ack]
    <3>1. /\ toStation # <<>>
          /\ stationLog' = Append(stationLog, v)
          /\ fromStation' = Append(fromStation, v)
          /\ toStation' = Tail(toStation)
      BY <2>4, Zenon DEF StationAnswers
    <3>2. Head(toStation) \in Messages
      BY <2>3, <3>1, RangeTail
    <3>3. v \in Verdict
      BY <3>2, Zenon DEF Verdict
    <3>4. v \in RangeOf(stationLog)' /\ \A m, s : Decided(m, s) => Decided(m, s)'
      BY <3>1, <3>3, VerdictsStay DEF SafeInv
    <3>5. /\ Len(toStation) = 1
          /\ fromStation = <<>>
          /\ Head(toStation) = ccur
          /\ cpc = "read"
      <4>1. Len(toStation) \in Nat \ {0} /\ Len(fromStation) \in Nat
        BY <2>3, <3>1, SMT
      <4>2. Len(toStation) + Len(fromStation) <= 1
        BY DEF SafeInv, LinkInv
      <4>3. Len(toStation) = 1 /\ Len(fromStation) = 0
        <5>1. \A i \in Nat \ {0}, j \in Nat : i + j <= 1 => i = 1 /\ j = 0
          BY SMT
        <5> QED
          BY <4>1, <4>2, <5>1, Zenon
      <4>4. fromStation = <<>>
        BY <2>3, <4>3, SMT
      <4>5. Head(toStation) = ccur /\ cpc = "read"
        BY <3>1, Zenon DEF SafeInv, LinkInv
      <4> QED
        BY <4>3, <4>4, <4>5
    <3>6. toStation' = <<>> /\ Len(fromStation') = 1 /\ Head(fromStation') = v
      BY <2>3, <3>1, <3>3, <3>5, SMT
    <3>7. v.msg = ccur
      BY <3>5
    <3>8. Len(toStation') + Len(fromStation') <= 1
      BY <3>6, SMT
    <3>9. LinkInv'
      BY <2>1, <3>4, <3>5, <3>6, <3>7, <3>8, Zenon DEF LinkInv
    <3> QED
      BY <1>1, <2>2, <3>4, <3>9 DEF SafeInv
  <2>5. ASSUME NEW m \in orphans, NEW ack \in BOOLEAN, StationGetsLate(m, ack)
        PROVE  SafeInv'
    <3> DEFINE v == [msg |-> m, ack |-> ack]
    <3>1. m \in Messages
      BY DEF SafeInv, TypeInv, TypeOK, ClientTypeOK
    <3>2. v \in Verdict
      BY <3>1, Zenon DEF Verdict
    <3>3. stationLog' = Append(stationLog, v) /\ UNCHANGED <<toStation, fromStation>>
      BY <2>5 DEF StationGetsLate, link
    <3>4. /\ RangeOf(stationLog)' = RangeOf(stationLog) \cup {v}
          /\ \A n, s : Decided(n, s) => Decided(n, s)'
      BY <3>2, <3>3, VerdictsStay DEF SafeInv
    <3>5. LinkInv'
      BY <2>1, <3>3, <3>4, Zenon DEF SafeInv, LinkInv
    <3> QED
      BY <1>1, <2>2, <3>4, <3>5 DEF SafeInv
  <2>6. CASE LinkBreaks
    <3>1. toStation' = <<>> /\ UNCHANGED <<fromStation, stationLog>>
      BY <2>6 DEF LinkBreaks
    <3>2. LinkInv'
      BY <2>1, <2>3, <3>1, SMT DEF SafeInv, LinkInv
    <3>3. \A m, s : Decided(m, s) => Decided(m, s)'
      BY <3>1 DEF Decided
    <3> QED
      BY <1>1, <2>2, <3>2, <3>3 DEF SafeInv
  <2> QED
    BY <1>3, <2>4, <2>5, <2>6 DEF StationStep
<1> QED
  BY <1>2, <1>3 DEF Environment

LEMMA RestKeepsSafe ==
  ASSUME SafeInv, Shutdown \/ UNCHANGED vars
  PROVE  SafeInv'
<1>1. TypeInv'
  BY ShutdownKeepsTypes, StutterKeepsTypes DEF SafeInv
<1>2. UNCHANGED <<answer, replyCh, clientVars>>
  BY Zenon DEF Shutdown, Cancel, CloseChannels, CloseListener, vars, serverVars, sharedVars
<1>3. AckSound' /\ RepliesAreVerdicts' /\ LinkInv'
  BY <1>2 DEF SafeInv, AckSound, RepliesAreVerdicts, LinkInv, Decided, clientVars,
              link
<1> QED
  BY <1>1, <1>3 DEF SafeInv

LEMMA NextKeepsSafe == SafeInv /\ [Next]_vars => SafeInv'
BY HandlerKeepsSafe, ClientKeepsSafe, EnvironmentKeepsSafe, RestKeepsSafe DEF Next

\* What the relay holds for an event is the station's verdict on that event, at
\* every place it passes through: no reply is credited to another event, over
\* any sequence of timeouts, broken connections and redials (client.go:185,
\* 212-234).
THEOREM NoCrossAttribution == Spec => [](RepliesAreVerdicts /\ LinkInv)
<1>1. Spec => []SafeInv
  BY SafeInvInit, NextKeepsSafe, PTL DEF Spec
<1>2. SafeInv => RepliesAreVerdicts /\ LinkInv
  BY DEF SafeInv
<1> QED
  BY <1>1, <1>2, PTL

\* An ACK that reaches a panel (server.go:537-545) means that the station
\* accepted the very event it answers.
THEOREM AcksAreSound == Spec => []AckSound
<1>1. Spec => []SafeInv
  BY SafeInvInit, NextKeepsSafe, PTL DEF Spec
<1>2. SafeInv => AckSound
  BY DEF SafeInv
<1> QED
  BY <1>1, <1>2, PTL

-----------------------------------------------------------------------------
(* The backoff. *)

LEMMA DelaySteps ==
  ASSUME [Next]_vars
  PROVE  \/ UNCHANGED delay
         \/ delay' = ReconnectInitial
         \/ delay' = CalculateNextDelay(delay)
<1>1. CASE Client
  <2>1. ASSUME EndConnection PROVE delay' = ReconnectInitial
    BY <2>1 DEF EndConnection
  <2> QED
    BY <1>1, <2>1, Zenon DEF Client, ClientStep, RunTop, DialSucceeds, DialFails, BackoffElapsed,
       BackoffCancelled, TakeMessage, ShutdownConnection, WritePayload, WriteFails,
       ReadReply, ReadFails, SendReply
<1>2. CASE Environment
  BY <1>2, Zenon DEF Environment, StationStep, StationAnswers, StationGetsLate,
     LinkBreaks, clientVars
<1>3. CASE Shutdown
  BY <1>3, Zenon DEF Shutdown, clientVars
<1>4. CASE \E p \in Panels : Handler(p)
  BY <1>4, Zenon DEF Handler, clientVars
<1>5. CASE UNCHANGED vars
  BY <1>5, Zenon DEF vars, clientVars
<1> QED
  BY <1>1, <1>2, <1>3, <1>4, <1>5 DEF Next

\* calculateNextDelay keeps to the range from anywhere in it, and the delay is
\* set anew to the initial one when a connection ends (client.go:103-124,
\* 139-146).
THEOREM BackoffBounded == Spec => []BackoffInRange
<1>1. Init => BackoffInRange
  BY DEF Init, ClientInit, BackoffInRange
<1>2. TypeInv /\ BackoffInRange /\ [Next]_vars => BackoffInRange'
  <2> SUFFICES ASSUME TypeInv, BackoffInRange, [Next]_vars PROVE BackoffInRange'
    OBVIOUS
  <2>1. delay \in Nat /\ ReconnectInitial \in Nat /\ ReconnectMax \in Nat
    BY ClientAssumption DEF TypeInv, TypeOK, ClientTypeOK
  <2>2. CASE delay' = CalculateNextDelay(delay)
    BY <2>1, <2>2, SMT DEF BackoffInRange, CalculateNextDelay
  <2> QED
    BY <2>2, DelaySteps DEF BackoffInRange
<1> QED
  BY <1>1, <1>2, TypeInvInit, NextKeepsTypes, PTL DEF Spec

-----------------------------------------------------------------------------
(* Sequences without repetition. *)

Distinct(s) == \A i, j \in DOMAIN s : s[i] = s[j] => i = j

LEMMA DistinctAppend ==
  ASSUME NEW S, NEW s \in Seq(S), NEW x \in S, Distinct(s), x \notin RangeOf(s)
  PROVE  Distinct(Append(s, x))
<1>1. \A i \in 1 .. Len(s) : Append(s, x)[i] = s[i] /\ s[i] # x
  BY SMT DEF RangeOf
<1>2. Append(s, x)[Len(s) + 1] = x /\ Len(Append(s, x)) = Len(s) + 1
  BY SMT
<1>3. DOMAIN Append(s, x) = 1 .. Len(s) + 1 /\ DOMAIN s = 1 .. Len(s) /\ Len(s) \in Nat
  BY <1>2, SMT
<1> QED
  BY <1>1, <1>2, <1>3, SMT DEF Distinct

LEMMA DistinctTail ==
  ASSUME NEW S, NEW s \in Seq(S), s # <<>>, Distinct(s)
  PROVE  /\ Distinct(Tail(s))
         /\ Head(s) \notin RangeOf(Tail(s))
         /\ RangeOf(s) = {Head(s)} \cup RangeOf(Tail(s))
<1>1. Len(s) \in Nat /\ Len(s) >= 1 /\ DOMAIN s = 1 .. Len(s) /\ Head(s) = s[1]
  BY SMT
<1>2. /\ Len(Tail(s)) = Len(s) - 1
      /\ Tail(s) \in Seq(S)
      /\ \A i \in 1 .. Len(s) - 1 : Tail(s)[i] = s[i + 1]
  BY <1>1, SMT
<1>3. DOMAIN Tail(s) = 1 .. Len(s) - 1
  BY <1>1, <1>2, SMT
<1>4. \A i \in 1 .. Len(s) - 1 : i + 1 \in DOMAIN s /\ i + 1 # 1
  BY <1>1, SMT
<1>5. Distinct(Tail(s)) /\ Head(s) \notin RangeOf(Tail(s))
  BY <1>1, <1>2, <1>3, <1>4, SMTT(30) DEF Distinct, RangeOf
<1>6. RangeOf(s) \subseteq {Head(s)} \cup RangeOf(Tail(s))
  <2>1. ASSUME NEW i \in 1 .. Len(s), i # 1 PROVE s[i] \in RangeOf(Tail(s))
    <3>1. i - 1 \in 1 .. Len(s) - 1 /\ (i - 1) + 1 = i
      BY <1>1, <2>1, SMT
    <3>2. Tail(s)[i - 1] = s[i]
      BY <1>2, <3>1, SMT
    <3> QED
      BY <1>3, <3>1, <3>2 DEF RangeOf
  <2> QED
    BY <1>1, <2>1 DEF RangeOf
<1> QED
  BY <1>5, <1>6, RangeTail

\* Reading moves frames from one end of what waits to the other.
LEMMA SplitConcat ==
  ASSUME NEW S, NEW s \in Seq(S), NEW t \in Seq(S), NEW k \in 1 .. Len(t)
  PROVE  (s \o SubSeq(t, 1, k)) \o SubSeq(t, k + 1, Len(t)) = s \o t
<1> DEFINE a == SubSeq(t, 1, k)
           b == SubSeq(t, k + 1, Len(t))
<1>1. a \in Seq(S) /\ b \in Seq(S)
  BY SubSeqType
<1>2. a \o b = t
  <2>1. /\ 1 \in 1 .. Len(t) + 1
        /\ k \in 1 - 1 .. Len(t)
        /\ Len(t) \in k .. Len(t)
    BY SMT
  <2>2. SubSeq(t, 1, k) \o SubSeq(t, k + 1, Len(t)) = SubSeq(t, 1, Len(t))
    BY <2>1, ConcatAdjacentSubSeq
  <2> QED
    BY <2>2, SubSeqFull
<1> HIDE DEF a, b
<1>3. \A u, v \in Seq(S) : (s \o u) \o v = s \o (u \o v)
  <2> TAKE u, v \in Seq(S)
  <2> QED
    BY SMT
<1>4. (s \o a) \o b = s \o t
  BY <1>1, <1>2, <1>3, Zenon
<1> QED
  BY <1>4 DEF a, b

LEMMA ConcatAppend ==
  ASSUME NEW S, NEW s \in Seq(S), NEW t \in Seq(S), NEW x \in S
  PROVE  s \o Append(t, x) = Append(s \o t, x)
BY SMT

LEMMA ConcatTail ==
  ASSUME NEW S, NEW s \in Seq(S), NEW t \in Seq(S), s # <<>>
  PROVE  /\ Tail(s) \o t = Tail(s \o t)
         /\ Head(s) = Head(s \o t)
         /\ s \o t # <<>>
         /\ s \o t \in Seq(S)
BY SMT

LEMMA ConcatEmpty == <<>> \o <<>> = <<>>
BY SMT

-----------------------------------------------------------------------------
(* The inductive invariant. *)

\* What panel p has sent and its handler has not yet taken out of buffer.
Waiting(p) == buffer[p] \o wire[p]

Handled == {m \in sent : \A p \in Panels : m \notin RangeOf(Waiting(p))}

WaitingInv ==
  /\ \A p \in Panels : Distinct(Waiting(p)) /\ RangeOf(Waiting(p)) \subseteq sent
  /\ \A p, q \in Panels :
       p # q => RangeOf(Waiting(p)) \cap RangeOf(Waiting(q)) = {}

Queued == RangeOf(dataChannel)
WithClient == IF cpc \in {"write", "read", "reply"} THEN {ccur} ELSE {}
OnLink == RangeOf(toStation) \cup orphans
Logged == {v.msg : v \in RangeOf(stationLog)}

\* Not written yet, so the station cannot have it.
Unwritten == IF cpc = "write" THEN Queued \cup {ccur} ELSE Queued

\* A message in the queue or with the client has an open, empty reply channel.
QueueInv ==
  /\ Distinct(dataChannel)
  /\ Queued \cup WithClient \subseteq Handled
  /\ Queued \cap WithClient = {}
  /\ \A m \in Queued \cup WithClient : replyCh[m] = <<>> /\ m \notin replyClosed

StationInv ==
  /\ OnLink \cup Logged \subseteq Handled
  /\ Unwritten \cap (OnLink \cup Logged) = {}
  /\ RangeOf(toStation) \cap orphans = {}
  /\ OnLink \cap Logged = {}
  /\ AtMostOnce

Waits(p) == hpc[p] \in {"update", "await"}

\* A handler waits for an event that no other handler waits for.
WaitersInv ==
  /\ \A p \in Panels : Waits(p) =>
       /\ cur[p] \in Handled
       /\ cur[p] \in replyClosed => replyCh[cur[p]] # <<>>
  /\ \A p, q \in Panels : Waits(p) /\ Waits(q) /\ cur[p] = cur[q] => p = q

OnceInv == SafeInv /\ WaitingInv /\ QueueInv /\ StationInv /\ WaitersInv

-----------------------------------------------------------------------------
(* Messages that wait. *)

LEMMA WaitingTypes ==
  ASSUME TypeInv
  PROVE  \A p \in Panels : /\ buffer[p] \in Seq(Messages)
                          /\ wire[p] \in Seq(Messages)
                          /\ Waiting(p) \in Seq(Messages)
<1>1. \A p \in Panels : buffer[p] \in Seq(Messages) /\ wire[p] \in Seq(Messages)
  BY DEF TypeInv, TypeOK, ServerTypeOK
<1> QED
  BY <1>1, ConcatType DEF Waiting

\* Only what panel p has waiting may change.
Others(p) == \A q \in Panels \ {p} : Waiting(q)' = Waiting(q)

\* The connection is closed, and what waited in it is lost.
LEMMA WaitingLost ==
  ASSUME WaitingInv, NEW p \in Panels, Others(p), sent' = sent, Waiting(p)' = <<>>
  PROVE  WaitingInv' /\ Handled \subseteq Handled'
<1>1. Distinct(<<>>) /\ RangeOf(<<>>) = {}
  BY RangeEmpty, SMT DEF Distinct
<1>2. \A q \in Panels : Distinct(Waiting(q)') /\ RangeOf(Waiting(q)') \subseteq RangeOf(Waiting(q))
  BY <1>1, Zenon DEF WaitingInv, Others
<1>3. WaitingInv'
  BY <1>2, Zenon DEF WaitingInv
<1> QED
  BY <1>2, <1>3, Zenon DEF Handled

\* A frame is sent.
LEMMA WaitingGrows ==
  ASSUME WaitingInv, TypeInv, NEW p \in Panels, Others(p),
         NEW m \in Messages, m \notin sent,
         sent' = sent \cup {m}, Waiting(p)' = Append(Waiting(p), m)
  PROVE  WaitingInv' /\ Handled' = Handled
<1>1. /\ RangeOf(Waiting(p)') = RangeOf(Waiting(p)) \cup {m}
      /\ Distinct(Waiting(p)')
  <2>1. Waiting(p) \in Seq(Messages)
    BY WaitingTypes
  <2>2. m \notin RangeOf(Waiting(p)) /\ Distinct(Waiting(p))
    BY DEF WaitingInv
  <2> QED
    BY <2>1, <2>2, RangeAppend, DistinctAppend
<1>2. \A q \in Panels : m \notin RangeOf(Waiting(q))
  BY DEF WaitingInv
<1>3. \A q \in Panels : q # p => RangeOf(Waiting(q)') = RangeOf(Waiting(q))
  BY DEF Others
<1>4. WaitingInv'
  <2>1. \A q \in Panels : Distinct(Waiting(q)') /\ RangeOf(Waiting(q)') \subseteq sent'
    BY <1>1, Zenon DEF WaitingInv, Others
  <2>2. ASSUME NEW q \in Panels, NEW r \in Panels, q # r
        PROVE  RangeOf(Waiting(q)') \cap RangeOf(Waiting(r)') = {}
    <3>1. RangeOf(Waiting(q)) \cap RangeOf(Waiting(r)) = {}
      BY <2>2, Zenon DEF WaitingInv
    <3>2. CASE q = p
      BY <1>1, <1>2, <1>3, <2>2, <3>1, <3>2, Zenon
    <3>3. CASE r = p
      BY <1>1, <1>2, <1>3, <2>2, <3>1, <3>3, Zenon
    <3>4. CASE q # p /\ r # p
      BY <1>3, <3>1, <3>4, Zenon
    <3> QED
      BY <3>2, <3>3, <3>4
  <2> QED
    BY <2>1, <2>2, Zenon DEF WaitingInv
<1> QED
  BY <1>1, <1>2, <1>3, <1>4 DEF Handled

\* A handler takes a frame out of its buffer.
LEMMA WaitingTaken ==
  ASSUME WaitingInv, TypeInv, NEW p \in Panels, Others(p), sent' = sent,
         buffer[p] # <<>>, Waiting(p)' = Tail(Waiting(p))
  PROVE  /\ WaitingInv'
         /\ Head(buffer[p]) \notin Handled
         /\ Handled' = Handled \cup {Head(buffer[p])}
<1> DEFINE m == Head(buffer[p])
<1>1. /\ Waiting(p) \in Seq(Messages) /\ Waiting(p) # <<>>
      /\ m = Head(Waiting(p))
  BY WaitingTypes, ConcatTail DEF Waiting
<1>2. /\ Distinct(Waiting(p)')
      /\ m \notin RangeOf(Waiting(p)')
      /\ RangeOf(Waiting(p)) = {m} \cup RangeOf(Waiting(p)')
  <2>1. Distinct(Waiting(p))
    BY DEF WaitingInv
  <2> QED
    BY <1>1, <2>1, DistinctTail
<1>3. \A q \in Panels : q # p => /\ RangeOf(Waiting(q)') = RangeOf(Waiting(q))
                                /\ m \notin RangeOf(Waiting(q))
  BY <1>2 DEF Others, WaitingInv
<1>4. WaitingInv'
  <2>1. \A q \in Panels : Distinct(Waiting(q)') /\ RangeOf(Waiting(q)') \subseteq sent'
    BY <1>2, Zenon DEF WaitingInv, Others
  <2>2. ASSUME NEW q \in Panels, NEW r \in Panels, q # r
        PROVE  RangeOf(Waiting(q)') \cap RangeOf(Waiting(r)') = {}
    BY <1>2, <1>3, <2>2 DEF WaitingInv
  <2> QED
    BY <2>1, <2>2, Zenon DEF WaitingInv
<1>5. m \in sent
  BY <1>2 DEF WaitingInv
<1>6. \A n : (\A q \in Panels : n \notin RangeOf(Waiting(q)'))
               <=> n = m \/ \A q \in Panels : n \notin RangeOf(Waiting(q))
  BY <1>2, <1>3
<1> QED
  BY <1>2, <1>4, <1>5, <1>6 DEF Handled

\* Nothing that waits moves out of its place.
LEMMA WaitingStays ==
  ASSUME WaitingInv, sent' = sent,
         \A p \in Panels : Waiting(p)' = Waiting(p)
  PROVE  WaitingInv' /\ Handled' = Handled
BY Zenon DEF WaitingInv, Handled

\* Every step of a handler but EnqueueEvent keeps to what is handled already,
\* or loses it with the connection, or takes one frame.
LEMMA ClosingLoses ==
  ASSUME TypeInv, WaitingInv, NEW p \in Panels, CloseConn(p), sent' = sent
  PROVE  WaitingInv' /\ Handled \subseteq Handled'
<1>1. Waiting(p)' = <<>>
  <2>1. wire[p]' = <<>> /\ buffer[p]' = <<>>
    BY DEF CloseConn, TypeInv, TypeOK, ServerTypeOK
  <2> QED
    BY <2>1, ConcatEmpty DEF Waiting
<1>2. Others(p)
  <2>1. \A q \in Panels \ {p} : wire[q]' = wire[q] /\ buffer[q]' = buffer[q]
    BY DEF CloseConn, TypeInv, TypeOK, ServerTypeOK
  <2> QED
    BY <2>1, Zenon DEF Others, Waiting
<1> QED
  BY <1>1, <1>2, WaitingLost

LEMMA TakingHandles ==
  ASSUME TypeInv, WaitingInv, NEW p \in Panels, NEW S, TakesFrame(p, S),
         wire' = wire, sent' = sent
  PROVE  /\ WaitingInv'
         /\ Head(buffer[p]) \notin Handled
         /\ Handled' = Handled \cup {Head(buffer[p])}
<1>1. buffer[p] # <<>> /\ buffer[p]' = Tail(buffer[p]) /\ wire[p]' = wire[p]
  BY DEF TakesFrame, TypeInv, TypeOK, ServerTypeOK
<1>2. Waiting(p)' = Tail(Waiting(p))
  BY <1>1, WaitingTypes, ConcatTail DEF Waiting
<1>3. Others(p)
  <2>1. \A q \in Panels \ {p} : buffer[q]' = buffer[q]
    BY DEF TakesFrame, TypeInv, TypeOK, ServerTypeOK
  <2> QED
    BY <2>1, Zenon DEF Others, Waiting
<1> QED
  BY <1>1, <1>2, <1>3, WaitingTaken

LEMMA NothingMoves ==
  ASSUME WaitingInv, UNCHANGED <<wire, buffer, sent>>
  PROVE  WaitingInv' /\ Handled' = Handled
<1>1. \A p \in Panels : Waiting(p)' = Waiting(p)
  BY DEF Waiting
<1> QED
  BY <1>1, WaitingStays

\* Reading moves frames from the wire to the buffer.
LEMMA ReadingKeepsWaiting ==
  ASSUME TypeInv, NEW p \in Panels, ReadChunk(p)
  PROVE  \A q \in Panels : Waiting(q)' = Waiting(q)
<1>1. PICK k \in 1 .. Len(wire[p]) :
        /\ buffer' = [buffer EXCEPT ![p] = @ \o SubSeq(wire[p], 1, k)]
        /\ wire' = [wire EXCEPT ![p] = SubSeq(@, k + 1, Len(@))]
  BY DEF ReadChunk
<1>2. /\ buffer[p]' = buffer[p] \o SubSeq(wire[p], 1, k)
      /\ wire[p]' = SubSeq(wire[p], k + 1, Len(wire[p]))
      /\ \A q \in Panels : q # p => buffer[q]' = buffer[q] /\ wire[q]' = wire[q]
  BY <1>1 DEF TypeInv, TypeOK, ServerTypeOK
<1>3. Waiting(p)' = Waiting(p)
  BY <1>2, WaitingTypes, SplitConcat, ZenonT(40) DEF Waiting
<1>4. ASSUME NEW q \in Panels, q # p PROVE Waiting(q)' = Waiting(q)
  BY <1>2, <1>4, Zenon DEF Waiting
<1> QED
  BY <1>3, <1>4, Zenon

LEMMA ReadingMoves ==
  ASSUME TypeInv, WaitingInv, NEW p \in Panels, ReadChunk(p)
  PROVE  WaitingInv' /\ Handled' = Handled
BY ReadingKeepsWaiting, WaitingStays DEF ReadChunk

LEMMA SendingWaits ==
  ASSUME TypeInv, WaitingInv, NEW p \in Panels, NEW m \in Messages, SendFrame(p, m)
  PROVE  WaitingInv' /\ Handled' = Handled
<1>1. wire[p]' = Append(wire[p], m) /\ buffer' = buffer
  BY DEF SendFrame, TypeInv, TypeOK, ServerTypeOK
<1>2. Waiting(p)' = Append(Waiting(p), m)
  <2>1. Waiting(p)' = buffer[p] \o Append(wire[p], m)
    BY <1>1 DEF Waiting
  <2>2. buffer[p] \in Seq(Messages) /\ wire[p] \in Seq(Messages)
    BY WaitingTypes
  <2>3. \A s, t \in Seq(Messages) : s \o Append(t, m) = Append(s \o t, m)
    BY ConcatAppend
  <2> QED
    BY <2>1, <2>2, <2>3, Zenon DEF Waiting
<1>3. Others(p)
  <2>1. \A q \in Panels \ {p} : wire[q]' = wire[q]
    BY DEF SendFrame, TypeInv, TypeOK, ServerTypeOK
  <2> QED
    BY <1>1, <2>1, Zenon DEF Others, Waiting
<1>4. m \notin sent /\ sent' = sent \cup {m}
  BY DEF SendFrame
<1> QED
  BY <1>2, <1>3, <1>4, WaitingGrows

-----------------------------------------------------------------------------
(* Queue, station and waiting handlers, each under a change of its own. *)

LEMMA OnceInit == Init => OnceInv
<1> SUFFICES ASSUME Init PROVE OnceInv
  OBVIOUS
<1> USE DEF Init, SharedInit, ServerInit, ClientInit
<1>1. SafeInv
  BY SafeInvInit
<1>2. \A p \in Panels : Waiting(p) = <<>>
  BY ConcatEmpty DEF Waiting
<1>3. Distinct(<<>>) /\ RangeOf(<<>>) = {}
  BY RangeEmpty, SMT DEF Distinct
<1>4. WaitingInv
  BY <1>2, <1>3 DEF WaitingInv
<1>5. Queued = {} /\ WithClient = {} /\ OnLink = {} /\ Logged = {} /\ Unwritten = {}
  BY <1>3 DEF Queued, WithClient, OnLink, Logged, Unwritten
<1>6. QueueInv
  BY <1>3, <1>5 DEF QueueInv
<1>7. AtMostOnce
  BY SMT DEF AtMostOnce
<1>8. StationInv
  BY <1>5, <1>7 DEF StationInv
<1>9. WaitersInv
  BY SMT DEF WaitersInv, Waits
<1> QED
  BY <1>1, <1>4, <1>6, <1>8, <1>9 DEF OnceInv

\* Nobody starts to wait, and who goes on waiting has not missed the answer.
LEMMA WaitersStay ==
  ASSUME WaitersInv, Handled \subseteq Handled',
         \A q \in Panels : Waits(q)' =>
           /\ Waits(q)
           /\ cur[q]' = cur[q]
           /\ cur[q] \in replyClosed' => replyCh'[cur[q]] # <<>>
  PROVE  WaitersInv'
BY Zenon DEF WaitersInv

\* The queue and the client keep some of what they have.
LEMMA QueueStays ==
  ASSUME QueueInv, Handled \subseteq Handled',
         UNCHANGED <<dataChannel, replyCh, replyClosed>>,
         WithClient' \subseteq WithClient
  PROVE  QueueInv'
<1>1. Queued' = Queued
  BY DEF Queued
<1> QED
  BY <1>1, Zenon DEF QueueInv

\* What has been written stays between client and station.
LEMMA StationStays ==
  ASSUME StationInv, Handled \subseteq Handled', Unwritten' \subseteq Unwritten,
         OnLink' = OnLink, RangeOf(toStation)' \cap orphans' = {},
         stationLog' = stationLog
  PROVE  StationInv'
<1>1. Logged' = Logged /\ (AtMostOnce <=> AtMostOnce')
  BY DEF Logged, AtMostOnce
<1> QED
  BY <1>1, Zenon DEF StationInv

\* A message reaches the station.
LEMMA StationDecides ==
  ASSUME TypeInv, StationInv, Handled' = Handled, Unwritten' = Unwritten,
         NEW v \in Verdict, v.msg \in OnLink, OnLink' = OnLink \ {v.msg},
         RangeOf(toStation)' \cap orphans' = {},
         stationLog' = Append(stationLog, v)
  PROVE  StationInv'
<1>1. stationLog \in Seq(Verdict)
  BY DEF TypeInv, TypeOK, ClientTypeOK
<1>2. Logged' = Logged \cup {v.msg}
  <2>1. RangeOf(stationLog)' = RangeOf(stationLog) \cup {v}
    BY VerdictsStay
  <2> QED
    BY <2>1 DEF Logged
<1>3. v.msg \notin Logged
  BY DEF StationInv
<1>4. AtMostOnce'
  <2>1. \A i \in DOMAIN stationLog : stationLog[i].msg # v.msg
    BY <1>3 DEF Logged, RangeOf
  <2>2. /\ DOMAIN stationLog' = DOMAIN stationLog \cup {Len(stationLog) + 1}
        /\ \A i \in DOMAIN stationLog : stationLog'[i] = stationLog[i]
        /\ stationLog'[Len(stationLog) + 1] = v
    BY <1>1, SMT
  <2>3. AtMostOnce
    BY DEF StationInv
  <2>4. ASSUME NEW i \in DOMAIN stationLog', NEW j \in DOMAIN stationLog',
               stationLog'[i].msg = stationLog'[j].msg
        PROVE  i = j
    <3>1. CASE i \in DOMAIN stationLog /\ j \in DOMAIN stationLog
      BY <2>2, <2>3, <2>4, <3>1 DEF AtMostOnce
    <3>2. CASE i \notin DOMAIN stationLog \/ j \notin DOMAIN stationLog
      BY <2>1, <2>2, <2>4, <3>2
    <3> QED
      BY <3>1, <3>2
  <2> QED
    BY <2>4 DEF AtMostOnce
<1> QED
  BY <1>2, <1>4 DEF StationInv

-----------------------------------------------------------------------------
(* The steps of a handler. *)

\* A step that leaves queue, client and reply channels alone, and after which
\* the handler waits only if it did before, for the same event.
LEMMA QuietHandlerStep ==
  ASSUME OnceInv, NEW p \in Panels, Handler(p), UNCHANGED sharedVars,
         WaitingInv', Handled \subseteq Handled',
         \A q \in Panels \ {p} : hpc[q]' = hpc[q] /\ cur[q]' = cur[q],
         Waits(p)' => Waits(p) /\ cur[p]' = cur[p]
  PROVE  OnceInv'
<1>1. SafeInv'
  BY HandlerKeepsSafe DEF OnceInv
<1>2. UNCHANGED <<dataChannel, replyCh, replyClosed, cpc, ccur, toStation, orphans, stationLog>>
  BY DEF Handler, clientVars, link, sharedVars
<1>3. QueueInv'
  <2>1. WithClient' = WithClient
    BY <1>2 DEF WithClient
  <2> QED
    BY <1>2, <2>1, QueueStays DEF OnceInv
<1>4. StationInv'
  <2>1. /\ Unwritten' = Unwritten
        /\ OnLink' = OnLink
        /\ RangeOf(toStation)' \cap orphans' = RangeOf(toStation) \cap orphans
    BY <1>2 DEF Unwritten, Queued, OnLink
  <2> QED
    BY <1>2, <2>1, StationStays DEF OnceInv, StationInv
<1>5. WaitersInv'
  <2>1. \A q \in Panels : Waits(q)' => Waits(q) /\ cur[q]' = cur[q]
    <3>1. \A q \in Panels \ {p} : Waits(q)' <=> Waits(q)
      BY DEF Waits
    <3> QED
      BY <3>1, Zenon
  <2>2. \A q \in Panels : Waits(q) /\ cur[q] \in replyClosed' => replyCh'[cur[q]] # <<>>
    BY <1>2, Zenon DEF OnceInv, WaitersInv
  <2>3. WaitersInv
    BY DEF OnceInv
  <2> QED
    BY <2>1, <2>2, <2>3, WaitersStay, Zenon
<1> QED
  BY <1>1, <1>3, <1>4, <1>5 DEF OnceInv

\* The connection is closed on a step that changes no reply channel.
LEMMA ClosingKeepsOnce ==
  ASSUME OnceInv, NEW p \in Panels, Handler(p), CloseConn(p), sent' = sent,
         UNCHANGED sharedVars
  PROVE  OnceInv'
<1>1. TypeInv /\ WaitingInv
  BY DEF OnceInv, SafeInv
<1>2. WaitingInv' /\ Handled \subseteq Handled'
  BY <1>1, ClosingLoses
<1>3. hpc[p]' = "none" /\ \A q \in Panels \ {p} : hpc[q]' = hpc[q] /\ cur[q]' = cur[q]
  BY <1>1 DEF CloseConn, TypeInv, TypeOK, ServerTypeOK
<1>4. ~Waits(p)'
  BY <1>3 DEF Waits
<1> QED
  BY <1>2, <1>3, <1>4, QuietHandlerStep

\* A frame taken from the buffer and answered at once.
LEMMA AnsweringKeepsOnce ==
  ASSUME OnceInv, NEW p \in Panels, Handler(p), NEW S, TakesFrame(p, S),
         UNCHANGED <<hpc, cur, wire, sent, sharedVars>>
  PROVE  OnceInv'
<1>1. TypeInv /\ WaitingInv
  BY DEF OnceInv, SafeInv
<1>2. WaitingInv' /\ Handled' = Handled \cup {Head(buffer[p])}
  BY <1>1, TakingHandles
<1>3. Waits(p)' <=> Waits(p)
  BY DEF Waits
<1> QED
  BY <1>2, <1>3, QuietHandlerStep

\* A step to another control point, at which the handler does not wait.
LEMMA MovingKeepsOnce ==
  ASSUME OnceInv, NEW p \in Panels, Handler(p),
         NEW pc \in {"top", "read", "split"}, hpc' = [hpc EXCEPT ![p] = pc],
         \A q \in Panels \ {p} : cur[q]' = cur[q],
         WaitingInv', Handled' = Handled, UNCHANGED sharedVars
  PROVE  OnceInv'
<1>1. hpc[p]' = pc /\ \A q \in Panels \ {p} : hpc[q]' = hpc[q]
  BY DEF OnceInv, SafeInv, TypeInv, TypeOK, ServerTypeOK
<1>2. ~Waits(p)'
  BY <1>1 DEF Waits
<1> QED
  BY <1>1, <1>2, QuietHandlerStep

\* A new event enters the queue with an empty reply channel.
LEMMA EnqueueKeepsOnce ==
  ASSUME OnceInv, NEW p \in Panels, Handler(p), EnqueueEvent(p, Parked)
  PROVE  OnceInv'
<1> DEFINE m == Head(buffer[p])
<1>1. SafeInv'
  BY HandlerKeepsSafe DEF OnceInv
<1>2. TypeInv /\ WaitingInv /\ QueueInv /\ StationInv /\ WaitersInv
  BY DEF OnceInv, SafeInv
<1>3. /\ dataChannel' = Append(dataChannel, m)
      /\ replyCh' = [replyCh EXCEPT ![m] = <<>>]
      /\ replyClosed' = replyClosed \ {m}
      /\ cur' = [cur EXCEPT ![p] = m]
      /\ hpc' = [hpc EXCEPT ![p] = "update"]
      /\ m \in Events
      /\ UNCHANGED <<wire, sent, cpc, ccur, toStation, orphans, stationLog>>
  BY DEF EnqueueEvent, Enqueue, TakesFrame, Handler, clientVars, link
<1>4. WaitingInv' /\ m \notin Handled /\ Handled' = Handled \cup {m}
  BY <1>2, <1>3, TakingHandles DEF EnqueueEvent
<1>5. m \in Messages /\ dataChannel \in Seq(Messages) /\ replyCh \in [Messages -> Seq(BOOLEAN)]
  BY <1>2, <1>3, Kinds DEF TypeInv, TypeOK, SharedTypeOK
<1>6. /\ Queued' = Queued \cup {m}
      /\ m \notin Queued \cup WithClient
      /\ WithClient' = WithClient
  <2>1. RangeOf(dataChannel)' = RangeOf(dataChannel) \cup {m}
    BY <1>3, <1>5, RangeAppend
  <2>2. WithClient' = WithClient
    BY <1>3 DEF WithClient
  <2> QED
    BY <1>2, <1>4, <2>1, <2>2 DEF QueueInv, Queued
<1>7. QueueInv'
  <2>1. Distinct(dataChannel')
    BY <1>2, <1>3, <1>5, <1>6, DistinctAppend DEF QueueInv, Queued
  <2>2. \A n \in Queued' \cup WithClient' : replyCh'[n] = <<>> /\ n \notin replyClosed'
    <3>1. replyCh'[m] = <<>> /\ m \notin replyClosed'
      BY <1>3, <1>5
    <3>2. ASSUME NEW n \in Queued \cup WithClient
          PROVE  replyCh'[n] = <<>> /\ n \notin replyClosed'
      <4>1. replyCh'[n] = replyCh[n]
        BY <1>3, <1>5, <1>6
      <4> QED
        BY <1>2, <1>3, <4>1, Zenon DEF QueueInv
    <3> QED
      BY <1>6, <3>1, <3>2, Zenon
  <2> QED
    BY <1>2, <1>4, <1>6, <2>1, <2>2, Zenon DEF QueueInv
<1>8. StationInv'
  <2>1. /\ OnLink' = OnLink
        /\ Logged' = Logged
        /\ RangeOf(toStation)' \cap orphans' = RangeOf(toStation) \cap orphans
        /\ AtMostOnce' <=> AtMostOnce
    BY <1>3 DEF OnLink, Logged, AtMostOnce
  <2>2. Unwritten' = Unwritten \cup {m}
    BY <1>3, <1>6 DEF Unwritten
  <2>3. m \notin OnLink \cup Logged
    BY <1>2, <1>4 DEF StationInv
  <2> QED
    BY <1>2, <1>4, <2>1, <2>2, <2>3, Zenon DEF StationInv
<1>9. WaitersInv'
  <2>1. /\ hpc[p]' = "update" /\ cur[p]' = m
        /\ \A q \in Panels \ {p} : hpc[q]' = hpc[q] /\ cur[q]' = cur[q]
    BY <1>2, <1>3 DEF TypeInv, TypeOK, ServerTypeOK
  <2>2. \A q \in Panels \ {p} : Waits(q)' <=> Waits(q)
    BY <2>1 DEF Waits
  <2>3. \A q \in Panels \ {p} : Waits(q) => cur[q] # m
    BY <1>2, <1>4, Zenon DEF WaitersInv
  <2>4. ASSUME NEW q \in Panels, Waits(q)'
        PROVE  /\ cur[q]' \in Handled'
               /\ cur[q]' \in replyClosed' => replyCh'[cur[q]'] # <<>>
    <3>1. CASE q = p
      BY <1>3, <1>4, <2>1, <3>1
    <3>2. CASE q # p
      <4>1. Waits(q) /\ cur[q]' = cur[q] /\ cur[q] # m
        BY <2>1, <2>2, <2>3, <2>4, <3>2, Zenon
      <4>2. /\ cur[q] \in Handled
            /\ cur[q] \in replyClosed => replyCh[cur[q]] # <<>>
        BY <1>2, <4>1, Zenon DEF WaitersInv
      <4>3. replyCh'[cur[q]] = replyCh[cur[q]]
        <5>1. cur[q] \in Messages
          BY <1>2, <4>1, Kinds DEF TypeInv, CurInv, HandlerCurInv, Waits
        <5> QED
          BY <1>3, <1>5, <4>1, <5>1
      <4> QED
        BY <1>3, <1>4, <4>1, <4>2, <4>3
    <3> QED
      BY <3>1, <3>2
  <2>5. ASSUME NEW q \in Panels, NEW r \in Panels, Waits(q)', Waits(r)', cur[q]' = cur[r]'
        PROVE  q = r
    BY <1>2, <2>1, <2>2, <2>3, <2>5, Zenon DEF WaitersInv
  <2> QED
    BY <2>4, <2>5, Zenon DEF WaitersInv
<1> QED
  BY <1>1, <1>4, <1>7, <1>8, <1>9 DEF OnceInv

\* A handler receives the status of its event: the client is done with it.
LEMMA ReceiveKeepsOnce ==
  ASSUME OnceInv, NEW p \in Panels, Handler(p), ReceiveReply(p)
  PROVE  OnceInv'
<1> DEFINE m == cur[p]
<1>1. SafeInv'
  BY HandlerKeepsSafe DEF OnceInv
<1>2. TypeInv /\ WaitingInv /\ QueueInv /\ StationInv /\ WaitersInv
  BY DEF OnceInv, SafeInv
<1>3. /\ hpc[p] = "await"
      /\ replyCh[m] # <<>> \/ m \in replyClosed
      /\ CloseConn(p) \/ NextFrame(p, "ahead")
      /\ replyCh' = replyCh \/ replyCh' = [replyCh EXCEPT ![m] = Tail(@)]
      /\ UNCHANGED <<sent, dataChannel, replyClosed, cpc, ccur, toStation, orphans, stationLog>>
  BY Zenon DEF ReceiveReply, Handler, clientVars, link
<1>4. WaitingInv' /\ Handled \subseteq Handled'
  <2>1. CASE CloseConn(p)
    BY <1>2, <1>3, <2>1, ClosingLoses
  <2>2. CASE NextFrame(p, "ahead")
    <3>1. UNCHANGED <<wire, buffer, sent>>
      BY <1>3, <2>2 DEF NextFrame
    <3> QED
      BY <1>2, <3>1, NothingMoves
  <2> QED
    BY <1>3, <2>1, <2>2
<1>5. /\ ~Waits(p)'
      /\ \A q \in Panels \ {p} : hpc[q]' = hpc[q] /\ cur[q]' = cur[q]
  <2>1. hpc[p]' \in {"none", "split"}
        /\ \A q \in Panels \ {p} : hpc[q]' = hpc[q] /\ cur[q]' = cur[q]
    BY <1>2, <1>3 DEF CloseConn, NextFrame, TypeInv, TypeOK, ServerTypeOK
  <2> QED
    BY <2>1 DEF Waits
<1>6. /\ \A n \in Messages : n # m => replyCh'[n] = replyCh[n]
      /\ Handled \subseteq Messages
  BY <1>2, <1>3 DEF TypeInv, TypeOK, SharedTypeOK, ServerTypeOK, Handled
<1>7. QueueInv'
  <2>1. m \notin Queued \cup WithClient
    BY <1>2, <1>3, Zenon DEF QueueInv
  <2>2. Queued' = Queued /\ WithClient' = WithClient
    BY <1>3 DEF Queued, WithClient
  <2>3. \A n \in Queued \cup WithClient : replyCh'[n] = replyCh[n]
    BY <1>2, <1>6, <2>1, Zenon DEF QueueInv
  <2> QED
    BY <1>2, <1>3, <1>4, <2>2, <2>3, Zenon DEF QueueInv
<1>8. StationInv'
  <2>1. /\ Unwritten' = Unwritten
        /\ OnLink' = OnLink
        /\ RangeOf(toStation)' \cap orphans' = RangeOf(toStation) \cap orphans
    BY <1>3 DEF Unwritten, Queued, OnLink
  <2> QED
    BY <1>2, <1>3, <1>4, <2>1, StationStays DEF StationInv
<1>9. WaitersInv'
  <2>1. \A q \in Panels \ {p} : Waits(q)' <=> Waits(q)
    BY <1>5 DEF Waits
  <2>2. Waits(p)
    BY <1>3 DEF Waits
  <2>3. ASSUME NEW q \in Panels, Waits(q)'
        PROVE  /\ Waits(q)
               /\ cur[q]' = cur[q]
               /\ cur[q] \in replyClosed' => replyCh'[cur[q]] # <<>>
    <3>1. q # p /\ Waits(q) /\ cur[q]' = cur[q]
      BY <1>5, <2>1, <2>3, Zenon
    <3>2. cur[q] # m
      BY <1>2, <2>2, <3>1, Zenon DEF WaitersInv
    <3>3. replyCh'[cur[q]] = replyCh[cur[q]]
      BY <1>2, <1>6, <3>1, <3>2, Zenon DEF WaitersInv
    <3> QED
      BY <1>2, <1>3, <3>1, <3>3, Zenon DEF WaitersInv
  <2> QED
    BY <1>2, <1>4, <2>3, WaitersStay, Zenon
<1> QED
  BY <1>1, <1>4, <1>7, <1>8, <1>9 DEF OnceInv

LEMMA HandlerKeepsOnce ==
  ASSUME OnceInv, NEW p \in Panels, Handler(p)
  PROVE  OnceInv'
<1>1. TypeInv /\ WaitingInv
  BY DEF OnceInv, SafeInv
<1>2. cur \in [Panels -> Events \cup {NoMsg}]
  BY <1>1 DEF TypeInv, TypeOK, ServerTypeOK
<1>3. UNCHANGED cur => \A q \in Panels \ {p} : cur[q]' = cur[q]
  OBVIOUS
<1>4. CASE LoopTop(p)
  <2>1. UNCHANGED <<sent, sharedVars>>
    BY <1>4 DEF LoopTop
  <2>2. CASE CloseConn(p)
    BY <2>1, <2>2, ClosingKeepsOnce
  <2>3. CASE hpc' = [hpc EXCEPT ![p] = "read"] /\ UNCHANGED <<wire, buffer, cur>>
    <3>1. WaitingInv' /\ Handled' = Handled
      BY <1>1, <2>1, <2>3, NothingMoves
    <3> QED
      BY <1>3, <2>1, <2>3, <3>1, MovingKeepsOnce
  <2> QED
    BY <1>4, <2>2, <2>3 DEF LoopTop
<1>5. CASE ReadChunk(p)
  <2>1. WaitingInv' /\ Handled' = Handled
    BY <1>1, <1>5, ReadingMoves
  <2>2. hpc' = [hpc EXCEPT ![p] = "split"] /\ UNCHANGED <<cur, sharedVars>>
    BY <1>5 DEF ReadChunk
  <2> QED
    BY <1>3, <2>1, <2>2, MovingKeepsOnce
<1>6. CASE ReadTimeout(p)
  <2>1. /\ hpc' = [hpc EXCEPT ![p] = "top"]
        /\ UNCHANGED <<wire, buffer, sent, cur, sharedVars>>
    BY <1>6 DEF ReadTimeout
  <2>2. WaitingInv' /\ Handled' = Handled
    BY <1>1, <2>1, NothingMoves
  <2> QED
    BY <1>3, <2>1, <2>2, MovingKeepsOnce
<1>7. CASE ReadEnds(p)
  BY <1>7, ClosingKeepsOnce DEF ReadEnds
<1>8. CASE SplitDone(p)
  <2>1. /\ hpc' = [hpc EXCEPT ![p] = "top"]
        /\ UNCHANGED <<wire, buffer, sent, cur, sharedVars>>
    BY <1>8 DEF SplitDone
  <2>2. WaitingInv' /\ Handled' = Handled
    BY <1>1, <2>1, NothingMoves
  <2> QED
    BY <1>3, <2>1, <2>2, MovingKeepsOnce
<1>9. CASE AnswerHeartbeat(p)
  BY <1>9, AnsweringKeepsOnce DEF AnswerHeartbeat
<1>10. CASE RefuseFrame(p, Parked)
  BY <1>10, AnsweringKeepsOnce DEF RefuseFrame
<1>11. CASE EnqueueEvent(p, Parked)
  BY <1>11, EnqueueKeepsOnce
<1>12. CASE UpdateDevice(p)
  <2>1. UNCHANGED <<sent, sharedVars>>
    BY <1>12 DEF UpdateDevice
  <2>2. CASE CloseConn(p)
    BY <2>1, <2>2, ClosingKeepsOnce
  <2>3. CASE hpc' = [hpc EXCEPT ![p] = "await"] /\ UNCHANGED <<wire, buffer, cur>>
    <3>1. WaitingInv' /\ Handled' = Handled
      BY <1>1, <2>1, <2>3, NothingMoves
    <3>2. hpc[p] = "update" /\ \A q \in Panels \ {p} : hpc[q]' = hpc[q]
      BY <1>1, <1>12, <2>3 DEF UpdateDevice, TypeInv, TypeOK, ServerTypeOK
    <3>3. Waits(p)
      BY <3>2 DEF Waits
    <3> QED
      BY <1>3, <2>1, <2>3, <3>1, <3>2, <3>3, QuietHandlerStep
  <2> QED
    BY <1>12, <2>2, <2>3 DEF UpdateDevice
<1>13. CASE ReceiveReply(p)
  BY <1>13, ReceiveKeepsOnce
<1>14. CASE ReplyTimeout(p)
  <2>1. /\ hpc' = [hpc EXCEPT ![p] = "split"]
        /\ cur' = [cur EXCEPT ![p] = NoMsg]
        /\ UNCHANGED <<wire, buffer, sent, sharedVars>>
    BY <1>14 DEF ReplyTimeout, NextFrame
  <2>2. WaitingInv' /\ Handled' = Handled
    BY <1>1, <2>1, NothingMoves
  <2>3. \A q \in Panels \ {p} : cur[q]' = cur[q]
    BY <1>2, <2>1
  <2> QED
    BY <2>1, <2>2, <2>3, MovingKeepsOnce
<1> QED
  BY <1>4, <1>5, <1>6, <1>7, <1>8, <1>9, <1>10, <1>11, <1>12, <1>13, <1>14
  DEF Handler, HandlerStep

-----------------------------------------------------------------------------
(* The steps of the client. *)

\* Steps that leave reply channels alone; the client holds what it held, or
\* nothing, and what is between it and the station changes its place at most.
LEMMA QuietClientStep ==
  ASSUME OnceInv, Client, UNCHANGED <<dataChannel, replyCh, replyClosed, stationLog>>,
         WithClient' \subseteq WithClient, Unwritten' \subseteq Unwritten,
         OnLink' = OnLink, RangeOf(toStation)' \cap orphans' = {}
  PROVE  OnceInv'
<1>1. SafeInv'
  BY ClientKeepsSafe DEF OnceInv
<1>2. UNCHANGED <<wire, buffer, sent, hpc, cur>>
  BY DEF Client, serverVars
<1>3. WaitingInv' /\ Handled' = Handled
  BY <1>2, NothingMoves DEF OnceInv
<1>4. QueueInv'
  BY <1>3, QueueStays DEF OnceInv
<1>5. StationInv'
  BY <1>3, StationStays DEF OnceInv
<1>6. WaitersInv'
  <2>1. \A q \in Panels : Waits(q)' => Waits(q) /\ cur[q]' = cur[q]
    BY <1>2, Zenon DEF Waits
  <2>2. \A q \in Panels : Waits(q) /\ cur[q] \in replyClosed' => replyCh'[cur[q]] # <<>>
    BY Zenon DEF OnceInv, WaitersInv
  <2>3. WaitersInv
    BY DEF OnceInv
  <2> QED
    BY <1>3, <2>1, <2>2, <2>3, WaitersStay, Zenon
<1> QED
  BY <1>1, <1>3, <1>4, <1>5, <1>6 DEF OnceInv

\* What was on the link may still arrive, and is not written again.
LEMMA EndConnectionKeepsOnce ==
  ASSUME OnceInv, Client, EndConnection,
         UNCHANGED <<dataChannel, replyCh, replyClosed, stationLog>>
  PROVE  OnceInv'
<1>1. /\ cpc' = "top"
      /\ toStation' = <<>>
      /\ orphans' = orphans \cup RangeOf(toStation)
  BY DEF EndConnection
<1>2. RangeOf(toStation)' = {}
  BY <1>1, RangeEmpty
<1>3. WithClient' = {} /\ Unwritten' = Queued
  BY <1>1 DEF WithClient, Unwritten, Queued
<1>4. OnLink' = OnLink
  BY <1>1, <1>2 DEF OnLink
<1>5. Unwritten' \subseteq Unwritten
  BY <1>3 DEF Unwritten
<1> QED
  BY <1>2, <1>3, <1>4, <1>5, QuietClientStep

LEMMA TakeKeepsOnce ==
  ASSUME OnceInv, Client, TakeMessage
  PROVE  OnceInv'
<1>1. SafeInv'
  BY ClientKeepsSafe DEF OnceInv
<1>2. TypeInv /\ WaitingInv /\ QueueInv /\ StationInv /\ WaitersInv
  BY DEF OnceInv, SafeInv
<1>3. /\ cpc = "select" /\ cpc' = "write"
      /\ dataChannel # <<>>
      /\ ccur' = Head(dataChannel)
      /\ dataChannel' = Tail(dataChannel)
      /\ UNCHANGED <<toStation, orphans, stationLog, replyCh, replyClosed,
                     wire, buffer, sent, hpc, cur>>
  BY DEF TakeMessage, Client, serverVars, link
<1>4. WaitingInv' /\ Handled' = Handled
  BY <1>2, <1>3, NothingMoves
<1>5. /\ Distinct(dataChannel')
      /\ Queued = {ccur'} \cup Queued'
      /\ ccur' \notin Queued'
  <2>1. dataChannel \in Seq(Messages) /\ Distinct(dataChannel)
    BY <1>2 DEF TypeInv, TypeOK, SharedTypeOK, QueueInv
  <2>2. /\ Distinct(Tail(dataChannel))
        /\ Head(dataChannel) \notin RangeOf(Tail(dataChannel))
        /\ RangeOf(dataChannel) = {Head(dataChannel)} \cup RangeOf(Tail(dataChannel))
    BY <1>3, <2>1, DistinctTail
  <2>3. Queued' = RangeOf(Tail(dataChannel))
    BY <1>3 DEF Queued
  <2> QED
    BY <1>3, <2>2, <2>3 DEF Queued
<1>6. WithClient = {} /\ WithClient' = {ccur'} /\ Unwritten = Queued /\ Unwritten' = Queued
  BY <1>3, <1>5 DEF WithClient, Unwritten
<1>7. QueueInv'
  <2>1. Queued' \cup WithClient' = Queued \cup WithClient /\ Queued' \cap WithClient' = {}
    BY <1>5, <1>6
  <2> QED
    BY <1>2, <1>3, <1>4, <1>5, <2>1, Zenon DEF QueueInv
<1>8. StationInv'
  <2>1. OnLink' = OnLink /\ RangeOf(toStation)' \cap orphans' = RangeOf(toStation) \cap orphans
    BY <1>3 DEF OnLink
  <2> QED
    BY <1>2, <1>3, <1>4, <1>6, <2>1, StationStays DEF StationInv
<1>9. WaitersInv'
  <2>1. \A q \in Panels : Waits(q)' => Waits(q) /\ cur[q]' = cur[q]
    BY <1>3, Zenon DEF Waits
  <2>2. \A q \in Panels : Waits(q) /\ cur[q] \in replyClosed' => replyCh'[cur[q]] # <<>>
    BY <1>2, <1>3, Zenon DEF WaitersInv
  <2> QED
    BY <1>2, <1>4, <2>1, <2>2, WaitersStay, Zenon
<1> QED
  BY <1>1, <1>4, <1>7, <1>8, <1>9 DEF OnceInv

\* The link is empty when the client writes on it (LinkInv).
LEMMA WriteKeepsOnce ==
  ASSUME OnceInv, Client, WritePayload
  PROVE  OnceInv'
<1>1. SafeInv'
  BY ClientKeepsSafe DEF OnceInv
<1>2. TypeInv /\ WaitingInv /\ QueueInv /\ StationInv /\ WaitersInv /\ LinkInv
  BY DEF OnceInv, SafeInv
<1>3. /\ cpc = "write" /\ cpc' = "read"
      /\ toStation' = toStation \/ toStation' = Append(toStation, ccur)
      /\ UNCHANGED <<ccur, dataChannel, orphans, stationLog, replyCh, replyClosed,
                     wire, buffer, sent, hpc, cur>>
  BY DEF WritePayload, Client, serverVars, sharedVars
<1>4. WaitingInv' /\ Handled' = Handled
  BY <1>2, <1>3, NothingMoves
<1>5. RangeOf(toStation) = {} /\ RangeOf(toStation)' \subseteq {ccur}
  <2>1. ccur \in Messages /\ toStation \in Seq(Messages)
    BY <1>2, <1>3 DEF TypeInv, CurInv, ClientCurInv, TypeOK, ClientTypeOK
  <2>2. RangeOf(toStation) = {}
    BY <1>2, <1>3, RangeEmpty DEF LinkInv
  <2>3. RangeOf(Append(toStation, ccur)) = RangeOf(toStation) \cup {ccur}
    BY <2>1, RangeAppend
  <2> QED
    BY <1>3, <2>2, <2>3
<1>6. /\ Queued' = Queued
      /\ WithClient = {ccur} /\ WithClient' = {ccur}
      /\ Unwritten = Queued \cup {ccur} /\ Unwritten' = Queued
      /\ Logged' = Logged
  BY <1>3 DEF Queued, WithClient, Unwritten, Logged
<1>7. QueueInv'
  BY <1>2, <1>3, <1>4, <1>6, QueueStays
<1>8. StationInv'
  <2>1. OnLink' \subseteq OnLink \cup {ccur} /\ RangeOf(toStation)' \cap orphans' = {}
    <3>1. ccur \notin orphans
      BY <1>2, <1>6 DEF StationInv, OnLink
    <3> QED
      BY <1>3, <1>5, <3>1 DEF OnLink
  <2>2. ccur \in Handled /\ ccur \notin Queued /\ ccur \notin Logged
    BY <1>2, <1>6 DEF QueueInv, StationInv
  <2>3. AtMostOnce' <=> AtMostOnce
    BY <1>3 DEF AtMostOnce
  <2>4. OnLink' \cup Logged' \subseteq Handled'
    BY <1>2, <1>4, <1>6, <2>1, <2>2 DEF StationInv
  <2>5. Unwritten' \cap (OnLink' \cup Logged') = {} /\ OnLink' \cap Logged' = {}
    BY <1>2, <1>6, <2>1, <2>2 DEF StationInv
  <2> QED
    BY <1>2, <2>1, <2>3, <2>4, <2>5 DEF StationInv
<1>9. WaitersInv'
  <2>1. \A q \in Panels : Waits(q)' => Waits(q) /\ cur[q]' = cur[q]
    BY <1>3, Zenon DEF Waits
  <2>2. \A q \in Panels : Waits(q) /\ cur[q] \in replyClosed' => replyCh'[cur[q]] # <<>>
    BY <1>2, <1>3, Zenon DEF WaitersInv
  <2> QED
    BY <1>2, <1>4, <2>1, <2>2, WaitersStay, Zenon
<1> QED
  BY <1>1, <1>4, <1>7, <1>8, <1>9 DEF OnceInv

\* The reply channel is open and empty, so the status goes in and it is closed;
\* a handler that waits for it finds it there.
LEMMA ReplyKeepsOnce ==
  ASSUME OnceInv, Client, SendReply
  PROVE  OnceInv'
<1>1. SafeInv'
  BY ClientKeepsSafe DEF OnceInv
<1>2. TypeInv /\ WaitingInv /\ QueueInv /\ StationInv /\ WaitersInv
  BY DEF OnceInv, SafeInv
<1>3. /\ cpc = "reply" /\ cpc' = "select"
      /\ \/ /\ replyCh' = [replyCh EXCEPT ![ccur] = Append(@, cstatus)]
            /\ replyClosed' = replyClosed \cup {ccur}
         \/ UNCHANGED <<replyCh, replyClosed>>
      /\ UNCHANGED <<dataChannel, toStation, orphans, stationLog,
                     wire, buffer, sent, hpc, cur>>
  BY Zenon DEF SendReply, Client, serverVars, link
<1>4. WaitingInv' /\ Handled' = Handled
  BY <1>2, <1>3, NothingMoves
<1>5. ccur \in Messages /\ cstatus \in BOOLEAN /\ replyCh \in [Messages -> Seq(BOOLEAN)]
  BY <1>2, <1>3 DEF TypeInv, CurInv, ClientCurInv, TypeOK, ClientTypeOK, SharedTypeOK
<1>6. /\ Queued' = Queued
      /\ WithClient = {ccur} /\ WithClient' = {}
      /\ Unwritten = Queued /\ Unwritten' = Queued
  BY <1>3 DEF Queued, WithClient, Unwritten
<1>7. \A m \in Messages : m # ccur =>
        replyCh'[m] = replyCh[m] /\ (m \in replyClosed' <=> m \in replyClosed)
  BY <1>3, <1>5
<1>8. QueueInv'
  <2>1. \A m \in Queued : m \in Messages /\ m # ccur
    BY <1>2, <1>6 DEF QueueInv, Handled, TypeInv, TypeOK, ServerTypeOK
  <2>2. \A m \in Queued : replyCh'[m] = <<>> /\ m \notin replyClosed'
    BY <1>2, <1>7, <2>1, Zenon DEF QueueInv
  <2>3. Distinct(dataChannel')
    BY <1>2, <1>3 DEF QueueInv
  <2>4. Queued \subseteq Handled
    BY <1>2 DEF QueueInv
  <2> QED
    BY <1>4, <1>6, <2>2, <2>3, <2>4, Zenon DEF QueueInv
<1>9. StationInv'
  <2>1. OnLink' = OnLink /\ RangeOf(toStation)' \cap orphans' = RangeOf(toStation) \cap orphans
    BY <1>3 DEF OnLink
  <2> QED
    BY <1>2, <1>3, <1>4, <1>6, <2>1, StationStays DEF StationInv
<1>10. WaitersInv'
  <2>1. \A q \in Panels : Waits(q)' => Waits(q) /\ cur[q]' = cur[q]
    BY <1>3, Zenon DEF Waits
  <2>2. ASSUME NEW q \in Panels, Waits(q), cur[q] \in replyClosed'
        PROVE  replyCh'[cur[q]] # <<>>
    <3>1. cur[q] \in Messages
      BY <1>2, <2>2, Kinds DEF TypeInv, CurInv, HandlerCurInv, Waits
    <3>2. CASE cur[q] # ccur
      BY <1>2, <1>7, <2>2, <3>1, <3>2, Zenon DEF WaitersInv
    <3>3. CASE cur[q] = ccur /\ UNCHANGED <<replyCh, replyClosed>>
      BY <1>2, <2>2, <3>3, Zenon DEF WaitersInv
    <3>4. CASE cur[q] = ccur /\ replyCh' = [replyCh EXCEPT ![ccur] = Append(@, cstatus)]
      <4>1. replyCh'[ccur] = Append(replyCh[ccur], cstatus) /\ replyCh[ccur] \in Seq(BOOLEAN)
        BY <1>5, <3>4
      <4>2. Append(replyCh[ccur], cstatus) # <<>>
        BY <1>5, <4>1, SMT
      <4> QED
        BY <3>4, <4>1, <4>2
    <3> QED
      BY <1>3, <3>2, <3>3, <3>4
  <2> QED
    BY <1>2, <1>4, <2>1, <2>2, WaitersStay, Zenon
<1> QED
  BY <1>1, <1>4, <1>8, <1>9, <1>10 DEF OnceInv

LEMMA ClientKeepsOnce ==
  ASSUME OnceInv, Client
  PROVE  OnceInv'
<1>1. RangeOf(toStation) \cap orphans = {}
  BY DEF OnceInv, StationInv
<1>2. CASE RunTop \/ DialSucceeds \/ DialFails \/ BackoffElapsed \/ BackoffCancelled
  <2>1. /\ cpc \in {"top", "dialing", "backoff"}
        /\ cpc' \in {"stopped", "dialing", "select", "backoff", "top"}
        /\ UNCHANGED <<dataChannel, replyCh, replyClosed, stationLog, toStation, orphans>>
    BY <1>2 DEF RunTop, DialSucceeds, DialFails, BackoffElapsed, BackoffCancelled,
       sharedVars, link
  <2>2. WithClient' = {} /\ Unwritten' = Queued /\ OnLink' = OnLink
        /\ RangeOf(toStation)' \cap orphans' = {}
    BY <1>1, <2>1 DEF WithClient, Unwritten, Queued, OnLink
  <2>3. Unwritten' \subseteq Unwritten
    BY <2>2 DEF Unwritten
  <2> QED
    BY <2>1, <2>2, <2>3, QuietClientStep
<1>3. CASE ReadReply
  <2>1. /\ cpc = "read" /\ cpc' = "reply"
        /\ UNCHANGED <<ccur, dataChannel, replyCh, replyClosed, stationLog, toStation, orphans>>
    BY <1>3 DEF ReadReply, sharedVars
  <2>2. WithClient' = WithClient /\ Unwritten' = Unwritten /\ OnLink' = OnLink
        /\ RangeOf(toStation)' \cap orphans' = {}
    BY <1>1, <2>1 DEF WithClient, Unwritten, Queued, OnLink
  <2> QED
    BY <2>1, <2>2, QuietClientStep
<1>4. CASE ShutdownConnection \/ WriteFails \/ ReadFails
  BY <1>4, EndConnectionKeepsOnce
  DEF ShutdownConnection, WriteFails, ReadFails, sharedVars
<1> QED
  BY <1>2, <1>3, <1>4, TakeKeepsOnce, WriteKeepsOnce, ReplyKeepsOnce
  DEF Client, ClientStep

-----------------------------------------------------------------------------
(* Panels, station, network, and the end of the application. *)

\* Steps that leave queue, client and reply channels alone, and after which no
\* handler waits that did not wait before.
LEMMA QuietRestStep ==
  ASSUME OnceInv, SafeInv', WaitingInv', Handled \subseteq Handled',
         \A q \in Panels : Waits(q)' => Waits(q),
         UNCHANGED <<cur, dataChannel, replyCh, replyClosed, clientVars>>
  PROVE  OnceInv'
<1>1. UNCHANGED <<cpc, ccur, toStation, orphans, stationLog>>
  BY DEF clientVars, link
<1>2. QueueInv'
  <2>1. WithClient' = WithClient
    BY <1>1 DEF WithClient
  <2> QED
    BY <2>1, QueueStays DEF OnceInv
<1>3. StationInv'
  <2>1. /\ Unwritten' = Unwritten
        /\ OnLink' = OnLink
        /\ RangeOf(toStation)' \cap orphans' = RangeOf(toStation) \cap orphans
    BY <1>1 DEF Unwritten, Queued, OnLink
  <2> QED
    BY <1>1, <2>1, StationStays DEF OnceInv, StationInv
<1>4. WaitersInv'
  <2>1. \A q \in Panels : Waits(q)' => Waits(q) /\ cur[q]' = cur[q]
    BY Zenon DEF Waits
  <2>2. \A q \in Panels : Waits(q) /\ cur[q] \in replyClosed' => replyCh'[cur[q]] # <<>>
    BY Zenon DEF OnceInv, WaitersInv
  <2>3. WaitersInv
    BY DEF OnceInv
  <2> QED
    BY <2>1, <2>2, <2>3, WaitersStay, Zenon
<1> QED
  BY <1>2, <1>3, <1>4 DEF OnceInv

LEMMA PanelKeepsOnce ==
  ASSUME OnceInv, NEW p \in Panels, PanelStep(p), UNCHANGED clientVars
  PROVE  OnceInv'
<1>1. SafeInv'
  <2>1. Environment
    BY DEF Environment
  <2> QED
    BY <2>1, EnvironmentKeepsSafe DEF OnceInv
<1>2. TypeInv /\ WaitingInv
  BY DEF OnceInv, SafeInv
<1>3. UNCHANGED <<cur, dataChannel, replyCh, replyClosed>>
  BY DEF PanelStep, Accept, HangUp, SendFrame, DeadlinePasses, sharedVars
<1>4. \A q \in Panels : Waits(q)' => Waits(q)
  <2>1. CASE Accept(p)
    <3>1. hpc[p]' = "top" /\ \A q \in Panels : q # p => hpc[q]' = hpc[q]
      BY <1>2, <2>1 DEF Accept, TypeInv, TypeOK, ServerTypeOK
    <3> QED
      BY <3>1 DEF Waits
  <2>2. CASE UNCHANGED hpc
    BY <2>2 DEF Waits
  <2> QED
    BY <2>1, <2>2 DEF PanelStep, HangUp, SendFrame, DeadlinePasses
<1>5. WaitingInv' /\ Handled' = Handled
  <2>1. ASSUME NEW m \in Messages, SendFrame(p, m)
        PROVE  WaitingInv' /\ Handled' = Handled
    BY <1>2, <2>1, SendingWaits
  <2>2. CASE UNCHANGED <<wire, buffer, sent>>
    BY <1>2, <2>2, NothingMoves
  <2> QED
    BY <2>1, <2>2 DEF PanelStep, Accept, HangUp, DeadlinePasses
<1> QED
  BY <1>1, <1>3, <1>4, <1>5, QuietRestStep

\* The station decides on what was on its way and is there no longer.
LEMMA StationKeepsOnce ==
  ASSUME OnceInv, StationStep, UNCHANGED serverVars
  PROVE  OnceInv'
<1>1. SafeInv'
  <2>1. Environment
    BY DEF Environment
  <2> QED
    BY <2>1, EnvironmentKeepsSafe DEF OnceInv
<1>2. TypeInv /\ WaitingInv /\ QueueInv /\ StationInv /\ WaitersInv /\ LinkInv
  BY DEF OnceInv, SafeInv
<1>3. UNCHANGED <<wire, buffer, sent, hpc, cur, dataChannel, replyCh, replyClosed, cpc, ccur>>
  BY Zenon DEF StationStep, StationAnswers, StationGetsLate, LinkBreaks, sharedVars,
     serverVars
<1>4. WaitingInv' /\ Handled' = Handled
  BY <1>2, <1>3, NothingMoves
<1>5. WithClient' = WithClient /\ Unwritten' = Unwritten
  BY <1>3 DEF WithClient, Unwritten, Queued
<1>6. QueueInv'
  BY <1>2, <1>3, <1>4, <1>5, QueueStays
<1>7. WaitersInv'
  <2>1. \A q \in Panels : Waits(q)' => Waits(q) /\ cur[q]' = cur[q]
    BY <1>3, Zenon DEF Waits
  <2>2. \A q \in Panels : Waits(q) /\ cur[q] \in replyClosed' => replyCh'[cur[q]] # <<>>
    BY <1>2, <1>3, Zenon DEF WaitersInv
  <2> QED
    BY <1>2, <1>4, <2>1, <2>2, WaitersStay, Zenon
<1>8. RangeOf(toStation) \cap orphans = {} /\ toStation \in Seq(Messages)
  BY <1>2 DEF StationInv, TypeInv, TypeOK, ClientTypeOK
<1>9. ASSUME NEW ack \in BOOLEAN, StationAnswers(ack)
      PROVE  StationInv'
  <2> DEFINE v == [msg |-> Head(toStation), ack |-> ack]
  <2>1. /\ toStation # <<>>
        /\ stationLog' = Append(stationLog, v)
        /\ toStation' = Tail(toStation)
        /\ orphans' = orphans
    BY <1>9 DEF StationAnswers
  <2>2. Distinct(toStation)
    <3>1. Len(toStation) <= 1
      <4>1. Len(toStation) \in Nat /\ Len(fromStation) \in Nat
        BY <1>2 DEF TypeInv, TypeOK, ClientTypeOK
      <4>2. Len(toStation) + Len(fromStation) <= 1
        BY <1>2 DEF LinkInv
      <4> QED
        BY <4>1, <4>2
    <3> QED
      BY <1>8, <3>1, SMT DEF Distinct
  <2>3. /\ Head(toStation) \notin RangeOf(Tail(toStation))
        /\ RangeOf(toStation) = {Head(toStation)} \cup RangeOf(Tail(toStation))
        /\ Head(toStation) \in Messages
    BY <1>8, <2>1, <2>2, DistinctTail, RangeTail
  <2>4. v \in Verdict /\ v.msg = Head(toStation)
    BY <2>3 DEF Verdict
  <2>5. RangeOf(toStation)' = RangeOf(Tail(toStation))
    BY <2>1 DEF RangeOf
  <2>6. /\ v.msg \in OnLink
        /\ OnLink' = OnLink \ {v.msg}
        /\ RangeOf(toStation)' \cap orphans' = {}
    BY <1>8, <2>1, <2>3, <2>4, <2>5, Zenon DEF OnLink
  <2> HIDE DEF v
  <2> QED
    BY <1>2, <1>4, <1>5, <2>1, <2>4, <2>6, StationDecides
<1>10. ASSUME NEW m \in orphans, NEW ack \in BOOLEAN, StationGetsLate(m, ack)
       PROVE  StationInv'
  <2> DEFINE v == [msg |-> m, ack |-> ack]
  <2>1. /\ stationLog' = Append(stationLog, v)
        /\ toStation' = toStation
        /\ orphans' = orphans \ {m}
    BY <1>10 DEF StationGetsLate, link
  <2>2. v \in Verdict /\ v.msg = m
    BY <1>2 DEF Verdict, TypeInv, TypeOK, ClientTypeOK
  <2>3. RangeOf(toStation)' = RangeOf(toStation)
    BY <2>1 DEF RangeOf
  <2>4. /\ v.msg \in OnLink
        /\ OnLink' = OnLink \ {v.msg}
        /\ RangeOf(toStation)' \cap orphans' = {}
    BY <1>8, <2>1, <2>2, <2>3, Zenon DEF OnLink
  <2> HIDE DEF v
  <2> QED
    BY <1>2, <1>4, <1>5, <2>1, <2>2, <2>4, StationDecides
<1>11. ASSUME LinkBreaks PROVE StationInv'
  <2>1. /\ toStation' = <<>>
        /\ orphans' = orphans \cup RangeOf(toStation)
        /\ stationLog' = stationLog
    BY <1>11 DEF LinkBreaks
  <2>2. RangeOf(toStation)' = {}
    BY <2>1, RangeEmpty
  <2>3. OnLink' = OnLink
    BY <2>1, <2>2 DEF OnLink
  <2> QED
    BY <1>2, <1>4, <1>5, <2>1, <2>2, <2>3, StationStays
<1>12. StationInv'
  BY <1>9, <1>10, <1>11 DEF StationStep
<1> QED
  BY <1>1, <1>4, <1>6, <1>7, <1>12 DEF OnceInv

LEMMA NextKeepsOnce == OnceInv /\ [Next]_vars => OnceInv'
<1> SUFFICES ASSUME OnceInv, [Next]_vars PROVE OnceInv'
  OBVIOUS
<1>1. CASE \E p \in Panels : Handler(p)
  BY <1>1, HandlerKeepsOnce
<1>2. CASE Client
  BY <1>2, ClientKeepsOnce
<1>3. CASE Environment
  BY <1>3, PanelKeepsOnce, StationKeepsOnce DEF Environment
<1>4. CASE Shutdown \/ UNCHANGED vars
  <2>1. SafeInv'
    BY <1>4, RestKeepsSafe DEF OnceInv
  <2>2. UNCHANGED <<hpc, cur, wire, buffer, sent, dataChannel, replyCh, replyClosed, clientVars>>
    BY <1>4 DEF Shutdown, Cancel, CloseChannels, CloseListener, vars, serverVars, sharedVars
  <2>3. WaitingInv' /\ Handled' = Handled
    BY <2>2, NothingMoves DEF OnceInv
  <2>4. \A q \in Panels : Waits(q)' => Waits(q)
    BY <2>2 DEF Waits
  <2> QED
    BY <2>1, <2>2, <2>3, <2>4, QuietRestStep, Zenon
<1> QED
  BY <1>1, <1>2, <1>3, <1>4 DEF Next

\* The station sees a frame once at most, over any sequence of timeouts, broken
\* connections and redials: handleConnection (client.go:179) has popped a
\* message before processMessage writes it, and nobody puts it back.
THEOREM DeliveredOnce == Spec => []AtMostOnce
<1>1. OnceInv => AtMostOnce
  BY DEF OnceInv, StationInv
<1> QED
  BY <1>1, OnceInit, NextKeepsOnce, PTL DEF Spec

\* The client's send of a status (client.go:229-234) finds room and an open
\* channel, whether the handler still waits or not, and a handler that waits
\* never finds its channel closed and empty (server.go:527).
THEOREM RepliesFindRoom == Spec => []ReplyNeverBlocks
<1>1. OnceInv => ReplyNeverBlocks
  <2> SUFFICES ASSUME OnceInv PROVE ReplyNeverBlocks
    OBVIOUS
  <2>1. QueueInv /\ WaitersInv
    BY DEF OnceInv
  <2>2. cpc = "reply" => CanReply(ccur)
    <3>1. Len(<<>>) = 0
      OBVIOUS
    <3> QED
      BY <2>1, <3>1 DEF QueueInv, WithClient, CanReply, ReplyCapacity
  <2>3. \A p \in Panels :
          hpc[p] = "await" /\ cur[p] \in replyClosed => replyCh[cur[p]] # <<>>
    BY <2>1 DEF WaitersInv, Waits
  <2> QED
    BY <2>2, <2>3 DEF ReplyNeverBlocks
<1> QED
  BY <1>1, OnceInit, NextKeepsOnce, PTL DEF Spec
=============================================================================
