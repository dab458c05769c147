-------------------------- MODULE DeviceFeedProofs --------------------------
(***************************************************************************)
(* Theorems about DeviceFeed, for all sets of handlers and devices and all *)
(* sizes of buffers, histories and ring.                                   *)
(***************************************************************************)
EXTENDS DeviceFeed, SequenceTheorems, CollectProofs

-----------------------------------------------------------------------------
(* Sequences. *)

LEMMA EmptyType == ASSUME NEW S PROVE <<>> \in Seq(S)
BY SMT

LEMMA AppendType ==
  ASSUME NEW S, NEW s \in Seq(S), NEW x \in S
  PROVE  /\ Append(s, x) \in Seq(S)
         /\ Len(Append(s, x)) = Len(s) + 1
         /\ Append(s, x)[Len(s) + 1] = x
         /\ \A i \in 1 .. Len(s) : Append(s, x)[i] = s[i]
         /\ Len(s) \in Nat
BY SMT

LEMMA TailType ==
  ASSUME NEW S, NEW s \in Seq(S), s # <<>>
  PROVE  /\ Tail(s) \in Seq(S)
         /\ Head(s) \in S
         /\ Len(Tail(s)) = Len(s) - 1
         /\ Len(s) \in Nat
BY SMT

\* Taking the head of t and appending it to s keeps s \o t.
LEMMA MoveHead ==
  ASSUME NEW S, NEW s \in Seq(S), NEW t \in Seq(S), t # <<>>
  PROVE  Append(s, Head(t)) \o Tail(t) = s \o t
BY SMT

LEMMA ConcatAppend ==
  ASSUME NEW S, NEW s \in Seq(S), NEW t \in Seq(S), NEW x \in S
  PROVE  /\ s \o t \in Seq(S)
         /\ s \o Append(t, x) = Append(s \o t, x)
BY SMT

\* KeepLast keeps a stretch of the sequence.
LEMMA KeepLastType ==
  ASSUME NEW S, NEW s \in Seq(S), NEW n \in Nat \ {0}
  PROVE  /\ KeepLast(s, n) \in Seq(S)
         /\ \E k \in Nat : /\ Len(s) = Len(KeepLast(s, n)) + k
                           /\ \A i \in 1 .. Len(KeepLast(s, n)) :
                                KeepLast(s, n)[i] = s[i + k]
<1>1. CASE Len(s) > n
  <2>1. KeepLast(s, n) = SubSeq(s, Len(s) - n + 1, Len(s))
    BY <1>1 DEF KeepLast
  <2> DEFINE t == SubSeq(s, Len(s) - n + 1, Len(s))
  <2>2. /\ t \in Seq(S) /\ Len(t) = n
        /\ \A i \in 1 .. n : t[i] = s[i + (Len(s) - n)]
    BY <1>1, SMT
  <2>3. Len(s) - n \in Nat /\ Len(s) = n + (Len(s) - n)
    BY <1>1, SMT
  <2> QED
    BY <2>1, <2>2, <2>3
<1>2. CASE ~(Len(s) > n)
  <2>1. KeepLast(s, n) = s
    BY <1>2 DEF KeepLast
  <2>2. Len(s) = Len(s) + 0 /\ \A i \in 1 .. Len(s) : s[i] = s[i + 0]
    BY SMT
  <2> QED
    BY <2>1, <2>2
<1> QED
  BY <1>1, <1>2

LEMMA ElemsAppend ==
  ASSUME NEW S, NEW s \in Seq(S), NEW x \in S
  PROVE  Elems(Append(s, x)) = Elems(s) \cup {x}
BY AppendType, SMT DEF Elems

LEMMA ConcatElems ==
  ASSUME NEW S, NEW s \in Seq(S), NEW t \in Seq(S), NEW x \in S
  PROVE  Elems(s \o Append(t, x)) = Elems(s \o t) \cup {x}
<1>1. s \o t \in Seq(S) /\ s \o Append(t, x) = Append(s \o t, x)
  BY ConcatAppend
<1>2. \A w \in Seq(S) : Elems(Append(w, x)) = Elems(w) \cup {x}
  BY ElemsAppend
<1> QED
  BY <1>1, <1>2, Zenon

-----------------------------------------------------------------------------
(* Type correctness. *)

LEMMA CallFields ==
  ASSUME CallsOK, NEW u \in 1 .. Len(calls)
  PROVE  calls[u].dev \in Devices /\ calls[u].by \in Handlers
<1>1. calls \in Seq(Call)
  BY DEF CallsOK
<1>2. calls[u] \in Call
  BY <1>1, SMT
<1> QED
  BY <1>2, SMT DEF Call

\* The local variables of a handler follow its control point.
LocalInv ==
  \A h \in Handlers :
    /\ pc[h] # "idle" => cur[h] \in 1 .. Len(calls) /\ calls[cur[h]].by = h
    /\ pc[h] = "idle" => cur[h] = 0
    /\ pc[h] \in {"idle", "store"} => ch[h] = 0
    /\ pc[h] = "detail" => ch[h] # 0

TypeInv == TypeOK /\ LocalInv

LEMMA TypeInit == Init => TypeInv
<1> SUFFICES ASSUME Init PROVE TypeInv
  OBVIOUS
<1> USE FeedAssumption
<1>1. LocalInv
  <2> SUFFICES ASSUME NEW h \in Handlers
               PROVE  /\ pc[h] # "idle" => /\ cur[h] \in 1 .. Len(calls)
                                           /\ calls[cur[h]].by = h
                      /\ pc[h] = "idle" => cur[h] = 0
                      /\ pc[h] \in {"idle", "store"} => ch[h] = 0
                      /\ pc[h] = "detail" => ch[h] # 0
    BY DEF LocalInv
  <2>1. pc[h] = "idle" /\ cur[h] = 0 /\ ch[h] = 0
    BY Zenon DEF Init
  <2> QED
    BY <2>1
<1>2. \A S : <<>> \in Seq(S)
  BY EmptyType
<1>3. Len(<<>>) = 0 /\ 0 \in Rings
  BY SMT DEF Rings
<1>4. CallsOK
  BY <1>2, <1>3, SMT DEF Init, CallsOK
<1>5. StoreOK
  BY <1>2, SMT DEF Init, StoreOK
<1>6. RingOK
  BY <1>2, <1>3, SMT DEF Init, RingOK
<1>7. UiOK
  <2>1. zeroShown = FALSE
    BY Zenon DEF Init
  <2>2. Len(deviceUpdates) <= UiBuffer /\ Len(eventUpdates) <= UiBuffer
    BY <1>3, SMT DEF Init
  <2>3. /\ deviceUpdates \in Seq(Updates) /\ eventUpdates \in Seq(Updates)
        /\ shownDevices \in Seq(Updates) /\ shownEvents \in Seq(Updates)
        /\ closed \in SUBSET {"device", "event"}
    BY <1>2, SMT DEF Init
  <2> QED
    BY <2>1, <2>2, <2>3, Zenon DEF UiOK
<1>8. DetailOK
  BY <1>2, <1>3, SMT DEF Init, DetailOK
<1> QED
  BY <1>1, <1>4, <1>5, <1>6, <1>7, <1>8 DEF TypeInv, TypeOK

\* What an action leaves alone stays well typed.
LEMMA Frames ==
  ASSUME TypeOK
  PROVE  /\ UNCHANGED storeVars => StoreOK'
         /\ UNCHANGED ringVars => RingOK'
         /\ UNCHANGED <<uiVars, closed>> => UiOK'
         /\ UNCHANGED detailVars => DetailOK'
<1>1. UNCHANGED storeVars => StoreOK'
  BY SMT DEF TypeOK, StoreOK, storeVars
<1>2. UNCHANGED ringVars => RingOK'
  BY SMT DEF TypeOK, RingOK, ringVars
<1>3. UNCHANGED <<uiVars, closed>> => UiOK'
  BY Zenon DEF TypeOK, UiOK, uiVars
<1>4. UNCHANGED detailVars => DetailOK'
  BY SMT DEF TypeOK, DetailOK, detailVars
<1> QED
  BY <1>1, <1>2, <1>3, <1>4

\* A step of handler h that makes no new call.
HandlerAt(h, p, u, c) ==
  /\ pc' = [pc EXCEPT ![h] = p]
  /\ cur' = [cur EXCEPT ![h] = u]
  /\ ch' = [ch EXCEPT ![h] = c]

LEMMA LocalStep ==
  ASSUME TypeInv, NEW h \in Handlers, calls' = calls,
         NEW p \in {"idle", "ring", "device", "event", "detail"},
         NEW c \in Channels \cup {0},
         NEW u, u = (IF p = "idle" THEN 0 ELSE cur[h]),
         HandlerAt(h, p, u, c),
         pc[h] # "idle",
         p = "idle" => c = 0,
         p = "detail" => c # 0,
         panicked' \subseteq panicked \cup {cur[h]}
  PROVE  CallsOK' /\ LocalInv'
<1>1. u \in Updates \cup {0} /\ cur[h] \in Updates
  <2>1. cur[h] \in 1 .. Len(calls) /\ calls \in Seq(Call) /\ Len(calls) <= MaxUpdates
    BY DEF TypeInv, TypeOK, CallsOK, LocalInv
  <2>2. cur[h] \in Updates
    BY <2>1, FeedAssumption, SMT DEF Updates
  <2> QED
    BY <2>2
<1>2. CallsOK'
  <2>1. pc' \in [Handlers -> {"idle", "store", "ring", "device", "event", "detail"}]
    BY SMT DEF HandlerAt, TypeInv, TypeOK, CallsOK
  <2>2. cur' \in [Handlers -> Updates \cup {0}]
    BY <1>1, SMT DEF HandlerAt, TypeInv, TypeOK, CallsOK
  <2>3. ch' \in [Handlers -> Channels \cup {0}]
    BY SMT DEF HandlerAt, TypeInv, TypeOK, CallsOK
  <2>4. panicked' \in SUBSET Updates
    BY <1>1 DEF TypeInv, TypeOK, CallsOK
  <2> QED
    BY <2>1, <2>2, <2>3, <2>4 DEF TypeInv, TypeOK, CallsOK
<1>3. LocalInv'
  <2> SUFFICES ASSUME NEW g \in Handlers
               PROVE  /\ pc'[g] # "idle" => /\ cur'[g] \in 1 .. Len(calls')
                                            /\ calls'[cur'[g]].by = g
                      /\ pc'[g] = "idle" => cur'[g] = 0
                      /\ pc'[g] \in {"idle", "store"} => ch'[g] = 0
                      /\ pc'[g] = "detail" => ch'[g] # 0
    BY Zenon DEF LocalInv
  <2>1. CASE g = h
    <3>1. pc'[h] = p /\ cur'[h] = u /\ ch'[h] = c
      BY Zenon DEF HandlerAt, TypeInv, TypeOK, CallsOK
    <3>2. cur[h] \in 1 .. Len(calls) /\ calls[cur[h]].by = h
      BY DEF TypeInv, LocalInv
    <3> QED
      BY <2>1, <3>1, <3>2
  <2>2. CASE g # h
    <3>1. pc'[g] = pc[g] /\ cur'[g] = cur[g] /\ ch'[g] = ch[g]
      BY <2>2, Zenon DEF HandlerAt, TypeInv, TypeOK, CallsOK
    <3> QED
      BY <3>1 DEF TypeInv, LocalInv
  <2> QED
    BY <2>1, <2>2
<1> QED
  BY <1>2, <1>3

LEMMA TypeBegin ==
  ASSUME TypeInv, NEW h \in Handlers, NEW d \in Devices, NEW code \in Codes,
         Begin(h, d, code)
  PROVE  TypeInv'
<1> USE FeedAssumption
<1> DEFINE r == [by |-> h, dev |-> d, code |-> code]
<1>1. r \in Call
  BY DEF Call
<1>2. /\ calls' \in Seq(Call) /\ Len(calls') = Len(calls) + 1
      /\ calls'[Len(calls) + 1] = r
      /\ \A i \in 1 .. Len(calls) : calls'[i] = calls[i]
      /\ Len(calls) \in Nat
  BY <1>1, AppendType DEF Begin, TypeInv, TypeOK, CallsOK
<1>3. Len(calls) < MaxUpdates
  BY DEF Begin
<1>4. CallsOK'
  <2>1. Len(calls') <= MaxUpdates /\ Len(calls) + 1 \in Updates
    BY <1>2, <1>3, SMT DEF Updates
  <2>2. /\ pc' \in [Handlers -> {"idle", "store", "ring", "device", "event", "detail"}]
        /\ cur' \in [Handlers -> Updates \cup {0}]
    BY <2>1, SMT DEF Begin, TypeInv, TypeOK, CallsOK
  <2>3. UNCHANGED <<ch, panicked>>
    BY DEF Begin
  <2> QED
    BY <1>2, <2>1, <2>2, <2>3 DEF TypeInv, TypeOK, CallsOK
<1>5. LocalInv'
  <2> SUFFICES ASSUME NEW g \in Handlers
               PROVE  /\ pc'[g] # "idle" => /\ cur'[g] \in 1 .. Len(calls')
                                            /\ calls'[cur'[g]].by = g
                      /\ pc'[g] = "idle" => cur'[g] = 0
                      /\ pc'[g] \in {"idle", "store"} => ch'[g] = 0
                      /\ pc'[g] = "detail" => ch'[g] # 0
    BY Zenon DEF LocalInv
  <2>1. CASE g = h
    <3>1. pc'[h] = "store" /\ cur'[h] = Len(calls) + 1 /\ ch' = ch /\ pc[h] = "idle"
      BY Zenon DEF Begin, TypeInv, TypeOK, CallsOK
    <3>2. ch[h] = 0
      BY <3>1 DEF TypeInv, LocalInv
    <3>3. Len(calls) + 1 \in 1 .. Len(calls') /\ r.by = h
      BY <1>2, SMT
    <3> QED
      BY <2>1, <3>1, <3>2, <3>3, <1>2
  <2>2. CASE g # h
    <3>1. pc'[g] = pc[g] /\ cur'[g] = cur[g] /\ ch'[g] = ch[g]
      BY <2>2, Zenon DEF Begin, TypeInv, TypeOK, CallsOK
    <3>2. \A u \in 1 .. Len(calls) : u \in 1 .. Len(calls') /\ calls'[u] = calls[u]
      BY <1>2, SMT
    <3> QED
      BY <3>1, <3>2 DEF TypeInv, LocalInv
  <2> QED
    BY <2>1, <2>2
<1> QED
  BY <1>4, <1>5, Frames DEF Begin, TypeInv, TypeOK

LEMMA TypeStore ==
  ASSUME TypeInv, NEW h \in Handlers, Store(h)
  PROVE  TypeInv'
<1> DEFINE u == cur[h]
           d == calls[u].dev
<1>1. pc[h] = "store" /\ u \in 1 .. Len(calls) /\ u \in Updates /\ d \in Devices
  <2>1. pc[h] = "store" /\ u \in 1 .. Len(calls)
    BY DEF Store, TypeInv, LocalInv
  <2>2. u \in Updates
    BY <2>1, FeedAssumption, SMT DEF TypeInv, TypeOK, CallsOK, Updates
  <2> QED
    BY <2>1, <2>2, CallFields DEF TypeInv, TypeOK
<1>2. chanOf[d] \in Channels \cup {0}
  BY <1>1 DEF TypeInv, TypeOK, DetailOK
<1>3. HandlerAt(h, "ring", u, chanOf[d])
  <2>1. cur' = [cur EXCEPT ![h] = u]
    BY SMT DEF Store, TypeInv, TypeOK, CallsOK
  <2> QED
    BY <2>1 DEF HandlerAt, Store
<1>4. CallsOK' /\ LocalInv'
  <2>1. calls' = calls /\ panicked' \subseteq panicked \cup {u} /\ pc[h] # "idle"
    BY <1>1 DEF Store
  <2> QED
    BY <1>2, <1>3, <2>1, LocalStep
<1>5. StoreOK'
  <2>1. Append(events[d], u) \in Seq(Updates) /\ Append(storeLog[d], u) \in Seq(Updates)
    BY <1>1, AppendType DEF TypeInv, TypeOK, StoreOK
  <2>2. KeepLast(Append(events[d], u), MaxDeviceEvents) \in Seq(Updates)
    BY <2>1, FeedAssumption, KeepLastType
  <2>3. /\ events' = [events EXCEPT ![d] = KeepLast(Append(events[d], u), MaxDeviceEvents)]
        /\ last' = [last EXCEPT ![d] = u]
        /\ storeLog' = [storeLog EXCEPT ![d] = Append(storeLog[d], u)]
    BY Zenon DEF Store
  <2> QED
    BY <1>1, <2>1, <2>2, <2>3, SMT DEF TypeInv, TypeOK, StoreOK
<1>6. DetailOK'
  <2>1. owed' \in [Channels -> SUBSET Updates]
    BY <1>1, SMT DEF Store, TypeInv, TypeOK, DetailOK
  <2> QED
    BY <2>1 DEF Store, TypeInv, TypeOK, DetailOK
<1> QED
  BY <1>4, <1>5, <1>6, Frames DEF Store, TypeInv, TypeOK

LEMMA TypeInsertRing ==
  ASSUME TypeInv, NEW h \in Handlers, InsertRing(h)
  PROVE  TypeInv'
<1>1. pc[h] = "ring" /\ cur[h] \in 1 .. Len(calls) /\ cur[h] \in Updates
  <2>1. pc[h] = "ring" /\ cur[h] \in 1 .. Len(calls)
    BY DEF InsertRing, TypeInv, LocalInv
  <2> QED
    BY <2>1, FeedAssumption, SMT DEF TypeInv, TypeOK, CallsOK, Updates
<1>2. HandlerAt(h, "device", cur[h], ch[h])
  <2>1. cur' = [cur EXCEPT ![h] = cur[h]] /\ ch' = [ch EXCEPT ![h] = ch[h]]
    BY SMT DEF InsertRing, TypeInv, TypeOK, CallsOK
  <2> QED
    BY <2>1 DEF HandlerAt, InsertRing
<1>3. CallsOK' /\ LocalInv'
  <2>1. /\ calls' = calls /\ panicked' \subseteq panicked \cup {cur[h]}
        /\ pc[h] # "idle" /\ ch[h] \in Channels \cup {0}
    BY <1>1 DEF InsertRing, TypeInv, TypeOK, CallsOK
  <2> QED
    BY <1>2, <2>1, LocalStep
<1>4. RingOK'
  <2>1. top' \in Rings
    BY FeedAssumption, SMT DEF InsertRing, TypeInv, TypeOK, RingOK, Rings
  <2>2. ringLog' \in Seq(Updates)
    BY <1>1, AppendType DEF InsertRing, TypeInv, TypeOK, RingOK
  <2>3. ring' \in [Rings -> Updates \cup {0}]
    BY <1>1, <2>1, SMT DEF InsertRing, TypeInv, TypeOK, RingOK
  <2> QED
    BY <2>1, <2>2, <2>3 DEF RingOK
<1> QED
  BY <1>3, <1>4, Frames DEF InsertRing, TypeInv, TypeOK

\* Leaving a call, normally or by a panic.
LEMMA LeaveStep ==
  ASSUME TypeInv, NEW h \in Handlers, Leave(h), pc[h] # "idle", calls' = calls,
         panicked' \subseteq panicked \cup {cur[h]}
  PROVE  CallsOK' /\ LocalInv'
<1>1. HandlerAt(h, "idle", 0, 0)
  BY DEF Leave, HandlerAt
<1> QED
  BY <1>1, LocalStep

\* A step to p that changes no other local variable.
LEMMA PcStep ==
  ASSUME TypeInv, NEW h \in Handlers, pc[h] # "idle",
         NEW p \in {"device", "event", "detail"}, p = "detail" => ch[h] # 0,
         pc' = [pc EXCEPT ![h] = p], UNCHANGED <<calls, cur, ch, panicked>>
  PROVE  CallsOK' /\ LocalInv'
<1>1. HandlerAt(h, p, cur[h], ch[h])
  <2>1. cur' = [cur EXCEPT ![h] = cur[h]] /\ ch' = [ch EXCEPT ![h] = ch[h]]
    BY SMT DEF TypeInv, TypeOK, CallsOK
  <2> QED
    BY <2>1 DEF HandlerAt
<1>2. ch[h] \in Channels \cup {0}
  BY DEF TypeInv, TypeOK, CallsOK
<1> QED
  BY <1>1, <1>2, LocalStep

\* The call a handler is in.
LEMMA CurType ==
  ASSUME TypeInv, NEW h \in Handlers, pc[h] # "idle"
  PROVE  cur[h] \in 1 .. Len(calls) /\ cur[h] \in Updates
<1>1. cur[h] \in 1 .. Len(calls)
  BY DEF TypeInv, LocalInv
<1> QED
  BY <1>1, FeedAssumption, SMT DEF TypeInv, TypeOK, CallsOK, Updates

LEMMA TypeSendDevice ==
  ASSUME TypeInv, NEW h \in Handlers, SendDevice(h)
  PROVE  TypeInv'
<1>1. pc[h] # "idle" /\ cur[h] \in Updates
  BY CurType DEF SendDevice
<1>2. CASE "device" \in closed
  <2>1. Leave(h) /\ panicked' = panicked \cup {cur[h]} /\ UNCHANGED <<uiVars, closed>>
    BY <1>2, Zenon DEF SendDevice, Panic, uiVars
  <2>2. CallsOK' /\ LocalInv'
    BY <1>1, <2>1, LeaveStep DEF SendDevice
  <2> QED
    BY <2>1, <2>2, Frames DEF SendDevice, TypeInv, TypeOK
<1>3. CASE "device" \notin closed
  <2>1. CallsOK' /\ LocalInv'
    BY <1>1, <1>3, PcStep DEF SendDevice
  <2>2. deviceUpdates' \in Seq(Updates) /\ Len(deviceUpdates') <= UiBuffer
    <3>1. deviceUpdates' = IF Len(deviceUpdates) < UiBuffer
                           THEN Append(deviceUpdates, cur[h]) ELSE deviceUpdates
      BY <1>3, Zenon DEF SendDevice
    <3>2. deviceUpdates \in Seq(Updates) /\ Len(deviceUpdates) <= UiBuffer
      BY DEF TypeInv, TypeOK, UiOK
    <3> QED
      BY <1>1, <3>1, <3>2, FeedAssumption, AppendType, SMT
  <2>3. UiOK'
    BY <2>2, Zenon DEF SendDevice, TypeInv, TypeOK, UiOK
  <2> QED
    BY <2>1, <2>3, Frames DEF SendDevice, TypeInv, TypeOK
<1> QED
  BY <1>2, <1>3

LEMMA TypeSendEvent ==
  ASSUME TypeInv, NEW h \in Handlers, SendEvent(h)
  PROVE  TypeInv'
<1>1. pc[h] # "idle" /\ cur[h] \in Updates
  BY CurType DEF SendEvent
<1>2. CASE "event" \in closed
  <2>1. Leave(h) /\ panicked' = panicked \cup {cur[h]} /\ UNCHANGED <<uiVars, closed>>
    BY <1>2, Zenon DEF SendEvent, Panic, uiVars
  <2>2. CallsOK' /\ LocalInv'
    BY <1>1, <2>1, LeaveStep DEF SendEvent
  <2> QED
    BY <2>1, <2>2, Frames DEF SendEvent, TypeInv, TypeOK
<1>3. CASE "event" \notin closed
  <2>1. CallsOK' /\ LocalInv'
    <3>1. CASE ch[h] = 0
      <4>1. Leave(h) /\ panicked' = panicked /\ calls' = calls
        BY <1>3, <3>1, Zenon DEF SendEvent
      <4> QED
        BY <1>1, <4>1, LeaveStep
    <3>2. CASE ch[h] # 0
      <4>1. pc' = [pc EXCEPT ![h] = "detail"] /\ UNCHANGED <<calls, cur, ch, panicked>>
        BY <1>3, <3>2, Zenon DEF SendEvent
      <4> QED
        BY <1>1, <3>2, <4>1, PcStep
    <3> QED
      BY <3>1, <3>2
  <2>2. eventUpdates' \in Seq(Updates) /\ Len(eventUpdates') <= UiBuffer
    <3>1. eventUpdates' = IF Len(eventUpdates) < UiBuffer
                          THEN Append(eventUpdates, cur[h]) ELSE eventUpdates
      BY <1>3, Zenon DEF SendEvent
    <3>2. eventUpdates \in Seq(Updates) /\ Len(eventUpdates) <= UiBuffer
      BY DEF TypeInv, TypeOK, UiOK
    <3> QED
      BY <1>1, <3>1, <3>2, FeedAssumption, AppendType, SMT
  <2>3. UiOK'
    BY <2>2, Zenon DEF SendEvent, TypeInv, TypeOK, UiOK
  <2> QED
    BY <2>1, <2>3, Frames DEF SendEvent, TypeInv, TypeOK
<1> QED
  BY <1>2, <1>3

LEMMA TypeSendDetail ==
  ASSUME TypeInv, NEW h \in Handlers, SendDetail(h)
  PROVE  TypeInv'
<1>1. pc[h] # "idle" /\ cur[h] \in Updates
  BY CurType DEF SendDetail
<1>2. ch[h] \in Channels
  BY DEF SendDetail, TypeInv, TypeOK, CallsOK, LocalInv
<1>3. CallsOK' /\ LocalInv'
  <2>1. Leave(h) /\ panicked' \subseteq panicked \cup {cur[h]} /\ calls' = calls
    BY Zenon DEF SendDetail, Panic
  <2> QED
    BY <1>1, <2>1, LeaveStep
<1>4. DetailOK'
  <2>1. CASE detail' = detail
    BY <2>1, SMT DEF SendDetail, TypeInv, TypeOK, DetailOK
  <2>2. CASE detail' # detail
    <3>1. /\ Len(detail[ch[h]]) < DetailBuffer
          /\ detail' = [detail EXCEPT ![ch[h]] = Append(detail[ch[h]], cur[h])]
      BY <2>2, Zenon DEF SendDetail
    <3>2. detail[ch[h]] \in Seq(Updates)
      BY <1>2 DEF TypeInv, TypeOK, DetailOK
    <3>3. /\ Append(detail[ch[h]], cur[h]) \in Seq(Updates)
          /\ Len(Append(detail[ch[h]], cur[h])) <= DetailBuffer
      BY <1>1, <3>1, <3>2, AppendType, FeedAssumption, SMT
    <3>4. detail' \in [Channels -> Seq(Updates)]
      BY <1>2, <3>1, <3>3, SMT DEF TypeInv, TypeOK, DetailOK
    <3>5. \A c \in Channels : Len(detail'[c]) <= DetailBuffer
      BY <1>2, <3>1, <3>3, SMT DEF TypeInv, TypeOK, DetailOK
    <3> QED
      BY <3>4, <3>5 DEF SendDetail, TypeInv, TypeOK, DetailOK
  <2> QED
    BY <2>1, <2>2
<1> QED
  BY <1>3, <1>4, Frames DEF SendDetail, TypeInv, TypeOK

\* The steps of the other parties leave calls and handlers alone.
LEMMA OtherStep ==
  ASSUME TypeInv, UNCHANGED <<calls, pc, cur, ch, panicked>>
  PROVE  CallsOK' /\ LocalInv'
<1>1. CallsOK'
  BY DEF TypeInv, TypeOK, CallsOK
<1>2. LocalInv'
  BY Zenon DEF TypeInv, LocalInv
<1> QED
  BY <1>1, <1>2

LEMMA TypeClose ==
  ASSUME TypeInv, CloseDeviceUpdates \/ CloseEventUpdates
  PROVE  TypeInv'
<1>1. CallsOK' /\ LocalInv'
  BY OtherStep DEF CloseDeviceUpdates, CloseEventUpdates
<1>2. closed' \in SUBSET {"device", "event"}
  BY DEF CloseDeviceUpdates, CloseEventUpdates
<1>3. UNCHANGED <<uiVars, storeVars, ringVars, detailVars>>
  BY Zenon DEF CloseDeviceUpdates, CloseEventUpdates
<1>4. UiOK'
  BY <1>2, <1>3, Zenon DEF TypeInv, TypeOK, UiOK, uiVars
<1> QED
  BY <1>1, <1>3, <1>4, Frames DEF TypeInv, TypeOK

LEMMA TypeBroadcastDevice ==
  ASSUME TypeInv, BroadcastDevice
  PROVE  TypeInv'
<1>1. CallsOK' /\ LocalInv'
  BY OtherStep DEF BroadcastDevice
<1>2. UiOK'
  <2>1. CASE /\ deviceUpdates # <<>>
             /\ shownDevices' = Append(shownDevices, Head(deviceUpdates))
             /\ deviceUpdates' = Tail(deviceUpdates)
             /\ UNCHANGED zeroShown
    <3>1. /\ deviceUpdates \in Seq(Updates) /\ Len(deviceUpdates) <= UiBuffer
          /\ shownDevices \in Seq(Updates)
      BY DEF TypeInv, TypeOK, UiOK
    <3>2. deviceUpdates' \in Seq(Updates) /\ Len(deviceUpdates') <= UiBuffer
      BY <2>1, <3>1, TailType, FeedAssumption, SMT
    <3>3. shownDevices' \in Seq(Updates)
      BY <2>1, <3>1, TailType, AppendType
    <3> QED
      BY <2>1, <3>2, <3>3, Zenon DEF BroadcastDevice, TypeInv, TypeOK, UiOK
  <2>2. CASE zeroShown' = TRUE /\ UNCHANGED <<deviceUpdates, shownDevices>>
    BY <2>2, Zenon DEF BroadcastDevice, TypeInv, TypeOK, UiOK
  <2> QED
    BY <2>1, <2>2, Zenon DEF BroadcastDevice
<1> QED
  BY <1>1, <1>2, Frames DEF BroadcastDevice, TypeInv, TypeOK

LEMMA TypeBroadcastEvent ==
  ASSUME TypeInv, BroadcastEvent
  PROVE  TypeInv'
<1>1. CallsOK' /\ LocalInv'
  BY OtherStep DEF BroadcastEvent
<1>2. UiOK'
  <2>1. /\ eventUpdates \in Seq(Updates) /\ Len(eventUpdates) <= UiBuffer
        /\ shownEvents \in Seq(Updates) /\ eventUpdates # <<>>
    BY DEF BroadcastEvent, TypeInv, TypeOK, UiOK
  <2>2. eventUpdates' \in Seq(Updates) /\ Len(eventUpdates') <= UiBuffer
    BY <2>1, TailType, FeedAssumption, SMT DEF BroadcastEvent
  <2>3. shownEvents' \in Seq(Updates)
    <3>1. Head(eventUpdates) \in Updates
      BY <2>1, TailType
    <3>2. Append(shownEvents, Head(eventUpdates)) \in Seq(Updates)
      BY <2>1, <3>1, AppendType
    <3> QED
      BY <2>1, <3>2, Zenon DEF BroadcastEvent
  <2> QED
    BY <2>2, <2>3, Zenon DEF BroadcastEvent, TypeInv, TypeOK, UiOK
<1> QED
  BY <1>1, <1>2, Frames DEF BroadcastEvent, TypeInv, TypeOK

LEMMA TypeOpenChannel ==
  ASSUME TypeInv, NEW d \in Devices, OpenChannel(d)
  PROVE  TypeInv'
<1>1. CallsOK' /\ LocalInv'
  BY OtherStep DEF OpenChannel
<1>2. opened + 1 \in Channels
  BY FeedAssumption, SMT DEF OpenChannel, TypeInv, TypeOK, DetailOK, Channels
<1>3. DetailOK'
  <2>1. chanOf' \in [Devices -> Channels \cup {0}] /\ opened' \in Channels \cup {0}
    BY <1>2, SMT DEF OpenChannel, TypeInv, TypeOK, DetailOK
  <2> QED
    BY <2>1 DEF OpenChannel, TypeInv, TypeOK, DetailOK
<1> QED
  BY <1>1, <1>3, Frames DEF OpenChannel, TypeInv, TypeOK

LEMMA TypeCloseChannel ==
  ASSUME TypeInv, NEW d \in Devices, CloseChannel(d)
  PROVE  TypeInv'
<1>1. CallsOK' /\ LocalInv'
  BY OtherStep DEF CloseChannel
<1>2. DetailOK'
  <2>1. /\ chanOf' \in [Devices -> Channels \cup {0}]
        /\ detailClosed' \in SUBSET Channels
    BY SMT DEF CloseChannel, TypeInv, TypeOK, DetailOK
  <2> QED
    BY <2>1 DEF CloseChannel, TypeInv, TypeOK, DetailOK
<1> QED
  BY <1>1, <1>2, Frames DEF CloseChannel, TypeInv, TypeOK

LEMMA TypeTakeDetail ==
  ASSUME TypeInv, NEW c \in Channels, TakeDetail(c)
  PROVE  TypeInv'
<1>1. CallsOK' /\ LocalInv'
  BY OtherStep DEF TakeDetail
<1>2. DetailOK'
  <2>1. /\ detail[c] \in Seq(Updates) /\ detail[c] # <<>>
        /\ detailSeen[c] \in Seq(Updates) /\ Len(detail[c]) <= DetailBuffer
    BY DEF TakeDetail, TypeInv, TypeOK, DetailOK
  <2>2. /\ Tail(detail[c]) \in Seq(Updates) /\ Len(Tail(detail[c])) <= DetailBuffer
        /\ Append(detailSeen[c], Head(detail[c])) \in Seq(Updates)
    BY <2>1, TailType, AppendType, FeedAssumption, SMT
  <2>3. /\ detail' \in [Channels -> Seq(Updates)]
        /\ detailSeen' \in [Channels -> Seq(Updates)]
    BY <2>2, SMT DEF TakeDetail, TypeInv, TypeOK, DetailOK
  <2>4. \A x \in Channels : Len(detail'[x]) <= DetailBuffer
    BY <2>2, SMT DEF TakeDetail, TypeInv, TypeOK, DetailOK
  <2> QED
    BY <2>3, <2>4 DEF TakeDetail, TypeInv, TypeOK, DetailOK
<1> QED
  BY <1>1, <1>2, Frames DEF TakeDetail, TypeInv, TypeOK

LEMMA TypeStep == TypeInv /\ [Next]_vars => TypeInv'
<1> SUFFICES ASSUME TypeInv, [Next]_vars PROVE TypeInv'
  OBVIOUS
<1>1. CASE UNCHANGED vars
  <2>1. /\ UNCHANGED <<calls, pc, cur, ch, panicked>>
        /\ UNCHANGED <<storeVars, ringVars, uiVars, closed, detailVars>>
    BY <1>1, Zenon DEF vars
  <2> QED
    BY <2>1, OtherStep, Frames DEF TypeInv, TypeOK
<1>2. ASSUME NEW h \in Handlers, UpdateDevice(h) PROVE TypeInv'
  BY <1>2, TypeStore, TypeInsertRing, TypeSendDevice, TypeSendEvent,
     TypeSendDetail DEF UpdateDevice
<1> QED
  BY <1>1, <1>2, TypeBegin, TypeClose, TypeBroadcastDevice, TypeBroadcastEvent,
     TypeOpenChannel, TypeCloseChannel, TypeTakeDetail DEF Next

\* Type correctness of the feed, with the local variables of UpdateDevice: no
\* channel is ever over its capacity, and what a handler holds fits its place.
THEOREM FeedTypeCorrect == Spec => [](TypeOK /\ LocalInv)
<1>1. TypeInv /\ [Next]_vars => TypeInv'
  BY TypeStep
<1>2. TypeInv => TypeOK /\ LocalInv
  BY DEF TypeInv
<1> QED
  BY <1>1, <1>2, TypeInit, PTL DEF Spec

-----------------------------------------------------------------------------
(* Subscriptions. *)

\* A handler that holds a channel is in a call owed to that channel.
SubInv ==
  /\ SubscriptionIsExact
  /\ \A h \in Handlers : ch[h] # 0 => cur[h] \in owed[ch[h]]

LEMMA SubInit == Init => SubInv
<1> SUFFICES ASSUME Init PROVE SubInv
  OBVIOUS
<1>1. \A c \in Channels : detailSeen[c] = <<>> /\ detail[c] = <<>>
  BY Zenon DEF Init
<1>2. <<>> \o <<>> = <<>> /\ Elems(<<>>) = {}
  BY SMT DEF Elems
<1>3. \A h \in Handlers : ch[h] = 0
  BY Zenon DEF Init
<1> QED
  BY <1>1, <1>2, <1>3 DEF SubInv, SubscriptionIsExact

LEMMA SubFrame ==
  ASSUME TypeInv, SubInv, UNCHANGED <<cur, ch, detail, detailSeen, owed>>
  PROVE  SubInv'
BY DEF SubInv, SubscriptionIsExact

\* A handler that leaves, or does not change the channel it holds.
LEMMA SubHandlers ==
  ASSUME TypeInv, SubInv, NEW h \in Handlers, Leave(h), UNCHANGED owed
  PROVE  \A g \in Handlers : ch'[g] # 0 => cur'[g] \in owed'[ch'[g]]
<1> SUFFICES ASSUME NEW g \in Handlers, ch'[g] # 0
             PROVE  cur'[g] \in owed'[ch'[g]]
  OBVIOUS
<1>1. g # h
  BY Zenon DEF Leave, TypeInv, TypeOK, CallsOK
<1>2. ch'[g] = ch[g] /\ cur'[g] = cur[g]
  BY <1>1, Zenon DEF Leave, TypeInv, TypeOK, CallsOK
<1> QED
  BY <1>2 DEF SubInv

LEMMA SubLeave ==
  ASSUME TypeInv, SubInv, NEW h \in Handlers, Leave(h),
         UNCHANGED <<detail, detailSeen, owed>>
  PROVE  SubInv'
<1>1. SubscriptionIsExact'
  BY DEF SubInv, SubscriptionIsExact
<1> QED
  BY <1>1, SubHandlers DEF SubInv

LEMMA SubStore ==
  ASSUME TypeInv, SubInv, NEW h \in Handlers, Store(h)
  PROVE  SubInv'
<1> DEFINE u == cur[h]
           d == calls[u].dev
<1>1. /\ \A c \in Channels : owed'[c] = owed[c] \cup (IF c = chanOf[d] THEN {u} ELSE {})
      /\ cur' = cur /\ detail' = detail /\ detailSeen' = detailSeen
      /\ ch' = [ch EXCEPT ![h] = chanOf[d]]
  BY Zenon DEF Store
<1>2. SubscriptionIsExact'
  BY <1>1, Zenon DEF SubInv, SubscriptionIsExact
<1>3. d \in Devices
  BY CurType, CallFields DEF Store, TypeInv, TypeOK
<1>4. ASSUME NEW g \in Handlers, ch'[g] # 0
      PROVE  cur'[g] \in owed'[ch'[g]]
  <2>1. CASE g = h
    <3>1. ch'[g] = chanOf[d] /\ cur'[g] = u
      BY <1>1, <2>1, Zenon DEF TypeInv, TypeOK, CallsOK
    <3>2. chanOf[d] \in Channels
      BY <1>3, <1>4, <3>1 DEF TypeInv, TypeOK, DetailOK
    <3> QED
      BY <1>1, <3>1, <3>2
  <2>2. CASE g # h
    <3>1. ch'[g] = ch[g] /\ cur'[g] = cur[g]
      BY <1>1, <2>2, Zenon DEF TypeInv, TypeOK, CallsOK
    <3>2. ch[g] \in Channels /\ cur[g] \in owed[ch[g]]
      BY <1>4, <3>1 DEF SubInv, TypeInv, TypeOK, CallsOK
    <3> QED
      BY <1>1, <3>1, <3>2
  <2> QED
    BY <2>1, <2>2
<1> QED
  BY <1>2, <1>4 DEF SubInv

LEMMA SubSendDetail ==
  ASSUME TypeInv, SubInv, NEW h \in Handlers, SendDetail(h)
  PROVE  SubInv'
<1> DEFINE c == ch[h]
<1>1. Leave(h) /\ UNCHANGED <<detailSeen, owed>>
  BY Zenon DEF SendDetail, Panic
<1>2. CASE detail' = detail
  BY <1>1, <1>2, SubLeave
<1>3. CASE detail' # detail
  <2>1. detail' = [detail EXCEPT ![c] = Append(detail[c], cur[h])]
    BY <1>3, Zenon DEF SendDetail
  <2>2. c \in Channels /\ cur[h] \in owed[c] /\ cur[h] \in Updates
    BY CurType DEF SendDetail, SubInv, TypeInv, TypeOK, CallsOK, LocalInv
  <2>3. detailSeen[c] \in Seq(Updates) /\ detail[c] \in Seq(Updates)
    BY <2>2 DEF TypeInv, TypeOK, DetailOK
  <2>4. Elems(detailSeen[c] \o Append(detail[c], cur[h]))
          = Elems(detailSeen[c] \o detail[c]) \cup {cur[h]}
    <3>1. \A s, t \in Seq(Updates) : \A x \in Updates :
            Elems(s \o Append(t, x)) = Elems(s \o t) \cup {x}
      BY ConcatElems
    <3> HIDE DEF c
    <3> QED
      BY <2>2, <2>3, <3>1
  <2>5. ASSUME NEW x \in Channels
        PROVE  Elems(detailSeen'[x] \o detail'[x]) \subseteq owed'[x]
    <3>1. CASE x = c
      <4>1. detail'[x] = Append(detail[c], cur[h])
        BY <2>1, <2>2, <3>1, Zenon DEF TypeInv, TypeOK, DetailOK
      <4> QED
        BY <1>1, <2>2, <2>4, <3>1, <4>1 DEF SubInv, SubscriptionIsExact
    <3>2. CASE x # c
      <4>1. detail'[x] = detail[x]
        BY <2>1, <3>2, Zenon DEF TypeInv, TypeOK, DetailOK
      <4> QED
        BY <1>1, <4>1 DEF SubInv, SubscriptionIsExact
    <3> QED
      BY <3>1, <3>2
  <2>6. SubscriptionIsExact'
    BY <2>5 DEF SubscriptionIsExact
  <2> QED
    BY <1>1, <2>6, SubHandlers DEF SubInv
<1> QED
  BY <1>2, <1>3

LEMMA SubTakeDetail ==
  ASSUME TypeInv, SubInv, NEW c \in Channels, TakeDetail(c)
  PROVE  SubInv'
<1>1. /\ detail[c] \in Seq(Updates) /\ detail[c] # <<>>
      /\ detailSeen[c] \in Seq(Updates)
  BY DEF TakeDetail, TypeInv, TypeOK, DetailOK
<1>2. Append(detailSeen[c], Head(detail[c])) \o Tail(detail[c])
        = detailSeen[c] \o detail[c]
  BY <1>1, MoveHead
<1>3. ASSUME NEW x \in Channels
      PROVE  detailSeen'[x] \o detail'[x] = detailSeen[x] \o detail[x]
  <2>1. CASE x = c
    <3>1. /\ detailSeen'[c] = Append(detailSeen[c], Head(detail[c]))
          /\ detail'[c] = Tail(detail[c])
      BY Zenon DEF TakeDetail, TypeInv, TypeOK, DetailOK
    <3> QED
      BY <1>2, <2>1, <3>1
  <2>2. CASE x # c
    BY <2>2, Zenon DEF TakeDetail, TypeInv, TypeOK, DetailOK
  <2> QED
    BY <2>1, <2>2
<1> QED
  BY <1>3 DEF TakeDetail, SubInv, SubscriptionIsExact

LEMMA SubBegin ==
  ASSUME TypeInv, SubInv, NEW h \in Handlers, NEW d \in Devices, NEW code \in Codes,
         Begin(h, d, code)
  PROVE  SubInv'
<1>1. UNCHANGED <<ch, detail, detailSeen, owed>>
  BY Zenon DEF Begin, detailVars
<1>2. SubscriptionIsExact'
  BY <1>1 DEF SubInv, SubscriptionIsExact
<1>3. ASSUME NEW g \in Handlers, ch'[g] # 0
      PROVE  cur'[g] \in owed'[ch'[g]]
  <2>1. g # h
    BY <1>1, <1>3 DEF Begin, TypeInv, LocalInv
  <2>2. cur'[g] = cur[g]
    BY <2>1, Zenon DEF Begin, TypeInv, TypeOK, CallsOK
  <2> QED
    BY <1>1, <1>3, <2>2 DEF SubInv
<1> QED
  BY <1>2, <1>3 DEF SubInv

\* A handler's send on a channel of the user interface leaves the call, or the
\* variables of this invariant alone.
LEMMA SubSendUi ==
  ASSUME TypeInv, SubInv, NEW h \in Handlers, SendDevice(h) \/ SendEvent(h)
  PROVE  SubInv'
<1>1. UNCHANGED <<detail, detailSeen, owed>>
  BY Zenon DEF SendDevice, SendEvent, detailVars
<1>2. Leave(h) \/ UNCHANGED <<cur, ch>>
  BY Zenon DEF SendDevice, SendEvent, Panic
<1> QED
  BY <1>1, <1>2, SubLeave, SubFrame

LEMMA SubStep == TypeInv /\ SubInv /\ [Next]_vars => SubInv'
<1> SUFFICES ASSUME TypeInv, SubInv, [Next]_vars PROVE SubInv'
  OBVIOUS
<1>1. CASE UNCHANGED vars
  BY <1>1, SubFrame DEF vars, detailVars
<1>2. ASSUME NEW h \in Handlers, UpdateDevice(h) PROVE SubInv'
  <2>1. CASE InsertRing(h)
    BY <2>1, SubFrame DEF InsertRing, detailVars
  <2> QED
    BY <1>2, <2>1, SubStore, SubSendUi, SubSendDetail DEF UpdateDevice
<1>3. CASE \/ CloseDeviceUpdates \/ CloseEventUpdates
           \/ BroadcastDevice \/ BroadcastEvent
  <2>1. UNCHANGED <<cur, ch, detail, detailSeen, owed>>
    BY <1>3, Zenon DEF CloseDeviceUpdates, CloseEventUpdates, BroadcastDevice,
                       BroadcastEvent, detailVars
  <2> QED
    BY <2>1, SubFrame
<1>4. ASSUME NEW d \in Devices, OpenChannel(d) \/ CloseChannel(d) PROVE SubInv'
  BY <1>4, SubFrame DEF OpenChannel, CloseChannel
<1> QED
  BY <1>1, <1>2, <1>3, <1>4, SubBegin, SubTakeDetail DEF Next

\* Whatever handlers, subscribers and closes interleave, a subscriber is sent
\* only events stored for its device while it was subscribed.
THEOREM SubscriptionsExact == Spec => []SubscriptionIsExact
<1>1. TypeInv /\ SubInv /\ [Next]_vars => (TypeInv /\ SubInv)'
  BY TypeStep, SubStep
<1>2. Init => TypeInv /\ SubInv
  BY TypeInit, SubInit
<1>3. SubInv => SubscriptionIsExact
  BY DEF SubInv
<1> QED
  BY <1>1, <1>2, <1>3, PTL DEF Spec

-----------------------------------------------------------------------------
(* Order. *)

\* The handlers whose control point is in S.
At(S) == {h \in Handlers : pc[h] \in S}

\* A log s of calls cs is in order, and stays so when the handlers of P add the
\* calls cu gives them.
LogOK(s, cs, cu, P) ==
  /\ \A i \in 1 .. Len(s) : s[i] \in 1 .. Len(cs)
  /\ InCallOrder(s, cs)
  /\ \A h \in P : \A i \in 1 .. Len(s) : cs[s[i]].by = h => s[i] < cu[h]

LEMMA LogAppend ==
  ASSUME NEW s \in Seq(Nat), NEW cs, Len(cs) \in Nat, NEW cu, NEW P, NEW h \in P,
         LogOK(s, cs, cu, P), cu[h] \in 1 .. Len(cs), cs[cu[h]].by = h,
         NEW Q, Q \subseteq P \ {h}
  PROVE  LogOK(Append(s, cu[h]), cs, cu, Q)
<1> DEFINE t == Append(s, cu[h])
<1>1. cu[h] \in Nat
  BY SMT
<1>2. /\ Len(t) = Len(s) + 1 /\ Len(s) \in Nat
      /\ t[Len(s) + 1] = cu[h]
      /\ \A i \in 1 .. Len(s) : t[i] = s[i]
  BY <1>1, AppendType
<1> HIDE DEF t
<1>3. \A i \in 1 .. Len(t) : i \in 1 .. Len(s) \/ i = Len(s) + 1
  BY <1>2, SMT
<1>4. \A i \in 1 .. Len(t) : t[i] \in 1 .. Len(cs)
  BY <1>2, <1>3, SMT DEF LogOK
<1>5. InCallOrder(t, cs)
  <2> SUFFICES ASSUME NEW i \in 1 .. Len(t), NEW j \in 1 .. Len(t), i < j,
                      cs[t[i]].by = cs[t[j]].by
               PROVE  t[i] < t[j]
    BY DEF InCallOrder
  <2>1. CASE j \in 1 .. Len(s)
    <3>1. i \in 1 .. Len(s) /\ t[i] = s[i] /\ t[j] = s[j]
      BY <1>2, <2>1, SMT
    <3> QED
      BY <2>1, <3>1 DEF LogOK, InCallOrder
  <2>2. CASE j = Len(s) + 1
    <3>1. i \in 1 .. Len(s)
      BY <1>2, <2>2, SMT
    <3>2. t[i] = s[i] /\ t[j] = cu[h]
      BY <1>2, <2>2, <3>1
    <3> QED
      BY <3>1, <3>2 DEF LogOK
  <2> QED
    BY <1>3, <2>1, <2>2
<1>6. ASSUME NEW g \in Q, NEW i \in 1 .. Len(t), cs[t[i]].by = g
      PROVE  t[i] < cu[g]
  <2>1. g # h /\ g \in P
    BY <1>6
  <2>2. i # Len(s) + 1
    BY <1>2, <1>6, <2>1
  <2>3. i \in 1 .. Len(s) /\ t[i] = s[i]
    BY <1>2, <1>3, <2>2
  <2> QED
    BY <1>6, <2>1, <2>3 DEF LogOK
<1> QED
  BY <1>4, <1>5, <1>6 DEF LogOK, t

\* Fewer handlers, with the same calls, have fewer obligations.
LEMMA LogFewer ==
  ASSUME NEW s, NEW cs, NEW cu, NEW cv, NEW P, NEW Q, LogOK(s, cs, cu, P),
         Q \subseteq P, \A h \in Q : cv[h] = cu[h]
  PROVE  LogOK(s, cs, cv, Q)
BY Zenon DEF LogOK

\* A new call comes after every call in the log.
LEMMA LogBegin ==
  ASSUME NEW s \in Seq(Nat), NEW cs, NEW ct, Len(cs) \in Nat,
         Len(ct) = Len(cs) + 1, \A i \in 1 .. Len(cs) : ct[i] = cs[i],
         NEW cu, NEW cv, NEW P, NEW h, LogOK(s, cs, cu, P),
         NEW Q, Q \subseteq P \cup {h},
         cv[h] = Len(cs) + 1, \A g \in Q \ {h} : cv[g] = cu[g]
  PROVE  LogOK(s, ct, cv, Q)
<1>1. \A i \in 1 .. Len(s) : s[i] \in 1 .. Len(cs) /\ ct[s[i]] = cs[s[i]]
  BY DEF LogOK
<1>2. \A i \in 1 .. Len(s) : s[i] \in 1 .. Len(ct)
  BY <1>1, SMT
<1>3. InCallOrder(s, ct)
  BY <1>1 DEF LogOK, InCallOrder
<1>4. ASSUME NEW g \in Q, NEW i \in 1 .. Len(s), ct[s[i]].by = g
      PROVE  s[i] < cv[g]
  <2>1. CASE g = h
    BY <1>1, <2>1, SMT
  <2>2. CASE g # h
    BY <1>1, <1>4, <2>2 DEF LogOK
  <2> QED
    BY <2>1, <2>2
<1> QED
  BY <1>2, <1>3, <1>4 DEF LogOK

\* What is left when elements are taken out is still in order.
LEMMA LogThin ==
  ASSUME NEW s \in Seq(Nat), NEW t \in Seq(Nat), NEW cs, NEW cu, NEW P, NEW f,
         \A i \in 1 .. Len(t) : f[i] \in 1 .. Len(s) /\ t[i] = s[f[i]],
         \A i, j \in 1 .. Len(t) : i < j => f[i] < f[j],
         LogOK(s, cs, cu, P)
  PROVE  LogOK(t, cs, cu, P)
<1>1. \A i \in 1 .. Len(t) : t[i] \in 1 .. Len(cs)
  BY DEF LogOK
<1>2. InCallOrder(t, cs)
  <2> SUFFICES ASSUME NEW i \in 1 .. Len(t), NEW j \in 1 .. Len(t), i < j,
                      cs[t[i]].by = cs[t[j]].by
               PROVE  t[i] < t[j]
    BY DEF InCallOrder
  <2>1. f[i] \in 1 .. Len(s) /\ f[j] \in 1 .. Len(s) /\ f[i] < f[j]
    OBVIOUS
  <2>2. t[i] = s[f[i]] /\ t[j] = s[f[j]]
    OBVIOUS
  <2> QED
    BY <2>1, <2>2 DEF LogOK, InCallOrder
<1>3. \A h \in P : \A i \in 1 .. Len(t) : cs[t[i]].by = h => t[i] < cu[h]
  BY DEF LogOK
<1> QED
  BY <1>1, <1>2, <1>3 DEF LogOK

LEMMA LogKeepLast ==
  ASSUME NEW s \in Seq(Nat), NEW n \in Nat \ {0}, NEW cs, NEW cu, NEW P,
         LogOK(s, cs, cu, P)
  PROVE  LogOK(KeepLast(s, n), cs, cu, P)
<1> DEFINE t == KeepLast(s, n)
<1>1. t \in Seq(Nat)
  BY KeepLastType
<1>2. PICK k \in Nat : /\ Len(s) = Len(t) + k
                       /\ \A i \in 1 .. Len(t) : t[i] = s[i + k]
  BY KeepLastType
<1> HIDE DEF t
<1> DEFINE f == [i \in 1 .. Len(t) |-> i + k]
<1>3. \A i \in 1 .. Len(t) : f[i] \in 1 .. Len(s) /\ t[i] = s[f[i]]
  BY <1>1, <1>2, SMT
<1>4. \A i, j \in 1 .. Len(t) : i < j => f[i] < f[j]
  BY <1>1, SMT
<1> HIDE DEF f
<1>5. LogOK(t, cs, cu, P)
  BY <1>1, <1>3, <1>4, LogThin
<1> QED
  BY <1>5 DEF t

\* Taking the head of t out of s \o t.
LEMMA LogDropHead ==
  ASSUME NEW s \in Seq(Nat), NEW t \in Seq(Nat), t # <<>>, NEW cs, NEW cu, NEW P,
         LogOK(s \o t, cs, cu, P)
  PROVE  LogOK(s \o Tail(t), cs, cu, P)
<1> DEFINE w == s \o t
           v == s \o Tail(t)
           f == [i \in 1 .. Len(v) |-> IF i <= Len(s) THEN i ELSE i + 1]
<1>1. /\ w \in Seq(Nat) /\ v \in Seq(Nat) /\ Len(s) \in Nat
      /\ Len(w) = Len(v) + 1 /\ Len(v) >= Len(s)
      /\ \A i \in 1 .. Len(v) : v[i] = w[IF i <= Len(s) THEN i ELSE i + 1]
  BY SMT
<1> HIDE DEF w, v
<1>2. \A i \in 1 .. Len(v) : f[i] \in 1 .. Len(w) /\ v[i] = w[f[i]]
  BY <1>1, SMTT(30)
<1>3. \A i, j \in 1 .. Len(v) : i < j => f[i] < f[j]
  <2>1. \A i \in 1 .. Len(v) : /\ i \in Int
                               /\ i <= Len(s) => f[i] = i
                               /\ ~(i <= Len(s)) => f[i] = i + 1
    BY <1>1, SMT
  <2>2. Len(s) \in Int
    BY <1>1, SMT
  <2> HIDE DEF f
  <2>3. ASSUME NEW i \in 1 .. Len(v), NEW j \in 1 .. Len(v), i < j
        PROVE  f[i] < f[j]
    <3>1. i \in Int /\ j \in Int
      BY <2>1
    <3>2. (i <= Len(s) /\ f[i] = i) \/ (~(i <= Len(s)) /\ f[i] = i + 1)
      BY <2>1
    <3>3. (j <= Len(s) /\ f[j] = j) \/ (~(j <= Len(s)) /\ f[j] = j + 1)
      BY <2>1
    <3> QED
      BY <2>2, <2>3, <3>1, <3>2, <3>3, SMT
  <2> QED
    BY <2>3
<1> HIDE DEF f
<1>4. LogOK(w, cs, cu, P)
  BY DEF w
<1>5. LogOK(v, cs, cu, P)
  BY <1>1, <1>2, <1>3, <1>4, LogThin
<1> QED
  BY <1>5 DEF v

\* The control points at which a call has yet to reach each log.
ToStore == {"store"}
ToRing == {"store", "ring"}
ToDevice == {"store", "ring", "device"}
ToEvent == {"store", "ring", "device", "event"}
ToDetail == {"store", "ring", "device", "event", "detail"}

OrderInv ==
  /\ \A d \in Devices : LogOK(events[d], calls, cur, At(ToStore))
  /\ LogOK(ringLog, calls, cur, At(ToRing))
  /\ LogOK(shownDevices \o deviceUpdates, calls, cur, At(ToDevice))
  /\ LogOK(shownEvents \o eventUpdates, calls, cur, At(ToEvent))
  /\ \A c \in Channels : LogOK(detailSeen[c] \o detail[c], calls, cur, At(ToDetail))

\* All logs are sequences of numbers.
LEMMA LogTypes ==
  ASSUME TypeOK
  PROVE  /\ \A d \in Devices : events[d] \in Seq(Nat)
         /\ ringLog \in Seq(Nat)
         /\ shownDevices \in Seq(Nat) /\ deviceUpdates \in Seq(Nat)
         /\ shownEvents \in Seq(Nat) /\ eventUpdates \in Seq(Nat)
         /\ \A c \in Channels : detailSeen[c] \in Seq(Nat) /\ detail[c] \in Seq(Nat)
<1>1. Updates \subseteq Nat
  BY FeedAssumption, SMT DEF Updates
<1>2. \A s \in Seq(Updates) : s \in Seq(Nat)
  BY <1>1, SeqMonotonic
<1> QED
  BY <1>2, Zenon DEF TypeOK, StoreOK, RingOK, UiOK, DetailOK

LEMMA ConcatNat ==
  ASSUME NEW s \in Seq(Nat), NEW t \in Seq(Nat)
  PROVE  s \o t \in Seq(Nat)
BY SMT

LEMMA LogEmpty ==
  ASSUME NEW cs, NEW cu, NEW P
  PROVE  LogOK(<<>>, cs, cu, P)
BY SMT DEF LogOK, InCallOrder

LEMMA OrderInit == Init => OrderInv
<1> SUFFICES ASSUME Init PROVE OrderInv
  OBVIOUS
<1>1. <<>> \o <<>> = <<>>
  BY SMT
<1>2. /\ \A d \in Devices : events[d] = <<>>
      /\ ringLog = <<>>
      /\ shownDevices = <<>> /\ deviceUpdates = <<>>
      /\ shownEvents = <<>> /\ eventUpdates = <<>>
      /\ \A c \in Channels : detailSeen[c] = <<>> /\ detail[c] = <<>>
  BY Zenon DEF Init
<1> QED
  BY <1>1, <1>2, LogEmpty DEF OrderInv

\* A step of handler h leaves the other handlers where they are.
OnlyMoves(h) ==
  /\ calls' = calls
  /\ \A g \in Handlers \ {h} : pc'[g] = pc[g] /\ cur'[g] = cur[g]

LEMMA LogMoves ==
  ASSUME NEW h \in Handlers, OnlyMoves(h), NEW S, NEW s,
         LogOK(s, calls, cur, At(S)),
         pc'[h] \in S => pc[h] \in S /\ cur'[h] = cur[h]
  PROVE  LogOK(s, calls', cur', At(S)')
<1>1. At(S)' \subseteq At(S) /\ \A g \in At(S)' : cur'[g] = cur[g]
  BY Zenon DEF At, OnlyMoves
<1>2. LogOK(s, calls, cur', At(S)')
  BY <1>1, LogFewer
<1> QED
  BY <1>2 DEF OnlyMoves

LEMMA LogAdds ==
  ASSUME TypeInv, NEW h \in Handlers, OnlyMoves(h), NEW S, NEW s \in Seq(Nat),
         LogOK(s, calls, cur, At(S)), pc[h] \in S, pc[h] # "idle", pc'[h] \notin S
  PROVE  LogOK(Append(s, cur[h]), calls', cur', At(S)')
<1>1. At(S)' \subseteq At(S) \ {h} /\ \A g \in At(S)' : cur'[g] = cur[g]
  BY Zenon DEF At, OnlyMoves
<1>2. h \in At(S)
  BY DEF At
<1>3. cur[h] \in 1 .. Len(calls) /\ calls[cur[h]].by = h
  BY DEF TypeInv, LocalInv
<1>4. Len(calls) \in Nat
  BY SMT DEF TypeInv, TypeOK, CallsOK
<1>5. LogOK(Append(s, cur[h]), calls, cur, At(S)')
  BY <1>1, <1>2, <1>3, <1>4, LogAppend
<1>6. LogOK(Append(s, cur[h]), calls, cur', At(S)')
  BY <1>1, <1>5, LogFewer
<1> QED
  BY <1>6 DEF OnlyMoves

LEMMA OrderFrame ==
  ASSUME OrderInv, UNCHANGED <<calls, pc, cur, events, ringLog, shownDevices,
                               deviceUpdates, shownEvents, eventUpdates, detail,
                               detailSeen>>
  PROVE  OrderInv'
<1>1. \A S : At(S)' = At(S)
  BY DEF At
<1> QED
  BY <1>1, Zenon DEF OrderInv

LEMMA OrderBegin ==
  ASSUME TypeInv, OrderInv, NEW h \in Handlers, NEW d \in Devices,
         NEW code \in Codes, Begin(h, d, code)
  PROVE  OrderInv'
<1> DEFINE r == [by |-> h, dev |-> d, code |-> code]
<1>1. /\ Len(calls') = Len(calls) + 1
      /\ \A i \in 1 .. Len(calls) : calls'[i] = calls[i]
      /\ Len(calls) \in Nat
  <2>1. r \in Call /\ calls \in Seq(Call) /\ calls' = Append(calls, r)
    BY DEF Begin, Call, TypeInv, TypeOK, CallsOK
  <2> QED
    BY <2>1, AppendType
<1>2. /\ cur'[h] = Len(calls) + 1
      /\ \A g \in Handlers \ {h} : pc'[g] = pc[g] /\ cur'[g] = cur[g]
  BY Zenon DEF Begin, TypeInv, TypeOK, CallsOK
<1>3. ASSUME NEW S, NEW s \in Seq(Nat), LogOK(s, calls, cur, At(S))
      PROVE  LogOK(s, calls', cur', At(S)')
  <2>1. At(S)' \subseteq At(S) \cup {h} /\ \A g \in At(S)' \ {h} : cur'[g] = cur[g]
    BY <1>2, Zenon DEF At
  <2> QED
    BY <1>1, <1>2, <1>3, <2>1, LogBegin, SMTT(30)
<1>4. /\ events' = events /\ ringLog' = ringLog /\ shownDevices' = shownDevices
      /\ deviceUpdates' = deviceUpdates /\ shownEvents' = shownEvents
      /\ eventUpdates' = eventUpdates /\ detail' = detail
      /\ detailSeen' = detailSeen
  BY Zenon DEF Begin, storeVars, ringVars, uiVars, detailVars
<1>5. TypeOK
  BY DEF TypeInv
<1>6. \A e \in Devices : LogOK(events[e], calls', cur', At(ToStore)')
  BY <1>3, <1>5, LogTypes DEF OrderInv
<1>7. LogOK(ringLog, calls', cur', At(ToRing)')
  BY <1>3, <1>5, LogTypes DEF OrderInv
<1>8. LogOK(shownDevices \o deviceUpdates, calls', cur', At(ToDevice)')
  <2>1. shownDevices \o deviceUpdates \in Seq(Nat)
    BY <1>5, LogTypes, ConcatNat
  <2> QED
    BY <1>3, <2>1 DEF OrderInv
<1>9. LogOK(shownEvents \o eventUpdates, calls', cur', At(ToEvent)')
  <2>1. shownEvents \o eventUpdates \in Seq(Nat)
    BY <1>5, LogTypes, ConcatNat
  <2> QED
    BY <1>3, <2>1 DEF OrderInv
<1>10. ASSUME NEW c \in Channels
       PROVE  LogOK(detailSeen[c] \o detail[c], calls', cur', At(ToDetail)')
  <2>1. detailSeen[c] \o detail[c] \in Seq(Nat)
    BY <1>5, LogTypes, ConcatNat
  <2> QED
    BY <1>3, <2>1 DEF OrderInv
<1> QED
  BY <1>4, <1>6, <1>7, <1>8, <1>9, <1>10 DEF OrderInv

LEMMA OrderStore ==
  ASSUME TypeInv, OrderInv, NEW h \in Handlers, Store(h)
  PROVE  OrderInv'
<1> DEFINE u == cur[h]
           d == calls[u].dev
<1>1. /\ pc[h] = "store" /\ pc'[h] = "ring" /\ cur' = cur
      /\ OnlyMoves(h)
  BY Zenon DEF Store, OnlyMoves, TypeInv, TypeOK, CallsOK
<1>2. d \in Devices
  BY <1>1, CurType, CallFields DEF TypeInv, TypeOK
<1>3. ASSUME NEW e \in Devices
      PROVE  LogOK(events'[e], calls', cur', At(ToStore)')
  <2>1. LogOK(events[e], calls, cur, At(ToStore)) /\ events[e] \in Seq(Nat)
    BY LogTypes DEF OrderInv, TypeInv
  <2>2. CASE e = d
    <3>1. pc[h] \in ToStore /\ pc[h] # "idle" /\ pc'[h] \notin ToStore
      BY <1>1, SMT DEF ToStore
    <3>2. LogOK(Append(events[e], u), calls', cur', At(ToStore)')
      BY <1>1, <2>1, <3>1, LogAdds
    <3>3. Append(events[e], u) \in Seq(Nat)
      <4>1. u \in Nat
        BY <1>1, CurType, SMT DEF Updates
      <4> QED
        BY <2>1, <4>1, AppendType
    <3>4. LogOK(KeepLast(Append(events[e], u), MaxDeviceEvents), calls', cur',
                At(ToStore)')
      BY <3>2, <3>3, FeedAssumption, LogKeepLast
    <3>5. events'[e] = KeepLast(Append(events[e], u), MaxDeviceEvents)
      BY <1>2, <2>2, Zenon DEF Store, TypeInv, TypeOK, StoreOK
    <3> QED
      BY <3>4, <3>5
  <2>3. CASE e # d
    <3>1. events'[e] = events[e]
      BY <2>3, Zenon DEF Store, TypeInv, TypeOK, StoreOK
    <3>2. pc'[h] \notin ToStore
      BY <1>1, SMT DEF ToStore
    <3> QED
      BY <1>1, <2>1, <3>1, <3>2, LogMoves
  <2> QED
    BY <2>2, <2>3
<1>4. /\ ringLog' = ringLog /\ shownDevices' = shownDevices
      /\ deviceUpdates' = deviceUpdates /\ shownEvents' = shownEvents
      /\ eventUpdates' = eventUpdates /\ detail' = detail
      /\ detailSeen' = detailSeen
  BY Zenon DEF Store, ringVars, uiVars
<1>5. ASSUME NEW S \in {ToRing, ToDevice, ToEvent, ToDetail}, NEW s,
             LogOK(s, calls, cur, At(S))
      PROVE  LogOK(s, calls', cur', At(S)')
  <2>1. pc[h] \in S
    BY <1>1, SMT DEF ToRing, ToDevice, ToEvent, ToDetail
  <2> QED
    BY <1>1, <1>5, <2>1, LogMoves
<1> QED
  BY <1>3, <1>4, <1>5, Zenon DEF OrderInv

LEMMA OrderInsertRing ==
  ASSUME TypeInv, OrderInv, NEW h \in Handlers, InsertRing(h)
  PROVE  OrderInv'
<1>1. /\ pc[h] = "ring" /\ pc'[h] = "device" /\ cur' = cur
      /\ OnlyMoves(h)
  BY Zenon DEF InsertRing, OnlyMoves, TypeInv, TypeOK, CallsOK
<1>2. LogOK(Append(ringLog, cur[h]), calls', cur', At(ToRing)')
  <2>1. pc[h] \in ToRing /\ pc[h] # "idle" /\ pc'[h] \notin ToRing
    BY <1>1, SMT DEF ToRing
  <2>2. LogOK(ringLog, calls, cur, At(ToRing)) /\ ringLog \in Seq(Nat)
    BY LogTypes DEF OrderInv, TypeInv
  <2> QED
    BY <1>1, <2>1, <2>2, LogAdds
<1>3. /\ ringLog' = Append(ringLog, cur[h]) /\ shownDevices' = shownDevices
      /\ deviceUpdates' = deviceUpdates /\ shownEvents' = shownEvents
      /\ eventUpdates' = eventUpdates /\ detail' = detail
      /\ detailSeen' = detailSeen /\ events' = events
  BY Zenon DEF InsertRing, storeVars, uiVars, detailVars
<1>4. ASSUME NEW S \in {ToStore, ToDevice, ToEvent, ToDetail}, NEW s,
             LogOK(s, calls, cur, At(S))
      PROVE  LogOK(s, calls', cur', At(S)')
  <2>1. pc'[h] \in S => pc[h] \in S
    BY <1>1, SMT DEF ToStore, ToDevice, ToEvent, ToDetail
  <2> QED
    BY <1>1, <1>4, <2>1, LogMoves
<1> QED
  BY <1>2, <1>3, <1>4, Zenon DEF OrderInv

\* A select with default adds the call to the channel, or drops it.
LEMMA LogSends ==
  ASSUME TypeInv, NEW h \in Handlers, OnlyMoves(h), NEW S,
         NEW s \in Seq(Nat), NEW t \in Seq(Nat), NEW w,
         w = t \/ w = Append(t, cur[h]),
         LogOK(s \o t, calls, cur, At(S)),
         pc[h] \in S, pc[h] # "idle", pc'[h] \notin S
  PROVE  LogOK(s \o w, calls', cur', At(S)')
<1>1. CASE w = t
  BY <1>1, LogMoves
<1>2. CASE w = Append(t, cur[h])
  <2>1. cur[h] \in Nat
    BY CurType, SMT DEF Updates
  <2>2. s \o t \in Seq(Nat) /\ s \o w = Append(s \o t, cur[h])
    BY <1>2, <2>1, ConcatAppend
  <2>3. LogOK(Append(s \o t, cur[h]), calls', cur', At(S)')
    BY <2>2, LogAdds
  <2> QED
    BY <2>2, <2>3
<1> QED
  BY <1>1, <1>2

LEMMA LeaveMoves ==
  ASSUME TypeInv, NEW h \in Handlers, Leave(h), calls' = calls
  PROVE  OnlyMoves(h) /\ pc'[h] = "idle"
BY Zenon DEF Leave, OnlyMoves, TypeInv, TypeOK, CallsOK

LEMMA OrderSendDevice ==
  ASSUME TypeInv, OrderInv, NEW h \in Handlers, SendDevice(h)
  PROVE  OrderInv'
<1>1. pc[h] = "device" /\ calls' = calls
  BY DEF SendDevice
<1>2. /\ OnlyMoves(h)
      /\ pc'[h] = "idle" \/ (pc'[h] = "event" /\ cur' = cur)
  <2>1. CASE Leave(h)
    BY <1>1, <2>1, LeaveMoves
  <2>2. CASE ~Leave(h)
    BY <2>2, Zenon DEF SendDevice, Panic, OnlyMoves, TypeInv, TypeOK, CallsOK
  <2> QED
    BY <2>1, <2>2
<1>3. deviceUpdates' = deviceUpdates \/ deviceUpdates' = Append(deviceUpdates, cur[h])
  BY Zenon DEF SendDevice
<1>4. LogOK(shownDevices \o deviceUpdates', calls', cur', At(ToDevice)')
  <2>1. pc[h] \in ToDevice /\ pc[h] # "idle" /\ pc'[h] \notin ToDevice
    BY <1>1, <1>2, SMT DEF ToDevice
  <2>2. /\ shownDevices \in Seq(Nat) /\ deviceUpdates \in Seq(Nat)
        /\ LogOK(shownDevices \o deviceUpdates, calls, cur, At(ToDevice))
    BY LogTypes DEF OrderInv, TypeInv
  <2> QED
    BY <1>2, <1>3, <2>1, <2>2, LogSends
<1>5. /\ ringLog' = ringLog /\ shownDevices' = shownDevices
      /\ shownEvents' = shownEvents
      /\ eventUpdates' = eventUpdates /\ detail' = detail
      /\ detailSeen' = detailSeen /\ events' = events
  BY Zenon DEF SendDevice, storeVars, ringVars, detailVars
<1>6. ASSUME NEW S \in {ToStore, ToRing, ToEvent, ToDetail}, NEW s,
             LogOK(s, calls, cur, At(S))
      PROVE  LogOK(s, calls', cur', At(S)')
  <2>1. pc'[h] \in S => pc[h] \in S /\ cur'[h] = cur[h]
    BY <1>1, <1>2, SMT DEF ToStore, ToRing, ToEvent, ToDetail
  <2> QED
    BY <1>2, <1>6, <2>1, LogMoves
<1> QED
  BY <1>4, <1>5, <1>6, Zenon DEF OrderInv

LEMMA OrderSendEvent ==
  ASSUME TypeInv, OrderInv, NEW h \in Handlers, SendEvent(h)
  PROVE  OrderInv'
<1>1. pc[h] = "event" /\ calls' = calls
  BY DEF SendEvent
<1>2. /\ OnlyMoves(h)
      /\ pc'[h] = "idle" \/ (pc'[h] = "detail" /\ cur' = cur)
  <2>1. CASE Leave(h)
    BY <1>1, <2>1, LeaveMoves
  <2>2. CASE ~Leave(h)
    BY <2>2, Zenon DEF SendEvent, Panic, OnlyMoves, TypeInv, TypeOK, CallsOK
  <2> QED
    BY <2>1, <2>2
<1>3. eventUpdates' = eventUpdates \/ eventUpdates' = Append(eventUpdates, cur[h])
  BY Zenon DEF SendEvent
<1>4. LogOK(shownEvents \o eventUpdates', calls', cur', At(ToEvent)')
  <2>1. pc[h] \in ToEvent /\ pc[h] # "idle" /\ pc'[h] \notin ToEvent
    BY <1>1, <1>2, SMT DEF ToEvent
  <2>2. /\ shownEvents \in Seq(Nat) /\ eventUpdates \in Seq(Nat)
        /\ LogOK(shownEvents \o eventUpdates, calls, cur, At(ToEvent))
    BY LogTypes DEF OrderInv, TypeInv
  <2> QED
    BY <1>2, <1>3, <2>1, <2>2, LogSends
<1>5. /\ ringLog' = ringLog /\ shownDevices' = shownDevices
      /\ shownEvents' = shownEvents
      /\ deviceUpdates' = deviceUpdates /\ detail' = detail
      /\ detailSeen' = detailSeen /\ events' = events
  BY Zenon DEF SendEvent, storeVars, ringVars, detailVars
<1>6. ASSUME NEW S \in {ToStore, ToRing, ToDevice, ToDetail}, NEW s,
             LogOK(s, calls, cur, At(S))
      PROVE  LogOK(s, calls', cur', At(S)')
  <2>1. pc'[h] \in S => pc[h] \in S /\ cur'[h] = cur[h]
    BY <1>1, <1>2, SMT DEF ToStore, ToRing, ToDevice, ToDetail
  <2> QED
    BY <1>2, <1>6, <2>1, LogMoves
<1> QED
  BY <1>4, <1>5, <1>6, Zenon DEF OrderInv

LEMMA OrderSendDetail ==
  ASSUME TypeInv, OrderInv, NEW h \in Handlers, SendDetail(h)
  PROVE  OrderInv'
<1>1. pc[h] = "detail" /\ calls' = calls
  BY DEF SendDetail
<1>2. OnlyMoves(h) /\ pc'[h] = "idle"
  <2>1. Leave(h)
    BY Zenon DEF SendDetail, Panic
  <2> QED
    BY <1>1, <2>1, LeaveMoves
<1>3. ASSUME NEW c \in Channels
      PROVE  LogOK(detailSeen[c] \o detail'[c], calls', cur', At(ToDetail)')
  <2>1. pc[h] \in ToDetail /\ pc[h] # "idle" /\ pc'[h] \notin ToDetail
    BY <1>1, <1>2, SMT DEF ToDetail
  <2>2. /\ detailSeen[c] \in Seq(Nat) /\ detail[c] \in Seq(Nat)
        /\ LogOK(detailSeen[c] \o detail[c], calls, cur, At(ToDetail))
    BY LogTypes DEF OrderInv, TypeInv
  <2>3. detail'[c] = detail[c] \/ detail'[c] = Append(detail[c], cur[h])
    <3>1. \/ detail' = detail
          \/ detail' = [detail EXCEPT ![ch[h]] = Append(@, cur[h])]
      BY Zenon DEF SendDetail
    <3>2. detail \in [Channels -> Seq(Updates)]
      BY DEF TypeInv, TypeOK, DetailOK
    <3> QED
      BY <3>1, <3>2, SMT
  <2> QED
    BY <1>2, <2>1, <2>2, <2>3, LogSends
<1>4. /\ ringLog' = ringLog /\ shownDevices' = shownDevices
      /\ shownEvents' = shownEvents /\ eventUpdates' = eventUpdates
      /\ deviceUpdates' = deviceUpdates
      /\ detailSeen' = detailSeen /\ events' = events
  BY Zenon DEF SendDetail, storeVars, ringVars, uiVars
<1>5. ASSUME NEW S \in {ToStore, ToRing, ToDevice, ToEvent}, NEW s,
             LogOK(s, calls, cur, At(S))
      PROVE  LogOK(s, calls', cur', At(S)')
  <2>1. pc'[h] \notin S
    BY <1>2, SMT DEF ToStore, ToRing, ToDevice, ToEvent
  <2> QED
    BY <1>2, <1>5, <2>1, LogMoves
<1> QED
  BY <1>3, <1>4, <1>5, Zenon DEF OrderInv

\* The broadcaster and the subscribers move elements along a log, or drop one.
LEMMA OrderBroadcastDevice ==
  ASSUME TypeInv, OrderInv, BroadcastDevice
  PROVE  OrderInv'
<1>1. shownDevices' \o deviceUpdates' = shownDevices \o deviceUpdates
  <2>1. CASE /\ deviceUpdates # <<>>
             /\ shownDevices' = Append(shownDevices, Head(deviceUpdates))
             /\ deviceUpdates' = Tail(deviceUpdates)
    <3>1. shownDevices \in Seq(Nat) /\ deviceUpdates \in Seq(Nat)
      BY LogTypes DEF TypeInv
    <3> QED
      BY <2>1, <3>1, MoveHead
  <2>2. CASE UNCHANGED <<deviceUpdates, shownDevices>>
    BY <2>2
  <2> QED
    BY <2>1, <2>2, Zenon DEF BroadcastDevice
<1>2. UNCHANGED <<calls, pc, cur, events, ringLog, shownEvents, eventUpdates,
                  detail, detailSeen>>
  BY Zenon DEF BroadcastDevice, storeVars, ringVars, detailVars
<1>3. \A S : At(S)' = At(S)
  BY <1>2 DEF At
<1> QED
  BY <1>1, <1>2, <1>3, Zenon DEF OrderInv

LEMMA OrderBroadcastEvent ==
  ASSUME TypeInv, OrderInv, BroadcastEvent
  PROVE  OrderInv'
<1>1. UNCHANGED <<calls, pc, cur, events, ringLog, shownDevices, deviceUpdates,
                  detail, detailSeen>>
  BY Zenon DEF BroadcastEvent, storeVars, ringVars, detailVars
<1>2. \A S : At(S)' = At(S)
  BY <1>1 DEF At
<1>3. /\ shownEvents \in Seq(Nat) /\ eventUpdates \in Seq(Nat)
      /\ eventUpdates # <<>> /\ eventUpdates' = Tail(eventUpdates)
  BY LogTypes DEF BroadcastEvent, TypeInv
<1>4. LogOK(shownEvents \o eventUpdates, calls, cur, At(ToEvent))
  BY DEF OrderInv
<1>5. LogOK(shownEvents' \o eventUpdates', calls, cur, At(ToEvent))
  <2>1. CASE shownEvents' = Append(shownEvents, Head(eventUpdates))
    <3>1. shownEvents' \o eventUpdates' = shownEvents \o eventUpdates
      BY <1>3, <2>1, MoveHead
    <3> QED
      BY <1>4, <3>1
  <2>2. CASE shownEvents' = shownEvents
    <3>1. LogOK(shownEvents \o Tail(eventUpdates), calls, cur, At(ToEvent))
      BY <1>3, <1>4, LogDropHead
    <3> QED
      BY <1>3, <2>2, <3>1
  <2> QED
    BY <2>1, <2>2, Zenon DEF BroadcastEvent
<1> QED
  BY <1>1, <1>2, <1>5, Zenon DEF OrderInv

LEMMA OrderTakeDetail ==
  ASSUME TypeInv, OrderInv, NEW c \in Channels, TakeDetail(c)
  PROVE  OrderInv'
<1>1. UNCHANGED <<calls, pc, cur, events, ringLog, shownDevices, deviceUpdates,
                  shownEvents, eventUpdates>>
  BY Zenon DEF TakeDetail, storeVars, ringVars, uiVars
<1>2. \A S : At(S)' = At(S)
  BY <1>1 DEF At
<1>3. ASSUME NEW x \in Channels
      PROVE  detailSeen'[x] \o detail'[x] = detailSeen[x] \o detail[x]
  <2>1. CASE x = c
    <3>1. /\ detailSeen'[c] = Append(detailSeen[c], Head(detail[c]))
          /\ detail'[c] = Tail(detail[c])
      BY Zenon DEF TakeDetail, TypeInv, TypeOK, DetailOK
    <3>2. /\ detailSeen[c] \in Seq(Nat) /\ detail[c] \in Seq(Nat)
          /\ detail[c] # <<>>
      BY LogTypes DEF TakeDetail, TypeInv
    <3> QED
      BY <2>1, <3>1, <3>2, MoveHead
  <2>2. CASE x # c
    BY <2>2, Zenon DEF TakeDetail, TypeInv, TypeOK, DetailOK
  <2> QED
    BY <2>1, <2>2
<1> QED
  BY <1>1, <1>2, <1>3, Zenon DEF OrderInv

LEMMA OrderStep == TypeInv /\ OrderInv /\ [Next]_vars => OrderInv'
<1> SUFFICES ASSUME TypeInv, OrderInv, [Next]_vars PROVE OrderInv'
  OBVIOUS
<1>1. CASE UNCHANGED vars
  BY <1>1, OrderFrame DEF vars, storeVars, ringVars, uiVars, detailVars
<1>2. ASSUME NEW h \in Handlers, UpdateDevice(h) PROVE OrderInv'
  BY <1>2, OrderStore, OrderInsertRing, OrderSendDevice, OrderSendEvent,
     OrderSendDetail DEF UpdateDevice
<1>3. CASE CloseDeviceUpdates \/ CloseEventUpdates
  BY <1>3, OrderFrame DEF CloseDeviceUpdates, CloseEventUpdates, storeVars,
                          ringVars, uiVars, detailVars
<1>4. ASSUME NEW d \in Devices, OpenChannel(d) \/ CloseChannel(d) PROVE OrderInv'
  BY <1>4, OrderFrame DEF OpenChannel, CloseChannel, storeVars, ringVars, uiVars
<1> QED
  BY <1>1, <1>2, <1>3, <1>4, OrderBegin, OrderBroadcastDevice,
     OrderBroadcastEvent, OrderTakeDetail DEF Next

\* For any number of handlers, devices and subscribers and whatever is dropped:
\* no log shows two events of one handler in the wrong order, or one twice.
THEOREM OrderKept == Spec => []OrderPerHandler
<1>1. TypeInv /\ OrderInv /\ [Next]_vars => (TypeInv /\ OrderInv)'
  BY TypeStep, OrderStep
<1>2. Init => TypeInv /\ OrderInv
  BY TypeInit, OrderInit
<1>3. OrderInv => OrderPerHandler
  BY Zenon DEF OrderInv, OrderPerHandler, LogOK
<1> QED
  BY <1>1, <1>2, <1>3, PTL DEF Spec

-----------------------------------------------------------------------------
(* Nothing is lost between the snapshots. *)

\* How far a call has come is where its handler is; a call without a handler
\* has gone all the way.
StoredInv ==
  /\ EndedAreStored
  /\ \A h \in Handlers :
       /\ pc[h] \notin {"idle", "store"} =>
            cur[h] \in Elems(storeLog[calls[cur[h]].dev])
       /\ pc[h] \in {"device", "event", "detail"} => cur[h] \in Elems(ringLog)

LEMMA StoredInit == Init => StoredInv
<1> SUFFICES ASSUME Init PROVE StoredInv
  OBVIOUS
<1>1. ~\E u \in 1 .. Len(calls) : TRUE
  BY SMT DEF Init
<1>2. \A h \in Handlers : pc[h] = "idle"
  BY Zenon DEF Init
<1> QED
  BY <1>1, <1>2, SMT DEF StoredInv, EndedAreStored

\* A step of handler h that only adds to the logs and after which its call is
\* where its control point, or its being left, says.
LEMMA StoredMoves ==
  ASSUME TypeInv, StoredInv, NEW h \in Handlers, OnlyMoves(h), pc[h] # "idle",
         \A d \in Devices : Elems(storeLog[d]) \subseteq Elems(storeLog'[d]),
         Elems(ringLog) \subseteq Elems(ringLog'),
         pc'[h] # "store",
         pc'[h] # "idle" => cur'[h] = cur[h],
         cur[h] \in Elems(storeLog'[calls[cur[h]].dev]),
         pc'[h] = "ring" \/ cur[h] \in Elems(ringLog')
  PROVE  StoredInv'
<1>1. calls' = calls
  BY DEF OnlyMoves
<1>2. \A u \in 1 .. Len(calls) : calls[u].dev \in Devices
  BY CallFields DEF TypeInv, TypeOK
<1>3. ASSUME NEW g \in Handlers
      PROVE  /\ pc'[g] \notin {"idle", "store"} =>
                  cur'[g] \in Elems(storeLog'[calls[cur'[g]].dev])
             /\ pc'[g] \in {"device", "event", "detail"} => cur'[g] \in Elems(ringLog')
  <2>1. CASE g = h
    BY <2>1
  <2>2. CASE g # h
    <3>1. pc'[g] = pc[g] /\ cur'[g] = cur[g]
      BY <2>2 DEF OnlyMoves
    <3>2. pc[g] # "idle" => calls[cur[g]].dev \in Devices
      BY <1>2, CurType
    <3> QED
      BY <3>1, <3>2 DEF StoredInv
  <2> QED
    BY <2>1, <2>2
<1>4. ASSUME NEW u \in 1 .. Len(calls), \A g \in Handlers : cur'[g] # u
      PROVE  u \in Elems(storeLog'[calls[u].dev]) /\ u \in Elems(ringLog')
  <2>1. CASE cur[h] = u
    <3>1. pc'[h] = "idle"
      BY <1>4, <2>1
    <3> QED
      BY <2>1, <3>1
  <2>2. CASE cur[h] # u
    <3>1. \A g \in Handlers : cur[g] # u
      BY <1>4, <2>2, Zenon DEF OnlyMoves
    <3>2. u \in Elems(storeLog[calls[u].dev]) /\ u \in Elems(ringLog)
      BY <3>1 DEF StoredInv, EndedAreStored
    <3> QED
      BY <1>2, <3>2
  <2> QED
    BY <2>1, <2>2
<1> QED
  BY <1>1, <1>3, <1>4, Zenon DEF StoredInv, EndedAreStored

LEMMA StoredStore ==
  ASSUME TypeInv, StoredInv, NEW h \in Handlers, Store(h)
  PROVE  StoredInv'
<1> DEFINE u == cur[h]
           d == calls[u].dev
<1>1. /\ pc[h] = "store" /\ pc'[h] = "ring" /\ cur' = cur
      /\ OnlyMoves(h) /\ ringLog' = ringLog
  BY Zenon DEF Store, OnlyMoves, ringVars, TypeInv, TypeOK, CallsOK
<1>2. d \in Devices /\ u \in Updates
  BY <1>1, CurType, CallFields DEF TypeInv, TypeOK
<1>3. /\ storeLog'[d] = Append(storeLog[d], u)
      /\ \A e \in Devices \ {d} : storeLog'[e] = storeLog[e]
  BY <1>2, Zenon DEF Store, TypeInv, TypeOK, StoreOK
<1>4. Elems(storeLog'[d]) = Elems(storeLog[d]) \cup {u}
  <2>1. storeLog[d] \in Seq(Updates)
    BY <1>2 DEF TypeInv, TypeOK, StoreOK
  <2>2. \A s \in Seq(Updates) : \A x \in Updates :
          Elems(Append(s, x)) = Elems(s) \cup {x}
    BY ElemsAppend
  <2> HIDE DEF d, u
  <2> QED
    BY <1>2, <1>3, <2>1, <2>2
<1>5. \A e \in Devices : Elems(storeLog[e]) \subseteq Elems(storeLog'[e])
  BY <1>3, <1>4
<1> QED
  BY <1>1, <1>4, <1>5, StoredMoves

LEMMA StoredInsertRing ==
  ASSUME TypeInv, StoredInv, NEW h \in Handlers, InsertRing(h)
  PROVE  StoredInv'
<1>1. /\ pc[h] = "ring" /\ pc'[h] = "device" /\ cur' = cur
      /\ OnlyMoves(h) /\ storeLog' = storeLog /\ ringLog' = Append(ringLog, cur[h])
  BY Zenon DEF InsertRing, OnlyMoves, storeVars, TypeInv, TypeOK, CallsOK
<1>2. Elems(ringLog') = Elems(ringLog) \cup {cur[h]}
  BY <1>1, CurType, ElemsAppend DEF TypeInv, TypeOK, RingOK
<1>3. cur[h] \in Elems(storeLog[calls[cur[h]].dev])
  BY <1>1 DEF StoredInv
<1> QED
  BY <1>1, <1>2, <1>3, StoredMoves

\* From the first send on a call may end at any time.
LEMMA StoredSends ==
  ASSUME TypeInv, StoredInv, NEW h \in Handlers,
         SendDevice(h) \/ SendEvent(h) \/ SendDetail(h)
  PROVE  StoredInv'
<1>1. /\ pc[h] \in {"device", "event", "detail"}
      /\ calls' = calls /\ storeLog' = storeLog /\ ringLog' = ringLog
  BY Zenon DEF SendDevice, SendEvent, SendDetail, storeVars, ringVars
<1>2. /\ OnlyMoves(h)
      /\ pc'[h] = "idle" \/ (pc'[h] \in {"event", "detail"} /\ cur' = cur)
  <2>1. CASE Leave(h)
    BY <1>1, <2>1, LeaveMoves
  <2>2. CASE ~Leave(h)
    BY <2>2, Zenon DEF SendDevice, SendEvent, SendDetail, Panic, OnlyMoves,
                       TypeInv, TypeOK, CallsOK
  <2> QED
    BY <2>1, <2>2
<1>3. cur[h] \in Elems(storeLog[calls[cur[h]].dev]) /\ cur[h] \in Elems(ringLog)
  BY <1>1 DEF StoredInv
<1> QED
  BY <1>1, <1>2, <1>3, StoredMoves

LEMMA StoredBegin ==
  ASSUME TypeInv, StoredInv, NEW h \in Handlers, NEW d \in Devices,
         NEW code \in Codes, Begin(h, d, code)
  PROVE  StoredInv'
<1> DEFINE r == [by |-> h, dev |-> d, code |-> code]
<1>1. /\ Len(calls') = Len(calls) + 1 /\ Len(calls) \in Nat
      /\ \A i \in 1 .. Len(calls) : calls'[i] = calls[i]
  <2>1. r \in Call /\ calls \in Seq(Call) /\ calls' = Append(calls, r)
    BY DEF Begin, Call, TypeInv, TypeOK, CallsOK
  <2> QED
    BY <2>1, AppendType
<1>2. /\ pc[h] = "idle" /\ pc'[h] = "store" /\ cur'[h] = Len(calls) + 1
      /\ \A g \in Handlers \ {h} : pc'[g] = pc[g] /\ cur'[g] = cur[g]
      /\ storeLog' = storeLog /\ ringLog' = ringLog
  BY Zenon DEF Begin, storeVars, ringVars, TypeInv, TypeOK, CallsOK
<1>3. ASSUME NEW g \in Handlers
      PROVE  /\ pc'[g] \notin {"idle", "store"} =>
                  cur'[g] \in Elems(storeLog'[calls'[cur'[g]].dev])
             /\ pc'[g] \in {"device", "event", "detail"} => cur'[g] \in Elems(ringLog')
  <2>1. CASE g = h
    BY <1>2, <2>1
  <2>2. CASE g # h
    <3>1. pc[g] # "idle" => calls'[cur[g]] = calls[cur[g]]
      BY <1>1, CurType
    <3> QED
      BY <1>2, <2>2, <3>1 DEF StoredInv
  <2> QED
    BY <2>1, <2>2
<1>4. ASSUME NEW u \in 1 .. Len(calls'), \A g \in Handlers : cur'[g] # u
      PROVE  u \in Elems(storeLog'[calls'[u].dev]) /\ u \in Elems(ringLog')
  <2>1. u # Len(calls) + 1
    BY <1>2, <1>4
  <2>2. u \in 1 .. Len(calls)
    BY <1>1, <2>1, SMT
  <2>3. cur[h] = 0
    BY <1>2 DEF TypeInv, LocalInv
  <2>4. cur[h] # u
    BY <2>2, <2>3, SMT
  <2>5. \A g \in Handlers : cur[g] # u
    BY <1>2, <1>4, <2>4, Zenon
  <2>6. u \in Elems(storeLog[calls[u].dev]) /\ u \in Elems(ringLog)
    BY <2>2, <2>5 DEF StoredInv, EndedAreStored
  <2> QED
    BY <1>1, <1>2, <2>2, <2>6
<1> QED
  BY <1>3, <1>4, Zenon DEF StoredInv, EndedAreStored

LEMMA StoredFrame ==
  ASSUME StoredInv, UNCHANGED <<calls, pc, cur, storeLog, ringLog>>
  PROVE  StoredInv'
BY DEF StoredInv, EndedAreStored

LEMMA StoredStep == TypeInv /\ StoredInv /\ [Next]_vars => StoredInv'
<1> SUFFICES ASSUME TypeInv, StoredInv, [Next]_vars PROVE StoredInv'
  OBVIOUS
<1>1. CASE UNCHANGED vars
  BY <1>1, StoredFrame DEF vars, storeVars, ringVars
<1>2. ASSUME NEW h \in Handlers, UpdateDevice(h) PROVE StoredInv'
  BY <1>2, StoredStore, StoredInsertRing, StoredSends DEF UpdateDevice
<1>3. CASE \/ CloseDeviceUpdates \/ CloseEventUpdates
           \/ BroadcastDevice \/ BroadcastEvent
  <2>1. UNCHANGED <<calls, pc, cur, storeLog, ringLog>>
    BY <1>3, Zenon DEF CloseDeviceUpdates, CloseEventUpdates, BroadcastDevice,
                       BroadcastEvent, storeVars, ringVars
  <2> QED
    BY <2>1, StoredFrame
<1>4. ASSUME NEW d \in Devices, OpenChannel(d) \/ CloseChannel(d) PROVE StoredInv'
  BY <1>4, StoredFrame DEF OpenChannel, CloseChannel, storeVars, ringVars
<1>5. ASSUME NEW c \in Channels, TakeDetail(c) PROVE StoredInv'
  BY <1>5, StoredFrame DEF TakeDetail, storeVars, ringVars
<1> QED
  BY <1>1, <1>2, <1>3, <1>4, <1>5, StoredBegin DEF Next

\* A call that has ended, even by a panic on a closed channel, left its event
\* with its device and in the ring.
THEOREM EndedStored == Spec => []EndedAreStored
<1>1. TypeInv /\ StoredInv /\ [Next]_vars => (TypeInv /\ StoredInv)'
  BY TypeStep, StoredStep
<1>2. Init => TypeInv /\ StoredInv
  BY TypeInit, StoredInit
<1>3. StoredInv => EndedAreStored
  BY DEF StoredInv
<1> QED
  BY <1>1, <1>2, <1>3, PTL DEF Spec

-----------------------------------------------------------------------------
(* The empty devices after the end.                                        *)

LEMMA EmptiesStep == EmptiesComeLast /\ [Next]_vars => EmptiesComeLast'
<1> SUFFICES ASSUME EmptiesComeLast, [Next]_vars PROVE EmptiesComeLast'
  OBVIOUS
<1>1. CASE UNCHANGED <<deviceUpdates, zeroShown, closed>>
  BY <1>1, Zenon DEF EmptiesComeLast
<1>2. ASSUME NEW h \in Handlers, UpdateDevice(h) PROVE EmptiesComeLast'
  <2>1. CASE SendDevice(h)
    BY <2>1, Zenon DEF SendDevice, EmptiesComeLast
  <2> QED
    BY <1>1, <1>2, <2>1, Zenon DEF UpdateDevice, Store, InsertRing, SendEvent, SendDetail, uiVars
<1>3. CASE CloseDeviceUpdates \/ CloseEventUpdates
  BY <1>3, Zenon DEF CloseDeviceUpdates, CloseEventUpdates, uiVars, EmptiesComeLast
<1>4. CASE BroadcastDevice
  BY <1>4, Zenon DEF BroadcastDevice, EmptiesComeLast
<1>5. CASE BroadcastEvent
  BY <1>1, <1>5, Zenon DEF BroadcastEvent
<1>6. ASSUME NEW h \in Handlers, NEW d \in Devices, NEW code \in Codes, Begin(h, d, code)
      PROVE  UNCHANGED <<deviceUpdates, zeroShown, closed>>
  BY <1>6, Zenon DEF Begin, uiVars
<1>7. ASSUME \/ \E d \in Devices : OpenChannel(d) \/ CloseChannel(d)
             \/ \E c \in Channels : TakeDetail(c)
      PROVE  UNCHANGED <<deviceUpdates, zeroShown, closed>>
  BY <1>7, Zenon DEF OpenChannel, CloseChannel, TakeDetail, uiVars
<1>8. CASE UNCHANGED vars
  BY <1>1, <1>8, Zenon DEF vars, uiVars
<1> QED
  BY <1>1, <1>2, <1>3, <1>4, <1>5, <1>6, <1>7, <1>8 DEF Next

\* Every device update the channel took was broadcast before the first empty
\* device, whatever handlers were in a send when closeChannels ran
\* (server.go:220-226, main_headless.go:69).
THEOREM UpdatesBeforeEmpties == Spec => []EmptiesComeLast
<1>1. Init => EmptiesComeLast
  BY DEF Init, EmptiesComeLast
<1> QED
  BY <1>1, EmptiesStep, PTL DEF Spec

-----------------------------------------------------------------------------
(* The snapshots. *)

\* Going round the ring, forwards.
LEMMA RoundOnce ==
  ASSUME NEW n \in Nat \ {0}, NEW i \in 0 .. 2 * n - 1
  PROVE  i % n = IF i < n THEN i ELSE i - n
<1>1. i \in Nat /\ n \in Nat /\ n > 0
  OBVIOUS
<1>2. i % n \in 0 .. n - 1
  BY <1>1
<1>3. i = (n * (i \div n)) + (i % n)
  BY <1>1
<1>4. i \div n \in Int
  BY <1>1
<1>5. i \div n \in {0, 1}
  <2> DEFINE q == i \div n
             r == i % n
  <2>1. q \in Int /\ r \in Int /\ r >= 0 /\ r <= n - 1 /\ i = n * q + r
    BY <1>2, <1>3, <1>4
  <2> HIDE DEF q, r
  <2>2. q < 2
    BY <1>1, <2>1
  <2>3. q > -1
    BY <1>1, <2>1
  <2> QED
    BY <2>1, <2>2, <2>3 DEF q
<1>6. CASE i \div n = 0
  BY <1>1, <1>2, <1>3, <1>6
<1>7. CASE i \div n = 1
  BY <1>1, <1>2, <1>3, <1>7
<1> QED
  BY <1>5, <1>6, <1>7

LEMMA RoundNext ==
  ASSUME NEW n \in Nat \ {0}, NEW i \in 0 .. n - 1
  PROVE  (i + 1) % n = IF i + 1 < n THEN i + 1 ELSE 0
<1>1. PICK j \in 0 .. 2 * n - 1 : j = i + 1
  OBVIOUS
<1>2. j % n = IF j < n THEN j ELSE j - n
  BY RoundOnce
<1>3. j % n = IF j < n THEN j ELSE 0
  BY <1>1, <1>2
<1> QED
  BY <1>1, <1>3, Zenon

\* The slot k places behind the newest one.
Behind(k) == IF k <= top THEN top - k ELSE top - k + RingSize

\* Backwards from where it points, the ring holds what was inserted last.
RingInv ==
  \A k \in 0 .. RingSize - 1 :
    ring[Behind(k)] = IF k < Len(ringLog) THEN ringLog[Len(ringLog) - k] ELSE 0

\* A device holds what was stored last.
HistoryInv ==
  \A d \in Devices :
    /\ events[d] = KeepLast(storeLog[d], MaxDeviceEvents)
    /\ last[d] = IF storeLog[d] = <<>> THEN 0 ELSE storeLog[d][Len(storeLog[d])]

LEMMA RingKeeps ==
  ASSUME TypeInv, RingInv, NEW h \in Handlers, InsertRing(h)
  PROVE  RingInv'
<1> DEFINE n == Len(ringLog)
           R == RingSize
<1>1. /\ R \in Nat \ {0} /\ top \in 0 .. R - 1
      /\ ring \in [0 .. R - 1 -> Updates \cup {0}]
      /\ ringLog \in Seq(Updates) /\ n \in Nat
  BY FeedAssumption DEF TypeInv, TypeOK, RingOK, Rings
<1>2. cur[h] \in Updates
  <2>1. pc[h] # "idle"
    BY DEF InsertRing
  <2> QED
    BY <2>1, CurType
<1>3. top' = IF top + 1 < R THEN top + 1 ELSE 0
  <2>1. top' = (top + 1) % R
    BY DEF InsertRing
  <2>2. (top + 1) % R = IF top + 1 < R THEN top + 1 ELSE 0
    BY <1>1, RoundNext
  <2> QED
    BY <2>1, <2>2, Zenon
<1>4. /\ ring'[top'] = cur[h]
      /\ \A i \in 0 .. R - 1 : i # top' => ring'[i] = ring[i]
  BY <1>1, <1>3 DEF InsertRing
<1>5. /\ Len(ringLog') = n + 1 /\ ringLog'[n + 1] = cur[h]
      /\ \A i \in 1 .. n : ringLog'[i] = ringLog[i]
  <2>1. ringLog' = Append(ringLog, cur[h])
    BY DEF InsertRing
  <2> QED
    BY <1>1, <1>2, <2>1, AppendType
<1> HIDE DEF n, R
<1> DEFINE B(k) == IF k <= top' THEN top' - k ELSE top' - k + R
<1>6. B(0) = top' /\ Behind(0) = top
  BY <1>1, <1>3 DEF Behind
<1>7. ASSUME NEW k \in 1 .. R - 1
      PROVE  B(k) = Behind(k - 1) /\ B(k) \in 0 .. R - 1 /\ B(k) # top'
  BY <1>1, <1>3 DEF Behind, R
<1>8. \A k \in 0 .. R - 1 : ring'[B(k)] = IF k < n + 1 THEN ringLog'[(n + 1) - k] ELSE 0
  <2> TAKE k \in 0 .. R - 1
  <2>1. CASE k = 0
    <3>1. 0 < n + 1 /\ n + 1 - 0 = n + 1
      BY <1>1
    <3>2. ring'[B(0)] = cur[h]
      BY <1>4, <1>6
    <3> QED
      BY <1>5, <2>1, <3>1, <3>2
  <2>2. CASE k \in 1 .. R - 1
    <3>1. ring'[B(k)] = ring[Behind(k - 1)]
      BY <1>4, <1>7, <2>2
    <3>2. k - 1 \in 0 .. R - 1
      BY <1>1, <2>2
    <3>3. ring[Behind(k - 1)] = IF k - 1 < n THEN ringLog[n - (k - 1)] ELSE 0
      BY <3>2 DEF RingInv, R, n
    <3>4. (k - 1 < n) = (k < n + 1) /\ n - (k - 1) = (n + 1) - k
      BY <1>1, <2>2
    <3>5. k - 1 < n => (n + 1) - k \in 1 .. n
      BY <1>1, <2>2
    <3>6. CASE k - 1 < n
      <4>1. ring'[B(k)] = ringLog[(n + 1) - k] /\ ringLog'[(n + 1) - k] = ringLog[(n + 1) - k]
        BY <1>5, <3>1, <3>3, <3>4, <3>5, <3>6
      <4>2. k < n + 1
        BY <3>4, <3>6
      <4> QED
        BY <4>1, <4>2
    <3>7. CASE ~(k - 1 < n)
      <4>1. ring'[B(k)] = 0
        BY <3>1, <3>3, <3>7
      <4>2. ~(k < n + 1)
        BY <3>4, <3>7
      <4> QED
        BY <4>1, <4>2
    <3> QED
      BY <3>6, <3>7
  <2> QED
    BY <1>1, <2>1, <2>2
<1>9. \A k \in 0 .. R - 1 : Behind(k)' = B(k)
  BY DEF Behind, R
<1>10. \A k \in 0 .. R - 1 :
         ring'[Behind(k)'] = IF k < Len(ringLog') THEN ringLog'[Len(ringLog') - k] ELSE 0
  <2>1. Len(ringLog') = n + 1
    BY <1>5
  <2> HIDE DEF B
  <2> TAKE k \in 0 .. R - 1
  <2>2. ring'[B(k)] = IF k < n + 1 THEN ringLog'[(n + 1) - k] ELSE 0
    BY <1>8, Zenon
  <2>3. Behind(k)' = B(k)
    BY <1>9, Zenon
  <2>4. ring'[Behind(k)'] = ring'[B(k)]
    BY <2>3, Zenon
  <2>5. ring'[B(k)] = IF k < Len(ringLog') THEN ringLog'[Len(ringLog') - k] ELSE 0
    <3>1. (k < Len(ringLog')) = (k < n + 1)
      BY <2>1, Zenon
    <3>2. Len(ringLog') - k = (n + 1) - k
      BY <2>1, Zenon
    <3> QED
      BY <2>2, <3>1, <3>2, Zenon
  <2> QED
    BY <2>4, <2>5, Zenon
<1>11. \A k \in 0 .. RingSize - 1 :
         ring'[Behind(k)'] = IF k < Len(ringLog') THEN ringLog'[Len(ringLog') - k] ELSE 0
  BY <1>10 DEF R
<1> QED
  BY <1>11, Zenon DEF RingInv

\* The last of what was kept and one more are the last of all.
LEMMA KeepLastOf ==
  ASSUME NEW S, NEW s \in Seq(S), NEW n \in Nat \ {0}
  PROVE  /\ Len(KeepLast(s, n)) = IF Len(s) > n THEN n ELSE Len(s)
         /\ KeepLast(s, n) \in Seq(S)
         /\ \A i \in 1 .. Len(KeepLast(s, n)) :
              KeepLast(s, n)[i] = s[Len(s) - Len(KeepLast(s, n)) + i]
<1>1. CASE Len(s) > n
  <2>1. KeepLast(s, n) = SubSeq(s, Len(s) - n + 1, Len(s))
    BY <1>1 DEF KeepLast
  <2> DEFINE t == SubSeq(s, Len(s) - n + 1, Len(s))
  <2>2. t \in Seq(S) /\ Len(t) = n
    BY <1>1
  <2>3. \A i \in 1 .. n : t[i] = s[Len(s) - n + i]
    BY <1>1, SMTT(30)
  <2> QED
    BY <1>1, <2>1, <2>2, <2>3
<1>2. CASE ~(Len(s) > n)
  <2>1. KeepLast(s, n) = s
    BY <1>2 DEF KeepLast
  <2>2. \A i \in 1 .. Len(s) : Len(s) - Len(s) + i = i
    OBVIOUS
  <2> QED
    BY <1>2, <2>1, <2>2
<1> QED
  BY <1>1, <1>2

LEMMA SameSeq ==
  ASSUME NEW S, NEW s \in Seq(S), NEW t \in Seq(S), Len(s) = Len(t),
         \A i \in 1 .. Len(s) : s[i] = t[i]
  PROVE  s = t
BY SMT

LEMMA KeepLastAppend ==
  ASSUME NEW S, NEW s \in Seq(S), NEW n \in Nat \ {0}, NEW x \in S
  PROVE  KeepLast(Append(KeepLast(s, n), x), n) = KeepLast(Append(s, x), n)
<1> DEFINE k == KeepLast(s, n)
           a == Append(k, x)
           b == Append(s, x)
           u == KeepLast(a, n)
           v == KeepLast(b, n)
<1>1. /\ Len(s) \in Nat /\ k \in Seq(S) /\ Len(k) \in Nat
      /\ Len(k) = IF Len(s) > n THEN n ELSE Len(s)
      /\ \A i \in 1 .. Len(k) : k[i] = s[Len(s) - Len(k) + i]
  BY KeepLastOf
<1>2. /\ a \in Seq(S) /\ Len(a) = Len(k) + 1 /\ a[Len(k) + 1] = x
      /\ \A i \in 1 .. Len(k) : a[i] = k[i]
  BY <1>1, AppendType
<1>3. /\ b \in Seq(S) /\ Len(b) = Len(s) + 1 /\ b[Len(s) + 1] = x
      /\ \A i \in 1 .. Len(s) : b[i] = s[i]
  BY AppendType
<1> HIDE DEF k, a, b
<1>4. /\ Len(u) = IF Len(a) > n THEN n ELSE Len(a)
      /\ u \in Seq(S)
      /\ \A i \in 1 .. Len(u) : u[i] = a[Len(a) - Len(u) + i]
  BY <1>2, KeepLastOf
<1>5. /\ Len(v) = IF Len(b) > n THEN n ELSE Len(b)
      /\ v \in Seq(S)
      /\ \A i \in 1 .. Len(v) : v[i] = b[Len(b) - Len(v) + i]
  BY <1>3, KeepLastOf
<1> HIDE DEF u, v
<1>6. Len(u) = Len(v)
  BY <1>1, <1>2, <1>3, <1>4, <1>5
<1>7. \A j \in 1 .. Len(a) : a[j] = b[Len(b) - Len(a) + j]
  <2> TAKE j \in 1 .. Len(a)
  <2>1. CASE j = Len(k) + 1
    <3>1. Len(b) - Len(a) + j = Len(s) + 1
      <4>1. Len(b) = Len(s) + 1 /\ Len(a) = Len(k) + 1 /\ Len(s) \in Nat /\ Len(k) \in Nat
        BY <1>1, <1>2, <1>3
      <4> QED
        BY <2>1, <4>1
    <3>2. a[j] = x
      BY <1>2, <2>1
    <3> QED
      BY <1>3, <3>1, <3>2
  <2>2. CASE j \in 1 .. Len(k)
    <3>1. a[j] = s[Len(s) - Len(k) + j]
      BY <1>1, <1>2, <2>2
    <3>2. Len(s) - Len(k) + j \in 1 .. Len(s) /\ Len(b) - Len(a) + j = Len(s) - Len(k) + j
      BY <1>1, <1>2, <1>3, <2>2
    <3> QED
      BY <1>3, <3>1, <3>2
  <2>3. j = Len(k) + 1 \/ j \in 1 .. Len(k)
    BY <1>1, <1>2
  <2> QED
    BY <2>1, <2>2, <2>3
<1>8. \A i \in 1 .. Len(u) : u[i] = v[i]
  <2> TAKE i \in 1 .. Len(u)
  <2> DEFINE j == Len(a) - Len(u) + i
  <2>0. /\ Len(a) \in Nat /\ Len(b) \in Nat /\ Len(u) \in Nat /\ i \in 1 .. Len(u)
        /\ Len(u) <= Len(a) /\ Len(v) = Len(u)
    BY <1>1, <1>2, <1>3, <1>4, <1>6
  <2>1. j \in 1 .. Len(a) /\ Len(b) - Len(a) + j = Len(b) - Len(v) + i
    <3>1. \A p, q, r \in Nat : \A y \in 1 .. r : r <= p =>
            p - r + y \in 1 .. p /\ q - p + (p - r + y) = q - r + y
      OBVIOUS
    <3> QED
      BY <2>0, <3>1
  <2>2. u[i] = a[j] /\ v[i] = b[Len(b) - Len(v) + i]
    BY <1>4, <1>5, <1>6
  <2> HIDE DEF j
  <2> QED
    BY <1>7, <2>1, <2>2
<1>9. u = v
  BY <1>4, <1>5, <1>6, <1>8, SameSeq
<1> QED
  BY <1>9 DEF u, v, a, b, k

LEMMA HistoryKeeps ==
  ASSUME TypeInv, HistoryInv, NEW h \in Handlers, Store(h)
  PROVE  HistoryInv'
<1> DEFINE u == cur[h]
           d == calls[u].dev
<1>1. pc[h] = "store"
  BY DEF Store
<1>2. d \in Devices /\ u \in Updates
  BY <1>1, CurType, CallFields DEF TypeInv, TypeOK
<1>3. /\ events'[d] = KeepLast(Append(events[d], u), MaxDeviceEvents) /\ last'[d] = u
      /\ storeLog'[d] = Append(storeLog[d], u)
      /\ \A e \in Devices \ {d} :
           events'[e] = events[e] /\ last'[e] = last[e] /\ storeLog'[e] = storeLog[e]
  BY <1>2 DEF Store, TypeInv, TypeOK, StoreOK
<1>4. storeLog[d] \in Seq(Updates)
  BY <1>2 DEF TypeInv, TypeOK, StoreOK
<1>5. events[d] = KeepLast(storeLog[d], MaxDeviceEvents)
  BY <1>2 DEF HistoryInv
<1> HIDE DEF u, d
<1>6. events'[d] = KeepLast(storeLog'[d], MaxDeviceEvents)
  BY <1>2, <1>3, <1>4, <1>5, FeedAssumption, KeepLastAppend
<1>7. storeLog'[d] # <<>> /\ storeLog'[d][Len(storeLog'[d])] = u
  <2>1. \A s \in Seq(Updates) : Append(s, u) # <<>> /\ Append(s, u)[Len(Append(s, u))] = u
    BY <1>2
  <2> QED
    BY <1>3, <1>4, <2>1
<1>8. ASSUME NEW e \in Devices
      PROVE  /\ events'[e] = KeepLast(storeLog'[e], MaxDeviceEvents)
             /\ last'[e] = IF storeLog'[e] = <<>> THEN 0 ELSE storeLog'[e][Len(storeLog'[e])]
  <2>1. CASE e = d
    BY <1>3, <1>6, <1>7, <2>1
  <2>2. CASE e # d
    BY <1>3, <2>2 DEF HistoryInv
  <2> QED
    BY <2>1, <2>2
<1> QED
  BY <1>8, Zenon DEF HistoryInv, KeepLast

\* Once around the ring from where it points: the newest value, then the oldest.
LEMMA WalkSlots ==
  ASSUME TypeInv, RingInv
  PROVE  /\ Walk \in Seq(Updates \cup {0}) /\ Len(Walk) = RingSize
         /\ Walk[1] = IF Len(ringLog) = 0 THEN 0 ELSE ringLog[Len(ringLog)]
         /\ \A i \in 2 .. RingSize :
              Walk[i] = IF (RingSize + 1) - i < Len(ringLog)
                        THEN ringLog[Len(ringLog) - ((RingSize + 1) - i)] ELSE 0
<1> DEFINE R == RingSize
           n == Len(ringLog)
<1>1. /\ R \in Nat \ {0} /\ top \in 0 .. R - 1
      /\ ring \in [0 .. R - 1 -> Updates \cup {0}] /\ n \in Nat
  BY FeedAssumption DEF TypeInv, TypeOK, RingOK, Rings
<1>2. ASSUME NEW i \in 1 .. R
      PROVE  /\ (top + i - 1) % R \in 0 .. R - 1
             /\ \E j \in Nat : /\ j = top + i - 1
                              /\ (top + i - 1) % R = IF j < R THEN j ELSE j - R
  <2>1. PICK j \in 0 .. 2 * R - 1 : j = top + i - 1
    BY <1>1
  <2>2. j % R = IF j < R THEN j ELSE j - R
    <3> HIDE DEF R
    <3> QED
      BY <1>1, RoundOnce
  <2>3. j % R \in 0 .. R - 1
    BY <1>1, <2>1, <2>2
  <2> HIDE DEF R
  <2>4. (top + i - 1) % R = j % R /\ j \in Nat
    BY <2>1
  <2> QED
    BY <2>1, <2>2, <2>3, <2>4, Zenon
<1>3. Walk = [i \in 1 .. R |-> ring[(top + i - 1) % R]]
  BY DEF Walk
<1>4. \A i \in 1 .. R : Walk[i] = ring[(top + i - 1) % R]
  BY <1>3, Zenon
<1>5. Walk \in Seq(Updates \cup {0}) /\ Len(Walk) = R
  <2> HIDE DEF R
  <2>1. \A i \in 1 .. R : ring[(top + i - 1) % R] \in Updates \cup {0}
    BY <1>1, <1>2
  <2> QED
    BY <1>1, <1>3, <2>1
<1>6. \A k \in 0 .. R - 1 : ring[Behind(k)] = IF k < n THEN ringLog[n - k] ELSE 0
  BY DEF RingInv
<1>7. ASSUME NEW i \in 2 .. R
      PROVE  (top + i - 1) % R = Behind((R + 1) - i)
  <2> HIDE DEF R
  <2>1. i \in 1 .. R
    BY <1>1
  <2>2. PICK j \in Nat : /\ j = top + i - 1
                         /\ (top + i - 1) % R = IF j < R THEN j ELSE j - R
    BY <1>2, <2>1, Zenon
  <2>3. PICK q : q = Behind((R + 1) - i)
    OBVIOUS
  <2>4. (j < R => j = q) /\ (~(j < R) => j - R = q)
    BY <1>1, <2>2, <2>3 DEF Behind, R
  <2>5. (top + i - 1) % R = q
    BY <2>2, <2>4, Zenon
  <2> QED
    BY <2>3, <2>5, Zenon
<1>8. (top + 1 - 1) % R = Behind(0)
  <2> HIDE DEF R
  <2>1. 1 \in 1 .. R
    BY <1>1
  <2>2. PICK j \in Nat : /\ j = top + 1 - 1
                         /\ (top + 1 - 1) % R = IF j < R THEN j ELSE j - R
    BY <1>2, <2>1, Zenon
  <2>3. PICK q : q = Behind(0)
    OBVIOUS
  <2>4. (j < R => j = q) /\ (~(j < R) => j - R = q)
    BY <1>1, <2>2, <2>3 DEF Behind, R
  <2>5. (top + 1 - 1) % R = q
    BY <2>2, <2>4, Zenon
  <2> QED
    BY <2>3, <2>5, Zenon
<1>9. Walk[1] = IF n = 0 THEN 0 ELSE ringLog[n]
  <2>1. 1 \in 1 .. R /\ 0 \in 0 .. R - 1
    BY <1>1
  <2>2. Walk[1] = ring[Behind(0)]
    BY <1>4, <1>8, <2>1, Zenon
  <2>3. Walk[1] = IF 0 < n THEN ringLog[n - 0] ELSE 0
    BY <1>6, <2>1, <2>2, Zenon
  <2>4. (0 < n) = ~(n = 0) /\ n - 0 = n
    BY <1>1
  <2> HIDE DEF n
  <2> QED
    BY <2>3, <2>4
<1>10. ASSUME NEW i \in 2 .. R
       PROVE  Walk[i] = IF (R + 1) - i < n THEN ringLog[n - ((R + 1) - i)] ELSE 0
  <2>1. i \in 1 .. R /\ (R + 1) - i \in 0 .. R - 1
    BY <1>1
  <2>2. Walk[i] = ring[Behind((R + 1) - i)]
    BY <1>4, <1>7, <2>1, Zenon
  <2> QED
    BY <1>6, <2>1, <2>2, Zenon
<1> QED
  BY <1>5, <1>9, <1>10, Zenon

\* The walk is the newest value, then slots never written, then the others from
\* the oldest on; GetGlobalEvents leaves out the slots never written.
LEMMA WalkCollects ==
  ASSUME TypeInv, RingInv
  PROVE  LET latest == KeepLast(ringLog, RingSize)
             n == Len(latest)
         IN  GetGlobalEvents = IF n = 0 THEN <<>>
                               ELSE <<latest[n]>> \o SubSeq(latest, 1, n - 1)
<1> DEFINE R == RingSize
           L == Len(ringLog)
           latest == KeepLast(ringLog, R)
           n == Len(latest)
           T == Updates \cup {0}
<1>1. /\ R \in Nat \ {0} /\ ringLog \in Seq(Updates) /\ L \in Nat
      /\ 0 \notin Updates /\ \A i \in 1 .. L : ringLog[i] \in Updates
  BY FeedAssumption DEF TypeInv, TypeOK, RingOK, Updates
<1>2. /\ n = IF L > R THEN R ELSE L
      /\ latest \in Seq(Updates)
      /\ \A i \in 1 .. n : latest[i] = ringLog[L - n + i]
  BY <1>1, KeepLastOf, Zenon
<1>3. /\ Walk \in Seq(T) /\ Len(Walk) = R
      /\ Walk[1] = IF L = 0 THEN 0 ELSE ringLog[L]
      /\ \A i \in 2 .. R :
           Walk[i] = IF (R + 1) - i < L THEN ringLog[L - ((R + 1) - i)] ELSE 0
  BY WalkSlots, Zenon
<1>4. GetGlobalEvents = Collect(Walk, Updates)
  BY DEF GetGlobalEvents
<1> HIDE DEF R, L, latest, n
<1>5. CASE n = 0
  <2>1. L = 0
    BY <1>1, <1>2, <1>5
  <2>2. \A i \in 1 .. R : Walk[i] = 0
    <3>1. \A i \in 2 .. R : ~((R + 1) - i < 0)
      BY <1>1
    <3>2. \A i \in 1 .. R : i = 1 \/ i \in 2 .. R
      BY <1>1
    <3> QED
      BY <1>3, <2>1, <3>1, <3>2
  <2>3. DOMAIN Walk = 1 .. R
    BY <1>3
  <2>4. \A i \in DOMAIN Walk : Walk[i] \notin Updates
    BY <1>1, <2>2, <2>3
  <2>5. GetGlobalEvents = <<>>
    BY <1>3, <1>4, <2>4, CollectNone, Zenon
  <2> QED
    BY <1>5, <2>5 DEF n, latest, R
<1>6. CASE n # 0
  <2> DEFINE a == <<latest[n]>>
             z == [i \in 1 .. R - n |-> 0]
             b == [i \in 1 .. n - 1 |-> latest[i]]
             w == a \o (z \o b)
  <2>1. n \in Nat \ {0} /\ n <= R /\ L # 0 /\ n <= L
    BY <1>1, <1>2, <1>6
  <2>2. \A i \in 1 .. n : latest[i] \in Updates
    BY <1>2 DEF n
  <2>3. /\ a \in Seq(Updates) /\ a \in Seq(T) /\ Len(a) = 1 /\ a[1] = latest[n]
        /\ z \in Seq(T) /\ Len(z) = R - n /\ \A i \in 1 .. R - n : z[i] = 0
        /\ b \in Seq(Updates) /\ b \in Seq(T) /\ Len(b) = n - 1
        /\ \A i \in 1 .. n - 1 : b[i] = latest[i]
    <3>1. n \in 1 .. n /\ \A i \in 1 .. n - 1 : i \in 1 .. n
      BY <2>1
    <3> QED
      BY <1>1, <2>1, <2>2, <3>1
  <2> HIDE DEF a, z, b
  <2>4. /\ z \o b \in Seq(T) /\ Len(z \o b) = R - 1
        /\ \A i \in 1 .. R - 1 : (z \o b)[i] = IF i <= R - n THEN 0 ELSE b[i - (R - n)]
    <3> DEFINE y == z \o b
    <3>0. R - n \in Nat /\ n - 1 \in Nat
      BY <1>1, <2>1
    <3>1. /\ y \in Seq(T) /\ Len(y) = (R - n) + (n - 1)
          /\ \A i \in 1 .. (R - n) + (n - 1) :
               y[i] = IF i <= R - n THEN z[i] ELSE b[i - (R - n)]
      <4> HIDE DEF T
      <4>1. z \in Seq(T) /\ b \in Seq(T) /\ Len(z) = R - n /\ Len(b) = n - 1
        BY <2>3
      <4> QED
        BY <3>0, <4>1
    <3> HIDE DEF y
    <3>2. (R - n) + (n - 1) = R - 1
      BY <1>1, <2>1
    <3>3. ASSUME NEW i \in 1 .. R - 1
          PROVE  y[i] = IF i <= R - n THEN 0 ELSE b[i - (R - n)]
      <4>1. i <= R - n => i \in 1 .. R - n
        BY <1>1, <2>1
      <4> QED
        BY <2>3, <3>1, <3>2, <4>1
    <3> QED
      BY <3>1, <3>2, <3>3 DEF y
  <2>5. /\ w \in Seq(T) /\ Len(w) = R /\ w[1] = latest[n]
        /\ \A i \in 2 .. R : w[i] = (z \o b)[i - 1]
    <3> DEFINE y == z \o b
    <3>1. y \in Seq(T) /\ Len(y) = R - 1
      BY <2>4
    <3> HIDE DEF y
    <3> DEFINE x == a \o y
    <3>2. /\ x \in Seq(T) /\ Len(x) = 1 + (R - 1)
          /\ \A i \in 1 .. 1 + (R - 1) : x[i] = IF i <= 1 THEN a[i] ELSE y[i - 1]
      <4> HIDE DEF T
      <4>1. R - 1 \in Nat /\ a \in Seq(T) /\ Len(a) = 1
        BY <1>1, <2>3
      <4>2. PICK m \in Nat, l \in Nat : m = 1 /\ l = R - 1
        BY <4>1
      <4>3. Len(a) = m /\ Len(y) = l
        BY <3>1, <4>1, <4>2
      <4>4. /\ x \in Seq(T) /\ Len(x) = m + l
            /\ \A i \in 1 .. m + l : x[i] = IF i <= m THEN a[i] ELSE y[i - m]
        BY <3>1, <4>1, <4>3
      <4> HIDE DEF x
      <4> QED
        BY <4>2, <4>4, Zenon
    <3> HIDE DEF x
    <3>3. 1 + (R - 1) = R /\ 1 \in 1 .. R
      BY <1>1
    <3>4. x[1] = latest[n]
      BY <2>3, <3>2, <3>3
    <3>5. \A i \in 2 .. R : x[i] = y[i - 1]
      BY <3>2, <3>3
    <3>6. w = x
      BY DEF x, y
    <3> QED
      BY <3>2, <3>3, <3>4, <3>5, <3>6 DEF y
  <2> HIDE DEF w
  <2>6. ASSUME NEW i \in 1 .. R PROVE Walk[i] = w[i]
    <3>1. CASE i = 1
      <4>1. n \in 1 .. n /\ L - n + n = L
        BY <1>1, <2>1
      <4>2. latest[n] = ringLog[L]
        BY <1>2, <4>1
      <4> QED
        BY <1>3, <2>1, <2>5, <3>1, <4>2
    <3>2. CASE i \in 2 .. R
      <4>1. /\ i - 1 \in 1 .. R - 1
            /\ w[i] = IF i - 1 <= R - n THEN 0 ELSE b[(i - 1) - (R - n)]
        <5> DEFINE k == i - 1
                   y == z \o b
        <5>1. k \in 1 .. R - 1
          BY <1>1, <3>2
        <5>2. w[i] = y[k]
          BY <2>5, <3>2
        <5> HIDE DEF k, y
        <5>3. \A q \in 1 .. R - 1 : y[q] = IF q <= R - n THEN 0 ELSE b[q - (R - n)]
          BY <2>4, Zenon DEF y
        <5>4. w[i] = IF k <= R - n THEN 0 ELSE b[k - (R - n)]
          BY <5>1, <5>2, <5>3, Zenon
        <5> QED
          BY <5>1, <5>4 DEF k
      <4>2. Walk[i] = IF (R + 1) - i < L THEN ringLog[L - ((R + 1) - i)] ELSE 0
        BY <1>3, <3>2
      <4>3. CASE i - 1 <= R - n
        <5>1. n = L
          BY <1>1, <1>2, <2>1, <3>2, <4>3
        <5>2. ~((R + 1) - i < L)
          BY <1>1, <2>1, <3>2, <4>3, <5>1
        <5> QED
          BY <4>1, <4>2, <4>3, <5>2
      <4>4. CASE ~(i - 1 <= R - n)
        <5> DEFINE j == (i - 1) - (R - n)
        <5>1. j \in 1 .. n - 1 /\ j \in 1 .. n /\ L - n + j = L - ((R + 1) - i)
          BY <1>1, <2>1, <3>2, <4>4
        <5>2. (R + 1) - i < L
          BY <1>1, <2>1, <3>2, <4>4
        <5> HIDE DEF j
        <5>3. w[i] = b[j]
          BY <4>1, <4>4 DEF j
        <5>4. b[j] = ringLog[L - n + j]
          BY <1>2, <2>3, <5>1
        <5>5. Walk[i] = ringLog[L - ((R + 1) - i)]
          BY <4>2, <5>2
        <5> QED
          BY <5>1, <5>3, <5>4, <5>5
      <4> QED
        BY <4>3, <4>4
    <3>3. i = 1 \/ i \in 2 .. R
      BY <1>1
    <3> QED
      BY <3>1, <3>2, <3>3
  <2>7. Walk = w
    BY <1>3, <2>5, <2>6, SameSeq
  <2>8. Collect(w, Updates) = Collect(a, Updates) \o (Collect(z, Updates) \o Collect(b, Updates))
    <3>1. Collect(z \o b, Updates) = Collect(z, Updates) \o Collect(b, Updates)
      BY <2>3, CollectConcat, Zenon
    <3>2. Collect(a \o (z \o b), Updates) = Collect(a, Updates) \o Collect(z \o b, Updates)
      BY <2>3, <2>4, CollectConcat, ZenonT(40)
    <3> QED
      BY <3>1, <3>2, Zenon DEF w
  <2>9. Collect(a, Updates) = a /\ Collect(b, Updates) = b
    <3>1. \A s \in Seq(Updates) : \A i \in DOMAIN s : s[i] \in Updates
      OBVIOUS
    <3> QED
      BY <2>3, <3>1, CollectAll, Zenon
  <2>10. Collect(z, Updates) = <<>>
    <3>1. \A i \in DOMAIN z : z[i] \notin Updates
      BY <1>1, <2>3
    <3> QED
      BY <2>3, <3>1, CollectNone, Zenon
  <2>11. a \o (<<>> \o b) = a \o b
    <3>1. <<>> \o b = b
      BY <2>3
    <3> QED
      BY <3>1, Zenon
  <2>12. b = SubSeq(latest, 1, n - 1)
    <3>1. SubSeq(latest, 1, n - 1) \in Seq(Updates)
      BY <1>2, <2>1 DEF n
    <3>2. Len(SubSeq(latest, 1, n - 1)) = n - 1
      BY <1>2, <2>1 DEF n
    <3>3. \A i \in 1 .. n - 1 : SubSeq(latest, 1, n - 1)[i] = latest[i]
      BY <1>2, <2>1 DEF n
    <3> QED
      BY <2>3, <3>1, <3>2, <3>3, SameSeq
  <2>13. GetGlobalEvents = a \o b
    BY <1>4, <2>7, <2>8, <2>9, <2>10, <2>11, Zenon
  <2>14. GetGlobalEvents = <<latest[n]>> \o SubSeq(latest, 1, n - 1)
    BY <2>12, <2>13, Zenon DEF a
  <2> QED
    BY <1>6, <2>14, Zenon DEF n, latest, R
<1> QED
  BY <1>5, <1>6

\* Only Store writes a device, and only InsertRing the ring.
LEMMA SnapFrame ==
  ASSUME RingInv, HistoryInv
  PROVE  /\ UNCHANGED ringVars => RingInv'
         /\ UNCHANGED storeVars => HistoryInv'
<1>1. ASSUME UNCHANGED ringVars PROVE RingInv'
  <2>1. ring' = ring /\ top' = top /\ ringLog' = ringLog
    BY <1>1 DEF ringVars
  <2>2. \A k : Behind(k)' = Behind(k)
    BY <2>1 DEF Behind
  <2> QED
    BY <2>1, <2>2 DEF RingInv
<1>2. ASSUME UNCHANGED storeVars PROVE HistoryInv'
  <2>1. events' = events /\ last' = last /\ storeLog' = storeLog
    BY <1>2 DEF storeVars
  <2> QED
    BY <2>1, Zenon DEF HistoryInv, KeepLast
<1> QED
  BY <1>1, <1>2

LEMMA SnapStep == TypeInv /\ RingInv /\ HistoryInv /\ [Next]_vars => RingInv' /\ HistoryInv'
<1> SUFFICES ASSUME TypeInv, RingInv, HistoryInv, [Next]_vars PROVE RingInv' /\ HistoryInv'
  OBVIOUS
<1>1. CASE UNCHANGED vars
  BY <1>1, SnapFrame DEF vars
<1>2. ASSUME NEW h \in Handlers, UpdateDevice(h) PROVE RingInv' /\ HistoryInv'
  <2>1. CASE Store(h)
    BY <2>1, SnapFrame, HistoryKeeps DEF Store
  <2>2. CASE InsertRing(h)
    BY <2>2, SnapFrame, RingKeeps DEF InsertRing
  <2>3. CASE SendDevice(h) \/ SendEvent(h) \/ SendDetail(h)
    BY <2>3, SnapFrame, Zenon DEF SendDevice, SendEvent, SendDetail
  <2> QED
    BY <1>2, <2>1, <2>2, <2>3 DEF UpdateDevice
<1>3. CASE \/ CloseDeviceUpdates \/ CloseEventUpdates
           \/ BroadcastDevice \/ BroadcastEvent
  BY <1>3, SnapFrame, Zenon DEF CloseDeviceUpdates, CloseEventUpdates, BroadcastDevice,
                         BroadcastEvent
<1>4. ASSUME NEW h \in Handlers, NEW d \in Devices, NEW code \in Codes, Begin(h, d, code)
      PROVE  RingInv' /\ HistoryInv'
  BY <1>4, SnapFrame, Zenon DEF Begin
<1>5. ASSUME NEW d \in Devices, OpenChannel(d) \/ CloseChannel(d) PROVE RingInv' /\ HistoryInv'
  BY <1>5, SnapFrame, Zenon DEF OpenChannel, CloseChannel
<1>6. ASSUME NEW c \in Channels, TakeDetail(c) PROVE RingInv' /\ HistoryInv'
  BY <1>6, SnapFrame, Zenon DEF TakeDetail
<1> QED
  BY <1>1, <1>2, <1>3, <1>4, <1>5, <1>6 DEF Next

LEMMA SnapInit == Init => RingInv /\ HistoryInv
<1> SUFFICES ASSUME Init PROVE RingInv /\ HistoryInv
  OBVIOUS
<1>1. RingInv
  <2>1. top = 0 /\ ringLog = <<>> /\ \A i \in 0 .. RingSize - 1 : ring[i] = 0
    BY DEF Init, Rings
  <2>2. ASSUME NEW k \in 0 .. RingSize - 1
        PROVE  Behind(k) \in 0 .. RingSize - 1 /\ ~(k < Len(ringLog))
    BY <2>1, FeedAssumption DEF Behind
  <2> QED
    BY <2>1, <2>2 DEF RingInv
<1>2. HistoryInv
  <2>1. \A d \in Devices : events[d] = <<>> /\ last[d] = 0 /\ storeLog[d] = <<>>
    BY Zenon DEF Init
  <2>2. KeepLast(<<>>, MaxDeviceEvents) = <<>>
    <3>1. Len(<<>>) = 0 /\ ~(0 > MaxDeviceEvents)
      BY FeedAssumption
    <3> QED
      BY <3>1 DEF KeepLast
  <2> QED
    BY <2>1, <2>2, Zenon DEF HistoryInv
<1> QED
  BY <1>1, <1>2

\* However the handlers' critical sections interleave: a device shows the last
\* event stored for it and the last MaxDeviceEvents of them, and once around the
\* ring are the last RingSize insertions, each once, none missing, the newest
\* first (GetGlobalEvents, server.go:359-381; UpdateDevice, server.go:262-303).
THEOREM SnapshotsLatest == Spec => []SnapshotsAreLatest
<1>1. Init => TypeInv /\ RingInv /\ HistoryInv
  BY TypeInit, SnapInit
<1>2. TypeInv /\ RingInv /\ HistoryInv /\ [Next]_vars => (TypeInv /\ RingInv /\ HistoryInv)'
  BY TypeStep, SnapStep
<1>3. TypeInv /\ RingInv /\ HistoryInv => SnapshotsAreLatest
  <2> SUFFICES ASSUME TypeInv, RingInv, HistoryInv PROVE SnapshotsAreLatest
    OBVIOUS
  <2> QED
    BY WalkCollects, Zenon DEF HistoryInv, SnapshotsAreLatest
<1> QED
  BY <1>1, <1>2, <1>3, PTL DEF Spec

-----------------------------------------------------------------------------
(* What was pushed is found. *)

\* What is in the channel of events, or was taken from it and broadcast, went
\* into the ring before; what was broadcast is described.
PushInv ==
  /\ \A i \in 1 .. Len(eventUpdates) :
       eventUpdates[i] \in 1 .. Len(calls) /\ eventUpdates[i] \in Elems(ringLog)
  /\ \A i \in 1 .. Len(shownEvents) :
       /\ shownEvents[i] \in 1 .. Len(calls) /\ shownEvents[i] \in Elems(ringLog)
       /\ calls[shownEvents[i]].code \in Described

\* A step that only adds to the calls and the ring keeps it.
LEMMA PushGrows ==
  ASSUME TypeInv, PushInv, UNCHANGED <<eventUpdates, shownEvents>>,
         Len(calls') \in Nat, Len(calls) <= Len(calls'),
         \A i \in 1 .. Len(calls) : calls'[i] = calls[i],
         Elems(ringLog) \subseteq Elems(ringLog')
  PROVE  PushInv'
<1>1. Len(calls) \in Nat
  BY DEF TypeInv, TypeOK, CallsOK
<1>2. 1 .. Len(calls) \subseteq 1 .. Len(calls')
  BY <1>1
<1> QED
  BY <1>2, Zenon DEF PushInv

LEMMA PushBegin ==
  ASSUME TypeInv, PushInv, NEW h \in Handlers, NEW d \in Devices,
         NEW code \in Codes, Begin(h, d, code)
  PROVE  PushInv'
<1> DEFINE r == [by |-> h, dev |-> d, code |-> code]
<1>1. r \in Call /\ calls \in Seq(Call) /\ calls' = Append(calls, r)
  BY DEF Begin, Call, TypeInv, TypeOK, CallsOK
<1>2. /\ Len(calls') = Len(calls) + 1 /\ Len(calls) \in Nat
      /\ \A i \in 1 .. Len(calls) : calls'[i] = calls[i]
  BY <1>1, AppendType
<1>3. UNCHANGED <<eventUpdates, shownEvents, ringLog>>
  BY DEF Begin, uiVars, ringVars
<1>4. Elems(ringLog') = Elems(ringLog)
  BY <1>3, Zenon DEF Elems
<1>5. Len(calls') \in Nat /\ Len(calls) <= Len(calls')
  BY <1>2
<1> QED
  BY <1>2, <1>3, <1>4, <1>5, PushGrows

LEMMA PushFrame ==
  ASSUME TypeInv, PushInv, UNCHANGED <<calls, eventUpdates, shownEvents>>,
         Elems(ringLog) \subseteq Elems(ringLog')
  PROVE  PushInv'
<1>1. Len(calls) \in Nat /\ calls' = calls
  BY DEF TypeInv, TypeOK, CallsOK
<1>2. Len(calls') \in Nat /\ Len(calls) <= Len(calls')
  BY <1>1
<1> QED
  BY <1>1, <1>2, PushGrows

LEMMA PushInsertRing ==
  ASSUME TypeInv, PushInv, NEW h \in Handlers, InsertRing(h)
  PROVE  PushInv'
<1>1. /\ pc[h] = "ring" /\ UNCHANGED <<calls, eventUpdates, shownEvents>>
      /\ ringLog' = Append(ringLog, cur[h])
  BY DEF InsertRing, uiVars
<1>2. Elems(ringLog') = Elems(ringLog) \cup {cur[h]}
  BY <1>1, CurType, ElemsAppend DEF TypeInv, TypeOK, RingOK
<1> QED
  BY <1>1, <1>2, PushFrame

LEMMA PushSendEvent ==
  ASSUME TypeInv, StoredInv, PushInv, NEW h \in Handlers, SendEvent(h)
  PROVE  PushInv'
<1>1. pc[h] = "event" /\ UNCHANGED <<calls, shownEvents, ringLog>>
  BY DEF SendEvent, ringVars
<1>2. cur[h] \in 1 .. Len(calls) /\ cur[h] \in Elems(ringLog)
  BY <1>1 DEF TypeInv, LocalInv, StoredInv
<1>3. cur[h] \in Updates /\ eventUpdates \in Seq(Updates)
  BY <1>1, CurType DEF TypeInv, TypeOK, UiOK
<1>4. eventUpdates' = eventUpdates \/ eventUpdates' = Append(eventUpdates, cur[h])
  BY Zenon DEF SendEvent
<1>5. \A i \in 1 .. Len(eventUpdates') :
        eventUpdates'[i] \in 1 .. Len(calls) /\ eventUpdates'[i] \in Elems(ringLog)
  <2>1. CASE eventUpdates' = eventUpdates
    BY <2>1 DEF PushInv
  <2>2. CASE eventUpdates' = Append(eventUpdates, cur[h])
    BY <1>2, <1>3, <2>2 DEF PushInv
  <2> QED
    BY <1>4, <2>1, <2>2
<1> QED
  BY <1>1, <1>5, Zenon DEF PushInv, Elems

LEMMA PushBroadcast ==
  ASSUME TypeInv, PushInv, BroadcastEvent
  PROVE  PushInv'
<1> DEFINE u == Head(eventUpdates)
<1>1. /\ eventUpdates # <<>> /\ UNCHANGED <<calls, ringLog>>
      /\ eventUpdates' = Tail(eventUpdates)
      /\ shownEvents' = IF calls[u].code \in Described
                        THEN Append(shownEvents, u) ELSE shownEvents
  BY DEF BroadcastEvent, ringVars
<1>2. eventUpdates \in Seq(Updates) /\ shownEvents \in Seq(Updates)
  BY DEF TypeInv, TypeOK, UiOK
<1>3. /\ u = eventUpdates[1] /\ 1 \in 1 .. Len(eventUpdates) /\ u \in Updates
      /\ Len(eventUpdates') \in Nat
      /\ \A i \in 1 .. Len(eventUpdates') :
           i + 1 \in 1 .. Len(eventUpdates) /\ eventUpdates'[i] = eventUpdates[i + 1]
  BY <1>1, <1>2
<1>4. u \in 1 .. Len(calls) /\ u \in Elems(ringLog)
  BY <1>3 DEF PushInv
<1>5. \A i \in 1 .. Len(eventUpdates') :
        eventUpdates'[i] \in 1 .. Len(calls) /\ eventUpdates'[i] \in Elems(ringLog)
  BY <1>3 DEF PushInv
<1> HIDE DEF u
<1>6. \A i \in 1 .. Len(shownEvents') :
        /\ shownEvents'[i] \in 1 .. Len(calls) /\ shownEvents'[i] \in Elems(ringLog)
        /\ calls[shownEvents'[i]].code \in Described
  <2>1. CASE calls[u].code \in Described
    <3>1. shownEvents' = Append(shownEvents, u)
      BY <1>1, <2>1
    <3>2. /\ Len(shownEvents') = Len(shownEvents) + 1 /\ Len(shownEvents) \in Nat
          /\ shownEvents'[Len(shownEvents) + 1] = u
          /\ \A i \in 1 .. Len(shownEvents) : shownEvents'[i] = shownEvents[i]
      BY <1>2, <1>3, <3>1, AppendType
    <3> TAKE i \in 1 .. Len(shownEvents')
    <3>3. i = Len(shownEvents) + 1 \/ i \in 1 .. Len(shownEvents)
      BY <3>2
    <3> QED
      BY <1>4, <2>1, <3>2, <3>3, Zenon DEF PushInv
  <2>2. CASE calls[u].code \notin Described
    BY <1>1, <2>2, Zenon DEF PushInv
  <2> QED
    BY <2>1, <2>2
<1>7. Elems(ringLog') = Elems(ringLog) /\ calls' = calls
  BY <1>1, Zenon DEF Elems
<1>8. Elems(ringLog)' = Elems(ringLog')
  BY Zenon DEF Elems
<1> QED
  BY <1>5, <1>6, <1>7, <1>8, Zenon DEF PushInv

LEMMA PushStep == TypeInv /\ StoredInv /\ PushInv /\ [Next]_vars => PushInv'
<1> SUFFICES ASSUME TypeInv, StoredInv, PushInv, [Next]_vars PROVE PushInv'
  OBVIOUS
<1>0. ringLog' = ringLog => Elems(ringLog) \subseteq Elems(ringLog')
  BY Zenon
<1>1. CASE UNCHANGED vars
  BY <1>0, <1>1, PushFrame DEF vars, ringVars, uiVars
<1>2. ASSUME NEW h \in Handlers, UpdateDevice(h) PROVE PushInv'
  <2>1. CASE Store(h) \/ SendDevice(h) \/ SendDetail(h)
    <3>1. UNCHANGED <<calls, eventUpdates, shownEvents, ringLog>>
      BY <2>1, Zenon DEF Store, SendDevice, SendDetail, ringVars, uiVars
    <3> QED
      BY <1>0, <3>1, PushFrame
  <2> QED
    BY <1>2, <2>1, PushInsertRing, PushSendEvent DEF UpdateDevice
<1>3. CASE CloseDeviceUpdates \/ CloseEventUpdates \/ BroadcastDevice
  <2>1. UNCHANGED <<calls, eventUpdates, shownEvents, ringLog>>
    BY <1>3, Zenon DEF CloseDeviceUpdates, CloseEventUpdates, BroadcastDevice,
                       ringVars, uiVars
  <2> QED
    BY <1>0, <2>1, PushFrame
<1>4. ASSUME NEW d \in Devices, OpenChannel(d) \/ CloseChannel(d) PROVE PushInv'
  BY <1>0, <1>4, PushFrame DEF OpenChannel, CloseChannel, ringVars, uiVars
<1>5. ASSUME NEW c \in Channels, TakeDetail(c) PROVE PushInv'
  BY <1>0, <1>5, PushFrame DEF TakeDetail, ringVars, uiVars
<1> QED
  BY <1>1, <1>2, <1>3, <1>4, <1>5, PushBegin, PushBroadcast DEF Next

\* One of the last RingSize insertions is met on the way round the ring.
LEMMA WalkMeets ==
  ASSUME TypeInv, RingInv, NEW i \in 1 .. Len(ringLog), i > Len(ringLog) - RingSize
  PROVE  ringLog[i] \in Members(GetGlobalEvents)
<1> DEFINE R == RingSize
           L == Len(ringLog)
           j == IF i = L THEN 1 ELSE (R + 1) - (L - i)
<1>1. R \in Nat \ {0} /\ L \in Nat /\ ringLog \in Seq(Updates)
  BY FeedAssumption DEF TypeInv, TypeOK, RingOK
<1>2. ringLog[i] \in Updates
  BY <1>1
<1>3. /\ Walk \in Seq(Updates \cup {0}) /\ Len(Walk) = R
      /\ Walk[1] = IF L = 0 THEN 0 ELSE ringLog[L]
      /\ \A k \in 2 .. R :
           Walk[k] = IF (R + 1) - k < L THEN ringLog[L - ((R + 1) - k)] ELSE 0
  BY WalkSlots, Zenon
<1>4. j \in 1 .. R /\ Walk[j] = ringLog[i]
  <2>1. CASE i = L
    BY <1>1, <1>3, <2>1
  <2>2. CASE i # L
    <3>0. j = (R + 1) - (L - i) /\ i \in 1 .. L /\ i > L - R
      BY <2>2
    <3>1. j \in 2 .. R /\ (R + 1) - j < L /\ L - ((R + 1) - j) = i
      <4> HIDE DEF j, L, R
      <4> QED
        BY <1>1, <2>2, <3>0
    <3>2. j \in 1 .. R
      BY <1>1, <3>1
    <3> HIDE DEF j, L
    <3>3. Walk[j] = ringLog[L - ((R + 1) - j)]
      BY <1>3, <3>1
    <3> QED
      BY <3>1, <3>2, <3>3
  <2> QED
    BY <2>1, <2>2
<1>5. j \in DOMAIN Walk
  BY <1>3, <1>4
<1>6. ringLog[i] \in Members(Walk)
  BY <1>4, <1>5, Zenon DEF Members
<1>7. Members(GetGlobalEvents) = Members(Walk) \cap Updates
  BY <1>3, CollectMembers, Zenon DEF GetGlobalEvents
<1> QED
  BY <1>2, <1>6, <1>7

LEMMA PushesMet ==
  ASSUME TypeInv, RingInv, PushInv
  PROVE  PushesAreInSnapshots
<1> SUFFICES ASSUME NEW u \in Elems(shownEvents),
                    ~\E i \in 1 .. Len(ringLog) - RingSize : ringLog[i] = u
             PROVE  u \in Elems(ApiEvents)
  BY Zenon DEF PushesAreInSnapshots
<1> DEFINE Known == {x \in 1 .. Len(calls) : calls[x].code \in Described}
           T == Updates \cup {0}
<1>1. u \in 1 .. Len(calls) /\ u \in Elems(ringLog) /\ calls[u].code \in Described
  BY DEF Elems, PushInv
<1>2. PICK i \in 1 .. Len(ringLog) : ringLog[i] = u
  BY <1>1 DEF Elems
<1>3. i > Len(ringLog) - RingSize
  <2>1. RingSize \in Nat /\ Len(ringLog) \in Nat
    BY FeedAssumption DEF TypeInv, TypeOK, RingOK
  <2>2. i \notin 1 .. Len(ringLog) - RingSize
    BY <1>2
  <2> QED
    BY <2>1, <2>2
<1>4. u \in Members(GetGlobalEvents)
  BY <1>2, <1>3, WalkMeets
<1>5. GetGlobalEvents \in Seq(T)
  <2>1. Walk \in Seq(T)
    BY WalkSlots
  <2> QED
    BY <2>1, CollectType, Zenon DEF GetGlobalEvents
<1>6. u \in Members(ApiEvents)
  <2>1. Members(ApiEvents) = Members(GetGlobalEvents) \cap Known
    BY <1>5, CollectMembers, Zenon DEF ApiEvents
  <2> QED
    BY <1>1, <1>4, <2>1
<1>7. DOMAIN ApiEvents = 1 .. Len(ApiEvents)
  <2>1. ApiEvents \in Seq(T)
    BY <1>5, CollectType, Zenon DEF ApiEvents
  <2> HIDE DEF T
  <2> QED
    BY <2>1
<1> QED
  BY <1>6, <1>7, Zenon DEF Members, Elems

\* For any number of handlers, whatever is dropped and however late the
\* broadcaster is: a client that was pushed an event finds it in GET /api/events
\* until RingSize later events have displaced it (server.go:298-318,
\* main_headless.go:77-96, api.go:173-216).
THEOREM PushesFound == Spec => []PushesAreInSnapshots
<1> DEFINE Inv == TypeInv /\ StoredInv /\ RingInv /\ HistoryInv /\ PushInv
<1>1. Init => Inv
  <2>1. Init => PushInv
    <3> SUFFICES ASSUME Init PROVE PushInv
      OBVIOUS
    <3>1. ~(\E i \in 1 .. Len(eventUpdates) : TRUE) /\ ~(\E i \in 1 .. Len(shownEvents) : TRUE)
      BY SMT DEF Init
    <3> QED
      BY <3>1, Zenon DEF PushInv
  <2> QED
    BY <2>1, TypeInit, StoredInit, SnapInit
<1>2. Inv /\ [Next]_vars => Inv'
  BY TypeStep, StoredStep, SnapStep, PushStep
<1>3. Inv => PushesAreInSnapshots
  BY PushesMet
<1> QED
  BY <1>1, <1>2, <1>3, PTL DEF Spec
=============================================================================
