------------------------- MODULE AppLifecycleProofs -------------------------
(***************************************************************************)
(* Theorems about AppLifecycle, for any number of connections.             *)
(***************************************************************************)
EXTENDS AppLifecycle, TLAPS

-----------------------------------------------------------------------------
(* Types, and what App.wg counts.                                          *)

ServerCount == IF serverRun \in {"begin", "listen", "serving"} THEN 1 ELSE 0
ClientCount == IF clientRun = "begin" THEN 1 ELSE 0

\* App.wg counts the goroutines of Startup that have not returned, and main
\* returns when there are none.  It starts Startup first of all.
RunsInv ==
  /\ startup = "done" <=> serverRun # "none"
  /\ startup = "done" <=> clientRun # "none"
  /\ appWg = ServerCount + ClientCount
  /\ main = "exited" => appWg = 0
  /\ main = "boot" => startup = "none"

TypeInv == TypeOK /\ RunsInv

LEMMA TypeInit == Init => TypeInv
<1> SUFFICES ASSUME Init PROVE TypeInv
  OBVIOUS
<1> USE DEF Init
<1>1. TypeOK
  <2>1. sigChan \in 0 .. 1 /\ appWg \in 0 .. 2
    OBVIOUS
  <2>2. conn \in [Conns -> {"away", "queued", "inhand", "serving", "ending", "leaked"}]
    OBVIOUS
  <2>3. ctxDone \in BOOLEAN
    BY Zenon
  <2> QED
    BY <2>1, <2>2, <2>3, Zenon DEF TypeOK, Over
<1>2. ServerCount = 0 /\ ClientCount = 0
  BY DEF ServerCount, ClientCount
<1>3. RunsInv
  BY <1>2 DEF RunsInv
<1> QED
  BY <1>1, <1>3 DEF TypeInv

LEMMA SignalTypes == ASSUME TypeInv, Signals PROVE TypeInv'
<1> USE DEF TypeInv, TypeOK, RunsInv, ServerCount, ClientCount, server
<1>1. main' = main \/ main' = "killed"
  BY Zenon DEF Signals, Interrupt, Quit
<1>2. ctxDone' \in BOOLEAN
  BY Zenon DEF Signals, Interrupt, Quit
<1>3. sigChan' \in 0 .. 1
  BY DEF Signals, Interrupt, Quit
<1>4. UNCHANGED <<startup, appWg, serverRun, clientRun, server>>
  BY Zenon DEF Signals, Interrupt, Quit
<1>5. (main' = "exited" => main = "exited") /\ (main' = "boot" => main = "boot")
  BY <1>1
<1>6. main' \in {"boot", "register", "waiting", "cancel", "stop", "close", "await",
                "join"} \cup Over
  BY <1>1 DEF Over
<1> QED
  BY <1>2, <1>3, <1>4, <1>5, <1>6

LEMMA MainTypes == ASSUME TypeInv, Main PROVE TypeInv'
<1> USE DEF TypeInv, TypeOK, RunsInv, ServerCount, ClientCount, Over
<1>1. CASE NewApp
  BY <1>1 DEF NewApp, server
<1>2. CASE Register
  BY <1>2 DEF Register, server
<1>3. CASE ReceiveSignal
  BY <1>3 DEF ReceiveSignal, server
<1>4. CASE Cancel
  <2>1. ctxDone' \in BOOLEAN
    BY <1>4, Zenon DEF Cancel
  <2>2. main' = "stop" /\ UNCHANGED <<sigChan, startup, appWg, serverRun, clientRun, server>>
    BY <1>4, Zenon DEF Cancel
  <2> QED
    BY <2>1, <2>2 DEF server
<1>5. CASE StopServer
  BY <1>5 DEF StopServer, server
<1>6. CASE StopListener
  BY <1>6 DEF StopListener, CloseListener
<1>7. CASE AwaitConns
  BY <1>7 DEF AwaitConns, server
<1>8. CASE Join
  BY <1>8 DEF Join, server
<1> QED
  BY <1>1, <1>2, <1>3, <1>4, <1>5, <1>6, <1>7, <1>8 DEF Main

LEMMA RunTypes == ASSUME TypeInv, Runs PROVE TypeInv'
<1> USE DEF TypeInv, TypeOK, RunsInv, ServerCount, ClientCount, Over, Alive, server, app
<1>1. CASE Startup
  BY <1>1 DEF Startup
<1>2. CASE ServerBegins
  BY <1>2 DEF ServerBegins
<1>3. CASE Listen
  BY <1>3 DEF Listen
<1>4. CASE ListenFails
  BY <1>4 DEF ListenFails
<1>5. CASE ServerEnds
  BY <1>5 DEF ServerEnds
<1>6. CASE ClientEnds
  BY <1>6 DEF ClientEnds
<1> QED
  BY <1>1, <1>2, <1>3, <1>4, <1>5, <1>6 DEF Runs

LEMMA ConnectionTypes == ASSUME TypeInv, Connections PROVE TypeInv'
<1> USE DEF TypeInv, TypeOK, RunsInv, ServerCount, ClientCount, Over, Alive, app
<1>1. ASSUME NEW c \in Conns, Connect(c) PROVE TypeInv'
  BY <1>1 DEF Connect
<1>2. ASSUME NEW c \in Conns, Accept(c) PROVE TypeInv'
  BY <1>2 DEF Accept
<1>3. ASSUME NEW c \in Conns, StartHandler(c) PROVE TypeInv'
  BY <1>3 DEF StartHandler
<1>4. CASE AcceptEnds
  BY <1>4 DEF AcceptEnds
<1>5. ASSUME NEW c \in Conns, HandlerEnds(c) PROVE TypeInv'
  BY <1>5 DEF HandlerEnds
<1>6. ASSUME NEW c \in Conns, ReleaseWaiter(c) PROVE TypeInv'
  <2>1. /\ UNCHANGED <<sigChan, ctxDone, startup, appWg, serverRun, clientRun>>
        /\ UNCHANGED <<listener, acceptor>>
    BY <1>6, Zenon DEF ReleaseWaiter
  <2>2. main' \in {main, "crashed"}
    BY <1>6, Zenon DEF ReleaseWaiter
  <2>3. counted' \subseteq Conns /\ waiter' \in {waiter, "released"}
    BY <1>6 DEF ReleaseWaiter
  <2>4. conn' = conn \/ conn' = [conn EXCEPT ![c] = "away"]
    BY <1>6, Zenon DEF ReleaseWaiter
  <2> QED
    BY <2>1, <2>2, <2>3, <2>4
<1>7. CASE WaitBegins
  BY <1>7 DEF WaitBegins
<1>8. CASE WaitReturns
  BY <1>8 DEF WaitReturns
<1> QED
  BY <1>1, <1>2, <1>3, <1>4, <1>5, <1>6, <1>7, <1>8 DEF Connections

LEMMA TypeStep == TypeInv /\ [Next]_vars => TypeInv'
<1> SUFFICES ASSUME TypeInv, [Next]_vars PROVE TypeInv'
  OBVIOUS
<1>1. CASE UNCHANGED vars
  BY <1>1 DEF vars, app, server, TypeInv, TypeOK, RunsInv, ServerCount, ClientCount
<1> QED
  BY <1>1, SignalTypes, MainTypes, RunTypes, ConnectionTypes DEF Next

\* Type correctness, with the meaning of App.wg.
THEOREM LifecycleTypes == Spec => [](TypeOK /\ RunsInv)
<1>1. TypeInv => TypeOK /\ RunsInv
  BY DEF TypeInv
<1> QED
  BY <1>1, TypeInit, TypeStep, PTL DEF Spec

\* Shutdown does not return before the goroutines Startup has started have.
THEOREM RunsAreJoined == Spec => []JoinedRuns
<1>1. TypeInv => JoinedRuns
  BY DEF TypeInv, TypeOK, RunsInv, JoinedRuns, ServerCount, ClientCount
<1> QED
  BY <1>1, TypeInit, TypeStep, PTL DEF Spec

-----------------------------------------------------------------------------
(* What Stop has waited for.                                               *)

InHand(c) == conn[c] = "inhand"
Serving(c) == conn[c] = "serving"
Ending(c) == conn[c] = "ending"

\* acceptConnections has one connection in hand at most.
HandInv ==
  /\ \A c \in Conns : InHand(c) => acceptor = "inhand"
  /\ \A c, d \in Conns : InHand(c) /\ InHand(d) => c = d

\* Nobody queues at a listener that is not open, and nothing precedes it.
ListenerInv ==
  /\ \A c \in Conns : conn[c] = "queued" => listener = "open"
  /\ serverRun \in {"none", "begin", "listen"} => acceptor = "none" /\ listener = "none"

\* A handler that runs is counted.  One that is about to release the waiter is
\* the last, and who was counted since then is not served.
CountInv ==
  /\ \A c \in Conns : Serving(c) => c \in counted
  /\ \A c \in Conns : Ending(c) =>
       /\ waiter = "parked"
       /\ \A d \in Conns : ~Serving(d) /\ (Ending(d) => c = d)
       /\ counted # {} => acceptor = "over"

\* The listener is closed before the waiter exists, and once.
WaiterInv == waiter # "none" => main \in {"await", "join"} \cup Over

StopInv == HandInv /\ ListenerInv /\ CountInv /\ WaiterInv /\ GracefulStop

LEMMA StopInit == Init => StopInv
BY DEF Init, StopInv, HandInv, ListenerInv, CountInv, WaiterInv, GracefulStop,
       InHand, Serving, Ending

\* A step that leaves the connections and the waiter alone.
LEMMA QuietStep ==
  ASSUME StopInv, UNCHANGED server,
         UNCHANGED serverRun \/ serverRun' \notin {"none", "begin"} \/ serverRun = "none",
         serverRun' = "listen" => serverRun = "begin" \/ serverRun = "listen",
         serverRun' = "begin" => serverRun = "none" \/ serverRun = "begin",
         waiter # "none" /\ main \in {"await", "join"} \cup Over
           => main' \in {"await", "join"} \cup Over
  PROVE  StopInv'
BY DEF StopInv, HandInv, ListenerInv, CountInv, WaiterInv, GracefulStop,
       InHand, Serving, Ending, server

LEMMA SignalStop == ASSUME TypeInv, StopInv, Signals PROVE StopInv'
<1>1. UNCHANGED <<server, serverRun>>
  BY Zenon DEF Signals, Interrupt, Quit
<1>2. main' = main \/ main' = "killed"
  BY Zenon DEF Signals, Interrupt, Quit
<1> QED
  BY <1>1, <1>2, QuietStep DEF Over, TypeInv, TypeOK

\* Closing the listener with the waiter made is the one step of main that
\* touches the connections.
LEMMA MainStop == ASSUME TypeInv, StopInv, Main PROVE StopInv'
<1>1. CASE StopListener
  <2> USE <1>1 DEF StopListener, CloseListener, StopInv
  <2>1. waiter = "none" /\ waiter' = "begin"
    BY DEF WaiterInv, Over
  <2>2. \A c \in Conns : conn'[c] = conn[c] \/ (conn[c] = "queued" /\ conn'[c] = "away")
    OBVIOUS
  <2>3. HandInv'
    BY <2>2 DEF HandInv, InHand
  <2>4. ListenerInv'
    <3>1. \A c \in Conns : conn'[c] = "queued" => listener' = "open"
      BY DEF ListenerInv
    <3> QED
      BY <3>1 DEF ListenerInv
  <2>5. CountInv'
    BY <2>1, <2>2 DEF CountInv, Serving, Ending
  <2>6. WaiterInv'
    BY DEF WaiterInv
  <2>7. GracefulStop'
    BY <2>1 DEF GracefulStop
  <2> QED
    BY <2>3, <2>4, <2>5, <2>6, <2>7 DEF StopInv
<1>2. CASE NewApp \/ Register \/ ReceiveSignal \/ Cancel \/ StopServer
  <2>1. UNCHANGED <<server, serverRun>>
    BY <1>2, Zenon DEF NewApp, Register, ReceiveSignal, Cancel, StopServer
  <2>2. main \in {"boot", "register", "waiting", "cancel", "stop"}
    BY <1>2, Zenon DEF NewApp, Register, ReceiveSignal, Cancel, StopServer
  <2> QED
    BY <2>1, <2>2, QuietStep DEF Over, TypeInv, TypeOK
<1>3. CASE AwaitConns \/ Join
  <2>1. UNCHANGED <<server, serverRun>> /\ main' \in {"join", "exited"}
    BY <1>3, Zenon DEF AwaitConns, Join
  <2> QED
    BY <2>1, QuietStep DEF Over, TypeInv, TypeOK
<1> QED
  BY <1>1, <1>2, <1>3, Zenon DEF Main

LEMMA RunStop == ASSUME TypeInv, StopInv, Runs PROVE StopInv'
<1>1. CASE Listen
  <2> USE <1>1 DEF Listen, StopInv, app
  <2>1. acceptor = "none" /\ listener = "none"
    BY DEF ListenerInv
  <2>2. HandInv'
    BY <2>1 DEF HandInv, InHand
  <2>3. ListenerInv'
    BY <2>1 DEF ListenerInv
  <2>4. CountInv'
    <3>1. ASSUME NEW c \in Conns, Ending(c) PROVE counted = {}
      BY <2>1, <3>1 DEF CountInv
    <3> QED
      BY <3>1 DEF CountInv, Serving, Ending
  <2>5. WaiterInv'
    BY DEF WaiterInv
  <2>6. GracefulStop'
    BY DEF GracefulStop
  <2> QED
    BY <2>2, <2>3, <2>4, <2>5, <2>6 DEF StopInv
<1>2. CASE Startup
  <2>1. UNCHANGED <<server, main>> /\ serverRun' = "begin" /\ serverRun = "none"
    BY <1>2 DEF Startup, TypeInv, RunsInv
  <2> QED
    BY <2>1, QuietStep
<1>3. CASE ServerBegins \/ ListenFails \/ ServerEnds \/ ClientEnds
  <2>1. /\ UNCHANGED <<server, main>>
        /\ \/ serverRun = "begin" /\ serverRun' = "listen"
           \/ serverRun' = "over"
           \/ UNCHANGED serverRun
    BY <1>3, Zenon DEF ServerBegins, ListenFails, ServerEnds, ClientEnds, app
  <2> QED
    BY <2>1, QuietStep DEF Over, TypeInv, TypeOK
<1> QED
  BY <1>1, <1>2, <1>3, Zenon DEF Runs


LEMMA AcceptStop ==
  ASSUME TypeInv, StopInv, NEW c \in Conns, Connect(c) \/ Accept(c)
  PROVE  StopInv'
<1> USE DEF StopInv, TypeInv, TypeOK
<1>1. listener = "open" /\ UNCHANGED <<main, serverRun, listener, counted, waiter>>
  BY DEF Connect, Accept, ListenerInv, app
<1>2. /\ conn' = [conn EXCEPT ![c] = conn'[c]]
      /\ \/ conn'[c] = "queued" /\ UNCHANGED acceptor
         \/ conn'[c] = "inhand" /\ acceptor = "accepting" /\ acceptor' = "inhand"
  BY DEF Connect, Accept
<1>3. HandInv'
  BY <1>2 DEF HandInv, InHand
<1>4. ListenerInv'
  BY <1>1, <1>2 DEF ListenerInv
<1>5. CountInv'
  BY <1>1, <1>2 DEF CountInv, Serving, Ending
<1>6. WaiterInv' /\ GracefulStop'
  BY <1>1 DEF WaiterInv, GracefulStop
<1> QED
  BY <1>3, <1>4, <1>5, <1>6 DEF StopInv

\* Add either counts a handler before it runs, or panics while the waiter is
\* still to be released.
LEMMA AddStop ==
  ASSUME TypeInv, StopInv, NEW c \in Conns, StartHandler(c)
  PROVE  StopInv'
<1> USE DEF StopInv, TypeInv, TypeOK, StartHandler
<1>1. InHand(c) /\ acceptor = "inhand" /\ UNCHANGED <<main, serverRun, waiter>>
  BY DEF InHand, app
<1>2. counted' = counted \cup {c}
  OBVIOUS
<1>3. CASE counted = {} /\ waiter = "parked"
  <2>1. acceptor' = "over" /\ listener' = "closed"
    BY <1>3
  <2>2. \A d \in Conns : conn'[d] = IF d = c THEN "leaked"
                                    ELSE IF conn[d] = "queued" THEN "away" ELSE conn[d]
    BY <1>3
  <2>3. HandInv'
    BY <1>1, <2>2 DEF HandInv, InHand
  <2>4. ListenerInv'
    BY <1>1, <2>1, <2>2 DEF ListenerInv
  <2>5. CountInv'
    BY <1>1, <1>2, <1>3, <2>1, <2>2 DEF CountInv, Serving, Ending
  <2>6. WaiterInv' /\ GracefulStop'
    BY <1>1, <1>3 DEF WaiterInv, GracefulStop
  <2> QED
    BY <2>3, <2>4, <2>5, <2>6 DEF StopInv
<1>4. CASE ~(counted = {} /\ waiter = "parked")
  <2>1. acceptor' = "accepting" /\ UNCHANGED listener
        /\ conn' = [conn EXCEPT ![c] = "serving"]
    BY <1>4
  <2>2. HandInv'
    BY <1>1, <2>1 DEF HandInv, InHand
  <2>3. ListenerInv'
    BY <1>1, <2>1 DEF ListenerInv
  <2>4. \A d \in Conns : ~Ending(d)
    BY <1>1, <1>4 DEF CountInv
  <2>5. CountInv'
    BY <1>2, <2>1, <2>4 DEF CountInv, Serving, Ending
  <2>6. WaiterInv'
    BY <1>1 DEF WaiterInv
  <2>7. GracefulStop'
    BY <1>1, <2>1 DEF GracefulStop, InHand
  <2> QED
    BY <2>2, <2>3, <2>5, <2>6, <2>7 DEF StopInv
<1> QED
  BY <1>3, <1>4

LEMMA DoneStop ==
  ASSUME TypeInv, StopInv, NEW c \in Conns, HandlerEnds(c)
  PROVE  StopInv'
<1> USE DEF StopInv, TypeInv, TypeOK, HandlerEnds
<1>1. Serving(c) /\ UNCHANGED <<main, serverRun, listener, acceptor, waiter>>
  BY DEF Serving, app
<1>2. counted' = counted \ {c} /\ conn' = [conn EXCEPT ![c] = conn'[c]]
  OBVIOUS
<1>3. conn'[c] = IF counted = {c} /\ waiter = "parked" THEN "ending" ELSE "away"
  OBVIOUS
<1>4. \A d \in Conns : ~Ending(d)
  BY <1>1 DEF CountInv
<1>5. HandInv'
  BY <1>1, <1>2, <1>3 DEF HandInv, InHand
<1>6. ListenerInv'
  BY <1>1, <1>2, <1>3 DEF ListenerInv
<1>7. CountInv'
  BY <1>1, <1>2, <1>3, <1>4 DEF CountInv, Serving, Ending
<1>8. WaiterInv'
  BY <1>1 DEF WaiterInv
<1>9. GracefulStop'
  BY <1>1, <1>2, <1>3 DEF GracefulStop, Serving
<1> QED
  BY <1>5, <1>6, <1>7, <1>8, <1>9 DEF StopInv

\* The waiter returns when nobody is counted: those who are left are not served.
LEMMA WaiterStop ==
  ASSUME TypeInv, StopInv, WaitBegins \/ WaitReturns
  PROVE  StopInv'
<1> USE DEF StopInv, TypeInv, TypeOK
<1>1. UNCHANGED <<serverRun, listener, acceptor, conn, counted>>
  BY Zenon DEF WaitBegins, WaitReturns, app
<1>2. waiter \in {"begin", "released"} /\ (waiter' = "returned" => counted = {})
  BY DEF WaitBegins, WaitReturns
<1>3. main' = main \/ main' = "crashed"
  BY Zenon DEF WaitBegins, WaitReturns, app
<1>4. HandInv' /\ ListenerInv'
  BY <1>1 DEF HandInv, ListenerInv, InHand
<1>5. \A c \in Conns : ~Ending(c)
  BY <1>2 DEF CountInv
<1>6. CountInv'
  BY <1>1, <1>5 DEF CountInv, Serving, Ending
<1>7. WaiterInv'
  BY <1>2, <1>3 DEF WaiterInv, Over
<1>8. GracefulStop'
  <2> SUFFICES ASSUME waiter' = "returned", listener = "closed",
                      NEW c \in Conns, NEW d \in Conns,
                      {conn[c], conn[d]} \subseteq {"queued", "inhand", "serving", "ending"}
               PROVE  c = d
    BY <1>1 DEF GracefulStop
  <2>1. InHand(c) /\ InHand(d)
    BY <1>2, <1>5 DEF CountInv, ListenerInv, InHand, Serving, Ending
  <2> QED
    BY <2>1 DEF HandInv
<1> QED
  BY <1>4, <1>6, <1>7, <1>8 DEF StopInv

LEMMA ReleaseStop ==
  ASSUME TypeInv, StopInv, NEW c \in Conns, ReleaseWaiter(c)
  PROVE  StopInv'
<1> USE DEF StopInv, TypeInv, TypeOK
<1>1. Ending(c) /\ UNCHANGED <<serverRun, listener, acceptor>>
  BY DEF ReleaseWaiter, Ending
<1>2. CASE main' = "crashed" /\ UNCHANGED <<conn, counted, waiter>>
  BY <1>1, <1>2 DEF HandInv, ListenerInv, CountInv, WaiterInv, GracefulStop, InHand,
                    Serving, Ending, Over
<1>3. CASE /\ waiter' = "released" /\ counted' = {} /\ UNCHANGED main
           /\ conn' = [conn EXCEPT ![c] = "away"]
  <2>1. \A d \in Conns : ~Serving(d) /\ (Ending(d) => d = c)
    BY <1>1 DEF CountInv
  <2>2. waiter = "parked"
    BY <1>1 DEF CountInv
  <2>3. HandInv'
    BY <1>1, <1>3 DEF HandInv, InHand
  <2>4. ListenerInv'
    BY <1>1, <1>3 DEF ListenerInv
  <2>5. CountInv'
    BY <1>3, <2>1 DEF CountInv, Serving, Ending
  <2>6. WaiterInv' /\ GracefulStop'
    BY <1>3, <2>2 DEF WaiterInv, GracefulStop
  <2> QED
    BY <2>3, <2>4, <2>5, <2>6 DEF StopInv
<1> QED
  BY <1>2, <1>3, Zenon DEF ReleaseWaiter

LEMMA ConnectionStop == ASSUME TypeInv, StopInv, Connections PROVE StopInv'
<1>1. CASE AcceptEnds
  <2>1. /\ acceptor = "accepting" /\ acceptor' = "over"
        /\ UNCHANGED <<main, serverRun, listener, conn, counted, waiter>>
    BY <1>1 DEF AcceptEnds, app
  <2> QED
    BY <2>1 DEF StopInv, HandInv, ListenerInv, CountInv, WaiterInv, GracefulStop,
                InHand, Serving, Ending
<1> QED
  BY <1>1, AcceptStop, AddStop, DoneStop, WaiterStop, ReleaseStop, Zenon DEF Connections

LEMMA StopStep == TypeInv /\ StopInv /\ [Next]_vars => StopInv'
<1> SUFFICES ASSUME TypeInv, StopInv, [Next]_vars PROVE StopInv'
  OBVIOUS
<1>1. CASE UNCHANGED vars
  <2>1. UNCHANGED <<server, serverRun, main>>
    BY <1>1 DEF vars, app
  <2> QED
    BY <2>1, QuietStep
<1> QED
  BY <1>1, SignalStop, MainStop, RunStop, ConnectionStop DEF Next

\* After "all connections closed" the connection that acceptConnections had in
\* hand is the only one that can be left.
THEOREM StopIsGraceful == Spec => []GracefulStop
<1>1. StopInv => GracefulStop
  BY DEF StopInv
<1> QED
  BY <1>1, TypeInit, TypeStep, StopInit, StopStep, PTL DEF Spec

=============================================================================
